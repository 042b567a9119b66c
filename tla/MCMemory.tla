------------------------------ MODULE MCMemory ------------------------------
EXTENDS Memory, TLC

(* A page of the file and one of the heap in one page table, and the stack *)
(* page in another.                                                        *)
MCTable == [v \in Pages |-> IF v = Stack THEN 2 ELSE 1]

(* Frames, and the processes but the first, are interchangeable. *)
Symmetry == Permutations(Frames) \cup Permutations(Tasks \ {First})
=============================================================================
