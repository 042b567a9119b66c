--------------------------- MODULE MCBlockRequest ---------------------------
EXTENDS BlockRequest, TLC

(* Tasks and buffers are interchangeable. *)
Symmetry == Permutations(Tasks) \cup Permutations(Buffers)

(* The states before the two events that make sleepers be forgotten. *)
Regular == overlap = {} /\ ~slipped
=============================================================================
