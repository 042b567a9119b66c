---------------------------- MODULE MCWaitQueue ----------------------------
(* Instances of WaitQueue for TLC: the tasks are interchangeable, and what *)
(* happens after a stray store, which no property speaks of, is cut off.   *)
EXTENDS WaitQueue, TLC

TaskSymmetry == Permutations(Tasks)
BeforeStray  == ~stray
=============================================================================
