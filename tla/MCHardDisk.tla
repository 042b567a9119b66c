----------------------------- MODULE MCHardDisk -----------------------------
(* Three partitions: two of two blocks and one that is empty. *)
EXTENDS HardDisk

MCStart == [d \in 1 .. 3 |-> IF d = 1 THEN 0 ELSE 4]
MCSize  == [d \in 1 .. 3 |-> IF d = 3 THEN 0 ELSE 4]

MCBuffers == {<<1, 0>>, <<1, 1>>, <<3, 0>>}
=============================================================================
