--------------------------- MODULE MCBufferCache ---------------------------
EXTENDS BufferCache, TLC

CONSTANTS t1, t2, k1, k2, k3, hd, fd

(* Two blocks of a disk and one of a diskette. *)
Device == (k1 :> hd) @@ (k2 :> hd) @@ (k3 :> fd)

(* One process reads and writes with read-ahead and loads pages, the other *)
(* writes, syncs and changes the diskette.                                 *)
Callers == (t1 :> {<<"breada", "no">>, <<"breada", "after">>, <<"bread_page", "no">>})
        @@ (t2 :> {<<"bread", "before">>, <<"getblk", "after">>,
                   <<"sync", "no">>, <<"invalidate", "no">>})

(* The states up to the first write that is lost. *)
Sound == excused = {}

(* Buffers and the blocks of the disk are interchangeable. *)
Symmetry == Permutations(Buffers) \cup Permutations({k1, k2})
=============================================================================
