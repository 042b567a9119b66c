---------------------------- MODULE RequestQueue ----------------------------
(***************************************************************************)
(* The request list of one block device: the elevator of add_request in    *)
(* kernel/blk_drv/ll_rw_blk.c and the removal of the finished request by   *)
(* end_request.  The list that starts at dev->current_request is a         *)
(* sequence; requests are compared by IN_ORDER of blk.h.                   *)
(***************************************************************************)
EXTENDS Naturals, Sequences

CONSTANTS Devices,      \* the minor devices that share the list
          Blocks,       \* the block numbers
          NR_REQUEST    \* the request slots

ASSUME RequestAssumption == /\ Devices \subseteq Nat
                            /\ Blocks \subseteq Nat
                            /\ NR_REQUEST \in Nat

READ  == 0
WRITE == 1

Requests == [cmd : {READ, WRITE}, dev : Devices, block : Blocks]

IN_ORDER(a, b) ==
    \/ a.cmd < b.cmd
    \/ /\ a.cmd = b.cmd
       /\ \/ a.dev < b.dev
          \/ a.dev = b.dev /\ a.block < b.block

(* Faulty variant of Fits: the wrap between two sweeps is no place to      *)
(* insert.                                                                 *)
FitsNoWrap(q, i, r) == /\ i < Len(q)
                       /\ IN_ORDER(q[i], r)
                       /\ IN_ORDER(r, q[i+1])

(* Faulty variant of Fits: the list is simply kept sorted. *)
FitsSorted(q, i, r) == i < Len(q) /\ IN_ORDER(r, q[i+1])

(* add_request leaves its loop at the i-th request of the list *)
Fits(q, i, r) == /\ i < Len(q)
                 /\ IN_ORDER(q[i], r) \/ ~IN_ORDER(q[i], q[i+1])
                 /\ IN_ORDER(r, q[i+1])

(* the first such request, or the last one of the list *)
InsertPoint(q, r, i) == /\ i \in 1 .. Len(q)
                        /\ Fits(q, i, r) \/ i = Len(q)
                        /\ \A j \in 1 .. i - 1 : ~Fits(q, j, r)

(* req->next = tmp->next; tmp->next = req, with tmp the i-th request *)
InsertAfter(q, i, r) ==
    [j \in 1 .. Len(q) + 1 |-> IF j <= i THEN q[j]
                               ELSE IF j = i + 1 THEN r ELSE q[j-1]]

VARIABLE queue

QueueInit == queue = <<>>

(* A block has one buffer, which is locked while it is in the list. *)
Listed(r) == \E i \in 1 .. Len(queue) : /\ queue[i].dev = r.dev
                                        /\ queue[i].block = r.block

add_request(r) ==
    /\ ~Listed(r)
    /\ Len(queue) < NR_REQUEST
    /\ \/ queue = <<>> /\ queue' = <<r>>
       \/ \E i \in 1 .. Len(queue) : /\ InsertPoint(queue, r, i)
                                     /\ queue' = InsertAfter(queue, i, r)

end_request == queue # <<>> /\ queue' = Tail(queue)

QueueNext == (\E r \in Requests : add_request(r)) \/ end_request

QueueSpec == QueueInit /\ [][QueueNext]_queue

(* The driver finishes, with or without success, every request it starts. *)
FairQueueSpec == QueueSpec /\ WF_queue(end_request)

-----------------------------------------------------------------------------
QueueTypeOK == queue \in Seq(Requests) /\ Len(queue) <= NR_REQUEST

(* No block is listed twice. *)
Distinct == \A i, j \in 1 .. Len(queue) :
    queue[i].dev = queue[j].dev /\ queue[i].block = queue[j].block => i = j

Descent(i) == i \in 1 .. Len(queue) - 1 /\ ~IN_ORDER(queue[i], queue[i+1])

(* What the elevator is for: from the current request on, the list is the  *)
(* rest of one sweep followed by at most one more sweep, however requests  *)
(* came and went.                                                          *)
OneWrap == \A i, j \in 1 .. Len(queue) : Descent(i) /\ Descent(j) => i = j

(* No stream of new requests keeps a listed one waiting for ever: what is  *)
(* put in front of it belongs to its sweep, and a sweep ends.              *)
EveryRequestServed ==
    \A r \in Requests :
        (\E i \in 1 .. Len(queue) : queue[i] = r)
            ~> (queue # <<>> /\ queue[1] = r)

QueueInvariant == QueueTypeOK /\ Distinct /\ OneWrap
=============================================================================
