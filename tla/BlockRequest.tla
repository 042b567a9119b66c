---------------------------- MODULE BlockRequest ----------------------------
(***************************************************************************)
(* kernel/blk_drv/ll_rw_blk.c with its callers of fs/buffer.c: processes   *)
(* that lock buffers, look for a free request, sleep when there is none    *)
(* and wait for their buffers, while the interrupt handlers of the drivers *)
(* end requests.  Which of the listed requests the driver ends next is the *)
(* subject of RequestQueue; here it may be any.                            *)
(*                                                                         *)
(* A process keeps the processor (cur) until it sleeps or is in user mode. *)
(* Interrupts come between any two actions.  lock_buffer and               *)
(* wait_on_buffer run with interrupts off and are one action each; the     *)
(* search for a request and the sleep on wait_for_request run with         *)
(* interrupts on, and that sleep_on is three actions: it saves the head of *)
(* the queue, makes itself the head, and stops running.                    *)
(***************************************************************************)
EXTENDS Naturals, SleepOn

CONSTANTS Buffers,     \* the wait queue b_wait of each buffer, in its stead
          NR_REQUEST,  \* the request slots
          wait_for_request

ASSUME BlockAssumption == /\ NR_REQUEST \in Nat \ {0}
                          /\ Queues = Buffers \cup {wait_for_request}
                          /\ wait_for_request \notin Buffers
                          /\ Null \notin Tasks \cup Queues
ASSUME WritesHaveRoom == (NR_REQUEST * 2) \div 3 > 0   \* NR_REQUEST is 32

VARIABLES
  k,         \* task states and wait queues
  cur,       \* the running process, Null while schedule() chooses
  pc,        \* where each process is
  call,      \* its call of ll_rw_block: [rw, ahead, bh]
  slot,      \* the buffer and command of each request in use
  lock, dirt, uptodate,    \* the buffers
  failed,    \* history: the buffers with a failed transfer
  overlap,   \* history: queues entered before a woken process left them
  slipped    \* history: a request ended between the search for a free one
             \* and the sleep on wait_for_request

bufs == <<lock, dirt, uptodate>>
hist == <<failed, overlap, slipped>>
vars == <<k, cur, pc, call, slot, bufs, hist>>

READ  == "read"
WRITE == "write"
NoCall == [rw |-> READ, ahead |-> FALSE, bh |-> Null]
Free == [bh |-> Null, cmd |-> READ]
Slots == 1 .. NR_REQUEST

TypeOK == /\ k \in KernelStates
          /\ cur \in Tasks \cup {Null}
          /\ pc \in [Tasks -> {"user", "lock", "scan", "window", "saved",
                               "linked", "wait"}]
          /\ call \in [Tasks -> [rw : {READ, WRITE}, ahead : BOOLEAN,
                                 bh : Buffers \cup {Null}]]
          /\ slot \in [Slots -> [bh : Buffers \cup {Null},
                                 cmd : {READ, WRITE}]]
          /\ lock \subseteq Buffers /\ dirt \subseteq Buffers
          /\ uptodate \subseteq Buffers /\ failed \subseteq Buffers
          /\ overlap \subseteq Queues /\ slipped \in BOOLEAN

Init == /\ k = KernelInit
        /\ cur = Null
        /\ pc = [t \in Tasks |-> "user"]
        /\ call = [t \in Tasks |-> NoCall]
        /\ slot = [i \in Slots |-> Free]
        /\ lock = {} /\ dirt = {} /\ uptodate = {}
        /\ failed = {} /\ overlap = {} /\ slipped = FALSE

Goto(t, l) == pc' = [pc EXCEPT ![t] = l]
At(t, l)   == cur = t /\ pc[t] = l

(* t sleeps on q: the queue, and its history *)
SleepsOn(t, q) ==
    /\ k' = sleep_on(k, t, q)
    /\ overlap' = overlap \cup
           {p \in {q} : \E u \in Members(k, q) : k.state[u] = RUNNING}
    /\ cur' = Null

(* t's call of ll_rw_block returns.  Readers go on to wait_on_buffer, and  *)
(* the others leave the request to itself.                                 *)
Return(t) ==
    IF call[t].rw = READ /\ ~call[t].ahead
    THEN Goto(t, "wait") /\ UNCHANGED call
    ELSE Goto(t, "user") /\ call' = [call EXCEPT ![t] = NoCall]

-----------------------------------------------------------------------------
(* schedule() picks a runnable process, which goes on after its sleep_on *)
schedule(t) ==
    /\ cur = Null /\ k.state[t] = RUNNING
    /\ cur' = t
    /\ k' = IF k.at[t] = Null THEN k ELSE SleepLeave(k, t)
    /\ UNCHANGED <<pc, call, slot, bufs, hist>>

Preempt(t) ==
    /\ At(t, "user")
    /\ cur' = Null
    /\ UNCHANGED <<k, pc, call, slot, bufs, hist>>

(* A process changes the buffer it has read. *)
Modify(t, b) ==
    /\ At(t, "user") /\ b \in uptodate
    /\ dirt' = dirt \cup {b}
    /\ UNCHANGED <<k, cur, pc, call, slot, lock, uptodate, hist>>

(* getblk gives an unused, clean buffer to another block. *)
Reuse(t, b) ==
    /\ At(t, "user") /\ b \notin lock \cup dirt
    /\ \A u \in Tasks : call[u].bh # b
    /\ uptodate' = uptodate \ {b}
    /\ failed' = failed \ {b}
    /\ UNCHANGED <<k, cur, pc, call, slot, lock, dirt, overlap, slipped>>

(* bread, breada and sys_sync call ll_rw_block; a read-ahead of a buffer   *)
(* that is locked is forgotten                                             *)
ll_rw_block(t, rw, ahead, b) ==
    /\ At(t, "user")
    /\ IF rw = READ THEN b \notin uptodate ELSE b \in dirt
    /\ ahead => b \notin lock
    /\ call' = [call EXCEPT ![t] = [rw |-> rw, ahead |-> ahead, bh |-> b]]
    /\ Goto(t, "lock")
    /\ UNCHANGED <<k, cur, slot, bufs, hist>>

(* lock_buffer finds the buffer locked *)
lock_buffer_wait(t) ==
    /\ At(t, "lock") /\ call[t].bh \in lock
    /\ SleepsOn(t, call[t].bh)
    /\ UNCHANGED <<pc, call, slot, bufs, failed, slipped>>

(* Under the lock the transfer turns out not to be needed any more. *)
Unneeded(t) == \/ call[t].rw = WRITE /\ call[t].bh \notin dirt
               \/ call[t].rw = READ /\ call[t].bh \in uptodate

(* lock_buffer; when there is nothing to do, unlock_buffer and return *)
lock_buffer(t) ==
    LET b == call[t].bh
    IN /\ At(t, "lock") /\ b \notin lock
       /\ \/ /\ Unneeded(t)
             /\ k' = wake_up(k, b)
             /\ Return(t)
             /\ UNCHANGED lock
          \/ /\ ~Unneeded(t)
             /\ lock' = lock \cup {b}
             /\ Goto(t, "scan")
             /\ UNCHANGED <<k, call>>
       /\ UNCHANGED <<cur, slot, dirt, uptodate, hist>>

(* The slots the search looks at, from the last one down: a write must     *)
(* leave the last third to reads.                                          *)
Searched(rw) == 1 .. (IF rw = READ THEN NR_REQUEST ELSE (NR_REQUEST * 2) \div 3)
FreeSlots(rw) == {i \in Searched(rw) : slot[i].bh = Null}

(* a free request is filled in and listed *)
add_request(t) ==
    LET rw == call[t].rw
        b  == call[t].bh
    IN \E i \in FreeSlots(rw) :
           /\ \A j \in FreeSlots(rw) : j <= i
           /\ slot' = [slot EXCEPT ![i] = [bh |-> b, cmd |-> rw]]
           /\ dirt' = dirt \ {b}

(* the rest of make_request, when the search finds a request *)
make_request(t) ==
    /\ At(t, "scan")
    /\ add_request(t)
    /\ Return(t)
    /\ UNCHANGED <<k, cur, lock, uptodate, hist>>

(* Faulty variant: a read-ahead gives up and leaves its buffer locked. *)
NoFreeRequestKeeps(t) ==
    /\ At(t, "scan") /\ FreeSlots(call[t].rw) = {}
    /\ IF call[t].ahead THEN Return(t) ELSE Goto(t, "window") /\ UNCHANGED call
    /\ UNCHANGED <<k, cur, slot, bufs, hist>>

(* the search finds none: a read-ahead gives up, others are to sleep *)
NoFreeRequest(t) ==
    LET b == call[t].bh
    IN /\ At(t, "scan") /\ FreeSlots(call[t].rw) = {}
       /\ \/ /\ call[t].ahead
             /\ lock' = lock \ {b}
             /\ k' = wake_up(k, b)
             /\ Return(t)
          \/ /\ ~call[t].ahead
             /\ Goto(t, "window")
             /\ UNCHANGED <<k, call, lock>>
       /\ UNCHANGED <<cur, slot, dirt, uptodate, hist>>

(* sleep_on(&wait_for_request), statement by statement *)
SleepSaves(t) ==
    /\ At(t, "window")
    /\ k' = [k EXCEPT !.tmp[t] = k.head[wait_for_request]]
    /\ Goto(t, "saved")
    /\ UNCHANGED <<cur, call, slot, bufs, hist>>

SleepLinks(t) ==
    /\ At(t, "saved")
    /\ k' = [k EXCEPT !.head[wait_for_request] = t]
    /\ overlap' = overlap \cup
           {q \in {wait_for_request} :
               \E u \in Members(k, q) : k.state[u] = RUNNING}
    /\ Goto(t, "linked")
    /\ UNCHANGED <<cur, call, slot, bufs, failed, slipped>>

SleepStops(t) ==
    /\ At(t, "linked")
    /\ k' = [k EXCEPT !.state[t] = UNINTERRUPTIBLE,
                      !.at[t]    = wait_for_request]
    /\ Goto(t, "scan")
    /\ cur' = Null
    /\ UNCHANGED <<call, slot, bufs, hist>>

(* Faulty variant: the lock is not looked at. *)
wait_on_bufferNever(t) ==
    /\ At(t, "wait")
    /\ Goto(t, "user")
    /\ call' = [call EXCEPT ![t] = NoCall]
    /\ UNCHANGED <<k, cur, slot, bufs, hist>>

(* wait_on_buffer *)
wait_on_buffer(t) ==
    /\ At(t, "wait")
    /\ \/ /\ call[t].bh \in lock
          /\ SleepsOn(t, call[t].bh)
          /\ UNCHANGED <<pc, call>>
       \/ /\ call[t].bh \notin lock
          /\ Goto(t, "user")
          /\ call' = [call EXCEPT ![t] = NoCall]
          /\ UNCHANGED <<k, cur, overlap>>
    /\ UNCHANGED <<slot, bufs, failed, slipped>>

(* Faulty variant: the processes without a request are not woken. *)
WokenBuffer(b) == wake_up(k, b)

(* the wake_ups of end_request *)
Woken(b) == wake_up(wake_up(k, b), wait_for_request)

(* an interrupt handler ends request i, with or without success *)
end_request(i, ok) ==
    LET b == slot[i].bh
    IN /\ b # Null
       /\ uptodate' = IF ok THEN uptodate \cup {b} ELSE uptodate \ {b}
       /\ failed' = IF ok THEN failed ELSE failed \cup {b}
       /\ lock' = lock \ {b}
       /\ k' = Woken(b)
       /\ slot' = [slot EXCEPT ![i] = Free]
       /\ slipped' = (slipped \/ \E t \in Tasks :
                                     pc[t] \in {"window", "saved", "linked"})
       /\ UNCHANGED <<cur, pc, call, dirt, overlap>>

Next == \/ \E t \in Tasks :
              \/ schedule(t) \/ Preempt(t)
              \/ \E b \in Buffers :
                    \/ Modify(t, b) \/ Reuse(t, b)
                    \/ ll_rw_block(t, READ, FALSE, b)
                    \/ ll_rw_block(t, READ, TRUE, b)
                    \/ ll_rw_block(t, WRITE, FALSE, b)
              \/ lock_buffer_wait(t) \/ lock_buffer(t)
              \/ make_request(t) \/ NoFreeRequest(t)
              \/ SleepSaves(t) \/ SleepLinks(t) \/ SleepStops(t)
              \/ wait_on_buffer(t)
        \/ \E i \in Slots, ok \in BOOLEAN : end_request(i, ok)

Spec == Init /\ [][Next]_vars

-----------------------------------------------------------------------------
(* the processes inside make_request that have locked b *)
Holders(b)  == {t \in Tasks : /\ call[t].bh = b
                              /\ pc[t] \in {"scan", "window", "saved", "linked"}}
Requests(b) == {i \in Slots : slot[i].bh = b}

(* The lock of a buffer has one holder: the process that looks for a       *)
(* request for it, or the request.  So no block has two requests, and the  *)
(* panic "block not locked" of CHECK_REQUEST cannot happen.                *)
OneHolder ==
    \A b \in Buffers :
        /\ b \in lock <=> Holders(b) \cup Requests(b) # {}
        /\ Holders(b) = {} \/ Requests(b) = {}
        /\ \A t, u \in Holders(b) : t = u
        /\ \A i, j \in Requests(b) : i = j

(* What a process waits for is on its way: the buffer it sleeps on is      *)
(* locked or a woken process passes the wake-up on, and when it waits for  *)
(* a request, one is in use and will end.  Two things can break it: a      *)
(* queue that is entered while a woken process has not left it, and a      *)
(* request that ends between the search and the sleep.                     *)
WaitsForSomething ==
    \A q \in Queues :
        overlap = {} /\ ~slipped =>
            \A t \in Members(k, q) :
                \/ \E u \in Members(k, q) : k.state[u] = RUNNING
                \/ IF q = wait_for_request THEN \E i \in Slots : slot[i] # Free
                                           ELSE q \in lock

(* What buffer.c says of bread: it "returns NULL if the block was          *)
(* unreadable".  A reader that comes out of wait_on_buffer has its block,  *)
(* unless a transfer of it has failed.                                     *)
ReadOrFailed ==
    [][\A t \in Tasks : pc[t] = "wait" /\ pc'[t] = "user" =>
           call[t].bh \in uptodate \cup failed]_vars

(* The inductive invariant of the proofs: a process inside make_request    *)
(* has a buffer, and every locked buffer has one holder.                   *)
Called == \A t \in Tasks : pc[t] # "user" <=> call[t].bh # Null
IInv   == TypeOK /\ Called /\ OneHolder
=============================================================================
