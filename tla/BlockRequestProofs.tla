------------------------- MODULE BlockRequestProofs -------------------------
(* Proofs that a buffer's lock has one holder and that readers get their   *)
(* blocks, whatever happens to the wait queues, and that nobody sleeps for *)
(* nothing until a queue is entered too early or a request slips past: for *)
(* every number of processes, buffers and request slots.                   *)
EXTENDS BlockRequest, TLAPS

USE DEF RUNNING, INTERRUPTIBLE, UNINTERRUPTIBLE, ZOMBIE, READ, WRITE

(* The wait-queue primitives return kernel states. *)
LEMMA WakeUpType ==
    ASSUME BlockAssumption, NEW s \in KernelStates, NEW q \in Queues
    PROVE  wake_up(s, q) \in KernelStates
  BY DEF KernelStates, States, wake_up, MakeRunning, BlockAssumption

LEMMA SleepLeaveType ==
    ASSUME BlockAssumption, k \in KernelStates, NEW t \in Tasks,
           k.at[t] # Null
    PROVE  SleepLeave(k, t) \in KernelStates
  BY DEF KernelStates, States, SleepLeave, MakeRunning, BlockAssumption

LEMMA SleepsOnType ==
    ASSUME BlockAssumption, TypeOK, NEW t \in Tasks, NEW q \in Queues,
           SleepsOn(t, q)
    PROVE  k' \in KernelStates /\ cur' = Null /\ overlap' \subseteq Queues
  BY DEF SleepsOn, sleep_on, SleepEnter, KernelStates, States, TypeOK

(* The lock is disturbed only by who holds it, by requests and by the lock *)
(* itself.                                                                 *)
LEMMA HoldersSame ==
    ASSUME OneHolder, lock' = lock, slot' = slot,
           \A b \in Buffers : Holders(b)' = Holders(b)
    PROVE  OneHolder'
  BY DEF OneHolder, Requests

(* What Return does to the program counters and calls. *)
LEMMA ReturnFields ==
    ASSUME BlockAssumption, IInv, NEW t \in Tasks, pc[t] # "user", Return(t)
    PROVE  /\ pc' \in [Tasks -> {"user", "lock", "scan", "window", "saved",
                                 "linked", "wait"}]
           /\ call' \in [Tasks -> [rw : {READ, WRITE}, ahead : BOOLEAN,
                                 bh : Buffers \cup {Null}]]
           /\ Called'
           /\ pc'[t] \in {"user", "wait"}
           /\ \A u \in Tasks \ {t} : pc'[u] = pc[u] /\ call'[u] = call[u]
  <1>1. NoCall \in [rw : {READ, WRITE}, ahead : BOOLEAN,
                    bh : Buffers \cup {Null}] /\ NoCall.bh = Null
    BY DEF NoCall
  <1>2. CASE pc' = [pc EXCEPT ![t] = "wait"] /\ call' = call
    BY <1>2 DEF IInv, TypeOK, Called
  <1>3. CASE /\ pc' = [pc EXCEPT ![t] = "user"]
             /\ call' = [call EXCEPT ![t] = NoCall]
    BY <1>1, <1>3 DEF IInv, TypeOK, Called
  <1> QED  BY <1>2, <1>3 DEF Return, Goto

LEMMA InitIInv == ASSUME BlockAssumption, Init PROVE IInv
  <1>1. TypeOK /\ Called
    BY DEF Init, TypeOK, Called, KernelStates, KernelInit, States, NoCall,
           Free, Slots, BlockAssumption
  <1>2. \A b \in Buffers : Holders(b) = {} /\ Requests(b) = {}
    BY DEF Init, Holders, Requests, NoCall, Free, Slots, BlockAssumption
  <1> QED  BY <1>1, <1>2 DEF Init, OneHolder, IInv

LEMMA ScheduleStep ==
    ASSUME BlockAssumption, IInv, NEW t \in Tasks, schedule(t) \/ Preempt(t)
    PROVE  IInv'
  <1>1. TypeOK'
    BY SleepLeaveType DEF IInv, TypeOK, schedule, Preempt, bufs, hist
  <1>2. Called'  BY DEF IInv, Called, schedule, Preempt
  <1>3. OneHolder'
    BY HoldersSame DEF IInv, Holders, schedule, Preempt, bufs
  <1> QED  BY <1>1, <1>2, <1>3 DEF IInv

LEMMA UserStep ==
    ASSUME BlockAssumption, IInv, NEW t \in Tasks, NEW b \in Buffers,
           Modify(t, b) \/ Reuse(t, b)
    PROVE  IInv'
  <1>1. TypeOK'  BY DEF IInv, TypeOK, Modify, Reuse, hist
  <1>2. Called'  BY DEF IInv, Called, Modify, Reuse
  <1>3. OneHolder'
    BY HoldersSame DEF IInv, Holders, Modify, Reuse
  <1> QED  BY <1>1, <1>2, <1>3 DEF IInv

LEMMA CallStep ==
    ASSUME BlockAssumption, IInv, NEW t \in Tasks, NEW b \in Buffers,
           NEW rw \in {READ, WRITE}, NEW ahead \in BOOLEAN,
           ll_rw_block(t, rw, ahead, b)
    PROVE  IInv'
  <1> USE DEF ll_rw_block, At, Goto
  <1>1. TypeOK'  BY DEF IInv, TypeOK, bufs, hist
  <1>2. Called'  BY DEF IInv, Called, TypeOK, BlockAssumption
  <1>3. OneHolder'
    <2>1. \A c \in Buffers : Holders(c)' = Holders(c)
      BY DEF IInv, TypeOK, Holders
    <2> QED  BY <2>1, HoldersSame DEF IInv, bufs
  <1> QED  BY <1>1, <1>2, <1>3 DEF IInv

LEMMA WaitStep ==
    ASSUME BlockAssumption, IInv, NEW t \in Tasks,
           lock_buffer_wait(t) \/ wait_on_buffer(t)
    PROVE  IInv'
  <1>1. call[t].bh \in Buffers
    BY DEF IInv, TypeOK, Called, At, lock_buffer_wait, wait_on_buffer
  <1>2. TypeOK'
    <2>1. /\ pc' \in [Tasks -> {"user", "lock", "scan", "window", "saved",
                                "linked", "wait"}]
          /\ call' \in [Tasks -> [rw : {READ, WRITE}, ahead : BOOLEAN,
                                  bh : Buffers \cup {Null}]]
      <3>1. NoCall \in [rw : {READ, WRITE}, ahead : BOOLEAN,
                        bh : Buffers \cup {Null}]
        BY DEF NoCall
      <3> QED
        BY <3>1 DEF IInv, TypeOK, lock_buffer_wait, wait_on_buffer, Goto
    <2>2. /\ k' \in KernelStates
          /\ cur' \in Tasks \cup {Null}
          /\ overlap' \subseteq Queues
      BY <1>1, SleepsOnType DEF IInv, TypeOK, lock_buffer_wait,
           wait_on_buffer, BlockAssumption
    <2> QED
      BY <2>1, <2>2 DEF IInv, TypeOK, lock_buffer_wait, wait_on_buffer, bufs
  <1>3. Called'
    BY DEF IInv, Called, TypeOK, At, Goto, NoCall, lock_buffer_wait,
           wait_on_buffer
  <1>4. \A c \in Buffers : Holders(c)' = Holders(c)
    BY DEF IInv, TypeOK, Holders, At, Goto, NoCall, lock_buffer_wait,
           wait_on_buffer
  <1>5. OneHolder'
    BY <1>4, HoldersSame DEF IInv, bufs, lock_buffer_wait, wait_on_buffer
  <1> QED  BY <1>2, <1>3, <1>5 DEF IInv

(* lock_buffer makes t the one holder of its buffer, or lets it go at once. *)
LEMMA LockStep ==
    ASSUME BlockAssumption, IInv, NEW t \in Tasks, lock_buffer(t)
    PROVE  IInv'
  <1> DEFINE b == call[t].bh
  <1>1. b \in Buffers /\ b \in Queues /\ pc[t] = "lock" /\ b \notin lock
    BY DEF IInv, TypeOK, Called, At, lock_buffer, BlockAssumption
  <1>2. CASE Unneeded(t)
    <2>1. Return(t) /\ k' = wake_up(k, b) /\ lock' = lock
      BY <1>2 DEF lock_buffer
    <2>2. TypeOK' /\ Called'
      BY <1>1, <2>1, ReturnFields, WakeUpType
      DEF IInv, TypeOK, lock_buffer, hist
    <2>3. \A c \in Buffers : Holders(c)' = Holders(c)
      BY <1>1, <2>1, ReturnFields DEF Holders
    <2> QED  BY <2>1, <2>2, <2>3, HoldersSame DEF IInv, lock_buffer
  <1>3. CASE ~Unneeded(t)
    <2>1. /\ lock' = lock \cup {b} /\ slot' = slot /\ call' = call
          /\ pc' = [pc EXCEPT ![t] = "scan"]
      BY <1>3 DEF lock_buffer, Goto
    <2>2. TypeOK' /\ Called'
      BY <1>1, <1>3, <2>1 DEF IInv, TypeOK, Called, lock_buffer, hist
    <2>3. /\ Holders(b)' = Holders(b) \cup {t}
          /\ \A c \in Buffers \ {b} : Holders(c)' = Holders(c)
      BY <1>1, <2>1 DEF IInv, TypeOK, Holders
    <2>4. \A c \in Buffers : Requests(c)' = Requests(c)
      BY <2>1 DEF Requests
    <2>5. Holders(b) = {} /\ Requests(b) = {}
      BY <1>1 DEF IInv, OneHolder
    <2>6. OneHolder'
      BY <1>1, <2>1, <2>3, <2>4, <2>5 DEF IInv, OneHolder
    <2> QED  BY <2>2, <2>6 DEF IInv
  <1> QED  BY <1>2, <1>3

(* make_request hands the lock from t to the request. *)
LEMMA RequestStep ==
    ASSUME BlockAssumption, IInv, NEW t \in Tasks, make_request(t)
    PROVE  IInv'
  <1>0. PICK b : b = call[t].bh  OBVIOUS
  <1>1. b \in Buffers /\ pc[t] = "scan" /\ t \in Holders(b)
    BY <1>0 DEF IInv, TypeOK, Called, At, make_request, Holders
  <1>2. PICK i \in Slots :
            /\ slot[i].bh = Null
            /\ slot' = [slot EXCEPT ![i] = [bh |-> b, cmd |-> call[t].rw]]
            /\ dirt' = dirt \ {b}
    <2>1. Searched(call[t].rw) \subseteq Slots
      BY DEF Searched, Slots, BlockAssumption
    <2> QED  BY <1>0, <2>1 DEF make_request, add_request, FreeSlots
  <1>3. TypeOK' /\ Called'
    <2>1. slot' \in [Slots -> [bh : Buffers \cup {Null}, cmd : {READ, WRITE}]]
      BY <1>0, <1>1, <1>2 DEF IInv, TypeOK
    <2> QED
      BY <1>0, <1>1, <1>2, <2>1, ReturnFields DEF make_request, IInv, TypeOK,
         hist
  <1>4. /\ Holders(b)' = Holders(b) \ {t}
        /\ \A c \in Buffers \ {b} : Holders(c)' = Holders(c)
    BY <1>0, <1>1, ReturnFields DEF make_request, Holders
  <1>5. /\ Requests(b)' = Requests(b) \cup {i}
        /\ \A c \in Buffers \ {b} : Requests(c)' = Requests(c)
    BY <1>0, <1>1, <1>2 DEF Requests, IInv, TypeOK, BlockAssumption
  <1>6. Holders(b) = {t} /\ Requests(b) = {}
    BY <1>0, <1>1 DEF IInv, OneHolder
  <1>7. OneHolder'
    BY <1>0, <1>1, <1>4, <1>5, <1>6 DEF IInv, OneHolder, make_request
  <1> QED  BY <1>3, <1>7 DEF IInv

LEMMA NoFreeStep ==
    ASSUME BlockAssumption, IInv, NEW t \in Tasks, NoFreeRequest(t)
    PROVE  IInv'
  <1>0. PICK b : b = call[t].bh  OBVIOUS
  <1>1. b \in Buffers /\ b \in Queues /\ pc[t] = "scan" /\ t \in Holders(b)
    BY <1>0 DEF IInv, TypeOK, Called, At, NoFreeRequest, Holders,
       BlockAssumption
  <1>2. CASE call[t].ahead
    <2>1. Return(t) /\ k' = wake_up(k, b) /\ lock' = lock \ {b}
      BY <1>0, <1>2 DEF NoFreeRequest
    <2>2. TypeOK' /\ Called'
      BY <1>0, <1>1, <2>1, ReturnFields, WakeUpType
      DEF IInv, TypeOK, NoFreeRequest, hist
    <2>3. /\ Holders(b)' = Holders(b) \ {t}
          /\ \A c \in Buffers \ {b} : Holders(c)' = Holders(c)
      BY <1>0, <1>1, <2>1, ReturnFields DEF Holders
    <2>4. \A c \in Buffers : Requests(c)' = Requests(c)
      BY <1>0 DEF NoFreeRequest, Requests
    <2>5. Holders(b) = {t} /\ Requests(b) = {}
      BY <1>0, <1>1 DEF IInv, OneHolder
    <2>6. OneHolder'
      BY <1>0, <1>1, <2>1, <2>3, <2>4, <2>5 DEF IInv, OneHolder
    <2> QED  BY <1>0, <2>2, <2>6 DEF IInv
  <1>3. CASE ~call[t].ahead
    <2>1. /\ pc' = [pc EXCEPT ![t] = "window"]
          /\ k' = k /\ call' = call /\ lock' = lock /\ slot' = slot
      BY <1>0, <1>3 DEF NoFreeRequest, Goto
    <2>2. TypeOK' /\ Called'
      BY <1>0, <1>1, <2>1 DEF IInv, TypeOK, Called, NoFreeRequest, hist
    <2>3. \A c \in Buffers : Holders(c)' = Holders(c)
      BY <1>0, <1>1, <2>1 DEF IInv, TypeOK, Holders
    <2> QED  BY <1>0, <2>1, <2>2, <2>3, HoldersSame DEF IInv
  <1> QED  BY <1>2, <1>3

(* The statements of the sleep on wait_for_request leave the lock alone. *)
LEMMA SleepStep ==
    ASSUME BlockAssumption, IInv, NEW t \in Tasks,
           SleepSaves(t) \/ SleepLinks(t) \/ SleepStops(t)
    PROVE  IInv'
  <1> USE DEF SleepSaves, SleepLinks, SleepStops, At, Goto
  <1>1. k' \in KernelStates
    <2>1. k.head[wait_for_request] \in Tasks \cup {Null}
      BY DEF IInv, TypeOK, KernelStates, BlockAssumption
    <2>2. CASE SleepSaves(t)
      BY <2>1, <2>2 DEF IInv, TypeOK, KernelStates
    <2>3. CASE SleepLinks(t)
      BY <2>3 DEF IInv, TypeOK, KernelStates, BlockAssumption
    <2>4. CASE SleepStops(t)
      BY <2>4 DEF IInv, TypeOK, KernelStates, States, BlockAssumption
    <2> QED  BY <2>2, <2>3, <2>4
  <1>2. TypeOK'
    BY <1>1 DEF IInv, TypeOK, bufs, hist, BlockAssumption
  <1>3. Called'  BY DEF IInv, TypeOK, Called
  <1>4. \A c \in Buffers : Holders(c)' = Holders(c)
    BY DEF IInv, TypeOK, Holders
  <1> QED  BY <1>2, <1>3, <1>4, HoldersSame DEF IInv, bufs

(* end_request frees the request and with it the lock of its buffer. *)
LEMMA EndStep ==
    ASSUME BlockAssumption, IInv, NEW i \in Slots, NEW ok \in BOOLEAN,
           end_request(i, ok)
    PROVE  IInv'
  <1>0. PICK b : b = slot[i].bh  OBVIOUS
  <1>1. b \in Buffers /\ b \in Queues /\ wait_for_request \in Queues
    BY <1>0 DEF IInv, TypeOK, end_request, BlockAssumption
  <1>2. TypeOK'
    <2>1. k' \in KernelStates
      BY <1>0, <1>1, WakeUpType DEF IInv, TypeOK, end_request, Woken
    <2>2. slot' \in [Slots -> [bh : Buffers \cup {Null}, cmd : {READ, WRITE}]]
      BY <1>0 DEF IInv, TypeOK, end_request, Free
    <2>3. /\ lock' \subseteq Buffers /\ uptodate' \subseteq Buffers
          /\ failed' \subseteq Buffers /\ slipped' \in BOOLEAN
      BY <1>0, <1>1 DEF IInv, TypeOK, end_request
    <2> QED  BY <1>0, <2>1, <2>2, <2>3 DEF IInv, TypeOK, end_request
  <1>3. Called'  BY <1>0 DEF IInv, Called, end_request
  <1>4. \A c \in Buffers : Holders(c)' = Holders(c)
    BY <1>0 DEF Holders, end_request
  <1>5. /\ Requests(b)' = Requests(b) \ {i}
        /\ \A c \in Buffers \ {b} : Requests(c)' = Requests(c)
    BY <1>0, <1>1 DEF IInv, TypeOK, Requests, end_request, Free,
       BlockAssumption
  <1>6. Holders(b) = {} /\ Requests(b) = {i}
    BY <1>0, <1>1 DEF IInv, OneHolder, Requests
  <1>7. OneHolder'
    BY <1>0, <1>1, <1>4, <1>5, <1>6 DEF IInv, OneHolder, end_request
  <1> QED  BY <1>2, <1>3, <1>7 DEF IInv

(* The lock of a buffer always has exactly one holder, a process inside    *)
(* make_request or a request of the list, although processes look for      *)
(* requests with interrupts on and interrupts end requests at any time:    *)
(* the inductive invariant of ll_rw_blk.c.                                 *)
THEOREM BufferLocks == ASSUME BlockAssumption PROVE Spec => []IInv
  <1>1. Init => IInv  BY InitIInv
  <1>2. IInv /\ [Next]_vars => IInv'
    <2> SUFFICES ASSUME IInv, [Next]_vars PROVE IInv'
      OBVIOUS
    <2>1. CASE UNCHANGED vars
      BY <2>1 DEF IInv, TypeOK, Called, OneHolder, Holders, Requests, vars,
                  bufs, hist
    <2>2. ASSUME NEW t \in Tasks, schedule(t) \/ Preempt(t) PROVE IInv'
      BY <2>2, ScheduleStep
    <2>3. ASSUME NEW t \in Tasks, NEW b \in Buffers, Modify(t, b) \/ Reuse(t, b)
          PROVE  IInv'
      BY <2>3, UserStep
    <2>4. ASSUME NEW t \in Tasks, NEW b \in Buffers,
                 NEW rw \in {READ, WRITE}, NEW ahead \in BOOLEAN,
                 ll_rw_block(t, rw, ahead, b)
          PROVE  IInv'
      BY <2>4, CallStep
    <2>5. ASSUME NEW t \in Tasks, lock_buffer_wait(t) \/ wait_on_buffer(t)
          PROVE  IInv'
      BY <2>5, WaitStep
    <2>6. ASSUME NEW t \in Tasks, lock_buffer(t) PROVE IInv'
      BY <2>6, LockStep
    <2>7. ASSUME NEW t \in Tasks, make_request(t) PROVE IInv'
      BY <2>7, RequestStep
    <2>8. ASSUME NEW t \in Tasks, NoFreeRequest(t) PROVE IInv'
      BY <2>8, NoFreeStep
    <2>9. ASSUME NEW t \in Tasks,
                 SleepSaves(t) \/ SleepLinks(t) \/ SleepStops(t)
          PROVE  IInv'
      BY <2>9, SleepStep
    <2>10. ASSUME NEW i \in Slots, NEW ok \in BOOLEAN, end_request(i, ok)
           PROVE  IInv'
      BY <2>10, EndStep
    <2> QED
      BY <2>1, <2>2, <2>3, <2>4, <2>5, <2>6, <2>7, <2>8, <2>9, <2>10 DEF Next
  <1> QED  BY <1>1, <1>2, PTL DEF Spec

-----------------------------------------------------------------------------
(* What a reader waits for is settled or on its way, whoever else locks    *)
(* the buffer meanwhile: it was read, a transfer of it has failed, or it   *)
(* has a request.                                                          *)
SettledIn(b) == b \in uptodate \cup failed \/ Requests(b) # {}
Settled == \A t \in Tasks : pc[t] = "wait" => SettledIn(call[t].bh)

(* The steps that move no process to wait_on_buffer and leave buffers and  *)
(* requests alone.                                                         *)
LEMMA SettledSame ==
    ASSUME Settled, UNCHANGED <<slot, uptodate, failed>>,
           \A u \in Tasks : pc'[u] = "wait" =>
                               pc[u] = "wait" /\ call'[u] = call[u]
    PROVE  Settled'
  BY DEF Settled, SettledIn, Requests

LEMMA SettledQuiet ==
    ASSUME BlockAssumption, IInv, Settled, NEW t \in Tasks,
           \/ schedule(t) \/ Preempt(t)
           \/ lock_buffer_wait(t) \/ wait_on_buffer(t)
           \/ SleepSaves(t) \/ SleepLinks(t) \/ SleepStops(t)
           \/ \E b \in Buffers : Modify(t, b)
           \/ \E b \in Buffers, rw \in {READ, WRITE}, ahead \in BOOLEAN :
                 ll_rw_block(t, rw, ahead, b)
    PROVE  Settled'
  <1>1. UNCHANGED <<slot, uptodate, failed>>
    BY DEF schedule, Preempt, lock_buffer_wait, wait_on_buffer, SleepSaves,
           SleepLinks, SleepStops, Modify, ll_rw_block, bufs, hist
  <1>2. \A u \in Tasks : pc'[u] = "wait" => pc[u] = "wait" /\ call'[u] = call[u]
    BY DEF schedule, Preempt, lock_buffer_wait, wait_on_buffer, SleepSaves,
           SleepLinks, SleepStops, Modify, ll_rw_block, At, Goto, IInv, TypeOK
  <1> QED  BY <1>1, <1>2, SettledSame

(* getblk takes a buffer that nobody calls for. *)
LEMMA SettledReuse ==
    ASSUME BlockAssumption, IInv, Settled, NEW t \in Tasks, NEW b \in Buffers,
           Reuse(t, b)
    PROVE  Settled'
  BY DEF Settled, SettledIn, Requests, Reuse

(* A reader whose transfer is not needed finds the block read. *)
LEMMA SettledLock ==
    ASSUME BlockAssumption, IInv, Settled, NEW t \in Tasks, lock_buffer(t)
    PROVE  Settled'
  <1>1. UNCHANGED <<slot, uptodate, failed>>
    BY DEF lock_buffer, hist
  <1>2. CASE Unneeded(t)
    <2>1. Return(t) /\ pc[t] = "lock"
      BY <1>2 DEF lock_buffer, At
    <2>2. \A u \in Tasks \ {t} : pc'[u] = pc[u] /\ call'[u] = call[u]
      BY <2>1, ReturnFields
    <2>3. pc'[t] = "wait" => call' = call /\ call[t].rw = READ
      BY <2>1 DEF Return, Goto, IInv, TypeOK
    <2>4. pc'[t] = "wait" => call'[t].bh \in uptodate
      BY <1>2, <2>3 DEF Unneeded
    <2> QED  BY <1>1, <2>2, <2>4 DEF Settled, SettledIn, Requests
  <1>3. CASE ~Unneeded(t)
    BY <1>1, <1>3, SettledSame DEF lock_buffer, Goto, IInv, TypeOK
  <1> QED  BY <1>2, <1>3

(* A reader that goes on to wait has listed a request for its block. *)
LEMMA SettledRequest ==
    ASSUME BlockAssumption, IInv, Settled, NEW t \in Tasks, make_request(t)
    PROVE  Settled'
  <1>1. PICK i \in Slots : /\ slot[i].bh = Null
                           /\ slot' = [slot EXCEPT ![i] =
                                  [bh |-> call[t].bh, cmd |-> call[t].rw]]
    <2>1. Searched(call[t].rw) \subseteq Slots
      BY DEF Searched, Slots, BlockAssumption, IInv, TypeOK
    <2> QED  BY <2>1 DEF make_request, add_request, FreeSlots
  <1>2. slot'[i].bh = call[t].bh /\ \A j \in Slots \ {i} : slot'[j] = slot[j]
    BY <1>1 DEF IInv, TypeOK
  <1>3. /\ \A u \in Tasks \ {t} : pc'[u] = pc[u] /\ call'[u] = call[u]
        /\ pc'[t] = "wait" => call' = call
    BY ReturnFields DEF make_request, At, Return, Goto, IInv, TypeOK
  <1>4. UNCHANGED <<uptodate, failed>>
    BY DEF make_request, hist
  <1>5. ASSUME NEW u \in Tasks, pc'[u] = "wait" PROVE SettledIn(call[u].bh)'
    <2>1. call'[u] = call[u]  BY <1>3, <1>5
    <2>2. CASE u = t
      BY <1>2, <1>4, <2>1, <2>2 DEF SettledIn, Requests
    <2>3. CASE u # t
      <3>1. SettledIn(call[u].bh) /\ call[u].bh # Null
        BY <1>3, <1>5, <2>3 DEF Settled, IInv, Called
      <3> QED  BY <1>1, <1>2, <1>4, <2>1, <3>1 DEF SettledIn, Requests
    <2> QED  BY <2>2, <2>3
  <1> QED  BY <1>5 DEF Settled

(* The transfer ends, and its block is read or has failed. *)
LEMMA SettledEnd ==
    ASSUME BlockAssumption, IInv, Settled, NEW i \in Slots, NEW ok \in BOOLEAN,
           end_request(i, ok)
    PROVE  Settled'
  <1>1. /\ slot[i].bh \in uptodate' \cup failed'
        /\ \A b \in uptodate \cup failed : b \in uptodate' \cup failed'
    BY DEF end_request
  <1>2. \A j \in Slots \ {i} : slot'[j] = slot[j]
    BY DEF end_request, IInv, TypeOK
  <1>3. UNCHANGED <<pc, call>>
    BY DEF end_request
  <1> QED  BY <1>1, <1>2, <1>3 DEF Settled, SettledIn, Requests

(* bread returns the block or there was an error: a reader that leaves     *)
(* wait_on_buffer has its block unless a transfer of it failed, in every   *)
(* behaviour, also when wake-ups are lost and when the buffer was locked   *)
(* and given up by read-aheads in between.                                 *)
THEOREM ReadersGetTheirBlock ==
    ASSUME BlockAssumption PROVE Spec => ReadOrFailed
  <1>1. Init => Settled  BY DEF Init, Settled
  <1>2. IInv /\ Settled /\ [Next]_vars => Settled'
    <2> SUFFICES ASSUME IInv, Settled, [Next]_vars PROVE Settled'
      OBVIOUS
    <2>1. CASE UNCHANGED vars
      BY <2>1 DEF Settled, SettledIn, Requests, vars, bufs, hist
    <2>2. ASSUME NEW t \in Tasks, lock_buffer(t) PROVE Settled'
      BY <2>2, SettledLock
    <2>3. ASSUME NEW t \in Tasks, make_request(t) PROVE Settled'
      BY <2>3, SettledRequest
    <2>4. ASSUME NEW t \in Tasks, NoFreeRequest(t) PROVE Settled'
      <3>1. \A u \in Tasks : pc'[u] = "wait" =>
                                pc[u] = "wait" /\ call'[u] = call[u]
        BY <2>4 DEF NoFreeRequest, At, Return, Goto, IInv, TypeOK
      <3> QED  BY <2>4, <3>1, SettledSame DEF NoFreeRequest, hist
    <2>5. ASSUME NEW t \in Tasks, NEW b \in Buffers, Reuse(t, b) PROVE Settled'
      BY <2>5, SettledReuse
    <2>6. ASSUME NEW i \in Slots, NEW ok \in BOOLEAN, end_request(i, ok)
          PROVE  Settled'
      BY <2>6, SettledEnd
    <2>7. ASSUME NEW t \in Tasks,
                 \/ schedule(t) \/ Preempt(t)
                 \/ lock_buffer_wait(t) \/ wait_on_buffer(t)
                 \/ SleepSaves(t) \/ SleepLinks(t) \/ SleepStops(t)
                 \/ \E b \in Buffers : Modify(t, b)
                 \/ \E b \in Buffers, rw \in {READ, WRITE}, ahead \in BOOLEAN :
                       ll_rw_block(t, rw, ahead, b)
          PROVE  Settled'
      BY <2>7, SettledQuiet
    <2> QED  BY <2>1, <2>2, <2>3, <2>4, <2>5, <2>6, <2>7 DEF Next
  <1>3. ASSUME IInv, Settled, [Next]_vars
        PROVE  [\A t \in Tasks : pc[t] = "wait" /\ pc'[t] = "user" =>
                    call[t].bh \in uptodate \cup failed]_vars
    <2> SUFFICES ASSUME NEW t \in Tasks, pc[t] = "wait", pc'[t] = "user", Next
                 PROVE  call[t].bh \in uptodate \cup failed
      BY <1>3 DEF vars
    <2>1. wait_on_buffer(t)
      <3> USE <1>3 DEF At, Goto
      <3>1. pc \in [Tasks -> {"user", "lock", "scan", "window", "saved",
                              "linked", "wait"}]
        BY DEF IInv, TypeOK
      <3>2. ASSUME NEW u \in Tasks, NEW b \in Buffers,
                   \/ schedule(u) \/ Preempt(u) \/ Modify(u, b) \/ Reuse(u, b)
                   \/ lock_buffer_wait(u)
            PROVE  FALSE
        BY <3>2 DEF schedule, Preempt, Modify, Reuse, lock_buffer_wait
      <3>3. ASSUME NEW u \in Tasks, NEW b \in Buffers, NEW rw \in {READ, WRITE},
                   NEW ahead \in BOOLEAN, ll_rw_block(u, rw, ahead, b)
            PROVE  FALSE
        BY <3>1, <3>3 DEF ll_rw_block
      <3>4. ASSUME NEW u \in Tasks, Return(u), pc[u] # "wait" PROVE FALSE
        BY <3>1, <3>4 DEF Return
      <3>5. ASSUME NEW u \in Tasks, lock_buffer(u) PROVE FALSE
        BY <3>1, <3>4, <3>5 DEF lock_buffer
      <3>6. ASSUME NEW u \in Tasks, make_request(u) PROVE FALSE
        BY <3>4, <3>6 DEF make_request
      <3>7. ASSUME NEW u \in Tasks, NoFreeRequest(u) PROVE FALSE
        BY <3>1, <3>4, <3>7 DEF NoFreeRequest
      <3>8. ASSUME NEW u \in Tasks,
                   SleepSaves(u) \/ SleepLinks(u) \/ SleepStops(u)
            PROVE  FALSE
        BY <3>1, <3>8 DEF SleepSaves, SleepLinks, SleepStops
      <3>9. ASSUME NEW u \in Tasks, wait_on_buffer(u) PROVE u = t
        BY <3>1, <3>9 DEF wait_on_buffer
      <3>10. ASSUME NEW i \in Slots, NEW ok \in BOOLEAN, end_request(i, ok)
             PROVE  FALSE
        BY <3>10 DEF end_request
      <3>11. Buffers # {}
        BY <3>1 DEF IInv, TypeOK, Called
      <3> QED
        BY <3>2, <3>3, <3>5, <3>6, <3>7, <3>8, <3>9, <3>10, <3>11 DEF Next
    <2>2. call[t].bh \in Buffers /\ call[t].bh \notin lock
      BY <1>3, <2>1 DEF wait_on_buffer, At, Goto, IInv, TypeOK, Called
    <2> QED  BY <1>3, <2>2 DEF IInv, OneHolder, Settled, SettledIn
  <1>4. Spec => []IInv  BY BufferLocks
  <1> QED  BY <1>1, <1>2, <1>3, <1>4, PTL DEF Spec, ReadOrFailed
-----------------------------------------------------------------------------
(* Why nobody is forgotten.  As long as no queue was entered too early and *)
(* no request slipped past a process on its way to sleep, every queue is a *)
(* stack of frames: d[t] is the depth of the frame of t, each tmp points   *)
(* one frame down, the head is the top frame, and so is whoever is awake.  *)
(* L holds the process that has made itself the head of wait_for_request   *)
(* and has not yet stopped.                                                *)
UpIn(s, q) == {t \in Members(s, q) : s.state[t] = RUNNING}

Frames(s, q, L, d) ==
    LET M == Members(s, q) \cup L IN
    /\ \A t \in M : /\ s.tmp[t] \in M \cup {Null}
                    /\ s.tmp[t] = Null => d[t] = 0
                    /\ s.tmp[t] # Null => d[t] = d[s.tmp[t]] + 1
    /\ \A t, u \in M : d[t] = d[u] => t = u
    /\ s.head[q] \in M \cup {Null}
    /\ s.head[q] # Null => \A u \in M : d[u] <= d[s.head[q]]
    /\ s.head[q] = Null => M = {} \/ UpIn(s, q) # {}
    /\ \A t \in UpIn(s, q) : /\ s.head[q] \in {Null, t}
                             /\ \A u \in M : d[u] <= d[t]
Stack(s, q, L) == \E d \in [Tasks -> Nat] : Frames(s, q, L, d)

(* A stack depends on its own frames only. *)
LEMMA StackSame ==
    ASSUME NEW s, NEW r, NEW q, NEW L, NEW L2, Stack(s, q, L),
           Members(r, q) \cup L2 = Members(s, q) \cup L,
           UpIn(r, q) = UpIn(s, q),
           \A t \in Members(s, q) \cup L : r.tmp[t] = s.tmp[t],
           r.head[q] = s.head[q]
    PROVE  Stack(r, q, L2)
  <1>1. PICK d \in [Tasks -> Nat] : Frames(s, q, L, d)
    BY DEF Stack
  <1>2. Frames(r, q, L2, d)
    BY <1>1 DEF Frames
  <1> QED  BY <1>2 DEF Stack

(* wake_up, field by field. *)
LEMMA WakeFields ==
    ASSUME BlockAssumption, NEW s \in KernelStates, NEW q \in Queues
    PROVE  LET r == wake_up(s, q) IN
           /\ r.tmp = s.tmp /\ r.at = s.at
           /\ r.head[q] = Null
           /\ \A p \in Queues : p # q => r.head[p] = s.head[p]
           /\ \A t \in Tasks : r.state[t] =
                  IF t = s.head[q] THEN RUNNING ELSE s.state[t]
  <1>1. CASE s.head[q] = Null
    BY <1>1 DEF wake_up, MakeRunning, KernelStates, BlockAssumption
  <1>2. CASE s.head[q] # Null
    BY <1>2 DEF wake_up, MakeRunning, KernelStates
  <1> QED  BY <1>1, <1>2

(* wake_up empties the head of the stack and wakes its top; when the queue *)
(* is not empty, somebody in it is then awake.                             *)
LEMMA WakeStack ==
    ASSUME BlockAssumption, NEW s \in KernelStates, NEW q \in Queues,
           Stack(s, q, {})
    PROVE  /\ Stack(wake_up(s, q), q, {})
           /\ Members(s, q) # {} => UpIn(wake_up(s, q), q) # {}
  <1> DEFINE r == wake_up(s, q)
             M == Members(s, q)
             h == s.head[q]
  <1>1. PICK d \in [Tasks -> Nat] : Frames(s, q, {}, d)
    BY DEF Stack
  <1>2. /\ r.tmp = s.tmp /\ r.at = s.at /\ r.head[q] = Null
        /\ \A t \in Tasks : r.state[t] =
               IF t = h THEN RUNNING ELSE s.state[t]
    BY WakeFields
  <1>3. h \in M \cup {Null} /\ M \subseteq Tasks
    BY <1>1 DEF Frames, Members
  <1> HIDE DEF r, h
  <1>4. Members(r, q) = M
    BY <1>2 DEF Members
  <1>5. UpIn(r, q) = UpIn(s, q) \cup {t \in M : t = h}
    BY <1>2, <1>3, <1>4 DEF UpIn, M
  <1>6. UpIn(s, q) \subseteq M
    BY DEF UpIn
  <1>7. /\ \A t \in M : /\ s.tmp[t] \in M \cup {Null}
                        /\ s.tmp[t] = Null => d[t] = 0
                        /\ s.tmp[t] # Null => d[t] = d[s.tmp[t]] + 1
        /\ \A t, u \in M : d[t] = d[u] => t = u
        /\ h # Null => \A u \in M : d[u] <= d[h]
        /\ h = Null => M = {} \/ UpIn(s, q) # {}
        /\ \A t \in UpIn(s, q) : \A u \in M : d[u] <= d[t]
    BY <1>1 DEF Frames, h
  <1>8. M # {} => UpIn(r, q) # {}
    BY <1>3, <1>5, <1>7
  <1>9. \A t \in UpIn(r, q) : \A u \in M : d[u] <= d[t]
    <2>1. Null \notin M
      BY <1>3 DEF BlockAssumption
    <2> QED  BY <2>1, <1>5, <1>7
  <1> HIDE DEF M
  <1>10. Frames(r, q, {}, d)
    <2>1. Members(r, q) \cup {} = M
      BY <1>4
    <2> QED  BY <1>2, <2>1, <1>7, <1>8, <1>9 DEF Frames
  <1> QED  BY <1>8, <1>10 DEF Stack, r, M

(* It does not touch the other queues. *)
LEMMA WakeOther ==
    ASSUME BlockAssumption, NEW s \in KernelStates, NEW q \in Queues,
           Stack(s, q, {}), NEW p \in Queues, p # q, NEW L \in SUBSET Tasks
    PROVE  /\ Stack(s, p, L) => Stack(wake_up(s, q), p, L)
           /\ UpIn(wake_up(s, q), p) = UpIn(s, p)
  <1> DEFINE r == wake_up(s, q)
             h == s.head[q]
  <1>1. /\ r.tmp = s.tmp /\ r.at = s.at
        /\ r.head[p] = s.head[p]
        /\ \A t \in Tasks : r.state[t] =
               IF t = h THEN RUNNING ELSE s.state[t]
    BY WakeFields
  <1>2. h \in Members(s, q) \cup {Null}
    BY DEF Stack, Frames
  <1> HIDE DEF r, h
  <1>3. Members(r, p) = Members(s, p)
    BY <1>1 DEF Members
  <1>4. UpIn(r, p) = UpIn(s, p)
    <2>1. \A t \in Members(s, p) : t \in Tasks /\ t # h
      BY <1>2 DEF Members, BlockAssumption
    <2> QED  BY <1>1, <1>3, <2>1 DEF UpIn
  <1> QED  BY <1>1, <1>3, <1>4, StackSame DEF r

(* wake_up leaves every process in its queue. *)
LEMMA WakeMembers ==
    ASSUME BlockAssumption, NEW s \in KernelStates, NEW q \in Queues
    PROVE  \A p : Members(wake_up(s, q), p) = Members(s, p)
  <1>1. wake_up(s, q).at = s.at
    BY WakeFields
  <1> QED  BY <1>1 DEF Members

(* SleepLeave, field by field. *)
LEMMA LeaveFields ==
    ASSUME BlockAssumption, NEW s \in KernelStates, NEW t \in Tasks,
           s.at[t] # Null
    PROVE  LET r == SleepLeave(s, t) IN
           /\ r.head[s.at[t]] = s.tmp[t]
           /\ \A p \in Queues : p # s.at[t] => r.head[p] = s.head[p]
           /\ r.at[t] = Null
           /\ \A u \in Tasks : u # t => r.tmp[u] = s.tmp[u] /\ r.at[u] = s.at[u]
           /\ \A u \in Tasks : r.state[u] =
                  IF u = s.tmp[t] THEN RUNNING ELSE s.state[u]
  <1>1. CASE s.tmp[t] = Null
    BY <1>1 DEF SleepLeave, MakeRunning, KernelStates, BlockAssumption
  <1>2. CASE s.tmp[t] # Null
    BY <1>2 DEF SleepLeave, MakeRunning, KernelStates, BlockAssumption
  <1> QED  BY <1>1, <1>2

(* The process that leaves was the top; the frame below it becomes the     *)
(* head and wakes up, unless the queue is now empty.                       *)
LEMMA LeaveStack ==
    ASSUME BlockAssumption, NEW s \in KernelStates, NEW q \in Queues,
           Stack(s, q, {}), NEW t \in UpIn(s, q)
    PROVE  /\ Stack(SleepLeave(s, t), q, {})
           /\ Members(SleepLeave(s, t), q) # {} =>
                 UpIn(SleepLeave(s, t), q) # {}
  <1> DEFINE r == SleepLeave(s, t)
             M == Members(s, q)
             N == M \ {t}
             h == s.tmp[t]
  <1>1. PICK d \in [Tasks -> Nat] : Frames(s, q, {}, d)
    BY DEF Stack
  <1>2. t \in Tasks /\ t \in M /\ s.at[t] = q /\ q # Null /\ M \subseteq Tasks
    BY DEF UpIn, Members, BlockAssumption
  <1>3. /\ r.head[q] = h /\ r.at[t] = Null
        /\ \A u \in Tasks : u # t => r.tmp[u] = s.tmp[u] /\ r.at[u] = s.at[u]
        /\ \A u \in Tasks : r.state[u] = IF u = h THEN RUNNING ELSE s.state[u]
    BY <1>2, LeaveFields
  <1>4. /\ \A u \in M : /\ s.tmp[u] \in M \cup {Null}
                        /\ s.tmp[u] = Null => d[u] = 0
                        /\ s.tmp[u] # Null => d[u] = d[s.tmp[u]] + 1
        /\ \A u, v \in M : d[u] = d[v] => u = v
        /\ \A u \in UpIn(s, q) : \A v \in M : d[v] <= d[u]
    BY <1>1 DEF Frames
  <1> HIDE DEF r
  <1>5. Members(r, q) = N
    BY <1>2, <1>3 DEF Members
  <1>6. Null \notin M /\ \A u \in M : d[u] \in Nat
    BY <1>2 DEF BlockAssumption
  <1>7. \A u \in N : /\ s.tmp[u] \in N \cup {Null}
                     /\ r.tmp[u] = s.tmp[u]
    <2> SUFFICES ASSUME NEW u \in N PROVE s.tmp[u] # t
      BY <1>2, <1>3, <1>4
    <2> QED  BY <1>2, <1>4, <1>6
  <1>8. h \in N \cup {Null}
    BY <1>2, <1>4, <1>6
  <1>9. h # Null => \A u \in N : d[u] <= d[h]
    <2> SUFFICES ASSUME h # Null, NEW u \in N PROVE d[u] <= d[h]
      OBVIOUS
    <2>1. d[t] = d[h] + 1 /\ d[h] \in Nat
      BY <1>2, <1>4, <1>6, <1>8
    <2>2. d[u] <= d[t] /\ d[u] # d[t] /\ d[u] \in Nat
      BY <1>2, <1>4, <1>6
    <2> QED  BY <2>1, <2>2
  <1>10. h = Null => N = {}
    <2> SUFFICES ASSUME h = Null, NEW u \in N PROVE FALSE
      OBVIOUS
    <2>1. d[t] = 0 /\ d[u] <= d[t] /\ d[u] \in Nat
      BY <1>2, <1>4, <1>6
    <2> QED  BY <1>2, <1>4, <2>1
  <1>11. UpIn(r, q) = {u \in N : u = h}
    <2>1. \A u \in N : s.state[u] # RUNNING
      <3> SUFFICES ASSUME NEW u \in N, s.state[u] = RUNNING PROVE FALSE
        OBVIOUS
      <3>1. u \in UpIn(s, q)
        BY DEF UpIn
      <3>2. d[u] <= d[t] /\ d[t] <= d[u] /\ d[u] \in Nat /\ d[t] \in Nat
        BY <1>2, <1>4, <1>6, <3>1
      <3> QED  BY <1>2, <1>4, <3>2
    <2> QED  BY <1>2, <1>3, <1>5, <2>1 DEF UpIn
  <1>12. N # {} => UpIn(r, q) # {}
    BY <1>8, <1>10, <1>11
  <1> HIDE DEF M, h
  <1>13. Frames(r, q, {}, d)
    <2>1. Members(r, q) \cup {} = N
      BY <1>5
    <2>2. \A u \in N : /\ r.tmp[u] \in N \cup {Null}
                       /\ r.tmp[u] = Null => d[u] = 0
                       /\ r.tmp[u] # Null => d[u] = d[r.tmp[u]] + 1
      BY <1>4, <1>7
    <2>3. \A u, v \in N : d[u] = d[v] => u = v
      BY <1>4
    <2> HIDE DEF N
    <2> QED  BY <1>3, <2>1, <2>2, <2>3, <1>8, <1>9, <1>10, <1>11 DEF Frames
  <1> QED  BY <1>5, <1>12, <1>13 DEF Stack, r

LEMMA LeaveOther ==
    ASSUME BlockAssumption, NEW s \in KernelStates, NEW q \in Queues,
           Stack(s, q, {}), NEW t \in Members(s, q), NEW p \in Queues, p # q
    PROVE  /\ Stack(s, p, {}) => Stack(SleepLeave(s, t), p, {})
           /\ Members(SleepLeave(s, t), p) = Members(s, p)
           /\ UpIn(SleepLeave(s, t), p) = UpIn(s, p)
  <1> DEFINE r == SleepLeave(s, t)
             h == s.tmp[t]
  <1>1. t \in Tasks /\ s.at[t] = q /\ q # Null /\ p # Null
    BY DEF Members, BlockAssumption
  <1>2. /\ r.head[p] = s.head[p] /\ r.at[t] = Null
        /\ \A u \in Tasks : u # t => r.tmp[u] = s.tmp[u] /\ r.at[u] = s.at[u]
        /\ \A u \in Tasks : r.state[u] = IF u = h THEN RUNNING ELSE s.state[u]
    BY <1>1, LeaveFields
  <1>3. h \in Members(s, q) \cup {Null}
    BY DEF Stack, Frames
  <1> HIDE DEF r, h
  <1>4. Members(r, p) = Members(s, p)
    BY <1>1, <1>2 DEF Members
  <1>5. \A u \in Members(s, p) : u \in Tasks /\ u # h /\ u # t
    BY <1>1, <1>3 DEF Members, BlockAssumption
  <1>6. UpIn(r, p) = UpIn(s, p)
    BY <1>2, <1>4, <1>5 DEF UpIn
  <1> QED  BY <1>2, <1>4, <1>5, <1>6, StackSame DEF r

(* What it takes to put the frame of t on top of a stack in which nobody   *)
(* is awake.                                                               *)
LEMMA PushStack ==
    ASSUME BlockAssumption, NEW s, NEW r, NEW q \in Queues,
           NEW t \in Tasks, t \notin Members(s, q), UpIn(s, q) = {},
           Stack(s, q, {}), NEW L,
           Members(r, q) \cup L = Members(s, q) \cup {t},
           UpIn(r, q) = {},
           r.tmp[t] = s.head[q], r.head[q] = t,
           \A u \in Members(s, q) : r.tmp[u] = s.tmp[u]
    PROVE  Stack(r, q, L)
  <1> DEFINE M == Members(s, q)
             N == M \cup {t}
             h == s.head[q]
  <1>1. PICK d \in [Tasks -> Nat] : Frames(s, q, {}, d)
    BY DEF Stack
  <1>2. M \subseteq Tasks /\ Null \notin N
    BY DEF Members, BlockAssumption
  <1>3. /\ \A u \in M : /\ s.tmp[u] \in M \cup {Null}
                        /\ s.tmp[u] = Null => d[u] = 0
                        /\ s.tmp[u] # Null => d[u] = d[s.tmp[u]] + 1
        /\ \A u, v \in M : d[u] = d[v] => u = v
        /\ h \in M \cup {Null}
        /\ h # Null => \A u \in M : d[u] <= d[h]
        /\ h = Null => M = {}
    BY <1>1 DEF Frames
  <1>4. t \notin M
    OBVIOUS
  <1> HIDE DEF M
  <1> DEFINE e == IF h = Null THEN 0 ELSE d[h] + 1
             f == [d EXCEPT ![t] = e]
  <1>5. e \in Nat /\ \A u \in M : d[u] \in Nat /\ d[u] < e
    BY <1>2, <1>3
  <1>6. /\ f \in [Tasks -> Nat] /\ f[t] = e
        /\ \A u \in M : f[u] = d[u]
    BY <1>2, <1>4, <1>5
  <1> HIDE DEF f
  <1>7. \A u \in N : /\ r.tmp[u] \in N \cup {Null}
                     /\ r.tmp[u] = Null => f[u] = 0
                     /\ r.tmp[u] # Null => f[u] = f[r.tmp[u]] + 1
    <2>1. \A u \in M : r.tmp[u] = s.tmp[u]
      BY DEF M
    <2>2. ASSUME NEW u \in M
          PROVE  /\ r.tmp[u] \in N \cup {Null}
                 /\ r.tmp[u] = Null => f[u] = 0
                 /\ r.tmp[u] # Null => f[u] = f[r.tmp[u]] + 1
      BY <1>3, <1>6, <2>1
    <2>3. /\ r.tmp[t] \in N \cup {Null}
          /\ r.tmp[t] = Null => f[t] = 0
          /\ r.tmp[t] # Null => f[t] = f[r.tmp[t]] + 1
      BY <1>3, <1>6
    <2> QED  BY <2>2, <2>3
  <1> HIDE DEF e
  <1>8. \A u, v \in N : f[u] = f[v] => u = v
    BY <1>3, <1>5, <1>6
  <1>9. \A u \in N : f[u] <= f[t]
    BY <1>5, <1>6
  <1>10. Members(r, q) \cup L = N
    BY DEF M
  <1>11. r.head[q] = t /\ t \in N /\ t # Null /\ UpIn(r, q) = {}
    BY <1>2
  <1> HIDE DEF N, h
  <1>12. Frames(r, q, L, f)
    BY <1>7, <1>8, <1>9, <1>10, <1>11 DEF Frames
  <1> QED  BY <1>6, <1>12 DEF Stack

(* The processes on their way into wait_for_request, those of them that    *)
(* are its head already, and what sleepers wait for.                       *)
Narrow == {"window", "saved", "linked"}
Entering(q) == {t \in Tasks : q = wait_for_request /\ pc[t] \in Narrow}
Linked(q)   == {t \in Tasks : q = wait_for_request /\ pc[t] = "linked"}
Coming(q)   == IF q = wait_for_request THEN \E i \in Slots : slot[i].bh # Null
                                       ELSE q \in lock

(* The inductive invariant behind WaitsForSomething.  Outside of Clean     *)
(* states only the first part is promised.                                 *)
Clean  == overlap = {} /\ ~slipped
Places == \A t \in Tasks : /\ pc[t] \in Narrow => cur = t
                           /\ cur = t => k.at[t] = Null
Saved  == \A t \in Tasks : pc[t] = "saved" => k.tmp[t] = k.head[wait_for_request]
Stacks == \A q \in Queues : Stack(k, q, Linked(q))
Woke   == \A q \in Queues : Members(k, q) \cup Entering(q) # {} =>
                               UpIn(k, q) # {} \/ Coming(q)
QInv   == Places /\ (Clean => Saved /\ Stacks /\ Woke)

LEMMA InitQInv == ASSUME BlockAssumption, Init PROVE QInv
  <1> USE DEF Init, KernelInit
  <1>1. Places
    BY DEF Places, Narrow
  <1>2. Saved
    BY DEF Saved
  <1>3. ASSUME NEW q \in Queues
        PROVE  Members(k, q) = {} /\ Linked(q) = {} /\ Entering(q) = {}
    BY DEF Members, Linked, Entering, Narrow, BlockAssumption
  <1>4. Woke
    BY <1>3 DEF Woke
  <1>5. ASSUME NEW q \in Queues PROVE Stack(k, q, Linked(q))
    <2>1. Members(k, q) \cup Linked(q) = {} /\ UpIn(k, q) = {}
      BY <1>3 DEF UpIn
    <2>2. k.head[q] = Null
      OBVIOUS
    <2>3. Frames(k, q, Linked(q), [t \in Tasks |-> 0])
      BY <2>1, <2>2 DEF Frames
    <2> QED  BY <2>3 DEF Stack
  <1> QED  BY <1>1, <1>2, <1>4, <1>5 DEF QInv, Stacks

(* Nobody enters or leaves the narrow part of make_request. *)
NarrowSame == \A t \in Tasks : /\ pc'[t] \in Narrow => pc'[t] = pc[t]
                               /\ pc[t] \in Narrow => pc'[t] = pc[t]

LEMMA NarrowSets ==
    ASSUME NarrowSame
    PROVE  \A q : Linked(q)' = Linked(q) /\ Entering(q)' = Entering(q)
  BY DEF NarrowSame, Narrow, Linked, Entering

(* The steps that leave the wait queues alone and free nothing. *)
LEMMA QuietStep ==
    ASSUME BlockAssumption, QInv, Clean, k' = k, NarrowSame,
           lock \subseteq lock',
           \A i \in Slots : slot[i].bh # Null => slot'[i].bh # Null
    PROVE  Saved' /\ Stacks' /\ Woke'
  <1>1. \A q : Linked(q)' = Linked(q) /\ Entering(q)' = Entering(q)
    BY NarrowSets
  <1>2. Saved'
    BY DEF QInv, Saved, NarrowSame, Narrow
  <1>3. Stacks'
    BY <1>1 DEF QInv, Stacks
  <1>4. \A q : Coming(q) => Coming(q)'
    BY DEF Coming
  <1>5. Woke'
    BY <1>1, <1>4 DEF QInv, Woke
  <1> QED  BY <1>2, <1>3, <1>5

(* unlock_buffer: the sleepers of b may lose their lock and are woken. *)
LEMMA UnlockStep ==
    ASSUME BlockAssumption, IInv, QInv, Clean, NEW b \in Buffers,
           k' = wake_up(k, b), NarrowSame, lock \ {b} \subseteq lock',
           slot' = slot
    PROVE  Saved' /\ Stacks' /\ Woke'
  <1>1. \A q : Linked(q)' = Linked(q) /\ Entering(q)' = Entering(q)
    BY NarrowSets
  <1>2. /\ b \in Queues /\ wait_for_request \in Queues
        /\ b # wait_for_request /\ k \in KernelStates
    BY DEF BlockAssumption, IInv, TypeOK
  <1>3. Linked(b) = {} /\ Entering(b) = {}
        /\ \A q : Linked(q) \in SUBSET Tasks
    BY <1>2 DEF Linked, Entering
  <1>4. Stack(k, b, {})
    BY <1>2, <1>3 DEF QInv, Stacks
  <1>5. /\ k'.tmp = k.tmp
        /\ k'.head[wait_for_request] = k.head[wait_for_request]
    BY <1>2, WakeFields
  <1>6. Saved'
    BY <1>5 DEF QInv, Saved, NarrowSame, Narrow
  <1>7. ASSUME NEW q \in Queues
        PROVE  /\ Stack(k', q, Linked(q))
               /\ Members(k, q) \cup Entering(q) # {} =>
                     UpIn(k', q) # {} \/ Coming(q)'
    <2>1. CASE q = b
      BY <1>2, <1>3, <1>4, <2>1, WakeStack
    <2>2. CASE q # b
      <3>1. Stack(k, q, Linked(q))
        BY DEF QInv, Stacks
      <3>2. Stack(k', q, Linked(q)) /\ UpIn(k', q) = UpIn(k, q)
        BY <1>2, <1>3, <1>4, <2>2, <3>1, WakeOther
      <3>3. Coming(q) => Coming(q)'
        BY <2>2 DEF Coming
      <3> QED  BY <3>2, <3>3 DEF QInv, Woke
    <2> QED  BY <2>1, <2>2
  <1>8. \A q : Members(k', q) = Members(k, q)
    BY <1>2, WakeMembers
  <1>9. Stacks' /\ Woke'
    BY <1>1, <1>7, <1>8 DEF Stacks, Woke
  <1> QED  BY <1>6, <1>9

(* Under Clean nobody may be awake in a queue that a process enters. *)
LEMMA EnterStep ==
    ASSUME BlockAssumption, IInv, QInv, NEW t \in Tasks, NEW b \in Buffers,
           cur = t, pc[t] \notin Narrow, b \in lock, SleepsOn(t, b),
           UNCHANGED <<pc, slot, lock, slipped>>
    PROVE  QInv'
  <1>1. /\ b \in Queues /\ wait_for_request \in Queues /\ b # Null
        /\ b # wait_for_request /\ k \in KernelStates
        /\ k.at[t] = Null
    BY DEF BlockAssumption, IInv, TypeOK, QInv, Places
  <1>2. /\ k'.tmp[t] = k.head[b] /\ k'.head[b] = t
        /\ k'.state[t] = UNINTERRUPTIBLE /\ k'.at[t] = b
        /\ \A u \in Tasks : u # t => /\ k'.tmp[u] = k.tmp[u]
                                     /\ k'.state[u] = k.state[u]
                                     /\ k'.at[u] = k.at[u]
        /\ \A q \in Queues : q # b => k'.head[q] = k.head[q]
    BY <1>1 DEF SleepsOn, sleep_on, SleepEnter, KernelStates
  <1>3. cur' = Null /\ Null \notin Tasks
    BY DEF SleepsOn, BlockAssumption
  <1>4. \A u \in Tasks : pc[u] \notin Narrow
    BY DEF QInv, Places
  <1>5. Places'
    BY <1>3, <1>4 DEF Places
  <1>6. ASSUME Clean' PROVE Saved' /\ Stacks' /\ Woke'
    <2>1. Clean /\ UpIn(k, b) = {}
      BY <1>6 DEF Clean, SleepsOn, UpIn
    <2>2. Saved'
      BY <1>4 DEF Saved, Narrow
    <2>3. \A q : /\ Linked(q) = {} /\ Linked(q)' = {}
                 /\ Entering(q) = {} /\ Entering(q)' = {}
      BY <1>4 DEF Linked, Entering, Narrow
    <2>4. ASSUME NEW q \in Queues
          PROVE  /\ Stack(k', q, {})
                 /\ Members(k', q) # {} => UpIn(k', q) # {} \/ Coming(q)'
      <3>1. Stack(k, q, {})
        BY <2>1, <2>3 DEF QInv, Stacks
      <3>2. CASE q = b
        <4>1. Members(k', b) \cup {} = Members(k, b) \cup {t}
          BY <1>2 DEF Members
        <4>2. UpIn(k', b) = {}
          BY <1>2, <2>1, <4>1 DEF UpIn, Members
        <4>3. t \notin Members(k, b)
          BY <1>1 DEF Members
        <4>4. \A u \in Members(k, b) : k'.tmp[u] = k.tmp[u]
          BY <1>2, <4>3 DEF Members
        <4>5. Stack(k', b, {})
          BY <1>1, <1>2, <2>1, <3>1, <3>2, <4>1, <4>2, <4>3, <4>4, PushStack
        <4>6. Coming(b)'
          BY <1>1 DEF Coming
        <4> QED  BY <3>2, <4>5, <4>6
      <3>3. CASE q # b
        <4>1. q # Null /\ t \notin Members(k, q)
          BY <1>1 DEF Members, BlockAssumption
        <4>2. Members(k', q) = Members(k, q)
          BY <1>1, <1>2, <3>3, <4>1 DEF Members
        <4>3. /\ UpIn(k', q) = UpIn(k, q)
              /\ \A u \in Members(k, q) : k'.tmp[u] = k.tmp[u]
          BY <1>2, <4>1, <4>2 DEF UpIn, Members
        <4>4. Stack(k', q, {})
          BY <1>2, <3>1, <3>3, <4>2, <4>3, StackSame
        <4>5. Coming(q)' = Coming(q)
          BY DEF Coming
        <4> QED  BY <2>1, <4>2, <4>3, <4>4, <4>5 DEF QInv, Woke
      <3> QED  BY <3>2, <3>3
    <2> QED  BY <2>2, <2>3, <2>4 DEF Stacks, Woke
  <1> QED  BY <1>5, <1>6 DEF QInv

(* schedule() lets a process go on; when it comes out of sleep_on, it pops *)
(* its frame and wakes the one below.                                      *)
LEMMA QSchedule ==
    ASSUME BlockAssumption, IInv, QInv, NEW t \in Tasks, schedule(t)
    PROVE  QInv'
  <1>1. /\ cur = Null /\ cur' = t /\ k.state[t] = RUNNING
        /\ UNCHANGED <<pc, slot, lock, overlap, slipped>>
        /\ k' = IF k.at[t] = Null THEN k ELSE SleepLeave(k, t)
    BY DEF schedule, bufs, hist
  <1>2. k \in KernelStates /\ Null \notin Tasks
    BY DEF IInv, TypeOK, BlockAssumption
  <1>3. \A u \in Tasks : pc[u] \notin Narrow
    BY <1>1, <1>2 DEF QInv, Places
  <1>4. k'.at[t] = Null
    BY <1>1, <1>2, LeaveFields
  <1>5. Places'
    BY <1>1, <1>3, <1>4 DEF Places
  <1>6. ASSUME Clean' PROVE Saved' /\ Stacks' /\ Woke'
    <2>1. Clean
      BY <1>1, <1>6 DEF Clean
    <2>2. Saved'
      BY <1>1, <1>3 DEF Saved, Narrow
    <2>3. \A q : /\ Linked(q) = {} /\ Linked(q)' = {}
                 /\ Entering(q) = {} /\ Entering(q)' = {}
      BY <1>1, <1>3 DEF Linked, Entering, Narrow
    <2>4. \A q : Coming(q)' = Coming(q)
      BY <1>1 DEF Coming
    <2>5. \A q \in Queues :
              /\ Stack(k, q, {})
              /\ Members(k, q) # {} => UpIn(k, q) # {} \/ Coming(q)
      BY <2>1, <2>3 DEF QInv, Stacks, Woke
    <2>6. ASSUME NEW q \in Queues
          PROVE  /\ Stack(k', q, {})
                 /\ Members(k', q) # {} => UpIn(k', q) # {} \/ Coming(q)
      <3>1. CASE k.at[t] = Null
        BY <1>1, <2>5, <3>1
      <3>2. CASE k.at[t] # Null
        <4>1. k.at[t] \in Queues /\ t \in UpIn(k, k.at[t])
          BY <1>1, <1>2, <3>2 DEF KernelStates, UpIn, Members
        <4>2. k' = SleepLeave(k, t)
          BY <1>1, <3>2
        <4>3. CASE q = k.at[t]
          BY <1>2, <2>5, <4>1, <4>2, <4>3, LeaveStack
        <4>4. CASE q # k.at[t]
          <5>1. t \in Members(k, k.at[t])
            BY DEF Members
          <5> QED  BY <1>2, <2>5, <4>1, <4>2, <4>4, <5>1, LeaveOther
        <4> QED  BY <4>3, <4>4
      <3> QED  BY <3>1, <3>2
    <2> QED  BY <2>2, <2>3, <2>4, <2>6 DEF Stacks, Woke
  <1> QED  BY <1>5, <1>6 DEF QInv

(* The steps of user mode and the call of ll_rw_block. *)
LEMMA QUser ==
    ASSUME BlockAssumption, IInv, QInv, NEW t \in Tasks,
           \/ Preempt(t)
           \/ \E b \in Buffers : Modify(t, b) \/ Reuse(t, b)
           \/ \E b \in Buffers, rw \in {READ, WRITE}, ahead \in BOOLEAN :
                 ll_rw_block(t, rw, ahead, b)
    PROVE  QInv'
  <1>1. /\ UNCHANGED <<k, slot, lock, overlap, slipped>>
        /\ cur = t /\ pc[t] = "user" /\ cur' \in {t, Null}
        /\ pc' \in {pc, [pc EXCEPT ![t] = "lock"]}
    BY DEF Preempt, Modify, Reuse, ll_rw_block, At, Goto, bufs, hist
  <1>2. NarrowSame
    BY <1>1 DEF NarrowSame, Narrow, IInv, TypeOK
  <1>3. Places'
    BY <1>1, <1>2 DEF QInv, Places, NarrowSame, Narrow, BlockAssumption
  <1>4. Clean' => Clean
    BY <1>1 DEF Clean
  <1> QED  BY <1>1, <1>2, <1>3, <1>4, QuietStep DEF QInv

LEMMA QWait ==
    ASSUME BlockAssumption, IInv, QInv, NEW t \in Tasks,
           lock_buffer_wait(t) \/ wait_on_buffer(t)
    PROVE  QInv'
  <1>1. /\ UNCHANGED <<slot, lock, slipped>>
        /\ cur = t /\ pc[t] \in {"lock", "wait"}
    BY DEF lock_buffer_wait, wait_on_buffer, At, bufs
  <1>2. call[t].bh \in Buffers
    BY <1>1 DEF IInv, TypeOK, Called
  <1>3. CASE call[t].bh \in lock
    <2>1. SleepsOn(t, call[t].bh) /\ pc' = pc
      BY <1>3 DEF lock_buffer_wait, wait_on_buffer
    <2> QED  BY <1>1, <1>2, <1>3, <2>1, EnterStep DEF Narrow
  <1>4. CASE call[t].bh \notin lock
    <2>1. /\ UNCHANGED <<k, cur, overlap>>
          /\ pc' = [pc EXCEPT ![t] = "user"]
      BY <1>4 DEF lock_buffer_wait, wait_on_buffer, Goto
    <2>2. NarrowSame
      BY <1>1, <2>1 DEF NarrowSame, Narrow, IInv, TypeOK
    <2>3. Places'
      BY <2>1, <2>2 DEF QInv, Places, NarrowSame
    <2>4. Clean' => Clean
      BY <1>1, <2>1 DEF Clean
    <2> QED  BY <1>1, <2>1, <2>2, <2>3, <2>4, QuietStep DEF QInv
  <1> QED  BY <1>3, <1>4

(* Return leaves make_request. *)
LEMMA ReturnNarrow ==
    ASSUME BlockAssumption, IInv, NEW t \in Tasks, pc[t] \in {"lock", "scan"},
           Return(t)
    PROVE  NarrowSame
  <1>1. /\ pc'[t] \in {"user", "wait"}
        /\ \A u \in Tasks \ {t} : pc'[u] = pc[u]
    BY ReturnFields
  <1> QED  BY <1>1 DEF NarrowSame, Narrow

LEMMA QLock ==
    ASSUME BlockAssumption, IInv, QInv, NEW t \in Tasks, lock_buffer(t)
    PROVE  QInv'
  <1>1. /\ UNCHANGED <<cur, slot, overlap, slipped>>
        /\ cur = t /\ pc[t] = "lock"
    BY DEF lock_buffer, At, hist
  <1>2. call[t].bh \in Buffers /\ call[t].bh \in Queues /\ k \in KernelStates
    BY <1>1 DEF IInv, TypeOK, Called, BlockAssumption
  <1>3. Clean' => Clean
    BY <1>1 DEF Clean
  <1>4. CASE Unneeded(t)
    <2>1. Return(t) /\ k' = wake_up(k, call[t].bh) /\ lock' = lock
      BY <1>4 DEF lock_buffer
    <2>2. NarrowSame
      BY <1>1, <2>1, ReturnNarrow
    <2>3. k'.at = k.at
      BY <1>2, <2>1, WakeFields
    <2>4. Places'
      BY <1>1, <2>2, <2>3 DEF QInv, Places, NarrowSame
    <2> QED  BY <1>1, <1>2, <1>3, <2>1, <2>2, <2>4, UnlockStep DEF QInv
  <1>5. CASE ~Unneeded(t)
    <2>1. /\ lock \subseteq lock' /\ k' = k
          /\ pc' = [pc EXCEPT ![t] = "scan"]
      BY <1>5 DEF lock_buffer, Goto
    <2>2. NarrowSame
      BY <1>1, <2>1 DEF NarrowSame, Narrow, IInv, TypeOK
    <2>3. Places'
      BY <1>1, <2>1, <2>2 DEF QInv, Places, NarrowSame
    <2> QED  BY <1>1, <1>3, <2>1, <2>2, <2>3, QuietStep DEF QInv
  <1> QED  BY <1>4, <1>5

LEMMA QRequest ==
    ASSUME BlockAssumption, IInv, QInv, NEW t \in Tasks, make_request(t)
    PROVE  QInv'
  <1>1. /\ UNCHANGED <<k, cur, lock, overlap, slipped>>
        /\ cur = t /\ pc[t] = "scan" /\ Return(t)
    BY DEF make_request, At, hist
  <1>2. call[t].bh \in Buffers
    BY <1>1 DEF IInv, TypeOK, Called
  <1>3. PICK i : slot' = [slot EXCEPT ![i] = [bh |-> call[t].bh,
                                              cmd |-> call[t].rw]]
    BY DEF make_request, add_request
  <1>4. \A j \in Slots : slot[j].bh # Null => slot'[j].bh # Null
    BY <1>2, <1>3 DEF IInv, TypeOK, BlockAssumption
  <1>5. NarrowSame
    BY <1>1, ReturnNarrow
  <1>6. Places'
    BY <1>1, <1>5 DEF QInv, Places, NarrowSame
  <1>7. Clean' => Clean
    BY <1>1 DEF Clean
  <1> QED  BY <1>1, <1>4, <1>5, <1>6, <1>7, QuietStep DEF QInv

(* The search has found every request it may take in use, so there is one  *)
(* to wait for.                                                            *)
LEMMA QNoFree ==
    ASSUME BlockAssumption, WritesHaveRoom, IInv, QInv, NEW t \in Tasks,
           NoFreeRequest(t)
    PROVE  QInv'
  <1>1. /\ UNCHANGED <<cur, slot, overlap, slipped>>
        /\ cur = t /\ pc[t] = "scan" /\ FreeSlots(call[t].rw) = {}
    BY DEF NoFreeRequest, At, hist
  <1>2. call[t].bh \in Buffers /\ call[t].bh \in Queues /\ k \in KernelStates
    BY <1>1 DEF IInv, TypeOK, Called, BlockAssumption
  <1>3. Clean' => Clean
    BY <1>1 DEF Clean
  <1>4. CASE call[t].ahead
    <2>1. Return(t) /\ k' = wake_up(k, call[t].bh) /\ lock' = lock \ {call[t].bh}
      BY <1>4 DEF NoFreeRequest
    <2>2. NarrowSame
      BY <1>1, <2>1, ReturnNarrow
    <2>3. k'.at = k.at
      BY <1>2, <2>1, WakeFields
    <2>4. Places'
      BY <1>1, <2>2, <2>3 DEF QInv, Places, NarrowSame
    <2> QED  BY <1>1, <1>2, <1>3, <2>1, <2>2, <2>4, UnlockStep DEF QInv
  <1>5. CASE ~call[t].ahead
    <2>1. k' = k /\ lock' = lock /\ pc' = [pc EXCEPT ![t] = "window"]
      BY <1>5 DEF NoFreeRequest, Goto
    <2>2. pc'[t] = "window" /\ \A u \in Tasks : u # t => pc'[u] = pc[u]
      BY <2>1 DEF IInv, TypeOK
    <2>3. Places'
      BY <1>1, <2>1, <2>2 DEF QInv, Places
    <2>4. ASSUME Clean' PROVE Saved' /\ Stacks' /\ Woke'
      <3>1. Saved'
        BY <1>3, <2>1, <2>2, <2>4 DEF QInv, Saved
      <3>2. /\ \A q : Linked(q)' = Linked(q)
            /\ \A q : q # wait_for_request => Entering(q)' = Entering(q)
            /\ \A q : Coming(q)' = Coming(q)
        BY <1>1, <2>1, <2>2 DEF Linked, Entering, Coming
      <3>3. Stacks'
        BY <1>3, <2>1, <2>4, <3>2 DEF QInv, Stacks
      <3>4. Coming(wait_for_request)
        <4>1. 1 \in Searched(call[t].rw) /\ 1 \in Slots
          BY DEF Searched, Slots, BlockAssumption, WritesHaveRoom
        <4>2. slot[1].bh # Null
          BY <1>1, <4>1 DEF FreeSlots
        <4> QED  BY <4>1, <4>2 DEF Coming
      <3>5. Woke'
        BY <1>3, <2>1, <2>4, <3>2, <3>4 DEF QInv, Woke
      <3> QED  BY <3>1, <3>3, <3>5
    <2> QED  BY <2>3, <2>4 DEF QInv
  <1> QED  BY <1>4, <1>5

(* The process that runs inside the narrow part is the only one there. *)
LEMMA OneNarrow ==
    ASSUME QInv, NEW t \in Tasks, cur = t
    PROVE  \A u \in Tasks : u # t => pc[u] \notin Narrow
  BY DEF QInv, Places

LEMMA QSaves ==
    ASSUME BlockAssumption, IInv, QInv, NEW t \in Tasks, SleepSaves(t)
    PROVE  QInv'
  <1>1. /\ UNCHANGED <<cur, slot, lock, overlap, slipped>>
        /\ cur = t /\ pc[t] = "window" /\ pc' = [pc EXCEPT ![t] = "saved"]
        /\ k' = [k EXCEPT !.tmp[t] = k.head[wait_for_request]]
    BY DEF SleepSaves, At, Goto, bufs, hist
  <1>2. /\ k'.head = k.head /\ k'.at = k.at /\ k'.state = k.state
        /\ k'.tmp[t] = k.head[wait_for_request]
        /\ \A u \in Tasks : u # t => k'.tmp[u] = k.tmp[u]
    BY <1>1 DEF IInv, TypeOK, KernelStates
  <1>3. pc'[t] = "saved" /\ \A u \in Tasks : u # t => pc'[u] = pc[u]
    BY <1>1 DEF IInv, TypeOK
  <1>4. Places'
    BY <1>1, <1>2, <1>3 DEF QInv, Places
  <1>5. ASSUME Clean' PROVE Saved' /\ Stacks' /\ Woke'
    <2>1. Clean
      BY <1>1, <1>5 DEF Clean
    <2>2. Saved'
      BY <1>1, <1>2, <1>3, OneNarrow DEF Saved, Narrow
    <2>3. \A q : /\ Linked(q)' = Linked(q) /\ Entering(q)' = Entering(q)
                 /\ Coming(q)' = Coming(q)
                 /\ Members(k', q) = Members(k, q)
                 /\ UpIn(k', q) = UpIn(k, q)
      BY <1>1, <1>2, <1>3 DEF Linked, Entering, Narrow, Coming, Members, UpIn
    <2>4. ASSUME NEW q \in Queues PROVE Stack(k', q, Linked(q))
      <3>1. \A u \in Members(k, q) \cup Linked(q) : k'.tmp[u] = k.tmp[u]
        <4>1. q # Null /\ k.at[t] = Null
          BY <1>1 DEF QInv, Places, BlockAssumption
        <4> QED  BY <1>1, <1>2, <4>1 DEF Members, Linked
      <3> QED  BY <1>2, <2>1, <2>3, <3>1, StackSame DEF QInv, Stacks
    <2> QED  BY <2>1, <2>2, <2>3, <2>4 DEF QInv, Stacks, Woke
  <1> QED  BY <1>4, <1>5 DEF QInv

(* The frame is on the stack as soon as its process is the head. *)
LEMMA QLinks ==
    ASSUME BlockAssumption, IInv, QInv, NEW t \in Tasks, SleepLinks(t)
    PROVE  QInv'
  <1> DEFINE w == wait_for_request
  <1>1. /\ UNCHANGED <<cur, slot, lock, slipped>>
        /\ cur = t /\ pc[t] = "saved" /\ pc' = [pc EXCEPT ![t] = "linked"]
        /\ k' = [k EXCEPT !.head[w] = t]
        /\ overlap' = overlap \cup
               {q \in {w} : \E u \in Members(k, q) : k.state[u] = RUNNING}
    BY DEF SleepLinks, At, Goto, bufs
  <1>2. w \in Queues /\ w # Null /\ k.at[t] = Null
    BY <1>1 DEF QInv, Places, BlockAssumption
  <1>3. /\ k'.tmp = k.tmp /\ k'.at = k.at /\ k'.state = k.state
        /\ k'.head[w] = t
        /\ \A q \in Queues : q # w => k'.head[q] = k.head[q]
    BY <1>1, <1>2 DEF IInv, TypeOK, KernelStates
  <1>4. pc'[t] = "linked" /\ \A u \in Tasks : u # t => pc'[u] = pc[u]
    BY <1>1 DEF IInv, TypeOK
  <1>5. Places'
    BY <1>1, <1>3, <1>4 DEF QInv, Places
  <1>6. \A q : Members(k', q) = Members(k, q) /\ UpIn(k', q) = UpIn(k, q)
    BY <1>3 DEF Members, UpIn
  <1>7. ASSUME Clean' PROVE Saved' /\ Stacks' /\ Woke'
    <2>1. Clean /\ UpIn(k, w) = {}
      BY <1>1, <1>7 DEF Clean, UpIn
    <2>2. Saved'
      BY <1>1, <1>4, OneNarrow DEF Saved, Narrow
    <2>3. \A q : Entering(q)' = Entering(q) /\ Coming(q)' = Coming(q)
      BY <1>1, <1>4 DEF Entering, Narrow, Coming
    <2>4. /\ Linked(w) = {} /\ Linked(w)' = {t}
          /\ \A q : q # w => Linked(q) = {} /\ Linked(q)' = {}
      BY <1>1, <1>4, OneNarrow DEF Linked, Narrow
    <2>5. ASSUME NEW q \in Queues PROVE Stack(k', q, Linked(q)')
      <3>1. Stack(k, q, Linked(q))
        BY <2>1 DEF QInv, Stacks
      <3>2. CASE q = w
        <4>1. k.tmp[t] = k.head[w]
          BY <1>1, <2>1 DEF QInv, Saved
        <4>2. t \notin Members(k, w)
          BY <1>2 DEF Members
        <4>3. Stack(k, w, {})
          BY <2>4, <3>1, <3>2
        <4>4. Members(k', w) \cup {t} = Members(k, w) \cup {t}
              /\ UpIn(k', w) = {}
              /\ k'.tmp[t] = k.head[w]
              /\ \A u \in Members(k, w) : k'.tmp[u] = k.tmp[u]
          BY <1>3, <1>6, <2>1, <4>1
        <4>5. Stack(k', w, {t})
          <5> HIDE DEF w
          <5> QED  BY <1>2, <1>3, <2>1, <4>2, <4>3, <4>4, PushStack
        <4> QED  BY <2>4, <3>2, <4>5
      <3>3. CASE q # w
        BY <1>3, <1>6, <2>4, <3>1, <3>3, StackSame
      <3> QED  BY <3>2, <3>3
    <2> QED  BY <1>6, <2>1, <2>2, <2>3, <2>5 DEF QInv, Stacks, Woke
  <1> QED  BY <1>5, <1>7 DEF QInv

LEMMA QStops ==
    ASSUME BlockAssumption, IInv, QInv, NEW t \in Tasks, SleepStops(t)
    PROVE  QInv'
  <1> DEFINE w == wait_for_request
  <1>1. /\ UNCHANGED <<slot, lock, overlap, slipped>>
        /\ cur = t /\ pc[t] = "linked" /\ pc' = [pc EXCEPT ![t] = "scan"]
        /\ k' = [k EXCEPT !.state[t] = UNINTERRUPTIBLE, !.at[t] = w]
        /\ cur' = Null
    BY DEF SleepStops, At, Goto, bufs, hist
  <1>2. w \in Queues /\ w # Null /\ k.at[t] = Null /\ Null \notin Tasks
    BY <1>1 DEF QInv, Places, BlockAssumption
  <1>3. /\ k'.tmp = k.tmp /\ k'.head = k.head
        /\ k'.at[t] = w /\ k'.state[t] = UNINTERRUPTIBLE
        /\ \A u \in Tasks : u # t => /\ k'.at[u] = k.at[u]
                                     /\ k'.state[u] = k.state[u]
    BY <1>1 DEF IInv, TypeOK, KernelStates
  <1>4. \A u \in Tasks : pc'[u] \notin Narrow
    BY <1>1, OneNarrow DEF IInv, TypeOK, Narrow
  <1>5. Places'
    BY <1>1, <1>2, <1>4 DEF Places
  <1>6. ASSUME Clean' PROVE Saved' /\ Stacks' /\ Woke'
    <2>1. Clean
      BY <1>1, <1>6 DEF Clean
    <2>2. Saved'
      BY <1>4 DEF Saved, Narrow
    <2>3. /\ Linked(w) = {t} /\ \A q : q # w => Linked(q) = {}
          /\ \A q : Linked(q)' = {} /\ Entering(q)' = {}
          /\ t \in Entering(w)
      BY <1>1, <1>4, OneNarrow DEF Linked, Entering, Narrow
    <2>4. /\ Members(k', w) = Members(k, w) \cup {t}
          /\ \A q \in Queues : q # w => Members(k', q) = Members(k, q)
      BY <1>2, <1>3 DEF Members, BlockAssumption
    <2>5. ASSUME NEW q \in Queues PROVE UpIn(k', q) = UpIn(k, q)
      <3>1. t \notin UpIn(k', q)
        BY <1>3 DEF UpIn
      <3>2. t \notin UpIn(k, q)
        BY <1>2 DEF UpIn, Members, BlockAssumption
      <3>3. \A u \in Tasks : u # t => (u \in UpIn(k', q) <=> u \in UpIn(k, q))
        BY <1>3 DEF UpIn, Members
      <3> QED  BY <3>1, <3>2, <3>3 DEF UpIn, Members
    <2>6. ASSUME NEW q \in Queues PROVE Stack(k', q, {})
      <3>1. Stack(k, q, Linked(q))
        BY <2>1 DEF QInv, Stacks
      <3>2. Members(k', q) \cup {} = Members(k, q) \cup Linked(q)
        BY <2>3, <2>4
      <3> QED  BY <1>3, <2>5, <3>1, <3>2, StackSame
    <2>7. \A q : Coming(q)' = Coming(q)
      BY <1>1 DEF Coming
    <2>8. ASSUME NEW q \in Queues, Members(k', q) # {}
          PROVE  UpIn(k', q) # {} \/ Coming(q)'
      <3>1. Members(k, q) \cup Entering(q) # {}
        BY <2>3, <2>4, <2>8
      <3> QED  BY <2>1, <2>5, <2>7, <3>1 DEF QInv, Woke
    <2> QED  BY <2>2, <2>3, <2>6, <2>8 DEF Stacks, Woke
  <1> QED  BY <1>5, <1>6 DEF QInv

(* end_request wakes the sleepers of its buffer and those without a        *)
(* request, before either loses what it waits for.                         *)
LEMMA QEnd ==
    ASSUME BlockAssumption, IInv, QInv, NEW i \in Slots, NEW ok \in BOOLEAN,
           end_request(i, ok)
    PROVE  QInv'
  <1> DEFINE w == wait_for_request
             b == slot[i].bh
             s == wake_up(k, b)
  <1>1. /\ UNCHANGED <<cur, pc, overlap>> /\ b # Null
        /\ lock' = lock \ {b} /\ k' = wake_up(s, w)
        /\ slipped' = (slipped \/ \E t \in Tasks : pc[t] \in Narrow)
    BY DEF end_request, Woken, Narrow
  <1>2. /\ b \in Buffers /\ b \in Queues /\ w \in Queues /\ b # w
        /\ k \in KernelStates
    BY <1>1 DEF IInv, TypeOK, BlockAssumption
  <1>3. s \in KernelStates
    BY <1>2, WakeUpType
  <1>4. /\ s.at = k.at /\ \A q : Members(s, q) = Members(k, q)
        /\ k'.at = s.at /\ \A q : Members(k', q) = Members(s, q)
    BY <1>1, <1>2, <1>3, WakeFields, WakeMembers
  <1>5. Places'
    BY <1>1, <1>4 DEF QInv, Places
  <1>6. ASSUME Clean' PROVE Saved' /\ Stacks' /\ Woke'
    <2>1. Clean /\ \A t \in Tasks : pc[t] \notin Narrow
      BY <1>1, <1>6 DEF Clean
    <2>2. Saved'
      BY <1>1, <2>1 DEF Saved, Narrow
    <2>3. \A q : /\ Linked(q) = {} /\ Linked(q)' = {}
                 /\ Entering(q) = {} /\ Entering(q)' = {}
      BY <1>1, <2>1 DEF Linked, Entering, Narrow
    <2>4. \A q \in Queues :
              /\ Stack(k, q, {})
              /\ Members(k, q) # {} => UpIn(k, q) # {} \/ Coming(q)
      BY <2>1, <2>3 DEF QInv, Stacks, Woke
    <2>5. /\ Stack(s, b, {})
          /\ Members(k, b) # {} => UpIn(s, b) # {}
      BY <1>2, <2>4, WakeStack
    <2>6. \A q \in Queues : q # b => /\ Stack(s, q, {})
                                     /\ UpIn(s, q) = UpIn(k, q)
      <3> SUFFICES ASSUME NEW q \in Queues, q # b
                   PROVE  Stack(s, q, {}) /\ UpIn(s, q) = UpIn(k, q)
        OBVIOUS
      <3>1. {} \in SUBSET Tasks
        OBVIOUS
      <3> QED  BY <1>2, <2>4, <3>1, WakeOther
    <2> HIDE DEF s
    <2>7. /\ Stack(k', w, {})
          /\ Members(s, w) # {} => UpIn(k', w) # {}
      BY <1>1, <1>2, <1>3, <2>6, WakeStack
    <2>8. \A q \in Queues : q # w => /\ Stack(k', q, {})
                                     /\ UpIn(k', q) = UpIn(s, q)
      <3> SUFFICES ASSUME NEW q \in Queues, q # w
                   PROVE  Stack(k', q, {}) /\ UpIn(k', q) = UpIn(s, q)
        OBVIOUS
      <3>1. {} \in SUBSET Tasks /\ Stack(s, q, {}) /\ Stack(s, w, {})
        BY <1>2, <2>5, <2>6
      <3> QED  BY <1>1, <1>2, <1>3, <3>1, WakeOther
    <2>9. ASSUME NEW q \in Queues, Members(k', q) # {}
          PROVE  UpIn(k', q) # {} \/ Coming(q)'
      <3>1. Members(k, q) # {} /\ Members(s, q) # {}
        BY <1>4, <2>9
      <3>2. CASE q = w
        BY <2>7, <3>1, <3>2
      <3>3. CASE q = b
        BY <1>2, <2>5, <2>8, <3>1, <3>3
      <3>4. CASE q # w /\ q # b
        <4>1. Coming(q) => Coming(q)'
          BY <1>1, <3>4 DEF Coming
        <4> QED  BY <2>4, <2>6, <2>8, <3>1, <3>4, <4>1
      <3> QED  BY <3>2, <3>3, <3>4
    <2> QED  BY <2>2, <2>3, <2>7, <2>8, <2>9 DEF Stacks, Woke
  <1> QED  BY <1>5, <1>6 DEF QInv

(* Nobody sleeps for nothing.  As long as no queue is entered before a     *)
(* woken process has left it and no request ends between the search for a  *)
(* free one and the sleep, every process asleep on a buffer or on          *)
(* wait_for_request has the lock, a request in use or a woken process to   *)
(* wait for, whatever the numbers of processes, buffers and requests:      *)
(* those two events are the only ones that make ll_rw_blk.c hang.          *)
THEOREM SleepersAreWoken ==
    ASSUME BlockAssumption, WritesHaveRoom PROVE Spec => []WaitsForSomething
  <1>1. Init => QInv  BY InitQInv
  <1>2. IInv /\ QInv /\ [Next]_vars => QInv'
    <2> SUFFICES ASSUME IInv, QInv, [Next]_vars PROVE QInv'
      OBVIOUS
    <2>1. CASE UNCHANGED vars
      <3>1. UNCHANGED <<k, cur, pc, slot, lock, overlap, slipped>>
        BY <2>1 DEF vars, bufs, hist
      <3>2. NarrowSame
        BY <3>1 DEF NarrowSame
      <3>3. Places' /\ (Clean' => Clean)
        BY <3>1 DEF QInv, Places, Clean
      <3> QED  BY <3>1, <3>2, <3>3, QuietStep DEF QInv
    <2>2. ASSUME NEW t \in Tasks, schedule(t) PROVE QInv'
      BY <2>2, QSchedule
    <2>3. ASSUME NEW t \in Tasks,
                 \/ Preempt(t)
                 \/ \E b \in Buffers : Modify(t, b) \/ Reuse(t, b)
                 \/ \E b \in Buffers, rw \in {READ, WRITE}, ahead \in BOOLEAN :
                       ll_rw_block(t, rw, ahead, b)
          PROVE  QInv'
      BY <2>3, QUser
    <2>4. ASSUME NEW t \in Tasks, lock_buffer_wait(t) \/ wait_on_buffer(t)
          PROVE  QInv'
      BY <2>4, QWait
    <2>5. ASSUME NEW t \in Tasks, lock_buffer(t) PROVE QInv'
      BY <2>5, QLock
    <2>6. ASSUME NEW t \in Tasks, make_request(t) PROVE QInv'
      BY <2>6, QRequest
    <2>7. ASSUME NEW t \in Tasks, NoFreeRequest(t) PROVE QInv'
      BY <2>7, QNoFree
    <2>8. ASSUME NEW t \in Tasks, SleepSaves(t) PROVE QInv'
      BY <2>8, QSaves
    <2>9. ASSUME NEW t \in Tasks, SleepLinks(t) PROVE QInv'
      BY <2>9, QLinks
    <2>10. ASSUME NEW t \in Tasks, SleepStops(t) PROVE QInv'
      BY <2>10, QStops
    <2>11. ASSUME NEW i \in Slots, NEW ok \in BOOLEAN, end_request(i, ok)
           PROVE  QInv'
      BY <2>11, QEnd
    <2> QED
      BY <2>1, <2>2, <2>3, <2>4, <2>5, <2>6, <2>7, <2>8, <2>9, <2>10, <2>11
      DEF Next
  <1>3. IInv /\ QInv => WaitsForSomething
    <2> SUFFICES ASSUME QInv, Clean, NEW q \in Queues, NEW t \in Members(k, q)
                 PROVE  \/ \E u \in Members(k, q) : k.state[u] = RUNNING
                        \/ IF q = wait_for_request
                           THEN \E i \in Slots : slot[i] # Free
                           ELSE q \in lock
      BY DEF WaitsForSomething, Clean
    <2>1. UpIn(k, q) # {} \/ Coming(q)
      BY DEF QInv, Woke
    <2> QED  BY <2>1 DEF UpIn, Coming, Free
  <1>4. Spec => []IInv  BY BufferLocks
  <1> QED  BY <1>1, <1>2, <1>3, <1>4, PTL DEF Spec
=============================================================================
