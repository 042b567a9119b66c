----------------------------- MODULE WaitQueue -----------------------------
(***************************************************************************)
(* Tasks that sleep on, and are woken from, the wait queues of SleepOn.    *)
(* "cur" is the running task: Null while schedule() is choosing one, Idle  *)
(* for task 0.  A task is in user mode, or anywhere in the kernel outside  *)
(* a sleep_on frame, when k.at[cur] = Null.                                *)
(*                                                                         *)
(* Three history variables record how the pointers were used:              *)
(*   depth[t]    how deep t's frame lies in its queue                      *)
(*   overlap[q]  some task entered q while a task already woken from q had *)
(*               not yet run the code after its schedule()                 *)
(*   stray       TASK_RUNNING was stored through a pointer of a queue into *)
(*               a task that is not in that queue                          *)
(***************************************************************************)
EXTENDS Naturals, SleepOn

CONSTANTS UQueues,    \* queues slept on with sleep_on
          IQueues,    \* queues slept on with interruptible_sleep_on
          IrqQueues,  \* queues that interrupt handlers wake
          Idle        \* task 0

ASSUME QueuesAssumption == /\ Queues = UQueues \cup IQueues
                           /\ UQueues \cap IQueues = {}
                           /\ IrqQueues \subseteq Queues
ASSUME NullAssumption   == /\ Null \notin Tasks \cup Queues
                           /\ Idle \notin Tasks \cup {Null}

VARIABLES k, cur, sig, exited, depth, overlap, stray
vars == <<k, cur, sig, exited, depth, overlap, stray>>
hist == <<depth, overlap, stray>>

TypeOK == /\ k \in KernelStates
          /\ cur \in Tasks \cup {Idle, Null}
          /\ sig \subseteq Tasks
          /\ exited \subseteq Tasks
          /\ depth \in [Tasks -> Nat]
          /\ overlap \in [Queues -> BOOLEAN]
          /\ stray \in BOOLEAN

Init == /\ k = KernelInit
        /\ cur = Null
        /\ sig = {}
        /\ exited = {}
        /\ depth = [t \in Tasks |-> 0]
        /\ overlap = [q \in Queues |-> FALSE]
        /\ stray = FALSE

(* t runs, outside any sleep_on frame *)
Free(t) == cur = t /\ t \notin exited /\ k.at[t] = Null

(* the history of a store of TASK_RUNNING into task t through queue q *)
RecordWake(q, t) ==
    stray' = (stray \/ (t # Null /\ t \notin Members(k, q)))

(* the history of t entering q *)
RecordEnter(t, q) ==
    /\ overlap' = [overlap EXCEPT ![q] =
           @ \/ \E u \in Members(k, q) : k.state[u] = RUNNING]
    /\ depth' = [depth EXCEPT ![t] =
           IF overlap'[q] \/ k.head[q] = Null THEN 0 ELSE depth[k.head[q]] + 1]

-----------------------------------------------------------------------------
Sleep(t, q) ==
    /\ Free(t)
    /\ k' = IF q \in UQueues THEN sleep_on(k, t, q)
                             ELSE interruptible_sleep_on(k, t, q)
    /\ cur' = Null
    /\ RecordEnter(t, q)
    /\ UNCHANGED <<sig, exited, stray>>

(* sys_pause, and the sleep of sys_waitpid: asleep on no queue *)
sys_pause(t) ==
    /\ Free(t)
    /\ k' = [k EXCEPT !.state[t] = INTERRUPTIBLE]
    /\ cur' = Null
    /\ UNCHANGED <<sig, exited, hist>>

(* a task, or an interrupt handler, calls wake_up(q) *)
WakeUp(q) ==
    /\ q \in IrqQueues \/ \E t \in Tasks : Free(t)
    /\ k' = wake_up(k, q)
    /\ RecordWake(q, k.head[q])
    /\ UNCHANGED <<cur, sig, exited, depth, overlap>>

(* schedule() has returned in a task that is inside a sleep_on frame *)
Resume(t) ==
    /\ cur = t /\ k.at[t] # Null
    /\ k.at[t] \in UQueues \/ ~NotHead(k, t)
    /\ k' = SleepLeave(k, t)
    /\ RecordWake(k.at[t], k.tmp[t])
    /\ UNCHANGED <<cur, sig, exited, depth, overlap>>

Repeat(t) ==
    /\ cur = t /\ k.at[t] \in IQueues
    /\ NotHead(k, t)
    /\ k' = SleepRepeat(k, t)
    /\ cur' = Null
    /\ RecordWake(k.at[t], k.head[k.at[t]])
    /\ UNCHANGED <<sig, exited, depth, overlap>>

(* the timer takes the processor from a task in user mode; task 0 calls    *)
(* schedule() through its endless pause()                                  *)
Preempt(t) ==
    /\ cur = t
    /\ t \in Tasks => k.at[t] = Null
    /\ cur' = Null
    /\ UNCHANGED <<k, sig, exited, hist>>

(* schedule() picks any runnable task, task 0 when there is none *)
schedule(t) ==
    /\ cur = Null
    /\ k' = WakeSignalled(k, sig)
    /\ \/ t \in Tasks /\ k'.state[t] = RUNNING
       \/ t = Idle /\ \A u \in Tasks : k'.state[u] # RUNNING
    /\ cur' = t
    /\ UNCHANGED <<sig, exited, hist>>

(* a deliverable signal is raised by a task or by an interrupt (tty, timer) *)
Signal(t) ==
    /\ t \notin sig \cup exited
    /\ sig' = sig \cup {t}
    /\ UNCHANGED <<k, cur, exited, hist>>

(* do_signal on the way back to user mode *)
do_signal(t) ==
    /\ Free(t) /\ t \in sig
    /\ sig' = sig \ {t}
    /\ UNCHANGED <<k, cur, exited, hist>>

do_exit(t) ==
    /\ Free(t)
    /\ k' = [k EXCEPT !.state[t] = ZOMBIE]
    /\ exited' = exited \cup {t}
    /\ cur' = Null
    /\ UNCHANGED <<sig, hist>>

Next == \/ \E t \in Tasks : \/ \E q \in Queues : Sleep(t, q)
                            \/ sys_pause(t)
                            \/ Resume(t)
                            \/ Repeat(t)
                            \/ Signal(t)
                            \/ do_signal(t)
                            \/ do_exit(t)
        \/ \E q \in Queues : WakeUp(q)
        \/ \E t \in Tasks \cup {Idle} : Preempt(t) \/ schedule(t)

Spec == Init /\ [][Next]_vars

(* The scheduler gives every runnable task its turn, a task that has the   *)
(* processor inside the kernel goes on, and the timer ends every turn in   *)
(* user mode.                                                              *)
Fairness == /\ \A t \in Tasks : /\ SF_vars(schedule(t))
                                /\ WF_vars(Resume(t))
                                /\ WF_vars(Repeat(t))
            /\ \A t \in Tasks \cup {Idle} : WF_vars(Preempt(t))
            /\ WF_vars(schedule(Idle))

FairSpec == Spec /\ Fairness

-----------------------------------------------------------------------------
Clean(q) == ~overlap[q] /\ ~stray

(* A task asleep in a clean queue is reachable: it is the head, or it is   *)
(* remembered in the frame of a task that entered the queue after it.      *)
(* This is what sched.c's chain of tmp variables is for.                   *)
NoLostSleeper ==
    \A q \in UQueues : Clean(q) =>
        \A t \in Members(k, q) : k.state[t] = UNINTERRUPTIBLE =>
            \/ k.head[q] = t
            \/ \E u \in Members(k, q) : k.tmp[u] = t /\ depth[u] > depth[t]

(* In a clean queue the wake-up travels down the chain one task at a time: *)
(* at most one member is awake, and nobody but wake_up's next caller can   *)
(* still find it through the queue.                                        *)
OneAwake ==
    \A q \in UQueues : Clean(q) =>
        \A t, u \in Members(k, q) :
            k.state[t] = RUNNING =>
               /\ k.state[u] = RUNNING => u = t
               /\ k.head[q] \in {Null, t}
               /\ k.tmp[u] # t

(* Without stray stores the schedule() at the end of do_exit never         *)
(* returns: an exited task stays a zombie and never runs again.            *)
ExitIsFinal == ~stray => \A t \in exited : k.state[t] = ZOMBIE /\ cur # t

(* A stray store only comes from a queue that tasks re-entered too early,  *)
(* or from one whose sleepers signals can wake.                            *)
StrayNeedsCause ==
    [][stray' /\ ~stray =>
         \/ \E q \in UQueues : overlap[q]
         \/ IQueues # {}]_vars

(* One wake_up of a clean queue reaches every sleeper in it, because each  *)
(* task that leaves sleep_on wakes the next.                               *)
WakesAll ==
    \A q \in UQueues : \A t \in Tasks :
        (k.at[t] = q /\ k.head[q] = Null)
            ~> (k.at[t] # q \/ ~Clean(q))

(* The inductive invariant of the proofs.  A clean queue is a stack of     *)
(* frames: each tmp points one frame down, every sleeper hangs on the head *)
(* or on a tmp, and the one member that may be awake is the top.           *)
Links(q) ==
    LET M == Members(k, q) IN
    \A t \in M :
        /\ k.tmp[t] \in M \cup {Null}
        /\ k.tmp[t] = Null => depth[t] = 0
        /\ k.tmp[t] # Null => /\ k.tmp[t] # k.head[q]
                              /\ depth[t] = depth[k.tmp[t]] + 1
                              /\ k.state[k.tmp[t]] = UNINTERRUPTIBLE
        /\ \A u \in M : k.tmp[t] = k.tmp[u] /\ k.tmp[t] # Null => t = u
        /\ k.state[t] # RUNNING =>
              /\ k.state[t] = UNINTERRUPTIBLE
              /\ k.head[q] = t \/ \E u \in M : k.tmp[u] = t

Top(q) ==
    LET M == Members(k, q) IN
    /\ k.head[q] \in M \cup {Null}
    /\ k.head[q] # Null => \A u \in M : u # k.head[q] =>
                              depth[u] < depth[k.head[q]]
    /\ k.head[q] = Null => \A u \in M : \E t \in M : k.state[t] = RUNNING
    /\ \A t \in M : k.state[t] = RUNNING =>
           /\ k.head[q] \in {Null, t}
           /\ \A u \in M : u # t => depth[u] < depth[t] /\ k.state[u] # RUNNING

Chain(q) == Links(q) /\ Top(q)
Chains == \A q \in UQueues : Clean(q) => Chain(q)
Exits  == ~stray => \A t \in exited :
              k.state[t] = ZOMBIE /\ cur # t /\ k.at[t] = Null
Awake  == /\ cur \in Tasks => k.state[cur] = RUNNING
          /\ \A t \in Tasks : k.at[t] = Null => k.tmp[t] = Null
IInv   == TypeOK /\ Chains /\ Exits /\ Awake
=============================================================================
