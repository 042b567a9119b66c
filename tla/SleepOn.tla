------------------------------ MODULE SleepOn ------------------------------
(***************************************************************************)
(* The wait-queue primitives of kernel/sched.c, as functions from one      *)
(* kernel state to the next.  A wait queue is a single task pointer; the   *)
(* rest of the queue lives on the kernel stacks of the sleepers, in the    *)
(* local variable "tmp" of each sleep_on frame.                            *)
(*                                                                         *)
(* A kernel state k is a record                                            *)
(*   k.state[t]  the scheduling state of task t                            *)
(*   k.head[q]   the task pointer *p of queue q                            *)
(*   k.tmp[t]    the local tmp of the frame task t is inside               *)
(*   k.at[t]     the queue of that frame, Null when t is in none           *)
(* The kernel is not preempted in kernel mode, so everything between two   *)
(* calls of schedule() is one function below.                              *)
(***************************************************************************)
CONSTANTS Tasks,    \* the task structures, task 0 excluded
          Queues,   \* the wait queues
          Null      \* the NULL pointer

RUNNING         == "running"
INTERRUPTIBLE   == "interruptible"
UNINTERRUPTIBLE == "uninterruptible"
ZOMBIE          == "zombie"
States == {RUNNING, INTERRUPTIBLE, UNINTERRUPTIBLE, ZOMBIE}
Asleep == {INTERRUPTIBLE, UNINTERRUPTIBLE}

KernelStates == [state : [Tasks -> States],
                 head  : [Queues -> Tasks \cup {Null}],
                 tmp   : [Tasks -> Tasks \cup {Null}],
                 at    : [Tasks -> Queues \cup {Null}]]

KernelInit == [state |-> [t \in Tasks |-> RUNNING],
               head  |-> [q \in Queues |-> Null],
               tmp   |-> [t \in Tasks |-> Null],
               at    |-> [t \in Tasks |-> Null]]

(* if (t) t->state = TASK_RUNNING *)
MakeRunning(state, t) ==
    IF t = Null THEN state ELSE [state EXCEPT ![t] = RUNNING]

wake_up(k, q) ==
    [k EXCEPT !.state   = MakeRunning(@, k.head[q]),
              !.head[q] = Null]

(* Faulty variant: the previous head is not saved. *)
SleepEnterForgets(k, t, q, how) ==
    [k EXCEPT !.head[q] = t, !.state[t] = how, !.at[t] = q]

(* sleep_on and interruptible_sleep_on up to their call of schedule() *)
SleepEnter(k, t, q, how) ==
    [k EXCEPT !.tmp[t]   = k.head[q],
              !.head[q]  = t,
              !.state[t] = how,
              !.at[t]    = q]

sleep_on(k, t, q)               == SleepEnter(k, t, q, UNINTERRUPTIBLE)
interruptible_sleep_on(k, t, q) == SleepEnter(k, t, q, INTERRUPTIBLE)

(* Faulty variant: the next sleeper is restored as head but not woken. *)
SleepLeaveSilently(k, t) ==
    [k EXCEPT !.head[k.at[t]] = k.tmp[t], !.tmp[t] = Null, !.at[t] = Null]

(* the code after schedule(): pop the frame and hand the wake-up on *)
SleepLeave(k, t) ==
    [k EXCEPT !.head[k.at[t]] = k.tmp[t],
              !.state         = MakeRunning(@, k.tmp[t]),
              !.tmp[t]        = Null,
              !.at[t]         = Null]

(* "*p && *p != current": somebody else is the head of the queue *)
NotHead(k, t) == k.head[k.at[t]] \notin {Null, t}

(* the body of that test: wake the head and go back to sleep *)
SleepRepeat(k, t) ==
    [k EXCEPT !.state = [MakeRunning(@, k.head[k.at[t]])
                            EXCEPT ![t] = INTERRUPTIBLE]]

(* Faulty variant: a signal makes a task runnable whatever it is doing. *)
WakeSignalledAny(k, sig) ==
    [k EXCEPT !.state = [t \in Tasks |-> IF t \in sig THEN RUNNING ELSE @[t]]]

(* the first loop of schedule(): interruptible tasks that got a signal *)
WakeSignalled(k, sig) ==
    [k EXCEPT !.state = [t \in Tasks |->
        IF t \in sig /\ @[t] = INTERRUPTIBLE THEN RUNNING ELSE @[t]]]

Members(k, q) == {t \in Tasks : k.at[t] = q}
=============================================================================
