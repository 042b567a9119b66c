----------------------------- MODULE Scheduler -----------------------------
(***************************************************************************)
(* schedule(), do_timer(), sys_alarm() and sys_nice() of kernel/sched.c,   *)
(* with the rescheduling test at the end of every system call.  Task 0,    *)
(* the idle task, is number 0; the others are 1 .. NR.                     *)
(*                                                                         *)
(* An alarm is kept relative to jiffies: alarm[t] = d stands for           *)
(* task->alarm = jiffies + d, and Overdue for every alarm in the past.     *)
(***************************************************************************)
EXTENDS Integers

CONSTANTS NR,           \* the last task number
          LongMax,      \* the largest value of a C long
          InitPriority, \* the priority every task starts with
          MaxPriority,  \* bound on the priorities sys_nice is asked for
          MaxIncrement, \* bound on the argument of sys_nice, either way
          Delays        \* the arguments of sys_alarm, in ticks

ASSUME SchedAssumption == /\ NR \in Nat
                          /\ LongMax \in Nat
                          /\ InitPriority \in 1 .. MaxPriority
                          /\ MaxPriority \in 1 .. LongMax
                          /\ MaxIncrement \in Nat
                          /\ Delays \subseteq Nat

Tasks == 1 .. NR

VARIABLES state,     \* running, interruptible, uninterruptible
          counter,   \* ticks left of the time slice
          priority,
          alarm,     \* ticks until the alarm, Overdue or NoAlarm
          sigalrm,   \* SIGALRM is pending
          cur,       \* the current task
          mode       \* the mode each task runs in, or gave up the processor in

vars == <<state, counter, priority, alarm, sigalrm, cur, mode>>

NoAlarm == -2
Overdue == -1
Asleep  == {"interruptible", "uninterruptible"}
States  == Asleep \cup {"running"}

(* A C long wraps around. *)
Long(x) == IF x > LongMax THEN x - 2 * (LongMax + 1) ELSE x
LongRange == -LongMax - 1 .. LongMax

TypeOK == /\ state \in [Tasks -> States]
          /\ counter \in [Tasks -> LongRange]
          /\ priority \in [Tasks -> 1 .. MaxPriority]
          /\ alarm \in [Tasks -> Nat \cup {NoAlarm, Overdue}]
          /\ sigalrm \in [Tasks -> BOOLEAN]
          /\ cur \in Tasks \cup {0}
          /\ mode \in [Tasks -> {"user", "kernel"}]

Init == /\ state = [t \in Tasks |-> "running"]
        /\ counter = [t \in Tasks |-> InitPriority]
        /\ priority = [t \in Tasks |-> InitPriority]
        /\ alarm = [t \in Tasks |-> NoAlarm]
        /\ sigalrm = [t \in Tasks |-> FALSE]
        /\ cur = 0
        /\ mode = [t \in Tasks |-> "user"]

-----------------------------------------------------------------------------
(* The first loop of schedule(): raise SIGALRM for the alarms al that are  *)
(* overdue and wake the interruptible tasks among st that have a signal.   *)
RungNever(al) == sigalrm   \* faulty variant: SIGALRM is not raised
Rung(al) == [t \in Tasks |-> sigalrm[t] \/ al[t] = Overdue]
Signalled(st, al) == [t \in Tasks |->
    IF Rung(al)[t] /\ st[t] = "interruptible" THEN "running" ELSE st[t]]

(* The search of the second loop: c starts at -1, and the scan runs from   *)
(* the last task down and keeps the first task with the largest counter.   *)
Eligible(st, ct) == {t \in Tasks : st[t] = "running" /\ ct[t] > -1}
BestByNumber(st, ct, t) ==   \* faulty variant: the counters are ignored
    t \in Eligible(st, ct) /\ \A u \in Eligible(st, ct) : u <= t
Best(st, ct, t) ==
    /\ t \in Eligible(st, ct)
    /\ \A u \in Eligible(st, ct) :
           ct[u] < ct[t] \/ (ct[u] = ct[t] /\ u <= t)

(* The counters of all tasks, sleeping ones too, are recharged when the    *)
(* largest counter of a runnable task is 0.                                *)
SpentByAll(st, ct) ==        \* faulty variant: sleeping tasks count too
    \A t \in Tasks : ct[t] = 0
Spent(st, ct) == /\ Eligible(st, ct) # {}
                 /\ \A t \in Eligible(st, ct) : ct[t] = 0
RechargedWhole(ct) ==        \* faulty variant: old counters are not halved
    [t \in Tasks |-> Long(ct[t] + priority[t])]
Recharged(ct) == [t \in Tasks |-> Long((ct[t] \div 2) + priority[t])]

(* schedule(), from task states st, counters ct and alarms al.  A runnable *)
(* task with counter 0 is recharged to its priority, so the loop recharges *)
(* at most once.                                                           *)
schedule(st, ct, al) ==
    LET st2 == Signalled(st, al)
        ct2 == IF Spent(st2, ct) THEN Recharged(ct) ELSE ct
    IN /\ state' = st2
       /\ counter' = ct2
       /\ sigalrm' = Rung(al)
       /\ alarm' = [t \in Tasks |-> IF al[t] = Overdue THEN NoAlarm ELSE al[t]]
       /\ \/ Eligible(st2, ct2) = {} /\ cur' = 0
          \/ \E t \in Tasks : Best(st2, ct2, t) /\ cur' = t

-----------------------------------------------------------------------------
InKernel == cur # 0 /\ mode[cur] = "kernel"

(* a task in user mode enters the kernel *)
SystemCall ==
    /\ cur # 0 /\ mode[cur] = "user"
    /\ mode' = [mode EXCEPT ![cur] = "kernel"]
    /\ UNCHANGED <<state, counter, priority, alarm, sigalrm, cur>>

(* the end of system_call: reschedule when the slice is used up *)
SystemCallReturn ==
    /\ InKernel
    /\ mode' = [mode EXCEPT ![cur] = "user"]
    /\ \/ counter[cur] = 0 /\ schedule(state, counter, alarm)
       \/ counter[cur] # 0 /\ UNCHANGED <<state, counter, alarm, sigalrm, cur>>
    /\ UNCHANGED priority

(* a signal is taken on the way to user mode *)
TakeSignal ==
    /\ cur # 0 /\ mode[cur] = "user" /\ sigalrm[cur]
    /\ sigalrm' = [sigalrm EXCEPT ![cur] = FALSE]
    /\ UNCHANGED <<state, counter, priority, alarm, cur, mode>>

(* sys_pause, sys_waitpid, sleep_on and interruptible_sleep_on *)
Sleep(how) ==
    /\ InKernel
    /\ schedule([state EXCEPT ![cur] = how], counter, alarm)
    /\ UNCHANGED <<priority, mode>>

(* an interrupt handler or another task makes t runnable *)
Wake(t) ==
    /\ state[t] # "running"
    /\ state' = [state EXCEPT ![t] = "running"]
    /\ UNCHANGED <<counter, priority, alarm, sigalrm, cur, mode>>

(* the endless pause() of task 0 *)
IdlePause ==
    /\ cur = 0
    /\ schedule(state, counter, alarm)
    /\ UNCHANGED <<priority, mode>>

sys_nice(increment) ==
    /\ InKernel
    /\ Long(priority[cur] - increment) \in 1 .. MaxPriority
    /\ priority' = [priority EXCEPT ![cur] = Long(@ - increment)]
    /\ UNCHANGED <<state, counter, alarm, sigalrm, cur, mode>>

sys_alarm(ticks) ==
    /\ InKernel
    /\ alarm' = [alarm EXCEPT ![cur] = IF ticks > 0 THEN ticks ELSE NoAlarm]
    /\ UNCHANGED <<state, counter, priority, sigalrm, cur, mode>>

(* jiffies moves on, and every alarm comes one tick closer *)
Ticked == [t \in Tasks |-> IF alarm[t] \in Nat THEN alarm[t] - 1 ELSE alarm[t]]

(* timer_interrupt and do_timer: charge the tick to the current task, and  *)
(* reschedule when its slice is used up, but never inside the kernel.      *)
do_timer ==
    LET left == IF cur = 0 THEN 0 ELSE counter[cur] - 1
        ct   == IF cur = 0 THEN counter
                ELSE [counter EXCEPT ![cur] = IF left > 0 THEN left ELSE 0]
    IN /\ \/ /\ left > 0 \/ InKernel
             /\ counter' = ct
             /\ alarm' = Ticked
             /\ UNCHANGED <<state, sigalrm, cur>>
          \/ /\ ~(left > 0 \/ InKernel)
             /\ schedule(state, ct, Ticked)
       /\ UNCHANGED <<priority, mode>>

Next == \/ SystemCall \/ SystemCallReturn \/ TakeSignal \/ IdlePause
        \/ \E how \in Asleep : Sleep(how)
        \/ \E t \in Tasks : Wake(t)
        \/ \E increment \in -MaxIncrement .. MaxIncrement : sys_nice(increment)
        \/ \E ticks \in Delays : sys_alarm(ticks)
        \/ do_timer

Spec == Init /\ [][Next]_vars

(* The clock ticks, task 0 pauses, and a task inside the kernel comes to a *)
(* point where it sleeps or returns.                                       *)
Fairness == /\ WF_vars(do_timer)
            /\ WF_vars(IdlePause)
            /\ WF_vars(SystemCallReturn \/ \E how \in Asleep : Sleep(how))

FairSpec == Spec /\ Fairness

-----------------------------------------------------------------------------
(* Whenever schedule() switches to another task, that task is runnable,    *)
(* has some of its slice left and no runnable task has more; task 0, "the  *)
(* 'idle' task, which gets called when no other tasks can run", only runs  *)
(* when no task is runnable.                                               *)
GoodChoice ==
    [][cur' # cur =>
         IF cur' = 0 THEN \A t \in Tasks : state'[t] # "running"
         ELSE /\ state'[cur'] = "running"
              /\ counter'[cur'] > 0
              /\ \A t \in Tasks : state'[t] = "running" =>
                     counter'[t] <= counter'[cur']]_vars

(* The recharge of sleeping tasks converges: however often a task sleeps   *)
(* through a recharge, its counter stays below twice the largest priority, *)
(* so a task that wakes up cannot hold the processor for longer.           *)
CounterBounded == \A t \in Tasks : counter[t] \in 0 .. 2 * MaxPriority - 1

(* The current task is runnable, or it is task 0. *)
CurrentRuns == cur # 0 => state[cur] = "running"

(* Every runnable task gets the processor: counters only grow when all     *)
(* runnable tasks have used up theirs.                                     *)
NoStarvation == \A t \in Tasks : state[t] = "running" ~> cur = t

(* A task that sleeps interruptibly with an alarm set is woken by it, even *)
(* when nobody else wakes it and every other task is busy.                 *)
AlarmWakes ==
    \A t \in Tasks : (state[t] = "interruptible" /\ alarm[t] # NoAlarm)
                        ~> state[t] = "running"

(* No recharge overflows as long as sys_nice is not asked for more than    *)
(* half of a long.                                                         *)
NoOverflow == 2 * MaxPriority - 1 <= LongMax

IInv == TypeOK /\ CounterBounded /\ CurrentRuns
=============================================================================
