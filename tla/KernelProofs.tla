---------------------------- MODULE KernelProofs ----------------------------
(***************************************************************************)
(* Three components with specifications of their own: the scheduler, the   *)
(* request list and the terminal.                                          *)
(*                                                                         *)
(* Scheduler: for every number of tasks, every width of a long and every   *)
(* set of alarms, schedule() chooses well.                                 *)
(* RequestQueue: for every number of devices, blocks and request slots the *)
(* elevator of add_request keeps the list in at most two sweeps.           *)
(* Tty: the line counter of the cooked queue is exact between two steps,   *)
(* because every place that moves an end of line into or out of the queue  *)
(* adjusts it in the same step.                                            *)
(***************************************************************************)
EXTENDS Scheduler, RequestQueue, Tty,
        SequenceTheorems, FiniteSetTheorems, WellFoundedInduction, TLAPS

-----------------------------------------------------------------------------
(* schedule() and the clock. *)

(* What a recharge of bounded counters gives. *)
LEMMA RechargeBounded ==
    ASSUME SchedAssumption, NoOverflow,
           NEW c \in 0 .. 2 * MaxPriority - 1, NEW p \in 1 .. MaxPriority
    PROVE  /\ Long((c \div 2) + p) \in 0 .. 2 * MaxPriority - 1
           /\ c = 0 => Long((c \div 2) + p) = p
  <1>1. c \div 2 \in Int /\ 0 <= c \div 2 /\ 2 * (c \div 2) <= c
    BY DEF SchedAssumption
  <1>2. c \div 2 <= MaxPriority - 1
    BY <1>1 DEF SchedAssumption
  <1>3. (c \div 2) + p <= LongMax
    BY <1>1, <1>2 DEF SchedAssumption, NoOverflow
  <1>4. Long((c \div 2) + p) = (c \div 2) + p
    BY <1>1, <1>3 DEF Long, SchedAssumption
  <1>5. c = 0 => c \div 2 = 0
    BY <1>1
  <1> QED  BY <1>1, <1>2, <1>4, <1>5 DEF SchedAssumption

(* schedule() keeps the invariant and chooses well, from any task states   *)
(* and bounded counters.                                                   *)
LEMMA ScheduleGood ==
    ASSUME SchedAssumption, NoOverflow, TypeOK,
           NEW st \in [Tasks -> States],
           NEW ct \in [Tasks -> 0 .. 2 * MaxPriority - 1],
           NEW al \in [Tasks -> Nat \cup {NoAlarm, Overdue}],
           schedule(st, ct, al), priority' = priority,
           mode' \in [Tasks -> {"user", "kernel"}]
    PROVE  /\ IInv'
           /\ IF cur' = 0 THEN \A t \in Tasks : state'[t] # "running"
              ELSE /\ state'[cur'] = "running"
                   /\ counter'[cur'] > 0
                   /\ \A t \in Tasks : state'[t] = "running" =>
                          counter'[t] <= counter'[cur']
  <1> DEFINE st2 == Signalled(st, al)
             ct2 == IF Spent(st2, ct) THEN Recharged(ct) ELSE ct
  <1>1. st2 \in [Tasks -> States]
    BY DEF Signalled, States
  <1>2. /\ Recharged(ct) \in [Tasks -> 0 .. 2 * MaxPriority - 1]
        /\ \A t \in Tasks : ct[t] = 0 => Recharged(ct)[t] > 0
    <2>1. \A t \in Tasks :
             /\ Long((ct[t] \div 2) + priority[t]) \in 0 .. 2 * MaxPriority - 1
             /\ ct[t] = 0 => Long((ct[t] \div 2) + priority[t]) > 0
      <3> SUFFICES ASSUME NEW t \in Tasks
          PROVE  /\ Long((ct[t] \div 2) + priority[t])
                        \in 0 .. 2 * MaxPriority - 1
                 /\ ct[t] = 0 => Long((ct[t] \div 2) + priority[t]) > 0
        OBVIOUS
      <3>1. /\ ct[t] \in 0 .. 2 * MaxPriority - 1
            /\ priority[t] \in 1 .. MaxPriority
        BY DEF TypeOK
      <3>2. /\ Long((ct[t] \div 2) + priority[t]) \in 0 .. 2 * MaxPriority - 1
            /\ ct[t] = 0 => Long((ct[t] \div 2) + priority[t]) = priority[t]
        BY <3>1, RechargeBounded
      <3>3. priority[t] > 0  BY <3>1 DEF SchedAssumption
      <3> QED  BY <3>2, <3>3
    <2> QED  BY <2>1 DEF Recharged
  <1>3. ct2 \in [Tasks -> 0 .. 2 * MaxPriority - 1]  BY <1>2
  <1>4. /\ state' = st2 /\ counter' = ct2 /\ sigalrm' = Rung(al)
        /\ alarm' = [t \in Tasks |-> IF al[t] = Overdue THEN NoAlarm ELSE al[t]]
        /\ \/ Eligible(st2, ct2) = {} /\ cur' = 0
           \/ \E t \in Tasks : Best(st2, ct2, t) /\ cur' = t
    BY DEF schedule
  <1>5. Eligible(st2, ct) = {t \in Tasks : st2[t] = "running"}
    BY SchedAssumption DEF Eligible, SchedAssumption
  <1>6. Eligible(st2, ct2) = {t \in Tasks : st2[t] = "running"}
    BY <1>3, SchedAssumption DEF Eligible, SchedAssumption
  <1>7. \A t \in Tasks : Best(st2, ct2, t) =>
           /\ st2[t] = "running" /\ ct2[t] > 0
           /\ \A u \in Tasks : st2[u] = "running" => ct2[u] <= ct2[t]
    <2> SUFFICES ASSUME NEW t \in Tasks, Best(st2, ct2, t)
                 PROVE  /\ st2[t] = "running" /\ ct2[t] > 0
                        /\ \A u \in Tasks : st2[u] = "running" =>
                                ct2[u] <= ct2[t]
      OBVIOUS
    <2>1. st2[t] = "running" /\ \A u \in Tasks : st2[u] = "running" =>
                ct2[u] <= ct2[t]
      BY <1>3, <1>6, SchedAssumption DEF Best, SchedAssumption
    <2>2. CASE Spent(st2, ct)
      BY <1>2, <1>5, <2>1, <2>2 DEF Spent
    <2>3. CASE ~Spent(st2, ct)
      <3>1. PICK u \in Tasks : st2[u] = "running" /\ ct[u] # 0
        BY <1>5, <2>1, <2>3 DEF Spent
      <3>2. ct2[u] = ct[u] /\ ct[u] > 0
        BY <2>3, <3>1, SchedAssumption DEF SchedAssumption
      <3> QED  BY <1>3, <2>1, <3>1, <3>2, SchedAssumption DEF SchedAssumption
    <2> QED  BY <2>2, <2>3
  <1> HIDE DEF st2, ct2
  <1>8. IF cur' = 0 THEN \A t \in Tasks : state'[t] # "running"
        ELSE /\ state'[cur'] = "running"
             /\ counter'[cur'] > 0
             /\ \A t \in Tasks : state'[t] = "running" =>
                    counter'[t] <= counter'[cur']
    <2>1. 0 \notin Tasks  BY DEF Tasks
    <2>2. CASE Eligible(st2, ct2) = {} /\ cur' = 0
      BY <1>4, <1>6, <2>2
    <2>3. CASE \E t \in Tasks : Best(st2, ct2, t) /\ cur' = t
      <3>1. PICK t \in Tasks : Best(st2, ct2, t) /\ cur' = t  BY <2>3
      <3>2. t # 0  BY <2>1
      <3> QED  BY <1>4, <1>7, <3>1, <3>2
    <2> QED  BY <1>4, <2>2, <2>3
  <1>9. Rung(al) \in [Tasks -> BOOLEAN]  BY DEF Rung, TypeOK
  <1>10. TypeOK'
    <2>1. counter' \in [Tasks -> LongRange]
      BY <1>3, <1>4, SchedAssumption DEF LongRange, SchedAssumption, NoOverflow
    <2>2. alarm' \in [Tasks -> Nat \cup {NoAlarm, Overdue}]
      BY <1>4
    <2>3. cur' \in Tasks \cup {0}  BY <1>4
    <2> QED  BY <1>1, <1>4, <1>9, <2>1, <2>2, <2>3 DEF TypeOK, st2
  <1>11. CounterBounded'  BY <1>3, <1>4 DEF CounterBounded
  <1>12. CurrentRuns'  BY <1>4, <1>7 DEF CurrentRuns
  <1> QED  BY <1>8, <1>10, <1>11, <1>12 DEF IInv

(* One step: either the current task stays, with the invariant kept, or    *)
(* schedule() has chosen.                                                  *)
LEMMA StepGood ==
    ASSUME SchedAssumption, NoOverflow, IInv, [Next]_vars
    PROVE  /\ IInv'
           /\ \/ cur' = cur
              \/ IF cur' = 0 THEN \A t \in Tasks : state'[t] # "running"
                 ELSE /\ state'[cur'] = "running"
                      /\ counter'[cur'] > 0
                      /\ \A t \in Tasks : state'[t] = "running" =>
                             counter'[t] <= counter'[cur']
  <1> DEFINE G == \/ cur' = cur
                  \/ IF cur' = 0 THEN \A t \in Tasks : state'[t] # "running"
                     ELSE /\ state'[cur'] = "running"
                          /\ counter'[cur'] > 0
                          /\ \A t \in Tasks : state'[t] = "running" =>
                                 counter'[t] <= counter'[cur']
  <1> SUFFICES IInv' /\ G  OBVIOUS
  <1>0. /\ TypeOK /\ CounterBounded /\ CurrentRuns
        /\ counter \in [Tasks -> 0 .. 2 * MaxPriority - 1]
        /\ MaxPriority \in Nat /\ MaxPriority > 0
    BY DEF IInv, CounterBounded, TypeOK, SchedAssumption
  <1>1. CASE SystemCall
    BY <1>0, <1>1 DEF SystemCall, IInv, TypeOK, CounterBounded, CurrentRuns
  <1>2. CASE SystemCallReturn
    <2>1. /\ mode' \in [Tasks -> {"user", "kernel"}]
          /\ priority' = priority
      BY <1>0, <1>2 DEF SystemCallReturn, TypeOK
    <2>2. CASE schedule(state, counter, alarm)
      BY <1>0, <2>1, <2>2, ScheduleGood DEF TypeOK
    <2>3. CASE UNCHANGED <<state, counter, alarm, sigalrm, cur>>
      BY <1>0, <2>1, <2>3 DEF IInv, TypeOK, CounterBounded, CurrentRuns
    <2> QED  BY <1>2, <2>2, <2>3 DEF SystemCallReturn
  <1>3. CASE TakeSignal
    BY <1>0, <1>3 DEF TakeSignal, IInv, TypeOK, CounterBounded, CurrentRuns
  <1>4. CASE IdlePause
    BY <1>0, <1>4, ScheduleGood DEF IdlePause, TypeOK
  <1>5. ASSUME NEW how \in Asleep, Sleep(how) PROVE IInv' /\ G
    <2>1. [state EXCEPT ![cur] = how] \in [Tasks -> States]
      BY <1>0 DEF TypeOK, States
    <2> QED  BY <1>0, <1>5, <2>1, ScheduleGood DEF Sleep, TypeOK
  <1>6. ASSUME NEW t \in Tasks, Wake(t) PROVE IInv' /\ G
    BY <1>0, <1>6 DEF Wake, IInv, TypeOK, CounterBounded, CurrentRuns, States
  <1>7. ASSUME NEW increment \in -MaxIncrement .. MaxIncrement,
               sys_nice(increment)
        PROVE  IInv' /\ G
    BY <1>0, <1>7 DEF sys_nice, IInv, TypeOK, CounterBounded, CurrentRuns
  <1>8. ASSUME NEW ticks \in Delays, sys_alarm(ticks) PROVE IInv' /\ G
    BY <1>0, <1>8 DEF sys_alarm, IInv, TypeOK, CounterBounded, CurrentRuns,
       SchedAssumption
  <1>9. CASE do_timer
    <2> DEFINE left == IF cur = 0 THEN 0 ELSE counter[cur] - 1
               ct == IF cur = 0 THEN counter
                     ELSE [counter EXCEPT ![cur] = IF left > 0 THEN left ELSE 0]
    <2>1. ct \in [Tasks -> 0 .. 2 * MaxPriority - 1]
      <3>1. CASE cur = 0  BY <1>0, <3>1
      <3>2. CASE cur # 0
        <4>1. cur \in Tasks /\ counter[cur] \in 0 .. 2 * MaxPriority - 1
          BY <1>0, <3>2 DEF TypeOK
        <4>2. (IF left > 0 THEN left ELSE 0) \in 0 .. 2 * MaxPriority - 1
          BY <1>0, <3>2, <4>1
        <4> HIDE DEF left
        <4> QED  BY <1>0, <3>2, <4>2
      <3> QED  BY <3>1, <3>2
    <2>2. Ticked \in [Tasks -> Nat \cup {NoAlarm, Overdue}]
      BY <1>0 DEF Ticked, TypeOK, Overdue
    <2>3. /\ UNCHANGED <<priority, mode>>
          /\ \/ schedule(state, ct, Ticked)
             \/ counter' = ct /\ alarm' = Ticked /\ UNCHANGED <<state, sigalrm, cur>>
      BY <1>9 DEF do_timer
    <2> HIDE DEF ct, left
    <2>4. CASE schedule(state, ct, Ticked)
      BY <1>0, <2>1, <2>2, <2>3, <2>4, ScheduleGood DEF TypeOK
    <2>5. CASE counter' = ct /\ alarm' = Ticked /\ UNCHANGED <<state, sigalrm, cur>>
      <3>1. CounterBounded' /\ CurrentRuns'
        BY <1>0, <2>1, <2>5 DEF CounterBounded, CurrentRuns
      <3>2. counter' \in [Tasks -> LongRange]
        BY <1>0, <2>1, <2>5 DEF LongRange, SchedAssumption, NoOverflow
      <3>3. TypeOK'
        BY <1>0, <2>2, <2>3, <2>5, <3>2 DEF TypeOK
      <3> QED  BY <2>5, <3>1, <3>3 DEF IInv
    <2> QED  BY <2>3, <2>4, <2>5
  <1>10. CASE UNCHANGED vars
    BY <1>0, <1>10 DEF vars, IInv, TypeOK, CounterBounded, CurrentRuns
  <1> HIDE DEF G
  <1> QED
    BY <1>1, <1>2, <1>3, <1>4, <1>5, <1>6, <1>7, <1>8, <1>9, <1>10 DEF Next

(* Unless sys_nice overflows a long, every counter stays within twice the  *)
(* largest priority and the current task is runnable.                      *)
THEOREM CountersBounded == ASSUME NoOverflow PROVE Spec => []IInv
  <1>1. Init => IInv
    BY SchedAssumption DEF Init, IInv, TypeOK, CounterBounded, CurrentRuns,
       SchedAssumption, LongRange, States, NoOverflow
  <1>2. IInv /\ [Next]_vars => IInv'
    BY StepGood, NoOverflow, SchedAssumption
  <1> QED  BY <1>1, <1>2, PTL DEF Spec

(* Unless sys_nice overflows a long, schedule() always switches to a       *)
(* runnable task with the largest counter, and to task 0 only when no task *)
(* is runnable.                                                            *)
THEOREM ScheduleChoosesWell == ASSUME NoOverflow PROVE Spec => GoodChoice
  <1>1. ASSUME IInv, [Next]_vars
        PROVE  [cur' # cur =>
                  IF cur' = 0 THEN \A t \in Tasks : state'[t] # "running"
                  ELSE /\ state'[cur'] = "running"
                       /\ counter'[cur'] > 0
                       /\ \A t \in Tasks : state'[t] = "running" =>
                              counter'[t] <= counter'[cur']]_vars
    BY <1>1, StepGood, NoOverflow, SchedAssumption
  <1>2. Spec => []IInv  BY CountersBounded, NoOverflow
  <1> QED  BY <1>1, <1>2, PTL DEF Spec, GoodChoice

-----------------------------------------------------------------------------
(* The request list. *)

(* The least-number principle, for sets of numbers. *)
LEMMA LeastOf == ASSUME NEW T, T \subseteq Nat, T # {}
                 PROVE  \E x \in T : \A y \in T : x <= y
  <1> DEFINE R == OpToRel(<, Nat)
  <1>1. IsWellFoundedOn(R, Nat)  BY NatLessThanWellFounded
  <1> HIDE DEF R
  <1>2. PICK x \in T : \A y \in T : ~ (<<y, x>> \in R)
    BY <1>1, WFMin
  <1>3. \A y \in Nat : y < x => <<y, x>> \in R
    BY DEF R, OpToRel
  <1>4. ASSUME NEW y \in T PROVE x <= y
    <2>1. x \in Nat /\ y \in Nat  OBVIOUS
    <2>2. ~(y < x)  BY <1>2, <1>3, <2>1
    <2> QED  BY <2>1, <2>2
  <1> QED  BY <1>4

(* IN_ORDER is a strict order, total on requests for different blocks. *)
LEMMA InOrderTotal ==
    ASSUME RequestAssumption, NEW a \in Requests, NEW b \in Requests
    PROVE  /\ IN_ORDER(a, b) => ~IN_ORDER(b, a)
           /\ a.dev # b.dev \/ a.block # b.block =>
                 IN_ORDER(a, b) \/ IN_ORDER(b, a)
  <1>1. /\ a.cmd \in Nat /\ a.dev \in Nat /\ a.block \in Nat
        /\ b.cmd \in Nat /\ b.dev \in Nat /\ b.block \in Nat
    <2>1. /\ a.cmd \in {0, 1} /\ a.dev \in Devices /\ a.block \in Blocks
          /\ b.cmd \in {0, 1} /\ b.dev \in Devices /\ b.block \in Blocks
      BY DEF Requests, READ, WRITE
    <2>2. \A x \in Devices \cup Blocks : x \in Nat
      BY RequestAssumption DEF RequestAssumption
    <2>3. a.cmd \in Nat /\ b.cmd \in Nat  BY <2>1
    <2>4. a.dev \in Nat /\ a.block \in Nat  BY <2>1, <2>2
    <2>5. b.dev \in Nat /\ b.block \in Nat  BY <2>1, <2>2
    <2> QED  BY <2>3, <2>4, <2>5
  <1> QED  BY <1>1 DEF IN_ORDER

(* The list after an insertion. *)
LEMMA InsertFields ==
    ASSUME NEW q \in Seq(Requests), NEW i \in 1 .. Len(q),
           NEW r \in Requests
    PROVE  /\ InsertAfter(q, i, r) \in Seq(Requests)
           /\ Len(InsertAfter(q, i, r)) = Len(q) + 1
           /\ \A j \in 1 .. Len(q) + 1 : InsertAfter(q, i, r)[j] =
                 IF j <= i THEN q[j] ELSE IF j = i + 1 THEN r ELSE q[j-1]
  <1> DEFINE p == InsertAfter(q, i, r)
  <1>1. \A j \in 1 .. Len(q) + 1 : p[j] =
                 IF j <= i THEN q[j] ELSE IF j = i + 1 THEN r ELSE q[j-1]
    BY DEF InsertAfter
  <1>2. p \in [1 .. Len(q) + 1 -> Requests]
    BY DEF InsertAfter
  <1> HIDE DEF p
  <1>3. p \in Seq(Requests) /\ Len(p) = Len(q) + 1
    BY <1>2
  <1> QED  BY <1>1, <1>3 DEF p

(* A request that add_request puts behind all others does not start a      *)
(* third sweep: had the list wrapped already, the request would have been  *)
(* put into the second sweep.                                              *)
LEMMA NoThirdSweep ==
    ASSUME RequestAssumption, QueueInvariant, NEW r \in Requests, ~Listed(r),
           queue # <<>>, InsertPoint(queue, r, Len(queue)),
           ~Fits(queue, Len(queue), r),
           NEW d \in 1 .. Len(queue), Descent(d)
    PROVE  IN_ORDER(queue[Len(queue)], r)
  <1> DEFINE n == Len(queue)
  <1>1. /\ n \in Nat /\ n > d /\ d \in Nat /\ d > 0
        /\ \A i \in 1 .. n : queue[i] \in Requests
        /\ \A j \in 1 .. n - 1 : ~Fits(queue, j, r)
        /\ \A i \in 1 .. n - 1 : i # d => IN_ORDER(queue[i], queue[i+1])
    <2>1. queue \in Seq(Requests) /\ n \in Nat  BY DEF QueueInvariant, QueueTypeOK
    <2>2. d < n  BY <2>1 DEF Descent
    <2>3. \A i \in 1 .. n - 1 : i # d => IN_ORDER(queue[i], queue[i+1])
      BY <2>1 DEF QueueInvariant, OneWrap, Descent
    <2> QED  BY <2>1, <2>2, <2>3 DEF InsertPoint
  <1>2. \A i \in 1 .. n : /\ IN_ORDER(queue[i], r) \/ IN_ORDER(r, queue[i])
                          /\ IN_ORDER(queue[i], r) => ~IN_ORDER(r, queue[i])
    BY <1>1, InOrderTotal DEF Listed
  <1>3. IN_ORDER(queue[d+1], r)
    BY <1>1, <1>2 DEF Fits, Descent
  <1> SUFFICES ASSUME ~IN_ORDER(queue[n], r) PROVE FALSE  OBVIOUS
  <1> DEFINE T == {m \in d + 1 .. n : ~IN_ORDER(queue[m], r)}
  <1>4. T \subseteq Nat /\ n \in T  BY <1>1
  <1>5. PICK m \in T : \A y \in T : m <= y
    <2> HIDE DEF T
    <2> QED  BY <1>4, LeastOf
  <1>6. m \in Nat /\ m > d + 1 /\ m <= n /\ IN_ORDER(r, queue[m])
    BY <1>1, <1>2, <1>3, <1>5
  <1>7. m - 1 \in 1 .. n - 1 /\ IN_ORDER(queue[m-1], r)
    BY <1>1, <1>5, <1>6
  <1>8. Fits(queue, m - 1, r)
    BY <1>1, <1>6, <1>7 DEF Fits
  <1> QED  BY <1>1, <1>7, <1>8

LEMMA AddStep ==
    ASSUME RequestAssumption, QueueInvariant, NEW r \in Requests, add_request(r)
    PROVE  QueueInvariant'
  <1> DEFINE n == Len(queue)
  <1>0. queue \in Seq(Requests) /\ n \in Nat /\ n < NR_REQUEST /\ ~Listed(r)
    BY DEF QueueInvariant, QueueTypeOK, add_request
  <1>1. CASE queue = <<>> /\ queue' = <<r>>
    BY <1>0, <1>1 DEF QueueInvariant, QueueTypeOK, Distinct, OneWrap, Descent,
                      RequestAssumption
  <1>2. ASSUME NEW i \in 1 .. n, InsertPoint(queue, r, i),
               queue' = InsertAfter(queue, i, r)
        PROVE  QueueInvariant'
    <2>1. /\ queue' \in Seq(Requests)
          /\ Len(queue') = n + 1
          /\ \A j \in 1 .. n + 1 : queue'[j] =
                IF j <= i THEN queue[j] ELSE IF j = i + 1 THEN r ELSE queue[j-1]
      BY <1>0, <1>2, InsertFields
    <2>2. QueueTypeOK'  BY <1>0, <2>1 DEF QueueTypeOK, RequestAssumption
    <2>3. Distinct'
      <3> SUFFICES ASSUME NEW a \in 1 .. n + 1, NEW b \in 1 .. n + 1,
                          queue'[a].dev = queue'[b].dev,
                          queue'[a].block = queue'[b].block
                   PROVE  a = b
        BY <2>1 DEF Distinct
      <3> DEFINE old(j) == IF j <= i THEN j ELSE j - 1
      <3>1. \A j \in 1 .. n : queue[j].dev # r.dev \/ queue[j].block # r.block
        BY <1>0 DEF Listed
      <3>2. \A x, y \in 1 .. n : queue[x].dev = queue[y].dev /\
                queue[x].block = queue[y].block => x = y
        BY DEF QueueInvariant, Distinct
      <3>3. \A j \in 1 .. n + 1 : j # i + 1 =>
                old(j) \in 1 .. n /\ queue'[j] = queue[old(j)]
        BY <1>0, <2>1
      <3>4. queue'[i+1] = r  BY <1>0, <2>1
      <3>5. a = i + 1 <=> b = i + 1  BY <3>1, <3>3, <3>4
      <3>6. CASE a # i + 1
        <4>1. /\ old(a) \in 1 .. n /\ queue'[a] = queue[old(a)]
              /\ old(b) \in 1 .. n /\ queue'[b] = queue[old(b)]
          BY <3>3, <3>5, <3>6
        <4> HIDE DEF old
        <4>2. old(a) = old(b)  BY <3>2, <4>1
        <4> QED  BY <1>0, <3>5, <3>6, <4>2 DEF old
      <3> QED  BY <3>5, <3>6
    <2>4. ASSUME NEW j \in 1 .. n, j < i
          PROVE  Descent(j)' <=> Descent(j)
      <3>1. queue'[j] = queue[j] /\ queue'[j+1] = queue[j+1]
        BY <1>0, <2>1, <2>4
      <3>2. j \in 1 .. Len(queue') - 1 /\ j \in 1 .. Len(queue) - 1
        BY <1>0, <2>1, <2>4
      <3> QED  BY <3>1, <3>2 DEF Descent
    <2>5. ASSUME NEW j \in 1 .. n, j > i + 1
          PROVE  Descent(j)' <=> Descent(j-1)
      <3>1. queue'[j] = queue[j-1] /\ queue'[j+1] = queue[(j-1)+1]
        <4>1. j \in 1 .. n + 1 /\ j + 1 \in 1 .. n + 1 /\ (j + 1) - 1 = (j - 1) + 1
          BY <1>0
        <4>2. ~(j <= i) /\ j # i + 1 /\ ~(j + 1 <= i) /\ j + 1 # i + 1
          BY <1>0, <2>5
        <4> QED  BY <2>1, <4>1, <4>2
      <3>2. j \in 1 .. Len(queue') - 1 /\ j - 1 \in 1 .. Len(queue) - 1
        BY <1>0, <2>1, <2>5
      <3> QED  BY <3>1, <3>2 DEF Descent
    <2>6. \A j \in 1 .. n + 1 : Descent(j)' => j <= n
      BY <1>0, <2>1 DEF Descent
    <2>7. Descent(i)' => ~IN_ORDER(queue[i], r)
      BY <1>0, <2>1 DEF Descent
    <2>8. Descent(i+1)' => i < n /\ ~IN_ORDER(r, queue[i+1])
      BY <1>0, <2>1 DEF Descent
    <2>9. \A a, b \in 1 .. n : Descent(a) /\ Descent(b) => a = b
      BY DEF QueueInvariant, OneWrap
    <2>10. CASE Fits(queue, i, r)
      <3>1. ~Descent(i+1)'  BY <2>8, <2>10 DEF Fits
      <3>2. Descent(i)' => Descent(i)
        BY <1>0, <2>7, <2>10 DEF Fits, Descent
      <3>3. \A j \in 1 .. n + 1 : Descent(j)' =>
              \/ j <= i /\ Descent(j)
              \/ j > i + 1 /\ Descent(j-1)
        BY <1>0, <2>4, <2>5, <2>6, <3>1, <3>2
      <3>4. \A a, b \in 1 .. n + 1 : Descent(a)' /\ Descent(b)' => a = b
        <4> SUFFICES ASSUME NEW a \in 1 .. n + 1, NEW b \in 1 .. n + 1,
                            Descent(a)', Descent(b)'
                     PROVE  a = b
          OBVIOUS
        <4>1. Descent(i) \/ ~Descent(i)'  BY <3>2
        <4>2. CASE a <= i /\ b <= i
          BY <1>0, <2>9, <3>3, <4>2
        <4>3. CASE a > i /\ b > i
          BY <1>0, <2>9, <3>3, <4>3
        <4>4. CASE a <= i /\ b > i
          <5>1. Descent(a) /\ b > i + 1 /\ Descent(b-1) /\ b - 1 \in 1 .. n
            BY <1>0, <2>6, <3>3, <4>4
          <5>2. a = b - 1  BY <1>0, <2>9, <5>1, <4>4
          <5> QED  BY <1>0, <4>4, <5>1, <5>2
        <4>5. CASE a > i /\ b <= i
          <5>1. Descent(b) /\ a > i + 1 /\ Descent(a-1) /\ a - 1 \in 1 .. n
            BY <1>0, <2>6, <3>3, <4>5
          <5>2. b = a - 1  BY <1>0, <2>9, <5>1, <4>5
          <5> QED  BY <1>0, <4>5, <5>1, <5>2
        <4> QED  BY <1>0, <4>2, <4>3, <4>4, <4>5
      <3> QED  BY <2>1, <2>2, <2>3, <3>4 DEF QueueInvariant, OneWrap
    <2>11. CASE ~Fits(queue, i, r)
      <3>1. i = n  BY <1>2, <2>11 DEF InsertPoint
      <3>2. queue # <<>>  BY <1>0
      <3>3. \A j \in 1 .. n : Descent(j) => ~Descent(i)'
        <4> SUFFICES ASSUME NEW j \in 1 .. n, Descent(j)
                     PROVE  IN_ORDER(queue[n], r)
          BY <2>7, <3>1
        <4>1. InsertPoint(queue, r, n) /\ ~Fits(queue, n, r)
          BY <1>2, <2>11, <3>1
        <4> QED  BY <1>0, <3>2, <4>1, NoThirdSweep
      <3>4. \A j \in 1 .. n + 1 : Descent(j)' =>
              j \in 1 .. n /\ (Descent(j) \/ j = n)
        BY <1>0, <2>4, <2>6, <3>1
      <3>5. \A a, b \in 1 .. n + 1 : Descent(a)' /\ Descent(b)' => a = b
        <4> SUFFICES ASSUME NEW a \in 1 .. n + 1, NEW b \in 1 .. n + 1,
                            Descent(a)', Descent(b)'
                     PROVE  a = b
          OBVIOUS
        <4>1. a \in 1 .. n /\ (Descent(a) \/ a = n)  BY <3>4
        <4>2. b \in 1 .. n /\ (Descent(b) \/ b = n)  BY <3>4
        <4>3. CASE Descent(a) /\ Descent(b)  BY <2>9, <4>1, <4>2, <4>3
        <4>4. CASE a = n /\ b = n  BY <4>4
        <4>5. CASE Descent(a) /\ b = n  BY <3>1, <3>3, <4>1, <4>5
        <4>6. CASE a = n /\ Descent(b)  BY <3>1, <3>3, <4>2, <4>6
        <4> QED  BY <4>1, <4>2, <4>3, <4>4, <4>5, <4>6
      <3> QED  BY <2>1, <2>2, <2>3, <3>5 DEF QueueInvariant, OneWrap
    <2> QED  BY <2>10, <2>11
  <1> QED  BY <1>1, <1>2 DEF add_request

LEMMA EndStep == ASSUME RequestAssumption, QueueInvariant, end_request PROVE QueueInvariant'
  <1> DEFINE n == Len(queue)
  <1>1. queue \in Seq(Requests) /\ n \in Nat /\ n > 0 /\ n <= NR_REQUEST
    BY DEF QueueInvariant, QueueTypeOK, end_request
  <1>2. /\ queue' \in Seq(Requests)
        /\ Len(queue') = n - 1
        /\ \A j \in 1 .. n - 1 : queue'[j] = queue[j+1]
    BY <1>1 DEF end_request
  <1>3. QueueTypeOK'  BY <1>1, <1>2 DEF QueueTypeOK, RequestAssumption
  <1>4. Distinct'  BY <1>1, <1>2 DEF QueueInvariant, Distinct
  <1>5. ASSUME NEW j \in 1 .. n - 1, Descent(j)' PROVE Descent(j+1)
    <2>1. j \in 1 .. n - 2 /\ ~IN_ORDER(queue'[j], queue'[j+1])
      BY <1>1, <1>2, <1>5 DEF Descent
    <2>2. queue'[j] = queue[j+1] /\ queue'[j+1] = queue[(j+1)+1]
      BY <1>1, <1>2, <2>1
    <2>3. j + 1 \in 1 .. Len(queue) - 1  BY <1>1, <2>1
    <2> QED  BY <2>1, <2>2, <2>3 DEF Descent
  <1>6. OneWrap'
    <2> SUFFICES ASSUME NEW a \in 1 .. n - 1, NEW b \in 1 .. n - 1,
                        Descent(a)', Descent(b)'
                 PROVE  a = b
      BY <1>2 DEF OneWrap
    <2>1. Descent(a+1) /\ Descent(b+1)  BY <1>5
    <2>2. a + 1 = b + 1  BY <1>1, <2>1 DEF QueueInvariant, OneWrap
    <2> QED  BY <1>1, <2>2
  <1> QED  BY <1>3, <1>4, <1>6 DEF QueueInvariant

(* However requests are added and finished, the list holds no block twice  *)
(* and is at most the rest of one sweep and one more sweep.                *)
THEOREM ElevatorInvariant == QueueSpec => []QueueInvariant
  <1>1. QueueInit => QueueInvariant
    BY RequestAssumption DEF QueueInit, QueueInvariant, QueueTypeOK, Distinct, OneWrap,
       RequestAssumption
  <1>2. QueueInvariant /\ [QueueNext]_queue => QueueInvariant'
    <2> SUFFICES ASSUME QueueInvariant, [QueueNext]_queue PROVE QueueInvariant'  OBVIOUS
    <2>1. CASE \E r \in Requests : add_request(r)
      BY <2>1, AddStep, RequestAssumption
    <2>2. CASE end_request  BY <2>2, EndStep, RequestAssumption
    <2>3. CASE UNCHANGED queue
      BY <2>3 DEF QueueInvariant, QueueTypeOK, Distinct, OneWrap, Descent
    <2> QED  BY <2>1, <2>2, <2>3 DEF QueueNext
  <1> QED  BY <1>1, <1>2, PTL DEF QueueSpec

-----------------------------------------------------------------------------
(* The terminal. *)

(* The ends of lines in a queue. *)
LEMMA EndsFinite ==
    ASSUME NEW q \in Seq(Chars)
    PROVE  /\ EndsIn(q) \subseteq 1 .. Len(q) /\ Len(q) \in Nat
           /\ IsFiniteSet(EndsIn(q)) /\ Cardinality(EndsIn(q)) \in Nat
  <1>1. EndsIn(q) \subseteq 1 .. Len(q) /\ Len(q) \in Nat
    BY DEF EndsIn
  <1>2. IsFiniteSet(1 .. Len(q))
    BY <1>1, FS_Interval
  <1>3. IsFiniteSet(EndsIn(q))
    BY <1>1, <1>2, FS_Subset
  <1> QED  BY <1>1, <1>3, FS_CardinalityType

LEMMA MaxEnds ==
    ASSUME NEW q \in Seq(Chars), EndsIn(q) # {}
    PROVE  /\ Max(EndsIn(q)) \in EndsIn(q)
           /\ \A i \in EndsIn(q) : i <= Max(EndsIn(q))
  <1> DEFINE S == EndsIn(q)
             n == Len(q)
             T == {n - i : i \in S}
  <1>1. S \subseteq 1 .. n /\ n \in Nat
    BY EndsFinite
  <1> HIDE DEF S, n
  <1>2. T \subseteq Nat
    <2>1. \A i \in S : n - i \in Nat
      BY <1>1
    <2> QED  BY <2>1
  <1>3. T # {}
    BY DEF S
  <1>4. PICK x \in T : \A y \in T : x <= y
    <2> HIDE DEF T
    <2> QED  BY <1>2, <1>3, LeastOf
  <1>5. PICK j \in S : x = n - j
    BY <1>4
  <1>6. \A i \in S : j >= i
    <2> SUFFICES ASSUME NEW i \in S PROVE j >= i
      OBVIOUS
    <2>1. n - i \in T
      OBVIOUS
    <2>2. x <= n - i
      BY <1>4, <2>1
    <2> QED  BY <1>1, <1>5, <2>2
  <1>7. \E m \in S : \A i \in S : m >= i
    BY <1>5, <1>6
  <1>8. Max(S) \in S /\ \A i \in S : Max(S) >= i
    BY <1>7 DEF Max
  <1>9. \A i \in S : i \in Int
    BY <1>1
  <1> QED  BY <1>8, <1>9 DEF S

(* A queue cut back to its first n characters, none of the others an end. *)
LEMMA CutKeepsEnds ==
    ASSUME NEW q \in Seq(Chars), NEW n \in 0 .. Len(q),
           \A i \in n + 1 .. Len(q) : q[i] \notin Ends
    PROVE  LET p == SubSeq(q, 1, n) IN
           /\ p \in Seq(Chars) /\ Len(p) = n
           /\ EndsIn(p) = EndsIn(q)
           /\ p # <<>> => Head(p) = Head(q)
  <1> DEFINE p == SubSeq(q, 1, n)
             m == Len(q)
  <1>1. m \in Nat /\ n \in Nat /\ n <= m /\ DOMAIN q = 1 .. m
        /\ \A i \in 1 .. m : q[i] \in Chars
    OBVIOUS
  <1>2. \A i \in 1 .. n : q[i] \in Chars
    <2> HIDE DEF m
    <2> QED  BY <1>1
  <1>3. /\ p \in Seq(Chars) /\ Len(p) = n
        /\ \A i \in 1 .. n : p[i] = q[i]
    <2>1. /\ p \in Seq(Chars)
          /\ Len(p) = IF 1 <= n THEN n - 1 + 1 ELSE 0
          /\ \A i \in 1 .. n - 1 + 1 : p[i] = q[1 + i - 1]
      BY <1>1, <1>2, SubSeqProperties
    <2> HIDE DEF p, m
    <2> QED  BY <1>1, <2>1
  <1>4. DOMAIN p = 1 .. n
    <2> HIDE DEF p
    <2> QED  BY <1>3
  <1>5. \A i \in n + 1 .. m : q[i] \notin Ends
    OBVIOUS
  <1> HIDE DEF p, m
  <1>6. EndsIn(p) = EndsIn(q)
    BY <1>1, <1>3, <1>4, <1>5 DEF EndsIn
  <1>7. p # <<>> => Head(p) = Head(q)
    <2> SUFFICES ASSUME p # <<>> PROVE Head(p) = Head(q)
      OBVIOUS
    <2>1. Head(p) = p[1] /\ n > 0
      BY <1>3
    <2>2. Head(q) = q[1]
      BY <1>1, <2>1 DEF m
    <2> QED  BY <1>1, <1>3, <2>1, <2>2
  <1> QED  BY <1>3, <1>6, <1>7 DEF p

LEMMA EndsAppend ==
    ASSUME NEW q \in Seq(Chars), NEW c \in Chars
    PROVE  /\ Append(q, c) \in Seq(Chars) /\ Append(q, c) # <<>>
           /\ Len(Append(q, c)) = Len(q) + 1
           /\ q # <<>> => Head(Append(q, c)) = Head(q)
           /\ Cardinality(EndsIn(Append(q, c))) =
                 Cardinality(EndsIn(q)) + Counts(c)
  <1> DEFINE p == Append(q, c)
             n == Len(q)
  <1>1. /\ p \in Seq(Chars) /\ p # <<>> /\ Len(p) = n + 1
        /\ (\A i \in 1 .. n : p[i] = q[i]) /\ p[n + 1] = c
    BY AppendProperties
  <1>2. n \in Nat /\ DOMAIN q = 1 .. n
    OBVIOUS
  <1> HIDE DEF p, n
  <1>3. DOMAIN p = 1 .. n + 1
    BY <1>1
  <1>4. q # <<>> => Head(p) = Head(q)
    <2> SUFFICES ASSUME q # <<>> PROVE Head(p) = Head(q)
      OBVIOUS
    <2>1. n > 0
      BY DEF n
    <2> QED  BY <1>1, <1>2, <2>1
  <1>5. EndsIn(p) = EndsIn(q) \cup (IF c \in Ends THEN {n + 1} ELSE {})
    BY <1>1, <1>2, <1>3 DEF EndsIn
  <1>6. n + 1 \notin EndsIn(q) /\ IsFiniteSet(EndsIn(q)) /\ Cardinality(EndsIn(q)) \in Nat
    <2>1. EndsIn(q) \subseteq 1 .. n /\ IsFiniteSet(EndsIn(q)) /\ Cardinality(EndsIn(q)) \in Nat
      BY EndsFinite DEF n
    <2> QED  BY <1>2, <2>1
  <1>7. Cardinality(EndsIn(p)) = Cardinality(EndsIn(q)) + Counts(c)
    <2>1. CASE c \in Ends
      BY <1>5, <1>6, <2>1, FS_AddElement DEF Counts
    <2>2. CASE c \notin Ends
      BY <1>5, <1>6, <2>2 DEF Counts
    <2> QED  BY <2>1, <2>2
  <1> QED  BY <1>1, <1>4, <1>7 DEF p, n

LEMMA EndsTail ==
    ASSUME NEW q \in Seq(Chars), q # <<>>
    PROVE  /\ Tail(q) \in Seq(Chars) /\ Head(q) \in Chars
           /\ Len(Tail(q)) = Len(q) - 1
           /\ Cardinality(EndsIn(q)) = Cardinality(EndsIn(Tail(q))) + Counts(Head(q))
  <1> DEFINE p == Tail(q)
             n == Len(q)
             S == EndsIn(p)
             T == EndsIn(q) \ {1}
             f == [i \in S |-> i + 1]
  <1>1. /\ Head(q) \in Chars /\ p \in Seq(Chars) /\ Len(p) = n - 1
        /\ \A i \in 1 .. Len(p) : p[i] = q[i + 1]
    BY HeadTailProperties
  <1>2. n \in Nat /\ n > 0 /\ DOMAIN q = 1 .. n /\ Head(q) = q[1]
    OBVIOUS
  <1>3. IsFiniteSet(S) /\ IsFiniteSet(EndsIn(q)) /\ Cardinality(S) \in Nat
        /\ Cardinality(EndsIn(q)) \in Nat
    BY <1>1, EndsFinite
  <1>4. DOMAIN p = 1 .. n - 1
    <2> HIDE DEF p, n
    <2> QED  BY <1>1
  <1> HIDE DEF p, n
  <1>5. \A i \in S : i \in Nat /\ i >= 1 /\ i + 1 \in T
    BY <1>1, <1>2, <1>4 DEF EndsIn
  <1>6. \A j \in T : j - 1 \in S /\ j \in Nat
    BY <1>1, <1>2, <1>4 DEF EndsIn
  <1> HIDE DEF S, T
  <1>7. f \in Bijection(S, T)
    <2>1. f \in [S -> T]
      BY <1>5
    <2>2. \A a, b \in S : f[a] = f[b] => a = b
      BY <1>5
    <2>3. \A j \in T : \E i \in S : f[i] = j
      <3> SUFFICES ASSUME NEW j \in T PROVE f[j - 1] = j
        BY <1>6
      <3> QED  BY <1>6
    <2> HIDE DEF f
    <2>4. f \in Injection(S, T)
      BY <2>1, <2>2 DEF Injection, IsInjective
    <2>5. f \in Surjection(S, T)
      BY <2>1, <2>3 DEF Surjection
    <2> QED  BY <2>4, <2>5 DEF Bijection
  <1>8. Cardinality(T) = Cardinality(S)
    <2> HIDE DEF f
    <2>1. ExistsBijection(S, T)
      BY <1>7 DEF ExistsBijection
    <2> QED  BY <1>3, <2>1, FS_Bijection
  <1>9. Cardinality(T) = IF 1 \in EndsIn(q) THEN Cardinality(EndsIn(q)) - 1
                         ELSE Cardinality(EndsIn(q))
    BY <1>3, FS_RemoveElement DEF T
  <1>10. 1 \in EndsIn(q) <=> Head(q) \in Ends
    BY <1>2 DEF EndsIn
  <1>11. Cardinality(EndsIn(q)) = Cardinality(S) + Counts(Head(q))
    BY <1>3, <1>8, <1>9, <1>10 DEF Counts
  <1> QED  BY <1>1, <1>11 DEF S, p, n

(* The fold of read_char over one character. *)
LEMMA MaxOne == Max({1}) = 1
  BY DEF Max

LEMMA FoldOne ==
    ASSUME NEW base, NEW c
    PROVE  FoldLeft(Cook, base, <<c>>) = Cook(base, c)
  <1> DEFINE S == DOMAIN <<c>>
             Body(g, s) == IF s = {} THEN base
                           ELSE LET x == Max(s) IN Cook(g[s \ {x}], <<c>>[x])
             iter == CHOOSE g : g = [s \in SUBSET S |-> Body(g, s)]
  <1>1. FoldLeft(Cook, base, <<c>>) = iter[S]
    BY Zenon DEF FoldLeft, MapThenFoldSet
  <1>2. S = {1}
    OBVIOUS
  <1> DEFINE h == [s \in SUBSET S |-> IF s = {} THEN base ELSE Cook(base, c)]
  <1>3. h = [s \in SUBSET S |-> Body(h, s)]
    <2>1. ASSUME NEW s \in SUBSET S PROVE h[s] = Body(h, s)
      <3>1. CASE s = {}
        BY <3>1
      <3>2. CASE s # {}
        <4>1. s = {1}
          BY <1>2, <3>2
        <4>2. Max(s) = 1 /\ s \ {1} = {}
          BY <4>1, MaxOne
        <4>3. h[{}] = base
          OBVIOUS
        <4> QED  BY <1>2, <3>2, <4>1, <4>2, <4>3
      <3> QED  BY <3>1, <3>2
    <2> HIDE DEF Body
    <2> QED  BY <2>1
  <1>4. iter = [s \in SUBSET S |-> Body(iter, s)]
    <2> HIDE DEF Body, h
    <2> QED  BY <1>3
  <1>5. iter[{}] = base /\ iter[{1}] = Body(iter, {1})
    BY <1>2, <1>4
  <1> HIDE DEF iter
  <1>6. Body(iter, {1}) = Cook(iter[{1} \ {1}], c)
    BY MaxOne
  <1> QED  BY <1>1, <1>2, <1>5, <1>6

-----------------------------------------------------------------------------
(* copy_to_cooked for one character, before the first flaw.                *)
FlawNames == {"echo overflow", "echo in PUTCH", "erased while read", "secondary full"}
Terminal == [secondary : Seq(Chars), data : Nat, write_q : 0 .. TTY_BUF_SIZE - 1,
             ier : BOOLEAN, signal : SUBSET {"r", "w"}, flaws : SUBSET FlawNames,
             rest : Seq(Chars)]

LEMMA EchoFields ==
    ASSUME TtyAssumption, NEW st \in Terminal, NEW n \in Nat
    PROVE  /\ Echo(st, n) \in Terminal
           /\ Echo(st, n).secondary = st.secondary /\ Echo(st, n).data = st.data
           /\ Echo(st, n).rest = st.rest
  <1> DEFINE N == TTY_BUF_SIZE
             q == (st.write_q + n) % N
  <1>1. N \in Nat /\ N > 0
    BY DEF TtyAssumption
  <1>2. q \in 0 .. N - 1
    <2>1. st.write_q \in Nat
      BY <1>1 DEF Terminal
    <2> QED  BY <1>1, <2>1
  <1> DEFINE b == st.ier \/ q > 0
             F == st.flaws \cup {f \in {"echo overflow"} : st.write_q + n >= N}
                           \cup {f \in {"echo in PUTCH"} : wr.pc = "inc"}
  <1>3. Echo(st, n) = [st EXCEPT !.write_q = q, !.ier = b, !.flaws = F]
    BY DEF Echo
  <1>4. b \in BOOLEAN
    OBVIOUS
  <1>5. F \in SUBSET FlawNames
    <2>1. st.flaws \subseteq FlawNames
      BY DEF Terminal
    <2>2. "echo overflow" \in FlawNames /\ "echo in PUTCH" \in FlawNames
      BY DEF FlawNames
    <2> QED  BY <2>1, <2>2, Zenon
  <1> HIDE DEF q, N, b, F
  <1>6. Echo(st, n) \in Terminal
    BY <1>2, <1>3, <1>4, <1>5 DEF Terminal, N
  <1>7. /\ Echo(st, n).secondary = st.secondary /\ Echo(st, n).data = st.data
        /\ Echo(st, n).rest = st.rest
    BY <1>3 DEF Terminal
  <1> QED  BY <1>6, <1>7

LEMMA CutFields ==
    ASSUME TtyAssumption, NEW st \in Terminal, NEW q \in Seq(Chars),
           Len(q) <= Len(st.secondary)
    PROVE  /\ Cut(st, q) \in Terminal
           /\ Cut(st, q).secondary = q /\ Cut(st, q).data = st.data
           /\ Cut(st, q).rest = st.rest
           /\ Cut(st, q).flaws = {} => ~(rd.pc \in {"get", "inc"} /\ q = <<>>)
  <1> DEFINE n == Len(st.secondary) - Len(q)
             e == Echo(st, n)
  <1>1. n \in Nat
    <2>1. Len(st.secondary) \in Nat /\ Len(q) \in Nat
      BY DEF Terminal
    <2> QED  BY <2>1
  <1> HIDE DEF n
  <1>2. e \in Terminal /\ e.data = st.data /\ e.rest = st.rest
    BY <1>1, EchoFields
  <1> DEFINE F == e.flaws \cup {f \in {"erased while read"} :
                                    rd.pc \in {"get", "inc"} /\ q = <<>>}
  <1>3. Cut(st, q) = [e EXCEPT !.secondary = q, !.flaws = F]
    BY DEF Cut, n
  <1> HIDE DEF e
  <1>4. F \in SUBSET FlawNames /\ (F = {} => ~(rd.pc \in {"get", "inc"} /\ q = <<>>))
    <2>1. e.flaws \subseteq FlawNames
      BY <1>2 DEF Terminal
    <2>2. "erased while read" \in FlawNames
      BY DEF FlawNames
    <2>3. F \in SUBSET FlawNames
      BY <2>1, <2>2, Zenon
    <2>4. ASSUME rd.pc \in {"get", "inc"}, q = <<>> PROVE "erased while read" \in F
      BY <2>4
    <2> QED  BY <2>3, <2>4
  <1> HIDE DEF F
  <1>5. Cut(st, q) \in Terminal
    BY <1>2, <1>3, <1>4 DEF Terminal
  <1>6. /\ Cut(st, q).secondary = q /\ Cut(st, q).data = e.data
        /\ Cut(st, q).rest = e.rest /\ Cut(st, q).flaws = F
    BY <1>2, <1>3 DEF Terminal
  <1> QED  BY <1>2, <1>4, <1>5, <1>6

(* Editing takes away no end of a line. *)
LEMMA ErasedPart ==
    ASSUME NEW q \in Seq(Chars), Erasable(q), NEW p, p \in {Lines(q), Front(q)}
    PROVE  /\ p \in Seq(Chars) /\ Len(p) <= Len(q)
           /\ EndsIn(p) = EndsIn(q)
           /\ p # <<>> => Head(p) = Head(q)
  <1>1. PICK n \in 0 .. Len(q) : /\ p = SubSeq(q, 1, n)
                                 /\ \A i \in n + 1 .. Len(q) : q[i] \notin Ends
    <2> DEFINE m == Len(q)
    <2>0. m \in Nat /\ m > 0 /\ q[m] \notin Ends /\ DOMAIN q = 1 .. m
      BY DEF Erasable, Last
    <2>1. CASE p = Front(q)
      <3>1. p = SubSeq(q, 1, m - 1)
        BY <2>1 DEF Front
      <3> HIDE DEF m
      <3>2. m - 1 \in 0 .. m /\ \A i \in (m - 1) + 1 .. m : i = m
        BY <2>0
      <3>3. \A i \in (m - 1) + 1 .. m : q[i] \notin Ends
        BY <2>0, <3>2
      <3> QED  BY <3>1, <3>2, <3>3 DEF m
    <2>2. CASE p = Lines(q) /\ EndsIn(q) = {}
      <3>1. p = SubSeq(q, 1, 0)
        BY <2>2, SubSeqEmpty DEF Lines
      <3>2. \A i \in 0 + 1 .. m : q[i] \notin Ends
        BY <2>0, <2>2 DEF EndsIn
      <3>3. 0 \in 0 .. m
        BY <2>0
      <3> QED  BY <3>1, <3>2, <3>3
    <2>3. CASE p = Lines(q) /\ EndsIn(q) # {}
      <3> DEFINE x == Max(EndsIn(q))
      <3>1. p = SubSeq(q, 1, x)
        BY <2>3 DEF Lines
      <3>2. x \in EndsIn(q) /\ \A i \in EndsIn(q) : i <= x
        BY <2>3, MaxEnds
      <3> HIDE DEF x, m
      <3>3. x \in 0 .. m
        BY <2>0, <3>2 DEF EndsIn
      <3>4. \A i \in x + 1 .. m : q[i] \notin Ends
        <4> SUFFICES ASSUME NEW i \in x + 1 .. m, q[i] \in Ends PROVE FALSE
          OBVIOUS
        <4>1. i \in 1 .. m /\ i > x
          BY <2>0, <3>3
        <4>2. i \in EndsIn(q)
          BY <2>0, <4>1 DEF EndsIn
        <4> QED  BY <3>2, <3>3, <4>1, <4>2
      <3> QED  BY <3>1, <3>3, <3>4 DEF m
    <2> QED  BY <2>1, <2>2, <2>3
  <1>2. /\ p \in Seq(Chars) /\ Len(p) = n
        /\ EndsIn(p) = EndsIn(q)
        /\ p # <<>> => Head(p) = Head(q)
    BY <1>1, CutKeepsEnds
  <1>3. Len(p) <= Len(q)
    <2>1. Len(q) \in Nat
      OBVIOUS
    <2> QED  BY <1>2, <2>1
  <1> QED  BY <1>2, <1>3

LEMMA CookFields ==
    ASSUME TtyAssumption, NEW st \in Terminal, NEW c \in Chars,
           st.rest = <<>>, st.flaws = {}, Len(st.secondary) < TTY_BUF_SIZE,
           st.data = Cardinality(EndsIn(st.secondary)),
           Cook(st, c).flaws = {}
    PROVE  LET n == Cook(st, c) IN
           /\ n \in Terminal /\ n.rest = <<>> /\ Len(n.secondary) < TTY_BUF_SIZE
           /\ n.data = Cardinality(EndsIn(n.secondary))
           /\ rd.pc \in {"get", "inc"} /\ st.secondary # <<>> =>
                 n.secondary # <<>> /\ Head(n.secondary) = Head(st.secondary)
  <1> DEFINE n == Cook(st, c)
             q == st.secondary
  <1>1. q \in Seq(Chars) /\ Len(q) \in Nat /\ TTY_BUF_SIZE \in Nat
    BY DEF Terminal, TtyAssumption
  <1>2. ~FULL(Len(q))
    <2> SUFFICES ASSUME FULL(Len(q)) PROVE FALSE
      OBVIOUS
    <2>1. n = [st EXCEPT !.rest = Append(@, c), !.flaws = @ \cup {"secondary full"}]
      BY DEF Cook
    <2>2. "secondary full" \in n.flaws
      BY <2>1 DEF Terminal
    <2> QED  BY <2>2
  <1>3. n = CASE c = "KILL" /\ Erasable(q) -> Cut(st, Lines(q))
              [] c = "ERASE" /\ Erasable(q) -> Cut(st, Front(q))
              [] c \in {"KILL", "ERASE"} /\ ~Erasable(q) -> st
              [] c = "INTR" -> tty_intr(st)
              [] OTHER -> [Echo(st, EchoLength(c)) EXCEPT
                              !.data = @ + Counts(c), !.secondary = Append(@, c)]
    BY <1>2 DEF Cook
  <1> HIDE DEF n
  <1>4. CASE c \in {"KILL", "ERASE"} /\ Erasable(q)
    <2>1. PICK p \in {Lines(q), Front(q)} : n = Cut(st, p)
      BY <1>3, <1>4
    <2>2. /\ p \in Seq(Chars) /\ Len(p) <= Len(q)
          /\ EndsIn(p) = EndsIn(q)
          /\ p # <<>> => Head(p) = Head(q)
      BY <1>1, <1>4, ErasedPart
    <2>3. /\ n \in Terminal /\ n.secondary = p /\ n.data = st.data /\ n.rest = st.rest
          /\ n.flaws = {} => ~(rd.pc \in {"get", "inc"} /\ p = <<>>)
      BY <2>1, <2>2, CutFields
    <2>4. Len(p) < TTY_BUF_SIZE
      <3>1. Len(p) \in Nat
        BY <2>2
      <3> QED  BY <1>1, <2>2, <3>1
    <2> QED  BY <2>2, <2>3, <2>4 DEF n
  <1>5. CASE c \in {"KILL", "ERASE"} /\ ~Erasable(q)
    <2>1. n = st
      BY <1>3, <1>5
    <2> QED  BY <2>1 DEF n
  <1>6. CASE c = "INTR"
    <2>1. n = tty_intr(st)
      BY <1>3, <1>6
    <2>2. /\ n \in Terminal /\ n.rest = st.rest /\ n.secondary = st.secondary
          /\ n.data = st.data
      BY <2>1 DEF tty_intr, Terminal
    <2> QED  BY <2>2 DEF n
  <1>7. CASE c \notin {"KILL", "ERASE", "INTR"}
    <2> DEFINE e == Echo(st, EchoLength(c))
    <2>1. n = [e EXCEPT !.data = @ + Counts(c), !.secondary = Append(@, c)]
      BY <1>3, <1>7
    <2>2. e \in Terminal /\ e.secondary = q /\ e.data = st.data /\ e.rest = st.rest
      <3>1. EchoLength(c) \in Nat
        BY DEF EchoLength
      <3> QED  BY <3>1, EchoFields
    <2> HIDE DEF e
    <2>3. /\ Append(q, c) \in Seq(Chars) /\ Append(q, c) # <<>>
          /\ Len(Append(q, c)) = Len(q) + 1
          /\ q # <<>> => Head(Append(q, c)) = Head(q)
          /\ Cardinality(EndsIn(Append(q, c))) = Cardinality(EndsIn(q)) + Counts(c)
      BY <1>1, EndsAppend
    <2>4. Counts(c) \in Nat
      BY DEF Counts
    <2> DEFINE a == Append(q, c)
               d == st.data + Counts(c)
    <2>5. n = [e EXCEPT !.data = d, !.secondary = a]
      BY <2>1, <2>2
    <2>6. d \in Nat
      BY <2>4 DEF Terminal
    <2> HIDE DEF a, d
    <2>7. a \in Seq(Chars)
      BY <2>3 DEF a
    <2>8. n \in Terminal
      BY <2>2, <2>5, <2>6, <2>7 DEF Terminal
    <2>9. n.secondary = a /\ n.data = d /\ n.rest = st.rest
      BY <2>2, <2>5 DEF Terminal
    <2>10. Len(q) + 1 < TTY_BUF_SIZE
      BY <1>1, <1>2 DEF FULL, LEFT
    <2> QED  BY <2>3, <2>8, <2>9, <2>10 DEF n, a, d
  <1> QED  BY <1>4, <1>5, <1>6, <1>7

-----------------------------------------------------------------------------
(* The reader and the writer. *)
Rd == [pc : {"user", "loop", "asleep", "get", "inc"}, count : 0 .. MaxRead, c : Chars]
Wr == [pc : {"user", "loop", "asleep", "full", "put", "inc"}, count : 0 .. MaxWrite]

LEMMA Parts ==
    ASSUME TtyInv, flaws = {}, TtyAssumption
    PROVE  /\ read_q = <<>> /\ secondary \in Seq(Chars) /\ Len(secondary) < TTY_BUF_SIZE
           /\ Len(secondary) \in Nat /\ TTY_BUF_SIZE \in Nat /\ TTY_BUF_SIZE > 0
           /\ data = Cardinality(EndsIn(secondary)) /\ data \in Nat
           /\ write_q \in 0 .. TTY_BUF_SIZE - 1 /\ ier \in BOOLEAN
           /\ rd \in Rd /\ wr \in Wr
           /\ signal \subseteq {"r", "w"} /\ cpu \in {"none", "r", "w"}
           /\ typed \in 0 .. MaxTyped
           /\ rd.pc \in {"get", "inc"} => secondary # <<>>
           /\ rd.pc = "inc" => rd.c = Head(secondary)
           /\ wr.pc = "inc" => wr.count > 0
  <1>1. TtyTypeOK /\ LinesCounted /\ Holding /\ read_q = <<>>
    BY DEF TtyInv
  <1>2. TTY_BUF_SIZE \in Nat /\ TTY_BUF_SIZE > 0
    BY DEF TtyAssumption
  <1>3. secondary \in Seq(Chars) /\ Len(secondary) \in Nat
    BY <1>1 DEF TtyTypeOK
  <1> QED  BY <1>1, <1>2, <1>3 DEF TtyTypeOK, LinesCounted, Holding, Rd, Wr

(* A step that leaves the characters received alone. *)
LEMMA SideStep ==
    ASSUME TtyInv, flaws = {}, TtyAssumption,
           UNCHANGED <<secondary, data, typed>>, read_q' = <<>>,
           write_q' \in 0 .. TTY_BUF_SIZE - 1, ier' \in BOOLEAN,
           rd' \in Rd, wr' \in Wr,
           signal' \subseteq {"r", "w"}, cpu' \in {"none", "r", "w"},
           rd'.pc \in {"get", "inc"} => secondary # <<>>,
           rd'.pc = "inc" => rd'.c = Head(secondary),
           wr'.pc = "inc" => wr'.count > 0
    PROVE  TtyInv'
  <1>1. TtyTypeOK'
    <2>1. read_q' \in Seq(Chars) /\ Len(read_q') < TTY_BUF_SIZE
      BY Parts
    <2> QED  BY <2>1, Parts DEF TtyTypeOK, Rd, Wr
  <1>2. LinesCounted'
    BY Parts DEF LinesCounted
  <1>3. Holding'
    BY DEF Holding
  <1> QED  BY <1>1, <1>2, <1>3 DEF TtyInv

(* the receive interrupt *)
LEMMA ReadCharStep ==
    ASSUME TtyInv, TtyAssumption, NEW c \in Chars, read_char(c)
    PROVE  TtyInv'
  <1> SUFFICES ASSUME flaws' = {} PROVE TtyInv'
    BY DEF TtyInv
  <1> DEFINE base == [secondary |-> secondary, data |-> data,
                      write_q |-> write_q, ier |-> ier, signal |-> signal,
                      flaws |-> {}, rest |-> <<>>]
             q  == IF FULL(Len(read_q)) THEN read_q ELSE Append(read_q, c)
             st == FoldLeft(Cook, base, q)
             n  == Cook(base, c)
  <1>1. /\ typed < MaxTyped /\ typed' = typed + 1
        /\ read_q' = st.rest /\ secondary' = st.secondary /\ data' = st.data
        /\ write_q' = st.write_q /\ ier' = st.ier
        /\ signal' = st.signal /\ flaws' = flaws \cup st.flaws
        /\ rd' = [rd EXCEPT !.pc = IF @ = "asleep" THEN "loop" ELSE @]
        /\ UNCHANGED <<wr, cpu>>
    BY Zenon DEF read_char
  <1>2. flaws = {} /\ st.flaws = {}
    BY <1>1
  <1>3. q = <<c>>
    <2>1. read_q = <<>> /\ TTY_BUF_SIZE \in Nat
      BY <1>2, Parts
    <2>2. Startup + Low < TTY_BUF_SIZE /\ Startup \in Nat /\ Low \in Nat /\ Startup > 0 /\ Low > 0
      BY DEF TtyAssumption
    <2>3. ~FULL(Len(read_q))
      BY <2>1, <2>2 DEF FULL, LEFT
    <2> QED  BY <2>1, <2>3
  <1>4. st = n
    <2> HIDE DEF q, base
    <2> QED  BY <1>3, FoldOne
  <1>5. base \in Terminal
    BY <1>2, Parts DEF Terminal
  <1>6. /\ n \in Terminal /\ n.rest = <<>> /\ Len(n.secondary) < TTY_BUF_SIZE
        /\ n.data = Cardinality(EndsIn(n.secondary))
        /\ rd.pc \in {"get", "inc"} /\ secondary # <<>> =>
              n.secondary # <<>> /\ Head(n.secondary) = Head(secondary)
    <2>1. /\ base.secondary = secondary /\ base.rest = <<>> /\ base.flaws = {}
          /\ base.data = data
      OBVIOUS
    <2> HIDE DEF base
    <2>2. n.flaws = {}
      BY <1>2, <1>4
    <2> QED  BY <1>2, <1>5, <2>1, <2>2, Parts, CookFields
  <1> HIDE DEF st, n
  <1>7. /\ rd' \in Rd /\ rd'.c = rd.c
        /\ rd'.pc \in {"get", "inc"} => rd.pc = rd'.pc
    <2>1. rd \in Rd
      BY <1>2, Parts
    <2> QED  BY <1>1, <2>1 DEF Rd
  <1>8. TtyTypeOK'
    <2>1. typed' \in 0 .. MaxTyped
      <3>1. typed \in Nat /\ MaxTyped \in Nat
        BY <1>2, Parts DEF TtyAssumption
      <3> QED  BY <1>1, <3>1
    <2>2. /\ secondary' \in Seq(Chars) /\ Len(secondary') < TTY_BUF_SIZE
          /\ data' \in Nat /\ write_q' \in 0 .. TTY_BUF_SIZE - 1 /\ ier' \in BOOLEAN
          /\ signal' \subseteq {"r", "w"} /\ read_q' = <<>>
      BY <1>1, <1>4, <1>6 DEF Terminal
    <2>3. wr' \in Wr /\ cpu' \in {"none", "r", "w"} /\ TTY_BUF_SIZE > 0
      BY <1>1, <1>2, Parts
    <2>4. read_q' \in Seq(Chars) /\ Len(read_q') < TTY_BUF_SIZE
      BY <2>2, <2>3
    <2> QED  BY <1>7, <2>1, <2>2, <2>3, <2>4 DEF TtyTypeOK, Rd, Wr
  <1>9. LinesCounted'
    <2>1. data' = Cardinality(EndsIn(secondary'))
      BY <1>1, <1>4, <1>6
    <2> QED  BY <2>1 DEF LinesCounted
  <1>10. Holding'
    BY <1>1, <1>2, <1>4, <1>6, <1>7, Parts DEF Holding
  <1> QED  BY <1>1, <1>4, <1>6, <1>8, <1>9, <1>10 DEF TtyInv

(* the transmit interrupt, and WakeSignalled() and flush() *)
LEMMA PortStep ==
    ASSUME TtyInv, TtyAssumption, write_char \/ WakeSignalled \/ flush
    PROVE  TtyInv'
  <1> SUFFICES ASSUME flaws = {} PROVE TtyInv'
    BY DEF TtyInv, write_char, WakeSignalled, flush, queues
  <1>1. /\ rd \in Rd /\ wr \in Wr /\ write_q \in 0 .. TTY_BUF_SIZE - 1
        /\ TTY_BUF_SIZE \in Nat /\ TTY_BUF_SIZE > 0 /\ read_q = <<>>
        /\ signal \subseteq {"r", "w"} /\ cpu \in {"none", "r", "w"} /\ ier \in BOOLEAN
        /\ rd.pc \in {"get", "inc"} => secondary # <<>>
        /\ rd.pc = "inc" => rd.c = Head(secondary)
        /\ wr.pc = "inc" => wr.count > 0
    BY Parts
  <1>2. CASE write_char
    <2> DEFINE q == IF write_q = 0 THEN 0 ELSE write_q - 1
    <2>1. /\ write_q' = q /\ ier' = (q > 0)
          /\ wr' \in {wr, WakeWriter}
          /\ UNCHANGED <<read_q, secondary, data, rd, signal, cpu, typed, flaws>>
      BY <1>2 DEF write_char
    <2>2. q \in 0 .. TTY_BUF_SIZE - 1
      BY <1>1
    <2> HIDE DEF q
    <2>3. wr' \in Wr /\ (wr'.pc = "inc" => wr'.count > 0)
      BY <1>1, <2>1 DEF WakeWriter, Wr
    <2>4. ier' \in BOOLEAN
      BY <2>1
    <2> QED  BY <1>1, <2>1, <2>2, <2>3, <2>4, SideStep
  <1>3. CASE WakeSignalled
    <2>1. /\ rd' = [rd EXCEPT !.pc = IF @ = "asleep" /\ "r" \in signal THEN "loop" ELSE @]
          /\ wr' = [wr EXCEPT !.pc = IF @ = "asleep" /\ "w" \in signal THEN "full" ELSE @]
          /\ UNCHANGED <<read_q, secondary, data, write_q, ier, typed, flaws, signal, cpu>>
      BY <1>3 DEF WakeSignalled, queues
    <2>2. rd' \in Rd /\ rd'.c = rd.c /\ (rd'.pc \in {"get", "inc"} => rd'.pc = rd.pc)
      BY <1>1, <2>1 DEF Rd
    <2>3. wr' \in Wr /\ wr'.count = wr.count /\ (wr'.pc = "inc" => wr.pc = "inc")
      BY <1>1, <2>1 DEF Wr
    <2> QED  BY <1>1, <2>1, <2>2, <2>3, SideStep
  <1>4. CASE flush
    <2>1. /\ read_q' = <<>> /\ write_q' = 0
          /\ UNCHANGED <<secondary, data, ier, rd, wr, signal, cpu, typed, flaws>>
      BY <1>4 DEF flush
    <2>2. write_q' \in 0 .. TTY_BUF_SIZE - 1
      BY <1>1, <2>1
    <2> QED  BY <1>1, <2>1, <2>2, SideStep
  <1> QED  BY <1>2, <1>3, <1>4

(* the reader up to its use of the index *)
LEMMA ReaderStep ==
    ASSUME TtyInv, TtyAssumption,
           (\E n \in 1 .. MaxRead : tty_read(n)) \/ ReadLoop \/ Getch
    PROVE  TtyInv'
  <1> SUFFICES ASSUME flaws = {} PROVE TtyInv'
    BY DEF TtyInv, tty_read, ReadLoop, Getch, queues
  <1>1. /\ rd \in Rd /\ wr \in Wr /\ write_q \in 0 .. TTY_BUF_SIZE - 1
        /\ read_q = <<>> /\ ier \in BOOLEAN /\ secondary \in Seq(Chars)
        /\ signal \subseteq {"r", "w"} /\ cpu \in {"none", "r", "w"}
        /\ rd.pc \in {"get", "inc"} => secondary # <<>>
        /\ rd.pc = "inc" => rd.c = Head(secondary)
        /\ wr.pc = "inc" => wr.count > 0
    BY Parts
  <1>2. UNCHANGED <<read_q, secondary, data, write_q, ier, typed, flaws, wr>>
    BY DEF tty_read, ReadLoop, Getch, queues
  <1>3. /\ rd' \in Rd /\ signal' \subseteq {"r", "w"} /\ cpu' \in {"none", "r", "w"}
        /\ rd'.pc \in {"get", "inc"} => secondary # <<>>
        /\ rd'.pc = "inc" => rd'.c = Head(secondary)
    <2>1. CASE \E n \in 1 .. MaxRead : tty_read(n)
      <3>1. PICK n \in 1 .. MaxRead : tty_read(n)
        BY <2>1
      <3>2. /\ rd' = [rd EXCEPT !.pc = "loop", !.count = n] /\ cpu' = "r"
            /\ signal' = signal
        BY <3>1 DEF tty_read
      <3>3. n \in 0 .. MaxRead
        BY DEF TtyAssumption
      <3>4. rd' \in Rd /\ rd'.pc = "loop"
        BY <1>1, <3>2, <3>3 DEF Rd
      <3> QED  BY <1>1, <3>2, <3>4
    <2>2. CASE ReadLoop
      <3>1. CASE ReadReturns
        <4>1. /\ rd' = [pc |-> "user", count |-> 0, c |-> "x"]
              /\ cpu' = "none" /\ signal' = signal \ {"r"}
          BY <3>1 DEF ReadReturns
        <4>2. rd' \in Rd /\ rd'.pc = "user"
          <5>1. 0 \in 0 .. MaxRead
            BY DEF TtyAssumption
          <5> QED  BY <4>1, <5>1 DEF Rd, Chars
        <4> QED  BY <1>1, <4>1, <4>2
      <3>2. CASE rd' = [rd EXCEPT !.pc = "asleep"] /\ cpu' = "none" /\ UNCHANGED signal
        <4>1. rd' \in Rd /\ rd'.pc = "asleep"
          BY <1>1, <3>2 DEF Rd
        <4> QED  BY <1>1, <3>2, <4>1
      <3>3. CASE cpu' = "r" /\ UNCHANGED <<rd, signal>>
        BY <1>1, <3>3
      <3>4. CASE /\ secondary # <<>>
                 /\ rd' = [rd EXCEPT !.pc = "get"] /\ cpu' = "r"
                 /\ UNCHANGED signal
        <4>1. rd' \in Rd /\ rd'.pc = "get"
          BY <1>1, <3>4 DEF Rd
        <4> QED  BY <1>1, <3>4, <4>1
      <3> QED  BY <2>2, <3>1, <3>2, <3>3, <3>4 DEF ReadLoop
    <2>3. CASE Getch
      <3>1. /\ rd.pc = "get" /\ UNCHANGED <<signal, cpu>>
            /\ rd' = [rd EXCEPT !.c = Head(secondary), !.pc = "inc"]
        BY <2>3 DEF Getch
      <3> DEFINE h == Head(secondary)
      <3>2. h \in Chars /\ secondary # <<>>
        BY <1>1, <3>1, HeadTailProperties
      <3>3. rd' = [rd EXCEPT !.c = h, !.pc = "inc"]
        BY <3>1
      <3> HIDE DEF h
      <3>4. rd' \in Rd /\ rd'.pc = "inc" /\ rd'.c = h
        BY <1>1, <3>2, <3>3 DEF Rd
      <3> QED  BY <1>1, <3>1, <3>2, <3>4 DEF h
    <2> QED  BY <2>1, <2>2, <2>3
  <1> QED  BY <1>1, <1>2, <1>3, SideStep

(* the index, and the count of lines *)
LEMMA GotStep ==
    ASSUME TtyInv, TtyAssumption, Got
    PROVE  TtyInv'
  <1> SUFFICES ASSUME flaws = {} PROVE TtyInv'
    BY DEF TtyInv, Got
  <1>1. /\ rd \in Rd /\ wr \in Wr /\ data = Cardinality(EndsIn(secondary))
        /\ secondary \in Seq(Chars) /\ secondary # <<>> /\ rd.c = Head(secondary)
        /\ Len(secondary) \in Nat /\ Len(secondary) < TTY_BUF_SIZE /\ TTY_BUF_SIZE \in Nat
        /\ signal \subseteq {"r", "w"} /\ cpu \in {"none", "r", "w"}
    BY Parts DEF Got
  <1>2. /\ secondary' = Tail(secondary)
        /\ data' = data - Counts(rd.c)
        /\ UNCHANGED <<read_q, write_q, ier, wr, typed, flaws>>
    BY DEF Got
  <1>3. /\ Tail(secondary) \in Seq(Chars)
        /\ Len(Tail(secondary)) = Len(secondary) - 1
        /\ Cardinality(EndsIn(secondary)) =
              Cardinality(EndsIn(Tail(secondary))) + Counts(Head(secondary))
    BY <1>1, EndsTail
  <1>4. /\ data' = Cardinality(EndsIn(secondary')) /\ data' \in Nat
        /\ secondary' \in Seq(Chars) /\ Len(secondary') < TTY_BUF_SIZE
    <2>1. Counts(rd.c) \in Nat
      BY DEF Counts
    <2>2. Cardinality(EndsIn(Tail(secondary))) \in Nat
      BY <1>3, EndsFinite
    <2>3. data' = Cardinality(EndsIn(Tail(secondary)))
      BY <1>1, <1>2, <1>3, <2>1, <2>2
    <2>4. Len(Tail(secondary)) < TTY_BUF_SIZE
      BY <1>1, <1>3
    <2> QED  BY <1>2, <1>3, <2>2, <2>3, <2>4
  <1>5. /\ rd' \in Rd /\ signal' \subseteq {"r", "w"} /\ cpu' \in {"none", "r", "w"}
        /\ rd'.pc \in {"user", "get"}
        /\ rd'.pc = "get" => secondary' # <<>>
    <2>1. CASE rd.c # "EOF" /\ rd.count > 1 /\ secondary' # <<>>
      <3>1. /\ rd' = [rd EXCEPT !.pc = "get", !.count = @ - 1, !.c = "x"]
            /\ UNCHANGED <<signal, cpu>>
        BY <2>1 DEF Got
      <3> DEFINE m == rd.count - 1
      <3>2. m \in 0 .. MaxRead
        <4>1. rd.count \in 0 .. MaxRead /\ MaxRead \in Nat
          BY <1>1 DEF Rd, TtyAssumption
        <4> QED  BY <2>1, <4>1
      <3>3. rd' = [rd EXCEPT !.pc = "get", !.count = m, !.c = "x"]
        BY <3>1
      <3> HIDE DEF m
      <3>4. rd' \in Rd /\ rd'.pc = "get"
        BY <1>1, <3>2, <3>3 DEF Rd, Chars
      <3> QED  BY <1>1, <2>1, <3>1, <3>4
    <2>2. CASE ~(rd.c # "EOF" /\ rd.count > 1 /\ secondary' # <<>>)
      <3>1. /\ rd' = [pc |-> "user", count |-> 0, c |-> "x"]
            /\ cpu' = "none" /\ signal' = signal \ {"r"}
        BY <2>2 DEF Got, ReadReturns
      <3>2. rd' \in Rd /\ rd'.pc = "user"
        <4>1. 0 \in 0 .. MaxRead
          BY DEF TtyAssumption
        <4> QED  BY <3>1, <4>1 DEF Rd, Chars
      <3> QED  BY <1>1, <3>1, <3>2
    <2> QED  BY <2>1, <2>2
  <1>6. TtyTypeOK'
    <2>1. /\ read_q = <<>> /\ write_q \in 0 .. TTY_BUF_SIZE - 1 /\ ier \in BOOLEAN
          /\ typed \in 0 .. MaxTyped /\ TTY_BUF_SIZE > 0
      BY Parts
    <2>2. read_q' \in Seq(Chars) /\ Len(read_q') < TTY_BUF_SIZE
      BY <1>2, <2>1
    <2> QED  BY <1>1, <1>2, <1>4, <1>5, <2>1, <2>2 DEF TtyTypeOK, Rd, Wr
  <1>7. LinesCounted'
    BY <1>4 DEF LinesCounted
  <1>8. Holding'
    BY <1>2, <1>5, Parts DEF Holding
  <1>9. read_q' = <<>>
    BY <1>2, Parts
  <1> QED  BY <1>6, <1>7, <1>8, <1>9 DEF TtyInv

(* the writer *)
LEMMA WriterStep ==
    ASSUME TtyInv, TtyAssumption, (\E n \in 1 .. MaxWrite : tty_write(n)) \/ Writer
    PROVE  TtyInv'
  <1> SUFFICES ASSUME flaws = {} PROVE TtyInv'
    BY DEF TtyInv, tty_write, Writer, sleep_if_full, Putch, Put, rs_write, queues
  <1>1. /\ rd \in Rd /\ wr \in Wr /\ write_q \in 0 .. TTY_BUF_SIZE - 1
        /\ TTY_BUF_SIZE \in Nat /\ TTY_BUF_SIZE > 0
        /\ read_q = <<>> /\ ier \in BOOLEAN
        /\ signal \subseteq {"r", "w"} /\ cpu \in {"none", "r", "w"}
        /\ rd.pc \in {"get", "inc"} => secondary # <<>>
        /\ rd.pc = "inc" => rd.c = Head(secondary)
        /\ wr.pc = "inc" => wr.count > 0
    BY Parts
  <1>2. UNCHANGED <<read_q, secondary, data, typed, flaws, rd>>
    BY DEF tty_write, Writer, sleep_if_full, Putch, Put, rs_write, queues
  <1>3. ASSUME WriteReturns
        PROVE  /\ wr' \in Wr /\ wr'.pc = "user"
               /\ signal' \subseteq {"r", "w"} /\ cpu' \in {"none", "r", "w"}
    <2>1. 0 \in 0 .. MaxWrite
      BY DEF TtyAssumption
    <2>2. wr' \in Wr /\ wr'.pc = "user"
      BY <1>3, <2>1 DEF WriteReturns, Wr
    <2> QED  BY <1>1, <1>3, <2>2 DEF WriteReturns
  <1>4. /\ wr' \in Wr /\ (wr'.pc = "inc" => wr'.count > 0)
        /\ signal' \subseteq {"r", "w"} /\ cpu' \in {"none", "r", "w"}
        /\ write_q' \in 0 .. TTY_BUF_SIZE - 1 /\ ier' \in BOOLEAN
    <2>1. CASE \E n \in 1 .. MaxWrite : tty_write(n)
      <3>1. PICK n \in 1 .. MaxWrite : tty_write(n)
        BY <2>1
      <3>2. n \in 0 .. MaxWrite
        BY DEF TtyAssumption
      <3>3. /\ wr' = [pc |-> "loop", count |-> n] /\ cpu' = "w"
            /\ UNCHANGED <<write_q, ier, signal>>
        BY <3>1 DEF tty_write, queues
      <3>4. wr' \in Wr /\ wr'.pc = "loop"
        BY <3>2, <3>3 DEF Wr
      <3> QED  BY <1>1, <3>3, <3>4
    <2>2. CASE sleep_if_full
      <3>1. UNCHANGED <<write_q, ier>>
        BY <2>2 DEF sleep_if_full, queues
      <3>2. CASE WriteReturns
        BY <1>1, <1>3, <3>1, <3>2
      <3>3. CASE wr' = [wr EXCEPT !.pc = "asleep"] /\ cpu' = "none" /\ UNCHANGED signal
        <4>1. wr' \in Wr /\ wr'.pc = "asleep"
          BY <1>1, <3>3 DEF Wr
        <4> QED  BY <1>1, <3>1, <3>3, <4>1
      <3>4. CASE wr' = [wr EXCEPT !.pc = "put"] /\ cpu' = "w" /\ UNCHANGED signal
        <4>1. wr' \in Wr /\ wr'.pc = "put"
          BY <1>1, <3>4 DEF Wr
        <4> QED  BY <1>1, <3>1, <3>4, <4>1
      <3> QED  BY <2>2, <3>2, <3>3, <3>4 DEF sleep_if_full
    <2>3. CASE Putch
      <3>1. /\ wr.count > 0 /\ wr' = [wr EXCEPT !.pc = "inc"]
            /\ UNCHANGED <<write_q, ier, signal, cpu>>
        BY <2>3 DEF Putch, queues
      <3>2. wr' \in Wr /\ wr'.count = wr.count
        BY <1>1, <3>1 DEF Wr
      <3> QED  BY <1>1, <3>1, <3>2
    <2>4. CASE Put
      <3> DEFINE m == wr.count - 1
                 q == (write_q + 1) % TTY_BUF_SIZE
      <3>1. /\ wr.pc = "inc" /\ wr' = [wr EXCEPT !.pc = "put", !.count = m]
            /\ write_q' = q /\ UNCHANGED <<ier, signal, cpu>>
        BY <2>4 DEF Put
      <3>2. m \in 0 .. MaxWrite
        <4>1. wr.count \in 0 .. MaxWrite /\ MaxWrite \in Nat
          BY <1>1 DEF Wr, TtyAssumption
        <4> QED  BY <1>1, <3>1, <4>1
      <3>3. q \in 0 .. TTY_BUF_SIZE - 1
        BY <1>1
      <3> HIDE DEF m, q
      <3>4. wr' \in Wr /\ wr'.pc = "put"
        BY <1>1, <3>1, <3>2 DEF Wr
      <3> QED  BY <1>1, <3>1, <3>3, <3>4
    <2>5. CASE rs_write
      <3>1. UNCHANGED write_q /\ ier' \in BOOLEAN
        BY <2>5 DEF rs_write
      <3>2. CASE WriteReturns
        BY <1>1, <1>3, <3>1, <3>2
      <3>3. CASE wr' = [wr EXCEPT !.pc = "loop"] /\ cpu' = "none" /\ UNCHANGED signal
        <4>1. wr' \in Wr /\ wr'.pc = "loop"
          BY <1>1, <3>3 DEF Wr
        <4> QED  BY <1>1, <3>1, <3>3, <4>1
      <3> QED  BY <2>5, <3>2, <3>3 DEF rs_write
    <2> QED  BY <2>1, <2>2, <2>3, <2>4, <2>5 DEF Writer
  <1> QED  BY <1>1, <1>2, <1>4, SideStep

-----------------------------------------------------------------------------
LEMMA TtyStarts == ASSUME TtyInit, TtyAssumption PROVE TtyInv
  <1>1. EndsIn(secondary) = {}
    BY DEF TtyInit, EndsIn
  <1>2. Cardinality(EndsIn(secondary)) = 0
    BY <1>1, FS_EmptySet
  <1>3. LinesCounted
    BY <1>2 DEF LinesCounted, TtyInit
  <1>4. 0 \in 0 .. MaxRead /\ 0 \in 0 .. MaxWrite /\ 0 \in 0 .. MaxTyped
        /\ 0 \in 0 .. TTY_BUF_SIZE - 1 /\ 0 < TTY_BUF_SIZE
    BY DEF TtyAssumption
  <1>5. TtyTypeOK
    <2>1. /\ read_q \in Seq(Chars) /\ secondary \in Seq(Chars)
          /\ Len(secondary) < TTY_BUF_SIZE /\ Len(read_q) < TTY_BUF_SIZE
      BY <1>4 DEF TtyInit
    <2>2. rd \in Rd /\ wr \in Wr
      BY <1>4 DEF TtyInit, Rd, Wr, Chars
    <2> QED  BY <1>4, <2>1, <2>2 DEF TtyInit, TtyTypeOK, Rd, Wr
  <1>6. Holding /\ read_q = <<>>
    BY DEF TtyInit, Holding
  <1> QED  BY <1>3, <1>5, <1>6 DEF TtyInv

LEMMA TtyStep == ASSUME TtyInv, TtyAssumption, [TtyNext]_ttyVars PROVE TtyInv'
  <1>1. CASE UNCHANGED ttyVars
    BY <1>1 DEF ttyVars, TtyInv, TtyTypeOK, LinesCounted, Holding
  <1>2. CASE TtyNext
    BY <1>2, ReadCharStep, PortStep, ReaderStep, GotStep, WriterStep
    DEF TtyNext, Reader
  <1> QED  BY <1>1, <1>2

(* The inductive invariant: types, what each reader holds of the line it   *)
(* is copying, and the exact line counter.                                 *)
THEOREM TtyInvariance == TtySpec => []TtyInv
  <1>1. TtyInit => TtyInv
    BY TtyStarts, TtyAssumption
  <1>2. TtyInv /\ [TtyNext]_ttyVars => TtyInv'
    BY TtyStep, TtyAssumption
  <1> QED  BY <1>1, <1>2, PTL DEF TtySpec


(* The count of complete lines and the edited queue agree, before every    *)
(* flaw, whatever the interrupts do between two steps of the reader.       *)
THEOREM LinesStayCounted == TtySpec => []LinesCounted
  <1>1. TtyInv => LinesCounted
    BY DEF TtyInv, LinesCounted
  <1> QED  BY <1>1, TtyInvariance, PTL
=============================================================================
