-------------------------- MODULE WaitQueueProofs --------------------------
(* Proofs about WaitQueue for every set of tasks and of wait queues.       *)
EXTENDS WaitQueue, TLAPS

USE DEF RUNNING, INTERRUPTIBLE, UNINTERRUPTIBLE, ZOMBIE

(* The fields of the kernel state that each primitive of sched.c returns.  *)
LEMMA WakeUpFields ==
    ASSUME k \in KernelStates, NEW q \in Queues, NullAssumption
    PROVE  /\ wake_up(k, q) \in KernelStates
           /\ wake_up(k, q).state = MakeRunning(k.state, k.head[q])
           /\ wake_up(k, q).head = [k.head EXCEPT ![q] = Null]
           /\ wake_up(k, q).tmp = k.tmp
           /\ wake_up(k, q).at = k.at
  BY DEF KernelStates, States, wake_up, MakeRunning, NullAssumption

LEMMA SleepLeaveFields ==
    ASSUME k \in KernelStates, NEW t \in Tasks, k.at[t] # Null,
           NullAssumption
    PROVE  /\ SleepLeave(k, t) \in KernelStates
           /\ SleepLeave(k, t).state = MakeRunning(k.state, k.tmp[t])
           /\ SleepLeave(k, t).head = [k.head EXCEPT ![k.at[t]] = k.tmp[t]]
           /\ SleepLeave(k, t).tmp = [k.tmp EXCEPT ![t] = Null]
           /\ SleepLeave(k, t).at = [k.at EXCEPT ![t] = Null]
  BY DEF KernelStates, States, SleepLeave, MakeRunning, NullAssumption

LEMMA SleepRepeatFields ==
    ASSUME k \in KernelStates, NEW t \in Tasks, k.at[t] # Null,
           NullAssumption
    PROVE  /\ SleepRepeat(k, t) \in KernelStates
           /\ SleepRepeat(k, t).state =
                [MakeRunning(k.state, k.head[k.at[t]])
                    EXCEPT ![t] = INTERRUPTIBLE]
           /\ SleepRepeat(k, t).head = k.head
           /\ SleepRepeat(k, t).tmp = k.tmp
           /\ SleepRepeat(k, t).at = k.at
  BY DEF KernelStates, States, SleepRepeat, MakeRunning, NullAssumption

LEMMA WakeSignalledFields ==
    ASSUME k \in KernelStates
    PROVE  /\ WakeSignalled(k, sig) \in KernelStates
           /\ WakeSignalled(k, sig).state = [t \in Tasks |->
                IF t \in sig /\ k.state[t] = INTERRUPTIBLE
                THEN RUNNING ELSE k.state[t]]
           /\ WakeSignalled(k, sig).head = k.head
           /\ WakeSignalled(k, sig).tmp = k.tmp
           /\ WakeSignalled(k, sig).at = k.at
  BY DEF KernelStates, States, WakeSignalled

LEMMA InitIInv == ASSUME Init, NullAssumption, QueuesAssumption PROVE IInv
  BY DEF Init, IInv, TypeOK, KernelStates, KernelInit, States, Chains, Chain,
         Links, Top, Clean, Members, Exits, Awake, NullAssumption,
         QueuesAssumption

(* A step that changes no task's frame, queue or depth, and that wakes     *)
(* only tasks that sleep interruptibly or are in no queue, keeps chains.   *)
LEMMA FrameSame ==
    ASSUME Chains, TypeOK, TypeOK', NullAssumption, QueuesAssumption,
           k'.head = k.head, k'.tmp = k.tmp, k'.at = k.at,
           depth' = depth, overlap' = overlap, stray => stray',
           \A q \in UQueues : Clean(q) =>
               \A t \in Members(k, q) : k'.state[t] = k.state[t]
    PROVE  Chains'
  <1> SUFFICES ASSUME NEW q \in UQueues, Clean(q)' PROVE Chain(q)'
    BY DEF Chains
  <1>1. Clean(q) /\ Chain(q)  BY DEF Clean, Chains, TypeOK
  <1>2. Members(k, q)' = Members(k, q)  BY DEF Members
  <1>3. \A t \in Members(k, q) : k'.state[t] = k.state[t]  BY <1>1
  <1>4. Links(q)'
    BY <1>1, <1>2, <1>3 DEF Chain, Links, TypeOK, Members
  <1>5. Top(q)'
    BY <1>1, <1>2, <1>3 DEF Chain, Top, TypeOK, Members
  <1> QED  BY <1>4, <1>5 DEF Chain

LEMMA SleepStep ==
    ASSUME IInv, NullAssumption, QueuesAssumption,
           NEW t \in Tasks, NEW q \in Queues, Sleep(t, q)
    PROVE  IInv'
  <1> DEFINE how == IF q \in UQueues THEN UNINTERRUPTIBLE ELSE INTERRUPTIBLE
  <1>1. k' = SleepEnter(k, t, q, how)
    BY DEF Sleep, sleep_on, interruptible_sleep_on
  <1>2. /\ k' \in KernelStates
        /\ k'.state = [k.state EXCEPT ![t] = how]
        /\ k'.head = [k.head EXCEPT ![q] = t]
        /\ k'.tmp = [k.tmp EXCEPT ![t] = k.head[q]]
        /\ k'.at = [k.at EXCEPT ![t] = q]
    <2>1. how \in {UNINTERRUPTIBLE, INTERRUPTIBLE}  OBVIOUS
    <2> HIDE DEF how
    <2>2. k \in KernelStates  BY DEF IInv, TypeOK
    <2>3. /\ SleepEnter(k, t, q, how) \in KernelStates
          /\ SleepEnter(k, t, q, how).state = [k.state EXCEPT ![t] = how]
          /\ SleepEnter(k, t, q, how).head = [k.head EXCEPT ![q] = t]
          /\ SleepEnter(k, t, q, how).tmp = [k.tmp EXCEPT ![t] = k.head[q]]
          /\ SleepEnter(k, t, q, how).at = [k.at EXCEPT ![t] = q]
      BY <2>1, <2>2 DEF SleepEnter, KernelStates, States
    <2> QED  BY <1>1, <2>3
  <1> HIDE DEF how
  <1>3. TypeOK'
    BY <1>2 DEF IInv, TypeOK, Sleep, RecordEnter, KernelStates, NullAssumption
  <1>4. Exits'
    BY <1>2 DEF IInv, TypeOK, Exits, Sleep, Free, KernelStates, NullAssumption
  <1>5. Awake'
    BY <1>2 DEF IInv, TypeOK, Awake, Sleep, Free, KernelStates, NullAssumption
  <1>6. Chains'
    <2> SUFFICES ASSUME NEW r \in UQueues, Clean(r)' PROVE Chain(r)'
      BY DEF Chains
    <2>1. Clean(r) /\ Chain(r)
      BY DEF Clean, Sleep, RecordEnter, IInv, Chains, TypeOK, QueuesAssumption
    <2>2. CASE r # q
      <3>1. Members(k, r)' = Members(k, r) /\ t \notin Members(k, r)
        BY <1>2, <2>2 DEF Members, IInv, TypeOK, KernelStates, Sleep, Free,
                          NullAssumption, QueuesAssumption
      <3>2. /\ k'.head[r] = k.head[r]
            /\ \A u \in Members(k, r) : /\ k'.tmp[u] = k.tmp[u]
                                        /\ k'.state[u] = k.state[u]
                                        /\ depth'[u] = depth[u]
        BY <1>2, <2>2, <3>1 DEF Members, IInv, TypeOK, KernelStates, Sleep,
                                RecordEnter, QueuesAssumption
      <3>3. Links(r)'
        BY <2>1, <3>1, <3>2 DEF Chain, Links
      <3>4. Top(r)'
        BY <2>1, <3>1, <3>2 DEF Chain, Top
      <3> QED  BY <3>3, <3>4 DEF Chain
    <2>3. CASE r = q
      <3> DEFINE M == Members(k, q)
      <3>1. Members(k, q)' = M \cup {t} /\ t \notin M
        BY <1>2 DEF Members, IInv, TypeOK, KernelStates, Sleep, Free,
                    NullAssumption
      <3>2. \A u \in M : k.state[u] # RUNNING
        BY <2>3 DEF Clean, Sleep, RecordEnter, IInv, TypeOK
      <3>3. /\ k'.head[q] = t /\ k'.tmp[t] = k.head[q]
            /\ k'.state[t] = UNINTERRUPTIBLE
            /\ \A u \in M : /\ k'.tmp[u] = k.tmp[u]
                            /\ k'.state[u] = k.state[u]
                            /\ depth'[u] = depth[u]
        BY <1>2, <3>1, <2>3 DEF how, Members, IInv, TypeOK, KernelStates,
                                Sleep, RecordEnter
      <3>4. depth'[t] = IF k.head[q] = Null THEN 0 ELSE depth[k.head[q]] + 1
        BY <2>3 DEF Clean, Sleep, RecordEnter, IInv, TypeOK
      <3>5. k.head[q] \in M \cup {Null} /\ (k.head[q] = Null => M = {})
        BY <2>1, <2>3, <3>2 DEF Chain, Top
      <3>6. depth \in [Tasks -> Nat] /\ M \subseteq Tasks
        BY DEF IInv, TypeOK, Members
      <3>7. Links(q)'
        BY <2>1, <2>3, <3>1, <3>2, <3>3, <3>4, <3>5, <3>6, NullAssumption
        DEF Chain, Links, Top, NullAssumption
      <3>8. Top(q)'
        BY <2>1, <2>3, <3>1, <3>2, <3>3, <3>4, <3>5, <3>6
        DEF Chain, Links, Top, NullAssumption
      <3> QED  BY <2>3, <3>7, <3>8 DEF Chain
    <2> QED  BY <2>2, <2>3
  <1> QED  BY <1>3, <1>4, <1>5, <1>6 DEF IInv

LEMMA WakeUpStep ==
    ASSUME IInv, NullAssumption, QueuesAssumption,
           NEW q \in Queues, WakeUp(q)
    PROVE  IInv'
  <1>1. /\ k' \in KernelStates
        /\ k'.state = MakeRunning(k.state, k.head[q])
        /\ k'.head = [k.head EXCEPT ![q] = Null]
        /\ k'.tmp = k.tmp
        /\ k'.at = k.at
    BY WakeUpFields DEF IInv, TypeOK, WakeUp
  <1>2. TypeOK'
    BY <1>1 DEF IInv, TypeOK, WakeUp, RecordWake
  <1>3. ~stray' => ~stray /\ (k.head[q] # Null => k.at[k.head[q]] = q)
    BY DEF WakeUp, RecordWake, Members, IInv, TypeOK, KernelStates
  <1>4. Exits'
    BY <1>1, <1>3 DEF IInv, TypeOK, Exits, WakeUp, MakeRunning, KernelStates,
                      NullAssumption, QueuesAssumption
  <1>5. Awake'
    BY <1>1 DEF IInv, TypeOK, Awake, WakeUp, MakeRunning, KernelStates
  <1>6. Chains'
    <2> SUFFICES ASSUME NEW r \in UQueues, Clean(r)' PROVE Chain(r)'
      BY DEF Chains
    <2>1. Clean(r) /\ Chain(r)
      BY <1>3 DEF Clean, WakeUp, IInv, Chains, TypeOK
    <2>2. Members(k, r)' = Members(k, r)  BY <1>1 DEF Members
    <2>3. \A u \in Members(k, r) : /\ k'.tmp[u] = k.tmp[u]
                                   /\ depth'[u] = depth[u]
                                   /\ depth[u] \in Nat
      BY <1>1 DEF WakeUp, Members, IInv, TypeOK
    <2>4. CASE r # q
      <3>1. /\ k'.head[r] = k.head[r]
            /\ \A u \in Members(k, r) : k'.state[u] = k.state[u]
        BY <1>1, <1>3, <2>4 DEF Clean, Members, IInv, TypeOK, KernelStates,
                                MakeRunning, QueuesAssumption
      <3>2. Links(r)'
        BY <2>1, <2>2, <2>3, <3>1 DEF Chain, Links
      <3>3. Top(r)'
        BY <2>1, <2>2, <2>3, <3>1 DEF Chain, Top
      <3> QED  BY <3>2, <3>3 DEF Chain
    <2>5. CASE r = q
      <3>1. /\ k'.head[q] = Null
            /\ \A u \in Members(k, q) : k'.state[u] =
                  IF u = k.head[q] THEN RUNNING ELSE k.state[u]
        BY <1>1 DEF Members, IInv, TypeOK, KernelStates, MakeRunning,
                    NullAssumption
      <3>2. Links(q)'
        BY <2>1, <2>2, <2>3, <2>5, <3>1 DEF Chain, Links, Top
      <3>3. Top(q)'
        <4>1. CASE k.head[q] = Null
          <5>1. \A u \in Members(k, q) : k'.state[u] = k.state[u]
            BY <3>1, <4>1 DEF Members, NullAssumption
          <5> QED  BY <2>1, <2>2, <2>3, <2>5, <3>1, <4>1, <5>1 DEF Chain, Top
        <4>2. CASE k.head[q] # Null
          <5>1. k.head[q] \in Members(k, q)
            BY <2>1, <2>5, <4>2 DEF Chain, Top
          <5>2. \A u \in Members(k, q) : k'.state[u] = RUNNING <=> u = k.head[q]
            BY <2>1, <2>5, <3>1, <4>2 DEF Chain, Top
          <5>3. \A u \in Members(k, q) : u # k.head[q] =>
                    depth[u] < depth[k.head[q]]
            BY <2>1, <2>5, <4>2 DEF Chain, Top
          <5> QED  BY <2>2, <2>3, <2>5, <3>1, <5>1, <5>2, <5>3 DEF Top
        <4> QED  BY <4>1, <4>2
      <3> QED  BY <2>5, <3>2, <3>3 DEF Chain
    <2> QED  BY <2>4, <2>5
  <1> QED  BY <1>2, <1>4, <1>5, <1>6 DEF IInv

LEMMA ResumeStep ==
    ASSUME IInv, NullAssumption, QueuesAssumption,
           NEW t \in Tasks, Resume(t)
    PROVE  IInv'
  <1> DEFINE q == k.at[t]  n == k.tmp[t]
  <1>1. /\ k' \in KernelStates
        /\ k'.state = MakeRunning(k.state, n)
        /\ k'.head = [k.head EXCEPT ![q] = n]
        /\ k'.tmp = [k.tmp EXCEPT ![t] = Null]
        /\ k'.at = [k.at EXCEPT ![t] = Null]
    BY SleepLeaveFields DEF IInv, TypeOK, Resume
  <1>2. TypeOK'
    BY <1>1 DEF IInv, TypeOK, Resume, RecordWake
  <1>0. q \in Queues /\ n \in Tasks \cup {Null} /\ k.state[t] = RUNNING
    BY DEF Resume, IInv, TypeOK, Awake, KernelStates
  <1>3. ~stray' => ~stray /\ (n # Null => k.at[n] = q)
    BY DEF Resume, RecordWake, Members, IInv, TypeOK, KernelStates
  <1>4. Exits'
    BY <1>0, <1>1, <1>3 DEF IInv, TypeOK, Exits, Resume, MakeRunning,
       KernelStates, NullAssumption
  <1>5. Awake'
    BY <1>0, <1>1 DEF IInv, TypeOK, Awake, Resume, MakeRunning, KernelStates,
       NullAssumption
  <1>6. Chains'
    <2> SUFFICES ASSUME NEW r \in UQueues, Clean(r)' PROVE Chain(r)'
      BY DEF Chains
    <2>1. Clean(r) /\ Chain(r)
      BY <1>3 DEF Clean, Resume, IInv, Chains, TypeOK
    <2>2. \A u \in Members(k, r) : depth'[u] = depth[u] /\ depth[u] \in Nat
      BY DEF Resume, Members, IInv, TypeOK
    <2>3. CASE r # q
      <3>1. Members(k, r)' = Members(k, r)
        BY <1>1, <2>3 DEF Members, IInv, TypeOK, KernelStates,
           QueuesAssumption, NullAssumption
      <3>2. /\ k'.head[r] = k.head[r]
            /\ \A u \in Members(k, r) : /\ k'.state[u] = k.state[u]
                                        /\ k'.tmp[u] = k.tmp[u]
        BY <1>0, <1>1, <1>3, <2>3 DEF Clean, Members, IInv, TypeOK,
           KernelStates, MakeRunning, QueuesAssumption
      <3>3. Links(r)'
        BY <2>1, <2>2, <3>1, <3>2 DEF Chain, Links
      <3>4. Top(r)'
        BY <2>1, <2>2, <3>1, <3>2 DEF Chain, Top
      <3> QED  BY <3>3, <3>4 DEF Chain
    <2>4. CASE r = q
      <3> DEFINE M == Members(k, r)
      <3>1. Members(k, r)' = M \ {t} /\ t \in M
        BY <1>0, <1>1, <2>4 DEF Members, IInv, TypeOK, KernelStates,
           QueuesAssumption, NullAssumption
      <3>2. /\ k'.head[r] = n
            /\ \A u \in M \ {t} :
                  /\ k'.tmp[u] = k.tmp[u]
                  /\ k'.state[u] = IF u = n THEN RUNNING ELSE k.state[u]
        BY <1>0, <1>1, <2>4 DEF Members, IInv, TypeOK, KernelStates,
           MakeRunning, NullAssumption
      <3>3. /\ n \in (M \ {t}) \cup {Null}
            /\ n = Null => M = {t}
            /\ \A u \in M : u # t => k.state[u] # RUNNING /\ k.tmp[u] # t
        BY <1>0, <2>1, <2>2, <3>1 DEF Chain, Links, Top
      <3>4. \A u \in M \ {t} : k.tmp[u] = n => n = Null
        BY <2>1, <3>1 DEF Chain, Links
      <3>5. /\ \A u \in M : k.state[u] # RUNNING => k.state[u] = UNINTERRUPTIBLE
            /\ \A u \in M \ {t} : u # n => \E v \in M \ {t} : k.tmp[v] = u
        <4>1. k.head[r] \in {Null, t}
          BY <1>0, <2>1, <3>1 DEF Chain, Top
        <4>2. \A u \in M : k.state[u] # RUNNING =>
                  /\ k.state[u] = UNINTERRUPTIBLE
                  /\ k.head[r] = u \/ \E v \in M : k.tmp[v] = u
          BY <2>1 DEF Chain, Links
        <4>3. \A u \in M : u # Null  BY DEF Members, NullAssumption
        <4> QED  BY <3>3, <4>1, <4>2, <4>3
      <3>6. \A u \in M \ {t} : /\ k.tmp[u] \in (M \ {t}) \cup {Null}
                               /\ k.tmp[u] = Null => depth[u] = 0
                               /\ k.tmp[u] # Null =>
                                     /\ depth[u] = depth[k.tmp[u]] + 1
                                     /\ k.state[k.tmp[u]] = UNINTERRUPTIBLE
                               /\ \A v \in M \ {t} :
                                   k.tmp[u] = k.tmp[v] /\ k.tmp[u] # Null => u = v
        BY <2>1, <3>1, <3>3 DEF Chain, Links
      <3>7. \A u \in M \ {t} : /\ depth[u] < depth[t]
                               /\ n # Null => depth[t] = depth[n] + 1
        BY <1>0, <2>1, <3>1 DEF Chain, Links, Top
      <3>8. \A u \in M \ {t} : u # n => depth[u] < depth[n]
        <4> SUFFICES ASSUME NEW u \in M \ {t}, u # n PROVE depth[u] < depth[n]
          OBVIOUS
        <4>1. PICK v \in M \ {t} : k.tmp[v] = u  BY <3>5
        <4>2. u # Null  BY DEF Members, NullAssumption
        <4>3. depth[v] = depth[u] + 1 /\ depth[v] < depth[t]
          BY <3>6, <3>7, <4>1, <4>2
        <4>4. n # Null /\ depth[t] = depth[n] + 1  BY <3>3, <3>7
        <4> QED  BY <2>2, <3>1, <3>3, <4>3, <4>4
      <3> HIDE DEF n, q
      <3>9. Links(r)'
        BY <2>2, <3>1, <3>2, <3>3, <3>4, <3>5, <3>6 DEF Links
      <3>10. Top(r)'
        BY <2>2, <3>1, <3>2, <3>3, <3>8 DEF Top
      <3> QED  BY <3>9, <3>10 DEF Chain
    <2> QED  BY <2>3, <2>4
  <1> QED  BY <1>2, <1>4, <1>5, <1>6 DEF IInv

LEMMA RepeatStep ==
    ASSUME IInv, NullAssumption, QueuesAssumption,
           NEW t \in Tasks, Repeat(t)
    PROVE  IInv'
  <1> DEFINE q == k.at[t]  h == k.head[q]
  <1>0. q \in IQueues /\ h \in Tasks /\ h # t
    BY DEF Repeat, NotHead, IInv, TypeOK, KernelStates, QueuesAssumption
  <1>1. /\ k' \in KernelStates
        /\ k'.state = [[k.state EXCEPT ![h] = RUNNING]
                          EXCEPT ![t] = INTERRUPTIBLE]
        /\ k'.head = k.head /\ k'.tmp = k.tmp /\ k'.at = k.at
    BY <1>0, SleepRepeatFields DEF IInv, TypeOK, Repeat, MakeRunning,
       NullAssumption, QueuesAssumption
  <1>2. TypeOK'
    BY <1>1 DEF IInv, TypeOK, Repeat, RecordWake
  <1>3. ~stray' => ~stray /\ k.at[h] = q
    BY <1>0 DEF Repeat, RecordWake, Members, NullAssumption
  <1>4. Exits'
    BY <1>0, <1>1, <1>3 DEF IInv, TypeOK, Exits, Repeat, KernelStates,
       NullAssumption, QueuesAssumption
  <1>5. Awake'
    BY <1>1 DEF IInv, TypeOK, Awake, Repeat, KernelStates, NullAssumption
  <1>6. Chains'
    <2>1. ~stray' => \A r \in UQueues : \A u \in Members(k, r) :
              k'.state[u] = k.state[u]
      BY <1>0, <1>1, <1>3 DEF Members, IInv, TypeOK, KernelStates,
         QueuesAssumption
    <2>2. CASE stray'
      BY <2>2 DEF Chains, Clean
    <2>3. CASE ~stray'
      BY <1>1, <1>2, <1>3, <2>1, <2>3, FrameSame DEF IInv, Repeat
    <2> QED  BY <2>2, <2>3
  <1> QED  BY <1>2, <1>4, <1>5, <1>6 DEF IInv

LEMMA ScheduleStep ==
    ASSUME IInv, NullAssumption, QueuesAssumption,
           NEW t \in Tasks \cup {Idle}, schedule(t)
    PROVE  IInv'
  <1>1. /\ k' \in KernelStates
        /\ k'.state = [u \in Tasks |->
              IF u \in sig /\ k.state[u] = INTERRUPTIBLE
              THEN RUNNING ELSE k.state[u]]
        /\ k'.head = k.head /\ k'.tmp = k.tmp /\ k'.at = k.at
    BY WakeSignalledFields DEF IInv, TypeOK, schedule
  <1>2. TypeOK'
    BY <1>1 DEF IInv, TypeOK, schedule, hist
  <1>3. Exits'
    BY <1>1 DEF IInv, TypeOK, Exits, schedule, hist, KernelStates,
                NullAssumption
  <1>4. Awake'
    BY <1>1 DEF IInv, TypeOK, Awake, schedule, KernelStates, NullAssumption
  <1>5. \A q \in UQueues : Clean(q) =>
            \A u \in Members(k, q) : k'.state[u] = k.state[u]
    BY <1>1 DEF IInv, Chains, Chain, Links, Members
  <1>6. Chains'
    BY <1>1, <1>2, <1>5, FrameSame DEF IInv, schedule, hist
  <1> QED  BY <1>2, <1>3, <1>4, <1>6 DEF IInv

(* The steps of a task outside every frame that change only its own state. *)
LEMMA OwnStateStep ==
    ASSUME IInv, NullAssumption, QueuesAssumption,
           NEW t \in Tasks, sys_pause(t) \/ do_exit(t)
    PROVE  IInv'
  <1>1. PICK s \in {INTERRUPTIBLE, ZOMBIE} :
            /\ k' = [k EXCEPT !.state[t] = s]
            /\ \/ exited' = exited
               \/ exited' = exited \cup {t} /\ s = ZOMBIE
    BY DEF sys_pause, do_exit
  <1>2. /\ k' \in KernelStates
        /\ k'.state = [k.state EXCEPT ![t] = s]
        /\ k'.head = k.head /\ k'.tmp = k.tmp /\ k'.at = k.at
    BY <1>1 DEF IInv, TypeOK, KernelStates, States
  <1>3. Free(t) /\ cur' = Null /\ sig' = sig /\ UNCHANGED hist
    BY DEF sys_pause, do_exit
  <1>4. TypeOK'
    BY <1>1, <1>2, <1>3 DEF IInv, TypeOK, hist
  <1>5. Exits'
    BY <1>1, <1>2, <1>3 DEF IInv, TypeOK, Exits, Free, hist, KernelStates,
                            NullAssumption
  <1>6. Awake'
    BY <1>2, <1>3 DEF IInv, TypeOK, Awake, Free, KernelStates, NullAssumption
  <1>7. \A q \in UQueues : Clean(q) =>
            \A u \in Members(k, q) : k'.state[u] = k.state[u]
    BY <1>2, <1>3 DEF Members, Free, IInv, TypeOK, KernelStates,
                      NullAssumption, QueuesAssumption
  <1>8. Chains'
    BY <1>2, <1>3, <1>4, <1>7, FrameSame DEF IInv, hist
  <1> QED  BY <1>4, <1>5, <1>6, <1>8 DEF IInv

(* The steps that leave the kernel state alone. *)
LEMMA SameKernelStep ==
    ASSUME IInv, NullAssumption, QueuesAssumption,
           UNCHANGED <<k, exited, hist>>, sig' \subseteq Tasks,
           cur' \in {cur, Null}
    PROVE  IInv'
  <1>1. TypeOK'  BY DEF IInv, TypeOK, hist
  <1>2. Chains'  BY <1>1, FrameSame DEF IInv, hist
  <1>3. Exits'   BY DEF IInv, TypeOK, Exits, hist, NullAssumption
  <1>4. Awake'   BY DEF IInv, Awake, NullAssumption
  <1> QED  BY <1>1, <1>2, <1>3, <1>4 DEF IInv

LEMMA StepIInv ==
    ASSUME IInv, [Next]_vars, NullAssumption, QueuesAssumption
    PROVE  IInv'
  <1>1. ASSUME NEW t \in Tasks, NEW q \in Queues, Sleep(t, q) PROVE IInv'
    BY <1>1, SleepStep
  <1>2. ASSUME NEW t \in Tasks, sys_pause(t) \/ do_exit(t) PROVE IInv'
    BY <1>2, OwnStateStep
  <1>3. ASSUME NEW t \in Tasks, Resume(t) PROVE IInv'
    BY <1>3, ResumeStep
  <1>4. ASSUME NEW t \in Tasks, Repeat(t) PROVE IInv'
    BY <1>4, RepeatStep
  <1>5. ASSUME NEW t \in Tasks, Signal(t) \/ do_signal(t) PROVE IInv'
    <2>1. UNCHANGED <<k, exited, hist>> /\ cur' = cur /\ sig' \subseteq Tasks
      BY <1>5 DEF Signal, do_signal, IInv, TypeOK
    <2> QED  BY <2>1, SameKernelStep
  <1>6. ASSUME NEW q \in Queues, WakeUp(q) PROVE IInv'
    BY <1>6, WakeUpStep
  <1>7. ASSUME NEW t \in Tasks \cup {Idle}, Preempt(t) PROVE IInv'
    <2>1. UNCHANGED <<k, exited, hist>> /\ cur' = Null /\ sig' \subseteq Tasks
      BY <1>7 DEF Preempt, IInv, TypeOK
    <2> QED  BY <2>1, SameKernelStep
  <1>8. ASSUME NEW t \in Tasks \cup {Idle}, schedule(t) PROVE IInv'
    BY <1>8, ScheduleStep
  <1>9. CASE UNCHANGED vars
    <2>1. UNCHANGED <<k, exited, hist>> /\ cur' = cur /\ sig' \subseteq Tasks
      BY <1>9 DEF vars, hist, IInv, TypeOK
    <2> QED  BY <2>1, SameKernelStep
  <1> QED
    BY <1>1, <1>2, <1>3, <1>4, <1>5, <1>6, <1>7, <1>8, <1>9 DEF Next

LEMMA IInvImplies == ASSUME IInv, NullAssumption, QueuesAssumption
                     PROVE  NoLostSleeper /\ OneAwake /\ ExitIsFinal
  <1>1. NoLostSleeper
    <2> SUFFICES ASSUME NEW q \in UQueues, Clean(q), NEW t \in Members(k, q),
                        k.state[t] = UNINTERRUPTIBLE, k.head[q] # t
                 PROVE  \E u \in Members(k, q) :
                            k.tmp[u] = t /\ depth[u] > depth[t]
      BY DEF NoLostSleeper
    <2>1. PICK u \in Members(k, q) : k.tmp[u] = t
      BY DEF IInv, Chains, Chain, Links
    <2>2. t # Null /\ depth[t] \in Nat
      BY DEF Members, NullAssumption, IInv, TypeOK
    <2>3. depth[u] = depth[t] + 1
      BY <2>1, <2>2 DEF IInv, Chains, Chain, Links
    <2> QED  BY <2>1, <2>2, <2>3
  <1>2. OneAwake
    <2> SUFFICES ASSUME NEW q \in UQueues, Clean(q), NEW t \in Members(k, q),
                        NEW u \in Members(k, q), k.state[t] = RUNNING
                 PROVE  /\ k.state[u] = RUNNING => u = t
                        /\ k.head[q] \in {Null, t}
                        /\ k.tmp[u] # t
      BY DEF OneAwake
    <2>1. Links(q) /\ Top(q)  BY DEF IInv, Chains, Chain
    <2>2. t # Null  BY DEF Members, NullAssumption
    <2> QED  BY <2>1, <2>2 DEF Links, Top
  <1>3. ExitIsFinal  BY DEF IInv, Exits, ExitIsFinal
  <1> QED  BY <1>1, <1>2, <1>3

(* The types and the chain structure hold in every reachable state of      *)
(* sched.c's wait queues.                                                  *)
THEOREM InductiveInvariant == Spec => []IInv
  <1>1. Init => IInv  BY InitIInv, NullAssumption, QueuesAssumption
  <1>2. IInv /\ [Next]_vars => IInv'
    BY StepIInv, NullAssumption, QueuesAssumption
  <1> QED  BY <1>1, <1>2, PTL DEF Spec

(* No sleeper of a clean queue is out of reach of wake_up and of the       *)
(* wake-ups that sleep_on hands on, whatever tasks, interrupts and signals *)
(* do.                                                                     *)
THEOREM SleepersReachable == Spec => []NoLostSleeper
  <1>1. IInv => NoLostSleeper
    BY IInvImplies, NullAssumption, QueuesAssumption
  <1> QED  BY <1>1, InductiveInvariant, PTL

(* The wake-up of a clean queue is handed down one task at a time.         *)
THEOREM WakeUpsTravelAlone == Spec => []OneAwake
  <1>1. IInv => OneAwake
    BY IInvImplies, NullAssumption, QueuesAssumption
  <1> QED  BY <1>1, InductiveInvariant, PTL

(* Without stray stores do_exit's call of schedule() never returns.        *)
THEOREM ExitsAreFinal == Spec => []ExitIsFinal
  <1>1. IInv => ExitIsFinal
    BY IInvImplies, NullAssumption, QueuesAssumption
  <1> QED  BY <1>1, InductiveInvariant, PTL

(* Every stray store has one of two causes: a queue entered before a woken *)
(* task had left it, or an interruptible queue.                            *)
THEOREM StrayStoresHaveCause == Spec => StrayNeedsCause
  <1>1. ASSUME IInv, [Next]_vars
        PROVE  [stray' /\ ~stray => \/ \E q \in UQueues : overlap[q]
                                    \/ IQueues # {}]_vars
    <2> SUFFICES ASSUME Next, stray', ~stray, IQueues = {},
                        \A q \in UQueues : ~overlap[q]
                 PROVE  FALSE
      BY <1>1 DEF vars
    <2>1. \A q \in Queues : Links(q) /\ Top(q)
      BY <1>1, QueuesAssumption DEF IInv, Chains, Chain, Clean,
         QueuesAssumption
    <2>2. ASSUME NEW q \in Queues, WakeUp(q) PROVE FALSE
      BY <2>1, <2>2 DEF WakeUp, RecordWake, Top
    <2>3. ASSUME NEW t \in Tasks, Resume(t) PROVE FALSE
      <3>1. k.at[t] \in Queues /\ t \in Members(k, k.at[t])
        BY <1>1, <2>3 DEF Resume, Members, IInv, TypeOK, KernelStates
      <3>2. k.tmp[t] \in Members(k, k.at[t]) \cup {Null}
        BY <2>1, <3>1 DEF Links
      <3> QED  BY <2>3, <3>2 DEF Resume, RecordWake
    <2>4. ASSUME NEW t \in Tasks, Repeat(t) PROVE FALSE
      BY <2>4 DEF Repeat
    <2> QED
      BY <2>2, <2>3, <2>4 DEF Next, Sleep, sys_pause, Signal, do_signal,
         do_exit, Preempt, schedule, hist
  <1> QED  BY <1>1, InductiveInvariant, PTL DEF Spec, StrayNeedsCause
=============================================================================
