--------------------------- MODULE ProcessProofs ---------------------------
(* Proofs about Process for every size of the process table, every range   *)
(* of pids and every choice of what the processes call.                    *)
EXTENDS Process, FiniteSetTheorems, WellFoundedInduction, TLAPS

(* A set of natural numbers has a least element. *)
LEMMA LeastOf == ASSUME NEW T, T \subseteq Nat, T # {}
                 PROVE  \E x \in T : \A y \in T : x <= y
  <1> DEFINE R == OpToRel(<, Nat)
  <1>1. IsWellFoundedOn(R, Nat)  BY NatLessThanWellFounded
  <1> HIDE DEF R
  <1>2. PICK x \in T : \A y \in T : ~(<<y, x>> \in R)
    BY <1>1, WFMin
  <1>3. \A y \in Nat : y < x => <<y, x>> \in R
    BY DEF R, OpToRel
  <1>4. \A y \in T : ~(y < x)  BY <1>2, <1>3
  <1>5. \A y \in T : x \in Nat /\ y \in Nat  OBVIOUS
  <1> QED  BY <1>4, <1>5

(* The least element of a set is one of it. *)
LEMMA MinOfIn ==
    ASSUME NEW S, S \subseteq Nat, S # {} PROVE MinOf(S) \in S
  BY LeastOf DEF MinOf

(* A set of slots has a greatest element. *)
LEMMA MaxOfIn ==
    ASSUME ProcessAssumption, NEW S, S \subseteq Slots, S # {}
    PROVE  MaxOf(S) \in S
  <1> DEFINE D == {NR_TASKS - i : i \in S}
  <1>1. \A i \in S : i \in Nat /\ NR_TASKS \in Nat /\ NR_TASKS - i \in Nat
    BY DEF Slots, ProcessAssumption
  <1>2. D \subseteq Nat  BY <1>1
  <1>3. D # {}  OBVIOUS
  <1>4. PICK d \in D : \A e \in D : d <= e
    <2> HIDE DEF D
    <2> QED  BY <1>2, <1>3, LeastOf
  <1>5. PICK x \in S : d = NR_TASKS - x  OBVIOUS
  <1>6. \A y \in S : x >= y
    <2> SUFFICES ASSUME NEW y \in S PROVE x >= y  OBVIOUS
    <2>1. NR_TASKS - x <= NR_TASKS - y  BY <1>4, <1>5
    <2> QED  BY <2>1, <1>1
  <1> QED  BY <1>6 DEF MaxOf

(* The signal that is delivered is one of those that are pending. *)
LEMMA FirstSignal ==
    ASSUME NEW S \in SUBSET Signals, S # {} PROVE MinOf(S) \in S
  <1>1. S \subseteq Nat  BY DEF Signals, SIGHUP, SIGKILL, SIGCHLD
  <1> QED  BY <1>1, MinOfIn

(* find_empty_process always finds a pid, because there are more pids than *)
(* slots, and the one it finds is nobody's.                                *)
LEMMA NextPidFree ==
    ASSUME ProcessAssumption, TypeOK
    PROVE  NextPid \in Pids /\ PidFree(NextPid)
  <1> DEFINE F == {n \in Pids : PidFree(n)}
             after(n) == (n - last_pid - 1) % MaxPid
  <1>1. F # {}
    <2> SUFFICES ASSUME \A n \in Pids : \E i \in Used : task[i].pid = n
                 PROVE  FALSE
      BY DEF PidFree
    <2> DEFINE f == [n \in Pids |-> CHOOSE i \in Slots : task[i].pid = n]
    <2>1. \A n \in Pids : f[n] \in Slots /\ task[f[n]].pid = n
      BY DEF Used
    <2>2. /\ IsFiniteSet(Pids) /\ Cardinality(Pids) = MaxPid
          /\ IsFiniteSet(Slots) /\ Cardinality(Slots) = NR_TASKS - 1
      BY FS_Interval DEF Pids, Slots, ProcessAssumption
    <2>3. f \in [Pids -> Slots]  BY <2>1
    <2>4. Cardinality(Slots) < Cardinality(Pids)
      BY <2>2 DEF ProcessAssumption
    <2>5. \E x, y \in Pids : x # y /\ f[x] = f[y]
      <3> HIDE DEF f
      <3> QED  BY <2>2, <2>3, <2>4, FS_PigeonHole
    <2> QED  BY <2>1, <2>5
  <1>2. \A n \in Pids : after(n) \in Nat
    BY DEF TypeOK, Pids, ProcessAssumption
  <1> DEFINE D == {after(n) : n \in F}
  <1>3. D \subseteq Nat /\ D # {}  BY <1>1, <1>2
  <1>5. PICK d \in D : \A e \in D : d <= e
    <2> HIDE DEF D
    <2> QED  BY <1>3, LeastOf
  <1>6. PICK n \in F : d = after(n)  OBVIOUS
  <1>7. \A m \in F : after(n) <= after(m)
    BY <1>5, <1>6
  <1> HIDE DEF after
  <1>8. \E x \in Pids : /\ PidFree(x)
                        /\ \A m \in Pids : PidFree(m) => after(x) <= after(m)
    BY <1>7
  <1>9. NextPid = CHOOSE x \in Pids : /\ PidFree(x)
                        /\ \A m \in Pids : PidFree(m) => after(x) <= after(m)
    BY DEF NextPid, after
  <1> QED  BY <1>8, <1>9

-----------------------------------------------------------------------------
(* y is x with other signals pending. *)
Alike(x, y) ==
    /\ y.pid = x.pid /\ y.father = x.father /\ y.pgrp = x.pgrp
    /\ y.session = x.session /\ y.leader = x.leader /\ y.state = x.state
    /\ y.blocked = x.blocked /\ y.act = x.act /\ y.inside = x.inside
    /\ y.pc = x.pc /\ y.want = x.want

(* send_sig adds one signal to the processes it is sent to, unless they    *)
(* exit, and changes nothing else.                                         *)
LEMMA RaiseFields ==
    ASSUME NEW T \in [Slots -> TaskType], NEW S, NEW sig \in Signals
    PROVE  /\ Raise(T, S, sig) \in [Slots -> TaskType]
           /\ \A i \in Slots :
                /\ Alike(T[i], Raise(T, S, sig)[i])
                /\ T[i].signal \subseteq Raise(T, S, sig)[i].signal
                /\ Raise(T, S, sig)[i].signal \subseteq T[i].signal \cup {sig}
                /\ i \notin S => Raise(T, S, sig)[i] = T[i]
                /\ i \in S /\ T[i].pc \notin {"exit", "zombie"}
                      => sig \in Raise(T, S, sig)[i].signal
  <1> DEFINE R == Raise(T, S, sig)
  <1>1. ASSUME NEW i \in Slots
        PROVE  /\ R[i] \in TaskType
               /\ Alike(T[i], R[i])
               /\ T[i].signal \subseteq R[i].signal
               /\ R[i].signal \subseteq T[i].signal \cup {sig}
               /\ i \notin S => R[i] = T[i]
               /\ i \in S /\ T[i].pc \notin {"exit", "zombie"} => sig \in R[i].signal
    <2>1. T[i] \in TaskType  OBVIOUS
    <2>2. R[i] = IF i \in S /\ T[i].pc \notin {"exit", "zombie"}
                 THEN [T[i] EXCEPT !.signal = @ \cup {sig}] ELSE T[i]
      BY DEF Raise
    <2> HIDE DEF R
    <2>3. CASE i \in S /\ T[i].pc \notin {"exit", "zombie"}
      <3>1. R[i] = [T[i] EXCEPT !.signal = T[i].signal \cup {sig}]  BY <2>2, <2>3
      <3>2. T[i].signal \cup {sig} \in SUBSET Signals  BY <2>1 DEF TaskType
      <3>3. R[i] \in TaskType  BY <2>1, <3>1, <3>2 DEF TaskType
      <3>4. R[i].signal = T[i].signal \cup {sig}  BY <2>1, <3>1 DEF TaskType
      <3>5. Alike(T[i], R[i])  BY <2>1, <3>1 DEF TaskType, Alike
      <3> QED  BY <2>3, <3>3, <3>4, <3>5
    <2>4. CASE ~(i \in S /\ T[i].pc \notin {"exit", "zombie"})
      BY <2>1, <2>2, <2>4 DEF Alike
    <2> QED  BY <2>3, <2>4
  <1>2. R = [i \in Slots |-> R[i]]  BY DEF Raise
  <1>3. R \in [Slots -> TaskType]  BY <1>1, <1>2
  <1> HIDE DEF R
  <1> QED  BY <1>1, <1>3 DEF R

(* What makes a process sound does not depend on its signals. *)
LEMMA AlikeSound ==
    ASSUME NEW x, NEW y, Alike(x, y), Sound(x) PROVE Sound(y)
  BY DEF Alike, Sound, Masked

(* From x to y a process keeps its pid and father, does not begin to exit, *)
(* to be a zombie or to sleep in waitpid, and if it sleeps there does not  *)
(* lose SIGCHLD.                                                           *)
Ordinary(x, y) ==
    /\ y.pid = x.pid /\ y.father = x.father
    /\ y.pc \in {"exit", "zombie"} => x.pc \in {"exit", "zombie"}
    /\ y.state = "ZOMBIE" => x.state = "ZOMBIE" /\ y.pgrp = x.pgrp
    /\ y.pc = "waitpid" /\ y.state = "INTERRUPTIBLE" =>
         /\ x.pc = "waitpid" /\ x.state = "INTERRUPTIBLE"
         /\ y.pgrp = x.pgrp /\ y.want = x.want
         /\ SIGCHLD \in x.signal => SIGCHLD \in y.signal

(* A step that is ordinary for all processes keeps the invariant. *)
LEMMA OrdinaryStep ==
    ASSUME ProcessAssumption, IInv, TypeOK', InitRuns',
           \A i \in Slots : Sound(task[i])',
           UNCHANGED badbad,
           \A i \in Slots : Ordinary(task[i], task'[i])
    PROVE  IInv'
  <1> USE DEF Ordinary
  <1>1. Used' = Used  BY DEF Used
  <1>2. FatherCanWait'
    <2>1. \A i, j \in Used : i # j => task'[i].pid # task'[j].pid
      BY DEF IInv, FatherCanWait, Used
    <2>2. \A i \in Used \ {1} : \E f \in Used :
            task'[f].pid = task'[i].father /\ task'[f].pc \notin {"exit", "zombie"}
      <3> SUFFICES ASSUME NEW i \in Used \ {1}
          PROVE  \E f \in Used : task'[f].pid = task'[i].father
                                  /\ task'[f].pc \notin {"exit", "zombie"}
        OBVIOUS
      <3>1. PICK f \in Used : task[f].pid = task[i].father
                              /\ task[f].pc \notin {"exit", "zombie"}
        BY DEF IInv, FatherCanWait
      <3>2. f \in Slots /\ i \in Slots  BY DEF Used
      <3> QED  BY <3>1, <3>2
    <2>3. ~badbad'  BY DEF IInv, FatherCanWait
    <2> QED  BY <1>1, <2>1, <2>2, <2>3 DEF FatherCanWait
  <1>3. WaiterIsTold'
    <2> SUFFICES ASSUME NEW p \in Used, task'[p].pc = "waitpid",
                        task'[p].state = "INTERRUPTIBLE",
                        NEW z \in Zombies(task', p, task'[p].want)
                 PROVE  SIGCHLD \in task'[p].signal
      BY <1>1 DEF WaiterIsTold
    <2>1. p \in Slots /\ z \in Slots \ {p} /\ task'[z].state = "ZOMBIE"
      BY DEF Used, Zombies, Asked
    <2>2. /\ task[p].pc = "waitpid" /\ task[p].state = "INTERRUPTIBLE"
          /\ task'[p].pgrp = task[p].pgrp /\ task'[p].want = task[p].want
          /\ SIGCHLD \in task[p].signal => SIGCHLD \in task'[p].signal
          /\ task[z].state = "ZOMBIE" /\ task'[z].pgrp = task[z].pgrp
      BY <2>1
    <2>3. /\ task'[p].pid = task[p].pid /\ task'[z].pid = task[z].pid
          /\ task'[z].father = task[z].father
      BY <2>1
    <2>4. z \in Zombies(task, p, task[p].want)
      BY <2>1, <2>2, <2>3 DEF Zombies, Asked
    <2>5. SIGCHLD \in task[p].signal
      BY <2>2, <2>4 DEF IInv, WaiterIsTold
    <2> QED  BY <2>2, <2>5
  <1> QED  BY <1>2, <1>3 DEF IInv

(* What init's record looks like in the invariant. *)
IsInit(x) ==
    /\ x.pid = INIT_PID /\ x.pgrp = 0 /\ x.session = 0 /\ ~x.leader
    /\ x.signal \subseteq {SIGCHLD} /\ x.act = Default /\ x.inside = <<>>
    /\ x.pc \in {"user", "ret", "waitpid"}

(* A running process that changes only its own record, to y. *)
LEMMA OwnStep ==
    ASSUME ProcessAssumption, IInv, UNCHANGED badbad, last_pid' \in Pids,
           NEW p \in Slots, task[p].state = "RUNNING",
           NEW y \in TaskType, task' = [task EXCEPT ![p] = y],
           y.pid = task[p].pid, y.father = task[p].father,
           y.pc \notin {"exit", "zombie"}, y.state # "ZOMBIE",
           ~(y.pc = "waitpid" /\ y.state = "INTERRUPTIBLE"),
           Sound(y), p = 1 => IsInit(y)
    PROVE  IInv'
  <1>1. TypeOK'  BY DEF IInv, TypeOK
  <1>2. \A i \in Slots : task'[i] = IF i = p THEN y ELSE task[i]
    BY DEF IInv, TypeOK
  <1>3. 1 \in Slots  BY DEF Slots, ProcessAssumption
  <1>4. InitRuns'  BY <1>2, <1>3 DEF IInv, InitRuns, IsInit
  <1>5. \A i \in Slots : Sound(task[i])'  BY <1>2 DEF IInv, Sound, Masked
  <1>6. \A i \in Slots : Ordinary(task[i], task'[i])  BY <1>2 DEF Ordinary
  <1> QED  BY <1>1, <1>4, <1>5, <1>6, OrdinaryStep

-----------------------------------------------------------------------------
(* The steps in which a process changes only itself, and does not begin to *)
(* wait or to exit.  The first is that of a call that only returns.        *)
LEMMA ReturnStep ==
    ASSUME ProcessAssumption, IInv, UNCHANGED badbad, last_pid' \in Pids,
           NEW p \in Slots, task[p].state = "RUNNING",
           task[p].pc \notin {"exit", "zombie"},
           task' = Ret(task, p)
    PROVE  IInv'
  <1> DEFINE y == [task[p] EXCEPT !.pc = "ret"]
  <1>1. task[p] \in TaskType  BY DEF IInv, TypeOK
  <1>2. task' = [task EXCEPT ![p] = y]  BY DEF Ret
  <1>3. y \in TaskType  BY <1>1 DEF TaskType
  <1>4. /\ y.pc = "ret" /\ y.state = "RUNNING" /\ y.pid = task[p].pid
        /\ y.father = task[p].father /\ y.pgrp = task[p].pgrp
        /\ y.session = task[p].session /\ y.leader = task[p].leader
        /\ y.signal = task[p].signal /\ y.blocked = task[p].blocked
        /\ y.act = task[p].act /\ y.inside = task[p].inside
    BY <1>1 DEF TaskType
  <1> HIDE DEF y
  <1>5. Sound(y)  BY <1>4 DEF IInv, Sound, Masked
  <1>6. p = 1 => IsInit(y)  BY <1>4 DEF IInv, InitRuns, IsInit
  <1> QED  BY <1>2, <1>3, <1>4, <1>5, <1>6, OwnStep

(* sys_setsid changes the session of the caller only. *)
LEMMA SetsidStep ==
    ASSUME ProcessAssumption, IInv, NEW p \in Slots, sys_setsid(p)
    PROVE  IInv'
  <1> DEFINE y == [task[p] EXCEPT !.leader = TRUE, !.session = task[p].pid,
                                  !.pgrp = task[p].pid, !.pc = "ret"]
  <1>1. task[p] \in TaskType  BY DEF IInv, TypeOK
  <1>2. /\ task[p].state = "RUNNING" /\ task[p].pid # 0 /\ p # 1
        /\ last_pid' \in Pids /\ UNCHANGED badbad
    BY DEF sys_setsid, Calls, At, Used, IInv, TypeOK, ProcessAssumption
  <1>3. task' = [task EXCEPT ![p] = y]  BY DEF IInv, TypeOK, sys_setsid, Ret
  <1>4. y \in TaskType  BY <1>1 DEF TaskType
  <1>5. /\ y.pc = "ret" /\ y.state = "RUNNING" /\ y.pid = task[p].pid
        /\ y.father = task[p].father /\ y.session = task[p].pid
        /\ y.blocked = task[p].blocked /\ y.inside = task[p].inside
    BY <1>1, <1>2 DEF TaskType
  <1> HIDE DEF y
  <1>6. Sound(y)  BY <1>2, <1>5 DEF IInv, Sound, Masked
  <1> QED  BY <1>2, <1>3, <1>4, <1>5, <1>6, OwnStep

(* sys_ssetmask changes the mask of the caller only. *)
LEMMA MaskStep ==
    ASSUME ProcessAssumption, IInv, NEW p \in Slots, NEW m \in Masks,
           sys_ssetmask(p, m)
    PROVE  IInv'
  <1> DEFINE y == [task[p] EXCEPT !.blocked = m \ {SIGKILL}, !.pc = "ret"]
  <1>1. task[p] \in TaskType  BY DEF IInv, TypeOK
  <1>2. /\ task[p].state = "RUNNING" /\ p # 1 /\ task[p].inside = <<>>
        /\ last_pid' \in Pids /\ UNCHANGED badbad
    BY DEF sys_ssetmask, Calls, At, Used, IInv, TypeOK, ProcessAssumption
  <1>3. task' = [task EXCEPT ![p] = y]  BY DEF IInv, TypeOK, sys_ssetmask, Ret
  <1>4. m \ {SIGKILL} \in SUBSET Signals  BY DEF ProcessAssumption
  <1>5. y \in TaskType  BY <1>1, <1>4 DEF TaskType
  <1>6. /\ y.pc = "ret" /\ y.state = "RUNNING" /\ y.pid = task[p].pid
        /\ y.father = task[p].father /\ y.session = task[p].session
        /\ y.leader = task[p].leader /\ y.inside = <<>>
    BY <1>1, <1>2 DEF TaskType
  <1> HIDE DEF y
  <1>7. Sound(y)  BY <1>2, <1>6 DEF IInv, Sound, Masked
  <1> QED  BY <1>2, <1>3, <1>5, <1>6, <1>7, OwnStep

(* sys_sigaction changes a handler of the caller only. *)
LEMMA ActionStep ==
    ASSUME ProcessAssumption, IInv, NEW p \in Slots, NEW a \in Actions,
           sys_sigaction(p, a[1], a[2])
    PROVE  IInv'
  <1> DEFINE y == [task[p] EXCEPT !.act = [@ EXCEPT ![a[1]] = a[2]], !.pc = "ret"]
  <1>1. task[p] \in TaskType  BY DEF IInv, TypeOK
  <1>2. /\ task[p].state = "RUNNING" /\ p # 1 /\ task[p].inside = <<>>
        /\ last_pid' \in Pids /\ UNCHANGED badbad
    BY DEF sys_sigaction, Calls, At, Used, IInv, TypeOK, ProcessAssumption
  <1>3. task' = [task EXCEPT ![p] = y]  BY DEF IInv, TypeOK, sys_sigaction, Ret
  <1>4. [task[p].act EXCEPT ![a[1]] = a[2]] \in [Signals -> Acts]
    BY <1>1 DEF TaskType, ProcessAssumption
  <1>5. y \in TaskType  BY <1>1, <1>4 DEF TaskType
  <1>6. /\ y.pc = "ret" /\ y.state = "RUNNING" /\ y.pid = task[p].pid
        /\ y.father = task[p].father /\ y.session = task[p].session
        /\ y.leader = task[p].leader /\ y.inside = <<>>
    BY <1>1, <1>2 DEF TaskType
  <1> HIDE DEF y
  <1>7. Sound(y)  BY <1>2, <1>6 DEF IInv, Sound, Masked
  <1> QED  BY <1>2, <1>3, <1>5, <1>6, <1>7, OwnStep

(* sys_pause puts the caller to sleep. *)
LEMMA PauseStep ==
    ASSUME ProcessAssumption, IInv, NEW p \in Slots, sys_pause(p)
    PROVE  IInv'
  <1> DEFINE y == [task[p] EXCEPT !.state = "INTERRUPTIBLE", !.pc = "pause"]
  <1>1. task[p] \in TaskType  BY DEF IInv, TypeOK
  <1>2. /\ task[p].state = "RUNNING" /\ p # 1
        /\ last_pid' \in Pids /\ UNCHANGED badbad
    BY DEF sys_pause, Calls, At, Used, IInv, TypeOK, ProcessAssumption
  <1>3. task' = [task EXCEPT ![p] = y]  BY DEF IInv, TypeOK, sys_pause
  <1>4. y \in TaskType  BY <1>1 DEF TaskType
  <1>5. /\ y.pc = "pause" /\ y.state = "INTERRUPTIBLE" /\ y.pid = task[p].pid
        /\ y.father = task[p].father /\ y.session = task[p].session
        /\ y.leader = task[p].leader
        /\ y.blocked = task[p].blocked /\ y.inside = task[p].inside
    BY <1>1, <1>2 DEF TaskType
  <1> HIDE DEF y
  <1>6. Sound(y)  BY <1>2, <1>5 DEF IInv, Sound, Masked
  <1> QED  BY <1>2, <1>3, <1>4, <1>5, <1>6, OwnStep

-----------------------------------------------------------------------------
(* The entry of a handler, on top of those that run. *)
LEMMA HandlerMasked ==
    ASSUME NEW x \in TaskType, NEW y \in TaskType, Masked(x),
           NEW sig \in Signals \ x.blocked, NEW a \in Acts,
           y.inside = Append(x.inside, [sig |-> sig, act |-> a, mask |-> x.blocked]),
           y.blocked = x.blocked \cup sa_mask(a, sig)
    PROVE  Masked(y)
  <1> DEFINE n == Len(x.inside)
             new == [sig |-> sig, act |-> a, mask |-> x.blocked]
  <1>1. x.inside \in Seq(HandlerType)
    BY DEF TaskType
  <1>2. new \in HandlerType
    BY DEF TaskType, HandlerType
  <1>3. /\ n \in Nat /\ Len(y.inside) = n + 1
        /\ \A i \in 1 .. n : y.inside[i] = x.inside[i]
        /\ y.inside[n + 1] = new
    BY <1>1, <1>2
  <1>4. new.sig = sig /\ new.act = a /\ new.mask = x.blocked  OBVIOUS
  <1> SUFFICES ASSUME NEW i \in 1 .. n + 1, y.inside[i].act = "KEEP"
               PROVE  /\ y.inside[i].sig \in y.blocked
                      /\ \A j \in 1 .. n + 1 : i < j =>
                           y.inside[i].sig \in y.inside[j].mask \ {y.inside[j].sig}
    BY <1>3 DEF Masked
  <1> HIDE DEF new, n
  <1>5. CASE i = n + 1
    <2>1. y.inside[i].sig \in y.blocked  BY <1>3, <1>4, <1>5 DEF sa_mask
    <2>2. \A j \in 1 .. n + 1 : ~(i < j)  BY <1>3, <1>5
    <2> QED  BY <2>1, <2>2
  <1>6. CASE i \in 1 .. n
    <2>1. x.inside[i].act = "KEEP" /\ y.inside[i].sig = x.inside[i].sig
      BY <1>3, <1>6
    <2>2. x.inside[i].sig \in x.blocked  BY <1>6, <2>1 DEF Masked, n
    <2>3. ASSUME NEW j \in 1 .. n + 1, i < j
          PROVE  y.inside[i].sig \in y.inside[j].mask \ {y.inside[j].sig}
      <3>1. CASE j = n + 1  BY <1>3, <1>4, <2>1, <2>2, <3>1
      <3>2. CASE j \in 1 .. n
        <4>1. x.inside[i].sig \in x.inside[j].mask \ {x.inside[j].sig}
          BY <1>6, <2>1, <2>3, <3>2 DEF Masked, n
        <4> QED  BY <4>1, <1>3, <1>6, <3>2
      <3> QED  BY <1>3, <3>1, <3>2
    <2> QED  BY <2>1, <2>2, <2>3
  <1> QED  BY <1>3, <1>5, <1>6

(* The end of the topmost handler. *)
LEMMA RestorerMasked ==
    ASSUME NEW x \in TaskType, NEW y \in TaskType, Masked(x), Len(x.inside) > 0,
           y.inside = SubSeq(x.inside, 1, Len(x.inside) - 1),
           y.blocked = x.inside[Len(x.inside)].mask
    PROVE  Masked(y)
  <1> DEFINE n == Len(x.inside)
  <1>1. x.inside \in Seq(HandlerType)
    BY DEF TaskType
  <1>2. /\ n \in Nat \ {0} /\ Len(y.inside) = n - 1
        /\ \A i \in 1 .. n - 1 : y.inside[i] = x.inside[i]
    BY <1>1
  <1> SUFFICES ASSUME NEW i \in 1 .. n - 1, y.inside[i].act = "KEEP"
               PROVE  /\ y.inside[i].sig \in y.blocked
                      /\ \A j \in 1 .. n - 1 : i < j =>
                           y.inside[i].sig \in y.inside[j].mask \ {y.inside[j].sig}
    BY <1>2 DEF Masked
  <1>3. i \in 1 .. n /\ n \in 1 .. n /\ i < n  BY <1>2
  <1>4. \A j \in 1 .. n : i < j =>
            x.inside[i].sig \in x.inside[j].mask \ {x.inside[j].sig}
    BY <1>2, <1>3 DEF Masked
  <1>5. y.inside[i].sig \in y.blocked  BY <1>2, <1>3, <1>4
  <1> HIDE DEF n
  <1>6. ASSUME NEW j \in 1 .. n - 1, i < j
        PROVE  y.inside[i].sig \in y.inside[j].mask \ {y.inside[j].sig}
    <2>1. j \in 1 .. n  BY <1>2
    <2> QED  BY <2>1, <1>2, <1>4, <1>6
  <1> QED  BY <1>5, <1>6

(* sa_restorer ends the innermost handler and restores its mask. *)
LEMMA RestorerStep ==
    ASSUME ProcessAssumption, IInv, NEW p \in Slots, sa_restorer(p)
    PROVE  IInv'
  <1> DEFINE n == Len(task[p].inside)
             y == [task[p] EXCEPT !.inside = SubSeq(task[p].inside, 1, n - 1),
                                  !.blocked = task[p].inside[n].mask,
                                  !.pc = "ret"]
  <1>1. task[p] \in TaskType  BY DEF IInv, TypeOK
  <1>2. task[p].inside \in Seq(HandlerType)
    BY <1>1 DEF TaskType
  <1>3. /\ task[p].state = "RUNNING" /\ n > 0
        /\ last_pid' \in Pids /\ UNCHANGED badbad
    BY DEF sa_restorer, At, Used, IInv, TypeOK
  <1>4. p # 1  BY <1>3 DEF IInv, InitRuns
  <1>5. task' = [task EXCEPT ![p] = y]  BY DEF IInv, TypeOK, sa_restorer, Ret
  <1>6. /\ SubSeq(task[p].inside, 1, n - 1)
              \in Seq(HandlerType)
        /\ task[p].inside[n].mask \in SUBSET Signals
    <2>1. n \in Nat /\ n \in 1 .. n /\ 1 \in 1 .. n  BY <1>2, <1>3
    <2>2. task[p].inside[n] \in HandlerType  BY <1>2, <2>1
    <2>3. SubSeq(task[p].inside, 1, n - 1) \in Seq(HandlerType)  BY <1>2, <2>1
    <2> QED  BY <2>2, <2>3 DEF HandlerType
  <1>7. y \in TaskType  BY <1>1, <1>6 DEF TaskType
  <1>8. /\ y.pc = "ret" /\ y.state = "RUNNING" /\ y.pid = task[p].pid
        /\ y.father = task[p].father /\ y.session = task[p].session
        /\ y.leader = task[p].leader
        /\ y.inside = SubSeq(task[p].inside, 1, n - 1)
        /\ y.blocked = task[p].inside[n].mask
    BY <1>1, <1>3 DEF TaskType
  <1> HIDE DEF y
  <1>9. Masked(y)  BY <1>1, <1>3, <1>7, <1>8, RestorerMasked DEF IInv, Sound
  <1>10. Sound(y)  BY <1>3, <1>8, <1>9 DEF IInv, Sound
  <1> QED  BY <1>3, <1>4, <1>5, <1>7, <1>8, <1>10, OwnStep

(* The three outcomes of ret_from_sys_call that go back to user mode. *)
LEMMA DeliverStep ==
    ASSUME ProcessAssumption, IInv, NEW p \in Slots, ret_from_sys_call(p)
    PROVE  IInv' \/ (p # 1 /\ task' = Exiting(p))
  <1> DEFINE S == task[p].signal \ task[p].blocked
             sig == MinOf(S)
             act == task[p].act[sig]
             x == [task[p] EXCEPT !.signal = @ \ {sig}, !.pc = "user"]
  <1>1. task[p] \in TaskType  BY DEF IInv, TypeOK
  <1>2. /\ task[p].state = "RUNNING" /\ task[p].pc = "ret"
        /\ last_pid' \in Pids /\ UNCHANGED badbad
    BY DEF ret_from_sys_call, At, Used, IInv, TypeOK
  <1>3. S \in SUBSET Signals /\ (S # {} => sig \in S)
    <2>1. task[p].signal \in SUBSET Signals  BY <1>1 DEF TaskType
    <2>2. S \in SUBSET Signals  BY <2>1
    <2> HIDE DEF S
    <2> QED  BY <2>2, FirstSignal
  <1>4. p = 1 /\ S # {} => sig = SIGCHLD /\ act = "DFL"
    <2> SUFFICES ASSUME p = 1, S # {}
                 PROVE  sig = SIGCHLD /\ act = "DFL"
      OBVIOUS
    <2>1. task[1].signal \subseteq {SIGCHLD} /\ task[1].act = Default
      BY DEF IInv, InitRuns
    <2>2. sig \in S /\ sig \in Signals  BY <1>3
    <2> HIDE DEF sig
    <2>3. sig = SIGCHLD  BY <2>1, <2>2
    <2>4. Default[sig] = "DFL"  BY <2>2 DEF Default
    <2> QED  BY <2>1, <2>3, <2>4
  <1>5. CASE S = {} /\ task' = [task EXCEPT ![p].pc = "user"]
    <2> DEFINE y == [task[p] EXCEPT !.pc = "user"]
    <2>1. task' = [task EXCEPT ![p] = y]  BY <1>5
    <2>2. y \in TaskType  BY <1>1 DEF TaskType
    <2>3. /\ y.pc = "user"
          /\ y.state = "RUNNING" /\ y.pid = task[p].pid
          /\ y.father = task[p].father /\ y.pgrp = task[p].pgrp
          /\ y.session = task[p].session /\ y.leader = task[p].leader
          /\ y.signal = task[p].signal /\ y.blocked = task[p].blocked
          /\ y.act = task[p].act /\ y.inside = task[p].inside
      BY <1>1, <1>2 DEF TaskType
    <2> HIDE DEF y
    <2>4. Sound(y)  BY <2>3 DEF IInv, Sound, Masked
    <2>5. p = 1 => IsInit(y)  BY <2>3 DEF IInv, InitRuns, IsInit
    <2> QED  BY <1>2, <2>1, <2>2, <2>3, <2>4, <2>5, OwnStep
  <1>6. /\ x \in TaskType /\ x.pc = "user"
        /\ x.state = "RUNNING" /\ x.pid = task[p].pid
        /\ x.father = task[p].father /\ x.pgrp = task[p].pgrp
        /\ x.session = task[p].session /\ x.leader = task[p].leader
        /\ x.signal = task[p].signal \ {sig} /\ x.blocked = task[p].blocked
        /\ x.act = task[p].act /\ x.inside = task[p].inside
    BY <1>1, <1>2 DEF TaskType
  <1> HIDE DEF x
  <1>7. CASE S # {} /\ task' = [task EXCEPT ![p] = x]
    <2>1. Sound(x)  BY <1>6 DEF IInv, Sound, Masked
    <2>2. p = 1 => IsInit(x)  BY <1>6 DEF IInv, InitRuns, IsInit
    <2> QED  BY <1>2, <1>6, <1>7, <2>1, <2>2, OwnStep
  <1>8. CASE S # {} /\ act = "DFL" /\ sig # SIGCHLD /\ task' = Exiting(p)
    BY <1>4, <1>8
  <1>9. CASE /\ S # {} /\ act \in {"ONCE", "KEEP"}
             /\ task' = [task EXCEPT ![p] = Handle(x, sig)]
    <2> DEFINE new == [sig |-> sig, act |-> act, mask |-> x.blocked]
               I == Append(x.inside, new)
               B == x.blocked \cup sa_mask(act, sig)
               A == [x.act EXCEPT ![sig] = IF act = "ONCE" THEN "DFL" ELSE @]
               y == [x EXCEPT !.inside = I, !.blocked = B, !.act = A]
    <2>1. p # 1  BY <1>4, <1>9
    <2>2. sig \in Signals \ x.blocked /\ act \in Acts /\ act = x.act[sig]
      BY <1>1, <1>3, <1>6, <1>9 DEF TaskType
    <2> HIDE DEF S, sig, act
    <2>3. Handle(x, sig) = y  BY <2>2 DEF Handle
    <2>4. sa_mask(act, sig) \in SUBSET Signals  BY <2>2 DEF sa_mask
    <2>5. B \in SUBSET Signals  BY <1>6, <2>4 DEF TaskType
    <2>6. new \in HandlerType  BY <1>6, <2>2 DEF TaskType, HandlerType
    <2>7. I \in Seq(HandlerType)  BY <1>6, <2>6 DEF TaskType
    <2>8. A \in [Signals -> Acts]  BY <1>6, <2>2 DEF TaskType, Acts
    <2> HIDE DEF I, B, A
    <2>9. y \in TaskType  BY <1>6, <2>5, <2>7, <2>8 DEF TaskType
    <2>10. /\ y.pc = "user" /\ y.state = "RUNNING" /\ y.pid = task[p].pid
           /\ y.father = task[p].father /\ y.session = task[p].session
           /\ y.leader = task[p].leader /\ y.inside = I /\ y.blocked = B
      BY <1>6 DEF TaskType
    <2> HIDE DEF y
    <2>11. Masked(x)  BY <1>6 DEF IInv, Sound, Masked
    <2>12. Masked(y)
      BY <1>6, <2>2, <2>9, <2>10, <2>11, HandlerMasked DEF I, B
    <2>13. Sound(y)  BY <2>10, <2>12 DEF IInv, Sound
    <2> QED  BY <1>2, <1>9, <2>1, <2>3, <2>9, <2>10, <2>13, OwnStep
  <1> QED  BY <1>5, <1>7, <1>8, <1>9 DEF ret_from_sys_call, x

-----------------------------------------------------------------------------
(* kill() reaches init with SIGCHLD at most: init is in no group that      *)
(* anybody can name.                                                       *)
LEMMA KillStep ==
    ASSUME ProcessAssumption, IInv, NEW p \in Slots, NEW k \in Kills,
           sys_kill(p, k[1], k[2])
    PROVE  IInv'
  <1> DEFINE S == Targets(p, k[1])
             R == Raise(task, S, k[2])
  <1>1. /\ task[p].state = "RUNNING" /\ p # 1 /\ task[p].pc = "user"
        /\ task[p].pid # 0 /\ last_pid' \in Pids /\ UNCHANGED badbad
        /\ task' = Ret(R, p)
    BY DEF sys_kill, Calls, At, Used, IInv, TypeOK, ProcessAssumption
  <1>2. k[1] \in Int /\ k[2] \in Signals  BY DEF ProcessAssumption
  <1>3. 1 \in Slots  BY DEF Slots, ProcessAssumption
  <1>4. 1 \in S => k[2] = SIGCHLD
    <2>1. task[1].pid = 1 /\ task[1].pgrp = 0
      BY DEF IInv, InitRuns, INIT_PID
    <2>2. k[1] # 1 /\ (k[1] = -1 => k[2] = SIGCHLD)
      BY DEF ProcessAssumption, INIT_PID
    <2>3. CASE k[1] = 0  BY <1>1, <2>1, <2>3 DEF Targets
    <2>4. CASE k[1] > 0  BY <1>2, <2>1, <2>2, <2>4 DEF Targets
    <2>5. CASE k[1] = -1  BY <2>2, <2>5
    <2>6. CASE k[1] < -1
      <3>1. S = {i \in Used : task[i].pgrp = -k[1]}  BY <1>2, <2>6 DEF Targets
      <3>2. -k[1] # 0  BY <1>2, <2>6
      <3> QED  BY <3>1, <3>2, <2>1
    <2> QED  BY <1>2, <2>3, <2>4, <2>5, <2>6
  <1> HIDE DEF S
  <1>5. task \in [Slots -> TaskType]  BY DEF IInv, TypeOK
  <1>6. /\ R \in [Slots -> TaskType]
        /\ \A i \in Slots :
             /\ Alike(task[i], R[i]) /\ task[i].signal \subseteq R[i].signal
             /\ R[i].signal \subseteq task[i].signal \cup {k[2]}
             /\ i \notin S => R[i] = task[i]
    BY <1>2, <1>5, RaiseFields
  <1> HIDE DEF R
  <1>7. task' = [R EXCEPT ![p].pc = "ret"]  BY <1>1 DEF Ret
  <1>8. /\ \A i \in Slots \ {p} : task'[i] = R[i]
        /\ task'[p] = [R[p] EXCEPT !.pc = "ret"]
    BY <1>6, <1>7
  <1>9. R[p] \in TaskType  BY <1>6
  <1>10. /\ task'[p] \in TaskType /\ task'[p].pc = "ret"
         /\ task'[p].state = R[p].state /\ task'[p].pid = R[p].pid
         /\ task'[p].father = R[p].father /\ task'[p].session = R[p].session
         /\ task'[p].leader = R[p].leader /\ task'[p].blocked = R[p].blocked
         /\ task'[p].inside = R[p].inside
    BY <1>8, <1>9 DEF TaskType
  <1>11. TypeOK'  BY <1>1, <1>6, <1>7, <1>8, <1>10 DEF IInv, TypeOK
  <1>12. InitRuns'
    <2>1. task'[1] = R[1]  BY <1>1, <1>3, <1>8
    <2>2. R[1].signal \subseteq {SIGCHLD}
      BY <1>3, <1>4, <1>6 DEF IInv, InitRuns
    <2>3. Alike(task[1], R[1])  BY <1>3, <1>6
    <2> QED  BY <2>1, <2>2, <2>3 DEF IInv, InitRuns, Alike
  <1>13. \A i \in Slots : Sound(task[i])'
    <2> SUFFICES ASSUME NEW i \in Slots PROVE Sound(task'[i])  OBVIOUS
    <2>1. Sound(R[i])  BY <1>6, AlikeSound DEF IInv
    <2>2. CASE i # p  BY <1>8, <2>1, <2>2
    <2>3. CASE i = p
      <3>1. Alike(task[p], R[p])  BY <1>6
      <3>2. task'[p].state = "RUNNING"  BY <1>1, <1>10, <3>1 DEF Alike
      <3> QED  BY <1>10, <2>1, <2>3, <3>2 DEF Sound, Masked
    <2> QED  BY <2>2, <2>3
  <1>14. \A i \in Slots : Ordinary(task[i], task'[i])
    <2> SUFFICES ASSUME NEW i \in Slots PROVE Ordinary(task[i], task'[i])
      OBVIOUS
    <2>1. Alike(task[i], R[i]) /\ task[i].signal \subseteq R[i].signal  BY <1>6
    <2>2. CASE i # p  BY <1>8, <2>1, <2>2 DEF Alike, Ordinary
    <2>3. CASE i = p  BY <1>1, <1>10, <2>1, <2>3 DEF Alike, Ordinary
    <2> QED  BY <2>2, <2>3
  <1> QED  BY <1>1, <1>11, <1>12, <1>13, <1>14, OrdinaryStep

(* schedule() wakes those with a signal, and nothing else changes. *)
LEMMA ScheduleStep ==
    ASSUME ProcessAssumption, IInv, schedule PROVE IInv'
  <1>1. /\ task \in [Slots -> TaskType] /\ last_pid' \in Pids /\ UNCHANGED badbad
        /\ badbad \in BOOLEAN
    BY DEF IInv, TypeOK, schedule
  <1>2. ASSUME NEW i \in Slots
        PROVE  /\ task'[i] \in TaskType
               /\ task'[i].state \in {task[i].state, "RUNNING"}
               /\ task'[i].signal = task[i].signal
               /\ task'[i].pid = task[i].pid /\ task'[i].father = task[i].father
               /\ task'[i].pgrp = task[i].pgrp /\ task'[i].session = task[i].session
               /\ task'[i].leader = task[i].leader
               /\ task'[i].blocked = task[i].blocked /\ task'[i].act = task[i].act
               /\ task'[i].inside = task[i].inside /\ task'[i].pc = task[i].pc
               /\ task'[i].want = task[i].want
    <2>1. task'[i] = IF i \in Waking THEN [task[i] EXCEPT !.state = "RUNNING"]
                     ELSE task[i]
      BY DEF schedule
    <2>2. task[i] \in TaskType  BY <1>1
    <2>3. CASE i \in Waking
      <3>1. task'[i] = [task[i] EXCEPT !.state = "RUNNING"]  BY <2>1, <2>3
      <3> QED  BY <2>2, <3>1 DEF TaskType
    <2>4. CASE i \notin Waking
      <3>1. task'[i] = task[i]  BY <2>1, <2>4
      <3> QED  BY <2>2, <3>1 DEF TaskType
    <2> QED  BY <2>3, <2>4
  <1>3. TypeOK'
    <2>1. task' = [i \in Slots |-> task'[i]]  BY DEF schedule
    <2> QED  BY <1>1, <1>2, <2>1 DEF TypeOK
  <1>4. 1 \in Slots  BY DEF Slots, ProcessAssumption
  <1>5. InitRuns'  BY <1>2, <1>4 DEF IInv, InitRuns
  <1>6. \A i \in Slots : Sound(task[i])'
    <2> SUFFICES ASSUME NEW i \in Slots PROVE Sound(task'[i])  OBVIOUS
    <2>1. Sound(task[i])  BY DEF IInv
    <2> QED  BY <2>1, <1>2 DEF Sound, Masked
  <1>7. \A i \in Slots : Ordinary(task[i], task'[i])  BY <1>2 DEF Ordinary
  <1> QED  BY <1>1, <1>3, <1>5, <1>6, <1>7, OrdinaryStep

-----------------------------------------------------------------------------
(* The sleeper w and the zombie z are as they were, so w has been told. *)
LEMMA StillTold ==
    ASSUME IInv, NEW w \in Slots, NEW z \in Slots,
           task'[w].pc = "waitpid", task'[w].state = "INTERRUPTIBLE",
           w \in Used', z \in Zombies(task', w, task'[w].want),
           Ordinary(task[w], task'[w]), Ordinary(task[z], task'[z])
    PROVE  SIGCHLD \in task'[w].signal
  <1>1. z # w /\ task'[z].state = "ZOMBIE" /\ task'[z].pid # 0
        /\ task'[w].pid # 0
    BY DEF Zombies, Asked, Used
  <1>2. /\ task[w].pc = "waitpid" /\ task[w].state = "INTERRUPTIBLE"
        /\ task'[w].pgrp = task[w].pgrp /\ task'[w].want = task[w].want
        /\ SIGCHLD \in task[w].signal => SIGCHLD \in task'[w].signal
        /\ task'[w].pid = task[w].pid
        /\ task[z].state = "ZOMBIE" /\ task'[z].pgrp = task[z].pgrp
        /\ task'[z].pid = task[z].pid /\ task'[z].father = task[z].father
    BY <1>1 DEF Ordinary
  <1>3. z \in Zombies(task, w, task[w].want)
    BY <1>1, <1>2 DEF Zombies, Asked
  <1>4. w \in Used  BY <1>1, <1>2 DEF Used
  <1> QED  BY <1>2, <1>3, <1>4 DEF IInv, WaiterIsTold

(* fork: the child gets a pid that nobody has, and a father that runs. *)
LEMMA ForkStep ==
    ASSUME ProcessAssumption, IInv, NEW p \in Slots, sys_fork(p)
    PROVE  IInv'
  <1> DEFINE q == MinOf(FreeSlots)
             n == NextPid
             c == copy_process(p, n)
  <1>1. /\ task[p].state = "RUNNING" /\ task[p].pc = "user" /\ p \in Used
        /\ task[p].pid # 0 /\ UNCHANGED badbad /\ last_pid' = n
    BY DEF sys_fork, Calls, At, Used
  <1>2. n \in Pids /\ PidFree(n)  BY NextPidFree DEF IInv
  <1>3. CASE task' = Ret(task, p)  BY <1>1, <1>2, <1>3, ReturnStep
  <1>4. CASE FreeSlots # {} /\ task' = Ret([task EXCEPT ![q] = c], p)
    <2> HIDE DEF n
    <2>1. q \in Slots \ Used
      <3>1. FreeSlots \subseteq Nat  BY DEF FreeSlots, Slots
      <3> QED  BY <1>4, <3>1, MinOfIn DEF FreeSlots
    <2> HIDE DEF q
    <2>2. /\ q # p /\ q # 1 /\ task[q].pid = 0 /\ n # 0 /\ n \in Pids \cup {0}
      BY <1>1, <1>2, <2>1, SMT DEF IInv, InitRuns, Used, Pids, INIT_PID
    <2>3. /\ task \in [Slots -> TaskType] /\ task[p] \in TaskType  BY DEF IInv, TypeOK
    <2>4. /\ c \in TaskType /\ c.pid = n /\ c.father = task[p].pid
          /\ c.state = "RUNNING" /\ c.pc = "user" /\ ~c.leader
          /\ c.blocked = task[p].blocked /\ c.inside = task[p].inside
      <3>1. c = [task[p] EXCEPT !.pid = n, !.father = task[p].pid, !.signal = {},
                    !.leader = FALSE, !.pc = "user"]
        BY DEF copy_process
      <3> HIDE DEF c
      <3> QED  BY <1>1, <2>2, <2>3, <3>1 DEF TaskType
    <2> HIDE DEF c
    <2>20. task' = [task EXCEPT ![q] = c, ![p] = [task[p] EXCEPT !.pc = "ret"]]
      BY <1>4, <2>1, <2>2, <2>3 DEF Ret
    <2>21. task'[p] = [task[p] EXCEPT !.pc = "ret"]
      BY <2>1, <2>2, <2>3, <2>20
    <2>5. /\ task'[q] = c
          /\ \A i \in Slots \ {p, q} : task'[i] = task[i]
      BY <2>1, <2>2, <2>3, <2>20
    <2>6. /\ task'[p] \in TaskType /\ task'[p].pc = "ret"
          /\ task'[p].state = "RUNNING" /\ task'[p].pid = task[p].pid
          /\ task'[p].father = task[p].father /\ task'[p].pgrp = task[p].pgrp
          /\ task'[p].session = task[p].session
          /\ task'[p].leader = task[p].leader /\ task'[p].blocked = task[p].blocked
          /\ task'[p].inside = task[p].inside /\ task'[p].act = task[p].act
          /\ task'[p].signal = task[p].signal
      BY <1>1, <2>3, <2>21 DEF TaskType
    <2>7. TypeOK'
      BY <1>1, <1>2, <2>3, <2>4, <2>5, <2>6, <2>20, <2>21 DEF IInv, TypeOK
    <2>8. 1 \in Slots  BY DEF Slots, ProcessAssumption
    <2>9. InitRuns'
      <3>1. CASE p = 1  BY <2>6, <3>1 DEF IInv, InitRuns
      <3>2. CASE p # 1
        <4>1. task'[1] = task[1]  BY <2>2, <2>5, <2>8, <3>2
        <4> QED  BY <4>1 DEF IInv, InitRuns
      <3> QED  BY <3>1, <3>2
    <2>10. \A i \in Slots : Sound(task[i])'
      <3>1. Sound(task[p])  BY DEF IInv
      <3>2. Sound(task'[p]) /\ Sound(task'[q])
        BY <2>4, <2>5, <2>6, <3>1 DEF Sound, Masked
      <3>3. \A i \in Slots \ {p, q} : Sound(task'[i])  BY <2>5 DEF IInv
      <3> QED  BY <3>2, <3>3
    <2>11. Used' = Used \cup {q}
      <3>1. q \in Used'  BY <2>1, <2>2, <2>4, <2>5 DEF Used
      <3>2. \A i \in Slots \ {q} : i \in Used' <=> i \in Used
        BY <2>5, <2>6 DEF Used
      <3> QED  BY <3>1, <3>2 DEF Used
    <2>12. \A i \in Slots \ {q} : Ordinary(task[i], task'[i])
      BY <2>5, <2>6 DEF Ordinary
    <2>13. FatherCanWait'
      <3>1. \A i \in Used : i \in Slots \ {q} /\ task[i].pid # n
        BY <1>2, <2>1 DEF Used, PidFree
      <3>2. \A i, j \in Used' : i # j => task'[i].pid # task'[j].pid
        <4> SUFFICES ASSUME NEW i \in Used', NEW j \in Used', i # j
                     PROVE  task'[i].pid # task'[j].pid
          OBVIOUS
        <4>1. CASE i = q
          <5>1. j \in Used /\ task'[j].pid = task[j].pid
            BY <2>11, <2>12, <3>1, <4>1 DEF Ordinary
          <5> QED  BY <2>4, <2>5, <3>1, <4>1, <5>1
        <4>2. CASE j = q
          <5>1. i \in Used /\ task'[i].pid = task[i].pid
            BY <2>11, <2>12, <3>1, <4>2 DEF Ordinary
          <5> QED  BY <2>4, <2>5, <3>1, <4>2, <5>1
        <4>3. CASE i # q /\ j # q
          <5>1. /\ i \in Used /\ task'[i].pid = task[i].pid
                /\ j \in Used /\ task'[j].pid = task[j].pid
            BY <2>11, <2>12, <3>1, <4>3 DEF Ordinary
          <5> QED  BY <5>1 DEF IInv, FatherCanWait
        <4> QED  BY <4>1, <4>2, <4>3
      <3>3. \A i \in Used' \ {1} : \E f \in Used' :
              task'[f].pid = task'[i].father /\ task'[f].pc \notin {"exit", "zombie"}
        <4> SUFFICES ASSUME NEW i \in Used' \ {1}
            PROVE  \E f \in Used' : task'[f].pid = task'[i].father
                                    /\ task'[f].pc \notin {"exit", "zombie"}
          OBVIOUS
        <4>1. CASE i = q
          BY <1>1, <2>4, <2>5, <2>6, <2>11, <4>1
        <4>2. CASE i # q
          <5>1. i \in Used \ {1} /\ task'[i].father = task[i].father
            BY <2>11, <2>12, <3>1, <4>2 DEF Ordinary
          <5>2. PICK f \in Used : task[f].pid = task[i].father
                                  /\ task[f].pc \notin {"exit", "zombie"}
            BY <5>1 DEF IInv, FatherCanWait
          <5>3. task'[f].pid = task[f].pid /\ task'[f].pc \notin {"exit", "zombie"}
            BY <2>12, <3>1, <5>2 DEF Ordinary
          <5> QED  BY <2>11, <5>1, <5>2, <5>3
        <4> QED  BY <4>1, <4>2
      <3> QED  BY <1>1, <3>2, <3>3 DEF IInv, FatherCanWait
    <2>14. WaiterIsTold'
      <3> SUFFICES ASSUME NEW w \in Used', task'[w].pc = "waitpid",
                          task'[w].state = "INTERRUPTIBLE",
                          NEW z \in Zombies(task', w, task'[w].want)
                   PROVE  SIGCHLD \in task'[w].signal
        BY DEF WaiterIsTold
      <3>1. w \in Slots \ {q}  BY <2>4, <2>5 DEF Used
      <3>2. z \in Slots \ {q}  BY <2>4, <2>5 DEF Zombies, Asked
      <3> QED  BY <2>12, <3>1, <3>2, StillTold
    <2> QED  BY <2>7, <2>9, <2>10, <2>13, <2>14 DEF IInv
  <1> QED  BY <1>3, <1>4 DEF sys_fork

-----------------------------------------------------------------------------
(* The children of p after they were given to init. *)
LEMMA ReparentFields ==
    ASSUME ProcessAssumption, IInv, NEW p \in Slots
    PROVE  /\ Reparent(p) \in [Slots -> TaskType]
           /\ \A i \in Slots :
                /\ Alike(task[i], [Reparent(p)[i] EXCEPT !.father = task[i].father])
                /\ Reparent(p)[i].father =
                     IF i \in Used /\ task[i].father = task[p].pid
                     THEN INIT_PID ELSE task[i].father
                /\ task[i].signal \subseteq Reparent(p)[i].signal
                /\ Reparent(p)[i].signal \subseteq task[i].signal \cup {SIGCHLD}
           /\ (\E i \in Used : /\ task[i].father = task[p].pid
                               /\ task[i].state = "ZOMBIE")
                 => SIGCHLD \in Reparent(p)[1].signal
  <1> DEFINE mine == {i \in Used : task[i].father = task[p].pid}
             T == [i \in Slots |-> IF i \in mine
                     THEN [task[i] EXCEPT !.father = INIT_PID] ELSE task[i]]
             R == Raise(T, {1}, SIGCHLD)
             F == IF \E i \in mine : task[i].state = "ZOMBIE" THEN R ELSE T
  <1>1. Reparent(p) = F  BY DEF Reparent
  <1>2. INIT_PID \in Pids \cup {0} /\ SIGCHLD \in Signals /\ 1 \in Slots
    BY DEF INIT_PID, Pids, Signals, Slots, ProcessAssumption
  <1>3. ASSUME NEW i \in Slots
        PROVE  /\ T[i] \in TaskType /\ T[i].signal = task[i].signal
               /\ Alike(task[i], [T[i] EXCEPT !.father = task[i].father])
               /\ T[i].father = IF i \in mine THEN INIT_PID ELSE task[i].father
               /\ T[i].pc = task[i].pc
    <2>1. T[i] = IF i \in mine THEN [task[i] EXCEPT !.father = INIT_PID] ELSE task[i]
      OBVIOUS
    <2>2. task[i] \in TaskType  BY DEF IInv, TypeOK
    <2> HIDE DEF T, mine
    <2>3. CASE i \in mine
      <3>1. T[i] = [task[i] EXCEPT !.father = INIT_PID]  BY <2>1, <2>3
      <3> QED  BY <1>2, <2>2, <2>3, <3>1 DEF TaskType, Alike
    <2>4. CASE i \notin mine
      <3>1. T[i] = task[i]  BY <2>1, <2>4
      <3> QED  BY <2>2, <2>4, <3>1 DEF TaskType, Alike
    <2> QED  BY <2>3, <2>4
  <1>4. T \in [Slots -> TaskType]  BY <1>3
  <1> HIDE DEF T
  <1>5. /\ R \in [Slots -> TaskType]
        /\ \A i \in Slots :
             /\ Alike(T[i], R[i]) /\ T[i].signal \subseteq R[i].signal
             /\ R[i].signal \subseteq T[i].signal \cup {SIGCHLD}
             /\ i = 1 /\ T[i].pc \notin {"exit", "zombie"} => SIGCHLD \in R[i].signal
    BY <1>2, <1>4, RaiseFields
  <1> HIDE DEF R
  <1>6. ASSUME NEW i \in Slots
        PROVE  /\ Alike(task[i], [R[i] EXCEPT !.father = task[i].father])
               /\ R[i].father = IF i \in mine THEN INIT_PID ELSE task[i].father
    <2>1. R[i] \in TaskType /\ T[i] \in TaskType  BY <1>4, <1>5
    <2>2. Alike(T[i], R[i])  BY <1>5
    <2>3. /\ Alike(task[i], [T[i] EXCEPT !.father = task[i].father])
          /\ T[i].father = IF i \in mine THEN INIT_PID ELSE task[i].father
      BY <1>3
    <2> HIDE DEF mine
    <2> QED  BY <2>1, <2>2, <2>3 DEF Alike, TaskType
  <1>7. SIGCHLD \in R[1].signal
    <2>1. T[1].pc = task[1].pc  BY <1>2, <1>3
    <2>2. T[1].pc \notin {"exit", "zombie"}  BY <2>1 DEF IInv, InitRuns
    <2> QED  BY <1>2, <1>5, <2>2
  <1>8. F \in {R, T} /\ ((\E i \in mine : task[i].state = "ZOMBIE") => F = R)
    OBVIOUS
  <1> HIDE DEF F
  <1>9. \A i \in Slots :
          /\ Alike(task[i], [F[i] EXCEPT !.father = task[i].father])
          /\ F[i].father = IF i \in mine THEN INIT_PID ELSE task[i].father
          /\ task[i].signal \subseteq F[i].signal
          /\ F[i].signal \subseteq task[i].signal \cup {SIGCHLD}
    <2> HIDE DEF mine
    <2>1. CASE F = T  BY <1>3, <2>1
    <2>2. CASE F = R  BY <1>3, <1>5, <1>6, <2>2
    <2> QED  BY <1>8, <2>1, <2>2
  <1>10. F \in [Slots -> TaskType]  BY <1>4, <1>5, <1>8
  <1>11. (\E i \in mine : task[i].state = "ZOMBIE") => SIGCHLD \in F[1].signal
    BY <1>7, <1>8
  <1> QED  BY <1>1, <1>9, <1>10, <1>11

(* The first part of do_exit: nobody is left with a father that exits, and *)
(* init hears of the zombies it gets.                                      *)
LEMMA ExitStep ==
    ASSUME ProcessAssumption, IInv, NEW p \in Slots, p # 1, p \in Used,
           task[p].state = "RUNNING", task' = Exiting(p),
           UNCHANGED <<last_pid, badbad>>
    PROVE  IInv'
  <1> DEFINE G == Reparent(p)
             Mine(i) == i \in Used /\ task[i].father = task[p].pid
  <1>1. G \in [Slots -> TaskType]  BY ReparentFields
  <1>2. ASSUME NEW i \in Slots
        PROVE  /\ G[i] \in TaskType
               /\ G[i].pid = task[i].pid /\ G[i].pgrp = task[i].pgrp
               /\ G[i].session = task[i].session /\ G[i].leader = task[i].leader
               /\ G[i].state = task[i].state /\ G[i].blocked = task[i].blocked
               /\ G[i].act = task[i].act /\ G[i].inside = task[i].inside
               /\ G[i].pc = task[i].pc /\ G[i].want = task[i].want
               /\ G[i].father = IF Mine(i) THEN INIT_PID ELSE task[i].father
               /\ task[i].signal \subseteq G[i].signal
               /\ G[i].signal \subseteq task[i].signal \cup {SIGCHLD}
    <2>1. G[i] \in TaskType  BY <1>1
    <2>2. /\ Alike(task[i], [G[i] EXCEPT !.father = task[i].father])
          /\ G[i].father = IF Mine(i) THEN INIT_PID ELSE task[i].father
          /\ task[i].signal \subseteq G[i].signal
          /\ G[i].signal \subseteq task[i].signal \cup {SIGCHLD}
      BY ReparentFields
    <2> HIDE DEF G, Mine
    <2> QED  BY <2>1, <2>2 DEF Alike, TaskType
  <1>3. (\E i \in Used : Mine(i) /\ task[i].state = "ZOMBIE") => SIGCHLD \in G[1].signal
    BY ReparentFields
  <1> DEFINE y == [G[p] EXCEPT !.pc = "exit", !.signal = {}, !.blocked = {},
                               !.act = Default, !.inside = <<>>]
  <1>4. task' = [G EXCEPT ![p] = y]  BY DEF Exiting
  <1> HIDE DEF G
  <1>5. Default \in [Signals -> Acts] /\ <<>> \in Seq(HandlerType)
    BY DEF Default, Acts
  <1>6. y \in TaskType
    <2>1. G[p] \in TaskType  BY <1>2
    <2> QED  BY <1>5, <2>1 DEF TaskType
  <1>7. /\ y.pc = "exit" /\ y.inside = <<>> /\ y.pid = task[p].pid
        /\ y.father = G[p].father /\ y.state = "RUNNING"
        /\ y.leader = task[p].leader /\ y.session = task[p].session
    BY <1>2 DEF TaskType
  <1> HIDE DEF y
  <1>8. task'[p] = y /\ \A i \in Slots \ {p} : task'[i] = G[i]
    BY <1>1, <1>4
  <1>9. TypeOK'  BY <1>1, <1>4, <1>6 DEF IInv, TypeOK
  <1>10. 1 \in Slots \ {p}  BY DEF Slots, ProcessAssumption
  <1>11. InitRuns'
    <2>1. task'[1] = G[1]  BY <1>8, <1>10
    <2>2. G[1].signal \subseteq {SIGCHLD}  BY <1>2, <1>10 DEF IInv, InitRuns
    <2> QED  BY <1>2, <1>10, <2>1, <2>2 DEF IInv, InitRuns
  <1>12. \A i \in Slots : Sound(task[i])'
    <2> SUFFICES ASSUME NEW i \in Slots PROVE Sound(task'[i])  OBVIOUS
    <2>1. Sound(task[i])  BY DEF IInv
    <2>2. CASE i = p  BY <1>7, <1>8, <2>1, <2>2 DEF Sound, Masked
    <2>3. CASE i # p  BY <1>2, <1>8, <2>1, <2>3 DEF Sound, Masked
    <2> QED  BY <2>2, <2>3
  <1>13. \A i \in Slots : /\ task'[i].pid = task[i].pid
                          /\ task'[i].father = IF Mine(i) THEN INIT_PID ELSE task[i].father
    BY <1>2, <1>7, <1>8
  <1>14. Used' = Used  BY <1>13 DEF Used
  <1>15. 1 \in Used  BY <1>10 DEF IInv, InitRuns, Used, INIT_PID
  <1>16. FatherCanWait'
    <2>1. \A i, j \in Used : i # j => task'[i].pid # task'[j].pid
      BY <1>13 DEF IInv, FatherCanWait, Used
    <2>2. ASSUME NEW i \in Used \ {1}
          PROVE  \E f \in Used : task'[f].pid = task'[i].father
                                  /\ task'[f].pc \notin {"exit", "zombie"}
      <3>1. i \in Slots  BY DEF Used
      <3>2. CASE Mine(i)
        <4>1. task'[1].pid = task'[i].father
          BY <1>10, <1>13, <3>1, <3>2 DEF IInv, InitRuns
        <4>2. task'[1].pc \notin {"exit", "zombie"}  BY <1>11 DEF InitRuns
        <4> QED  BY <1>15, <4>1, <4>2
      <3>3. CASE ~Mine(i)
        <4>1. PICK f \in Used : task[f].pid = task[i].father
                                /\ task[f].pc \notin {"exit", "zombie"}
          BY DEF IInv, FatherCanWait
        <4>2. f \in Slots \ {p}  BY <3>3, <4>1 DEF Used
        <4>3. task'[f].pc = task[f].pc  BY <1>2, <1>8, <4>2
        <4> QED  BY <1>13, <3>1, <3>3, <4>1, <4>2, <4>3
      <3> QED  BY <3>2, <3>3
    <2> QED  BY <1>14, <2>1, <2>2 DEF IInv, FatherCanWait
  <1>17. WaiterIsTold'
    <2> SUFFICES ASSUME NEW w \in Used', task'[w].pc = "waitpid",
                        task'[w].state = "INTERRUPTIBLE",
                        NEW z \in Zombies(task', w, task'[w].want)
                 PROVE  SIGCHLD \in task'[w].signal
      BY DEF WaiterIsTold
    <2>1. /\ w \in Slots \ {p} /\ w \in Used
          /\ z \in Slots \ {p} /\ z \in Used
      BY <1>7, <1>8, <1>13, <1>14 DEF Used, Zombies, Asked
    <2>2. task'[z].state = "ZOMBIE" /\ task'[z].father = task'[w].pid
      BY DEF Zombies, Asked
    <2>3. task[z].state = "ZOMBIE"  BY <1>2, <1>8, <2>1, <2>2
    <2>4. CASE Mine(z)
      <3>1. task[w].pid = INIT_PID  BY <1>13, <2>1, <2>2, <2>4
      <3>2. w = 1  BY <1>15, <2>1, <3>1 DEF IInv, InitRuns, FatherCanWait
      <3>3. SIGCHLD \in G[1].signal  BY <1>3, <2>1, <2>3, <2>4
      <3> QED  BY <1>8, <1>10, <3>2, <3>3
    <2>5. CASE ~Mine(z)
      <3>1. Ordinary(task[z], task'[z])
        BY <1>2, <1>8, <1>13, <2>1, <2>5 DEF Ordinary
      <3>2. CASE ~Mine(w)
        <4>1. Ordinary(task[w], task'[w])
          BY <1>2, <1>8, <1>13, <2>1, <3>2 DEF Ordinary
        <4> QED  BY <2>1, <3>1, <4>1, StillTold
      <3>3. CASE Mine(w)
        <4>1. /\ task[w].pc = "waitpid" /\ task[w].state = "INTERRUPTIBLE"
              /\ task'[w].want = task[w].want /\ task'[w].pgrp = task[w].pgrp
              /\ task'[w].pid = task[w].pid
              /\ task[w].signal \subseteq task'[w].signal
          BY <1>2, <1>8, <2>1
        <4>2. /\ task'[z].pgrp = task[z].pgrp /\ task'[z].pid = task[z].pid
              /\ task'[z].father = task[z].father
          BY <2>2, <3>1 DEF Ordinary
        <4>3. z \in Zombies(task, w, task[w].want)
          BY <2>1, <2>3, <4>1, <4>2 DEF Zombies, Asked
        <4>4. SIGCHLD \in task[w].signal
          BY <2>1, <4>1, <4>3 DEF IInv, WaiterIsTold
        <4> QED  BY <4>1, <4>4
      <3> QED  BY <3>2, <3>3
    <2> QED  BY <2>4, <2>5
  <1> QED  BY <1>9, <1>11, <1>12, <1>16, <1>17 DEF IInv

(* The rest of do_exit: p has a father, who is told. *)
LEMMA ZombieStep ==
    ASSUME ProcessAssumption, IInv, NEW p \in Slots, do_exit(p)
    PROVE  IInv'
  <1> DEFINE hup == Raise(task, Session(p), SIGHUP)
             gone == [hup EXCEPT ![p].state = "ZOMBIE", ![p].pc = "zombie"]
             R == Raise(gone, tell_father(p), SIGCHLD)
  <1>1. /\ p \in Used /\ task[p].state = "RUNNING" /\ task[p].pc = "exit"
        /\ last_pid' = last_pid /\ task \in [Slots -> TaskType]
    BY DEF do_exit, At, IInv, TypeOK
  <1>2. p # 1  BY <1>1 DEF IInv, InitRuns
  <1>3. PICK f \in Used : task[f].pid = task[p].father
                          /\ task[f].pc \notin {"exit", "zombie"}
    BY <1>1, <1>2 DEF IInv, FatherCanWait
  <1>4. task' = R /\ UNCHANGED badbad
    <2>1. task[p].father # 0  BY <1>3 DEF Used
    <2> QED  BY <1>3, <2>1 DEF do_exit
  <1>5. SIGHUP \in Signals /\ SIGCHLD \in Signals /\ 1 \in Slots
    BY DEF Signals, Slots, ProcessAssumption
  <1>6. 1 \notin Session(p)
    <2>1. task[p].leader => task[p].session # 0  BY DEF IInv, Sound
    <2> QED  BY <2>1 DEF Session, IInv, InitRuns
  <1>7. /\ hup \in [Slots -> TaskType]
        /\ \A i \in Slots : /\ Alike(task[i], hup[i])
                            /\ task[i].signal \subseteq hup[i].signal
                            /\ i \notin Session(p) => hup[i] = task[i]
    BY <1>1, <1>5, RaiseFields
  <1>8. hup[1] = task[1]  BY <1>5, <1>6, <1>7
  <1> HIDE DEF hup
  <1> DEFINE y == [hup[p] EXCEPT !.state = "ZOMBIE", !.pc = "zombie"]
  <1>9. /\ gone = [hup EXCEPT ![p] = y] /\ gone[p] = y
        /\ \A i \in Slots \ {p} : gone[i] = hup[i]
    BY <1>7
  <1>10. /\ y \in TaskType /\ y.state = "ZOMBIE" /\ y.pc = "zombie"
         /\ y.pid = hup[p].pid /\ y.father = hup[p].father
         /\ y.session = hup[p].session /\ y.leader = hup[p].leader
         /\ y.blocked = hup[p].blocked /\ y.inside = hup[p].inside
    <2>1. hup[p] \in TaskType  BY <1>7
    <2> QED  BY <2>1 DEF TaskType
  <1> HIDE DEF y
  <1>11. gone \in [Slots -> TaskType]  BY <1>7, <1>9, <1>10
  <1> HIDE DEF gone
  <1>12. /\ R \in [Slots -> TaskType]
         /\ \A i \in Slots :
              /\ Alike(gone[i], R[i]) /\ gone[i].signal \subseteq R[i].signal
              /\ R[i].signal \subseteq gone[i].signal \cup {SIGCHLD}
              /\ i \in tell_father(p) /\ gone[i].pc \notin {"exit", "zombie"}
                    => SIGCHLD \in R[i].signal
    BY <1>5, <1>11, RaiseFields
  <1> HIDE DEF R
  <1>13. TypeOK'  BY <1>1, <1>4, <1>12 DEF IInv, TypeOK
  <1>14. ASSUME NEW i \in Slots \ {p}
         PROVE  Alike(task[i], task'[i]) /\ task[i].signal \subseteq task'[i].signal
    BY <1>4, <1>7, <1>9, <1>12 DEF Alike
  <1>15. /\ task'[p].state = "ZOMBIE" /\ task'[p].pc = "zombie"
         /\ task'[p].pid = task[p].pid /\ task'[p].father = task[p].father
         /\ task'[p].session = task[p].session /\ task'[p].leader = task[p].leader
         /\ task'[p].blocked = task[p].blocked /\ task'[p].inside = task[p].inside
    BY <1>4, <1>7, <1>9, <1>10, <1>12 DEF Alike
  <1>16. InitRuns'
    <2>1. gone[1] = task[1]  BY <1>2, <1>5, <1>8, <1>9
    <2>2. task'[1].signal \subseteq {SIGCHLD}
      BY <1>4, <1>5, <1>12, <2>1 DEF IInv, InitRuns
    <2>3. Alike(task[1], task'[1])  BY <1>2, <1>5, <1>14
    <2> QED  BY <2>2, <2>3 DEF IInv, InitRuns, Alike
  <1>17. \A i \in Slots : Sound(task[i])'
    <2> SUFFICES ASSUME NEW i \in Slots PROVE Sound(task'[i])  OBVIOUS
    <2>1. Sound(task[i])  BY DEF IInv
    <2>2. CASE i = p  BY <1>15, <2>1, <2>2 DEF Sound, Masked
    <2>3. CASE i # p  BY <1>14, <2>1, <2>3, AlikeSound
    <2> QED  BY <2>2, <2>3
  <1>18. \A i \in Slots : task'[i].pid = task[i].pid /\ task'[i].father = task[i].father
    BY <1>14, <1>15 DEF Alike
  <1>19. Used' = Used  BY <1>18 DEF Used
  <1>20. \A i \in Slots \ {p} : Ordinary(task[i], task'[i])
    BY <1>14 DEF Alike, Ordinary
  <1>21. FatherCanWait'
    <2>1. \A i, j \in Used : i # j => task'[i].pid # task'[j].pid
      BY <1>18 DEF IInv, FatherCanWait, Used
    <2>2. ASSUME NEW i \in Used \ {1}
          PROVE  \E g \in Used : task'[g].pid = task'[i].father
                                  /\ task'[g].pc \notin {"exit", "zombie"}
      <3>1. PICK g \in Used : task[g].pid = task[i].father
                              /\ task[g].pc \notin {"exit", "zombie"}
        BY DEF IInv, FatherCanWait
      <3>2. g \in Slots \ {p} /\ i \in Slots  BY <1>1, <3>1 DEF Used
      <3>3. task'[g].pc \notin {"exit", "zombie"}
        BY <1>20, <3>1, <3>2 DEF Ordinary
      <3> QED  BY <1>18, <3>1, <3>2, <3>3
    <2> QED  BY <1>4, <1>19, <2>1, <2>2 DEF IInv, FatherCanWait
  <1>22. WaiterIsTold'
    <2> SUFFICES ASSUME NEW w \in Used', task'[w].pc = "waitpid",
                        task'[w].state = "INTERRUPTIBLE",
                        NEW z \in Zombies(task', w, task'[w].want)
                 PROVE  SIGCHLD \in task'[w].signal
      BY DEF WaiterIsTold
    <2>1. w \in Slots \ {p} /\ w \in Used /\ z \in Slots
      BY <1>15, <1>19 DEF Used, Zombies, Asked
    <2>2. CASE z # p  BY <1>20, <2>1, <2>2, StillTold
    <2>3. CASE z = p
      <3>1. task[p].father = task[w].pid
        BY <1>18, <2>1, <2>3 DEF Zombies, Asked
      <3>2. w \in tell_father(p)  BY <2>1, <3>1 DEF tell_father
      <3>3. gone[w].pc = "waitpid"
        BY <1>4, <1>12, <2>1 DEF Alike
      <3> QED  BY <1>4, <1>12, <2>1, <3>2, <3>3
    <2> QED  BY <2>2, <2>3
  <1> QED  BY <1>13, <1>16, <1>17, <1>21, <1>22 DEF IInv

-----------------------------------------------------------------------------
(* The search of waitpid, by a process whose record is x.  It sleeps only  *)
(* when none of the children it asked for is a zombie.                     *)
LEMMA SearchStep ==
    ASSUME ProcessAssumption, IInv, NEW p \in Slots, p \in Used,
           task[p].state = "RUNNING", task[p].pc \in {"user", "waitpid"},
           NEW x \in TaskType, Alike(task[p], x), x.signal \subseteq task[p].signal,
           NEW want \in Wants \cup {0, -1}, NEW nohang \in BOOLEAN,
           task' = Search([task EXCEPT ![p] = x], p, want, nohang),
           UNCHANGED <<last_pid, badbad>>
    PROVE  IInv'
  <1> DEFINE T == [task EXCEPT ![p] = x]
             Z == Zombies(T, p, want)
             y == [x EXCEPT !.want = 0, !.pc = "ret"]
             s == [x EXCEPT !.state = "INTERRUPTIBLE", !.pc = "waitpid", !.want = want]
  <1>1. /\ task \in [Slots -> TaskType] /\ T \in [Slots -> TaskType] /\ T[p] = x
        /\ \A i \in Slots \ {p} : T[i] = task[i]
    BY DEF IInv, TypeOK
  <1> HIDE DEF T
  <1>2. /\ y \in TaskType /\ y.pid = task[p].pid /\ y.father = task[p].father
        /\ y.state = "RUNNING" /\ y.pc = "ret" /\ y.pgrp = task[p].pgrp
        /\ y.session = task[p].session /\ y.leader = task[p].leader
        /\ y.blocked = task[p].blocked /\ y.inside = task[p].inside
        /\ y.act = task[p].act /\ y.signal \subseteq task[p].signal
    BY DEF TaskType, Alike
  <1>3. /\ s \in TaskType /\ s.pid = task[p].pid /\ s.father = task[p].father
        /\ s.state = "INTERRUPTIBLE" /\ s.pc = "waitpid" /\ s.pgrp = x.pgrp
        /\ s.pgrp = task[p].pgrp /\ s.want = want
        /\ s.session = task[p].session /\ s.leader = task[p].leader
        /\ s.blocked = task[p].blocked /\ s.inside = task[p].inside
        /\ s.act = task[p].act /\ s.signal \subseteq task[p].signal
    BY DEF TaskType, Alike
  <1>4. Sound(task[p])  BY DEF IInv
  <1>5. Sound(y) /\ (p = 1 => IsInit(y))
    BY <1>2, <1>4 DEF Sound, Masked, IInv, InitRuns, IsInit
  <1>6. Sound(s) /\ (p = 1 => IsInit(s))
    BY <1>3, <1>4 DEF Sound, Masked, IInv, InitRuns, IsInit
  <1>7. 1 \in Slots  BY DEF Slots, ProcessAssumption
  <1>8. CASE Z # {} /\ task' = Ret([T EXCEPT ![MaxOf(Z)] = NoTask, ![p].want = 0], p)
    <2> DEFINE d == MaxOf(Z)
    <2>1. d \in Z
      <3>1. Z \subseteq Slots  BY DEF Zombies, Asked
      <3> HIDE DEF Z
      <3> QED  BY <1>8, <3>1, MaxOfIn
    <2> HIDE DEF d
    <2>2. d \in Slots \ {p} /\ task[d].state = "ZOMBIE"
      BY <1>1, <2>1 DEF Zombies, Asked
    <2>3. task[d].pc = "zombie" /\ d # 1
      BY <2>2 DEF IInv, Sound, InitRuns
    <2>4. task' = [T EXCEPT ![d] = NoTask, ![p] = y]
      <3> HIDE DEF Z
      <3> QED  BY <1>1, <1>8, <2>2 DEF Ret, d
    <2> HIDE DEF y
    <2>5. /\ task'[d] = NoTask /\ task'[p] = y
          /\ \A i \in Slots \ {p, d} : task'[i] = task[i]
      BY <1>1, <2>2, <2>4
    <2>6. /\ NoTask \in TaskType /\ NoTask.pid = 0 /\ NoTask.state = "RUNNING"
          /\ NoTask.pc = "user" /\ ~NoTask.leader /\ NoTask.inside = <<>>
      <3>1. Default \in [Signals -> Acts] /\ <<>> \in Seq(HandlerType)
        BY DEF Default, Acts
      <3> QED  BY <3>1 DEF NoTask, Task, TaskType
    <2> HIDE DEF NoTask
    <2>7. TypeOK'  BY <1>1, <1>2, <2>4, <2>6 DEF IInv, TypeOK
    <2>8. InitRuns'
      <3>1. CASE p = 1  BY <1>5, <2>5, <3>1 DEF IsInit, InitRuns
      <3>2. CASE p # 1
        <4>1. task'[1] = task[1]  BY <1>7, <2>3, <2>5, <3>2
        <4> QED  BY <4>1 DEF IInv, InitRuns
      <3> QED  BY <3>1, <3>2
    <2>9. \A i \in Slots : Sound(task[i])'
      <3>1. Sound(NoTask)  BY <2>6 DEF Sound, Masked
      <3>2. \A i \in Slots \ {p, d} : Sound(task'[i])  BY <2>5 DEF IInv
      <3> QED  BY <1>5, <2>5, <3>1, <3>2
    <2>10. \A i \in Slots \ {d} : Ordinary(task[i], task'[i])
      <3>1. Ordinary(task[p], task'[p])
        <4>1. task'[p] = y  BY <2>5
        <4> QED  BY <1>2, <4>1 DEF Ordinary
      <3>2. \A i \in Slots \ {p, d} : Ordinary(task[i], task'[i])
        BY <2>5 DEF Ordinary
      <3> QED  BY <3>1, <3>2
    <2>11. Used' = Used \ {d}
      <3>1. d \notin Used'  BY <2>5, <2>6 DEF Used
      <3>2. \A i \in Slots \ {d} : i \in Used' <=> i \in Used
        BY <2>10 DEF Used, Ordinary
      <3> QED  BY <3>1, <3>2 DEF Used
    <2>12. \A i \in Used' : i \in Used /\ i \in Slots \ {d}
      BY <2>11 DEF Used
    <2>13. FatherCanWait'
      <3>1. \A i, j \in Used' : i # j => task'[i].pid # task'[j].pid
        <4>1. \A i \in Used' : i \in Used /\ task'[i].pid = task[i].pid
          BY <2>10, <2>12 DEF Ordinary
        <4>2. \A i, j \in Used : i # j => task[i].pid # task[j].pid
          BY DEF IInv, FatherCanWait
        <4>3. ASSUME NEW i \in Used', NEW j \in Used', i # j
              PROVE  task'[i].pid # task'[j].pid
          <5>1. i \in Used /\ task'[i].pid = task[i].pid  BY <4>1
          <5>2. j \in Used /\ task'[j].pid = task[j].pid  BY <4>1
          <5> QED  BY <4>2, <4>3, <5>1, <5>2
        <4> QED  BY <4>3
      <3>2. ASSUME NEW i \in Used' \ {1}
            PROVE  \E f \in Used' : task'[f].pid = task'[i].father
                                    /\ task'[f].pc \notin {"exit", "zombie"}
        <4>1. PICK f \in Used : task[f].pid = task[i].father
                                /\ task[f].pc \notin {"exit", "zombie"}
          BY <2>12 DEF IInv, FatherCanWait
        <4>2. f \in Used' /\ f \in Slots \ {d}  BY <2>3, <2>11, <4>1 DEF Used
        <4>3. /\ task'[f].pid = task[f].pid /\ task'[f].pc \notin {"exit", "zombie"}
              /\ task'[i].father = task[i].father
          BY <2>10, <2>12, <4>1, <4>2 DEF Ordinary
        <4> QED  BY <4>1, <4>2, <4>3
      <3> QED  BY <3>1, <3>2 DEF IInv, FatherCanWait
    <2>14. WaiterIsTold'
      <3> SUFFICES ASSUME NEW w \in Used', task'[w].pc = "waitpid",
                          task'[w].state = "INTERRUPTIBLE",
                          NEW z \in Zombies(task', w, task'[w].want)
                   PROVE  SIGCHLD \in task'[w].signal
        BY DEF WaiterIsTold
      <3>1. z \in Slots \ {d}  BY <2>5, <2>6 DEF Zombies, Asked
      <3> QED  BY <2>10, <2>12, <3>1, StillTold
    <2> QED  BY <2>7, <2>8, <2>9, <2>13, <2>14 DEF IInv
  <1>9. CASE /\ Z = {}
             /\ task' = [T EXCEPT ![p].state = "INTERRUPTIBLE",
                                  ![p].pc = "waitpid", ![p].want = want]
    <2>1. task' = [T EXCEPT ![p] = s]  BY <1>1, <1>9
    <2> HIDE DEF s
    <2>2. task'[p] = s /\ \A i \in Slots \ {p} : task'[i] = task[i]
      BY <1>1, <2>1
    <2>3. TypeOK'  BY <1>1, <1>3, <2>1 DEF IInv, TypeOK
    <2>4. InitRuns'
      <3>1. CASE p = 1  BY <1>6, <2>2, <3>1 DEF IsInit, InitRuns
      <3>2. CASE p # 1
        <4>1. task'[1] = task[1]  BY <1>7, <2>2, <3>2
        <4> QED  BY <4>1 DEF IInv, InitRuns
      <3> QED  BY <3>1, <3>2
    <2>5. \A i \in Slots : Sound(task[i])'  BY <1>6, <2>2 DEF IInv
    <2>6. \A i \in Slots : task'[i].pid = task[i].pid /\ task'[i].father = task[i].father
      BY <1>3, <2>2
    <2>7. Used' = Used  BY <2>6 DEF Used
    <2>8. \A i \in Slots : task'[i].pc \in {"exit", "zombie"}
                              => task[i].pc \in {"exit", "zombie"}
      BY <1>3, <2>2
    <2>9. FatherCanWait'
      <3>1. \A i, j \in Used : i # j => task'[i].pid # task'[j].pid
        <4>1. \A i \in Used : task'[i].pid = task[i].pid  BY <2>6 DEF Used
        <4>2. \A i, j \in Used : i # j => task[i].pid # task[j].pid
          BY DEF IInv, FatherCanWait
        <4> QED  BY <4>1, <4>2
      <3>2. ASSUME NEW i \in Used \ {1}
            PROVE  \E f \in Used : task'[f].pid = task'[i].father
                                    /\ task'[f].pc \notin {"exit", "zombie"}
        <4>1. PICK f \in Used : task[f].pid = task[i].father
                                /\ task[f].pc \notin {"exit", "zombie"}
          BY DEF IInv, FatherCanWait
        <4>2. f \in Slots /\ i \in Slots  BY DEF Used
        <4> QED  BY <2>6, <2>8, <4>1, <4>2
      <3> QED  BY <2>7, <3>1, <3>2 DEF IInv, FatherCanWait
    <2>10. WaiterIsTold'
      <3> SUFFICES ASSUME NEW w \in Used', task'[w].pc = "waitpid",
                          task'[w].state = "INTERRUPTIBLE",
                          NEW z \in Zombies(task', w, task'[w].want)
                   PROVE  SIGCHLD \in task'[w].signal
        BY DEF WaiterIsTold
      <3>1. w \in Slots /\ z \in Slots \ {w} /\ task'[z].state = "ZOMBIE"
        BY DEF Used, Zombies, Asked
      <3>2. z # p  BY <1>3, <2>2, <3>1
      <3>3. CASE w = p
        <4>0. T[p].pid = task[p].pid /\ T[p].pgrp = task[p].pgrp
          BY <1>1 DEF Alike
        <4>3. task'[z] = T[z]  BY <1>1, <2>2, <3>1, <3>2
        <4>1. task'[z] = T[z] /\ task'[p].want = want /\ task'[p].pid = T[p].pid
              /\ task'[p].pgrp = T[p].pgrp
          BY <1>3, <2>2, <4>0, <4>3
        <4>2. z \in Zombies(T, p, want)
          BY <3>1, <3>3, <4>1 DEF Zombies, Asked
        <4> QED  BY <1>9, <4>2
      <3>4. CASE w # p
        <4>1. task'[w] = task[w] /\ task'[z] = task[z]  BY <2>2, <3>1, <3>2, <3>4
        <4>2. Ordinary(task[w], task'[w]) /\ Ordinary(task[z], task'[z])
          BY <4>1 DEF Ordinary
        <4> QED  BY <3>1, <4>2, StillTold
      <3> QED  BY <3>3, <3>4
    <2> QED  BY <2>3, <2>4, <2>5, <2>9, <2>10 DEF IInv
  <1>10. CASE task' = Ret([T EXCEPT ![p].want = 0], p)
    <2>1. task' = [T EXCEPT ![p] = y]  BY <1>1, <1>10 DEF Ret
    <2> HIDE DEF y
    <2>2. task' = [task EXCEPT ![p] = y]  BY <1>1, <2>1 DEF T
    <2> QED  BY <1>2, <1>5, <2>2, OwnStep DEF IInv, TypeOK
  <1> QED  BY <1>8, <1>9, <1>10 DEF Search, T

(* sys_waitpid, when it is called, ... *)
LEMMA WaitpidStep ==
    ASSUME ProcessAssumption, IInv, NEW p \in Slots,
           NEW want \in Wants \cup {0, -1}, NEW nohang \in BOOLEAN,
           sys_waitpid(p, want, nohang)
    PROVE  IInv'
  <1>1. /\ p \in Used /\ task[p].state = "RUNNING" /\ task[p].pc = "user"
        /\ task' = Search(task, p, want, nohang) /\ UNCHANGED <<last_pid, badbad>>
    BY DEF sys_waitpid, Calls, At
  <1>2. task[p] \in TaskType /\ task = [task EXCEPT ![p] = task[p]]
    BY DEF IInv, TypeOK
  <1>3. Alike(task[p], task[p])  BY DEF Alike
  <1>4. task' = Search([task EXCEPT ![p] = task[p]], p, want, nohang)
    BY <1>1, <1>2
  <1> QED  BY <1>1, <1>2, <1>3, <1>4, SearchStep

(* ... and when it goes on after its sleep *)
LEMMA WaitpidWakesStep ==
    ASSUME ProcessAssumption, IInv, NEW p \in Slots, WaitpidWakes(p)
    PROVE  IInv'
  <1> DEFINE x == [task[p] EXCEPT !.signal = @ \ {SIGCHLD}]
             T == [task EXCEPT ![p].signal = @ \ {SIGCHLD}]
             y == [x EXCEPT !.want = 0, !.pc = "ret"]
  <1>1. /\ p \in Used /\ task[p].state = "RUNNING" /\ task[p].pc = "waitpid"
        /\ UNCHANGED <<last_pid, badbad>> /\ last_pid \in Pids
        /\ task' = IF T[p].signal = {} THEN Search(T, p, T[p].want, FALSE)
                   ELSE Ret([T EXCEPT ![p].want = 0], p)
    BY DEF WaitpidWakes, At, IInv, TypeOK
  <1>2. task \in [Slots -> TaskType] /\ task[p] \in TaskType  BY DEF IInv, TypeOK
  <1>3. /\ x \in TaskType /\ Alike(task[p], x) /\ x.signal \subseteq task[p].signal
        /\ x.want \in Wants \cup {0, -1}
    BY <1>2 DEF TaskType, Alike
  <1>4. T = [task EXCEPT ![p] = x] /\ T[p] = x  BY <1>2
  <1> HIDE DEF T, x
  <1>5. CASE task' = Search(T, p, T[p].want, FALSE)
    <2>1. task' = Search([task EXCEPT ![p] = x], p, x.want, FALSE)
      BY <1>4, <1>5
    <2> QED  BY <1>1, <1>3, <2>1, SearchStep
  <1>6. CASE task' = Ret([T EXCEPT ![p].want = 0], p)
    <2>1. task' = [task EXCEPT ![p] = y]  BY <1>2, <1>4, <1>6 DEF Ret
    <2>2. /\ y \in TaskType /\ y.pid = task[p].pid /\ y.father = task[p].father
          /\ y.state = "RUNNING" /\ y.pc = "ret" /\ y.pgrp = task[p].pgrp
          /\ y.session = task[p].session /\ y.leader = task[p].leader
          /\ y.blocked = task[p].blocked /\ y.inside = task[p].inside
          /\ y.act = task[p].act /\ y.signal \subseteq task[p].signal
      BY <1>1, <1>3 DEF TaskType, Alike
    <2> HIDE DEF y
    <2>3. Sound(task[p])  BY DEF IInv
    <2>4. Sound(y) /\ (p = 1 => IsInit(y))
      BY <2>2, <2>3 DEF Sound, Masked, IInv, InitRuns, IsInit
    <2> QED  BY <1>1, <2>1, <2>2, <2>4, OwnStep
  <1> QED  BY <1>1, <1>5, <1>6

-----------------------------------------------------------------------------
(* Init is running, and nobody else. *)
LEMMA InitIInv == ASSUME ProcessAssumption, Init PROVE IInv
  <1>1. 1 \in Slots /\ INIT_PID \in Pids
    BY DEF Slots, Pids, INIT_PID, ProcessAssumption
  <1>2. Default \in [Signals -> Acts] /\ <<>> \in Seq(HandlerType)
    BY DEF Default, Acts
  <1>3. Task(INIT_PID, 0) \in TaskType /\ NoTask \in TaskType
    BY <1>1, <1>2 DEF NoTask, Task, TaskType
  <1>4. \A i \in Slots : task[i] = IF i = 1 THEN Task(INIT_PID, 0) ELSE NoTask
    BY DEF Init
  <1>5. TypeOK  BY <1>1, <1>3 DEF Init, TypeOK
  <1>6. InitRuns  BY <1>1, <1>4 DEF InitRuns, Task
  <1>7. \A i \in Slots : Sound(task[i])
    <2>1. Sound(Task(INIT_PID, 0)) /\ Sound(NoTask)
      BY DEF Sound, Masked, NoTask, Task
    <2> QED  BY <1>4, <2>1
  <1>8. Used = {1}
    <2>1. task[1].pid # 0  BY <1>6 DEF InitRuns, INIT_PID
    <2>2. \A i \in Slots \ {1} : task[i].pid = 0  BY <1>4 DEF NoTask, Task
    <2> QED  BY <1>1, <2>1, <2>2 DEF Used
  <1>9. FatherCanWait  BY <1>8 DEF FatherCanWait, Init
  <1>10. WaiterIsTold
    <2>1. task[1].pc = "user"  BY <1>1, <1>4 DEF Task
    <2> QED  BY <1>8, <2>1 DEF WaiterIsTold
  <1> QED  BY <1>5, <1>6, <1>7, <1>9, <1>10 DEF IInv

(* Every step keeps the invariant. *)
LEMMA StepIInv == ASSUME ProcessAssumption, IInv, [Next]_vars PROVE IInv'
  <1>1. CASE UNCHANGED vars
    BY <1>1 DEF vars, IInv, TypeOK, InitRuns, Sound, Masked, FatherCanWait, Used,
                WaiterIsTold, Zombies, Asked
  <1>2. CASE schedule  BY <1>2, ScheduleStep
  <1>3. ASSUME NEW p \in Slots, sys_fork(p) PROVE IInv'  BY <1>3, ForkStep
  <1>4. ASSUME NEW p \in Slots, sys_setsid(p) PROVE IInv'  BY <1>4, SetsidStep
  <1>5. ASSUME NEW p \in Slots, sys_exit(p) PROVE IInv'
    <2>1. /\ p \in Used /\ p # 1 /\ task[p].state = "RUNNING"
          /\ task' = Exiting(p) /\ UNCHANGED <<last_pid, badbad>>
      BY <1>5 DEF sys_exit, Calls, At, ProcessAssumption
    <2> QED  BY <2>1, ExitStep
  <1>6. ASSUME NEW p \in Slots, sys_pause(p) PROVE IInv'  BY <1>6, PauseStep
  <1>7. ASSUME NEW p \in Slots, NEW k \in Kills, sys_kill(p, k[1], k[2])
        PROVE  IInv'
    BY <1>7, KillStep
  <1>8. ASSUME NEW p \in Slots, NEW m \in Masks, sys_ssetmask(p, m) PROVE IInv'
    BY <1>8, MaskStep
  <1>9. ASSUME NEW p \in Slots, NEW a \in Actions, sys_sigaction(p, a[1], a[2])
        PROVE  IInv'
    BY <1>9, ActionStep
  <1>10. ASSUME NEW p \in Slots, NEW w \in Wants, NEW nohang \in BOOLEAN,
                sys_waitpid(p, w, nohang)
         PROVE  IInv'
    BY <1>10, WaitpidStep
  <1>11. ASSUME NEW p \in Slots, sys_waitpid(p, -1, FALSE) PROVE IInv'
    BY <1>11, WaitpidStep
  <1>12. ASSUME NEW p \in Slots, PauseEnds(p) PROVE IInv'
    BY <1>12, ReturnStep DEF PauseEnds, At, IInv, TypeOK
  <1>13. ASSUME NEW p \in Slots, do_exit(p) PROVE IInv'  BY <1>13, ZombieStep
  <1>14. ASSUME NEW p \in Slots, WaitpidWakes(p) PROVE IInv'
    BY <1>14, WaitpidWakesStep
  <1>15. ASSUME NEW p \in Slots, timer_interrupt(p) PROVE IInv'
    BY <1>15, ReturnStep DEF timer_interrupt, At, IInv, TypeOK
  <1>16. ASSUME NEW p \in Slots, ret_from_sys_call(p) PROVE IInv'
    <2>1. /\ p \in Used /\ task[p].state = "RUNNING"
          /\ UNCHANGED <<last_pid, badbad>>
      BY <1>16 DEF ret_from_sys_call, At
    <2>2. IInv' \/ (p # 1 /\ task' = Exiting(p))  BY <1>16, DeliverStep
    <2> QED  BY <2>1, <2>2, ExitStep
  <1>17. ASSUME NEW p \in Slots, sa_restorer(p) PROVE IInv'
    BY <1>17, RestorerStep
  <1>18. ASSUME NEW p \in Slots,
                \/ sys_fork(p) \/ sys_setsid(p) \/ sys_exit(p) \/ sys_pause(p)
                \/ PauseEnds(p) \/ do_exit(p) \/ WaitpidWakes(p)
                \/ timer_interrupt(p) \/ ret_from_sys_call(p) \/ sa_restorer(p)
         PROVE  IInv'
    BY <1>18, <1>3, <1>4, <1>5, <1>6, <1>12, <1>13, <1>14, <1>15, <1>16, <1>17
  <1> DEFINE Own(p) == \/ sys_fork(p) \/ sys_setsid(p) \/ sys_exit(p) \/ sys_pause(p)
                       \/ PauseEnds(p) \/ do_exit(p) \/ WaitpidWakes(p)
                       \/ timer_interrupt(p) \/ ret_from_sys_call(p) \/ sa_restorer(p)
             Kill(p) == \E k \in Kills : sys_kill(p, k[1], k[2])
             Mask(p) == \E m \in Masks : sys_ssetmask(p, m)
             Install(p) == \E a \in Actions : sys_sigaction(p, a[1], a[2])
             Wait(p) == \E w \in Wants, nohang \in BOOLEAN :
                            p # 1 /\ sys_waitpid(p, w, nohang)
  <1>19. ASSUME NEW p \in Slots, Kill(p) PROVE IInv'
    <2>1. PICK k \in Kills : sys_kill(p, k[1], k[2])  BY <1>19
    <2> QED  BY <2>1, <1>7
  <1>20. ASSUME NEW p \in Slots, Mask(p) PROVE IInv'  BY <1>20, <1>8
  <1>21. ASSUME NEW p \in Slots, Install(p) PROVE IInv'
    <2>1. PICK a \in Actions : sys_sigaction(p, a[1], a[2])  BY <1>21
    <2> QED  BY <2>1, <1>9
  <1>22. ASSUME NEW p \in Slots, Wait(p) PROVE IInv'
    <2>1. PICK w \in Wants, nohang \in BOOLEAN : sys_waitpid(p, w, nohang)
      BY <1>22
    <2> QED  BY <2>1, <1>10
  <1>23. Next => schedule \/ \E p \in Slots : \/ Own(p) \/ Kill(p) \/ Mask(p)
                       \/ Install(p) \/ Wait(p) \/ sys_waitpid(p, -1, FALSE)
    BY DEF Next
  <1> HIDE DEF Own, Kill, Mask, Install, Wait
  <1>24. ASSUME NEW p \in Slots, Own(p) PROVE IInv'  BY <1>24, <1>18 DEF Own
  <1> QED  BY <1>1, <1>2, <1>11, <1>19, <1>20, <1>21, <1>22, <1>23, <1>24

(* The process table stays well formed: init never exits, every process    *)
(* keeps the shape sys_fork gave it.                                       *)
THEOREM Invariance == ASSUME ProcessAssumption PROVE Spec => []IInv
  <1>1. Init => IInv  BY InitIInv
  <1>2. IInv /\ [Next]_vars => IInv'  BY StepIInv
  <1> QED  BY <1>1, <1>2, PTL DEF Spec

(* fork, do_exit and waitpid never lose a process: pids are unique, every  *)
(* process has one father that can still wait for it, and tell_father      *)
(* always finds it.                                                        *)
THEOREM FathersWait == ASSUME ProcessAssumption PROVE Spec => []FatherCanWait
  <1>1. IInv => FatherCanWait  BY DEF IInv
  <1> QED  BY <1>1, Invariance, PTL

(* No process sleeps in sys_waitpid with a zombie to collect and without   *)
(* SIGCHLD pending: neither do_exit nor the reparenting to init loses the  *)
(* wake-up.                                                                *)
THEOREM WaitersTold == ASSUME ProcessAssumption PROVE Spec => []WaiterIsTold
  <1>1. IInv => WaiterIsTold  BY DEF IInv
  <1> QED  BY <1>1, Invariance, PTL

(* do_signal does not enter a handler that sigaction installed while that  *)
(* handler runs, however handlers nest and masks are restored.             *)
THEOREM NeverReentered == ASSUME ProcessAssumption PROVE Spec => []NotReentered
  <1>1. IInv => NotReentered
    <2> SUFFICES ASSUME IInv, NEW p \in Used,
                        NEW i \in DOMAIN task[p].inside, NEW j \in DOMAIN task[p].inside,
                        i < j, task[p].inside[i].act = "KEEP"
                 PROVE  task[p].inside[i].sig # task[p].inside[j].sig
      BY DEF NotReentered
    <2>1. task[p] \in TaskType /\ Masked(task[p])  BY DEF IInv, TypeOK, Sound, Used
    <2>2. DOMAIN task[p].inside = 1 .. Len(task[p].inside)
      BY <2>1 DEF TaskType
    <2> QED  BY <2>1, <2>2 DEF Masked
  <1> QED  BY <1>1, Invariance, PTL
=============================================================================
