------------------------------ MODULE Process ------------------------------
(***************************************************************************)
(* The life of processes and their signals: kernel/fork.c, kernel/exit.c,  *)
(* kernel/signal.c, the way back to user mode in kernel/system_call.s and  *)
(* the part of schedule() that wakes a process for a signal.               *)
(*                                                                         *)
(* The kernel is not preempted, so a system call is one step up to the     *)
(* point where it sleeps or returns.  It returns through ret_from_sys_call *)
(* ("ret"), which delivers one signal; a timer interrupt sends a process   *)
(* in user mode the same way.  do_exit sleeps while it closes files, after *)
(* it has given its children away and before it is a zombie ("exit").      *)
(*                                                                         *)
(* All processes have the same user.  Slot 0, the idle task, is left out.  *)
(***************************************************************************)
EXTENDS Integers, Sequences, FiniteSets

CONSTANTS NR_TASKS,   \* slots 1 .. NR_TASKS - 1 of task[]; init is in slot 1
          MaxPid,     \* last_pid becomes 1 after it
          MayCall,    \* the system calls the process in a slot makes
          Kills,      \* what the processes give to kill(): <<pid, sig>>
          Masks,      \* what they give to ssetmask()
          Actions,    \* what they give to signal(), sigaction(): <<sig, act>>
          Wants       \* what they give to waitpid()

SIGHUP  == 1
SIGKILL == 9
SIGCHLD == 17
Signals == {SIGHUP, SIGKILL, SIGCHLD}

Slots == 1 .. NR_TASKS - 1
Pids  == 1 .. MaxPid
INIT_PID == 1

Acts == {"DFL", "IGN", "ONCE", "KEEP"}

(* Nobody kills init.  There are more pids than slots. *)
ASSUME ProcessAssumption ==
    /\ NR_TASKS \in Nat \ {0, 1} /\ MaxPid \in Nat /\ MaxPid >= NR_TASKS
    /\ Kills \subseteq Int \X Signals
    /\ \A k \in Kills : k[1] # INIT_PID /\ (k[1] = -1 => k[2] = SIGCHLD)
    /\ MayCall[1] = {"fork", "waitpid"}
    /\ \A m \in Masks : m \subseteq Signals
    /\ Actions \subseteq Signals \X Acts

VARIABLES
  task,       \* the process table
  last_pid,
  badbad      \* history: tell_father found no father
vars == <<task, last_pid, badbad>>

MinOf(S) == CHOOSE x \in S : \A y \in S : x <= y
MaxOf(S) == CHOOSE x \in S : \A y \in S : x >= y

(* "ONCE" is what signal() installs (SA_ONESHOT, SA_NOMASK), "KEEP" what   *)
(* sigaction() does without flags: the signal is blocked in its handler.   *)
(* inside lists the handlers that run, with the mask each one will restore.*)
Default == [s \in Signals |-> "DFL"]
Task(pid, father) ==
    [pid |-> pid, father |-> father, pgrp |-> 0, session |-> 0, leader |-> FALSE,
     state |-> "RUNNING", signal |-> {}, blocked |-> {}, act |-> Default,
     inside |-> <<>>, pc |-> "user", want |-> 0]
NoTask == Task(0, 0)

Init == /\ task = [i \in Slots |-> IF i = 1 THEN Task(INIT_PID, 0) ELSE NoTask]
        /\ last_pid = INIT_PID /\ badbad = FALSE

Used == {i \in Slots : task[i].pid # 0}

HandlerType == [sig : Signals, act : Acts, mask : SUBSET Signals]
TaskType ==
    [pid : Pids \cup {0}, father : Pids \cup {0},
     pgrp : Pids \cup {0}, session : Pids \cup {0}, leader : BOOLEAN,
     state : {"RUNNING", "INTERRUPTIBLE", "ZOMBIE"},
     signal : SUBSET Signals, blocked : SUBSET Signals, act : [Signals -> Acts],
     inside : Seq(HandlerType),
     pc : {"user", "ret", "waitpid", "pause", "exit", "zombie"},
     want : Wants \cup {0, -1}]

TypeOK ==
    /\ task \in [Slots -> TaskType]
    /\ last_pid \in Pids /\ badbad \in BOOLEAN

-----------------------------------------------------------------------------
(* p runs in user mode, or in the kernel at c *)
At(p, c) == p \in Used /\ task[p].state = "RUNNING" /\ task[p].pc = c
Calls(p, c) == At(p, "user") /\ c \in MayCall[p]
Ret(T, p) == [T EXCEPT ![p].pc = "ret"]
(* A process that exits never looks at its signals again: they are not kept. *)
Raise(T, S, sig) == [i \in Slots |->
    IF i \in S /\ T[i].pc \notin {"exit", "zombie"}
    THEN [T[i] EXCEPT !.signal = @ \cup {sig}] ELSE T[i]]

(* Faulty variant: a pid is not looked for in the table. *)
PidFreeAlways(n) == TRUE
PidFree(n) == \A i \in Used : task[i].pid # n

(* find_empty_process: the first unused pid after last_pid, and a slot *)
NextPid ==
    LET after(n) == (n - last_pid - 1) % MaxPid
    IN CHOOSE n \in Pids : /\ PidFree(n)
                           /\ \A m \in Pids : PidFree(m) => after(n) <= after(m)
FreeSlots == Slots \ Used

(* copy_process *)
copy_process(p, pid) ==
    [task[p] EXCEPT !.pid = pid, !.father = task[p].pid, !.signal = {},
                    !.leader = FALSE, !.pc = "user"]

sys_fork(p) ==
    /\ Calls(p, "fork")
    /\ last_pid' = NextPid
    /\ \/ /\ FreeSlots # {}
          /\ task' = Ret([task EXCEPT ![MinOf(FreeSlots)] = copy_process(p, NextPid)], p)
       \/ task' = Ret(task, p)      \* no slot, or no memory
    /\ UNCHANGED badbad

sys_setsid(p) ==
    /\ Calls(p, "setsid")
    /\ task' = Ret([task EXCEPT ![p].leader = TRUE, ![p].session = task[p].pid,
                                ![p].pgrp = task[p].pid], p)
    /\ UNCHANGED <<last_pid, badbad>>

-----------------------------------------------------------------------------
(* sys_kill: to one process, to the group that has this process's pid, to  *)
(* everybody, to a group                                                   *)
Targets(p, pid) ==
    CASE pid = 0  -> {i \in Used : task[i].pgrp = task[p].pid}
      [] pid > 0  -> {i \in Used : task[i].pid = pid}
      [] pid = -1 -> Used
      [] OTHER    -> {i \in Used : task[i].pgrp = -pid}

sys_kill(p, pid, sig) ==
    /\ Calls(p, "kill")
    /\ task' = Ret(Raise(task, Targets(p, pid), sig), p)
    /\ UNCHANGED <<last_pid, badbad>>

(* A handler changes neither the mask nor the actions. *)
sys_ssetmask(p, mask) ==
    /\ Calls(p, "ssetmask") /\ task[p].inside = <<>>
    /\ task' = Ret([task EXCEPT ![p].blocked = mask \ {SIGKILL}], p)
    /\ UNCHANGED <<last_pid, badbad>>

(* sys_signal, sys_sigaction *)
sys_sigaction(p, sig, act) ==
    /\ Calls(p, "sigaction") /\ sig # SIGKILL /\ task[p].inside = <<>>
    /\ task' = Ret([task EXCEPT ![p].act[sig] = act], p)
    /\ UNCHANGED <<last_pid, badbad>>

sys_pause(p) ==
    /\ Calls(p, "pause")
    /\ task' = [task EXCEPT ![p].state = "INTERRUPTIBLE", ![p].pc = "pause"]
    /\ UNCHANGED <<last_pid, badbad>>

PauseEnds(p) ==
    /\ At(p, "pause") /\ task' = Ret(task, p)
    /\ UNCHANGED <<last_pid, badbad>>

-----------------------------------------------------------------------------
(* Faulty variant: init is not told of those that are zombies already. *)
ReparentUntold(p) == [i \in Slots |->
    IF i \in Used /\ task[i].father = task[p].pid
    THEN [task[i] EXCEPT !.father = INIT_PID] ELSE task[i]]
(* the first loop of do_exit *)
Reparent(p) ==
    LET mine == {i \in Used : task[i].father = task[p].pid}
        T == [i \in Slots |-> IF i \in mine
                              THEN [task[i] EXCEPT !.father = INIT_PID] ELSE task[i]]
    IN IF \E i \in mine : task[i].state = "ZOMBIE" THEN Raise(T, {1}, SIGCHLD) ELSE T

(* do_exit up to the files and inodes it closes, and may sleep on *)
Exiting(p) == [Reparent(p) EXCEPT ![p] = [@ EXCEPT
    !.pc = "exit", !.signal = {}, !.blocked = {}, !.act = Default, !.inside = <<>>]]

sys_exit(p) ==
    /\ Calls(p, "exit")
    /\ task' = Exiting(p)
    /\ UNCHANGED <<last_pid, badbad>>

(* kill_session *)
Session(p) == IF task[p].leader
              THEN {i \in Used : task[i].session = task[p].session} ELSE {}

(* Faulty variant: nobody is told. *)
TellNobody(p) == {}
tell_father(p) == {i \in Used : task[i].pid = task[p].father}

(* the rest of do_exit *)
do_exit(p) ==
    LET hup  == Raise(task, Session(p), SIGHUP)
        gone == [hup EXCEPT ![p].state = "ZOMBIE", ![p].pc = "zombie"]
    IN /\ At(p, "exit")
       /\ IF task[p].father # 0 /\ \E i \in Used : task[i].pid = task[p].father
          THEN task' = Raise(gone, tell_father(p), SIGCHLD) /\ UNCHANGED badbad
          ELSE task' = [hup EXCEPT ![p] = NoTask] /\ badbad' = TRUE
       /\ UNCHANGED last_pid

-----------------------------------------------------------------------------
(* sys_waitpid *)
Asked(T, p, want) ==
    {i \in Slots \ {p} : /\ T[i].pid # 0 /\ T[i].father = T[p].pid
                         /\ CASE want > 0  -> T[i].pid = want
                              [] want = 0  -> T[i].pgrp = T[p].pgrp
                              [] want = -1 -> TRUE
                              [] OTHER     -> T[i].pgrp = -want}
Zombies(T, p, want) == {i \in Asked(T, p, want) : T[i].state = "ZOMBIE"}

(* the search: a zombie is released, otherwise p sleeps while it has a     *)
(* child, unless WNOHANG is set                                            *)
Search(T, p, want, nohang) ==
    IF Zombies(T, p, want) # {}
    THEN Ret([T EXCEPT ![MaxOf(Zombies(T, p, want))] = NoTask,
                       ![p].want = 0], p)
    ELSE IF Asked(T, p, want) # {} /\ ~nohang
    THEN [T EXCEPT ![p].state = "INTERRUPTIBLE", ![p].pc = "waitpid", ![p].want = want]
    ELSE Ret([T EXCEPT ![p].want = 0], p)

sys_waitpid(p, want, nohang) ==
    /\ Calls(p, "waitpid")
    /\ task' = Search(task, p, want, nohang)
    /\ UNCHANGED <<last_pid, badbad>>

(* after schedule(): any signal but SIGCHLD, blocked or not, is EINTR *)
WaitpidWakes(p) ==
    LET T == [task EXCEPT ![p].signal = @ \ {SIGCHLD}]
    IN /\ At(p, "waitpid")
       /\ task' = IF T[p].signal = {} THEN Search(T, p, T[p].want, FALSE)
                  ELSE Ret([T EXCEPT ![p].want = 0], p)
       /\ UNCHANGED <<last_pid, badbad>>

-----------------------------------------------------------------------------
(* the first loop of schedule(): SIGKILL is not in _BLOCKABLE, and does    *)
(* not wake anybody                                                        *)
Waking == {i \in Used : /\ task[i].state = "INTERRUPTIBLE"
                        /\ task[i].signal \cap ({SIGHUP, SIGCHLD} \ task[i].blocked) # {}}
schedule ==
    /\ Waking # {}
    /\ task' = [i \in Slots |-> IF i \in Waking
                                THEN [task[i] EXCEPT !.state = "RUNNING"] ELSE task[i]]
    /\ UNCHANGED <<last_pid, badbad>>

timer_interrupt(p) ==
    /\ At(p, "user") /\ task[p].signal \ task[p].blocked # {}
    /\ task' = Ret(task, p)
    /\ UNCHANGED <<last_pid, badbad>>

(* Faulty variant: the handler's own signal stays unblocked. *)
sa_maskNone(act, sig) == {}
sa_mask(act, sig) == IF act = "KEEP" THEN {sig} ELSE {}

(* do_signal for a signal with a handler *)
Handle(x, sig) ==
    LET a == x.act[sig]
    IN [x EXCEPT !.inside = Append(@, [sig |-> sig, act |-> a, mask |-> x.blocked]),
                 !.blocked = @ \cup sa_mask(a, sig),
                 !.act[sig] = IF a = "ONCE" THEN "DFL" ELSE @]

(* ret_from_sys_call: the first signal that is not blocked, do_signal *)
ret_from_sys_call(p) ==
    LET S == task[p].signal \ task[p].blocked
        sig == MinOf(S)
        act == task[p].act[sig]
        x == [task[p] EXCEPT !.signal = @ \ {sig}, !.pc = "user"]
    IN /\ At(p, "ret")
       /\ \/ S = {} /\ task' = [task EXCEPT ![p].pc = "user"]
          \/ /\ S # {} /\ (act = "IGN" \/ (act = "DFL" /\ sig = SIGCHLD))
             /\ task' = [task EXCEPT ![p] = x]
          \/ /\ S # {} /\ act = "DFL" /\ sig # SIGCHLD
             /\ task' = Exiting(p)
          \/ /\ S # {} /\ act \in {"ONCE", "KEEP"}
             /\ task' = [task EXCEPT ![p] = Handle(x, sig)]
       /\ UNCHANGED <<last_pid, badbad>>

(* the end of a handler: the restorer gives the old mask back *)
sa_restorer(p) ==
    LET top == Len(task[p].inside)
    IN /\ At(p, "user") /\ top > 0
       /\ task' = Ret([task EXCEPT
              ![p].inside = SubSeq(@, 1, top - 1),
              ![p].blocked = task[p].inside[top].mask], p)
       /\ UNCHANGED <<last_pid, badbad>>

Next ==
    \/ schedule
    \/ \E p \in Slots :
         \/ sys_fork(p) \/ sys_setsid(p) \/ sys_exit(p) \/ sys_pause(p)
         \/ \E k \in Kills : sys_kill(p, k[1], k[2])
         \/ \E m \in Masks : sys_ssetmask(p, m)
         \/ \E a \in Actions : sys_sigaction(p, a[1], a[2])
         \/ \E w \in Wants, nohang \in BOOLEAN : p # 1 /\ sys_waitpid(p, w, nohang)
         \/ p = 1 /\ sys_waitpid(p, -1, FALSE)
         \/ PauseEnds(p) \/ do_exit(p) \/ WaitpidWakes(p)
         \/ timer_interrupt(p) \/ ret_from_sys_call(p) \/ sa_restorer(p)

(* A process in the kernel goes on when it may run, and schedule() is      *)
(* called with every sleep and every tick.                                 *)
Fairness ==
    /\ WF_vars(schedule)
    /\ \A p \in Slots : WF_vars(\/ ret_from_sys_call(p) \/ do_exit(p)
                                \/ WaitpidWakes(p) \/ PauseEnds(p))
Spec == Init /\ [][Next]_vars /\ Fairness

-----------------------------------------------------------------------------
(* Every process but init has exactly one father, and a father that can    *)
(* still wait for it: one that has begun to exit has given its children    *)
(* away.  Pids wrap around and are used again, also while a father sleeps  *)
(* in the middle of do_exit; tell_father always finds somebody.            *)
FatherCanWait ==
    /\ \A i, j \in Used : i # j => task[i].pid # task[j].pid
    /\ \A i \in Used \ {1} : \E f \in Used :
         task[f].pid = task[i].father /\ task[f].pc \notin {"exit", "zombie"}
    /\ ~badbad

(* A process that sleeps in waitpid for a child that is a zombie has been  *)
(* told so, however the child became its own and whatever other signals it *)
(* got.                                                                    *)
WaiterIsTold == \A p \in Used :
    /\ task[p].pc = "waitpid" /\ task[p].state = "INTERRUPTIBLE"
    /\ Zombies(task, p, task[p].want) # {}
    => SIGCHLD \in task[p].signal

(* A handler installed by sigaction is not entered again while it runs.    *)
NotReentered == \A p \in Used : \A i, j \in DOMAIN task[p].inside :
    i < j /\ task[p].inside[i].act = "KEEP"
    => task[p].inside[i].sig # task[p].inside[j].sig

(* The strengthening of the three above that every step keeps.  Init never *)
(* exits: it has no handlers, and no signal but SIGCHLD reaches it, because*)
(* it is in group and session 0 and no other leader is.                    *)
InitRuns ==
    /\ task[1].pid = INIT_PID /\ task[1].pgrp = 0 /\ task[1].session = 0
    /\ ~task[1].leader
    /\ task[1].signal \subseteq {SIGCHLD} /\ task[1].act = Default
    /\ task[1].inside = <<>> /\ task[1].pc \in {"user", "ret", "waitpid"}

(* The signal of a handler that sigaction installed is blocked until the   *)
(* handler returns: it is in the mask, and in every mask to be restored by *)
(* a handler that runs on top of it.                                       *)
Masked(x) == \A i \in 1 .. Len(x.inside) : x.inside[i].act = "KEEP" =>
    /\ x.inside[i].sig \in x.blocked
    /\ \A j \in 1 .. Len(x.inside) : i < j =>
         x.inside[i].sig \in x.inside[j].mask \ {x.inside[j].sig}

Sound(x) == /\ x.state = "ZOMBIE" => x.pc = "zombie"
            /\ x.leader => x.session # 0
            /\ Masked(x)

IInv == /\ TypeOK /\ InitRuns
        /\ \A i \in Slots : Sound(task[i])
        /\ FatherCanWait /\ WaiterIsTold

(* waitpid returns once a child it asked for is a zombie, unless SIGCHLD   *)
(* is blocked: also when the child was another's when the wait began, and  *)
(* when the signal came before the process slept.                          *)
WaitEnds == \A p \in Slots :
    (/\ task[p].pc = "waitpid" /\ SIGCHLD \notin task[p].blocked
     /\ Zombies(task, p, task[p].want) # {})
        ~> (task[p].pc # "waitpid")
=============================================================================
