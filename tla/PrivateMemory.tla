--------------------------- MODULE PrivateMemory ---------------------------
(* What mm/memory.c promises to processes: each has memory of its own.     *)
(* fork gives the child a copy, a write changes the writer's memory only,  *)
(* and exec starts from the contents of the executable.                    *)
EXTENDS Naturals

CONSTANTS Tasks, Pages,
          Image(_, _),   \* the initial content of a page of a program
          Programs

VARIABLE mem   \* the memory of each process, Gone when there is none

Gone == [v \in {} |-> 0]

Init == \E t \in Tasks : mem = [u \in Tasks |->
            IF u = t THEN [v \in Pages |-> 0] ELSE Gone]

(* What t writes is t, which tells the writes of processes apart. *)
Write(t, v) == /\ mem[t] # Gone
               /\ mem' = [mem EXCEPT ![t][v] = t]

Fork(t, u) == /\ mem[t] # Gone /\ mem[u] = Gone
              /\ mem' = [mem EXCEPT ![u] = mem[t]]

(* exit, and the part of exec that throws the old image away *)
Leave(t) == mem' = [mem EXCEPT ![t] = Gone]

Start(t, e) == /\ mem[t] = Gone
               /\ mem' = [mem EXCEPT ![t] = [v \in Pages |-> Image(e, v)]]

Next == \E t \in Tasks : \/ \E v \in Pages : Write(t, v)
                         \/ \E u \in Tasks : Fork(t, u)
                         \/ Leave(t)
                         \/ \E e \in Programs : Start(t, e)

Spec == Init /\ [][Next]_mem
=============================================================================
