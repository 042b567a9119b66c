------------------------------- MODULE Memory -------------------------------
(***************************************************************************)
(* mm/memory.c and its use by fork, exec, exit and verify_area: page       *)
(* tables, the reference counts of memory_map[], copy-on-write, demand     *)
(* loading and the sharing of clean pages between processes that run the   *)
(* same program.                                                           *)
(*                                                                         *)
(* get_free_page may return any free frame.  The frames of page tables and *)
(* task structures have one user each, so only their number is kept, in    *)
(* "taken"; the contents of a free frame are cleared when it is freed      *)
(* instead of when it is handed out.  Frame Low stands for the pages below *)
(* LOW_MEM that the first process shares with the kernel; they are not     *)
(* counted.                                                                *)
(*                                                                         *)
(* The kernel is not preempted: a fault handler is one action, except that *)
(* do_no_page sleeps while it reads the page, do_execve sleeps between     *)
(* changing the executable and freeing the old page tables, and a system   *)
(* call may sleep between verify_area and its write.  The kernel writes    *)
(* through read-only pages, because head.s leaves CR0.WP clear.            *)
(***************************************************************************)
EXTENDS Naturals, FiniteSets

CONSTANTS Tasks,       \* the slots of task[]
          First,       \* the first process, forked from task 0
          Pages,       \* the pages of an address space
          Tables,      \* its page tables, in order
          Table,       \* the page table of each page
          FilePages,   \* the pages below end_data
          Stack,       \* the page of the arguments of exec
          NR_FRAMES,   \* how many page frames there are above LOW_MEM
          Frames,      \* names for those of them that hold pages
          Low,         \* the frames below it
          NoFrame,     \* not a frame
          Programs     \* executables; also the content of their file pages

ASSUME MemoryAssumption == /\ First \in Tasks
                           /\ Tables \subseteq Nat
                           /\ NR_FRAMES \in Nat
                           /\ NoFrame \notin Frames \cup {Low}
                           /\ Low \notin Frames
                           /\ Table \in [Pages -> Tables]
                           /\ FilePages \subseteq Pages \ {Stack}
                           /\ Stack \in Pages
                           /\ Programs \subseteq Nat \ {0}
                           /\ IsFiniteSet(Tasks) /\ IsFiniteSet(Pages)
                           /\ IsFiniteSet(Tables) /\ IsFiniteSet(Frames)
                           /\ 1 + Cardinality(Tables) <= NR_FRAMES

VARIABLES
  life,        \* none, alive or zombie
  executable,
  dir,         \* the page tables that are present
  pte,         \* the page table entries
  memory_map,  \* the reference counts of the pages
  taken,       \* how many frames hold page tables and task structures
  page,        \* the contents of the frames
  call         \* what a process inside the kernel has to go on with

vars == <<life, executable, dir, pte, memory_map, taken, page, call>>

NoProgram == 0
Absent == [frame |-> NoFrame, rw |-> FALSE, dirty |-> FALSE]
Entry(f, rw) == [frame |-> f, rw |-> rw, dirty |-> FALSE]
Call(op, v, f, next) == [op |-> op, page |-> v, frame |-> f, then |-> next]
User == Call("user", Stack, NoFrame, "user")

(* what a process writes names the writer, so that it is known anywhere *)
Contents == {0} \cup Programs \cup Tasks
Image(e, v) == IF e # NoProgram /\ v \in FilePages THEN e ELSE 0

Init == /\ life = [t \in Tasks |-> IF t = First THEN "alive" ELSE "none"]
        /\ executable = [t \in Tasks |-> NoProgram]
        /\ dir = [t \in Tasks |-> IF t = First THEN Tables ELSE {}]
        /\ pte = [t \in Tasks |-> [v \in Pages |->
                     IF t = First THEN Entry(Low, FALSE) ELSE Absent]]
        /\ memory_map = [f \in Frames |-> 0]
        /\ taken = 1 + Cardinality(Tables)
        /\ page = [f \in Frames \cup {Low} |-> 0]
        /\ call = [t \in Tasks |-> User]

InWrite(t) == call[t].op = "write"
Running(t) == life[t] = "alive" /\ call[t] = User
Present(t, v) == pte[t][v].frame # NoFrame

(* get_free_page: how many calls succeed, and what one may return *)
Unused == {f \in Frames : memory_map[f] = 0}
InUse  == taken + Cardinality(Frames \ Unused)
Left   == NR_FRAMES - InUse
get_free_page(f) == Left > 0 /\ f \in Unused

-----------------------------------------------------------------------------
(* free_page_tables: t's pages are freed, and those that have no other     *)
(* user are cleared.  extra is a frame that t gives up too.                *)
Uses(t, f) == Cardinality({v \in Pages : pte[t][v].frame = f})
Cleared(m) == [f \in Frames \cup {Low} |->
    IF f # Low /\ m[f] = 0 THEN 0 ELSE page[f]]

(* Faulty variant: extra is not freed. *)
free_pagesKeeps(t, extra) ==
    /\ memory_map' = [f \in Frames |-> memory_map[f] - Uses(t, f)]
    /\ page' = Cleared(memory_map')

free_pages(t, extra) ==
    /\ memory_map' = [f \in Frames |->
           memory_map[f] - Uses(t, f) - (IF f = extra THEN 1 ELSE 0)]
    /\ page' = Cleared(memory_map')

NoPages == [v \in Pages |-> Absent]

(* do_exit, also through oom(): the page tables are freed, and the task    *)
(* structure is left to the parent                                         *)
do_exit(t) ==
    /\ life' = [life EXCEPT ![t] = "zombie"]
    /\ executable' = [executable EXCEPT ![t] = NoProgram]
    /\ free_pages(t, call[t].frame)
    /\ dir' = [dir EXCEPT ![t] = {}]
    /\ pte' = [pte EXCEPT ![t] = NoPages]
    /\ taken' = taken - Cardinality(dir[t])
    /\ call' = [call EXCEPT ![t] = User]

sys_exit(t) == Running(t) /\ do_exit(t)

(* release, called by the parent's sys_waitpid *)
release(t) ==
    /\ life[t] = "zombie"
    /\ life' = [life EXCEPT ![t] = "none"]
    /\ taken' = taken - 1
    /\ UNCHANGED <<executable, dir, pte, memory_map, page, call>>

-----------------------------------------------------------------------------
ReadOnly(e) == [e EXCEPT !.rw = FALSE]

(* Faulty variant: the parent may go on writing to the pages. *)
ProtectedNot(t, ds) == pte[t]

(* t's entries after the tables ds were copied: pages above LOW_MEM become *)
(* read-only for t too                                                     *)
Protected(t, ds) == [v \in Pages |->
    IF Table[v] \in ds /\ pte[t][v].frame # Low
    THEN ReadOnly(pte[t][v]) ELSE pte[t][v]]

(* copy_process: a page for the task structure, and copy_page_tables with  *)
(* a page for every page table of the parent                               *)
Fork(t, u) ==
    /\ Running(t) /\ life[u] = "none"
    /\ Left >= 1 + Cardinality(dir[t])
    /\ life' = [life EXCEPT ![u] = "alive"]
    /\ executable' = [executable EXCEPT ![u] = executable[t]]
    /\ dir' = [dir EXCEPT ![u] = dir[t]]
    /\ pte' = [pte EXCEPT ![t] = Protected(t, dir[t]),
                          ![u] = [v \in Pages |-> ReadOnly(pte[t][v])]]
    /\ memory_map' = [f \in Frames |-> memory_map[f] + Uses(t, f)]
    /\ taken' = taken + 1 + Cardinality(dir[t])
    /\ UNCHANGED <<page, call>>

(* copy_page_tables runs out of memory after some of the tables, and       *)
(* copy_mem and copy_process free what was taken: what stays is that the   *)
(* pages of those tables are protected                                     *)
ForkFails(t) ==
    LET done == {d \in dir[t] :
                    Cardinality({e \in dir[t] : e < d}) + 1 < Left}
    IN /\ Running(t) /\ \E u \in Tasks : life[u] = "none"
       /\ Left < 1 + Cardinality(dir[t])
       /\ pte' = [pte EXCEPT ![t] = Protected(t, done)]
       /\ UNCHANGED <<life, executable, dir, memory_map, taken, page, call>>

-----------------------------------------------------------------------------
(* Faulty variant: a page is made writable while others use it. *)
ShouldCopyNever(f) == f = Low

(* un_wp_page has to copy the page *)
ShouldCopy(f) == f # Low => memory_map[f] # 1

(* un_wp_page: make the page writable, or replace it by a copy *)
un_wp_page(t, v) ==
    LET old == pte[t][v].frame
    IN \/ /\ ~ShouldCopy(old)
          /\ pte' = [pte EXCEPT ![t][v].rw = TRUE]
          /\ UNCHANGED <<memory_map, page>>
       \/ /\ ShouldCopy(old)
          /\ \E new \in Frames :
                /\ get_free_page(new)
                /\ memory_map' = [f \in Frames |-> CASE f = new -> 1
                                    [] f = old -> memory_map[f] - 1
                                    [] OTHER   -> memory_map[f]]
                /\ pte' = [pte EXCEPT ![t][v] = Entry(new, TRUE)]
                /\ page' = [page EXCEPT ![new] = page[old]]

ReadOnlyPage(t, v) == Present(t, v) /\ ~pte[t][v].rw
NoMemoryToCopy(t, v) == ShouldCopy(pte[t][v].frame) /\ Left = 0

(* a process writes to a page it may not write to *)
do_wp_page(t, v) ==
    /\ Running(t) /\ ReadOnlyPage(t, v)
    /\ \/ /\ un_wp_page(t, v)
          /\ UNCHANGED <<life, executable, dir, taken, call>>
       \/ NoMemoryToCopy(t, v) /\ do_exit(t)

(* The write itself; the processor marks the entry dirty. *)
UserWrite(t, v) ==
    /\ Running(t) /\ Present(t, v) /\ pte[t][v].rw
    /\ page' = [page EXCEPT ![pte[t][v].frame] = t]
    /\ pte' = [pte EXCEPT ![t][v].dirty = TRUE]
    /\ UNCHANGED <<life, executable, dir, memory_map, taken, call>>

-----------------------------------------------------------------------------
(* the page table for page v of t, which is taken when it is not there *)
NewTables(t, v) == {Table[v]} \ dir[t]
AddTable(t, v)  == /\ dir' = [dir EXCEPT ![t] = @ \cup {Table[v]}]
                   /\ taken' = taken + Cardinality(NewTables(t, v))

(* get_empty_page: a page and, in put_page, perhaps a table for it *)
get_empty_page(t, v) ==
    \/ /\ Left >= 1 + Cardinality(NewTables(t, v))
       /\ \E new \in Frames :
             /\ get_free_page(new)
             /\ memory_map' = [memory_map EXCEPT ![new] = 1]
             /\ pte' = [pte EXCEPT ![t][v] = Entry(new, TRUE)]
       /\ AddTable(t, v)
       /\ UNCHANGED <<life, executable, page, call>>
    \/ /\ Left < 1 + Cardinality(NewTables(t, v))
       /\ do_exit(t)

(* Faulty variant: pages that were written to are shared too. *)
SharableDirty(t, u, v) ==
    /\ u # t /\ executable[u] = executable[t]
    /\ pte[u][v].frame \notin {NoFrame, Low}

(* the tests of share_page and try_to_share *)
Sharable(t, u, v) ==
    /\ u # t /\ executable[u] = executable[t]
    /\ pte[u][v].frame \notin {NoFrame, Low}
    /\ ~pte[u][v].dirty

(* try_to_share: u's page is protected and entered for t, with a page      *)
(* table if there was none                                                 *)
try_to_share(t, u, v) ==
    \/ /\ Left >= Cardinality(NewTables(t, v))
       /\ memory_map' = [memory_map EXCEPT ![pte[u][v].frame] = @ + 1]
       /\ pte' = [pte EXCEPT ![u][v] = ReadOnly(@),
                             ![t][v] = ReadOnly(pte[u][v])]
       /\ AddTable(t, v)
       /\ UNCHANGED <<life, executable, page, call>>
    \/ /\ Left < Cardinality(NewTables(t, v))
       /\ do_exit(t)

(* do_no_page is to read the page from the executable, and sleeps *)
LoadStart(t, v) ==
    \/ \E new \in Frames :
          /\ get_free_page(new)
          /\ memory_map' = [memory_map EXCEPT ![new] = 1]
          /\ call' = [call EXCEPT ![t] = Call("load", v, new, call[t].op)]
          /\ UNCHANGED <<life, executable, dir, pte, taken, page>>
    \/ Left = 0 /\ do_exit(t)

(* a process, or the write of its system call, meets a page not present *)
do_no_page(t, v) ==
    /\ life[t] = "alive" /\ ~Present(t, v)
    /\ Running(t) \/ (InWrite(t) /\ v = call[t].page)
    /\ IF Image(executable[t], v) = 0 THEN get_empty_page(t, v)
       ELSE \/ \E u \in Tasks : Sharable(t, u, v) /\ try_to_share(t, u, v)
            \/ /\ \A u \in Tasks : ~Sharable(t, u, v)
               /\ LoadStart(t, v)

(* the page was read, and put_page enters it *)
LoadEnd(t) ==
    LET c    == call[t]
        back == IF c.then = "user" THEN User
                ELSE Call("write", c.page, NoFrame, "user")
    IN /\ c.op = "load"
       /\ \/ /\ Left >= Cardinality(NewTables(t, c.page))
             /\ pte' = [pte EXCEPT ![t][c.page] = Entry(c.frame, TRUE)]
             /\ AddTable(t, c.page)
             /\ page' = [page EXCEPT ![c.frame] = executable[t]]
             /\ call' = [call EXCEPT ![t] = back]
             /\ UNCHANGED <<life, executable, memory_map>>
          \/ /\ Left < Cardinality(NewTables(t, c.page))
             /\ do_exit(t)

-----------------------------------------------------------------------------
(* A system call is to write to user memory: verify_area un-protects the   *)
(* page if it is present.  The call may sleep before it writes.            *)
verify_area(t, v) ==
    /\ Running(t)
    /\ \/ /\ IF ReadOnlyPage(t, v) THEN un_wp_page(t, v)
             ELSE UNCHANGED <<pte, memory_map, page>>
          /\ call' = [call EXCEPT ![t] = Call("write", v, NoFrame, "user")]
          /\ UNCHANGED <<life, executable, dir, taken>>
       \/ ReadOnlyPage(t, v) /\ NoMemoryToCopy(t, v) /\ do_exit(t)

(* put_fs_byte and the like: the write ignores the protection *)
KernelWrite(t) ==
    LET v == call[t].page
    IN /\ InWrite(t) /\ Present(t, v)
       /\ page' = [page EXCEPT ![pte[t][v].frame] = t]
       /\ pte' = [pte EXCEPT ![t][v].dirty = TRUE]
       /\ call' = [call EXCEPT ![t] = User]
       /\ UNCHANGED <<life, executable, dir, memory_map, taken>>

-----------------------------------------------------------------------------
(* the arguments of exec are copied to a new page *)
copy_strings(new) == /\ get_free_page(new)
                     /\ memory_map' = [memory_map EXCEPT ![new] = 1]

(* do_execve has copied the arguments, and passes the point of no return *)
ExecCommit(t, e) ==
    /\ Running(t)
    /\ \E new \in Frames :
          /\ copy_strings(new)
          /\ call' = [call EXCEPT ![t] = Call("exec", Stack, new, "user")]
    /\ executable' = [executable EXCEPT ![t] = e]
    /\ UNCHANGED <<life, dir, pte, taken, page>>

(* the page of the arguments is all the new image has at first *)
change_ldt(new) == [NoPages EXCEPT ![Stack] = Entry(new, TRUE)]

(* it frees the old image, and enters the arguments' page, whose table     *)
(* takes the place of one of the page tables just freed                    *)
ExecEnd(t) ==
    /\ call[t].op = "exec"
    /\ free_pages(t, NoFrame)
    /\ dir' = [dir EXCEPT ![t] = {Table[Stack]}]
    /\ pte' = [pte EXCEPT ![t] = change_ldt(call[t].frame)]
    /\ taken' = taken - Cardinality(dir[t]) + 1
    /\ call' = [call EXCEPT ![t] = User]
    /\ UNCHANGED <<life, executable>>

Next == \E t \in Tasks :
           \/ sys_exit(t) \/ release(t) \/ ForkFails(t)
           \/ \E u \in Tasks : Fork(t, u)
           \/ \E v \in Pages : \/ do_wp_page(t, v) \/ do_no_page(t, v)
                               \/ verify_area(t, v) \/ UserWrite(t, v)
           \/ LoadEnd(t) \/ KernelWrite(t)
           \/ \E e \in Programs : ExecCommit(t, e)
           \/ ExecEnd(t)

Spec == Init /\ [][Next]_vars

-----------------------------------------------------------------------------
EntryType == [frame : Frames \cup {Low, NoFrame}, rw : BOOLEAN, dirty : BOOLEAN]
CallType == [op : {"user", "load", "write", "exec"}, page : Pages,
             frame : Frames \cup {NoFrame}, then : {"user", "write"}]

TypeOK == /\ life \in [Tasks -> {"none", "alive", "zombie"}]
          /\ executable \in [Tasks -> Programs \cup {NoProgram}]
          /\ dir \in [Tasks -> SUBSET Tables]
          /\ pte \in [Tasks -> [Pages -> EntryType]]
          /\ memory_map \in [Frames -> Nat]
          /\ taken \in Nat
          /\ page \in [Frames \cup {Low} -> Contents]
          /\ call \in [Tasks -> CallType]

(* The users of a frame: page table entries, and the processes about to    *)
(* enter it; and the page tables of all processes.                         *)
Refs(f)    == {x \in Tasks \X Pages : pte[x[1]][x[2]].frame = f}
Callers(f) == {t \in Tasks : call[t].frame = f}
AllTables  == {x \in Tasks \X Tables : x[2] \in dir[x[1]]}

(* memory_map[] counts the users of every frame.  Nothing leaks and        *)
(* nothing is freed twice, whatever runs out of memory where, so that      *)
(* free_page never panics with "trying to free free page".                 *)
Accounted ==
    /\ \A f \in Frames :
          memory_map[f] = Cardinality(Refs(f)) + Cardinality(Callers(f))
    /\ taken = Cardinality({t \in Tasks : life[t] # "none"})
             + Cardinality(AllTables)
    /\ InUse <= NR_FRAMES

(* A page that a process may write to without a fault has no other user.   *)
WritableIsOwn ==
    \A t \in Tasks, v \in Pages :
        Present(t, v) /\ pte[t][v].rw => memory_map[pte[t][v].frame] = 1

Memory(t) ==
    IF life[t] # "alive" \/ call[t].op = "exec" THEN [v \in {} |-> 0]
    ELSE [v \in Pages |-> IF Present(t, v) THEN page[pte[t][v].frame]
                          ELSE Image(executable[t], v)]
Mem == [t \in Tasks |-> Memory(t)]
Private == INSTANCE PrivateMemory WITH mem <- Mem

(* The two ways in which memory is not private: a system call writes to a  *)
(* page that was shared after verify_area, and a page is shared that only  *)
(* looks clean, because a copy of it or an entry for it was made after the *)
(* write, or because it belongs to the program its owner ran before.       *)
Leak ==
    \E t \in Tasks :
        \/ KernelWrite(t) /\ memory_map[pte[t][call[t].page].frame] # 1
        \/ \E u \in Tasks, v \in FilePages :
              /\ u # t /\ Present(u, v) /\ ~pte[u][v].dirty
              /\ page[pte[u][v].frame] # Image(executable[t], v)
              /\ try_to_share(t, u, v)

(* Processes do not see that their pages are shared, loaded on demand or   *)
(* copied late: fork, exec, exit and their writes act on memory of their   *)
(* own, and nothing but the two leaks ever changes it otherwise.           *)
MemoryIsPrivate == Private!Init /\ [][Private!Next \/ Leak]_Mem

-----------------------------------------------------------------------------
(* The strengthening of Accounted and WritableIsOwn that every step keeps. *)

(* A process that does not live has given up everything but its task       *)
(* structure; one that lives has page tables, with those of its pages.     *)
Owned == \A t \in Tasks :
    /\ life[t] # "alive" => pte[t] = NoPages /\ dir[t] = {} /\ call[t] = User
    /\ life[t] = "alive" => dir[t] # {}
    /\ \A v \in Pages : Present(t, v) => Table[v] \in dir[t]

(* Nobody may write to the pages shared with the kernel, nor does a system *)
(* call that has passed verify_area.                                       *)
LowIsSafe == \A t \in Tasks :
    /\ \A v \in Pages : pte[t][v].rw => pte[t][v].frame \in Frames
    /\ InWrite(t) => pte[t][call[t].page].frame # Low

(* A frame taken by do_no_page or do_execve belongs to that call alone and *)
(* is blank, as free frames are; the page it is for is a missing page of   *)
(* the executable, or belongs to the new image of one.                     *)
Reserved == \A t \in Tasks :
    /\ call[t].frame # NoFrame <=> call[t].op \in {"load", "exec"}
    /\ call[t].frame # NoFrame => /\ memory_map[call[t].frame] = 1
                                  /\ page[call[t].frame] = 0
    /\ call[t].op = "load" => /\ ~Present(t, call[t].page)
                              /\ Image(executable[t], call[t].page) # 0
    /\ call[t].op = "exec" => executable[t] # NoProgram
Blank == \A f \in Frames : memory_map[f] = 0 => page[f] = 0

IInv == /\ TypeOK /\ Owned /\ LowIsSafe /\ Reserved /\ Blank
        /\ Accounted /\ WritableIsOwn
=============================================================================
