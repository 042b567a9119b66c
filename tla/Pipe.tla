-------------------------------- MODULE Pipe --------------------------------
(***************************************************************************)
(* One pipe (fs/pipe.c) between processes that inherited its two ends: the *)
(* ring buffer in a page, the i_count of its inode, the wait queue i_wait  *)
(* and the processes inside read_pipe and write_pipe.                      *)
(*                                                                         *)
(* The kernel is not preempted, so a process keeps the processor (cur)     *)
(* until it sleeps, returns to user mode or, while it copies bytes from or *)
(* to user memory, takes a page fault that sleeps (do_no_page reading the  *)
(* page from disk).  The n-th byte ever written is the number n.           *)
(***************************************************************************)
EXTENDS Integers, Sequences, FiniteSets, SleepOn

CONSTANTS Readers, Writers, \* the processes that hold the ends
          Pipe,             \* the wait queue of the inode
          PAGE_SIZE,        \* a power of two
          MaxCount,         \* bound on the count of one call
          MaxBytes,         \* bound on the bytes ever written
          Faults            \* whether copying may take a page fault

ASSUME PipeAssumption == /\ Tasks = Readers \cup Writers
                         /\ Readers \cap Writers = {}
                         /\ Readers # {} /\ Writers # {}
                         /\ MaxCount \in Nat /\ MaxBytes \in Nat
                         /\ Faults \in BOOLEAN
                         /\ Queues = {Pipe}
                         /\ PAGE_SIZE \in Nat \ {0}
                         /\ Null \notin Tasks \cup Queues

VARIABLES
  k,          \* task states and the wait queue
  cur,        \* the running process, Null while schedule() chooses
  pc,         \* user, loop (inside the call), copy (a copy was interrupted)
  count,      \* what is left of the call's count
  chunk,      \* the bytes being copied: [at |-> offset, n |-> how many,
              \* from |-> the last byte written before them]
  open,       \* the processes whose end is still open
  sigpipe,    \* the processes that were sent SIGPIPE
  i_count, PIPE_HEAD, PIPE_TAIL,
  page,       \* the contents of the page
  sent,       \* history: how many bytes were taken from writers
  got,        \* history: the bytes delivered, in the order they were claimed
  overlap,    \* history: i_wait was entered before a woken process left it
  race        \* history: the ring was used during an interrupted copy

pipe == <<i_count, PIPE_HEAD, PIPE_TAIL>>
data == <<pipe, page, sent, got>>
pipeVars == <<k, cur, pc, count, chunk, open, sigpipe, data, overlap, race>>

None == [at |-> 0, n |-> 0, from |-> 0]

PipeTypeOK == /\ k \in KernelStates
              /\ cur \in Tasks \cup {Null}
              /\ pc \in [Tasks -> {"user", "loop", "copy"}]
              /\ count \in [Tasks -> 0 .. MaxCount]
              /\ chunk \in [Tasks -> [at : 0 .. PAGE_SIZE - 1, n : 0 .. PAGE_SIZE,
                                 from : 0 .. MaxBytes]]
              /\ open \subseteq Tasks /\ sigpipe \subseteq Tasks
              /\ i_count \in 0 .. 2
              /\ PIPE_HEAD \in 0 .. PAGE_SIZE - 1
              /\ PIPE_TAIL \in 0 .. PAGE_SIZE - 1
              /\ page \in [0 .. PAGE_SIZE - 1 -> 0 .. MaxBytes]
              /\ sent \in 0 .. MaxBytes
              /\ got \in Seq(0 .. MaxBytes)
              /\ overlap \in BOOLEAN /\ race \in BOOLEAN

PipeInit == /\ k = KernelInit
            /\ cur = Null
            /\ pc = [t \in Tasks |-> "user"]
            /\ count = [t \in Tasks |-> 0]
            /\ chunk = [t \in Tasks |-> None]
            /\ open = Tasks /\ sigpipe = {}
            /\ i_count = 2 /\ PIPE_HEAD = 0 /\ PIPE_TAIL = 0
            /\ page = [i \in 0 .. PAGE_SIZE - 1 |-> 0]
            /\ sent = 0 /\ got = <<>>
            /\ overlap = FALSE /\ race = FALSE

PIPE_SIZE == (PIPE_HEAD - PIPE_TAIL + PAGE_SIZE) % PAGE_SIZE
RoomWhole == PAGE_SIZE - PIPE_SIZE   \* faulty variant: every byte is used
Room      == (PAGE_SIZE - 1) - PIPE_SIZE
Min3(a, b, c) == CHOOSE m \in {a, b, c} : \A x \in {a, b, c} : m <= x

-----------------------------------------------------------------------------
(* schedule() picks a runnable process, which goes on after its sleep_on *)
schedule(t) ==
    /\ cur = Null /\ k.state[t] = RUNNING
    /\ cur' = t
    /\ k' = IF k.at[t] = Null THEN k ELSE SleepLeave(k, t)
    /\ UNCHANGED <<pc, count, chunk, open, sigpipe, data, overlap, race>>

(* the time slice ends in user mode *)
Preempt(t) ==
    /\ cur = t /\ pc[t] = "user"
    /\ cur' = Null
    /\ UNCHANGED <<k, pc, count, chunk, open, sigpipe, data, overlap, race>>

(* sys_read or sys_write of n bytes *)
Call(t, n) ==
    /\ cur = t /\ pc[t] = "user" /\ t \in open
    /\ pc' = [pc EXCEPT ![t] = "loop"]
    /\ count' = [count EXCEPT ![t] = n]
    /\ UNCHANGED <<k, cur, chunk, open, sigpipe, data, overlap, race>>

Available(t) == IF t \in Readers THEN PIPE_SIZE ELSE Room

(* wake_up(&inode->i_wait) and return: count is used up, or the pipe       *)
(* cannot serve the rest and the other end is gone                         *)
Finish(t) ==
    /\ cur = t /\ pc[t] = "loop"
    /\ \/ count[t] = 0 /\ UNCHANGED sigpipe
       \/ /\ count[t] > 0 /\ Available(t) = 0 /\ i_count # 2
          /\ sigpipe' = sigpipe \cup ({t} \cap Writers)
    /\ k' = wake_up(k, Pipe)
    /\ pc' = [pc EXCEPT ![t] = "user"]
    /\ count' = [count EXCEPT ![t] = 0]
    /\ UNCHANGED <<cur, chunk, open, data, overlap, race>>

(* Faulty variant of Block: sleeps without waking the other side. *)
BlockQuietly(t) ==
    /\ cur = t /\ pc[t] = "loop"
    /\ count[t] > 0 /\ Available(t) = 0 /\ i_count = 2
    /\ k' = sleep_on(k, t, Pipe)
    /\ cur' = Null
    /\ UNCHANGED <<pc, count, chunk, open, sigpipe, data, overlap, race>>

(* the pipe cannot serve the call yet: wake_up(&inode->i_wait), then sleep *)
(* on the same queue                                                       *)
Block(t) ==
    LET woken == wake_up(k, Pipe)
    IN /\ cur = t /\ pc[t] = "loop"
       /\ count[t] > 0 /\ Available(t) = 0 /\ i_count = 2
       /\ k' = sleep_on(woken, t, Pipe)
       /\ overlap' = (overlap \/ \E u \in Members(k, Pipe) :
                                     woken.state[u] = RUNNING)
       /\ cur' = Null
       /\ UNCHANGED <<pc, count, chunk, open, sigpipe, data, race>>

(* The bytes of a claimed chunk, and the page with them filled in. *)
Bytes(c)  == [i \in 1 .. c.n |-> page[c.at + i - 1]]
Filled(c) == [i \in 0 .. PAGE_SIZE - 1 |->
                 IF i \in c.at .. c.at + c.n - 1 THEN c.from + i - c.at + 1
                 ELSE page[i]]

(* Copying between the page and user memory: at once, or interrupted by a  *)
(* page fault that sleeps.                                                 *)
Copy(t, c) ==
    \/ /\ got' = IF t \in Readers THEN got \o Bytes(c) ELSE got
       /\ page' = IF t \in Writers THEN Filled(c) ELSE page
       /\ UNCHANGED <<cur, pc, chunk>>
    \/ /\ Faults
       /\ chunk' = [chunk EXCEPT ![t] = c]
       /\ pc' = [pc EXCEPT ![t] = "copy"]
       /\ cur' = Null
       /\ UNCHANGED <<got, page>>

(* The ring was used while another process was inside an interrupted copy. *)
RecordRace(t) ==
    race' = (race \/ \E u \in Tasks \ {t} : pc[u] = "copy")

(* read_pipe claims a chunk by moving the tail, then copies it *)
ReadChunk(t) ==
    LET chars == Min3(PAGE_SIZE - PIPE_TAIL, count[t], PIPE_SIZE)
    IN /\ cur = t /\ pc[t] = "loop" /\ t \in Readers
       /\ count[t] > 0 /\ PIPE_SIZE > 0
       /\ count' = [count EXCEPT ![t] = @ - chars]
       /\ PIPE_TAIL' = (PIPE_TAIL + chars) % PAGE_SIZE
       /\ Copy(t, [at |-> PIPE_TAIL, n |-> chars, from |-> 0])
       /\ RecordRace(t)
       /\ UNCHANGED <<k, open, sigpipe, i_count, PIPE_HEAD, sent, overlap>>

(* write_pipe claims room by moving the head, then fills it *)
WriteChunk(t) ==
    LET chars == Min3(PAGE_SIZE - PIPE_HEAD, count[t], Room)
    IN /\ cur = t /\ pc[t] = "loop" /\ t \in Writers
       /\ count[t] > 0 /\ Room > 0
       /\ sent + chars <= MaxBytes
       /\ count' = [count EXCEPT ![t] = @ - chars]
       /\ PIPE_HEAD' = (PIPE_HEAD + chars) % PAGE_SIZE
       /\ sent' = sent + chars
       /\ Copy(t, [at |-> PIPE_HEAD, n |-> chars, from |-> sent])
       /\ RecordRace(t)
       /\ UNCHANGED <<k, open, sigpipe, i_count, PIPE_TAIL, overlap>>

(* the page fault is served and the copy goes on *)
CopyOn(t) ==
    /\ cur = t /\ pc[t] = "copy"
    /\ got' = IF t \in Readers THEN got \o Bytes(chunk[t]) ELSE got
    /\ page' = IF t \in Writers THEN Filled(chunk[t]) ELSE page
    /\ pc' = [pc EXCEPT ![t] = "loop"]
    /\ chunk' = [chunk EXCEPT ![t] = None]
    /\ UNCHANGED <<k, cur, count, open, sigpipe, pipe, sent, overlap, race>>

(* Faulty variant of sys_close: every close drops the inode's count. *)
sys_closeEach(t) ==
    /\ cur = t /\ pc[t] = "user" /\ t \in open
    /\ open' = open \ {t}
    /\ k' = wake_up(k, Pipe)
    /\ i_count' = i_count - 1
    /\ UNCHANGED <<cur, pc, count, chunk, sigpipe, PIPE_HEAD, PIPE_TAIL,
                   page, sent, got, overlap, race>>

(* sys_close, or exit: when the last process closes an end, iput() wakes   *)
(* the queue and drops the inode's count                                   *)
sys_close(t) ==
    LET end  == IF t \in Readers THEN Readers ELSE Writers
        last == open \cap end = {t}
    IN /\ cur = t /\ pc[t] = "user" /\ t \in open
       /\ open' = open \ {t}
       /\ k' = IF last THEN wake_up(k, Pipe) ELSE k
       /\ i_count' = IF last THEN i_count - 1 ELSE i_count
       /\ UNCHANGED <<cur, pc, count, chunk, sigpipe, PIPE_HEAD, PIPE_TAIL,
                      page, sent, got, overlap, race>>

PipeNext == \E t \in Tasks : \/ schedule(t) \/ Preempt(t)
                             \/ \E n \in 1 .. MaxCount : Call(t, n)
                             \/ Finish(t) \/ Block(t)
                             \/ ReadChunk(t) \/ WriteChunk(t) \/ CopyOn(t)
                             \/ sys_close(t)

PipeSpec == PipeInit /\ [][PipeNext]_pipeVars

-----------------------------------------------------------------------------
Waiting == {t \in Tasks : k.state[t] = UNINTERRUPTIBLE}

(* The bytes come out complete, once and in the order they went in, across *)
(* the wrap of the ring, partial reads and several readers, as long as no  *)
(* page fault lets another process into the ring in the middle of a copy.  *)
DataIntact == ~race => \A i \in 1 .. Len(got) : got[i] = i

(* A call gives up before its count is used only when every process has    *)
(* closed the other end, and a reader only after it has taken every byte.  *)
EarlyReturn ==
    [][\A t \in Tasks : (pc[t] = "loop" /\ pc'[t] = "user" /\ count[t] > 0) =>
         IF t \in Readers THEN open \cap Writers = {} /\ PIPE_SIZE = 0
                          ELSE open \cap Readers = {} /\ t \in sigpipe']_pipeVars

(* The processes that hold the pipe never all sleep on it, unless i_wait   *)
(* was entered before a woken process had left it.                         *)
NoMutualWait == ~overlap => open = {} \/ ~(open \subseteq Waiting)

(* The inductive invariant of the proofs.                                  *)
(* i_count is the number of ends that somebody has open.                   *)
OpenEnds == /\ i_count = (IF open \cap Readers = {} THEN 0 ELSE 1)
                          + (IF open \cap Writers = {} THEN 0 ELSE 1)
            /\ \A t \in Tasks : pc[t] # "user" => t \in open
Chunks == \A t \in Tasks : pc[t] = "copy" =>
              /\ chunk[t].at + chunk[t].n <= PAGE_SIZE
              /\ chunk[t].from + chunk[t].n <= sent \/ t \in Readers

(* Until the first overlap at most one process sleeps on the pipe, it can  *)
(* be woken, and it went to sleep while both ends were open.               *)
Places == \A t \in Tasks : /\ cur = t => k.at[t] = Null
                           /\ t \in Waiting => k.at[t] = Pipe
Alone == ~overlap =>
    /\ \A t, u \in Members(k, Pipe) : t = u
    /\ \A t \in Members(k, Pipe) :
           /\ k.tmp[t] = Null
           /\ k.head[Pipe] \in {t, Null}
           /\ k.head[Pipe] = Null => k.state[t] = RUNNING
    /\ Members(k, Pipe) = {} => k.head[Pipe] = Null
    /\ Waiting # {} => i_count = 2

(* The ring, were it p, and the bytes delivered, were they g, are what was *)
(* sent.  Until the first race this holds with the interrupted copy done.  *)
Wrap(x) == IF x >= PAGE_SIZE THEN x - PAGE_SIZE ELSE x
InRing(p, g) == /\ Len(g) + PIPE_SIZE = sent
                /\ \A i \in 1 .. Len(g) : g[i] = i
                /\ \A j \in 0 .. PIPE_SIZE - 1 :
                       p[Wrap(PIPE_TAIL + j)] = Len(g) + j + 1
Ring == ~race =>
    /\ \A t, u \in Tasks : pc[t] = "copy" /\ pc[u] = "copy" => t = u
    /\ (\A t \in Tasks : pc[t] # "copy") => InRing(page, got)
    /\ \A t \in Readers : pc[t] = "copy" => InRing(page, got \o Bytes(chunk[t]))
    /\ \A t \in Writers : pc[t] = "copy" => InRing(Filled(chunk[t]), got)

PipeInv == PipeTypeOK /\ OpenEnds /\ Chunks /\ Places /\ Alone /\ Ring
=============================================================================
