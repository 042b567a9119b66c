---------------------------- MODULE BufferCache ----------------------------
(***************************************************************************)
(* The buffer cache (fs/buffer.c) and its users file_read, file_write      *)
(* (fs/file_dev.c), block_read and block_write (fs/block_dev.c).           *)
(*                                                                         *)
(* A process keeps the processor (cur) until it waits: for a locked buffer *)
(* (the loops of wait_on_buffer and lock_buffer test the lock again, so    *)
(* waiting is a guard), on buffer_wait, for a free request, or in a page   *)
(* fault while it copies bytes.  Wait queues hand every wake-up on (module *)
(* WaitQueue says when), requests are BlockRequest's, one transfer is one  *)
(* step (HardDisk has its sectors).  Of the contents of a block it only    *)
(* matters whether they are what was last written to it: TRUE if so.       *)
(*                                                                         *)
(* Left out: the order of the free list (getblk takes any of the best      *)
(* buffers), the order in which the sync loops visit the buffers, and the  *)
(* sync_inodes call of sync_dev.                                           *)
(***************************************************************************)
EXTENDS Naturals, Sequences, FiniteSets

CONSTANTS Tasks, Buffers, Blocks, Null,
          DevOf,       \* the device of each block
          Floppies,    \* the devices check_disk_change looks at
          MayCall,     \* the calls each process makes
          MaxBlocks    \* bound on the blocks of one breada or bread_page

(* A call of a process: the function that gets its buffer, and when b_dirt *)
(* is set relative to the copy.  These are file_read, file_write,          *)
(* block_read, block_write of part of a block and of a whole one,          *)
(* do_no_page, sys_sync and check_disk_change.                             *)
Calls == {<<"bread", "no">>, <<"bread", "before">>, <<"breada", "no">>,
          <<"breada", "after">>, <<"getblk", "after">>, <<"bread_page", "no">>,
          <<"sync", "no">>, <<"invalidate", "no">>}
Pagers == {t \in Tasks : \E c \in MayCall[t] : c[1] \in {"breada", "bread_page"}}

ASSUME CacheAssumption == /\ DevOf \in [Blocks -> {DevOf[k] : k \in Blocks}]
                          /\ MaxBlocks \in Nat \ {0}
                          /\ Null \notin Tasks \cup Buffers \cup Blocks
                          /\ IsFiniteSet(Tasks) /\ IsFiniteSet(Buffers)
                          \* NR_TASKS is 64, and b_count an unsigned char
                          /\ Cardinality(Tasks) <= 255
                          \* breada and bread_page hold all their blocks
                          \* but the last while they ask for that one
                          /\ MayCall \in [Tasks -> SUBSET Calls]
                          /\ Cardinality(Buffers) >
                                 Cardinality(Pagers) * (MaxBlocks - 1)

VARIABLES
  buf,      \* the buffer heads; blk = Null stands for b_dev = 0
  disk,     \* the blocks as they are on disk
  r,        \* the processes: where they are and their local variables
  cur,      \* the running process
  excused   \* history: the blocks whose last write a named flaw destroyed
vars == <<buf, disk, r, cur, excused>>

Fns  == {"bread", "getblk", "breada", "bread_page", "sync", "invalidate"}
Pcs  == {"user", "getblk", "hash", "buffer_wait", "victim", "sync", "rw",
         "slot", "drop", "check", "copy", "brelse"}
Cmds == {"READ", "WRITE", "READA"}
User == [pc |-> "user", fn |-> "sync", wr |-> "no", todo |-> <<>>,
         held |-> <<>>, bh |-> Null, visit |-> {}, dev |-> Null,
         rq |-> [b |-> Null, cmd |-> "READ", ret |-> "user"]]

BufferType == [blk : Blocks \cup {Null},
               count : 0 .. 255,     \* an unsigned char
               lock : BOOLEAN, dirt : BOOLEAN, uptodate : BOOLEAN,
               data : BOOLEAN, io : {"none", "READ", "WRITE"}]
RequestType == [b : Buffers \cup {Null}, cmd : Cmds, ret : Pcs]
TaskType == [pc : Pcs, fn : Fns, wr : {"no", "before", "after"},
             todo : Seq(Blocks), held : Seq(Buffers),
             bh : Buffers \cup {Null}, visit : SUBSET ({1, 2} \X Buffers),
             dev : {DevOf[k] : k \in Blocks} \cup Floppies \cup {Null},
             rq : RequestType]

TypeOK == /\ buf \in [Buffers -> BufferType]
          /\ disk \in [Blocks -> BOOLEAN]
          /\ r \in [Tasks -> TaskType]
          /\ cur \in Tasks \cup {Null}
          /\ excused \subseteq Blocks

(* buffer_init *)
Init == /\ buf = [b \in Buffers |-> [blk |-> Null, count |-> 0,
                    lock |-> FALSE, dirt |-> FALSE, uptodate |-> FALSE,
                    data |-> FALSE, io |-> "none"]]
        /\ disk = [k \in Blocks |-> TRUE]
        /\ r = [t \in Tasks |-> User]
        /\ cur = Null
        /\ excused = {}

-----------------------------------------------------------------------------
(* t may run: it has the processor, or nobody has *)
At(t, pc) == r[t].pc = pc /\ cur \in {t, Null}

Set(t, rec) == r' = [r EXCEPT ![t] = rec]
Goto(t, pc) == r' = [r EXCEPT ![t].pc = pc]

(* the buffer the process cannot go on without; READA waits for none *)
Awaited(t) ==
    CASE r[t].pc \in {"hash", "victim", "check", "brelse"} -> {r[t].bh}
      [] r[t].pc = "rw" /\ r[t].rq.cmd # "READA" -> {r[t].rq.b}
      [] OTHER -> {}

(* wait_on_buffer, lock_buffer: sleep_on(&bh->b_wait) *)
wait_on_buffer(t) ==
    /\ cur = t
    /\ \E b \in Awaited(t) : buf[b].lock
    /\ cur' = Null
    /\ UNCHANGED <<buf, disk, r, excused>>

Unlocked(b) == ~buf[b].lock

-----------------------------------------------------------------------------
BlockLists(fn) ==
    {s \in UNION {[1 .. n -> Blocks] : n \in 1 .. MaxBlocks} :
        /\ Len(s) = 1 <=> fn \in {"bread", "getblk"}
        /\ \A i, j \in 1 .. Len(s) : /\ DevOf[s[i]] = DevOf[s[j]]
                                     /\ s[i] = s[j] => i = j}

Call(t, c, s) ==
    /\ At(t, "user")
    /\ c[1] \notin {"sync", "invalidate"}
    /\ Set(t, [User EXCEPT !.pc = "getblk", !.fn = c[1], !.wr = c[2],
                           !.todo = s])
    /\ cur' = t
    /\ UNCHANGED <<buf, disk, excused>>

(* sys_sync *)
sys_sync(t) ==
    /\ At(t, "user") /\ <<"sync", "no">> \in MayCall[t]
    /\ Set(t, [User EXCEPT !.pc = "sync", !.visit = {1} \X Buffers])
    /\ cur' = t
    /\ UNCHANGED <<buf, disk, excused>>

(* check_disk_change for a drive that reports a change *)
check_disk_change(t, d) ==
    /\ At(t, "user") /\ <<"invalidate", "no">> \in MayCall[t]
    /\ Set(t, [User EXCEPT !.pc = "sync", !.fn = "invalidate", !.dev = d,
                           !.visit = {1} \X Buffers])
    /\ cur' = t
    /\ UNCHANGED <<buf, disk, excused>>

-----------------------------------------------------------------------------
(* getblk *)
Want(t) == Head(r[t].todo)
find_buffer(k) == {b \in Buffers : buf[b].blk = k}
BADNESS(b) == (IF buf[b].dirt THEN 2 ELSE 0) + (IF buf[b].lock THEN 1 ELSE 0)
Unused == {b \in Buffers : buf[b].count = 0}

(* get_from_hash_table finds the block and takes a reference *)
Hit(t) ==
    /\ At(t, "getblk")
    /\ \E b \in find_buffer(Want(t)) :
         /\ buf' = [buf EXCEPT ![b].count = @ + 1]
         /\ Set(t, [r[t] EXCEPT !.pc = "hash", !.bh = b])
    /\ cur' = t
    /\ UNCHANGED <<disk, excused>>

(* every buffer is in use: sleep_on(&buffer_wait) *)
Full(t) ==
    /\ At(t, "getblk")
    /\ find_buffer(Want(t)) = {} /\ Unused = {}
    /\ Goto(t, "buffer_wait")
    /\ cur' = Null
    /\ UNCHANGED <<buf, disk, excused>>

(* the unused buffer that is cheapest to clean *)
Choose(t) ==
    /\ At(t, "getblk")
    /\ find_buffer(Want(t)) = {}
    /\ \E b \in Unused : /\ \A x \in Unused : BADNESS(b) <= BADNESS(x)
                         /\ Set(t, [r[t] EXCEPT !.pc = "victim", !.bh = b])
    /\ cur' = t
    /\ UNCHANGED <<buf, disk, excused>>

(* Where a process goes when it is done with a block: to the next one, or  *)
(* to the wait for the first.                                              *)
NextBlock(rec) ==
    IF rec.todo # <<>> THEN [rec EXCEPT !.pc = "getblk", !.bh = Null]
    ELSE [rec EXCEPT !.pc = "check", !.bh = Head(rec.held)]

(* getblk has returned b: the caller starts the transfer it needs.  The    *)
(* blocks read ahead are not kept.                                         *)
Got(t, b, uptodate) ==
    LET ahead == r[t].fn = "breada" /\ r[t].held # <<>>
        rec   == [r[t] EXCEPT !.bh = b, !.todo = Tail(@)]
        then  == IF ahead THEN [rec EXCEPT !.pc = "drop"]
                 ELSE NextBlock([rec EXCEPT !.held = Append(@, b)])
    IN IF r[t].fn = "getblk" THEN [then EXCEPT !.pc = "copy"]
       ELSE IF uptodate THEN then
       ELSE [then EXCEPT !.pc = "rw",
                         !.rq = [b |-> b, ret |-> then.pc,
                                 cmd |-> IF ahead THEN "READA" ELSE "READ"]]

(* get_from_hash_table after its wait *)
get_from_hash_table(t) ==
    LET b == r[t].bh
    IN /\ At(t, "hash") /\ Unlocked(b)
       /\ IF buf[b].blk = Want(t)
          THEN Set(t, Got(t, b, buf[b].uptodate)) /\ UNCHANGED buf
          ELSE /\ buf' = [buf EXCEPT ![b].count = @ - 1]
               /\ Goto(t, "getblk")
       /\ cur' = t
       /\ UNCHANGED <<disk, excused>>

(* the chosen buffer is taken for the wanted block *)
Taken(b, k) == [buf EXCEPT ![b] = [@ EXCEPT !.count = 1, !.dirt = FALSE,
                                            !.uptodate = FALSE, !.blk = k,
                                            !.data = FALSE]]

(* The three tests after each wait, with a faulty variant of each. *)
InUseNever(b)   == FALSE
InUse(b)        == buf[b].count > 0
MustSyncNever(b) == FALSE
MustSync(b)     == buf[b].dirt
PresentNever(k) == FALSE
Present(k)      == find_buffer(k) # {}

(* getblk after each wait for the chosen buffer: start again when somebody *)
(* uses it, sync_dev while it is dirty, start again when the block was     *)
(* added meanwhile, else take it                                           *)
Victim(t) ==
    LET b == r[t].bh
    IN /\ At(t, "victim") /\ Unlocked(b)
       /\ \/ /\ InUse(b) \/ (~MustSync(b) /\ Present(Want(t)))
             /\ Goto(t, "getblk") /\ UNCHANGED buf
          \/ /\ ~InUse(b) /\ MustSync(b)
             /\ Set(t, [r[t] EXCEPT !.pc = "sync", !.visit = {1, 2} \X Buffers,
                                    !.dev = DevOf[buf[b].blk]])
             /\ UNCHANGED buf
          \/ /\ ~InUse(b) /\ ~MustSync(b) /\ ~Present(Want(t))
             /\ buf' = Taken(b, Want(t))
             /\ Set(t, Got(t, b, FALSE))
       /\ cur' = t
       /\ UNCHANGED <<disk, excused>>

-----------------------------------------------------------------------------
(* One buffer of the loops of sys_sync, sync_dev (two passes) and          *)
(* invalidate_buffers.  The test of b_dev before the wait and the one      *)
(* after it are the same guard.                                            *)
Visited(t, b) ==
    r[t].dev = Null \/ (buf[b].blk # Null /\ DevOf[buf[b].blk] = r[t].dev)

Pass(t) == {v \in r[t].visit : \A x \in r[t].visit : v[1] <= x[1]}

(* the buffers of the pass that need nothing *)
SyncSkip(t) ==
    LET skip == {v \in Pass(t) :
                   ~Visited(t, v[2]) \/ (Unlocked(v[2]) /\ ~buf[v[2]].dirt
                                           /\ r[t].fn # "invalidate")}
    IN /\ At(t, "sync") /\ skip # {}
       /\ Set(t, [r[t] EXCEPT !.visit = @ \ skip])
       /\ cur' = t
       /\ UNCHANGED <<buf, disk, excused>>

(* a dirty buffer: ll_rw_block(WRITE, bh) *)
SyncWrite(t) ==
    /\ At(t, "sync") /\ r[t].fn # "invalidate"
    /\ \E v \in Pass(t) :
         /\ Visited(t, v[2]) /\ Unlocked(v[2]) /\ buf[v[2]].dirt
         /\ Set(t, [r[t] EXCEPT !.visit = @ \ {v}, !.pc = "rw",
                !.rq = [b |-> v[2], cmd |-> "WRITE", ret |-> "sync"]])
    /\ cur' = t
    /\ UNCHANGED <<buf, disk, excused>>

(* a buffer of the changed diskette *)
invalidate_buffers(t) ==
    /\ At(t, "sync") /\ r[t].fn = "invalidate"
    /\ \E v \in Pass(t) :
         /\ Visited(t, v[2]) /\ Unlocked(v[2])
         /\ Set(t, [r[t] EXCEPT !.visit = @ \ {v}])
         /\ buf' = [buf EXCEPT ![v[2]].dirt = FALSE, ![v[2]].uptodate = FALSE]
         /\ excused' = excused \cup {k \in {buf[v[2]].blk} : buf[v[2]].dirt}
    /\ cur' = t
    /\ UNCHANGED disk

(* a buffer of the pass is locked *)
SyncWait(t) ==
    /\ cur = t /\ r[t].pc = "sync"
    /\ \E v \in Pass(t) : Visited(t, v[2]) /\ buf[v[2]].lock
    /\ cur' = Null
    /\ UNCHANGED <<buf, disk, r, excused>>

(* the end of the loops: sys_sync and check_disk_change return, getblk     *)
(* waits for its buffer again                                              *)
SyncEnd(t) ==
    /\ At(t, "sync") /\ r[t].visit = {}
    /\ IF r[t].fn \in {"sync", "invalidate"}
       THEN Set(t, User) /\ cur' = Null
       ELSE Set(t, [r[t] EXCEPT !.pc = "victim", !.dev = Null]) /\ cur' = t
    /\ UNCHANGED <<buf, disk, excused>>

-----------------------------------------------------------------------------
(* ll_rw_block *)
Needed(q) == IF q.cmd = "WRITE" THEN buf[q.b].dirt ELSE ~buf[q.b].uptodate
Done(t)   == [r[t] EXCEPT !.pc = r[t].rq.ret, !.rq = User.rq]

(* add_request clears b_dirt, for reads too *)
Queued(q) ==
    [buf EXCEPT ![q.b] = [@ EXCEPT !.lock = TRUE, !.dirt = FALSE,
        !.io = IF q.cmd = "WRITE" THEN "WRITE" ELSE "READ"]]

(* a read of a buffer with a change that is nowhere else *)
Overwritten(q) == {k \in {buf[q.b].blk} : q.cmd # "WRITE" /\ buf[q.b].dirt}

(* the buffer is locked and the request queued, or not needed any more *)
make_request(t) ==
    LET q == r[t].rq
    IN /\ At(t, "rw")
       /\ Unlocked(q.b) \/ q.cmd = "READA"
       /\ Set(t, Done(t))
       /\ IF Unlocked(q.b) /\ Needed(q)
          THEN buf' = Queued(q) /\ excused' = excused \cup Overwritten(q)
          ELSE UNCHANGED <<buf, excused>>
       /\ cur' = t
       /\ UNCHANGED disk

(* no request is free: a read-ahead gives up, others sleep with the buffer *)
(* locked                                                                  *)
NoFreeRequest(t) ==
    LET q == r[t].rq
    IN /\ At(t, "rw") /\ Unlocked(q.b) /\ Needed(q)
       /\ IF q.cmd = "READA"
          THEN Set(t, Done(t)) /\ cur' = t /\ UNCHANGED buf
          ELSE /\ buf' = [buf EXCEPT ![q.b].lock = TRUE]
               /\ Goto(t, "slot") /\ cur' = Null
       /\ UNCHANGED <<disk, excused>>

(* a request has become free *)
RequestFree(t) ==
    /\ At(t, "slot")
    /\ buf' = Queued(r[t].rq)
    /\ excused' = excused \cup Overwritten(r[t].rq)
    /\ Set(t, Done(t))
    /\ cur' = t
    /\ UNCHANGED disk

(* end_request: the transfer has happened, or failed.  A failed write      *)
(* leaves a clean buffer: the change is lost.                              *)
end_request(b, uptodate) ==
    LET write == buf[b].io = "WRITE"
        k     == buf[b].blk
    IN /\ buf[b].io # "none"
       /\ disk' = IF write /\ uptodate THEN [disk EXCEPT ![k] = buf[b].data]
                  ELSE disk
       /\ buf' = [buf EXCEPT ![b] = [@ EXCEPT !.lock = FALSE, !.io = "none",
                    !.uptodate = uptodate,
                    !.data = IF write \/ ~uptodate THEN buf[b].data ELSE disk[k]]]
       /\ excused' = IF write /\ ~uptodate THEN excused \cup {k} ELSE excused
       /\ UNCHANGED <<r, cur>>

-----------------------------------------------------------------------------
(* breada: a block read ahead is given back without wake_up(&buffer_wait) *)
Drop(t) ==
    /\ At(t, "drop")
    /\ buf' = [buf EXCEPT ![r[t].bh].count = @ - 1]
    /\ Set(t, NextBlock(r[t]))
    /\ cur' = t
    /\ UNCHANGED <<disk, excused>>

(* bread and breada after their wait, bread_page before it copies a block  *)
(* to its page; file_write marks the buffer before it copies               *)
Check(t) ==
    LET b == r[t].bh
        ok == buf[b].uptodate /\ r[t].fn # "bread_page"
    IN /\ At(t, "check") /\ Unlocked(b)
       /\ Goto(t, IF ok THEN "copy" ELSE "brelse")
       /\ buf' = IF ok /\ r[t].wr = "before"
                 THEN [buf EXCEPT ![b].dirt = TRUE] ELSE buf
       /\ cur' = t
       /\ UNCHANGED <<disk, excused>>

(* get_fs_byte or put_fs_byte faults and the fault sleeps *)
PageFault(t) ==
    /\ cur = t /\ r[t].pc = "copy"
    /\ cur' = Null
    /\ UNCHANGED <<buf, disk, r, excused>>

(* the bytes are copied, which makes every other copy of the block old;    *)
(* block_write marks the buffer now.  The change is doomed if the buffer   *)
(* was marked clean meanwhile or is being read.                            *)
Copy(t) ==
    LET b == r[t].bh
        k == buf[b].blk
        dirt == r[t].wr = "after" \/ buf[b].dirt
    IN /\ At(t, "copy")
       /\ Goto(t, "brelse")
       /\ IF r[t].wr = "no" THEN UNCHANGED <<buf, disk, excused>>
          ELSE /\ buf' = [x \in Buffers |->
                    IF x = b THEN [buf[x] EXCEPT !.data = TRUE, !.dirt = dirt]
                    ELSE [buf[x] EXCEPT !.data = @ /\ buf[x].blk # k]]
               /\ disk' = [disk EXCEPT ![k] = FALSE]
               /\ excused' = IF dirt /\ buf[b].io # "READ" THEN excused \ {k}
                             ELSE excused \cup {k}
       /\ cur' = t

(* wake_up(&buffer_wait), with a faulty variant *)
WokenNever(rec) == rec
Woken(rec) == IF rec.pc = "buffer_wait" THEN [rec EXCEPT !.pc = "getblk"] ELSE rec

(* brelse; bread_page goes on with its next block *)
brelse(t) ==
    LET b    == r[t].bh
        held == Tail(r[t].held)
        mine == IF held = <<>> THEN User
                ELSE [r[t] EXCEPT !.pc = "check", !.held = held,
                                  !.bh = Head(held)]
    IN /\ At(t, "brelse") /\ Unlocked(b)
       /\ buf' = [buf EXCEPT ![b].count = @ - 1]
       /\ r' = [u \in Tasks |-> IF u = t THEN mine ELSE Woken(r[u])]
       /\ cur' = IF held = <<>> THEN Null ELSE t
       /\ UNCHANGED <<disk, excused>>

Kernel(t) ==
    \/ Hit(t) \/ Full(t) \/ Choose(t) \/ get_from_hash_table(t) \/ Victim(t)
    \/ SyncSkip(t) \/ SyncWrite(t) \/ invalidate_buffers(t)
    \/ SyncWait(t) \/ SyncEnd(t)
    \/ make_request(t) \/ NoFreeRequest(t) \/ RequestFree(t)
    \/ Drop(t) \/ Check(t) \/ PageFault(t) \/ Copy(t)
    \/ brelse(t) \/ wait_on_buffer(t)

Next == \/ \E t \in Tasks : Kernel(t)
        \/ \E t \in Tasks : \E c \in MayCall[t] : \E s \in BlockLists(c[1]) :
               Call(t, c, s)
        \/ \E t \in Tasks : sys_sync(t)
        \/ \E t \in Tasks, d \in Floppies : check_disk_change(t, d)
        \/ \E b \in Buffers, ok \in BOOLEAN : end_request(b, ok)

Spec == Init /\ [][Next]_vars

-----------------------------------------------------------------------------
(* No two buffers hold the same block, although getblk sleeps between      *)
(* looking a block up and adding it.                                       *)
OneBufferPerBlock ==
    \A a, b \in Buffers : buf[a].blk = buf[b].blk => a = b \/ buf[a].blk = Null

(* The references a process has to a buffer: those it keeps, and the one   *)
(* get_from_hash_table or a read-ahead has just taken.                     *)
Refers(t, b) ==
    \/ \E i \in 1 .. Len(r[t].held) : r[t].held[i] = b
    \/ /\ r[t].bh = b
       /\ r[t].pc \in {"hash", "drop"} \/ r[t].rq.ret = "drop"

(* b_count is the number of references, through hits, read-aheads, retries *)
(* and failed reads: no buffer leaks, and brelse never finds a count of 0. *)
CountExact ==
    \A b \in Buffers : buf[b].count = Cardinality({t \in Tasks : Refers(t, b)})

(* The last write of a block is on disk, on its way there or in a dirty    *)
(* buffer, and a buffer that is up to date has it.  The exceptions are the *)
(* blocks whose write an I/O error, an invalidation, a write of the buffer *)
(* during the copy of file_write or a read over the unread buffer of       *)
(* block_write has destroyed.                                              *)
Coherent ==
    \A k \in Blocks \ excused :
      /\ \/ disk[k]
         \/ \E b \in Buffers : /\ buf[b].blk = k /\ buf[b].data
                                /\ (buf[b].dirt \/ buf[b].io = "WRITE")
      /\ \A b \in Buffers : buf[b].blk = k /\ buf[b].uptodate
                                => buf[b].data

(* Whoever sleeps on buffer_wait sleeps while another process holds a      *)
(* buffer and is not asleep there itself: somebody will call brelse.       *)
WaitsForRelease ==
    (\E t \in Tasks : r[t].pc = "buffer_wait") =>
        \E t \in Tasks, b \in Buffers : Refers(t, b) /\ r[t].pc # "buffer_wait"

-----------------------------------------------------------------------------
(* The strengthening of these four that every step keeps.  Point is where  *)
(* a process goes on when its request has been made.                       *)
Point(t) == IF r[t].pc \in {"rw", "slot"} THEN r[t].rq.ret ELSE r[t].pc
Holds(t, b) == \E i \in 1 .. Len(r[t].held) : r[t].held[i] = b
Asks(t, k) == \E i \in 1 .. Len(r[t].todo) : r[t].todo[i] = k

(* The request a process is about to make is for a named buffer. *)
Requests(t) ==
    IF r[t].pc \in {"rw", "slot"}
    THEN /\ r[t].rq.ret \in {"getblk", "check", "drop", "sync"}
         /\ r[t].rq.b \in Buffers /\ buf[r[t].rq.b].blk \in Blocks
    ELSE r[t].rq = User.rq

(* A process that has been asked for blocks: todo are those it has not got *)
(* yet, held the buffers of those it got, and bh the one it works on.      *)
Reads(t) ==
    /\ Point(t) \in {"getblk", "hash", "buffer_wait", "victim", "sync"}
          => r[t].todo # <<>>
    /\ Point(t) \in {"hash", "victim", "sync", "drop"} => r[t].bh \in Buffers
    /\ Point(t) \in {"hash", "drop"} => ~Holds(t, r[t].bh)
    /\ Point(t) = "hash" => buf[r[t].bh].blk = Head(r[t].todo)
    /\ Point(t) = "drop" => r[t].fn = "breada"
    /\ Point(t) \in {"drop", "check", "copy", "brelse"} => r[t].held # <<>>
    /\ Point(t) \in {"check", "copy", "brelse"} => r[t].bh = Head(r[t].held)
    /\ Point(t) # "user"
    /\ r[t].fn \in {"bread", "getblk"} => Len(r[t].todo) + Len(r[t].held) <= 1
    /\ r[t].fn \in {"breada", "bread_page"} => t \in Pagers

Local(t) ==
    /\ r[t].pc = "user" => r[t] = User
    /\ IF r[t].fn \in {"sync", "invalidate"}
       THEN /\ Point(t) \in {"user", "sync"}
            /\ r[t].held = <<>> /\ r[t].todo = <<>>
       ELSE Reads(t)
    /\ Len(r[t].todo) + Len(r[t].held) <= MaxBlocks
    /\ \A i, j \in 1 .. Len(r[t].todo) : r[t].todo[i] = r[t].todo[j] => i = j
    /\ \A i, j \in 1 .. Len(r[t].held) : r[t].held[i] = r[t].held[j] => i = j
    /\ \A b \in Buffers : Holds(t, b) =>
          buf[b].blk \in Blocks /\ ~Asks(t, buf[b].blk)

(* Only a buffer that has had a block is dirty or transferred. *)
Named == \A b \in Buffers :
    buf[b].dirt \/ buf[b].io # "none" => buf[b].blk \in Blocks

CountInv == /\ TypeOK /\ Named
            /\ \A t \in Tasks : Requests(t) /\ Local(t)
            /\ OneBufferPerBlock /\ CountExact /\ WaitsForRelease

(* A buffer is locked from lock_buffer to end_request, by one process; one *)
(* that is to be written stays dirty until the request is queued.          *)
Locked == /\ \A b \in Buffers : buf[b].io # "none" => buf[b].lock
          /\ \A t \in Tasks : r[t].pc = "slot" =>
                /\ buf[r[t].rq.b].lock /\ buf[r[t].rq.b].io = "none"
                /\ r[t].rq.cmd = "WRITE" => buf[r[t].rq.b].dirt
                /\ \A u \in Tasks : r[u].pc = "slot" /\ r[u].rq.b = r[t].rq.b => u = t

(* What will be written is what was last written, and a buffer is not      *)
(* changed while it is read, except in the ways that are excused.          *)
Newest == \A b \in Buffers : buf[b].blk \in Blocks \ excused =>
    /\ buf[b].dirt \/ buf[b].io = "WRITE" => buf[b].data
    /\ ~(buf[b].dirt /\ buf[b].io = "READ")

CacheInv == Locked /\ Newest /\ Coherent
=============================================================================
