------------------------- MODULE BufferCacheProofs -------------------------
(* Proofs about BufferCache for any numbers of processes, buffers and      *)
(* blocks and any calls.                                                   *)
EXTENDS BufferCache, FiniteSetTheorems, TLAPS

-----------------------------------------------------------------------------
(* The first and the other elements of a sequence. *)
LEMMA HeadAndTail ==
    ASSUME NEW S, NEW s \in Seq(S), s # <<>>
    PROVE  /\ Len(s) \in Nat /\ Len(s) >= 1
           /\ Head(s) = s[1] /\ Head(s) \in S
           /\ Tail(s) \in Seq(S) /\ Len(Tail(s)) = Len(s) - 1
           /\ \A i \in 1 .. Len(s) - 1 : Tail(s)[i] = s[i + 1]
  OBVIOUS

(* A sequence with one more element. *)
LEMMA Appended ==
    ASSUME NEW S, NEW s \in Seq(S), NEW e \in S
    PROVE  /\ Append(s, e) \in Seq(S) /\ Len(Append(s, e)) = Len(s) + 1
           /\ Append(s, e) # <<>> /\ Head(Append(s, e)) \in S
           /\ Len(s) \in Nat
           /\ \A i \in 1 .. Len(s) : Append(s, e)[i] = s[i]
           /\ Append(s, e)[Len(s) + 1] = e
  OBVIOUS

(* What a process refers to: what it holds, and what it has just found or  *)
(* is about to drop.                                                       *)
LEMMA RefersPoint ==
    ASSUME NEW t \in Tasks, Requests(t), NEW b
    PROVE  Refers(t, b) <=> \/ Holds(t, b)
                            \/ r[t].bh = b /\ Point(t) \in {"hash", "drop"}
  BY DEF Requests, Refers, Holds, Point, User

(* The number of references is finite, at most that of processes, and      *)
(* positive for a buffer somebody refers to.                               *)
LEMMA RefsFinite ==
    ASSUME NEW b
    PROVE  LET S == {t \in Tasks : Refers(t, b)}
           IN /\ IsFiniteSet(S)
              /\ Cardinality(S) \in Nat
              /\ Cardinality(S) = 0 <=> S = {}
              /\ \A t \in Tasks \ S : Cardinality(S) < 255
  <1> DEFINE S == {t \in Tasks : Refers(t, b)}
  <1>1. S \subseteq Tasks /\ IsFiniteSet(Tasks)  BY CacheAssumption
  <1> HIDE DEF S
  <1>2. IsFiniteSet(S) /\ Cardinality(S) \in Nat
    BY <1>1, FS_Subset, FS_CardinalityType
  <1>3. Cardinality(S) = 0 <=> S = {}  BY <1>2, FS_EmptySet
  <1>4. \A t \in Tasks \ S : Cardinality(S) < 255
    <2> SUFFICES ASSUME NEW t \in Tasks \ S PROVE Cardinality(S) < 255
      OBVIOUS
    <2>1. S # Tasks  OBVIOUS
    <2>2. Cardinality(S) < Cardinality(Tasks) /\ Cardinality(Tasks) \in Nat
      BY <1>1, <2>1, FS_Subset, FS_CardinalityType
    <2> QED  BY <1>2, <2>2, CacheAssumption
  <1> QED  BY <1>2, <1>3, <1>4 DEF S

(* A buffer with a count of 0 is nobody's. *)
LEMMA UnusedFree ==
    ASSUME CountExact, NEW b \in Buffers
    PROVE  buf[b].count = 0 <=> \A t \in Tasks : ~Refers(t, b)
  <1> DEFINE S == {t \in Tasks : Refers(t, b)}
  <1>1. Cardinality(S) = 0 <=> S = {}  BY RefsFinite
  <1>2. buf[b].count = Cardinality(S)  BY DEF CountExact
  <1> QED  BY <1>1, <1>2

(* The other processes go on undisturbed when t takes a step: at most they *)
(* are woken, and only an unused buffer gets another block.                *)
LEMMA OthersKept ==
    ASSUME CountInv, TypeOK', NEW t,
           \A u \in Tasks \ {t} : r'[u] \in {r[u], Woken(r[u])},
           \A b \in Buffers : \/ buf'[b].blk = buf[b].blk
                              \/ buf[b].count = 0 /\ buf'[b].blk \in Blocks
    PROVE  \A u \in Tasks \ {t} : /\ Requests(u)' /\ Local(u)'
                                  /\ \A b : Refers(u, b)' <=> Refers(u, b)
  <1> SUFFICES ASSUME NEW u \in Tasks \ {t}
               PROVE  /\ Requests(u)' /\ Local(u)'
                      /\ \A b : Refers(u, b)' <=> Refers(u, b)
    OBVIOUS
  <1> DEFINE x == r[u] 
             y == r'[u]
  <1>0. Requests(u) /\ Local(u) /\ CountExact  BY DEF CountInv
  <1>1. x \in TaskType /\ y \in TaskType  BY DEF CountInv, TypeOK
  <1>2. /\ y.fn = x.fn /\ y.wr = x.wr /\ y.todo = x.todo /\ y.held = x.held
        /\ y.bh = x.bh /\ y.rq = x.rq
        /\ y = x \/ (x.pc = "buffer_wait" /\ y.pc = "getblk")
    <2>1. y = x \/ y = Woken(x)  OBVIOUS
    <2>2. CASE y = x
      <3> HIDE DEF x, y
      <3> QED  BY <2>2
    <2>3. CASE y # x
      <3>1. x.pc = "buffer_wait" /\ y = [x EXCEPT !.pc = "getblk"]
        BY <2>1, <2>3 DEF Woken
      <3> HIDE DEF x, y
      <3> QED  BY <3>1, <1>1 DEF TaskType
    <2> QED  BY <2>2, <2>3
  <1>3. \A b : Refers(u, b)' <=> Refers(u, b)
    BY <1>2 DEF Refers
  <1>4. /\ \A b : Holds(u, b)' <=> Holds(u, b)
        /\ \A k : Asks(u, k)' <=> Asks(u, k)
    BY <1>2 DEF Holds, Asks
  <1>5. \A b \in Buffers : Refers(u, b) => buf'[b].blk = buf[b].blk
    BY <1>0, UnusedFree
  <1>6. \/ Point(u)' = Point(u)
        \/ y.pc = "getblk" /\ Point(u) = "buffer_wait" /\ Point(u)' = "getblk"
    <2>1. CASE y = x
      <3>1. Point(u)' = IF y.pc \in {"rw", "slot"} THEN y.rq.ret ELSE y.pc
        BY DEF Point
      <3>2. Point(u) = IF x.pc \in {"rw", "slot"} THEN x.rq.ret ELSE x.pc
        BY DEF Point
      <3> HIDE DEF x, y
      <3> QED  BY <2>1, <3>1, <3>2
    <2>2. CASE x.pc = "buffer_wait" /\ y.pc = "getblk"  BY <2>2 DEF Point
    <2> QED  BY <1>2, <2>1, <2>2
  <1>7. Requests(u)'
    BY <1>0, <1>1, <1>2 DEF Requests
  <1>8. \A b \in Buffers : Holds(u, b)' =>
            buf'[b].blk \in Blocks /\ ~Asks(u, buf[b].blk)'
    <2> SUFFICES ASSUME NEW b \in Buffers, Holds(u, b)'
                 PROVE  buf'[b].blk \in Blocks /\ ~Asks(u, buf[b].blk)'
      OBVIOUS
    <2>1. Holds(u, b) /\ Refers(u, b)  BY <1>4 DEF Refers, Holds
    <2>2. buf'[b].blk = buf[b].blk  BY <2>1, <1>5
    <2>3. buf[b].blk \in Blocks /\ ~Asks(u, buf[b].blk)
      BY <2>1, <1>0 DEF Local
    <2> QED  BY <2>2, <2>3, <1>2 DEF Asks
  <1>9. Point(u) = "hash" => x.pc = "hash"
    BY <1>0 DEF Point, Requests
  <1>10. Reads(u) => Reads(u)'
    <2> SUFFICES ASSUME Reads(u) PROVE Reads(u)'  OBVIOUS
    <2>1. Point(u) = "hash" => buf'[x.bh].blk = buf[x.bh].blk
      BY <1>5, <1>9 DEF Reads, Refers
    <2> QED  BY <2>1, <1>2, <1>4, <1>6 DEF Reads
  <1>11. Local(u)'
    <2>1. y.pc = "user" => y = User  BY <1>0, <1>2 DEF Local
    <2>2. IF y.fn \in {"sync", "invalidate"}
          THEN /\ Point(u)' \in {"user", "sync"}
               /\ y.held = <<>> /\ y.todo = <<>>
          ELSE Reads(u)'
      BY <1>0, <1>2, <1>6, <1>10 DEF Local
    <2>3. /\ Len(y.todo) + Len(y.held) <= MaxBlocks
          /\ \A i, j \in 1 .. Len(y.todo) : y.todo[i] = y.todo[j] => i = j
          /\ \A i, j \in 1 .. Len(y.held) : y.held[i] = y.held[j] => i = j
      BY <1>0, <1>2 DEF Local
    <2> QED  BY <2>1, <2>2, <2>3, <1>8 DEF Local
  <1> QED  BY <1>3, <1>7, <1>11

-----------------------------------------------------------------------------
(* The count of a buffer stays exact when nobody's references to it        *)
(* change, ...                                                             *)
LEMMA CountSame ==
    ASSUME CountExact, NEW b \in Buffers,
           \A u \in Tasks : Refers(u, b)' <=> Refers(u, b),
           buf'[b].count = buf[b].count
    PROVE  buf'[b].count = Cardinality({u \in Tasks : Refers(u, b)'})
  <1>1. {u \in Tasks : Refers(u, b)'} = {u \in Tasks : Refers(u, b)}
    OBVIOUS
  <1> QED  BY <1>1 DEF CountExact

(* ... when one process gets one, ... *)
LEMMA CountGain ==
    ASSUME CountExact, NEW b \in Buffers, NEW t \in Tasks,
           \A u \in Tasks \ {t} : Refers(u, b)' <=> Refers(u, b),
           ~Refers(t, b), Refers(t, b)',
           buf'[b].count = buf[b].count + 1
    PROVE  buf'[b].count = Cardinality({u \in Tasks : Refers(u, b)'})
  <1> DEFINE S == {u \in Tasks : Refers(u, b)}
             T == {u \in Tasks : Refers(u, b)'}
  <1>1. T = S \cup {t} /\ t \notin S  OBVIOUS
  <1>2. IsFiniteSet(S) /\ buf[b].count = Cardinality(S)
    BY RefsFinite DEF CountExact
  <1> HIDE DEF S, T
  <1>3. Cardinality(T) = Cardinality(S) + 1
    BY <1>1, <1>2, FS_AddElement
  <1> QED  BY <1>2, <1>3 DEF T

(* ... and when one gives its up. *)
LEMMA CountLoss ==
    ASSUME CountExact, NEW b \in Buffers, NEW t \in Tasks,
           \A u \in Tasks \ {t} : Refers(u, b)' <=> Refers(u, b),
           Refers(t, b), ~Refers(t, b)',
           buf'[b].count = buf[b].count - 1
    PROVE  buf'[b].count = Cardinality({u \in Tasks : Refers(u, b)'})
  <1> DEFINE S == {u \in Tasks : Refers(u, b)}
             T == {u \in Tasks : Refers(u, b)'}
  <1>1. T = S \ {t} /\ t \in S  OBVIOUS
  <1>2. IsFiniteSet(S) /\ buf[b].count = Cardinality(S)
    BY RefsFinite DEF CountExact
  <1> HIDE DEF S, T
  <1>3. Cardinality(T) = Cardinality(S) - 1
    BY <1>1, <1>2, FS_RemoveElement
  <1> QED  BY <1>2, <1>3 DEF T

(* Somebody keeps a buffer and does not sleep on buffer_wait as long as    *)
(* nobody goes to sleep there and the process that moves keeps one, if it  *)
(* had one.                                                                *)
LEMMA ReleaserKept ==
    ASSUME WaitsForRelease, NEW t \in Tasks,
           \A u \in Tasks \ {t} : r'[u] = r[u],
           \A u \in Tasks \ {t} : \A b : Refers(u, b)' <=> Refers(u, b),
           r'[t].pc # "buffer_wait",
           (\E b \in Buffers : Refers(t, b)) => \E b \in Buffers : Refers(t, b)'
    PROVE  WaitsForRelease'
  <1> SUFFICES ASSUME NEW w \in Tasks, r'[w].pc = "buffer_wait"
               PROVE  \E u \in Tasks, b \in Buffers :
                          Refers(u, b)' /\ r'[u].pc # "buffer_wait"
    BY DEF WaitsForRelease
  <1>1. r[w].pc = "buffer_wait"  OBVIOUS
  <1>2. PICK u \in Tasks, b \in Buffers :
            Refers(u, b) /\ r[u].pc # "buffer_wait"
    BY <1>1 DEF WaitsForRelease
  <1>3. CASE u = t  BY <1>2, <1>3
  <1>4. CASE u # t  BY <1>2, <1>4
  <1> QED  BY <1>3, <1>4

(* A step of t keeps CountInv if it keeps what is t's own, and counts the  *)
(* references that t gets and loses.                                       *)
LEMMA StepKept ==
    ASSUME CountInv, TypeOK', Named', NEW t \in Tasks,
           \A u \in Tasks \ {t} : r'[u] = r[u],
           r'[t].pc # "buffer_wait",
           \A b \in Buffers : \/ buf'[b].blk = buf[b].blk
                              \/ buf[b].count = 0 /\ buf'[b].blk \in Blocks,
           OneBufferPerBlock',
           Requests(t)', Local(t)',
           \A b \in Buffers :
              \/ /\ Refers(t, b)' <=> Refers(t, b)
                 /\ buf'[b].count = buf[b].count
              \/ ~Refers(t, b) /\ Refers(t, b)' /\ buf'[b].count = buf[b].count + 1
              \/ Refers(t, b) /\ ~Refers(t, b)' /\ buf'[b].count = buf[b].count - 1,
           (\E b \in Buffers : Refers(t, b)) => \E b \in Buffers : Refers(t, b)'
    PROVE  CountInv'
  <1>1. \A u \in Tasks \ {t} : /\ Requests(u)' /\ Local(u)'
                                /\ \A b : Refers(u, b)' <=> Refers(u, b)
    BY OthersKept
  <1>2. CountExact /\ WaitsForRelease  BY DEF CountInv
  <1>3. WaitsForRelease'  BY <1>1, <1>2, ReleaserKept
  <1>4. CountExact'
    <2> SUFFICES ASSUME NEW b \in Buffers
                 PROVE  buf'[b].count = Cardinality({u \in Tasks : Refers(u, b)'})
      BY DEF CountExact
    <2>1. CASE /\ Refers(t, b)' <=> Refers(t, b)
               /\ buf'[b].count = buf[b].count
      <3>1. \A u \in Tasks : Refers(u, b)' <=> Refers(u, b)
        BY <1>1, <2>1
      <3> QED  BY <1>2, <2>1, <3>1, CountSame
    <2>2. CASE ~Refers(t, b) /\ Refers(t, b)' /\ buf'[b].count = buf[b].count + 1
      BY <1>1, <1>2, <2>2, CountGain
    <2>3. CASE Refers(t, b) /\ ~Refers(t, b)' /\ buf'[b].count = buf[b].count - 1
      BY <1>1, <1>2, <2>3, CountLoss
    <2> QED  BY <2>1, <2>2, <2>3
  <1>5. \A u \in Tasks : Requests(u)' /\ Local(u)'  BY <1>1
  <1> QED  BY <1>3, <1>4, <1>5 DEF CountInv

(* Every call of a function that reads has its own part of Local. *)
LEMMA ReadsIf ==
    ASSUME CountInv, NEW t \in Tasks, Point(t) \notin {"user", "sync"}
    PROVE  Reads(t) /\ r[t].fn \notin {"sync", "invalidate"}
  BY DEF CountInv, Local

(* A step in which no process moves and no buffer changes hands. *)
LEMMA IdleKept ==
    ASSUME CountInv, TypeOK', Named', r' = r,
           \A b \in Buffers : /\ buf'[b].blk = buf[b].blk
                              /\ buf'[b].count = buf[b].count
    PROVE  CountInv'
  <1>1. Null \notin Tasks  BY CacheAssumption
  <1>2. \A u \in Tasks : /\ Requests(u)' /\ Local(u)'
                         /\ \A b : Refers(u, b)' <=> Refers(u, b)
    <2>1. \A u \in Tasks \ {Null} : r'[u] \in {r[u], Woken(r[u])}  OBVIOUS
    <2>2. \A u \in Tasks \ {Null} : /\ Requests(u)' /\ Local(u)'
                                     /\ \A b : Refers(u, b)' <=> Refers(u, b)
      BY <2>1, OthersKept
    <2> QED  BY <1>1, <2>2
  <1>3. CountExact /\ WaitsForRelease /\ OneBufferPerBlock  BY DEF CountInv
  <1>4. CountExact'
    <2> SUFFICES ASSUME NEW b \in Buffers
                 PROVE  buf'[b].count = Cardinality({u \in Tasks : Refers(u, b)'})
      BY DEF CountExact
    <2> QED  BY <1>2, <1>3, CountSame
  <1>5. WaitsForRelease'  BY <1>2, <1>3 DEF WaitsForRelease
  <1>6. OneBufferPerBlock'  BY <1>3 DEF OneBufferPerBlock
  <1> QED  BY <1>2, <1>4, <1>5, <1>6 DEF CountInv

(* A step that only changes which request a process is about to make. *)
LEMMA RequestKept ==
    ASSUME CountInv, TypeOK', Named', NEW t \in Tasks,
           \A u \in Tasks \ {t} : r'[u] = r[u],
           r'[t].fn = r[t].fn, r'[t].todo = r[t].todo,
           r'[t].held = r[t].held, r'[t].bh = r[t].bh,
           r'[t].pc \notin {"user", "buffer_wait"},
           Point(t)' = Point(t),
           Requests(t)',
           \A b \in Buffers : /\ buf'[b].blk = buf[b].blk
                              /\ buf'[b].count = buf[b].count
    PROVE  CountInv'
  <1> DEFINE x == r[t]
             y == r'[t]
  <1>1. Requests(t) /\ Local(t)  BY DEF CountInv
  <1>2. \A b : Holds(t, b)' <=> Holds(t, b)  BY DEF Holds
  <1>3. \A b : Refers(t, b)' <=> Refers(t, b)
    <2> TAKE b
    <2>1. Refers(t, b) <=> \/ Holds(t, b)
                           \/ r[t].bh = b /\ Point(t) \in {"hash", "drop"}
      BY <1>1, RefersPoint
    <2>2. Refers(t, b)' <=> \/ Holds(t, b)'
                            \/ r'[t].bh = b /\ Point(t)' \in {"hash", "drop"}
      BY DEF Requests, Refers, Holds, Point, User
    <2> QED  BY <1>2, <2>1, <2>2
  <1>4. \A k : Asks(t, k)' <=> Asks(t, k)  BY DEF Asks
  <1>5. Reads(t) => Reads(t)'
    <2> SUFFICES ASSUME Reads(t) PROVE Reads(t)'  OBVIOUS
    <2>1. Point(t) = "hash" => buf'[x.bh].blk = buf[x.bh].blk
      BY DEF Reads
    <2> QED  BY <2>1, <1>2 DEF Reads
  <1>6. \A b \in Buffers : Holds(t, b)' =>
            buf'[b].blk \in Blocks /\ ~Asks(t, buf[b].blk)'
    <2> SUFFICES ASSUME NEW b \in Buffers, Holds(t, b)'
                 PROVE  buf'[b].blk \in Blocks /\ ~Asks(t, buf[b].blk)'
      OBVIOUS
    <2>1. buf[b].blk \in Blocks /\ ~Asks(t, buf[b].blk)
      BY <1>1, <1>2 DEF Local
    <2> QED  BY <2>1 DEF Asks
  <1>7. Local(t)'
    <2>1. y.pc = "user" => y = User  OBVIOUS
    <2>2. IF y.fn \in {"sync", "invalidate"}
          THEN /\ Point(t)' \in {"user", "sync"}
               /\ y.held = <<>> /\ y.todo = <<>>
          ELSE Reads(t)'
      BY <1>1, <1>5 DEF Local
    <2>3. /\ Len(y.todo) + Len(y.held) <= MaxBlocks
          /\ \A i, j \in 1 .. Len(y.todo) : y.todo[i] = y.todo[j] => i = j
          /\ \A i, j \in 1 .. Len(y.held) : y.held[i] = y.held[j] => i = j
      BY <1>1 DEF Local
    <2> QED  BY <2>1, <2>2, <2>3, <1>6 DEF Local
  <1>8. OneBufferPerBlock'  BY DEF OneBufferPerBlock, CountInv
  <1> QED  BY <1>3, <1>7, <1>8, StepKept

(* A step of a process that reads within getblk, or within the use of the  *)
(* buffer it has got.                                                      *)
LEMMA MoveKept ==
    ASSUME CountInv, TypeOK', Named', NEW t \in Tasks,
           \A u \in Tasks \ {t} : r'[u] = r[u],
           r[t].fn \notin {"sync", "invalidate"},
           r'[t].fn = r[t].fn, r'[t].todo = r[t].todo,
           r'[t].held = r[t].held, r'[t].rq = r[t].rq,
           \/ /\ r[t].pc \in {"getblk", "victim", "sync"}
              /\ r'[t].pc \in {"getblk", "victim", "sync"}
              /\ r'[t].pc # "getblk" => r'[t].bh \in Buffers
           \/ /\ r[t].pc \in {"check", "copy"}
              /\ r'[t].pc \in {"copy", "brelse"}
              /\ r'[t].bh = r[t].bh,
           \A b \in Buffers : /\ buf'[b].blk = buf[b].blk
                              /\ buf'[b].count = buf[b].count
    PROVE  CountInv'
  <1> DEFINE x == r[t]
             y == r'[t]
  <1>1. Requests(t) /\ Local(t) /\ Reads(t)  BY DEF CountInv, Local
  <1>2. x.rq = User.rq /\ Requests(t)'  BY <1>1 DEF Requests
  <1>3. Point(t) = x.pc /\ Point(t)' = y.pc  BY DEF Point
  <1>4. \A b : Holds(t, b)' <=> Holds(t, b)  BY DEF Holds
  <1>5. \A b : Refers(t, b)' <=> Refers(t, b)
    BY <1>2 DEF Refers, User
  <1>6. Reads(t)'
    BY <1>1, <1>3 DEF Reads
  <1>7. \A b \in Buffers : Holds(t, b)' =>
            buf'[b].blk \in Blocks /\ ~Asks(t, buf[b].blk)'
    <2> SUFFICES ASSUME NEW b \in Buffers, Holds(t, b)'
                 PROVE  buf'[b].blk \in Blocks /\ ~Asks(t, buf[b].blk)'
      OBVIOUS
    <2>1. buf[b].blk \in Blocks /\ ~Asks(t, buf[b].blk)
      BY <1>1, <1>4 DEF Local
    <2> QED  BY <2>1 DEF Asks
  <1>8. Local(t)'
    <2>1. /\ y.pc # "user"
          /\ Len(y.todo) + Len(y.held) <= MaxBlocks
          /\ \A i, j \in 1 .. Len(y.todo) : y.todo[i] = y.todo[j] => i = j
          /\ \A i, j \in 1 .. Len(y.held) : y.held[i] = y.held[j] => i = j
      BY <1>1 DEF Local
    <2> QED  BY <2>1, <1>6, <1>7 DEF Local
  <1>9. OneBufferPerBlock'  BY DEF OneBufferPerBlock, CountInv
  <1> QED  BY <1>2, <1>5, <1>8, <1>9, StepKept

-----------------------------------------------------------------------------
(* The steps in which no process moves. *)
LEMMA WaitStep ==
    ASSUME CountInv, NEW t \in Tasks,
           wait_on_buffer(t) \/ SyncWait(t) \/ PageFault(t)
    PROVE  CountInv'
  <1>1. buf' = buf /\ disk' = disk /\ r' = r /\ excused' = excused /\ cur' = Null
    BY DEF wait_on_buffer, SyncWait, PageFault
  <1>2. TypeOK'  BY <1>1 DEF CountInv, TypeOK
  <1>3. Named'  BY <1>1 DEF CountInv, Named
  <1> QED  BY <1>1, <1>2, <1>3, IdleKept

(* The driver ends a request. *)
LEMMA EndStep ==
    ASSUME CountInv, NEW b \in Buffers, NEW ok \in BOOLEAN, end_request(b, ok)
    PROVE  CountInv'
  <1> DEFINE k == buf[b].blk
  <1>1. /\ buf[b] \in BufferType /\ disk \in [Blocks -> BOOLEAN]
        /\ buf \in [Buffers -> BufferType] /\ excused \subseteq Blocks
    BY DEF CountInv, TypeOK
  <1>2. k \in Blocks /\ disk[k] \in BOOLEAN
    BY <1>1 DEF CountInv, Named, end_request
  <1> DEFINE d == IF buf[b].io = "WRITE" \/ ~ok THEN buf[b].data ELSE disk[k]
  <1>0. d \in BOOLEAN  BY <1>1, <1>2 DEF BufferType
  <1>3. buf' = [buf EXCEPT ![b] = [buf[b] EXCEPT !.lock = FALSE, !.io = "none",
                                        !.uptodate = ok, !.data = d]]
    BY DEF end_request
  <1> HIDE DEF d
  <1> DEFINE y == [buf[b] EXCEPT !.lock = FALSE, !.io = "none",
                                 !.uptodate = ok, !.data = d]
  <1>4. /\ y \in BufferType /\ y.blk = buf[b].blk /\ y.count = buf[b].count
        /\ y.dirt = buf[b].dirt /\ y.io = "none"
    BY <1>0, <1>1, ZenonT(60) DEF BufferType
  <1> HIDE DEF y
  <1>5. /\ buf' \in [Buffers -> BufferType]
        /\ \A c \in Buffers : c # b => buf'[c] = buf[c]
        /\ buf'[b] = y
    BY <1>1, <1>3, <1>4 DEF y
  <1>6. disk' \in [Blocks -> BOOLEAN] /\ excused' \subseteq Blocks
    BY <1>1, <1>2 DEF end_request, BufferType
  <1>7. r' = r /\ cur' = cur  BY DEF end_request
  <1>8. TypeOK'  BY <1>5, <1>6, <1>7 DEF CountInv, TypeOK
  <1>9. Named'  BY <1>4, <1>5 DEF CountInv, Named
  <1>10. \A c \in Buffers : /\ buf'[c].blk = buf[c].blk
                            /\ buf'[c].count = buf[c].count
    BY <1>4, <1>5
  <1> QED  BY <1>7, <1>8, <1>9, <1>10, IdleKept

(* A process goes through the buffers, or asks for the write of one. *)
LEMMA SyncSkipStep ==
    ASSUME CountInv, NEW t \in Tasks, SyncSkip(t)
    PROVE  CountInv'
  <1>1. PICK skip : r' = [r EXCEPT ![t] = [r[t] EXCEPT !.visit = @ \ skip]]
    BY DEF SyncSkip, Set
  <1>2. r \in [Tasks -> TaskType] /\ r[t] \in TaskType /\ r[t].pc = "sync"
    BY DEF CountInv, TypeOK, SyncSkip, At
  <1> DEFINE y == [r[t] EXCEPT !.visit = @ \ skip]
  <1>3. /\ y \in TaskType /\ y.fn = r[t].fn /\ y.todo = r[t].todo
        /\ y.held = r[t].held /\ y.bh = r[t].bh /\ y.rq = r[t].rq
        /\ y.pc = r[t].pc
    BY <1>2 DEF TaskType
  <1> HIDE DEF y
  <1>4. /\ r' \in [Tasks -> TaskType] /\ r'[t] = y
        /\ \A u \in Tasks \ {t} : r'[u] = r[u]
    BY <1>1, <1>2, <1>3 DEF y
  <1>5. buf' = buf /\ disk' = disk /\ excused' = excused /\ cur' = t
    BY DEF SyncSkip
  <1>6. TypeOK'  BY <1>4, <1>5 DEF CountInv, TypeOK
  <1>7. Named'  BY <1>5 DEF CountInv, Named
  <1>8. Point(t)' = Point(t) /\ Requests(t)'
    BY <1>2, <1>3, <1>4 DEF Point, Requests, CountInv
  <1> QED  BY <1>2, <1>3, <1>4, <1>5, <1>6, <1>7, <1>8, RequestKept

(* sync_dev and sys_sync: the next dirty buffer is given to ll_rw_block. *)
LEMMA SyncWriteStep ==
    ASSUME CountInv, NEW t \in Tasks, SyncWrite(t)
    PROVE  CountInv'
  <1>1. PICK v \in Pass(t) :
          /\ buf[v[2]].dirt
          /\ r' = [r EXCEPT ![t] = [r[t] EXCEPT !.visit = @ \ {v}, !.pc = "rw",
                !.rq = [b |-> v[2], cmd |-> "WRITE", ret |-> "sync"]]]
    BY DEF SyncWrite, Set
  <1>2. r \in [Tasks -> TaskType] /\ r[t] \in TaskType /\ r[t].pc = "sync"
    BY DEF CountInv, TypeOK, SyncWrite, At
  <1>3. v[2] \in Buffers /\ buf[v[2]].blk \in Blocks
    <2>1. v \in {1, 2} \X Buffers  BY <1>2 DEF Pass, TaskType
    <2> QED  BY <2>1, <1>1 DEF CountInv, Named
  <1> DEFINE q == [b |-> v[2], cmd |-> "WRITE", ret |-> "sync"]
             y == [r[t] EXCEPT !.visit = @ \ {v}, !.pc = "rw", !.rq = q]
  <1>4. q \in RequestType /\ q.b = v[2] /\ q.ret = "sync"
    BY <1>3 DEF RequestType, Cmds, Pcs
  <1>5. r' = [r EXCEPT ![t] = y]  BY <1>1
  <1> HIDE DEF q
  <1>6. /\ y \in TaskType /\ y.fn = r[t].fn /\ y.todo = r[t].todo
        /\ y.held = r[t].held /\ y.bh = r[t].bh /\ y.rq = q
        /\ y.pc = "rw"
    BY <1>2, <1>4 DEF TaskType, Pcs
  <1> HIDE DEF y
  <1>7. /\ r' \in [Tasks -> TaskType] /\ r'[t] = y
        /\ \A u \in Tasks \ {t} : r'[u] = r[u]
    BY <1>5, <1>2, <1>6
  <1>8. buf' = buf /\ disk' = disk /\ excused' = excused /\ cur' = t
    BY DEF SyncWrite
  <1>9. TypeOK'  BY <1>7, <1>8 DEF CountInv, TypeOK
  <1>10. Named'  BY <1>8 DEF CountInv, Named
  <1>11. Point(t)' = Point(t) /\ Requests(t)'
    BY <1>2, <1>3, <1>4, <1>6, <1>7, <1>8 DEF Point, Requests
  <1> QED  BY <1>6, <1>7, <1>8, <1>9, <1>10, <1>11, RequestKept

(* invalidate_buffers: a buffer of the device is no longer valid. *)
LEMMA InvalidateStep ==
    ASSUME CountInv, NEW t \in Tasks, invalidate_buffers(t)
    PROVE  CountInv'
  <1>1. PICK v \in Pass(t) :
          /\ r' = [r EXCEPT ![t] = [r[t] EXCEPT !.visit = @ \ {v}]]
          /\ buf' = [buf EXCEPT ![v[2]].dirt = FALSE, ![v[2]].uptodate = FALSE]
          /\ excused' = excused \cup {k \in {buf[v[2]].blk} : buf[v[2]].dirt}
    BY DEF invalidate_buffers, Set
  <1>2. /\ r \in [Tasks -> TaskType] /\ r[t] \in TaskType /\ r[t].pc = "sync"
        /\ buf \in [Buffers -> BufferType] /\ excused \subseteq Blocks
    BY DEF CountInv, TypeOK, invalidate_buffers, At
  <1>3. v[2] \in Buffers
    <2>1. v \in {1, 2} \X Buffers  BY <1>2 DEF Pass, TaskType
    <2> QED  BY <2>1
  <1>4. buf[v[2]].dirt => buf[v[2]].blk \in Blocks
    BY <1>3 DEF CountInv, Named
  <1> DEFINE y == [r[t] EXCEPT !.visit = @ \ {v}]
  <1>5. /\ y \in TaskType /\ y.fn = r[t].fn /\ y.todo = r[t].todo
        /\ y.held = r[t].held /\ y.bh = r[t].bh /\ y.rq = r[t].rq
        /\ y.pc = r[t].pc
    BY <1>2 DEF TaskType
  <1> HIDE DEF y
  <1>6. /\ r' \in [Tasks -> TaskType] /\ r'[t] = y
        /\ \A u \in Tasks \ {t} : r'[u] = r[u]
    BY <1>1, <1>2, <1>5 DEF y
  <1> DEFINE a == v[2]
             z == [buf[a] EXCEPT !.dirt = FALSE, !.uptodate = FALSE]
  <1>7. a \in Buffers /\ buf[a] \in BufferType  BY <1>2, <1>3
  <1>8. buf' = [buf EXCEPT ![a] = z]
    <2>1. buf' = [buf EXCEPT ![a].dirt = FALSE, ![a].uptodate = FALSE]
      BY <1>1
    <2> HIDE DEF a
    <2> QED  BY <1>2, <1>7, <2>1 DEF BufferType
  <1> HIDE DEF a
  <1>9. /\ z \in BufferType /\ z.blk = buf[a].blk /\ z.count = buf[a].count
        /\ z.io = buf[a].io /\ z.dirt = FALSE
    BY <1>7 DEF BufferType
  <1> HIDE DEF z
  <1>10. /\ \A b \in Buffers : b # a => buf'[b] = buf[b]
         /\ buf'[a] = z
    BY <1>2, <1>7, <1>8
  <1>11. /\ \A b \in Buffers : /\ buf'[b].blk = buf[b].blk
                                /\ buf'[b].count = buf[b].count
    BY <1>9, <1>10
  <1>12. disk' = disk /\ cur' = t  BY DEF invalidate_buffers
  <1>13. TypeOK'
    <2>1. buf' \in [Buffers -> BufferType]  BY <1>2, <1>7, <1>8, <1>9
    <2>2. excused' \subseteq Blocks  BY <1>1, <1>2, <1>4
    <2> QED  BY <1>6, <1>12, <2>1, <2>2 DEF CountInv, TypeOK
  <1>14. Named'  BY <1>7, <1>9, <1>10 DEF CountInv, Named
  <1>15. Point(t)' = Point(t) /\ Requests(t)'
    BY <1>2, <1>5, <1>6 DEF Point, Requests, CountInv
  <1> QED  BY <1>2, <1>5, <1>6, <1>11, <1>13, <1>14, <1>15, RequestKept

(* Where a process is when its request has been made. *)
LEMMA DoneFacts ==
    ASSUME CountInv, NEW t \in Tasks, r[t].pc \in {"rw", "slot"}
    PROVE  /\ r[t].rq.b \in Buffers /\ buf[r[t].rq.b].blk \in Blocks
           /\ Done(t) \in TaskType
           /\ Done(t).fn = r[t].fn /\ Done(t).todo = r[t].todo
           /\ Done(t).held = r[t].held /\ Done(t).bh = r[t].bh
           /\ Done(t).rq = User.rq
           /\ Done(t).pc = Point(t)
           /\ Done(t).pc \in {"getblk", "check", "drop", "sync"}
  <1>1. r[t] \in TaskType /\ Requests(t)  BY DEF CountInv, TypeOK
  <1>2. /\ r[t].rq.b \in Buffers /\ buf[r[t].rq.b].blk \in Blocks
        /\ r[t].rq.ret \in {"getblk", "check", "drop", "sync"}
    BY <1>1 DEF Requests
  <1>3. Point(t) = r[t].rq.ret  BY DEF Point
  <1>4. User.rq \in RequestType  BY DEF User, RequestType, Cmds, Pcs
  <1> DEFINE u == User.rq
             p == r[t].rq.ret
  <1>5. Done(t) = [r[t] EXCEPT !.pc = p, !.rq = u]  BY DEF Done
  <1>6. u \in RequestType /\ p \in {"getblk", "check", "drop", "sync"}
    BY <1>2, <1>4
  <1> HIDE DEF u, p
  <1>7. /\ Done(t) \in TaskType
        /\ Done(t).fn = r[t].fn /\ Done(t).todo = r[t].todo
        /\ Done(t).held = r[t].held /\ Done(t).bh = r[t].bh
        /\ Done(t).rq = u /\ Done(t).pc = p
    BY <1>1, <1>5, <1>6 DEF TaskType, Pcs
  <1> QED  BY <1>2, <1>3, <1>6, <1>7 DEF u, p

(* The step to that place. *)
LEMMA DoneKept ==
    ASSUME CountInv, Named', NEW t \in Tasks, r[t].pc \in {"rw", "slot"},
           r' = [r EXCEPT ![t] = Done(t)], cur' = t, disk' = disk,
           buf' \in [Buffers -> BufferType], excused' \subseteq Blocks,
           \A b \in Buffers : /\ buf'[b].blk = buf[b].blk
                              /\ buf'[b].count = buf[b].count
    PROVE  CountInv'
  <1> DEFINE y == Done(t)
  <1>1. /\ y \in TaskType
        /\ y.fn = r[t].fn /\ y.todo = r[t].todo
        /\ y.held = r[t].held /\ y.bh = r[t].bh
        /\ y.rq = User.rq /\ y.pc = Point(t)
        /\ y.pc \in {"getblk", "check", "drop", "sync"}
    BY DoneFacts
  <1> HIDE DEF y
  <1>2. /\ r' \in [Tasks -> TaskType] /\ r'[t] = y
        /\ \A u \in Tasks \ {t} : r'[u] = r[u]
    BY <1>1 DEF y, CountInv, TypeOK
  <1>3. TypeOK'  BY <1>2 DEF CountInv, TypeOK
  <1>4. Point(t)' = Point(t) /\ Requests(t)'
    BY <1>1, <1>2 DEF Point, Requests
  <1> QED  BY <1>1, <1>2, <1>3, <1>4, RequestKept

(* add_request: the block and the users of the buffer stay. *)
LEMMA QueuedFacts ==
    ASSUME CountInv, NEW t \in Tasks, r[t].pc \in {"rw", "slot"},
           buf' = Queued(r[t].rq)
    PROVE  /\ buf' \in [Buffers -> BufferType]
           /\ \A b \in Buffers : /\ buf'[b].blk = buf[b].blk
                                  /\ buf'[b].count = buf[b].count
           /\ excused \cup Overwritten(r[t].rq) \subseteq Blocks
           /\ Named'
  <1> DEFINE q == r[t].rq
             c == q.b
             i == IF q.cmd = "WRITE" THEN "WRITE" ELSE "READ"
             z == [buf[c] EXCEPT !.lock = TRUE, !.dirt = FALSE, !.io = i]
  <1>1. buf' = [buf EXCEPT ![c] = z]  BY DEF Queued
  <1>2. i \in {"READ", "WRITE"} /\ c \in Buffers /\ buf[c].blk \in Blocks
    BY DoneFacts
  <1>3. buf \in [Buffers -> BufferType] /\ buf[c] \in BufferType
    BY <1>2 DEF CountInv, TypeOK
  <1> HIDE DEF i, c
  <1>4. /\ z \in BufferType /\ z.blk = buf[c].blk /\ z.count = buf[c].count
    BY <1>2, <1>3 DEF BufferType
  <1> HIDE DEF z
  <1>5. /\ buf' \in [Buffers -> BufferType]
        /\ buf'[c] = z /\ \A b \in Buffers : b # c => buf'[b] = buf[b]
    BY <1>1, <1>2, <1>3, <1>4
  <1>6. \A b \in Buffers : buf'[b].blk = buf[b].blk /\ buf'[b].count = buf[b].count
    BY <1>4, <1>5
  <1>7. Named'  BY <1>2, <1>4, <1>5 DEF CountInv, Named
  <1>8. excused \cup Overwritten(q) \subseteq Blocks
    BY <1>2 DEF Overwritten, CountInv, TypeOK, c
  <1> QED  BY <1>5, <1>6, <1>7, <1>8

(* ll_rw_block: the request is made, or is not needed. *)
LEMMA MakeRequestStep ==
    ASSUME CountInv, NEW t \in Tasks, make_request(t)
    PROVE  CountInv'
  <1> DEFINE q == r[t].rq
  <1>1. /\ r[t].pc = "rw" /\ r' = [r EXCEPT ![t] = Done(t)]
        /\ cur' = t /\ disk' = disk
        /\ \/ buf' = Queued(q) /\ excused' = excused \cup Overwritten(q)
           \/ buf' = buf /\ excused' = excused
    BY DEF make_request, At, Set
  <1>2. /\ buf' \in [Buffers -> BufferType] /\ excused' \subseteq Blocks /\ Named'
        /\ \A b \in Buffers : /\ buf'[b].blk = buf[b].blk
                               /\ buf'[b].count = buf[b].count
    <2>1. CASE buf' = Queued(q) /\ excused' = excused \cup Overwritten(q)
      BY <1>1, <2>1, QueuedFacts
    <2>2. CASE buf' = buf /\ excused' = excused
      BY <2>2 DEF CountInv, TypeOK, Named
    <2> QED  BY <1>1, <2>1, <2>2
  <1> QED  BY <1>1, <1>2, DoneKept

(* ll_rw_block: no request is free. *)
LEMMA NoFreeStep ==
    ASSUME CountInv, NEW t \in Tasks, NoFreeRequest(t)
    PROVE  CountInv'
  <1> DEFINE c == r[t].rq.b
  <1>1. r[t].pc = "rw" /\ disk' = disk /\ excused' = excused
    BY DEF NoFreeRequest, At
  <1>2. c \in Buffers  BY <1>1, DoneFacts
  <1>3. /\ buf \in [Buffers -> BufferType] /\ excused \subseteq Blocks /\ Named
        /\ r \in [Tasks -> TaskType] /\ r[t] \in TaskType /\ Requests(t)
    BY DEF CountInv, TypeOK
  <1>4. CASE r' = [r EXCEPT ![t] = Done(t)] /\ cur' = t /\ buf' = buf
    <2>1. Named'  BY <1>3, <1>4 DEF Named
    <2> QED  BY <1>1, <1>3, <1>4, <2>1, DoneKept
  <1>5. CASE /\ buf' = [buf EXCEPT ![c].lock = TRUE]
             /\ r' = [r EXCEPT ![t].pc = "slot"] /\ cur' = Null
    <2> DEFINE z == [buf[c] EXCEPT !.lock = TRUE]
    <2> HIDE DEF c
    <2>1. buf[c] \in BufferType  BY <1>2, <1>3
    <2>2. /\ z \in BufferType /\ z.blk = buf[c].blk /\ z.count = buf[c].count
          /\ z.dirt = buf[c].dirt /\ z.io = buf[c].io
      BY <2>1 DEF BufferType
    <2>3. buf' = [buf EXCEPT ![c] = z]  BY <1>5
    <2> HIDE DEF z
    <2>4. /\ buf'[c] = z /\ \A b \in Buffers : b # c => buf'[b] = buf[b]
          /\ buf' \in [Buffers -> BufferType]
      BY <1>2, <1>3, <2>3, <2>2
    <2>5. \A b \in Buffers : /\ buf'[b].blk = buf[b].blk
                             /\ buf'[b].count = buf[b].count
      BY <2>2, <2>4
    <2>6. Named'  BY <1>2, <1>3, <2>2, <2>4 DEF Named
    <2>7. r' \in [Tasks -> TaskType]
      BY <1>3, <1>5 DEF TaskType, Pcs
    <2>8. /\ \A u \in Tasks \ {t} : r'[u] = r[u]
          /\ r'[t].pc = "slot" /\ r'[t].fn = r[t].fn /\ r'[t].rq = r[t].rq
          /\ r'[t].todo = r[t].todo /\ r'[t].held = r[t].held
          /\ r'[t].bh = r[t].bh
      BY <1>3, <1>5 DEF TaskType
    <2>9. TypeOK'  BY <1>1, <1>3, <1>5, <2>4, <2>7 DEF TypeOK, CountInv
    <2>10. Point(t)' = Point(t) /\ Requests(t)'
      BY <1>1, <1>3, <2>5, <2>8 DEF Point, Requests
    <2> QED  BY <2>5, <2>6, <2>8, <2>9, <2>10, RequestKept
  <1> QED  BY <1>4, <1>5 DEF NoFreeRequest, Set, Goto

(* A request has become free for a process that waits for one. *)
LEMMA RequestFreeStep ==
    ASSUME CountInv, NEW t \in Tasks, RequestFree(t)
    PROVE  CountInv'
  <1> DEFINE q == r[t].rq
  <1>1. /\ r[t].pc = "slot" /\ r' = [r EXCEPT ![t] = Done(t)]
        /\ cur' = t /\ disk' = disk
        /\ buf' = Queued(q) /\ excused' = excused \cup Overwritten(q)
    BY DEF RequestFree, At, Set
  <1>2. /\ buf' \in [Buffers -> BufferType] /\ excused' \subseteq Blocks /\ Named'
        /\ \A b \in Buffers : /\ buf'[b].blk = buf[b].blk
                               /\ buf'[b].count = buf[b].count
    BY <1>1, QueuedFacts
  <1> QED  BY <1>1, <1>2, DoneKept

-----------------------------------------------------------------------------
(* getblk: the unused buffer to take is chosen. *)
LEMMA ChooseStep ==
    ASSUME CountInv, NEW t \in Tasks, Choose(t)
    PROVE  CountInv'
  <1>1. PICK b \in Unused : r' = [r EXCEPT ![t] = [r[t] EXCEPT !.pc = "victim", !.bh = b]]
    BY DEF Choose, Set
  <1>2. /\ r[t].pc = "getblk" /\ cur' = t
        /\ buf' = buf /\ disk' = disk /\ excused' = excused
    BY DEF Choose, At
  <1>3. b \in Buffers  BY DEF Unused
  <1>4. r \in [Tasks -> TaskType] /\ r[t] \in TaskType  BY DEF CountInv, TypeOK
  <1> DEFINE y == [r[t] EXCEPT !.pc = "victim", !.bh = b]
  <1>5. /\ y \in TaskType /\ y.pc = "victim" /\ y.fn = r[t].fn
        /\ y.todo = r[t].todo /\ y.held = r[t].held /\ y.bh = b
        /\ y.rq = r[t].rq
    BY <1>3, <1>4 DEF TaskType, Pcs
  <1> HIDE DEF y
  <1>6. /\ r' \in [Tasks -> TaskType] /\ r'[t] = y
        /\ \A u \in Tasks \ {t} : r'[u] = r[u]
    BY <1>1, <1>4, <1>5 DEF y
  <1>7. TypeOK'  BY <1>2, <1>6 DEF CountInv, TypeOK
  <1>8. Named'  BY <1>2 DEF CountInv, Named
  <1>9. r[t].fn \notin {"sync", "invalidate"}
    BY <1>2, ReadsIf DEF Point
  <1> QED  BY <1>2, <1>3, <1>5, <1>6, <1>7, <1>8, <1>9, MoveKept

(* A step that only changes where a process is. *)
LEMMA GotoFacts ==
    ASSUME TypeOK, NEW t \in Tasks, NEW p \in Pcs, Goto(t, p)
    PROVE  /\ r' \in [Tasks -> TaskType]
           /\ \A u \in Tasks \ {t} : r'[u] = r[u]
           /\ r'[t].pc = p /\ r'[t].fn = r[t].fn /\ r'[t].rq = r[t].rq
           /\ r'[t].todo = r[t].todo /\ r'[t].held = r[t].held
           /\ r'[t].bh = r[t].bh
  <1> DEFINE y == [r[t] EXCEPT !.pc = p]
  <1>1. r \in [Tasks -> TaskType] /\ r[t] \in TaskType  BY DEF TypeOK
  <1>2. r' = [r EXCEPT ![t] = y]  BY DEF Goto
  <1>3. /\ y \in TaskType /\ y.pc = p /\ y.fn = r[t].fn /\ y.rq = r[t].rq
        /\ y.todo = r[t].todo /\ y.held = r[t].held /\ y.bh = r[t].bh
    BY <1>1 DEF TaskType
  <1> HIDE DEF y
  <1>4. /\ r' \in [Tasks -> TaskType] /\ r'[t] = y
        /\ \A u \in Tasks \ {t} : r'[u] = r[u]
    BY <1>1, <1>2, <1>3
  <1> QED  BY <1>3, <1>4

(* getblk after the wait for the chosen buffer: it starts again, ... *)
LEMMA VictimLostStep ==
    ASSUME CountInv, NEW t \in Tasks, r[t].pc = "victim",
           Goto(t, "getblk"), cur' = t, UNCHANGED <<buf, disk, excused>>
    PROVE  CountInv'
  <1>1. "getblk" \in Pcs /\ TypeOK  BY DEF Pcs, CountInv
  <1>2. /\ r' \in [Tasks -> TaskType]
        /\ \A u \in Tasks \ {t} : r'[u] = r[u]
        /\ r'[t].pc = "getblk" /\ r'[t].fn = r[t].fn /\ r'[t].rq = r[t].rq
        /\ r'[t].todo = r[t].todo /\ r'[t].held = r[t].held
    BY <1>1, GotoFacts
  <1>3. TypeOK'  BY <1>1, <1>2 DEF TypeOK
  <1>4. Named'  BY DEF CountInv, Named
  <1>5. r[t].fn \notin {"sync", "invalidate"}  BY ReadsIf DEF Point
  <1> QED  BY <1>2, <1>3, <1>4, <1>5, MoveKept

(* ... or writes the device of the buffer first. *)
LEMMA VictimSyncStep ==
    ASSUME CountInv, NEW t \in Tasks, r[t].pc = "victim", buf[r[t].bh].dirt,
           Set(t, [r[t] EXCEPT !.pc = "sync", !.visit = {1, 2} \X Buffers,
                               !.dev = DevOf[buf[r[t].bh].blk]]),
           cur' = t, UNCHANGED <<buf, disk, excused>>
    PROVE  CountInv'
  <1>1. Reads(t) /\ r[t].fn \notin {"sync", "invalidate"}
    BY ReadsIf DEF Point
  <1>2. r[t].bh \in Buffers  BY <1>1 DEF Reads, Point
  <1>3. buf[r[t].bh].blk \in Blocks  BY <1>2 DEF CountInv, Named
  <1> DEFINE d == DevOf[buf[r[t].bh].blk]
             y == [r[t] EXCEPT !.pc = "sync", !.visit = {1, 2} \X Buffers, !.dev = d]
  <1>4. d \in {DevOf[k] : k \in Blocks}  BY <1>3
  <1>5. r' = [r EXCEPT ![t] = y]  BY DEF Set
  <1>6. r \in [Tasks -> TaskType] /\ r[t] \in TaskType  BY DEF CountInv, TypeOK
  <1> HIDE DEF d
  <1>7. /\ y \in TaskType /\ y.pc = "sync" /\ y.fn = r[t].fn
        /\ y.todo = r[t].todo /\ y.held = r[t].held /\ y.bh = r[t].bh
        /\ y.rq = r[t].rq
    BY <1>4, <1>6 DEF TaskType, Pcs
  <1> HIDE DEF y
  <1>8. /\ r' \in [Tasks -> TaskType] /\ r'[t] = y
        /\ \A u \in Tasks \ {t} : r'[u] = r[u]
    BY <1>5, <1>6, <1>7
  <1>9. TypeOK'  BY <1>8 DEF CountInv, TypeOK
  <1>10. Named'  BY DEF CountInv, Named
  <1> QED  BY <1>1, <1>2, <1>7, <1>8, <1>9, <1>10, MoveKept

(* bread, breada and bread_page after their wait. *)
LEMMA CheckStep ==
    ASSUME CountInv, NEW t \in Tasks, Check(t)
    PROVE  CountInv'
  <1> DEFINE c == r[t].bh
             ok == buf[c].uptodate /\ r[t].fn # "bread_page"
             p == IF ok THEN "copy" ELSE "brelse"
  <1>1. /\ r[t].pc = "check" /\ Goto(t, p) /\ cur' = t
        /\ disk' = disk /\ excused' = excused
        /\ \/ buf' = buf
           \/ buf' = [buf EXCEPT ![c].dirt = TRUE]
    BY DEF Check, At
  <1>2. p \in {"copy", "brelse"} /\ p \in Pcs /\ TypeOK  BY DEF Pcs, CountInv
  <1>3. Reads(t) /\ r[t].fn \notin {"sync", "invalidate"}
    BY <1>1, ReadsIf DEF Point
  <1>4. c \in Buffers /\ buf[c].blk \in Blocks
    <2>1. c = Head(r[t].held) /\ r[t].held # <<>>  BY <1>1, <1>3 DEF Reads, Point
    <2>2. r[t].held \in Seq(Buffers)  BY <1>2 DEF TypeOK, TaskType
    <2>3. Len(r[t].held) >= 1 /\ c = r[t].held[1] /\ c \in Buffers
      BY <2>1, <2>2
    <2>4. Holds(t, c)  BY <2>2, <2>3 DEF Holds
    <2> QED  BY <2>3, <2>4 DEF CountInv, Local
  <1>5. /\ r' \in [Tasks -> TaskType]
        /\ \A u \in Tasks \ {t} : r'[u] = r[u]
        /\ r'[t].pc \in {"copy", "brelse"} /\ r'[t].fn = r[t].fn
        /\ r'[t].rq = r[t].rq /\ r'[t].todo = r[t].todo
        /\ r'[t].held = r[t].held /\ r'[t].bh = r[t].bh
    <2>1. PICK l \in {"copy", "brelse"} : Goto(t, l)  BY <1>1, <1>2
    <2>2. l \in Pcs  BY DEF Pcs
    <2> QED  BY <1>2, <2>1, <2>2, GotoFacts
  <1> HIDE DEF c, p
  <1>6. /\ buf' \in [Buffers -> BufferType] /\ Named'
        /\ \A b \in Buffers : buf'[b].blk = buf[b].blk /\ buf'[b].count = buf[b].count
    <2>1. CASE buf' = buf  BY <2>1, <1>2 DEF TypeOK, CountInv, Named
    <2>2. CASE buf' = [buf EXCEPT ![c].dirt = TRUE]
      <3> DEFINE z == [buf[c] EXCEPT !.dirt = TRUE]
      <3>1. buf \in [Buffers -> BufferType] /\ buf[c] \in BufferType
        BY <1>2, <1>4 DEF TypeOK
      <3>2. z \in BufferType /\ z.blk = buf[c].blk /\ z.count = buf[c].count
        BY <3>1 DEF BufferType
      <3>3. buf' = [buf EXCEPT ![c] = z]  BY <2>2
      <3> HIDE DEF z
      <3>4. /\ buf' \in [Buffers -> BufferType] /\ buf'[c] = z
            /\ \A b \in Buffers : b # c => buf'[b] = buf[b]
        BY <1>4, <3>1, <3>2, <3>3
      <3>5. Named'  BY <1>4, <3>2, <3>4 DEF CountInv, Named
      <3>6. \A b \in Buffers : buf'[b].blk = buf[b].blk /\ buf'[b].count = buf[b].count
        BY <3>2, <3>4
      <3> QED  BY <3>4, <3>5, <3>6
    <2> QED  BY <1>1, <2>1, <2>2
  <1>7. TypeOK'  BY <1>1, <1>2, <1>5, <1>6 DEF TypeOK
  <1> QED  BY <1>1, <1>3, <1>5, <1>6, <1>7, MoveKept

(* The bytes have been copied. *)
LEMMA CopyStep ==
    ASSUME CountInv, NEW t \in Tasks, Copy(t)
    PROVE  CountInv'
  <1> DEFINE c == r[t].bh
             k == buf[c].blk
             dirt == r[t].wr = "after" \/ buf[c].dirt
  <1>1. r[t].pc = "copy" /\ Goto(t, "brelse") /\ cur' = t
    BY DEF Copy, At
  <1>2. "brelse" \in Pcs /\ TypeOK  BY DEF Pcs, CountInv
  <1>3. Reads(t) /\ r[t].fn \notin {"sync", "invalidate"}
    BY <1>1, ReadsIf DEF Point
  <1>4. c \in Buffers /\ k \in Blocks
    <2>1. c = Head(r[t].held) /\ r[t].held # <<>>  BY <1>1, <1>3 DEF Reads, Point
    <2>2. r[t].held \in Seq(Buffers)  BY <1>2 DEF TypeOK, TaskType
    <2>3. Len(r[t].held) >= 1 /\ c = r[t].held[1] /\ c \in Buffers
      BY <2>1, <2>2
    <2>4. Holds(t, c)  BY <2>2, <2>3 DEF Holds
    <2> QED  BY <2>3, <2>4 DEF CountInv, Local
  <1>5. /\ r' \in [Tasks -> TaskType]
        /\ \A u \in Tasks \ {t} : r'[u] = r[u]
        /\ r'[t].pc = "brelse" /\ r'[t].fn = r[t].fn
        /\ r'[t].rq = r[t].rq /\ r'[t].todo = r[t].todo
        /\ r'[t].held = r[t].held /\ r'[t].bh = r[t].bh
    BY <1>1, <1>2, GotoFacts
  <1>6. /\ buf' \in [Buffers -> BufferType] /\ Named'
        /\ disk' \in [Blocks -> BOOLEAN] /\ excused' \subseteq Blocks
        /\ \A b \in Buffers : buf'[b].blk = buf[b].blk /\ buf'[b].count = buf[b].count
    <2>1. CASE r[t].wr = "no"
      BY <1>2, <2>1 DEF Copy, TypeOK, CountInv, Named
    <2>2. CASE r[t].wr # "no"
      <3> DEFINE Z(b) == IF b = c THEN [buf[b] EXCEPT !.data = TRUE, !.dirt = dirt]
                         ELSE [buf[b] EXCEPT !.data = @ /\ buf[b].blk # k]
      <3>1. /\ buf' = [b \in Buffers |-> Z(b)]
            /\ disk' = [disk EXCEPT ![k] = FALSE]
            /\ excused' \in {excused \ {k}, excused \cup {k}}
        BY <2>2 DEF Copy
      <3>2. dirt \in BOOLEAN  OBVIOUS
      <3> HIDE DEF dirt, k
      <3>3. \A b \in Buffers :
              /\ Z(b) \in BufferType /\ Z(b).blk = buf[b].blk
              /\ Z(b).count = buf[b].count /\ Z(b).io = buf[b].io
              /\ b # c => Z(b).dirt = buf[b].dirt
        <4> SUFFICES ASSUME NEW b \in Buffers
                     PROVE  /\ Z(b) \in BufferType /\ Z(b).blk = buf[b].blk
                            /\ Z(b).count = buf[b].count /\ Z(b).io = buf[b].io
                            /\ b # c => Z(b).dirt = buf[b].dirt
          OBVIOUS
        <4>1. buf[b] \in BufferType  BY <1>2 DEF TypeOK
        <4>2. CASE b = c
          <5>1. Z(b) = [buf[b] EXCEPT !.data = TRUE, !.dirt = dirt]  BY <4>2
          <5> HIDE DEF Z, c
          <5> QED  BY <3>2, <4>1, <4>2, <5>1, ZenonT(60) DEF BufferType
        <4>3. CASE b # c
          <5> DEFINE v == buf[b].data /\ buf[b].blk # k
          <5>1. v \in BOOLEAN  OBVIOUS
          <5>2. Z(b) = [buf[b] EXCEPT !.data = v]  BY <4>3
          <5> HIDE DEF v
          <5> QED  BY <4>1, <4>3, <5>1, <5>2 DEF BufferType
        <4> QED  BY <4>2, <4>3
      <3> HIDE DEF Z
      <3>4. /\ buf' \in [Buffers -> BufferType]
            /\ \A b \in Buffers : buf'[b] = Z(b)
        BY <3>1, <3>3
      <3>5. Named'
        <4> SUFFICES ASSUME NEW b \in Buffers, buf'[b].dirt \/ buf'[b].io # "none"
                     PROVE  buf'[b].blk \in Blocks
          BY DEF Named
        <4>1. CASE b = c  BY <1>4, <3>3, <3>4, <4>1 DEF k
        <4>2. CASE b # c
          <5>1. buf'[b].dirt = buf[b].dirt /\ buf'[b].io = buf[b].io
            BY <3>3, <3>4, <4>2
          <5>2. buf[b].dirt \/ buf[b].io # "none"  BY <5>1
          <5> QED  BY <3>3, <3>4, <5>2 DEF CountInv, Named
        <4> QED  BY <4>1, <4>2
      <3>6. disk' \in [Blocks -> BOOLEAN] /\ excused' \subseteq Blocks
        BY <1>2, <1>4, <3>1 DEF TypeOK
      <3> QED  BY <3>3, <3>4, <3>5, <3>6
    <2> QED  BY <2>1, <2>2
  <1>7. TypeOK'  BY <1>1, <1>2, <1>5, <1>6 DEF TypeOK
  <1> QED  BY <1>1, <1>3, <1>5, <1>6, <1>7, MoveKept

-----------------------------------------------------------------------------
(* A process in user mode, or in sys_sync, refers to nothing. *)
LEMMA NoRefs ==
    ASSUME CountInv, NEW t \in Tasks, r[t].fn \in {"sync", "invalidate"}
    PROVE  \A b : ~Refers(t, b)
  <1>1. Requests(t) /\ Local(t)  BY DEF CountInv
  <1>2. r[t].held = <<>> /\ Point(t) \in {"user", "sync"}  BY <1>1 DEF Local
  <1>3. \A b : ~Holds(t, b)  BY <1>2 DEF Holds
  <1> QED  BY <1>1, <1>2, <1>3, RefersPoint

(* A process in user mode is as it was at the beginning. *)
LEMMA UserFacts ==
    /\ User \in TaskType /\ User.pc = "user" /\ User.fn = "sync"
    /\ User.todo = <<>> /\ User.held = <<>> /\ User.bh = Null
    /\ User.rq \in RequestType /\ User.rq.ret = "user"
  BY DEF User, TaskType, RequestType, Pcs, Fns, Cmds

(* A step of a process that refers to nothing before and after it. *)
LEMMA FreshKept ==
    ASSUME CountInv, NEW t \in Tasks, r[t].fn \in {"sync", "invalidate"},
           r'[t] \in TaskType, r' = [r EXCEPT ![t] = r'[t]],
           r'[t].rq = User.rq, r'[t].held = <<>>,
           r'[t].pc \in {"user", "getblk", "sync"},
           Local(t)', cur' \in {t, Null}, UNCHANGED <<buf, disk, excused>>
    PROVE  CountInv'
  <1>1. /\ r' \in [Tasks -> TaskType]
        /\ \A u \in Tasks \ {t} : r'[u] = r[u]
    BY DEF CountInv, TypeOK
  <1>2. TypeOK'  BY <1>1 DEF CountInv, TypeOK
  <1>3. Named' /\ OneBufferPerBlock'
    BY DEF CountInv, Named, OneBufferPerBlock
  <1>4. Requests(t)'  BY DEF Requests
  <1>5. \A b : ~Refers(t, b)  BY NoRefs
  <1>6. \A b : ~Refers(t, b)'  BY DEF Refers, User
  <1> QED  BY <1>1, <1>2, <1>3, <1>4, <1>5, <1>6, StepKept

(* The system calls begin. *)
LEMMA CallStep ==
    ASSUME CountInv, NEW t \in Tasks, NEW c \in MayCall[t],
           NEW s \in BlockLists(c[1]), Call(t, c, s)
    PROVE  CountInv'
  <1> DEFINE f == c[1]
             w == c[2]
             y == [User EXCEPT !.pc = "getblk", !.fn = f, !.wr = w, !.todo = s]
  <1>1. /\ r[t].pc = "user" /\ r' = [r EXCEPT ![t] = y]
        /\ f \notin {"sync", "invalidate"}
        /\ cur' = t /\ UNCHANGED <<buf, disk, excused>>
    BY DEF Call, At, Set
  <1>2. c \in Calls  BY CacheAssumption
  <1>3. f \in {"bread", "getblk", "breada", "bread_page"}
        /\ w \in {"no", "before", "after"}
    BY <1>1, <1>2 DEF Calls
  <1>4. /\ s \in Seq(Blocks) /\ s # <<>> /\ Len(s) <= MaxBlocks
        /\ f \in {"bread", "getblk"} => Len(s) = 1
        /\ \A i, j \in 1 .. Len(s) : s[i] = s[j] => i = j
    <2>1. PICK n \in 1 .. MaxBlocks : s \in [1 .. n -> Blocks]
      BY DEF BlockLists
    <2>2. MaxBlocks \in Nat  BY CacheAssumption
    <2>3. s \in Seq(Blocks) /\ Len(s) = n  BY <2>1, <2>2
    <2> QED  BY <2>1, <2>2, <2>3 DEF BlockLists
  <1>5. f \in {"breada", "bread_page"} => t \in Pagers
    BY DEF Pagers
  <1> HIDE DEF f, w
  <1>6. /\ y \in TaskType /\ y.pc = "getblk" /\ y.fn = f /\ y.todo = s
        /\ y.held = <<>> /\ y.rq = User.rq /\ y.bh = Null
    BY <1>3, <1>4, UserFacts DEF TaskType, Pcs, Fns
  <1> HIDE DEF y
  <1>7. r[t].fn = "sync"
    BY <1>1, UserFacts DEF CountInv, Local
  <1>8. r'[t] = y  BY <1>1 DEF CountInv, TypeOK
  <1>9. Local(t)'
    <2>1. Point(t)' = "getblk"  BY <1>6, <1>8 DEF Point
    <2>2. Len(r'[t].todo) = Len(s) /\ Len(s) \in Nat /\ Len(r'[t].held) = 0
      <3>1. r'[t].todo = s /\ r'[t].held = <<>>  BY <1>6, <1>8
      <3>2. Len(s) \in Nat  BY <1>4
      <3> QED  BY <3>1, <3>2
    <2>3. Reads(t)'
      <3>1. r'[t].todo # <<>> /\ r'[t].fn = f  BY <1>4, <1>6, <1>8
      <3>2. f \in {"bread", "getblk"} => Len(r'[t].todo) + Len(r'[t].held) <= 1
        BY <1>4, <2>2
      <3> QED  BY <1>5, <2>1, <3>1, <3>2 DEF Reads
    <2>4. \A b : ~Holds(t, b)'  BY <1>6, <1>8 DEF Holds
    <2>5. /\ \A i, j \in 1 .. Len(r'[t].todo) : r'[t].todo[i] = r'[t].todo[j] => i = j
          /\ \A i, j \in 1 .. Len(r'[t].held) : r'[t].held[i] = r'[t].held[j] => i = j
      BY <1>4, <1>6, <1>8
    <2>6. Len(r'[t].todo) + Len(r'[t].held) <= MaxBlocks
      <3>1. MaxBlocks \in Nat  BY CacheAssumption
      <3> QED  BY <1>4, <2>2, <3>1
    <2>7. r'[t].pc = "getblk" /\ r'[t].fn \notin {"sync", "invalidate"}
      BY <1>3, <1>6, <1>8
    <2> QED  BY <2>3, <2>4, <2>5, <2>6, <2>7 DEF Local
  <1> QED  BY <1>1, <1>6, <1>7, <1>8, <1>9, FreshKept

(* sys_sync, and check_disk_change for a drive that reports a change. *)
LEMMA SyncCallStep ==
    ASSUME CountInv, NEW t \in Tasks, r[t].pc = "user",
           r'[t] \in TaskType, r' = [r EXCEPT ![t] = r'[t]],
           r'[t].pc = "sync", r'[t].fn \in {"sync", "invalidate"},
           r'[t].todo = <<>>, r'[t].held = <<>>, r'[t].rq = User.rq,
           cur' = t, UNCHANGED <<buf, disk, excused>>
    PROVE  CountInv'
  <1>1. r[t].fn = "sync"  BY UserFacts DEF CountInv, Local
  <1>2. Local(t)'
    <2>1. Point(t)' = "sync"  BY DEF Point
    <2>2. \A b : ~Holds(t, b)'  BY DEF Holds
    <2>3. MaxBlocks \in Nat  BY CacheAssumption
    <2>4. Len(r'[t].todo) + Len(r'[t].held) <= MaxBlocks
      <3>1. 0 + 0 <= MaxBlocks  BY <2>3
      <3>2. Len(r'[t].todo) = 0 /\ Len(r'[t].held) = 0  OBVIOUS
      <3> QED  BY <3>1, <3>2
    <2> QED  BY <2>1, <2>2, <2>4 DEF Local
  <1> QED  BY <1>1, <1>2, FreshKept

(* The end of the loops. *)
LEMMA SyncEndStep ==
    ASSUME CountInv, NEW t \in Tasks, SyncEnd(t)
    PROVE  CountInv'
  <1>1. r[t].pc = "sync" /\ UNCHANGED <<buf, disk, excused>>
    BY DEF SyncEnd, At
  <1>2. r \in [Tasks -> TaskType] /\ r[t] \in TaskType  BY DEF CountInv, TypeOK
  <1>3. CASE r[t].fn \in {"sync", "invalidate"}
    <2>1. r' = [r EXCEPT ![t] = User] /\ cur' = Null
      BY <1>3 DEF SyncEnd, Set
    <2>2. r'[t] = User  BY <1>2, <2>1
    <2>3. Local(t)'
      <3>1. Point(t)' = "user"  BY <2>2, UserFacts DEF Point
      <3>2. \A b : ~Holds(t, b)'  BY <2>2, UserFacts DEF Holds
      <3> QED  BY <2>2, <3>1, <3>2, UserFacts, CacheAssumption DEF Local
    <2> QED  BY <1>1, <1>3, <2>1, <2>2, <2>3, UserFacts, FreshKept
  <1>4. CASE r[t].fn \notin {"sync", "invalidate"}
    <2> DEFINE y == [r[t] EXCEPT !.pc = "victim", !.dev = Null]
    <2>1. r' = [r EXCEPT ![t] = y] /\ cur' = t  BY <1>4 DEF SyncEnd, Set
    <2>2. /\ y \in TaskType /\ y.pc = "victim" /\ y.fn = r[t].fn
          /\ y.todo = r[t].todo /\ y.held = r[t].held /\ y.bh = r[t].bh
          /\ y.rq = r[t].rq
      BY <1>2 DEF TaskType, Pcs
    <2> HIDE DEF y
    <2>3. /\ r' \in [Tasks -> TaskType] /\ r'[t] = y
          /\ \A u \in Tasks \ {t} : r'[u] = r[u]
      BY <1>2, <2>1, <2>2
    <2>4. TypeOK'  BY <1>1, <2>1, <2>3 DEF CountInv, TypeOK
    <2>5. Named'  BY <1>1 DEF CountInv, Named
    <2>6. r[t].bh \in Buffers
      <3>1. Reads(t)  BY <1>4 DEF CountInv, Local
      <3> QED  BY <1>1, <3>1 DEF Reads, Point
    <2> QED  BY <1>1, <1>4, <2>2, <2>3, <2>4, <2>5, <2>6, MoveKept
  <1> QED  BY <1>3, <1>4

-----------------------------------------------------------------------------
(* How a process, x before, is when getblk has returned b: the block read  *)
(* ahead is dropped, the next block is asked for, or the first one is used.*)
GotShape(x, b, y) ==
    LET P == IF y.pc = "rw" THEN y.rq.ret ELSE y.pc
    IN /\ y \in TaskType /\ y.fn = x.fn /\ y.todo = Tail(x.todo)
       /\ \/ y.pc \in {"drop", "getblk", "check", "copy"} /\ y.rq = User.rq
          \/ /\ y.pc = "rw" /\ y.rq.b = b /\ y.rq.ret \in {"drop", "getblk", "check"}
             /\ y.rq.cmd \in {"READ", "READA"}
       /\ \/ /\ P = "drop" /\ x.fn = "breada" /\ y.bh = b
             /\ y.held = x.held /\ x.held # <<>>
          \/ /\ P = "getblk" /\ Tail(x.todo) # <<>> /\ y.held = Append(x.held, b)
          \/ /\ P \in {"check", "copy"}
             /\ y.held = Append(x.held, b) /\ y.bh = Head(y.held)

(* Got does that. *)
LEMMA GotFacts ==
    ASSUME CountInv, NEW t \in Tasks, NEW up, r[t].pc \in {"hash", "victim"}
    PROVE  GotShape(r[t], r[t].bh, Got(t, r[t].bh, up))
  <1> DEFINE x == r[t]
             b == x.bh
             ahead == x.fn = "breada" /\ x.held # <<>>
             todo == Tail(x.todo)
             rec == [x EXCEPT !.bh = b, !.todo = todo]
             held == Append(x.held, b)
             more == [rec EXCEPT !.held = held]
             then == IF ahead THEN [rec EXCEPT !.pc = "drop"] ELSE NextBlock(more)
             y == Got(t, r[t].bh, up)
  <1>1. Reads(t) /\ x.fn \notin {"sync", "invalidate"}  BY ReadsIf DEF Point
  <1>2. /\ x \in TaskType /\ x.todo # <<>> /\ b \in Buffers /\ x.rq = User.rq
    BY <1>1 DEF CountInv, TypeOK, Requests, Reads, Point
  <1>3. x.fn = "getblk" => todo = <<>> /\ ~ahead
    <2> SUFFICES ASSUME x.fn = "getblk" PROVE todo = <<>>  OBVIOUS
    <2>1. x.todo \in Seq(Blocks) /\ x.held \in Seq(Buffers)  BY <1>2 DEF TaskType
    <2>2. Len(x.todo) + Len(x.held) <= 1  BY <1>1 DEF Reads
    <2>3. Len(x.held) \in Nat /\ Len(x.todo) \in Nat /\ Len(x.todo) >= 1
      BY <1>2, <2>1, HeadAndTail
    <2>4. Len(x.todo) = 1
      <3> DEFINE m == Len(x.todo)
                 n == Len(x.held)
      <3>1. m \in Nat /\ n \in Nat /\ m >= 1 /\ m + n <= 1  BY <2>2, <2>3
      <3> HIDE DEF m, n
      <3>2. m = 1  BY <3>1
      <3> QED  BY <3>2 DEF m
    <2>5. todo \in Seq(Blocks) /\ Len(todo) = 0
      BY <1>2, <2>1, <2>4, HeadAndTail
    <2> HIDE DEF todo
    <2> QED  BY <2>5
  <1>4. /\ todo \in Seq(Blocks) /\ held \in Seq(Buffers) /\ held # <<>>
        /\ Head(held) \in Buffers
    <2>1. x.todo \in Seq(Blocks) /\ x.held \in Seq(Buffers)  BY <1>2 DEF TaskType
    <2>2. todo \in Seq(Blocks)  BY <1>2, <2>1, HeadAndTail
    <2> QED  BY <1>2, <2>1, <2>2, Appended
  <1>5. Got(t, b, up) =
          IF x.fn = "getblk" THEN [then EXCEPT !.pc = "copy"]
          ELSE IF up THEN then
          ELSE [then EXCEPT !.pc = "rw",
                            !.rq = [b |-> b, ret |-> then.pc,
                                    cmd |-> IF ahead THEN "READA" ELSE "READ"]]
    BY DEF Got
  <1>6. y = Got(t, b, up)  OBVIOUS
  <1> HIDE DEF todo, held, b, x, y
  <1>7. /\ rec \in TaskType /\ rec.fn = x.fn /\ rec.todo = todo
        /\ rec.held = x.held /\ rec.bh = b /\ rec.rq = x.rq
    BY <1>2, <1>4 DEF TaskType
  <1> HIDE DEF rec
  <1>8. /\ more \in TaskType /\ more.fn = x.fn /\ more.todo = todo
        /\ more.held = held /\ more.bh = b /\ more.rq = x.rq
    BY <1>4, <1>7 DEF TaskType
  <1> HIDE DEF more
  <1>9. ahead => /\ then \in TaskType /\ then.fn = x.fn /\ then.todo = todo
                 /\ then.held = x.held /\ then.bh = b /\ then.rq = x.rq
                 /\ then.pc = "drop"
    BY <1>7 DEF TaskType, Pcs
  <1>10. ~ahead /\ todo # <<>> =>
                 /\ then \in TaskType /\ then.fn = x.fn /\ then.todo = todo
                 /\ then.held = held /\ then.rq = x.rq /\ then.pc = "getblk"
    <2> SUFFICES ASSUME ~ahead, todo # <<>>
                 PROVE  /\ then \in TaskType /\ then.fn = x.fn /\ then.todo = todo
                        /\ then.held = held /\ then.rq = x.rq /\ then.pc = "getblk"
      OBVIOUS
    <2>1. then = [more EXCEPT !.pc = "getblk", !.bh = Null]
      BY <1>8 DEF NextBlock
    <2> HIDE DEF then
    <2> QED  BY <1>8, <2>1 DEF TaskType, Pcs
  <1>11. ~ahead /\ todo = <<>> =>
                 /\ then \in TaskType /\ then.fn = x.fn /\ then.todo = todo
                 /\ then.held = held /\ then.rq = x.rq /\ then.pc = "check"
                 /\ then.bh = Head(held)
    <2> SUFFICES ASSUME ~ahead, todo = <<>>
                 PROVE  /\ then \in TaskType /\ then.fn = x.fn /\ then.todo = todo
                        /\ then.held = held /\ then.rq = x.rq /\ then.pc = "check"
                        /\ then.bh = Head(held)
      OBVIOUS
    <2> DEFINE h == Head(held)
    <2>1. then = [more EXCEPT !.pc = "check", !.bh = h]
      BY <1>8 DEF NextBlock
    <2>2. h \in Buffers  BY <1>4
    <2> HIDE DEF then, h
    <2>3. /\ then \in TaskType /\ then.fn = x.fn /\ then.todo = todo
          /\ then.held = held /\ then.rq = x.rq /\ then.pc = "check"
          /\ then.bh = h
      BY <1>8, <2>1, <2>2 DEF TaskType, Pcs
    <2> QED  BY <2>3 DEF h
  <1> HIDE DEF then
  <1>12. /\ then \in TaskType /\ then.fn = x.fn /\ then.todo = todo /\ then.rq = x.rq
         /\ then.pc \in {"drop", "getblk", "check"}
    BY <1>9, <1>10, <1>11
  <1>13. /\ y \in TaskType /\ y.fn = x.fn /\ y.todo = todo /\ y.held = then.held
         /\ y.bh = then.bh
         /\ \/ y.pc = then.pc /\ y.rq = x.rq /\ x.fn # "getblk"
            \/ x.fn = "getblk" /\ y.pc = "copy" /\ y.rq = x.rq
            \/ y.pc = "rw" /\ y.rq.b = b /\ y.rq.ret = then.pc
               /\ y.rq.cmd \in {"READ", "READA"} /\ x.fn # "getblk"
    <2>1. CASE x.fn = "getblk"
      <3>1. y = [then EXCEPT !.pc = "copy"]  BY <1>5, <1>6, <2>1
      <3> QED  BY <1>12, <2>1, <3>1 DEF TaskType, Pcs
    <2>2. CASE x.fn # "getblk" /\ up
      <3>1. y = then  BY <1>5, <1>6, <2>2
      <3> QED  BY <1>12, <2>2, <3>1
    <2>3. CASE x.fn # "getblk" /\ ~up
      <3> DEFINE q == [b |-> b, ret |-> then.pc,
                       cmd |-> IF ahead THEN "READA" ELSE "READ"]
      <3>1. y = [then EXCEPT !.pc = "rw", !.rq = q]  BY <1>5, <1>6, <2>3
      <3>2. /\ q \in RequestType /\ q.b = b /\ q.ret = then.pc
            /\ q.cmd \in {"READ", "READA"}
        BY <1>2, <1>12 DEF RequestType, Pcs, Cmds
      <3> HIDE DEF q
      <3>3. /\ y \in TaskType /\ y.fn = then.fn /\ y.todo = then.todo
            /\ y.held = then.held /\ y.bh = then.bh /\ y.pc = "rw" /\ y.rq = q
        BY <1>12, <3>1, <3>2 DEF TaskType, Pcs
      <3> QED  BY <1>12, <2>3, <3>2, <3>3
    <2> QED  BY <2>1, <2>2, <2>3
  <1>14. \/ y.pc \in {"drop", "getblk", "check", "copy"} /\ y.rq = User.rq
         \/ /\ y.pc = "rw" /\ y.rq.b = b /\ y.rq.ret \in {"drop", "getblk", "check"}
            /\ y.rq.cmd \in {"READ", "READA"}
    BY <1>2, <1>12, <1>13
  <1> DEFINE P == IF y.pc = "rw" THEN y.rq.ret ELSE y.pc
  <1>15. P = then.pc \/ (x.fn = "getblk" /\ P = "copy")
    BY <1>12, <1>13
  <1>16. \/ /\ P = "drop" /\ x.fn = "breada" /\ y.bh = b
            /\ y.held = x.held /\ x.held # <<>>
         \/ /\ P = "getblk" /\ todo # <<>> /\ y.held = held
         \/ /\ P \in {"check", "copy"} /\ y.held = held /\ y.bh = Head(y.held)
    <2>1. CASE ahead
      <3>1. x.fn = "breada" /\ x.held # <<>>  BY <2>1
      <3> QED  BY <1>9, <1>13, <1>15, <2>1, <3>1
    <2>2. CASE ~ahead /\ todo # <<>>
      <3>1. x.fn # "getblk"  BY <1>3, <2>2
      <3> QED  BY <1>10, <1>13, <1>15, <2>2, <3>1
    <2>3. CASE ~ahead /\ todo = <<>>
      BY <1>11, <1>13, <1>15, <2>3
    <2> QED  BY <2>1, <2>2, <2>3
  <1>17. GotShape(x, b, y)
    BY <1>13, <1>14, <1>16 DEF GotShape, todo, held
  <1> QED  BY <1>17 DEF x, b, y

(* getblk returns: the process has the buffer, and asks for one block less *)
(* than before.                                                            *)
LEMMA GotKept ==
    ASSUME CountInv, NEW t \in Tasks,
           r[t].pc \in {"hash", "victim"}, ~Holds(t, r[t].bh),
           GotShape(r[t], r[t].bh, r'[t]), r' = [r EXCEPT ![t] = r'[t]],
           buf'[r[t].bh].blk = Head(r[t].todo),
           \A b \in Buffers : \/ buf'[b].blk = buf[b].blk
                              \/ buf[b].count = 0 /\ buf'[b].blk \in Blocks
    PROVE  /\ r'[t] \in TaskType /\ r' \in [Tasks -> TaskType]
           /\ \A u \in Tasks \ {t} : r'[u] = r[u]
           /\ r'[t].pc # "buffer_wait"
           /\ Requests(t)' /\ Local(t)'
           /\ \A b \in Buffers : Refers(t, b)' <=> Holds(t, b) \/ b = r[t].bh
  <1> DEFINE x == r[t]
             y == r'[t]
             c == x.bh
             k == Head(x.todo)
             P == IF y.pc = "rw" THEN y.rq.ret ELSE y.pc
  <1>1. r \in [Tasks -> TaskType] /\ x \in TaskType /\ Requests(t) /\ Local(t)
    BY DEF CountInv, TypeOK
  <1>2. Reads(t) /\ x.fn \notin {"sync", "invalidate"}  BY ReadsIf DEF Point
  <1>3. /\ x.todo \in Seq(Blocks) /\ x.held \in Seq(Buffers) /\ x.todo # <<>>
        /\ c \in Buffers
    BY <1>1, <1>2 DEF TaskType, Reads, Point
  <1>4. \A u \in Tasks \ {t} : r'[u] = r[u]  BY <1>1
  <1>5. /\ y \in TaskType /\ y.fn = x.fn /\ y.todo = Tail(x.todo)
        /\ \/ y.pc \in {"drop", "getblk", "check", "copy"} /\ y.rq = User.rq
           \/ y.pc = "rw" /\ y.rq.b = c /\ y.rq.ret \in {"drop", "getblk", "check"}
        /\ \/ /\ P = "drop" /\ x.fn = "breada" /\ y.bh = c
              /\ y.held = x.held /\ x.held # <<>>
           \/ /\ P = "getblk" /\ Tail(x.todo) # <<>>
              /\ y.held = Append(x.held, c)
           \/ /\ P \in {"check", "copy"}
              /\ y.held = Append(x.held, c) /\ y.bh = Head(y.held)
    BY DEF GotShape
  <1>6. r' \in [Tasks -> TaskType]  BY <1>1, <1>4, <1>5
  <1>7. k \in Blocks /\ buf'[c].blk = k  BY <1>3, HeadAndTail
  <1>8. Point(t)' = P
    <2>1. y.pc # "slot"  BY <1>5
    <2> QED  BY <2>1 DEF Point
  <1>9. Requests(t)'
    BY <1>3, <1>5, <1>7 DEF Requests
  <1> HIDE DEF P
  <1>10. \A b : Holds(t, b)' <=> Holds(t, b) \/ (y.held # x.held /\ b = c)
    <2>1. CASE y.held = x.held  BY <2>1 DEF Holds
    <2>2. CASE y.held = Append(x.held, c) /\ y.held # x.held
      <3>1. /\ Len(x.held) \in Nat /\ Len(y.held) = Len(x.held) + 1
            /\ \A i \in 1 .. Len(x.held) : y.held[i] = x.held[i]
            /\ y.held[Len(x.held) + 1] = c
        BY <1>3, <2>2, Appended
      <3> TAKE b
      <3>2. ASSUME Holds(t, b)' PROVE Holds(t, b) \/ b = c
        <4>1. PICK i \in 1 .. Len(y.held) : y.held[i] = b  BY <3>2 DEF Holds
        <4>2. CASE i = Len(x.held) + 1  BY <3>1, <4>1, <4>2
        <4>3. CASE i # Len(x.held) + 1
          <5>1. i \in 1 .. Len(x.held)  BY <3>1, <4>1, <4>3
          <5> QED  BY <3>1, <4>1, <5>1 DEF Holds
        <4> QED  BY <4>2, <4>3
      <3>3. ASSUME Holds(t, b) PROVE Holds(t, b)'
        <4>1. PICK i \in 1 .. Len(x.held) : x.held[i] = b  BY <3>3 DEF Holds
        <4>2. i \in 1 .. Len(y.held) /\ y.held[i] = b  BY <3>1, <4>1
        <4> QED  BY <4>2 DEF Holds
      <3>4. b = c => Holds(t, b)'
        <4>1. Len(x.held) + 1 \in 1 .. Len(y.held)  BY <3>1
        <4> QED  BY <3>1, <4>1 DEF Holds
      <3> QED  BY <2>2, <3>2, <3>3, <3>4
    <2> QED  BY <1>5, <2>1, <2>2
  <1>11. \A j : Asks(t, j)' => Asks(t, j) /\ j # k
    <2> SUFFICES ASSUME NEW j, Asks(t, j)' PROVE Asks(t, j) /\ j # k
      OBVIOUS
    <2>1. PICK i \in 1 .. Len(y.todo) : y.todo[i] = j  BY DEF Asks
    <2>2. /\ Len(x.todo) \in Nat /\ Len(x.todo) >= 1 /\ k = x.todo[1]
          /\ Len(y.todo) = Len(x.todo) - 1
          /\ \A l \in 1 .. Len(x.todo) - 1 : y.todo[l] = x.todo[l + 1]
      <3> DEFINE s == x.todo
      <3>1. s \in Seq(Blocks) /\ s # <<>> /\ y.todo = Tail(s)  BY <1>3, <1>5
      <3> HIDE DEF s
      <3>2. /\ Len(s) \in Nat /\ Len(s) >= 1 /\ Head(s) = s[1]
            /\ Len(Tail(s)) = Len(s) - 1
            /\ \A l \in 1 .. Len(s) - 1 : Tail(s)[l] = s[l + 1]
        BY <3>1, HeadAndTail
      <3> QED  BY <3>1, <3>2 DEF s
    <2>3. i + 1 \in 1 .. Len(x.todo) /\ x.todo[i + 1] = j /\ i + 1 # 1
      BY <2>1, <2>2
    <2>4. 1 \in 1 .. Len(x.todo)  BY <2>2
    <2> QED  BY <1>1, <2>2, <2>3, <2>4 DEF Asks, Local
  <1>12. \A b \in Buffers : Holds(t, b) => buf'[b].blk = buf[b].blk
    <2> SUFFICES ASSUME NEW b \in Buffers, Holds(t, b)
                 PROVE  buf'[b].blk = buf[b].blk
      OBVIOUS
    <2>1. Refers(t, b)  BY DEF Refers, Holds
    <2> QED  BY <2>1, UnusedFree DEF CountInv
  <1>13. \A b \in Buffers : Holds(t, b)' =>
             buf'[b].blk \in Blocks /\ ~Asks(t, buf[b].blk)'
    <2> SUFFICES ASSUME NEW b \in Buffers, Holds(t, b)'
                 PROVE  buf'[b].blk \in Blocks /\ ~Asks(t, buf[b].blk)'
      OBVIOUS
    <2>1. \A j : Asks(t, j)' <=> \E i \in 1 .. Len(y.todo) : y.todo[i] = j
      BY DEF Asks
    <2>2. Asks(t, buf[b].blk)' <=> \E i \in 1 .. Len(y.todo) : y.todo[i] = buf'[b].blk
      BY DEF Asks
    <2>3. CASE b = c
      BY <1>7, <1>11, <2>1, <2>2, <2>3
    <2>4. CASE Holds(t, b)
      <3>1. buf'[b].blk = buf[b].blk /\ buf[b].blk \in Blocks /\ ~Asks(t, buf[b].blk)
        BY <1>1, <1>12, <2>4 DEF Local
      <3> DEFINE j == buf[b].blk
      <3>2. ~Asks(t, j)  BY <3>1
      <3> QED  BY <1>11, <2>1, <2>2, <3>1, <3>2
    <2> QED  BY <1>10, <2>3, <2>4
  <1> DEFINE m == Len(x.todo)
             n == Len(x.held)
             m1 == Len(y.todo)
             n1 == Len(y.held)
  <1>14. /\ m \in Nat /\ n \in Nat /\ m1 = m - 1 /\ n1 \in {n, n + 1}
         /\ m >= 1 /\ y.held \in Seq(Buffers)
    <2> DEFINE s == x.todo
               h == x.held
    <2>1. s \in Seq(Blocks) /\ s # <<>> /\ h \in Seq(Buffers)  BY <1>3
    <2>2. y.todo = Tail(s) /\ (y.held = h \/ y.held = Append(h, c))  BY <1>5
    <2> HIDE DEF s, h, c
    <2>3. Len(s) \in Nat /\ Len(s) >= 1 /\ Len(y.todo) = Len(s) - 1
      BY <2>1, <2>2, HeadAndTail
    <2>4. /\ Len(h) \in Nat /\ Len(y.held) \in {Len(h), Len(h) + 1}
          /\ y.held \in Seq(Buffers)
      <3>1. c \in Buffers  BY <1>3 DEF c
      <3>2. /\ Len(h) \in Nat /\ Len(Append(h, c)) = Len(h) + 1
            /\ Append(h, c) \in Seq(Buffers)
        BY <2>1, <3>1, Appended
      <3> HIDE DEF y
      <3>3. CASE y.held = h  BY <2>1, <3>2, <3>3
      <3>4. CASE y.held = Append(h, c)  BY <3>2, <3>4
      <3> QED  BY <2>2, <3>3, <3>4
    <2> QED  BY <2>3, <2>4 DEF s, h
  <1>15. m1 + n1 <= m + n
    <2> HIDE DEF m, n, m1, n1
    <2> QED  BY <1>14
  <1>16. y.fn \in {"bread", "getblk"} => m1 + n1 <= 1
    <2> SUFFICES ASSUME y.fn \in {"bread", "getblk"} PROVE m1 + n1 <= 1
      OBVIOUS
    <2>1. m + n <= 1  BY <1>2, <1>5 DEF Reads
    <2> HIDE DEF m, n, m1, n1
    <2> QED  BY <1>14, <1>15, <2>1
  <1>17. m1 + n1 <= MaxBlocks
    <2>1. m + n <= MaxBlocks  BY <1>1 DEF Local
    <2>2. MaxBlocks \in Nat  BY CacheAssumption
    <2> HIDE DEF m, n, m1, n1
    <2> QED  BY <1>14, <1>15, <2>1, <2>2
  <1>18. \A i, j \in 1 .. Len(y.todo) : y.todo[i] = y.todo[j] => i = j
    <2> SUFFICES ASSUME NEW i \in 1 .. Len(y.todo), NEW j \in 1 .. Len(y.todo),
                        y.todo[i] = y.todo[j]
                 PROVE  i = j
      OBVIOUS
    <2> DEFINE s == x.todo
    <2>1. s \in Seq(Blocks) /\ s # <<>> /\ y.todo = Tail(s)  BY <1>3, <1>5
    <2>2. \A a, b \in 1 .. Len(s) : s[a] = s[b] => a = b  BY <1>1 DEF Local
    <2> HIDE DEF s
    <2>3. /\ Len(s) \in Nat /\ Len(y.todo) = Len(s) - 1
          /\ \A l \in 1 .. Len(s) - 1 : y.todo[l] = s[l + 1]
      BY <2>1, HeadAndTail
    <2>4. i + 1 \in 1 .. Len(s) /\ j + 1 \in 1 .. Len(s) /\ s[i + 1] = s[j + 1]
      BY <2>3
    <2> QED  BY <2>2, <2>4
  <1>19. \A i, j \in 1 .. Len(y.held) : y.held[i] = y.held[j] => i = j
    <2>1. CASE y.held = x.held  BY <1>1, <2>1 DEF Local
    <2>2. CASE y.held = Append(x.held, c)
      <3> DEFINE h == x.held
      <3>1. /\ h \in Seq(Buffers) /\ y.held = Append(h, c)
            /\ \A a, b \in 1 .. Len(h) : h[a] = h[b] => a = b
            /\ \A a \in 1 .. Len(h) : h[a] # c
        BY <1>1, <1>3, <2>2 DEF Local, Holds
      <3> HIDE DEF h, c
      <3>2. /\ Len(h) \in Nat /\ Len(y.held) = Len(h) + 1
            /\ \A a \in 1 .. Len(h) : y.held[a] = h[a]
            /\ y.held[Len(h) + 1] = c
        BY <1>3, <3>1, Appended
      <3>3. \A a \in 1 .. Len(y.held) : a \in 1 .. Len(h) \/ a = Len(h) + 1
        BY <3>2
      <3> QED  BY <3>1, <3>2, <3>3
    <2> QED  BY <1>5, <2>1, <2>2
  <1>20. Reads(t)'
    <2>1. P = "drop" => ~\E i \in 1 .. Len(y.held) : y.held[i] = y.bh
      <3> SUFFICES ASSUME P = "drop"
                   PROVE  ~\E i \in 1 .. Len(y.held) : y.held[i] = y.bh
        OBVIOUS
      <3>1. y.held = x.held /\ y.bh = c  BY <1>5
      <3> QED  BY <3>1 DEF Holds
    <2>2. P \in {"drop", "getblk", "check", "copy"}  BY <1>5
    <2>3. P = "getblk" => y.todo # <<>>  BY <1>5
    <2>4. P = "drop" => y.bh \in Buffers /\ y.fn = "breada"  BY <1>3, <1>5
    <2>5. P \in {"drop", "check", "copy"} => y.held # <<>>
      <3>1. Append(x.held, c) # <<>>  BY <1>3, Appended
      <3> QED  BY <1>5, <3>1
    <2>6. P \in {"check", "copy"} => y.bh = Head(y.held)  BY <1>5
    <2>7. y.fn \in {"breada", "bread_page"} => t \in Pagers
      BY <1>2, <1>5 DEF Reads
    <2>8. Holds(t, r[t].bh)' <=> \E i \in 1 .. Len(y.held) : y.held[i] = y.bh
      BY DEF Holds
    <2> HIDE DEF y
    <2> QED
      BY <1>8, <1>16, <2>1, <2>2, <2>3, <2>4, <2>5, <2>6, <2>7, <2>8
      DEF Reads, y
  <1>21. y.pc \notin {"user", "buffer_wait"}  BY <1>5
  <1>22. Local(t)'
    <2>1. y.fn \notin {"sync", "invalidate"}  BY <1>2, <1>5
    <2> QED  BY <1>13, <1>17, <1>18, <1>19, <1>20, <1>21, <2>1 DEF Local
  <1>23. \A b \in Buffers : Refers(t, b)' <=> Holds(t, b) \/ b = c
    <2> TAKE b \in Buffers
    <2>1. Refers(t, b)' <=> \/ Holds(t, b)'
                            \/ y.bh = b /\ Point(t)' \in {"hash", "drop"}
      BY <1>9 DEF Requests, Refers, Holds, Point, User
    <2>2. P = "drop" => y.held = x.held /\ y.bh = c  BY <1>5
    <2>3. P # "drop" => y.held # x.held /\ P # "hash"
      <3> SUFFICES ASSUME P # "drop" PROVE y.held # x.held /\ P # "hash"
        OBVIOUS
      <3>1. y.held = Append(x.held, c) /\ P # "hash"  BY <1>5
      <3>2. /\ Len(x.held) \in Nat
            /\ Len(Append(x.held, c)) = Len(x.held) + 1
        BY <1>3, Appended
      <3> QED  BY <3>1, <3>2
    <2> QED  BY <1>8, <1>10, <2>1, <2>2, <2>3
  <1> QED  BY <1>4, <1>5, <1>6, <1>9, <1>21, <1>22, <1>23

-----------------------------------------------------------------------------
(* get_from_hash_table finds the block: one reference more. *)
LEMMA HitStep ==
    ASSUME CountInv, NEW t \in Tasks, Hit(t)
    PROVE  CountInv'
  <1> DEFINE x == r[t]
  <1>1. PICK b \in find_buffer(Want(t)) :
          /\ buf' = [buf EXCEPT ![b].count = @ + 1]
          /\ r' = [r EXCEPT ![t] = [r[t] EXCEPT !.pc = "hash", !.bh = b]]
    BY DEF Hit, Set
  <1>2. x.pc = "getblk" /\ cur' = t /\ disk' = disk /\ excused' = excused
    BY DEF Hit, At
  <1>3. Reads(t) /\ x.fn \notin {"sync", "invalidate"}  BY <1>2, ReadsIf DEF Point
  <1>4. /\ r \in [Tasks -> TaskType] /\ x \in TaskType /\ Local(t) /\ Requests(t)
        /\ buf \in [Buffers -> BufferType]
    BY DEF CountInv, TypeOK
  <1>5. x.todo \in Seq(Blocks) /\ x.todo # <<>>
    BY <1>2, <1>3, <1>4 DEF Reads, Point, TaskType
  <1>6. b \in Buffers /\ buf[b].blk = Head(x.todo) /\ buf[b] \in BufferType
    BY <1>4 DEF find_buffer, Want
  <1>7. Asks(t, buf[b].blk)
    <2>1. Head(x.todo) = x.todo[1] /\ 1 \in 1 .. Len(x.todo)
      BY <1>5, HeadAndTail
    <2> QED  BY <1>6, <2>1 DEF Asks
  <1>8. ~Holds(t, b)  BY <1>4, <1>6, <1>7 DEF Local
  <1>9. x.rq = User.rq  BY <1>2, <1>4 DEF Requests
  <1>10. \A c : Refers(t, c) <=> Holds(t, c)
    BY <1>2, <1>9 DEF Refers, Holds, User
  <1>11. buf[b].count < 255
    <2> DEFINE S == {u \in Tasks : Refers(u, b)}
    <2>1. t \in Tasks \ S  BY <1>8, <1>10
    <2>2. buf[b].count = Cardinality(S)  BY <1>6 DEF CountInv, CountExact
    <2>3. Cardinality(S) < 255  BY <2>1, RefsFinite
    <2> QED  BY <2>2, <2>3
  <1> DEFINE y == [r[t] EXCEPT !.pc = "hash", !.bh = b]
             z == [buf[b] EXCEPT !.count = @ + 1]
  <1>12. /\ y \in TaskType /\ y.pc = "hash" /\ y.fn = x.fn /\ y.todo = x.todo
         /\ y.held = x.held /\ y.bh = b /\ y.rq = x.rq
    BY <1>4, <1>6 DEF TaskType, Pcs
  <1>13. /\ z \in BufferType /\ z.blk = buf[b].blk /\ z.count = buf[b].count + 1
         /\ z.dirt = buf[b].dirt /\ z.io = buf[b].io
    BY <1>6, <1>11 DEF BufferType
  <1>14. buf' = [buf EXCEPT ![b] = z] /\ r' = [r EXCEPT ![t] = y]
    BY <1>1
  <1> HIDE DEF y, z
  <1>15. /\ r' \in [Tasks -> TaskType] /\ r'[t] = y
         /\ \A u \in Tasks \ {t} : r'[u] = r[u]
         /\ buf' \in [Buffers -> BufferType] /\ buf'[b] = z
         /\ \A c \in Buffers : c # b => buf'[c] = buf[c]
    BY <1>4, <1>6, <1>12, <1>13, <1>14
  <1>16. TypeOK'  BY <1>2, <1>15 DEF CountInv, TypeOK
  <1>17. \A c \in Buffers : buf'[c].blk = buf[c].blk
    BY <1>13, <1>15
  <1>18. Named'  BY <1>6, <1>13, <1>15 DEF CountInv, Named
  <1>19. OneBufferPerBlock'  BY <1>17 DEF CountInv, OneBufferPerBlock
  <1>20. Requests(t)'  BY <1>9, <1>12, <1>15 DEF Requests
  <1>21. /\ \A c : Holds(t, c)' <=> Holds(t, c)
         /\ \A k : Asks(t, k)' <=> Asks(t, k)
    BY <1>12, <1>15 DEF Holds, Asks
  <1>22. \A c : Refers(t, c)' <=> Holds(t, c) \/ c = b
    BY <1>9, <1>12, <1>15 DEF Refers, Holds, User
  <1>23. Local(t)'
    <2>1. Point(t) = "getblk" /\ Point(t)' = "hash"
      BY <1>2, <1>12, <1>15 DEF Point
    <2>2. ~Holds(t, r[t].bh)'
      BY <1>8, <1>12, <1>15 DEF Holds
    <2>3. Reads(t)'
      BY <1>3, <1>5, <1>6, <1>12, <1>15, <1>17, <2>1, <2>2 DEF Reads
    <2>4. \A c \in Buffers : Holds(t, c)' =>
              buf'[c].blk \in Blocks /\ ~Asks(t, buf[c].blk)'
      <3> SUFFICES ASSUME NEW c \in Buffers, Holds(t, c)'
                   PROVE  buf'[c].blk \in Blocks /\ ~Asks(t, buf[c].blk)'
        OBVIOUS
      <3>1. buf[c].blk \in Blocks /\ ~Asks(t, buf[c].blk)
        BY <1>4, <1>21 DEF Local
      <3> QED  BY <1>12, <1>15, <1>17, <3>1 DEF Asks
    <2>5. /\ Len(y.todo) + Len(y.held) <= MaxBlocks
          /\ \A i, j \in 1 .. Len(y.todo) : y.todo[i] = y.todo[j] => i = j
          /\ \A i, j \in 1 .. Len(y.held) : y.held[i] = y.held[j] => i = j
      BY <1>4, <1>12 DEF Local
    <2> QED  BY <1>3, <1>12, <1>15, <2>3, <2>4, <2>5 DEF Local
  <1>24. \A c \in Buffers :
           \/ /\ Refers(t, c)' <=> Refers(t, c)
              /\ buf'[c].count = buf[c].count
           \/ ~Refers(t, c) /\ Refers(t, c)' /\ buf'[c].count = buf[c].count + 1
    BY <1>8, <1>10, <1>13, <1>15, <1>22
  <1>25. \E c \in Buffers : Refers(t, c)'  BY <1>6, <1>22
  <1>26. r'[t].pc # "buffer_wait"  BY <1>12, <1>15
  <1> QED
    BY <1>15, <1>16, <1>17, <1>18, <1>19, <1>20, <1>23, <1>24, <1>25, <1>26,
       StepKept

(* get_from_hash_table after its wait: the buffer still has the block, for *)
(* nobody takes a buffer that is referred to.                              *)
LEMMA HashStep ==
    ASSUME CountInv, NEW t \in Tasks, get_from_hash_table(t)
    PROVE  CountInv'
  <1> DEFINE c == r[t].bh
  <1>1. r[t].pc = "hash" /\ cur' = t /\ disk' = disk /\ excused' = excused
    BY DEF get_from_hash_table, At
  <1>2. Reads(t) /\ r[t].fn \notin {"sync", "invalidate"}
    BY <1>1, ReadsIf DEF Point
  <1>3. /\ buf[c].blk = Head(r[t].todo) /\ c \in Buffers /\ ~Holds(t, c)
    BY <1>1, <1>2 DEF Reads, Point
  <1>4. /\ r' = [r EXCEPT ![t] = Got(t, r[t].bh, buf[r[t].bh].uptodate)]
        /\ buf' = buf
    BY <1>3 DEF get_from_hash_table, Want, Set
  <1>5. /\ r'[t] \in TaskType /\ r' \in [Tasks -> TaskType]
        /\ \A u \in Tasks \ {t} : r'[u] = r[u]
        /\ r'[t].pc # "buffer_wait"
        /\ Requests(t)' /\ Local(t)'
        /\ \A b \in Buffers : Refers(t, b)' <=> Holds(t, b) \/ b = r[t].bh
    <2>1. r'[t] = Got(t, r[t].bh, buf[r[t].bh].uptodate)
      BY <1>4 DEF CountInv, TypeOK
    <2>2. GotShape(r[t], r[t].bh, r'[t])  BY <1>1, <2>1, GotFacts
    <2>3. r' = [r EXCEPT ![t] = r'[t]]  BY <1>4, <2>1
    <2> QED  BY <1>1, <1>3, <1>4, <2>2, <2>3, GotKept
  <1>6. TypeOK'  BY <1>1, <1>4, <1>5 DEF CountInv, TypeOK
  <1>7. Named' /\ OneBufferPerBlock'
    BY <1>4 DEF CountInv, Named, OneBufferPerBlock
  <1>8. \A b : Refers(t, b) <=> Holds(t, b) \/ b = r[t].bh
    BY <1>1 DEF Refers, Holds, CountInv, Requests, User
  <1>9. \E b \in Buffers : Refers(t, b)'  BY <1>3, <1>5
  <1> QED  BY <1>4, <1>5, <1>6, <1>7, <1>8, <1>9, StepKept

(* getblk takes the chosen buffer, which nobody refers to. *)
LEMMA TakeStep ==
    ASSUME CountInv, NEW t \in Tasks, r[t].pc = "victim",
           ~InUse(r[t].bh), ~Present(Want(t)),
           buf' = Taken(r[t].bh, Want(t)),
           GotShape(r[t], r[t].bh, r'[t]), r' = [r EXCEPT ![t] = r'[t]],
           cur' = t, UNCHANGED <<disk, excused>>
    PROVE  CountInv'
  <1> DEFINE c == r[t].bh
             k == Want(t)
             z == [buf[c] EXCEPT !.count = 1, !.dirt = FALSE,
                                 !.uptodate = FALSE, !.blk = k, !.data = FALSE]
  <1>1. Reads(t) /\ r[t].fn \notin {"sync", "invalidate"}
    BY ReadsIf DEF Point
  <1>2. /\ buf \in [Buffers -> BufferType] /\ r[t] \in TaskType
        /\ CountExact /\ Requests(t)
    BY DEF CountInv, TypeOK
  <1>3. c \in Buffers /\ r[t].todo # <<>> /\ r[t].todo \in Seq(Blocks)
    BY <1>1, <1>2 DEF Reads, Point, TaskType
  <1>4. k \in Blocks /\ k = Head(r[t].todo) /\ buf[c] \in BufferType
    BY <1>2, <1>3, HeadAndTail DEF Want
  <1>5. buf[c].count = 0  BY <1>4 DEF InUse, BufferType
  <1>6. \A u \in Tasks : ~Refers(u, c)  BY <1>2, <1>3, <1>5, UnusedFree
  <1>7. \A b \in Buffers : buf[b].blk # k  BY DEF Present, find_buffer
  <1>8. buf' = [buf EXCEPT ![c] = z]  BY DEF Taken
  <1> HIDE DEF c, k
  <1>9. z \in BufferType /\ z.blk = k /\ z.count = 1
    <2> DEFINE a == buf[c]
    <2>1. k \in Blocks \cup {Null} /\ a \in BufferType  BY <1>4
    <2>2. z = [a EXCEPT !.count = 1, !.dirt = FALSE,
                        !.uptodate = FALSE, !.blk = k, !.data = FALSE]
      OBVIOUS
    <2> HIDE DEF a, z
    <2>3. z.blk = k /\ z.count = 1  BY <2>1, <2>2 DEF BufferType
    <2>4. a.lock \in BOOLEAN /\ a.io \in {"none", "READ", "WRITE"}
      BY <2>1 DEF BufferType
    <2>5. z \in BufferType
      <3>1. z = [blk |-> k, count |-> 1, lock |-> a.lock, dirt |-> FALSE,
                 uptodate |-> FALSE, data |-> FALSE, io |-> a.io]
        BY <2>1, <2>2 DEF BufferType
      <3> QED  BY <2>1, <2>4, <3>1 DEF BufferType
    <2> QED  BY <2>3, <2>5
  <1> HIDE DEF z
  <1>10. /\ buf' \in [Buffers -> BufferType] /\ buf'[c] = z
         /\ \A b \in Buffers : b # c => buf'[b] = buf[b]
    BY <1>2, <1>3, <1>8, <1>9
  <1>11. buf'[r[t].bh].blk = Head(r[t].todo) /\ ~Holds(t, r[t].bh)
    BY <1>4, <1>6, <1>9, <1>10 DEF c, Refers, Holds
  <1>12. \A b \in Buffers : \/ buf'[b].blk = buf[b].blk
                            \/ buf[b].count = 0 /\ buf'[b].blk \in Blocks
    BY <1>4, <1>5, <1>9, <1>10
  <1>13. /\ r'[t] \in TaskType /\ r' \in [Tasks -> TaskType]
         /\ \A u \in Tasks \ {t} : r'[u] = r[u]
         /\ r'[t].pc # "buffer_wait"
         /\ Requests(t)' /\ Local(t)'
         /\ \A b \in Buffers : Refers(t, b)' <=> Holds(t, b) \/ b = r[t].bh
    BY <1>11, <1>12, GotKept
  <1>14. TypeOK'  BY <1>10, <1>13 DEF CountInv, TypeOK
  <1>15. Named'  BY <1>3, <1>4, <1>9, <1>10 DEF CountInv, Named
  <1>16. OneBufferPerBlock'
    BY <1>3, <1>7, <1>9, <1>10 DEF CountInv, OneBufferPerBlock
  <1>17. \A b : Refers(t, b) <=> Holds(t, b)
    BY <1>2 DEF Refers, Holds, Requests, User
  <1>18. \A b \in Buffers :
           \/ /\ Refers(t, b)' <=> Refers(t, b)
              /\ buf'[b].count = buf[b].count
           \/ ~Refers(t, b) /\ Refers(t, b)' /\ buf'[b].count = buf[b].count + 1
    <2> TAKE b \in Buffers
    <2>1. CASE b = c
      <3>1. buf'[b].count = 1 /\ buf[b].count = 0  BY <1>5, <1>9, <1>10, <2>1
      <3>2. ~Refers(t, b) /\ Refers(t, b)'  BY <1>6, <1>13, <2>1 DEF c
      <3> QED  BY <3>1, <3>2
    <2>2. CASE b # c
      <3>1. Refers(t, b)' <=> Refers(t, b)  BY <1>13, <1>17, <2>2 DEF c
      <3> QED  BY <1>10, <2>2, <3>1
    <2> QED  BY <2>1, <2>2
  <1>19. \E b \in Buffers : Refers(t, b)'  BY <1>3, <1>13 DEF c
  <1> QED
    BY <1>12, <1>13, <1>14, <1>15, <1>16, <1>18, <1>19, StepKept

(* getblk after each wait for the chosen buffer. *)
LEMMA VictimStep ==
    ASSUME CountInv, NEW t \in Tasks, Victim(t)
    PROVE  CountInv'
  <1> DEFINE c == r[t].bh
  <1>1. r[t].pc = "victim" /\ cur' = t /\ UNCHANGED <<disk, excused>>
    BY DEF Victim, At
  <1>2. CASE Goto(t, "getblk") /\ UNCHANGED buf
    BY <1>1, <1>2, VictimLostStep
  <1>3. CASE /\ MustSync(c)
             /\ Set(t, [r[t] EXCEPT !.pc = "sync", !.visit = {1, 2} \X Buffers,
                                    !.dev = DevOf[buf[c].blk]])
             /\ UNCHANGED buf
    BY <1>1, <1>3, VictimSyncStep DEF MustSync
  <1>4. CASE /\ ~InUse(c) /\ ~Present(Want(t)) /\ buf' = Taken(c, Want(t))
             /\ Set(t, Got(t, c, FALSE))
    <2>1. PICK up : Set(t, Got(t, c, up))  BY <1>4, Zenon
    <2>2. r' = [r EXCEPT ![t] = Got(t, c, up)]  BY <2>1 DEF Set
    <2>3. r'[t] = Got(t, r[t].bh, up)  BY <2>2 DEF CountInv, TypeOK
    <2>4. GotShape(r[t], r[t].bh, r'[t])  BY <1>1, <2>3, GotFacts
    <2>5. r' = [r EXCEPT ![t] = r'[t]]  BY <2>2, <2>3
    <2>6. ~InUse(c) /\ ~Present(Want(t)) /\ buf' = Taken(c, Want(t))
      BY <1>4, Zenon
    <2> QED  BY <1>1, <2>4, <2>5, <2>6, TakeStep
  <1> QED  BY <1>2, <1>3, <1>4 DEF Victim

-----------------------------------------------------------------------------
(* When every buffer is in use, a process that is neither asleep on        *)
(* buffer_wait nor about to be has one of them: those that wait for a      *)
(* buffer hold at most MaxBlocks - 1 each, and there are more buffers.     *)
LEMMA NotAllAsleep ==
    ASSUME CountInv, NEW t \in Tasks, r[t].pc = "getblk", Unused = {}
    PROVE  \E u \in Tasks \ {t}, b \in Buffers :
               Refers(u, b) /\ r[u].pc # "buffer_wait"
  <1> SUFFICES ASSUME \A u \in Tasks, b \in Buffers :
                          Refers(u, b) => r[u].pc \in {"getblk", "buffer_wait"}
               PROVE  FALSE
    OBVIOUS
  <1> DEFINE Places == Pagers \X (1 .. MaxBlocks - 1)
             Fits(b, p) == r[p[1]].held[p[2]] = b
             f == [b \in Buffers |-> CHOOSE p \in Places : Fits(b, p)]
  <1>1. \A b \in Buffers : \E p \in Places : Fits(b, p)
    <2> SUFFICES ASSUME NEW b \in Buffers PROVE \E p \in Places : Fits(b, p)
      OBVIOUS
    <2>1. buf[b].count # 0  BY DEF Unused
    <2>2. PICK u \in Tasks : Refers(u, b)  BY <2>1, UnusedFree DEF CountInv
    <2>3. r[u].pc \in {"getblk", "buffer_wait"}  BY <2>2
    <2>4. Requests(u) /\ Local(u) /\ r[u] \in TaskType  BY DEF CountInv, TypeOK
    <2>5. Point(u) = r[u].pc  BY <2>3 DEF Point
    <2>6. Reads(u) /\ r[u].fn \notin {"sync", "invalidate"}
      BY <2>3, <2>5, ReadsIf
    <2>7. PICK i \in 1 .. Len(r[u].held) : r[u].held[i] = b
      BY <2>2, <2>3, <2>4, <2>5, RefersPoint DEF Holds
    <2> DEFINE m == Len(r[u].todo)
               n == Len(r[u].held)
    <2>8. m \in Nat /\ n \in Nat /\ m >= 1
      <3>1. r[u].todo \in Seq(Blocks) /\ r[u].held \in Seq(Buffers)
        BY <2>4 DEF TaskType
      <3>2. r[u].todo # <<>>  BY <2>3, <2>5, <2>6 DEF Reads
      <3> QED  BY <3>1, <3>2, HeadAndTail
    <2>9. m + n <= MaxBlocks /\ MaxBlocks \in Nat
      BY <2>4, CacheAssumption DEF Local
    <2>10. i \in 1 .. n  BY <2>7
    <2>11. r[u].fn \notin {"bread", "getblk"}
      <3> SUFFICES ASSUME r[u].fn \in {"bread", "getblk"} PROVE FALSE  OBVIOUS
      <3>1. m + n <= 1  BY <2>6 DEF Reads
      <3> HIDE DEF m, n
      <3> QED  BY <2>8, <2>10, <3>1
    <2>12. u \in Pagers
      <3>1. r[u].fn \in Fns  BY <2>4 DEF TaskType
      <3> QED  BY <2>6, <2>11, <3>1 DEF Reads, Fns
    <2>13. i \in 1 .. MaxBlocks - 1
      <3> HIDE DEF m, n
      <3> QED  BY <2>8, <2>9, <2>10
    <2>14. <<u, i>> \in Places /\ Fits(b, <<u, i>>)  BY <2>7, <2>12, <2>13
    <2> QED  BY <2>14
  <1>2. \A b \in Buffers : f[b] \in Places /\ Fits(b, f[b])
    <2> SUFFICES ASSUME NEW b \in Buffers PROVE f[b] \in Places /\ Fits(b, f[b])
      OBVIOUS
    <2>1. PICK p \in Places : Fits(b, p)  BY <1>1
    <2>2. f[b] = CHOOSE q \in Places : Fits(b, q)  OBVIOUS
    <2> HIDE DEF f, Places, Fits
    <2> QED  BY <2>1, <2>2
  <1>3. f \in [Buffers -> Places]  BY <1>2
  <1>4. /\ IsFiniteSet(Places)
        /\ Cardinality(Places) = Cardinality(Pagers) * (MaxBlocks - 1)
    <2>1. IsFiniteSet(Pagers)
      <3>1. Pagers \subseteq Tasks  BY DEF Pagers
      <3> QED  BY <3>1, CacheAssumption, FS_Subset
    <2>2. MaxBlocks \in Nat \ {0}  BY CacheAssumption
    <2>3. /\ IsFiniteSet(1 .. MaxBlocks - 1)
          /\ Cardinality(1 .. MaxBlocks - 1) = MaxBlocks - 1
      BY <2>2, FS_Interval
    <2>4. /\ IsFiniteSet(Pagers \X (1 .. MaxBlocks - 1))
          /\ Cardinality(Pagers \X (1 .. MaxBlocks - 1)) =
                Cardinality(Pagers) * Cardinality(1 .. MaxBlocks - 1)
      BY <2>1, <2>3, FS_Product
    <2> QED  BY <2>3, <2>4
  <1>5. IsFiniteSet(Buffers) /\ Cardinality(Places) < Cardinality(Buffers)
    <2>1. /\ IsFiniteSet(Buffers)
          /\ Cardinality(Buffers) > Cardinality(Pagers) * (MaxBlocks - 1)
      BY CacheAssumption
    <2>2. Cardinality(Places) \in Nat /\ Cardinality(Buffers) \in Nat
      BY <1>4, <2>1, FS_CardinalityType
    <2> DEFINE X == Cardinality(Pagers) * (MaxBlocks - 1)
    <2>3. Cardinality(Places) = X /\ Cardinality(Buffers) > X  BY <1>4, <2>1
    <2> HIDE DEF X, Places
    <2> QED  BY <2>1, <2>2, <2>3
  <1>6. \E a, b \in Buffers : a # b /\ f[a] = f[b]
    <2> HIDE DEF f, Places
    <2> QED  BY <1>3, <1>4, <1>5, FS_PigeonHole
  <1>7. PICK a \in Buffers, b \in Buffers : a # b /\ f[a] = f[b]  BY <1>6
  <1>8. Fits(a, f[a]) /\ Fits(b, f[b])  BY <1>2
  <1> HIDE DEF f
  <1> QED  BY <1>7, <1>8

(* getblk goes to sleep on buffer_wait. *)
LEMMA FullStep ==
    ASSUME CountInv, NEW t \in Tasks, Full(t)
    PROVE  CountInv'
  <1> DEFINE x == r[t]
             y == r'[t]
  <1>1. /\ x.pc = "getblk" /\ Unused = {} /\ Goto(t, "buffer_wait")
        /\ cur' = Null /\ buf' = buf /\ disk' = disk /\ excused' = excused
    BY DEF Full, At
  <1>2. "buffer_wait" \in Pcs /\ TypeOK /\ Local(t) /\ Requests(t)
    BY DEF Pcs, CountInv
  <1>3. /\ r' \in [Tasks -> TaskType]
        /\ \A u \in Tasks \ {t} : r'[u] = r[u]
        /\ y.pc = "buffer_wait" /\ y.fn = x.fn /\ y.rq = x.rq
        /\ y.todo = x.todo /\ y.held = x.held /\ y.bh = x.bh
    BY <1>1, <1>2, GotoFacts
  <1>4. TypeOK'  BY <1>1, <1>2, <1>3 DEF TypeOK
  <1>5. Named' /\ OneBufferPerBlock'
    BY <1>1 DEF CountInv, Named, OneBufferPerBlock
  <1>6. x.rq = User.rq /\ Requests(t)'  BY <1>1, <1>2, <1>3 DEF Requests
  <1>7. \A b : Refers(t, b)' <=> Refers(t, b)
    BY <1>1, <1>3, <1>6 DEF Refers, User
  <1>8. \A u \in Tasks \ {t} : /\ Requests(u)' /\ Local(u)'
                                /\ \A b : Refers(u, b)' <=> Refers(u, b)
    BY <1>1, <1>3, <1>4, OthersKept
  <1>9. Local(t)'
    <2>1. Point(t) = "getblk" /\ Point(t)' = "buffer_wait"
      BY <1>1, <1>3 DEF Point
    <2>2. Reads(t) /\ x.fn \notin {"sync", "invalidate"}
      BY <2>1, ReadsIf
    <2>3. Reads(t)'  BY <1>3, <2>1, <2>2 DEF Reads
    <2>4. \A b \in Buffers : Holds(t, b)' =>
              buf'[b].blk \in Blocks /\ ~Asks(t, buf[b].blk)'
      BY <1>1, <1>2, <1>3 DEF Local, Holds, Asks
    <2>5. /\ Len(y.todo) + Len(y.held) <= MaxBlocks
          /\ \A i, j \in 1 .. Len(y.todo) : y.todo[i] = y.todo[j] => i = j
          /\ \A i, j \in 1 .. Len(y.held) : y.held[i] = y.held[j] => i = j
      BY <1>2, <1>3 DEF Local
    <2> QED  BY <1>3, <2>2, <2>3, <2>4, <2>5 DEF Local
  <1>10. CountExact'
    <2> SUFFICES ASSUME NEW b \in Buffers
                 PROVE  buf'[b].count = Cardinality({u \in Tasks : Refers(u, b)'})
      BY DEF CountExact
    <2>1. \A u \in Tasks : Refers(u, b)' <=> Refers(u, b)  BY <1>7, <1>8
    <2> QED  BY <1>1, <2>1, CountSame DEF CountInv
  <1>11. WaitsForRelease'
    <2>1. PICK u \in Tasks \ {t}, b \in Buffers :
              Refers(u, b) /\ r[u].pc # "buffer_wait"
      BY <1>1, NotAllAsleep
    <2>2. Refers(u, b)' /\ r'[u].pc # "buffer_wait"  BY <1>3, <1>8, <2>1
    <2> QED  BY <2>2 DEF WaitsForRelease
  <1>12. \A u \in Tasks : Requests(u)' /\ Local(u)'  BY <1>6, <1>8, <1>9
  <1> QED  BY <1>4, <1>5, <1>10, <1>11, <1>12 DEF CountInv

(* breada gives a block it has read ahead back. *)
LEMMA DropStep ==
    ASSUME CountInv, NEW t \in Tasks, Drop(t)
    PROVE  CountInv'
  <1> DEFINE x == r[t]
             c == x.bh
             h == Head(x.held)
             y == NextBlock(x)
             z == [buf[c] EXCEPT !.count = @ - 1]
  <1>1. /\ x.pc = "drop" /\ buf' = [buf EXCEPT ![c].count = @ - 1]
        /\ r' = [r EXCEPT ![t] = y]
        /\ cur' = t /\ disk' = disk /\ excused' = excused
    BY DEF Drop, At, Set
  <1>2. Reads(t) /\ x.fn \notin {"sync", "invalidate"}  BY <1>1, ReadsIf DEF Point
  <1>3. /\ r \in [Tasks -> TaskType] /\ x \in TaskType /\ Local(t) /\ Requests(t)
        /\ buf \in [Buffers -> BufferType] /\ CountExact
    BY DEF CountInv, TypeOK
  <1>4. /\ c \in Buffers /\ ~Holds(t, c) /\ x.held # <<>> /\ x.rq = User.rq
        /\ x.held \in Seq(Buffers) /\ buf[c] \in BufferType
    BY <1>1, <1>2, <1>3 DEF Reads, Point, Requests, TaskType
  <1>5. h \in Buffers /\ h = x.held[1] /\ 1 \in 1 .. Len(x.held)
    BY <1>4, HeadAndTail
  <1>6. \A b : Refers(t, b) <=> Holds(t, b) \/ b = c
    BY <1>1, <1>4 DEF Refers, Holds, User
  <1>7. buf[c] \in BufferType /\ buf[c].count > 0
    <2>1. buf[c].count # 0  BY <1>3, <1>4, <1>6, UnusedFree
    <2>2. buf[c] \in BufferType  BY <1>4
    <2>3. buf[c].count \in 0 .. 255  BY <2>2 DEF BufferType
    <2> HIDE DEF c
    <2> QED  BY <2>1, <2>2, <2>3
  <1>8. buf' = [buf EXCEPT ![c] = z]  BY <1>1
  <1>9. /\ z \in BufferType /\ z.blk = buf[c].blk /\ z.count = buf[c].count - 1
        /\ z.dirt = buf[c].dirt /\ z.io = buf[c].io
    <2> HIDE DEF c
    <2> QED  BY <1>7 DEF BufferType
  <1>10. \/ /\ x.todo # <<>> /\ y = [x EXCEPT !.pc = "getblk", !.bh = Null]
         \/ y = [x EXCEPT !.pc = "check", !.bh = h]
    BY DEF NextBlock
  <1> HIDE DEF z, c, h, y
  <1>11. /\ y \in TaskType /\ y.fn = x.fn /\ y.todo = x.todo /\ y.held = x.held
         /\ y.rq = x.rq
         /\ \/ x.todo # <<>> /\ y.pc = "getblk"
            \/ y.pc = "check" /\ y.bh = h
    BY <1>3, <1>5, <1>10, ZenonT(60) DEF TaskType, Pcs
  <1>12. /\ r' \in [Tasks -> TaskType] /\ r'[t] = y
         /\ \A u \in Tasks \ {t} : r'[u] = r[u]
         /\ buf' \in [Buffers -> BufferType] /\ buf'[c] = z
         /\ \A b \in Buffers : b # c => buf'[b] = buf[b]
    BY <1>1, <1>3, <1>4, <1>8, <1>9, <1>11
  <1>13. TypeOK'  BY <1>1, <1>12 DEF CountInv, TypeOK
  <1>14. \A b \in Buffers : buf'[b].blk = buf[b].blk  BY <1>9, <1>12
  <1>15. Named'  BY <1>4, <1>9, <1>12 DEF CountInv, Named
  <1>16. OneBufferPerBlock'  BY <1>14 DEF CountInv, OneBufferPerBlock
  <1>17. Requests(t)'  BY <1>4, <1>11, <1>12 DEF Requests
  <1>18. /\ \A b : Holds(t, b)' <=> Holds(t, b)
         /\ \A k : Asks(t, k)' <=> Asks(t, k)
    BY <1>11, <1>12 DEF Holds, Asks
  <1>19. \A b : Refers(t, b)' <=> Holds(t, b)
    BY <1>4, <1>11, <1>12 DEF Refers, Holds, User
  <1>20. Local(t)'
    <2>1. Point(t)' = y.pc  BY <1>11, <1>12 DEF Point
    <2>2. Reads(t)'
      BY <1>2, <1>4, <1>11, <1>12, <2>1 DEF Reads, h
    <2>3. \A b \in Buffers : Holds(t, b)' =>
              buf'[b].blk \in Blocks /\ ~Asks(t, buf[b].blk)'
      <3> SUFFICES ASSUME NEW b \in Buffers, Holds(t, b)'
                   PROVE  buf'[b].blk \in Blocks /\ ~Asks(t, buf[b].blk)'
        OBVIOUS
      <3>1. buf[b].blk \in Blocks /\ ~Asks(t, buf[b].blk)
        BY <1>3, <1>18 DEF Local
      <3> QED  BY <1>11, <1>12, <1>14, <3>1 DEF Asks
    <2>4. /\ Len(y.todo) + Len(y.held) <= MaxBlocks
          /\ \A i, j \in 1 .. Len(y.todo) : y.todo[i] = y.todo[j] => i = j
          /\ \A i, j \in 1 .. Len(y.held) : y.held[i] = y.held[j] => i = j
      BY <1>3, <1>11 DEF Local
    <2> QED  BY <1>2, <1>11, <1>12, <2>2, <2>3, <2>4 DEF Local
  <1>21. \A b \in Buffers :
           \/ /\ Refers(t, b)' <=> Refers(t, b)
              /\ buf'[b].count = buf[b].count
           \/ Refers(t, b) /\ ~Refers(t, b)' /\ buf'[b].count = buf[b].count - 1
    <2> TAKE b \in Buffers
    <2>1. CASE b = c  BY <1>4, <1>6, <1>9, <1>12, <1>19, <2>1
    <2>2. CASE b # c  BY <1>6, <1>12, <1>19, <2>2
    <2> QED  BY <2>1, <2>2
  <1>22. \E b \in Buffers : Refers(t, b)'
    <2>1. Holds(t, h)  BY <1>5 DEF Holds
    <2> QED  BY <1>5, <1>19, <2>1
  <1>23. r'[t].pc # "buffer_wait"  BY <1>11, <1>12
  <1> QED
    BY <1>12, <1>13, <1>14, <1>15, <1>16, <1>17, <1>20, <1>21, <1>22, <1>23,
       StepKept

(* brelse gives a buffer back and wakes everybody on buffer_wait. *)
LEMMA BrelseStep ==
    ASSUME CountInv, NEW t \in Tasks, brelse(t)
    PROVE  CountInv'
  <1> DEFINE x == r[t]
             c == x.bh
             s == x.held
             held == Tail(s)
             h == Head(held)
             y == IF held = <<>> THEN User
                  ELSE [x EXCEPT !.pc = "check", !.held = held, !.bh = h]
             z == [buf[c] EXCEPT !.count = @ - 1]
  <1>1. /\ x.pc = "brelse" /\ buf' = [buf EXCEPT ![c].count = @ - 1]
        /\ r' = [u \in Tasks |-> IF u = t THEN y ELSE Woken(r[u])]
        /\ cur' \in {t, Null} /\ disk' = disk /\ excused' = excused
    BY DEF brelse, At
  <1>2. Reads(t) /\ x.fn \notin {"sync", "invalidate"}  BY <1>1, ReadsIf DEF Point
  <1>3. /\ r \in [Tasks -> TaskType] /\ x \in TaskType /\ Local(t) /\ Requests(t)
        /\ buf \in [Buffers -> BufferType] /\ CountExact
    BY DEF CountInv, TypeOK
  <1>4. s # <<>> /\ c = Head(s) /\ x.rq = User.rq /\ s \in Seq(Buffers)
    BY <1>1, <1>2, <1>3 DEF Reads, Point, Requests, TaskType
  <1>5. \A i, j \in 1 .. Len(s) : s[i] = s[j] => i = j  BY <1>3 DEF Local
  <1>6. \A b : Refers(t, b) <=> \E i \in 1 .. Len(s) : s[i] = b
    BY <1>1, <1>4 DEF Refers, User
  <1>7. buf' = [buf EXCEPT ![c] = z]  BY <1>1
  <1>8. \A b \in Buffers : (\E i \in 1 .. Len(s) : s[i] = b) =>
            buf[b].blk \in Blocks /\ ~Asks(t, buf[b].blk)
    BY <1>3 DEF Local, Holds
  <1> HIDE DEF s
  <1>9. /\ Len(s) \in Nat /\ Len(s) >= 1 /\ c = s[1] /\ c \in Buffers
        /\ held \in Seq(Buffers) /\ Len(held) = Len(s) - 1
        /\ \A i \in 1 .. Len(s) - 1 : held[i] = s[i + 1]
    BY <1>4, HeadAndTail
  <1>10. held # <<>> => h \in Buffers  BY <1>9, HeadAndTail
  <1> HIDE DEF held, h, c, y
  <1>11. buf[c] \in BufferType /\ buf[c].count > 0
    <2>1. 1 \in 1 .. Len(s)  BY <1>9
    <2>2. Refers(t, c)  BY <1>6, <1>9, <2>1
    <2>3. buf[c].count # 0  BY <1>3, <1>9, <2>2, UnusedFree
    <2>4. buf[c] \in BufferType  BY <1>3, <1>9
    <2>5. buf[c].count \in 0 .. 255  BY <2>4 DEF BufferType
    <2> QED  BY <2>3, <2>4, <2>5
  <1>12. /\ z \in BufferType /\ z.blk = buf[c].blk /\ z.count = buf[c].count - 1
         /\ z.dirt = buf[c].dirt /\ z.io = buf[c].io
    BY <1>11 DEF BufferType
  <1> HIDE DEF z
  <1>13. /\ buf' \in [Buffers -> BufferType] /\ buf'[c] = z
         /\ \A b \in Buffers : b # c => buf'[b] = buf[b]
    BY <1>3, <1>7, <1>9, <1>12
  <1>14. /\ y \in TaskType /\ y.rq = User.rq /\ y.held = held
         /\ \/ held = <<>> /\ y = User
            \/ /\ held # <<>> /\ y.pc = "check" /\ y.fn = x.fn /\ y.todo = x.todo
               /\ y.bh = Head(held)
    <2>1. CASE held = <<>>
      <3>1. y = User  BY <2>1 DEF y
      <3> QED  BY <2>1, <3>1, UserFacts
    <2>2. CASE held # <<>>
      <3>1. y = [x EXCEPT !.pc = "check", !.held = held, !.bh = h]
        BY <2>2 DEF y
      <3>2. /\ y \in TaskType /\ y.rq = x.rq /\ y.held = held /\ y.pc = "check"
            /\ y.fn = x.fn /\ y.todo = x.todo /\ y.bh = h
        BY <1>3, <1>9, <1>10, <2>2, <3>1 DEF TaskType, Pcs
      <3> QED  BY <1>4, <2>2, <3>2 DEF h
    <2> QED  BY <2>1, <2>2
  <1>15. /\ r'[t] = y /\ \A u \in Tasks \ {t} : r'[u] = Woken(r[u])
         /\ r' \in [Tasks -> TaskType]
    <2>1. \A u \in Tasks : r[u] \in TaskType  BY <1>3
    <2>2. \A u \in Tasks : Woken(r[u]) \in TaskType
      <3> SUFFICES ASSUME NEW u \in Tasks PROVE Woken(r[u]) \in TaskType
        OBVIOUS
      <3>1. CASE r[u].pc = "buffer_wait"
        BY <2>1, <3>1, SMTT(30) DEF Woken, TaskType, Pcs
      <3>2. CASE r[u].pc # "buffer_wait"  BY <2>1, <3>2 DEF Woken
      <3> QED  BY <3>1, <3>2
    <2>3. r'[t] = y /\ \A u \in Tasks \ {t} : r'[u] = Woken(r[u])  BY <1>1
    <2>4. \A u \in Tasks : r'[u] \in TaskType  BY <1>14, <2>2, <2>3
    <2>5. r' = [u \in Tasks |-> r'[u]]  BY <1>1
    <2> QED  BY <2>3, <2>4, <2>5
  <1>16. TypeOK'  BY <1>1, <1>13, <1>15 DEF CountInv, TypeOK
  <1>17. \A b \in Buffers : buf'[b].blk = buf[b].blk  BY <1>12, <1>13
  <1>18. Named'  BY <1>9, <1>12, <1>13 DEF CountInv, Named
  <1>19. OneBufferPerBlock'  BY <1>17 DEF CountInv, OneBufferPerBlock
  <1>20. \A u \in Tasks \ {t} : /\ Requests(u)' /\ Local(u)'
                                 /\ \A b : Refers(u, b)' <=> Refers(u, b)
    <2>1. \A u \in Tasks \ {t} : r'[u] \in {r[u], Woken(r[u])}  BY <1>15
    <2> QED  BY <1>16, <1>17, <2>1, OthersKept
  <1>21. y.pc \in {"user", "check"}  BY <1>14, UserFacts
  <1>22. Requests(t)'  BY <1>14, <1>15, <1>21 DEF Requests
  <1>23. \A b : Holds(t, b)' <=> \E i \in 1 .. Len(held) : held[i] = b
    BY <1>14, <1>15 DEF Holds
  <1>24. \A b : Holds(t, b)' <=> Refers(t, b) /\ b # c
    <2> TAKE b
    <2>1. ASSUME Holds(t, b)' PROVE Refers(t, b) /\ b # c
      <3>1. PICK i \in 1 .. Len(held) : held[i] = b  BY <1>23, <2>1
      <3>2. i + 1 \in 1 .. Len(s) /\ s[i + 1] = b /\ 1 \in 1 .. Len(s) /\ i + 1 # 1
        BY <1>9, <3>1
      <3> QED  BY <1>5, <1>6, <1>9, <3>2
    <2>2. ASSUME Refers(t, b), b # c PROVE Holds(t, b)'
      <3>1. PICK i \in 1 .. Len(s) : s[i] = b  BY <1>6, <2>2
      <3>2. i # 1  BY <1>9, <2>2, <3>1
      <3>3. i - 1 \in 1 .. Len(held) /\ held[i - 1] = b
        BY <1>9, <3>1, <3>2
      <3> QED  BY <1>23, <3>3
    <2> QED  BY <2>1, <2>2
  <1>25. \A b : Refers(t, b)' <=> Refers(t, b) /\ b # c
    <2>1. \A b : Refers(t, b)' <=> Holds(t, b)'
      BY <1>14, <1>15, <1>21 DEF Refers, Holds, User
    <2> QED  BY <1>24, <2>1
  <1>26. \A i, j \in 1 .. Len(held) : held[i] = held[j] => i = j
    <2> SUFFICES ASSUME NEW i \in 1 .. Len(held), NEW j \in 1 .. Len(held),
                        held[i] = held[j]
                 PROVE  i = j
      OBVIOUS
    <2>1. /\ i + 1 \in 1 .. Len(s) /\ j + 1 \in 1 .. Len(s)
          /\ s[i + 1] = s[j + 1]
      BY <1>9
    <2> QED  BY <1>5, <2>1
  <1>27. Local(t)'
    <2>1. Point(t)' = y.pc  BY <1>15, <1>21 DEF Point
    <2>2. CASE held = <<>>
      <3>1. r'[t] = User  BY <1>14, <1>15, <2>2
      <3>2. \A b : ~Holds(t, b)'  BY <3>1, UserFacts DEF Holds
      <3>3. MaxBlocks \in Nat  BY CacheAssumption
      <3>4. Point(t)' = "user"  BY <1>14, <2>1, <2>2, UserFacts
      <3> QED  BY <3>1, <3>2, <3>3, <3>4, UserFacts DEF Local
    <2>3. CASE held # <<>>
      <3>1. /\ y.pc = "check" /\ y.fn = x.fn /\ y.todo = x.todo
            /\ y.bh = Head(held) /\ y.held = held
        BY <1>14, <2>3
      <3> DEFINE m == Len(x.todo)
                 n == Len(x.held)
                 n1 == Len(held)
      <3>2. m \in Nat /\ n \in Nat /\ n1 = n - 1
        <4>1. x.todo \in Seq(Blocks)  BY <1>3 DEF TaskType
        <4> QED  BY <1>9, <4>1 DEF s
      <3>3. /\ m + n <= MaxBlocks /\ MaxBlocks \in Nat
            /\ x.fn \in {"bread", "getblk"} => m + n <= 1
        BY <1>2, <1>3, CacheAssumption DEF Local, Reads
      <3>4. /\ m + n1 <= MaxBlocks
            /\ x.fn \in {"bread", "getblk"} => m + n1 <= 1
        <4> HIDE DEF m, n, n1
        <4> QED  BY <3>2, <3>3
      <3>5. Reads(t)'
        <4>1. x.fn \in {"breada", "bread_page"} => t \in Pagers
          BY <1>2 DEF Reads
        <4>2. r'[t].fn \in {"bread", "getblk"} =>
                  Len(r'[t].todo) + Len(r'[t].held) <= 1
          BY <1>15, <3>1, <3>4
        <4> QED  BY <1>15, <2>1, <2>3, <3>1, <4>1, <4>2 DEF Reads
      <3>6. \A b \in Buffers : Holds(t, b)' =>
                buf'[b].blk \in Blocks /\ ~Asks(t, buf[b].blk)'
        <4> SUFFICES ASSUME NEW b \in Buffers, Holds(t, b)'
                     PROVE  buf'[b].blk \in Blocks /\ ~Asks(t, buf[b].blk)'
          OBVIOUS
        <4>1. buf[b].blk \in Blocks /\ ~Asks(t, buf[b].blk)
          BY <1>6, <1>8, <1>24
        <4> QED  BY <1>15, <1>17, <3>1, <4>1 DEF Asks
      <3>7. /\ \A i, j \in 1 .. Len(y.todo) : y.todo[i] = y.todo[j] => i = j
            /\ \A i, j \in 1 .. Len(y.held) : y.held[i] = y.held[j] => i = j
            /\ Len(y.todo) + Len(y.held) <= MaxBlocks
        BY <1>3, <1>26, <3>1, <3>4 DEF Local
      <3> QED  BY <1>2, <1>15, <3>1, <3>5, <3>6, <3>7 DEF Local
    <2> QED  BY <2>2, <2>3
  <1>28. CountExact'
    <2> SUFFICES ASSUME NEW b \in Buffers
                 PROVE  buf'[b].count = Cardinality({u \in Tasks : Refers(u, b)'})
      BY DEF CountExact
    <2>1. CASE b = c
      <3>1. 1 \in 1 .. Len(s)  BY <1>9
      <3>2. Refers(t, b) /\ ~Refers(t, b)'  BY <1>6, <1>9, <1>25, <2>1, <3>1
      <3>3. buf'[b].count = buf[b].count - 1  BY <1>12, <1>13, <2>1
      <3> QED  BY <1>3, <1>20, <3>2, <3>3, CountLoss
    <2>2. CASE b # c
      <3>1. \A u \in Tasks : Refers(u, b)' <=> Refers(u, b)
        BY <1>20, <1>25, <2>2
      <3>2. buf'[b].count = buf[b].count  BY <1>13, <2>2
      <3> QED  BY <1>3, <3>1, <3>2, CountSame
    <2> QED  BY <2>1, <2>2
  <1>29. WaitsForRelease'
    <2>1. \A u \in Tasks : r'[u].pc # "buffer_wait"
      <3> SUFFICES ASSUME NEW u \in Tasks PROVE r'[u].pc # "buffer_wait"
        OBVIOUS
      <3>1. CASE u = t  BY <1>15, <1>21, <3>1
      <3>2. CASE u # t /\ r[u].pc = "buffer_wait"
        BY <1>3, <1>15, <3>2 DEF Woken, TaskType
      <3>3. CASE u # t /\ r[u].pc # "buffer_wait"  BY <1>15, <3>3 DEF Woken
      <3> QED  BY <3>1, <3>2, <3>3
    <2> QED  BY <2>1 DEF WaitsForRelease
  <1>30. \A u \in Tasks : Requests(u)' /\ Local(u)'  BY <1>20, <1>22, <1>27
  <1> QED
    BY <1>16, <1>18, <1>19, <1>28, <1>29, <1>30 DEF CountInv

-----------------------------------------------------------------------------
(* buffer_init. *)
LEMMA InitCount == Init => CountInv
  <1> SUFFICES ASSUME Init PROVE CountInv  OBVIOUS
  <1>1. /\ \A t \in Tasks : r[t] = User
        /\ \A b \in Buffers :
              /\ buf[b].blk = Null /\ buf[b].count = 0 /\ buf[b].dirt = FALSE
              /\ buf[b].io = "none" /\ buf[b] \in BufferType
    BY DEF Init, BufferType
  <1>2. TypeOK
    <2>1. buf \in [Buffers -> BufferType]  BY <1>1 DEF Init
    <2>2. r \in [Tasks -> TaskType]  BY UserFacts DEF Init
    <2> QED  BY <2>1, <2>2 DEF Init, TypeOK
  <1>3. Named /\ OneBufferPerBlock  BY <1>1 DEF Named, OneBufferPerBlock
  <1>4. \A t \in Tasks, b \in Buffers : ~Refers(t, b)
    BY <1>1, UserFacts DEF Refers
  <1>5. \A t \in Tasks : Requests(t) /\ Local(t)
    <2> SUFFICES ASSUME NEW t \in Tasks PROVE Requests(t) /\ Local(t)
      OBVIOUS
    <2>1. r[t] = User  BY <1>1
    <2>2. Point(t) = "user" /\ Requests(t)
      BY <2>1, UserFacts DEF Point, Requests
    <2>3. \A b : ~Holds(t, b)  BY <2>1, UserFacts DEF Holds
    <2>4. MaxBlocks \in Nat  BY CacheAssumption
    <2> QED  BY <2>1, <2>2, <2>3, <2>4, UserFacts DEF Local
  <1>6. CountExact
    <2> SUFFICES ASSUME NEW b \in Buffers
                 PROVE  buf[b].count = Cardinality({t \in Tasks : Refers(t, b)})
      BY DEF CountExact
    <2>1. {t \in Tasks : Refers(t, b)} = {}  BY <1>4
    <2> QED  BY <1>1, <2>1, FS_EmptySet
  <1>7. WaitsForRelease  BY <1>1, UserFacts DEF WaitsForRelease
  <1> QED  BY <1>2, <1>3, <1>5, <1>6, <1>7 DEF CountInv

(* Every step keeps the invariant. *)
LEMMA StepCount == CountInv /\ [Next]_vars => CountInv'
  <1> SUFFICES ASSUME CountInv, [Next]_vars PROVE CountInv'  OBVIOUS
  <1>1. ASSUME NEW t \in Tasks, Kernel(t) PROVE CountInv'
    <2>1. CASE Hit(t)  BY <2>1, HitStep
    <2>2. CASE Full(t)  BY <2>2, FullStep
    <2>3. CASE Choose(t)  BY <2>3, ChooseStep
    <2>4. CASE get_from_hash_table(t)  BY <2>4, HashStep
    <2>5. CASE Victim(t)  BY <2>5, VictimStep
    <2>6. CASE SyncSkip(t)  BY <2>6, SyncSkipStep
    <2>7. CASE SyncWrite(t)  BY <2>7, SyncWriteStep
    <2>8. CASE invalidate_buffers(t)  BY <2>8, InvalidateStep
    <2>9. CASE SyncEnd(t)  BY <2>9, SyncEndStep
    <2>10. CASE make_request(t)  BY <2>10, MakeRequestStep
    <2>11. CASE NoFreeRequest(t)  BY <2>11, NoFreeStep
    <2>12. CASE RequestFree(t)  BY <2>12, RequestFreeStep
    <2>13. CASE Drop(t)  BY <2>13, DropStep
    <2>14. CASE Check(t)  BY <2>14, CheckStep
    <2>15. CASE Copy(t)  BY <2>15, CopyStep
    <2>16. CASE brelse(t)  BY <2>16, BrelseStep
    <2>17. CASE wait_on_buffer(t) \/ SyncWait(t) \/ PageFault(t)
      BY <2>17, WaitStep
    <2> QED
      BY <1>1, <2>1, <2>2, <2>3, <2>4, <2>5, <2>6, <2>7, <2>8, <2>9, <2>10,
         <2>11, <2>12, <2>13, <2>14, <2>15, <2>16, <2>17 DEF Kernel
  <1>2. ASSUME NEW t \in Tasks, NEW c \in MayCall[t],
               NEW s \in BlockLists(c[1]), Call(t, c, s)
        PROVE  CountInv'
    BY <1>2, CallStep
  <1>3. ASSUME NEW t \in Tasks, sys_sync(t) PROVE CountInv'
    <2> DEFINE y == [User EXCEPT !.pc = "sync", !.visit = {1} \X Buffers]
    <2>1. r[t].pc = "user" /\ cur' = t /\ UNCHANGED <<buf, disk, excused>>
      BY <1>3 DEF sys_sync, At
    <2>2. r' = [r EXCEPT ![t] = y]  BY <1>3 DEF sys_sync, Set
    <2>3. /\ y \in TaskType /\ y.pc = "sync" /\ y.fn = "sync"
          /\ y.todo = <<>> /\ y.held = <<>> /\ y.rq = User.rq
      BY UserFacts DEF TaskType, Pcs
    <2> HIDE DEF y
    <2>4. r'[t] = y  BY <2>2 DEF CountInv, TypeOK
    <2> QED  BY <2>1, <2>2, <2>3, <2>4, SyncCallStep
  <1>4. ASSUME NEW t \in Tasks, NEW d \in Floppies, check_disk_change(t, d)
        PROVE  CountInv'
    <2> DEFINE y == [User EXCEPT !.pc = "sync", !.fn = "invalidate", !.dev = d,
                                 !.visit = {1} \X Buffers]
    <2>1. r[t].pc = "user" /\ cur' = t /\ UNCHANGED <<buf, disk, excused>>
      BY <1>4 DEF check_disk_change, At
    <2>2. r' = [r EXCEPT ![t] = y]  BY <1>4 DEF check_disk_change, Set
    <2>3. /\ y \in TaskType /\ y.pc = "sync" /\ y.fn = "invalidate"
          /\ y.todo = <<>> /\ y.held = <<>> /\ y.rq = User.rq
      BY UserFacts DEF TaskType, Pcs, Fns
    <2> HIDE DEF y
    <2>4. r'[t] = y  BY <2>2 DEF CountInv, TypeOK
    <2> QED  BY <2>1, <2>2, <2>3, <2>4, SyncCallStep
  <1>5. ASSUME NEW b \in Buffers, NEW ok \in BOOLEAN, end_request(b, ok)
        PROVE  CountInv'
    BY <1>5, EndStep
  <1>6. CASE UNCHANGED vars
    <2>1. buf' = buf /\ disk' = disk /\ r' = r /\ excused' = excused /\ cur' = cur
      BY <1>6 DEF vars
    <2>2. TypeOK' /\ Named'  BY <2>1 DEF CountInv, TypeOK, Named
    <2> QED  BY <2>1, <2>2, IdleKept
  <1> QED  BY <1>1, <1>2, <1>3, <1>4, <1>5, <1>6 DEF Next

(* The type invariant and the strengthening of the three properties below  *)
(* hold in every state that can be reached; b_count, an unsigned char,     *)
(* never overflows and never falls below 0.                                *)
THEOREM Invariance == Spec => []CountInv
  BY InitCount, StepCount, PTL DEF Spec

(* getblk never gives one block two buffers, although it sleeps between    *)
(* the search for the block and the choice of a buffer for it.             *)
THEOREM BlocksUnique == Spec => []OneBufferPerBlock
  <1>1. CountInv => OneBufferPerBlock  BY DEF CountInv
  <1> QED  BY <1>1, Invariance, PTL

(* b_count is the number of processes that use the buffer: getblk, breada, *)
(* bread_page and brelse neither lose a reference nor give one back twice. *)
THEOREM CountsExact == Spec => []CountExact
  <1>1. CountInv => CountExact  BY DEF CountInv
  <1> QED  BY <1>1, Invariance, PTL

(* Nobody sleeps on buffer_wait while everybody who holds a buffer sleeps  *)
(* there too.                                                              *)
THEOREM SomebodyReleases == Spec => []WaitsForRelease
  <1>1. CountInv => WaitsForRelease  BY DEF CountInv
  <1> QED  BY <1>1, Invariance, PTL

-----------------------------------------------------------------------------
(* The contents.  A step that changes no more than counts keeps them, if   *)
(* it makes nobody wait for a request.                                     *)
LEMMA InertKept ==
    ASSUME CacheInv, disk' = disk, excused' = excused,
           \A b \in Buffers :
              /\ buf'[b].blk = buf[b].blk /\ buf'[b].lock = buf[b].lock
              /\ buf'[b].dirt = buf[b].dirt /\ buf'[b].io = buf[b].io
              /\ buf'[b].data = buf[b].data /\ buf'[b].uptodate = buf[b].uptodate,
           \A u \in Tasks : r'[u].pc = "slot" =>
              r[u].pc = "slot" /\ r'[u].rq = r[u].rq /\ r[u].rq.b \in Buffers
    PROVE  CacheInv'
  <1>1. Locked'  BY DEF CacheInv, Locked
  <1>2. Newest'  BY DEF CacheInv, Newest
  <1>3. Coherent'
    <2> SUFFICES ASSUME NEW k \in Blocks \ excused
                 PROVE  /\ \/ disk[k]
                           \/ \E b \in Buffers :
                                 /\ buf'[b].blk = k /\ buf'[b].data
                                 /\ (buf'[b].dirt \/ buf'[b].io = "WRITE")
                        /\ \A b \in Buffers : buf'[b].blk = k /\ buf'[b].uptodate
                                                => buf'[b].data
      BY DEF Coherent
    <2>1. \A b \in Buffers : buf[b].blk = k /\ buf[b].uptodate => buf[b].data
      BY DEF CacheInv, Coherent
    <2>2. \A b \in Buffers : buf'[b].blk = k /\ buf'[b].uptodate => buf'[b].data
      BY <2>1
    <2>3. CASE disk[k]  BY <2>2, <2>3
    <2>4. CASE ~disk[k]
      <3>1. PICK b \in Buffers : /\ buf[b].blk = k /\ buf[b].data
                                 /\ (buf[b].dirt \/ buf[b].io = "WRITE")
        BY <2>4 DEF CacheInv, Coherent
      <3>2. /\ buf'[b].blk = k /\ buf'[b].data
            /\ (buf'[b].dirt \/ buf'[b].io = "WRITE")
        BY <3>1
      <3> QED  BY <2>2, <3>2
    <2> QED  BY <2>3, <2>4
  <1> QED  BY <1>1, <1>2, <1>3 DEF CacheInv

(* A step that changes one buffer, and of the disk and the excuses no more *)
(* than those of its block.  No other buffer has that block.               *)
LEMMA OneKept ==
    ASSUME CountInv, CountInv', CacheInv, Locked', NEW c \in Buffers,
           \A b \in Buffers \ {c} : buf'[b] = buf[b],
           \A j \in Blocks \ {buf[c].blk} : disk'[j] = disk[j],
           excused \ excused' \subseteq {buf[c].blk},
           buf'[c].blk \in Blocks \ excused' =>
              /\ buf'[c].dirt \/ buf'[c].io = "WRITE" => buf'[c].data
              /\ ~(buf'[c].dirt /\ buf'[c].io = "READ")
              /\ disk'[buf'[c].blk] \/ buf'[c].dirt \/ buf'[c].io = "WRITE"
              /\ buf'[c].uptodate => buf'[c].data,
           \/ buf'[c].blk = buf[c].blk
           \/ buf[c].blk \in Blocks \ excused' => disk'[buf[c].blk]
    PROVE  CacheInv'
  <1>1. Newest'
    <2> SUFFICES ASSUME NEW b \in Buffers, buf'[b].blk \in Blocks \ excused'
                 PROVE  /\ buf'[b].dirt \/ buf'[b].io = "WRITE" => buf'[b].data
                        /\ ~(buf'[b].dirt /\ buf'[b].io = "READ")
      BY DEF Newest
    <2>1. CASE b = c  BY <2>1
    <2>2. CASE b # c
      <3>1. buf'[b] = buf[b]  BY <2>2
      <3>2. buf[b].blk # buf[c].blk
        <4> SUFFICES ASSUME buf[b].blk = buf[c].blk PROVE FALSE  OBVIOUS
        <4>1. buf[b].blk = Null  BY <2>2 DEF CountInv, OneBufferPerBlock
        <4> QED  BY <3>1, <4>1, CacheAssumption
      <3>3. buf[b].blk \in Blocks \ excused  BY <3>1, <3>2
      <3> QED  BY <3>1, <3>3 DEF CacheInv, Newest
    <2> QED  BY <2>1, <2>2
  <1>2. Coherent'
    <2> SUFFICES ASSUME NEW k \in Blocks \ excused'
                 PROVE  /\ \/ disk'[k]
                           \/ \E b \in Buffers :
                                 /\ buf'[b].blk = k /\ buf'[b].data
                                 /\ (buf'[b].dirt \/ buf'[b].io = "WRITE")
                        /\ \A b \in Buffers : buf'[b].blk = k /\ buf'[b].uptodate
                                                => buf'[b].data
      BY DEF Coherent
    <2>1. k # Null  BY CacheAssumption
    <2>2. CASE k = buf'[c].blk
      <3>1. \A b \in Buffers : buf'[b].blk = k => b = c
        BY <2>1, <2>2 DEF CountInv, OneBufferPerBlock
      <3>2. CASE disk'[k]  BY <2>2, <3>1, <3>2
      <3>3. CASE ~disk'[k]
        <4>1. /\ buf'[c].blk = k /\ buf'[c].data
              /\ (buf'[c].dirt \/ buf'[c].io = "WRITE")
          BY <2>2, <3>3
        <4> QED  BY <2>2, <3>1, <4>1
      <3> QED  BY <3>2, <3>3
    <2>3. CASE k = buf[c].blk /\ k # buf'[c].blk
      <3>1. disk'[k]  BY <2>3
      <3>2. \A b \in Buffers : buf[b].blk = k => b = c
        BY <2>1, <2>3 DEF CountInv, OneBufferPerBlock
      <3>3. \A b \in Buffers : buf'[b].blk # k  BY <2>3, <3>2
      <3> QED  BY <3>1, <3>3
    <2>4. CASE k # buf[c].blk /\ k # buf'[c].blk
      <3>1. k \in Blocks \ excused /\ disk'[k] = disk[k]  BY <2>4
      <3>2. \A b \in Buffers : buf'[b].blk = k => b # c /\ buf'[b] = buf[b]
        BY <2>4
      <3>3. \A b \in Buffers : buf'[b].blk = k /\ buf'[b].uptodate => buf'[b].data
        BY <3>1, <3>2 DEF CacheInv, Coherent
      <3>4. CASE disk[k]  BY <3>1, <3>3, <3>4
      <3>5. CASE ~disk[k]
        <4>1. PICK b \in Buffers : /\ buf[b].blk = k /\ buf[b].data
                                   /\ (buf[b].dirt \/ buf[b].io = "WRITE")
          BY <3>1, <3>5 DEF CacheInv, Coherent
        <4>2. buf'[b] = buf[b]  BY <2>4, <4>1
        <4> QED  BY <3>3, <4>1, <4>2
      <3> QED  BY <3>4, <3>5
    <2> QED  BY <2>2, <2>3, <2>4
  <1> QED  BY <1>1, <1>2 DEF CacheInv

(* A buffer that is not locked is not transferred, and nobody waits for a  *)
(* request for it.                                                         *)
LEMMA UnlockedFacts ==
    ASSUME CacheInv, NEW c \in Buffers, ~buf[c].lock
    PROVE  /\ buf[c].io = "none"
           /\ \A u \in Tasks : r[u].pc = "slot" => r[u].rq.b # c
  BY DEF CacheInv, Locked

(* Who waits for a request: nobody new, if t does not. *)
LEMMA SlotsKept ==
    ASSUME CountInv, NEW t, \A u \in Tasks \ {t} : r'[u] = r[u],
           t \in Tasks => r'[t].pc # "slot" \/ r'[t] = r[t]
    PROVE  \A u \in Tasks : r'[u].pc = "slot" =>
              /\ r[u].pc = "slot" /\ r'[u].rq = r[u].rq /\ r[u].rq.b \in Buffers
  BY DEF CountInv, Requests

(* A step that neither locks nor unlocks, and cleans no locked buffer. *)
LEMMA LockedKept ==
    ASSUME CacheInv, NEW c \in Buffers,
           \A b \in Buffers \ {c} : buf'[b] = buf[b],
           buf'[c].lock = buf[c].lock, buf'[c].io = buf[c].io,
           buf[c].lock /\ buf[c].dirt => buf'[c].dirt,
           \A u \in Tasks : r'[u].pc = "slot" =>
              /\ r[u].pc = "slot" /\ r'[u].rq = r[u].rq /\ r[u].rq.b \in Buffers
    PROVE  Locked'
  <1>1. \A b \in Buffers : /\ buf'[b].lock = buf[b].lock
                           /\ buf'[b].io = buf[b].io
                           /\ buf[b].lock /\ buf[b].dirt => buf'[b].dirt
    OBVIOUS
  <1>2. \A b \in Buffers : buf'[b].io # "none" => buf'[b].lock
    BY <1>1 DEF CacheInv, Locked
  <1>3. ASSUME NEW t \in Tasks, r'[t].pc = "slot"
        PROVE  /\ buf'[r'[t].rq.b].lock /\ buf'[r'[t].rq.b].io = "none"
               /\ r'[t].rq.cmd = "WRITE" => buf'[r'[t].rq.b].dirt
               /\ \A u \in Tasks : r'[u].pc = "slot" /\ r'[u].rq.b = r'[t].rq.b => u = t
    <2>1. r[t].pc = "slot" /\ r'[t].rq = r[t].rq /\ r[t].rq.b \in Buffers
      BY <1>3
    <2>2. /\ buf[r[t].rq.b].lock /\ buf[r[t].rq.b].io = "none"
          /\ r[t].rq.cmd = "WRITE" => buf[r[t].rq.b].dirt
          /\ \A u \in Tasks : r[u].pc = "slot" /\ r[u].rq.b = r[t].rq.b => u = t
      BY <2>1 DEF CacheInv, Locked
    <2>3. \A u \in Tasks : r'[u].pc = "slot" /\ r'[u].rq.b = r'[t].rq.b => u = t
      BY <2>1, <2>2
    <2>4. /\ buf'[r[t].rq.b].lock = buf[r[t].rq.b].lock
          /\ buf'[r[t].rq.b].io = buf[r[t].rq.b].io
          /\ buf[r[t].rq.b].lock /\ buf[r[t].rq.b].dirt => buf'[r[t].rq.b].dirt
      BY <1>1, <2>1
    <2> QED  BY <2>1, <2>2, <2>3, <2>4
  <1> QED  BY <1>2, <1>3 DEF Locked

(* The chosen buffer is clean: what it held is on disk. *)
LEMMA TakeCache ==
    ASSUME CountInv, CountInv', CacheInv, NEW t \in Tasks, NEW c \in Buffers,
           NEW k, ~buf[c].lock, ~buf[c].dirt, ~Present(k),
           buf' = Taken(c, k), UNCHANGED <<disk, excused>>,
           \A u \in Tasks \ {t} : r'[u] = r[u], r'[t].pc # "slot"
    PROVE  CacheInv'
  <1>1. buf \in [Buffers -> BufferType] /\ buf[c] \in BufferType
    BY DEF CountInv, TypeOK
  <1> DEFINE a == buf[c]
             z == [a EXCEPT !.count = 1, !.dirt = FALSE,
                            !.uptodate = FALSE, !.blk = k, !.data = FALSE]
  <1>2. buf' = [buf EXCEPT ![c] = z]  BY DEF Taken
  <1>3. /\ z.blk = k /\ z.dirt = FALSE /\ z.uptodate = FALSE
        /\ z.lock = a.lock /\ z.io = a.io
    <2> HIDE DEF a
    <2>1. a \in BufferType  BY <1>1 DEF a
    <2> QED  BY <2>1 DEF BufferType
  <1> HIDE DEF z
  <1>4. buf'[c] = z /\ \A b \in Buffers \ {c} : buf'[b] = buf[b]
    BY <1>1, <1>2
  <1>5. a.io = "none"  BY UnlockedFacts
  <1>6. Locked'
    <2>1. \A u \in Tasks : r'[u].pc = "slot" =>
            /\ r[u].pc = "slot" /\ r'[u].rq = r[u].rq /\ r[u].rq.b \in Buffers
      BY SlotsKept
    <2>2. buf'[c].lock = buf[c].lock /\ buf'[c].io = buf[c].io  BY <1>3, <1>4
    <2> QED  BY <1>4, <2>1, <2>2, LockedKept
  <1>7. k \in Blocks \ excused => disk[k]
    <2>1. \A b \in Buffers : buf[b].blk # k  BY DEF Present, find_buffer
    <2> QED  BY <2>1 DEF CacheInv, Coherent
  <1>8. a.blk \in Blocks \ excused => disk[a.blk]
    <2> SUFFICES ASSUME a.blk \in Blocks \ excused, ~disk[a.blk] PROVE FALSE
      OBVIOUS
    <2>1. PICK b \in Buffers : /\ buf[b].blk = a.blk /\ buf[b].data
                               /\ (buf[b].dirt \/ buf[b].io = "WRITE")
      BY DEF CacheInv, Coherent
    <2>2. a.blk # Null  BY CacheAssumption
    <2>3. b = c  BY <2>1, <2>2 DEF CountInv, OneBufferPerBlock
    <2> QED  BY <1>5, <2>1, <2>3
  <1>9. /\ buf'[c].blk = k /\ buf'[c].dirt = FALSE /\ buf'[c].io = "none"
        /\ buf'[c].uptodate = FALSE
    BY <1>3, <1>4, <1>5
  <1> QED  BY <1>4, <1>6, <1>7, <1>8, <1>9, OneKept

(* invalidate_buffers drops a change, and says so. *)
LEMMA InvalidateCache ==
    ASSUME CountInv, CountInv', CacheInv, NEW t \in Tasks, invalidate_buffers(t)
    PROVE  CacheInv'
  <1>1. PICK v \in Pass(t) :
          /\ Unlocked(v[2])
          /\ r' = [r EXCEPT ![t] = [r[t] EXCEPT !.visit = @ \ {v}]]
          /\ buf' = [buf EXCEPT ![v[2]].dirt = FALSE, ![v[2]].uptodate = FALSE]
          /\ excused' = excused \cup {k \in {buf[v[2]].blk} : buf[v[2]].dirt}
    BY DEF invalidate_buffers, Set
  <1>2. /\ r \in [Tasks -> TaskType] /\ r[t] \in TaskType /\ r[t].pc = "sync"
        /\ buf \in [Buffers -> BufferType] /\ disk' = disk
    BY DEF CountInv, TypeOK, invalidate_buffers, At
  <1>3. PICK c \in Buffers : c = v[2]
    <2>1. v \in {1, 2} \X Buffers  BY <1>2 DEF Pass, TaskType
    <2> QED  BY <2>1
  <1>4. /\ ~buf[c].lock
        /\ buf' = [buf EXCEPT ![c].dirt = FALSE, ![c].uptodate = FALSE]
        /\ excused' = excused \cup {k \in {buf[c].blk} : buf[c].dirt}
    BY <1>1, <1>3 DEF Unlocked
  <1>5. /\ \A b \in Buffers \ {c} : buf'[b] = buf[b]
        /\ buf'[c].blk = buf[c].blk /\ buf'[c].lock = buf[c].lock
        /\ buf'[c].io = buf[c].io /\ buf'[c].dirt = FALSE
        /\ buf'[c].uptodate = FALSE
    BY <1>2, <1>4 DEF BufferType
  <1>6. /\ \A u \in Tasks \ {t} : r'[u] = r[u]
        /\ r'[t].pc # "slot"
    BY <1>1, <1>2 DEF TaskType
  <1>7. Locked'
    <2>1. \A u \in Tasks : r'[u].pc = "slot" =>
            /\ r[u].pc = "slot" /\ r'[u].rq = r[u].rq /\ r[u].rq.b \in Buffers
      BY <1>6, SlotsKept
    <2> QED  BY <1>4, <1>5, <2>1, LockedKept
  <1>8. buf[c].io = "none"  BY <1>4, UnlockedFacts
  <1>9. buf[c].blk \in Blocks \ excused' => disk[buf[c].blk]
    <2> SUFFICES ASSUME buf[c].blk \in Blocks \ excused', ~disk[buf[c].blk]
                 PROVE  FALSE
      OBVIOUS
    <2>1. buf[c].blk \in Blocks \ excused /\ ~buf[c].dirt  BY <1>4
    <2>2. PICK b \in Buffers : /\ buf[b].blk = buf[c].blk /\ buf[b].data
                               /\ (buf[b].dirt \/ buf[b].io = "WRITE")
      BY <2>1 DEF CacheInv, Coherent
    <2>3. buf[c].blk # Null  BY CacheAssumption
    <2>4. b = c  BY <2>2, <2>3 DEF CountInv, OneBufferPerBlock
    <2> QED  BY <1>8, <2>1, <2>2, <2>4
  <1>10. excused \ excused' \subseteq {buf[c].blk}  BY <1>4
  <1> QED  BY <1>2, <1>5, <1>7, <1>8, <1>9, <1>10, OneKept

(* A step of t that leaves the buffers alone. *)
LEMMA QuietKept ==
    ASSUME CountInv, CacheInv, NEW t, UNCHANGED <<buf, disk, excused>>,
           \A u \in Tasks \ {t} : r'[u] = r[u],
           t \in Tasks => r'[t].pc # "slot" \/ r'[t] = r[t]
    PROVE  CacheInv'
  <1>1. buf' = buf /\ disk' = disk /\ excused' = excused  OBVIOUS
  <1>2. \A u \in Tasks : r'[u].pc = "slot" =>
          /\ r[u].pc = "slot" /\ r'[u].rq = r[u].rq /\ r[u].rq.b \in Buffers
    BY SlotsKept
  <1> QED  BY <1>1, <1>2, InertKept

(* The buffer a process that has its blocks works on. *)
LEMMA WorksOn ==
    ASSUME CountInv, NEW t \in Tasks, r[t].pc \in {"check", "copy", "brelse"}
    PROVE  r[t].bh \in Buffers /\ buf[r[t].bh].blk \in Blocks
  <1> DEFINE c == r[t].bh
  <1>1. Reads(t)  BY ReadsIf DEF Point
  <1>2. c = Head(r[t].held) /\ r[t].held # <<>>  BY <1>1 DEF Reads, Point
  <1>3. r[t].held \in Seq(Buffers)  BY DEF CountInv, TypeOK, TaskType
  <1>4. Len(r[t].held) >= 1 /\ c = r[t].held[1] /\ c \in Buffers
    BY <1>2, <1>3
  <1>5. Holds(t, c)  BY <1>3, <1>4 DEF Holds
  <1> QED  BY <1>4, <1>5 DEF CountInv, Local

(* file_write marks a buffer it is going to change: what it has is what    *)
(* was last written.                                                       *)
LEMMA CheckCache ==
    ASSUME CountInv, CountInv', CacheInv, NEW t \in Tasks, Check(t)
    PROVE  CacheInv'
  <1>1. PICK c \in Buffers : c = r[t].bh
    BY WorksOn DEF Check, At
  <1>2. /\ ~buf[c].lock
        /\ \/ buf' = buf
           \/ buf[c].uptodate /\ buf' = [buf EXCEPT ![c].dirt = TRUE]
    BY <1>1 DEF Check, Unlocked
  <1>3. disk' = disk /\ excused' = excused  BY DEF Check
  <1>4. (\A u \in Tasks \ {t} : r'[u] = r[u]) /\ r'[t].pc # "slot"
    <2>1. PICK p \in {"copy", "brelse"} : Goto(t, p)  BY DEF Check
    <2>2. p \in Pcs /\ TypeOK  BY DEF Pcs, CountInv
    <2> QED  BY <2>1, <2>2, GotoFacts
  <1>5. CASE buf' = buf  BY <1>3, <1>4, <1>5, QuietKept
  <1>6. CASE buf[c].uptodate /\ buf' = [buf EXCEPT ![c].dirt = TRUE]
    <2>1. buf \in [Buffers -> BufferType]  BY DEF CountInv, TypeOK
    <2>2. /\ \A b \in Buffers \ {c} : buf'[b] = buf[b]
          /\ buf'[c].blk = buf[c].blk /\ buf'[c].lock = buf[c].lock
          /\ buf'[c].io = buf[c].io /\ buf'[c].dirt = TRUE
          /\ buf'[c].data = buf[c].data
      BY <1>6, <2>1 DEF BufferType
    <2>3. buf[c].io = "none"  BY <1>2, UnlockedFacts
    <2>4. Locked'
      <3>1. \A u \in Tasks : r'[u].pc = "slot" =>
              /\ r[u].pc = "slot" /\ r'[u].rq = r[u].rq /\ r[u].rq.b \in Buffers
        BY <1>4, SlotsKept
      <3> QED  BY <1>2, <2>2, <3>1, LockedKept
    <2>5. buf[c].blk \in Blocks \ excused => buf[c].data
      BY <1>6 DEF CacheInv, Coherent
    <2> QED  BY <1>3, <2>2, <2>3, <2>4, <2>5, OneKept
  <1> QED  BY <1>2, <1>5, <1>6

(* The copy makes the buffer the newest version of its block; the change   *)
(* is doomed unless it is still marked and no read is under way.           *)
LEMMA CopyCache ==
    ASSUME CountInv, CountInv', CacheInv, NEW t \in Tasks, Copy(t)
    PROVE  CacheInv'
  <1>1. PICK c \in Buffers : c = r[t].bh
    BY WorksOn DEF Copy, At
  <1>2. PICK k \in Blocks : k = buf[c].blk
    BY <1>1, WorksOn DEF Copy, At
  <1>3. (\A u \in Tasks \ {t} : r'[u] = r[u]) /\ r'[t].pc # "slot"
    <2>1. Goto(t, "brelse")  BY DEF Copy
    <2>2. "brelse" \in Pcs /\ TypeOK  BY DEF Pcs, CountInv
    <2> QED  BY <2>1, <2>2, GotoFacts
  <1>4. CASE r[t].wr = "no"
    <2>1. UNCHANGED <<buf, disk, excused>>  BY <1>4 DEF Copy
    <2> QED  BY <1>3, <2>1, QuietKept
  <1>5. CASE r[t].wr # "no"
    <2>1. PICK d \in BOOLEAN : d = (r[t].wr = "after" \/ buf[c].dirt)
      OBVIOUS
    <2>2. /\ buf' = [x \in Buffers |->
                IF x = c THEN [buf[x] EXCEPT !.data = TRUE, !.dirt = d]
                ELSE [buf[x] EXCEPT !.data = @ /\ buf[x].blk # k]]
          /\ disk' = [disk EXCEPT ![k] = FALSE]
          /\ excused' = IF d /\ buf[c].io # "READ" THEN excused \ {k}
                        ELSE excused \cup {k}
      BY <1>1, <1>2, <1>5, <2>1 DEF Copy
    <2>3. buf \in [Buffers -> BufferType] /\ disk \in [Blocks -> BOOLEAN]
      BY DEF CountInv, TypeOK
    <2>4. /\ buf'[c].data = TRUE /\ buf'[c].dirt = d
          /\ buf'[c].blk = buf[c].blk /\ buf'[c].lock = buf[c].lock
          /\ buf'[c].io = buf[c].io
      <3>1. buf'[c] = [buf[c] EXCEPT !.data = TRUE, !.dirt = d]  BY <2>2
      <3>2. buf[c] \in BufferType  BY <2>3
      <3> QED  BY <3>1, <3>2 DEF BufferType
    <2>5. ASSUME NEW b \in Buffers \ {c} PROVE buf'[b] = buf[b]
      <3>1. buf'[b] = [buf[b] EXCEPT !.data = buf[b].data /\ buf[b].blk # k]
        BY <2>2
      <3>2. buf[b].blk # k
        <4>1. k # Null  BY CacheAssumption
        <4> QED  BY <1>2, <4>1 DEF CountInv, OneBufferPerBlock
      <3>3. buf[b] \in BufferType  BY <2>3
      <3>4. (buf[b].data /\ buf[b].blk # k) = buf[b].data
        BY <3>2, <3>3 DEF BufferType
      <3>5. buf'[b] = [buf[b] EXCEPT !.data = buf[b].data]  BY <3>1, <3>4
      <3> QED  BY <3>3, <3>5 DEF BufferType
    <2>6. \A j \in Blocks \ {k} : disk'[j] = disk[j]  BY <2>2, <2>3
    <2>7. excused \ excused' \subseteq {k}  BY <2>2
    <2>8. k \in excused' \/ (d /\ buf[c].io # "READ")  BY <2>2
    <2>9. Locked'
      <3>1. \A u \in Tasks : r'[u].pc = "slot" =>
              /\ r[u].pc = "slot" /\ r'[u].rq = r[u].rq /\ r[u].rq.b \in Buffers
        BY <1>3, SlotsKept
      <3>2. buf[c].dirt => buf'[c].dirt  BY <2>1, <2>4
      <3> QED  BY <2>4, <2>5, <3>1, <3>2, LockedKept
    <2> QED  BY <1>2, <2>4, <2>5, <2>6, <2>7, <2>8, <2>9, OneKept
  <1> QED  BY <1>4, <1>5

(* What nothing is going to write is on disk. *)
LEMMA OnDisk ==
    ASSUME CountInv, CacheInv, NEW c \in Buffers,
           buf[c].blk \in Blocks \ excused, ~buf[c].dirt, buf[c].io # "WRITE"
    PROVE  disk[buf[c].blk]
  <1> SUFFICES ASSUME ~disk[buf[c].blk] PROVE FALSE  OBVIOUS
  <1>1. PICK b \in Buffers : /\ buf[b].blk = buf[c].blk /\ buf[b].data
                             /\ (buf[b].dirt \/ buf[b].io = "WRITE")
    BY DEF CacheInv, Coherent
  <1>2. buf[c].blk # Null  BY CacheAssumption
  <1>3. b = c  BY <1>1, <1>2 DEF CountInv, OneBufferPerBlock
  <1> QED  BY <1>1, <1>3

(* add_request: a write takes what was last written, and a read of a dirty *)
(* buffer is excused.                                                      *)
LEMMA QueuedCache ==
    ASSUME CountInv, CountInv', CacheInv, NEW t \in Tasks, NEW c \in Buffers,
           r[t].pc \in {"rw", "slot"}, c = r[t].rq.b, buf[c].io = "none",
           r[t].rq.cmd = "WRITE" => buf[c].dirt,
           \A u \in Tasks \ {t} : r[u].pc = "slot" => r[u].rq.b # c,
           buf' = Queued(r[t].rq), excused' = excused \cup Overwritten(r[t].rq),
           disk' = disk, r' = [r EXCEPT ![t] = Done(t)]
    PROVE  CacheInv'
  <1>1. PICK i \in {"READ", "WRITE"} :
          i = IF r[t].rq.cmd = "WRITE" THEN "WRITE" ELSE "READ"
    OBVIOUS
  <1> DEFINE z == [buf[c] EXCEPT !.lock = TRUE, !.dirt = FALSE, !.io = i]
  <1>2. buf \in [Buffers -> BufferType] /\ buf[c] \in BufferType
    BY DEF CountInv, TypeOK
  <1>3. buf' = [buf EXCEPT ![c] = z]  BY <1>1 DEF Queued
  <1>4. /\ z.lock = TRUE /\ z.dirt = FALSE /\ z.io = i
        /\ z.blk = buf[c].blk /\ z.data = buf[c].data
        /\ z.uptodate = buf[c].uptodate
    BY <1>2 DEF BufferType
  <1> HIDE DEF z
  <1>5. buf'[c] = z /\ \A b \in Buffers \ {c} : buf'[b] = buf[b]
    BY <1>2, <1>3
  <1>6. (\A u \in Tasks \ {t} : r'[u] = r[u]) /\ r'[t].pc # "slot"
    <2>1. Done(t).pc \in {"getblk", "check", "drop", "sync"}  BY DoneFacts
    <2>2. r \in [Tasks -> TaskType]  BY DEF CountInv, TypeOK
    <2> QED  BY <2>1, <2>2
  <1>7. Locked'
    <2>1. \A b \in Buffers : buf'[b].io # "none" => buf'[b].lock
      BY <1>4, <1>5 DEF CacheInv, Locked
    <2>2. ASSUME NEW v \in Tasks, r'[v].pc = "slot"
          PROVE  /\ buf'[r'[v].rq.b].lock /\ buf'[r'[v].rq.b].io = "none"
                 /\ r'[v].rq.cmd = "WRITE" => buf'[r'[v].rq.b].dirt
                 /\ \A u \in Tasks : r'[u].pc = "slot" /\ r'[u].rq.b = r'[v].rq.b
                                       => u = v
      <3>1. v # t /\ r'[v] = r[v]  BY <1>6, <2>2
      <3>2. r[v].pc = "slot"  BY <2>2, <3>1
      <3>3. r[v].rq.b \in Buffers  BY <3>2 DEF CountInv, Requests
      <3>4. buf'[r[v].rq.b] = buf[r[v].rq.b]  BY <1>5, <3>1, <3>2, <3>3
      <3>5. \A u \in Tasks : r'[u].pc = "slot" /\ r'[u].rq.b = r'[v].rq.b => u = v
        BY <1>6, <3>1, <3>2 DEF CacheInv, Locked
      <3>6. /\ buf[r[v].rq.b].lock /\ buf[r[v].rq.b].io = "none"
            /\ r[v].rq.cmd = "WRITE" => buf[r[v].rq.b].dirt
        BY <3>2 DEF CacheInv, Locked
      <3> QED  BY <3>1, <3>4, <3>5, <3>6
    <2> QED  BY <2>1, <2>2 DEF Locked
  <1>8. ASSUME buf[c].blk \in Blocks \ excused'
        PROVE  /\ i = "WRITE" => buf[c].data
               /\ disk[buf[c].blk] \/ i = "WRITE"
               /\ buf[c].uptodate => buf[c].data
    <2>1. buf[c].blk \in Blocks \ excused  BY <1>8
    <2>2. CASE i = "WRITE"
      <3>1. buf[c].dirt  BY <1>1, <2>2
      <3> QED  BY <2>1, <2>2, <3>1 DEF CacheInv, Newest
    <2>3. CASE i # "WRITE"
      <3>1. r[t].rq.cmd # "WRITE"  BY <1>1, <2>3
      <3>2. ~buf[c].dirt  BY <1>8, <3>1 DEF Overwritten
      <3>3. disk[buf[c].blk]  BY <2>1, <3>2, OnDisk
      <3> QED  BY <2>1, <2>3, <3>3 DEF CacheInv, Coherent
    <2> QED  BY <2>2, <2>3
  <1>9. /\ buf'[c].dirt = FALSE /\ buf'[c].io = i /\ buf'[c].blk = buf[c].blk
        /\ buf'[c].data = buf[c].data /\ buf'[c].uptodate = buf[c].uptodate
    BY <1>4, <1>5
  <1>10. excused \ excused' \subseteq {buf[c].blk}  OBVIOUS
  <1> QED  BY <1>5, <1>7, <1>8, <1>9, <1>10, OneKept

(* ll_rw_block with a free request. *)
LEMMA MakeRequestCache ==
    ASSUME CountInv, CountInv', CacheInv, NEW t \in Tasks, make_request(t)
    PROVE  CacheInv'
  <1>1. /\ r[t].pc = "rw" /\ disk' = disk
        /\ r' = [r EXCEPT ![t] = Done(t)]
    BY DEF make_request, At, Set
  <1>2. PICK c \in Buffers : c = r[t].rq.b  BY <1>1, DoneFacts
  <1>3. CASE Unlocked(c) /\ Needed(r[t].rq)
    <2>1. buf' = Queued(r[t].rq) /\ excused' = excused \cup Overwritten(r[t].rq)
      BY <1>2, <1>3 DEF make_request
    <2>2. /\ buf[c].io = "none"
          /\ \A u \in Tasks : r[u].pc = "slot" => r[u].rq.b # c
      BY <1>3, UnlockedFacts DEF Unlocked
    <2>3. r[t].rq.cmd = "WRITE" => buf[c].dirt  BY <1>2, <1>3 DEF Needed
    <2>4. \A u \in Tasks \ {t} : r[u].pc = "slot" => r[u].rq.b # c  BY <2>2
    <2>5. buf[c].io = "none"  BY <2>2
    <2> QED  BY <1>1, <1>2, <2>1, <2>3, <2>4, <2>5, QueuedCache
  <1>4. CASE ~(Unlocked(c) /\ Needed(r[t].rq))
    <2>1. buf' = buf /\ excused' = excused  BY <1>2, <1>4 DEF make_request
    <2>2. (\A u \in Tasks \ {t} : r'[u] = r[u]) /\ r'[t].pc # "slot"
      <3>1. Done(t).pc \in {"getblk", "check", "drop", "sync"}
        BY <1>1, DoneFacts
      <3>2. r \in [Tasks -> TaskType]  BY DEF CountInv, TypeOK
      <3> QED  BY <1>1, <3>1, <3>2
    <2> QED  BY <1>1, <2>1, <2>2, QuietKept
  <1> QED  BY <1>3, <1>4

(* A request has become free: the buffer is still the sleeper's. *)
LEMMA RequestFreeCache ==
    ASSUME CountInv, CountInv', CacheInv, NEW t \in Tasks, RequestFree(t)
    PROVE  CacheInv'
  <1>1. /\ r[t].pc = "slot" /\ disk' = disk
        /\ r' = [r EXCEPT ![t] = Done(t)]
        /\ buf' = Queued(r[t].rq)
        /\ excused' = excused \cup Overwritten(r[t].rq)
    BY DEF RequestFree, At, Set
  <1>2. PICK c \in Buffers : c = r[t].rq.b  BY <1>1, DoneFacts
  <1>3. /\ buf[c].io = "none" /\ (r[t].rq.cmd = "WRITE" => buf[c].dirt)
        /\ \A u \in Tasks \ {t} : r[u].pc = "slot" => r[u].rq.b # c
    BY <1>1, <1>2 DEF CacheInv, Locked
  <1> QED  BY <1>1, <1>2, <1>3, QueuedCache, ZenonT(60)

(* ll_rw_block without a free request: the buffer gets its one owner. *)
LEMMA NoFreeCache ==
    ASSUME CountInv, CountInv', CacheInv, NEW t \in Tasks, NoFreeRequest(t)
    PROVE  CacheInv'
  <1>1. r[t].pc = "rw" /\ disk' = disk /\ excused' = excused
    BY DEF NoFreeRequest, At
  <1>2. PICK c \in Buffers : c = r[t].rq.b  BY <1>1, DoneFacts
  <1>3. ~buf[c].lock /\ (r[t].rq.cmd = "WRITE" => buf[c].dirt)
    BY <1>2 DEF NoFreeRequest, Unlocked, Needed
  <1>4. CASE r' = [r EXCEPT ![t] = Done(t)] /\ buf' = buf
    <2>1. Done(t).pc \in {"getblk", "check", "drop", "sync"}
      BY <1>1, DoneFacts
    <2>2. r \in [Tasks -> TaskType]  BY DEF CountInv, TypeOK
    <2>3. (\A u \in Tasks \ {t} : r'[u] = r[u]) /\ r'[t].pc # "slot"
      BY <1>4, <2>1, <2>2
    <2> QED  BY <1>1, <1>4, <2>3, QuietKept
  <1>5. CASE buf' = [buf EXCEPT ![c].lock = TRUE] /\ Goto(t, "slot")
    <2>1. "slot" \in Pcs /\ TypeOK  BY DEF Pcs, CountInv
    <2>2. /\ \A u \in Tasks \ {t} : r'[u] = r[u]
          /\ r'[t].pc = "slot" /\ r'[t].rq = r[t].rq
      BY <1>5, <2>1, GotoFacts
    <2>3. /\ \A b \in Buffers \ {c} : buf'[b] = buf[b]
          /\ buf'[c].blk = buf[c].blk /\ buf'[c].lock = TRUE
          /\ buf'[c].io = buf[c].io /\ buf'[c].dirt = buf[c].dirt
          /\ buf'[c].data = buf[c].data /\ buf'[c].uptodate = buf[c].uptodate
      BY <1>5, <2>1 DEF TypeOK, BufferType
    <2>4. /\ buf[c].io = "none"
          /\ \A u \in Tasks : r[u].pc = "slot" => r[u].rq.b # c
      BY <1>3, UnlockedFacts
    <2>5. Locked'
      <3>1. \A b \in Buffers : buf'[b].io # "none" => buf'[b].lock
        BY <2>3 DEF CacheInv, Locked
      <3>2. ASSUME NEW v \in Tasks, r'[v].pc = "slot"
            PROVE  /\ buf'[r'[v].rq.b].lock /\ buf'[r'[v].rq.b].io = "none"
                   /\ r'[v].rq.cmd = "WRITE" => buf'[r'[v].rq.b].dirt
                   /\ \A u \in Tasks : r'[u].pc = "slot" /\ r'[u].rq.b = r'[v].rq.b
                                         => u = v
        <4>1. CASE v = t  BY <1>2, <1>3, <2>2, <2>3, <2>4, <4>1
        <4>2. CASE v # t
          <5>1. r'[v] = r[v] /\ r[v].pc = "slot"  BY <2>2, <3>2, <4>2
          <5>2. r[v].rq.b \in Buffers  BY <5>1 DEF CountInv, Requests
          <5>3. buf'[r[v].rq.b] = buf[r[v].rq.b] /\ r[v].rq.b # c
            BY <2>3, <2>4, <5>1, <5>2
          <5>4. \A u \in Tasks : r'[u].pc = "slot" /\ r'[u].rq.b = r'[v].rq.b => u = v
            BY <1>2, <2>2, <5>1, <5>3 DEF CacheInv, Locked
          <5>5. /\ buf[r[v].rq.b].lock /\ buf[r[v].rq.b].io = "none"
                /\ r[v].rq.cmd = "WRITE" => buf[r[v].rq.b].dirt
            BY <5>1 DEF CacheInv, Locked
          <5> QED  BY <5>1, <5>3, <5>4, <5>5
        <4> QED  BY <4>1, <4>2
      <3> QED  BY <3>1, <3>2 DEF Locked
    <2>6. buf[c].blk \in Blocks \ excused =>
            /\ buf[c].dirt => buf[c].data
            /\ disk[buf[c].blk] \/ buf[c].dirt
            /\ buf[c].uptodate => buf[c].data
      BY <2>4, OnDisk DEF CacheInv, Newest, Coherent
    <2> QED  BY <1>1, <2>3, <2>4, <2>5, <2>6, OneKept
  <1> QED  BY <1>2, <1>4, <1>5 DEF NoFreeRequest, Set

(* end_request: a write that went well puts the last version on disk, a    *)
(* read brings it into the buffer.                                         *)
LEMMA EndCache ==
    ASSUME CountInv, CountInv', CacheInv, NEW c \in Buffers, NEW ok \in BOOLEAN,
           end_request(c, ok)
    PROVE  CacheInv'
  <1>1. /\ buf \in [Buffers -> BufferType] /\ buf[c] \in BufferType
        /\ disk \in [Blocks -> BOOLEAN]
    BY DEF CountInv, TypeOK
  <1>2. buf[c].io # "none" /\ r' = r  BY DEF end_request
  <1>3. PICK k \in Blocks : k = buf[c].blk  BY <1>2 DEF CountInv, Named
  <1>4. PICK d \in BOOLEAN :
          d = IF buf[c].io = "WRITE" \/ ~ok THEN buf[c].data ELSE disk[k]
    BY <1>1 DEF BufferType
  <1> DEFINE z == [buf[c] EXCEPT !.lock = FALSE, !.io = "none",
                                 !.uptodate = ok, !.data = d]
  <1>5. buf' = [buf EXCEPT ![c] = z]  BY <1>3, <1>4 DEF end_request
  <1>6. /\ z.lock = FALSE /\ z.io = "none" /\ z.uptodate = ok /\ z.data = d
        /\ z.blk = buf[c].blk /\ z.dirt = buf[c].dirt
    BY <1>1 DEF BufferType
  <1> HIDE DEF z
  <1>7. buf'[c] = z /\ \A b \in Buffers \ {c} : buf'[b] = buf[b]
    BY <1>1, <1>5
  <1>8. \A u \in Tasks : r[u].pc = "slot" => r[u].rq.b # c
    BY <1>2 DEF CacheInv, Locked
  <1>9. Locked'
    <2>1. \A b \in Buffers : buf'[b].io # "none" => buf'[b].lock
      BY <1>6, <1>7 DEF CacheInv, Locked
    <2>2. \A u \in Tasks : r[u].pc = "slot" => buf'[r[u].rq.b] = buf[r[u].rq.b]
      BY <1>7, <1>8 DEF CountInv, Requests
    <2> QED  BY <1>2, <2>1, <2>2 DEF CacheInv, Locked
  <1>10. /\ buf[c].io = "WRITE" /\ ok => disk'[k] = buf[c].data
         /\ ~(buf[c].io = "WRITE" /\ ok) => disk' = disk
         /\ \A j \in Blocks \ {k} : disk'[j] = disk[j]
    BY <1>1, <1>3 DEF end_request
  <1>11. /\ excused \subseteq excused'
         /\ buf[c].io = "WRITE" /\ ~ok => k \in excused'
    BY <1>3 DEF end_request
  <1>12. ASSUME k \notin excused'
         PROVE  disk'[k] /\ (ok \/ buf[c].dirt => d)
    <2>1. k \in Blocks \ excused  BY <1>11, <1>12
    <2>2. CASE buf[c].io = "WRITE"
      <3>1. buf[c].data /\ ok  BY <1>3, <1>11, <1>12, <2>1, <2>2 DEF CacheInv, Newest
      <3> QED  BY <1>4, <1>10, <2>2, <3>1
    <2>3. CASE buf[c].io = "READ"
      <3>1. ~buf[c].dirt  BY <1>3, <2>1, <2>3 DEF CacheInv, Newest
      <3>2. disk[k]  BY <1>3, <2>1, <2>3, <3>1, OnDisk
      <3> QED  BY <1>4, <1>10, <2>3, <3>1, <3>2
    <2> QED  BY <1>1, <1>2, <2>2, <2>3 DEF BufferType
  <1>13. /\ buf'[c].io = "none" /\ buf'[c].uptodate = ok /\ buf'[c].data = d
         /\ buf'[c].blk = buf[c].blk /\ buf'[c].dirt = buf[c].dirt
    BY <1>6, <1>7
  <1>14. buf'[c].blk \in Blocks \ excused' =>
           /\ buf'[c].dirt \/ buf'[c].io = "WRITE" => buf'[c].data
           /\ ~(buf'[c].dirt /\ buf'[c].io = "READ")
           /\ disk'[buf'[c].blk] \/ buf'[c].dirt \/ buf'[c].io = "WRITE"
           /\ buf'[c].uptodate => buf'[c].data
    BY <1>3, <1>12, <1>13
  <1>15. /\ excused \ excused' \subseteq {buf[c].blk}
         /\ \A j \in Blocks \ {buf[c].blk} : disk'[j] = disk[j]
    BY <1>3, <1>10, <1>11
  <1> QED  BY <1>7, <1>9, <1>13, <1>14, <1>15, OneKept

(* Only a count changes. *)
LEMMA CountedKept ==
    ASSUME CountInv, CacheInv, NEW c \in Buffers, NEW n,
           buf' = [buf EXCEPT ![c].count = n], UNCHANGED <<disk, excused>>,
           \A u \in Tasks : r'[u].pc = "slot" =>
              /\ r[u].pc = "slot" /\ r'[u].rq = r[u].rq /\ r[u].rq.b \in Buffers
    PROVE  CacheInv'
  <1> DEFINE z == [buf[c] EXCEPT !.count = n]
  <1>1. buf \in [Buffers -> BufferType] /\ buf[c] \in BufferType
    BY DEF CountInv, TypeOK
  <1>2. /\ z.lock = buf[c].lock /\ z.io = buf[c].io /\ z.data = buf[c].data
        /\ z.uptodate = buf[c].uptodate /\ z.blk = buf[c].blk
        /\ z.dirt = buf[c].dirt
    BY <1>1 DEF BufferType
  <1>3. buf' = [buf EXCEPT ![c] = z]  OBVIOUS
  <1> HIDE DEF z
  <1>4. buf'[c] = z /\ \A b \in Buffers \ {c} : buf'[b] = buf[b]
    BY <1>1, <1>3
  <1>5. \A b \in Buffers :
          /\ buf'[b].blk = buf[b].blk /\ buf'[b].lock = buf[b].lock
          /\ buf'[b].dirt = buf[b].dirt /\ buf'[b].io = buf[b].io
          /\ buf'[b].data = buf[b].data /\ buf'[b].uptodate = buf[b].uptodate
    BY <1>2, <1>4
  <1>6. disk' = disk /\ excused' = excused  OBVIOUS
  <1> QED  BY <1>5, <1>6, InertKept

(* The steps that leave the buffers alone. *)
LEMMA IdleCache ==
    ASSUME CountInv, CacheInv, NEW t \in Tasks,
           \/ Full(t) \/ Choose(t) \/ SyncSkip(t) \/ SyncWrite(t) \/ SyncEnd(t)
           \/ wait_on_buffer(t) \/ SyncWait(t) \/ PageFault(t)
    PROVE  CacheInv'
  <1>1. r \in [Tasks -> TaskType] /\ r[t] \in TaskType  BY DEF CountInv, TypeOK
  <1>2. UNCHANGED <<buf, disk, excused>>
    BY DEF Full, Choose, SyncSkip, SyncWrite, SyncEnd, wait_on_buffer, SyncWait,
           PageFault
  <1>3. CASE Full(t)
    <2>1. r' = [r EXCEPT ![t].pc = "buffer_wait"]  BY <1>3 DEF Full, Goto
    <2>2. (\A u \in Tasks \ {t} : r'[u] = r[u]) /\ r'[t].pc # "slot"
      BY <1>1, <2>1 DEF TaskType
    <2> QED  BY <1>2, <2>2, QuietKept
  <1>4. CASE Choose(t)
    <2>1. PICK b : r' = [r EXCEPT ![t] = [r[t] EXCEPT !.pc = "victim", !.bh = b]]
      BY <1>4 DEF Choose, Set
    <2>2. (\A u \in Tasks \ {t} : r'[u] = r[u]) /\ r'[t].pc # "slot"
      BY <1>1, <2>1 DEF TaskType
    <2> QED  BY <1>2, <2>2, QuietKept
  <1>5. CASE SyncSkip(t)
    <2>1. PICK v : r' = [r EXCEPT ![t] = [r[t] EXCEPT !.visit = v]]
      BY <1>5 DEF SyncSkip, Set
    <2>2. r[t].pc = "sync"  BY <1>5 DEF SyncSkip, At
    <2>3. (\A u \in Tasks \ {t} : r'[u] = r[u]) /\ r'[t].pc # "slot"
      BY <1>1, <2>1, <2>2 DEF TaskType
    <2> QED  BY <1>2, <2>3, QuietKept
  <1>6. CASE SyncWrite(t)
    <2>1. PICK v, q : r' = [r EXCEPT ![t] = [r[t] EXCEPT !.visit = v, !.pc = "rw",
                                                         !.rq = q]]
      BY <1>6 DEF SyncWrite, Set
    <2>2. (\A u \in Tasks \ {t} : r'[u] = r[u]) /\ r'[t].pc # "slot"
      BY <1>1, <2>1 DEF TaskType
    <2> QED  BY <1>2, <2>2, QuietKept
  <1>7. CASE SyncEnd(t)
    <2>1. \/ r' = [r EXCEPT ![t] = User]
          \/ r' = [r EXCEPT ![t] = [r[t] EXCEPT !.pc = "victim", !.dev = Null]]
      BY <1>7 DEF SyncEnd, Set
    <2>2. User.pc # "slot"  BY DEF User
    <2>3. (\A u \in Tasks \ {t} : r'[u] = r[u]) /\ r'[t].pc # "slot"
      BY <1>1, <2>1, <2>2 DEF TaskType
    <2> QED  BY <1>2, <2>3, QuietKept
  <1>8. CASE wait_on_buffer(t) \/ SyncWait(t) \/ PageFault(t)
    <2>1. r' = r  BY <1>8 DEF wait_on_buffer, SyncWait, PageFault
    <2> QED  BY <1>2, <2>1, QuietKept
  <1> QED  BY <1>3, <1>4, <1>5, <1>6, <1>7, <1>8

(* A process comes from user mode: it does not wait for a request yet. *)
LEMMA EnterCache ==
    ASSUME CountInv, CacheInv, NEW t \in Tasks, NEW y, y.pc # "slot",
           r' = [r EXCEPT ![t] = y], UNCHANGED <<buf, disk, excused>>
    PROVE  CacheInv'
  <1>1. (\A u \in Tasks \ {t} : r'[u] = r[u]) /\ r'[t].pc # "slot"
    BY DEF CountInv, TypeOK
  <1> QED  BY <1>1, QuietKept

(* get_from_hash_table takes a reference. *)
LEMMA HitCache ==
    ASSUME CountInv, CacheInv, NEW t \in Tasks, Hit(t)
    PROVE  CacheInv'
  <1>1. PICK b \in Buffers :
          /\ buf' = [buf EXCEPT ![b].count = @ + 1]
          /\ r' = [r EXCEPT ![t] = [r[t] EXCEPT !.pc = "hash", !.bh = b]]
    BY DEF Hit, find_buffer, Set
  <1>2. PICK n : buf' = [buf EXCEPT ![b].count = n]  BY <1>1
  <1>3. (\A u \in Tasks \ {t} : r'[u] = r[u]) /\ r'[t].pc # "slot"
    BY <1>1 DEF CountInv, TypeOK, TaskType
  <1>4. \A u \in Tasks : r'[u].pc = "slot" =>
          /\ r[u].pc = "slot" /\ r'[u].rq = r[u].rq /\ r[u].rq.b \in Buffers
    BY <1>3, SlotsKept
  <1>5. UNCHANGED <<disk, excused>>  BY DEF Hit
  <1> QED  BY <1>2, <1>4, <1>5, CountedKept

(* get_from_hash_table after its wait. *)
LEMMA HashCache ==
    ASSUME CountInv, CacheInv, NEW t \in Tasks, get_from_hash_table(t)
    PROVE  CacheInv'
  <1>1. r[t].pc = "hash" /\ UNCHANGED <<disk, excused>>
    BY DEF get_from_hash_table, At
  <1>2. buf[r[t].bh].blk = Head(r[t].todo)
    BY <1>1, ReadsIf DEF Reads, Point
  <1>3. r' = [r EXCEPT ![t] = Got(t, r[t].bh, buf[r[t].bh].uptodate)] /\ buf' = buf
    BY <1>2 DEF get_from_hash_table, Want, Set
  <1>4. (\A u \in Tasks \ {t} : r'[u] = r[u]) /\ r'[t].pc # "slot"
    <2>1. r \in [Tasks -> TaskType]  BY DEF CountInv, TypeOK
    <2>2. r'[t] = Got(t, r[t].bh, buf[r[t].bh].uptodate)  BY <1>3, <2>1
    <2>3. GotShape(r[t], r[t].bh, r'[t])  BY <1>1, <2>2, GotFacts
    <2>4. r'[t].pc # "slot"  BY <2>3 DEF GotShape
    <2> QED  BY <1>3, <2>1, <2>4
  <1> QED  BY <1>1, <1>3, <1>4, QuietKept

(* getblk after the wait for the chosen buffer. *)
LEMMA VictimCache ==
    ASSUME CountInv, CountInv', CacheInv, NEW t \in Tasks, Victim(t)
    PROVE  CacheInv'
  <1>1. r[t].pc = "victim" /\ UNCHANGED <<disk, excused>>
    BY DEF Victim, At
  <1>2. r \in [Tasks -> TaskType] /\ r[t] \in TaskType  BY DEF CountInv, TypeOK
  <1>3. PICK c \in Buffers : c = r[t].bh  BY <1>1, ReadsIf DEF Reads, Point
  <1>4. CASE Goto(t, "getblk") /\ UNCHANGED buf
    <2>1. (\A u \in Tasks \ {t} : r'[u] = r[u]) /\ r'[t].pc # "slot"
      BY <1>2, <1>4 DEF Goto, TaskType
    <2> QED  BY <1>1, <1>4, <2>1, QuietKept
  <1>5. CASE /\ Set(t, [r[t] EXCEPT !.pc = "sync", !.visit = {1, 2} \X Buffers,
                                    !.dev = DevOf[buf[c].blk]])
             /\ UNCHANGED buf
    <2>1. PICK v, d : r' = [r EXCEPT ![t] = [r[t] EXCEPT !.pc = "sync",
                                                !.visit = v, !.dev = d]]
      BY <1>5 DEF Set
    <2>2. (\A u \in Tasks \ {t} : r'[u] = r[u]) /\ r'[t].pc # "slot"
      BY <1>2, <2>1 DEF TaskType
    <2> QED  BY <1>1, <1>5, <2>2, QuietKept
  <1>6. CASE /\ ~MustSync(c) /\ ~Present(Want(t)) /\ buf' = Taken(c, Want(t))
             /\ Set(t, Got(t, c, FALSE))
    <2>1. PICK up : Set(t, Got(t, c, up))  BY <1>6, Zenon
    <2>2. r'[t] = Got(t, r[t].bh, up) /\ \A u \in Tasks \ {t} : r'[u] = r[u]
      BY <1>2, <1>3, <2>1 DEF Set
    <2>3. GotShape(r[t], r[t].bh, r'[t])  BY <1>1, <2>2, GotFacts
    <2>4. r'[t].pc # "slot"  BY <2>3 DEF GotShape
    <2>5. PICK k : k = Want(t)  OBVIOUS
    <2>6. ~MustSync(c) /\ ~Present(k) /\ buf' = Taken(c, k)
      BY <1>6, <2>5, Zenon
    <2>7. ~buf[c].lock /\ ~buf[c].dirt
      BY <1>3, <2>6 DEF MustSync, Victim, Unlocked
    <2> QED  BY <1>1, <2>2, <2>4, <2>6, <2>7, TakeCache
  <1> QED  BY <1>3, <1>4, <1>5, <1>6 DEF Victim

(* breada gives a block read ahead back. *)
LEMMA DropCache ==
    ASSUME CountInv, CacheInv, NEW t \in Tasks, Drop(t)
    PROVE  CacheInv'
  <1>1. /\ r[t].pc = "drop" /\ UNCHANGED <<disk, excused>>
        /\ r' = [r EXCEPT ![t] = NextBlock(r[t])]
    BY DEF Drop, At, Set
  <1>2. PICK c \in Buffers : c = r[t].bh  BY <1>1, ReadsIf DEF Reads, Point
  <1>3. PICK n : buf' = [buf EXCEPT ![c].count = n]  BY <1>2 DEF Drop
  <1>4. r \in [Tasks -> TaskType] /\ r[t] \in TaskType  BY DEF CountInv, TypeOK
  <1>5. NextBlock(r[t]).pc # "slot"
    <2>1. PICK b : \/ NextBlock(r[t]) = [r[t] EXCEPT !.pc = "getblk", !.bh = b]
                   \/ NextBlock(r[t]) = [r[t] EXCEPT !.pc = "check", !.bh = b]
      BY DEF NextBlock
    <2> QED  BY <1>4, <2>1 DEF TaskType
  <1>6. (\A u \in Tasks \ {t} : r'[u] = r[u]) /\ r'[t].pc # "slot"
    BY <1>1, <1>4, <1>5
  <1>7. \A u \in Tasks : r'[u].pc = "slot" =>
          /\ r[u].pc = "slot" /\ r'[u].rq = r[u].rq /\ r[u].rq.b \in Buffers
    BY <1>6, SlotsKept
  <1> QED  BY <1>1, <1>3, <1>7, CountedKept

(* brelse wakes the processes on buffer_wait: none of them has locked. *)
LEMMA BrelseCache ==
    ASSUME CountInv, CacheInv, NEW t \in Tasks, brelse(t)
    PROVE  CacheInv'
  <1>1. r[t].pc = "brelse" /\ UNCHANGED <<disk, excused>>
    BY DEF brelse, At
  <1>2. PICK c \in Buffers : c = r[t].bh  BY <1>1, WorksOn
  <1>3. PICK n : buf' = [buf EXCEPT ![c].count = n]  BY <1>2 DEF brelse
  <1>4. r \in [Tasks -> TaskType] /\ r[t] \in TaskType  BY DEF CountInv, TypeOK
  <1>5. r'[t].pc # "slot"
    <2>1. PICK h, b : \/ r'[t] = User
                      \/ r'[t] = [r[t] EXCEPT !.pc = "check", !.held = h, !.bh = b]
      BY DEF brelse
    <2>2. User.pc # "slot"  BY DEF User
    <2> QED  BY <1>4, <2>1, <2>2 DEF TaskType
  <1>6. ASSUME NEW u \in Tasks, r'[u].pc = "slot"
        PROVE  /\ r[u].pc = "slot" /\ r'[u].rq = r[u].rq /\ r[u].rq.b \in Buffers
    <2>1. u # t  BY <1>5, <1>6
    <2>2. r'[u] = Woken(r[u])  BY <2>1 DEF brelse
    <2>3. r[u] \in TaskType  BY <1>4
    <2>4. r'[u] = r[u]  BY <1>6, <2>2, <2>3 DEF Woken, TaskType
    <2> QED  BY <1>6, <2>4 DEF CountInv, Requests
  <1> QED  BY <1>1, <1>3, <1>6, CountedKept

(* Every block is on disk in the beginning, and no buffer holds one. *)
LEMMA InitCache == Init => CacheInv
  <1> SUFFICES ASSUME Init PROVE CacheInv  OBVIOUS
  <1>1. \A b \in Buffers : /\ buf[b].blk = Null /\ buf[b].io = "none"
                           /\ buf[b].dirt = FALSE
    BY DEF Init
  <1>2. \A k \in Blocks : disk[k] /\ k # Null  BY CacheAssumption DEF Init
  <1>3. \A t \in Tasks : r[t].pc = "user"  BY DEF Init, User
  <1>4. Locked  BY <1>1, <1>3 DEF Locked
  <1>5. Newest  BY <1>1 DEF Newest
  <1>6. Coherent  BY <1>1, <1>2 DEF Coherent
  <1> QED  BY <1>4, <1>5, <1>6 DEF CacheInv

(* Every step keeps the contents. *)
LEMMA StepCache == CountInv /\ CountInv' /\ CacheInv /\ [Next]_vars => CacheInv'
  <1> SUFFICES ASSUME CountInv, CountInv', CacheInv, [Next]_vars PROVE CacheInv'
    OBVIOUS
  <1>1. ASSUME NEW t \in Tasks, Kernel(t) PROVE CacheInv'
    <2>1. CASE Hit(t)  BY <2>1, HitCache
    <2>2. CASE get_from_hash_table(t)  BY <2>2, HashCache
    <2>3. CASE Victim(t)  BY <2>3, VictimCache
    <2>4. CASE invalidate_buffers(t)  BY <2>4, InvalidateCache
    <2>5. CASE make_request(t)  BY <2>5, MakeRequestCache
    <2>6. CASE NoFreeRequest(t)  BY <2>6, NoFreeCache
    <2>7. CASE RequestFree(t)  BY <2>7, RequestFreeCache
    <2>8. CASE Drop(t)  BY <2>8, DropCache
    <2>9. CASE Check(t)  BY <2>9, CheckCache
    <2>10. CASE Copy(t)  BY <2>10, CopyCache
    <2>11. CASE brelse(t)  BY <2>11, BrelseCache
    <2>12. CASE \/ Full(t) \/ Choose(t) \/ SyncSkip(t) \/ SyncWrite(t) \/ SyncEnd(t)
                \/ wait_on_buffer(t) \/ SyncWait(t) \/ PageFault(t)
      BY <2>12, IdleCache
    <2> QED
      BY <1>1, <2>1, <2>2, <2>3, <2>4, <2>5, <2>6, <2>7, <2>8, <2>9, <2>10,
         <2>11, <2>12 DEF Kernel
  <1>2. ASSUME NEW t \in Tasks, NEW c \in MayCall[t],
               NEW s \in BlockLists(c[1]), Call(t, c, s)
        PROVE  CacheInv'
    <2> DEFINE y == [User EXCEPT !.pc = "getblk", !.fn = c[1], !.wr = c[2],
                                 !.todo = s]
    <2>1. r' = [r EXCEPT ![t] = y] /\ UNCHANGED <<buf, disk, excused>>
      BY <1>2 DEF Call, Set
    <2>2. y.pc # "slot"  BY DEF User
    <2> QED  BY <2>1, <2>2, EnterCache
  <1>3. ASSUME NEW t \in Tasks, sys_sync(t) PROVE CacheInv'
    <2> DEFINE y == [User EXCEPT !.pc = "sync", !.visit = {1} \X Buffers]
    <2>1. r' = [r EXCEPT ![t] = y] /\ UNCHANGED <<buf, disk, excused>>
      BY <1>3 DEF sys_sync, Set
    <2>2. y.pc # "slot"  BY DEF User
    <2> QED  BY <2>1, <2>2, EnterCache
  <1>4. ASSUME NEW t \in Tasks, NEW d \in Floppies, check_disk_change(t, d)
        PROVE  CacheInv'
    <2> DEFINE y == [User EXCEPT !.pc = "sync", !.fn = "invalidate", !.dev = d,
                                 !.visit = {1} \X Buffers]
    <2>1. r' = [r EXCEPT ![t] = y] /\ UNCHANGED <<buf, disk, excused>>
      BY <1>4 DEF check_disk_change, Set
    <2>2. y.pc # "slot"  BY DEF User
    <2> QED  BY <2>1, <2>2, EnterCache
  <1>5. ASSUME NEW b \in Buffers, NEW ok \in BOOLEAN, end_request(b, ok)
        PROVE  CacheInv'
    BY <1>5, EndCache
  <1>6. CASE UNCHANGED vars
    <2>1. buf' = buf /\ disk' = disk /\ r' = r /\ excused' = excused
      BY <1>6 DEF vars
    <2>2. \A u \in Tasks : r'[u].pc = "slot" =>
            r[u].pc = "slot" /\ r'[u].rq = r[u].rq /\ r[u].rq.b \in Buffers
      BY <2>1 DEF CountInv, Requests
    <2> QED  BY <2>1, <2>2, InertKept
  <1> QED  BY <1>1, <1>2, <1>3, <1>4, <1>5, <1>6 DEF Next

(* A buffer is locked by one process from lock_buffer to end_request, and  *)
(* what is marked dirty or being written is the newest version of its      *)
(* block, except where the write is excused.                               *)
THEOREM Consistency == Spec => []CacheInv
  BY InitCache, StepCache, Invariance, PTL DEF Spec

(* The last write of a block is on disk, on its way there or in a dirty    *)
(* buffer, and a buffer that is up to date has it: no interleaving of      *)
(* getblk, sync_dev, file_write, block_write and end_request loses a write *)
(* outside the four ways that are named.                                   *)
THEOREM WritesKept == Spec => []Coherent
  <1>1. CacheInv => Coherent  BY DEF CacheInv
  <1> QED  BY <1>1, Consistency, PTL

=============================================================================
