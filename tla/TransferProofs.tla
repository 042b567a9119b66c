--------------------------- MODULE TransferProofs ---------------------------
(***************************************************************************)
(* Two components that carry data from one place to another.               *)
(*                                                                         *)
(* HardDisk: for every number of partitions, buffers, request slots and    *)
(* tries, driver and controller stay in step, a clean buffer has the       *)
(* contents of the disk, and the list of requests is the elevator's.       *)
(* Pipe: the ring holds exactly the bytes on their way (Ring), and until   *)
(* the wait queue is entered too early at most one process sleeps on it,   *)
(* which every wake-up reaches (Alone).                                    *)
(***************************************************************************)
EXTENDS HardDisk, Pipe, SequenceTheorems, TLAPS

-----------------------------------------------------------------------------
(* The hard disk driver. *)


(* The list without its first request. *)
LEMMA TailFacts ==
    ASSUME NEW S, NEW l \in Seq(S), l # <<>>
    PROVE  /\ Tail(l) \in Seq(S)
           /\ Len(Tail(l)) = Len(l) - 1 /\ Len(l) \in Nat \ {0}
           /\ \A i \in 1 .. Len(Tail(l)) :
                 i + 1 \in 1 .. Len(l) /\ Tail(l)[i] = l[i + 1]
  OBVIOUS

(* The list with its first request replaced. *)
LEMMA FirstFacts ==
    ASSUME NEW S, NEW l \in Seq(S), l # <<>>, NEW r \in S
    PROVE  /\ [l EXCEPT ![1] = r] \in Seq(S)
           /\ Len([l EXCEPT ![1] = r]) = Len(l) /\ Len(l) \in Nat \ {0}
           /\ [l EXCEPT ![1] = r][1] = r
           /\ \A i \in 1 .. Len(l) : i # 1 => [l EXCEPT ![1] = r][i] = l[i]
           /\ [l EXCEPT ![1] = r] # <<>>
  OBVIOUS

(* What the fields of a listed request say of its buffer. *)
LEMMA EntryFacts ==
    ASSUME HardDiskAssumption, StepInv, NEW i \in 1 .. Len(list)
    PROVE  /\ list[i] \in Entries
           /\ Id(list[i]) \in Buffers
           /\ Sector(list[i]) = At(Id(list[i]), list[i].buffer)
           /\ Sector(list[i]) \in Sectors /\ Sector(list[i]) \in Nat
           /\ Id(list[i])[1] = list[i].dev /\ Id(list[i])[2] = list[i].block
  <1> DEFINE r == list[i]
  <1>1. /\ r \in Entries /\ Id(r) \in Buffers /\ r.buffer \in {1, 2}
        /\ r.start_sector = 2 * r.block + r.buffer - 1
        /\ r.dev \in Devices /\ r.block \in Blocks
    <2>1. r \in Entries  BY DEF StepInv, TypeOK
    <2>2. Id(r) \in Buffers /\ r.start_sector = 2 * r.block + r.buffer - 1
      BY DEF StepInv, Listed
    <2> HIDE DEF r
    <2>3. r.buffer \in {1, 2} /\ r.dev \in Devices /\ r.block \in Blocks
      BY <2>1 DEF Entries
    <2> QED  BY <2>1, <2>2, <2>3
  <1>2. Id(r)[1] = r.dev /\ Id(r)[2] = r.block
    BY DEF Id
  <1>3. r.dev \in Nat /\ r.block \in Nat /\ start_sect[r.dev] \in Nat
    BY <1>1, <1>2 DEF HardDiskAssumption
  <1>4. Sector(r) = At(Id(r), r.buffer) /\ Sector(r) \in Nat
    <2> HIDE DEF r
    <2>1. /\ Sector(r) = start_sect[r.dev] + r.start_sector
          /\ At(Id(r), r.buffer) = start_sect[r.dev] + 2 * r.block + r.buffer - 1
      BY <1>2 DEF Sector, At
    <2>2. r.start_sector = 2 * r.block + r.buffer - 1 /\ r.buffer \in {1, 2}
      BY <1>1
    <2> QED  BY <1>3, <2>1, <2>2
  <1>5. Sector(r) \in Sectors
    <2>1. Sector(r) \in {At(Id(r), 1), At(Id(r), 2)}  BY <1>1, <1>4
    <2> QED  BY <1>1, <2>1 DEF Sectors
  <1> QED  BY <1>1, <1>2, <1>4, <1>5

(* The current request is the first of the list. *)
LEMMA FirstIsListed ==
    ASSUME StepInv, list # <<>>
    PROVE  1 \in 1 .. Len(list) /\ Len(list) \in Nat
  BY DEF StepInv, TypeOK

(* The steps that change the list of requests: the first one ends and its  *)
(* buffer is unlocked ...                                                  *)
Ends == /\ list # <<>> /\ list' = Tail(list)
        /\ \A b \in Buffers : b # Id(list[1]) => buf'[b] = buf[b]

(* ... or it goes on as r. *)
GoesOn(r) == /\ list # <<>> /\ list' = [list EXCEPT ![1] = r]
             /\ r \in Entries /\ Id(r) = Id(list[1]) /\ r.cmd = list[1].cmd
             /\ r.nr_sectors = 3 - r.buffer
             /\ r.start_sector = 2 * r.block + r.buffer - 1
             /\ \A b \in Buffers : buf'[b].lock = buf[b].lock

(* The end of the current request leaves the others listed and locked. *)
LEMMA EndsKeeps ==
    ASSUME StepInv, Ends
    PROVE  list' \in Seq(Entries) /\ Listed' /\ OnlyOnce'
  <1>1. /\ list \in Seq(Entries) /\ list # <<>>
        /\ \A b \in Buffers : b # Id(list[1]) => buf'[b] = buf[b]
        /\ list' = Tail(list)
    BY DEF StepInv, TypeOK, Ends
  <1>2. /\ list' \in Seq(Entries)
        /\ Len(list') = Len(list) - 1 /\ Len(list) \in Nat \ {0}
        /\ \A i \in 1 .. Len(list') :
                 i + 1 \in 1 .. Len(list) /\ list'[i] = list[i + 1]
    BY <1>1, TailFacts
  <1>3. OnlyOnce /\ Listed  BY DEF StepInv
  <1>4. 1 \in 1 .. Len(list)  BY <1>2
  <1>5. ASSUME NEW i \in 1 .. Len(list')
        PROVE  /\ i + 1 \in 1 .. Len(list) /\ i + 1 # 1
               /\ list'[i] = list[i + 1] /\ Id(list'[i]) # Id(list[1])
    <2>1. i + 1 \in 1 .. Len(list) /\ list'[i] = list[i + 1] /\ i + 1 # 1
      BY <1>2
    <2>2. Id(list[i + 1]) # Id(list[1])
      BY <2>1, <1>3, <1>4 DEF OnlyOnce
    <2> QED  BY <2>1, <2>2
  <1>6. Listed'
    <2> SUFFICES ASSUME NEW i \in 1 .. Len(list')
                 PROVE  /\ Id(list'[i]) \in Buffers
                        /\ buf'[Id(list'[i])].lock
                        /\ list'[i].nr_sectors = 3 - list'[i].buffer
                        /\ list'[i].start_sector =
                               2 * list'[i].block + list'[i].buffer - 1
      BY DEF Listed, Id
    <2>1. i + 1 \in 1 .. Len(list) /\ list'[i] = list[i + 1]
          /\ Id(list'[i]) # Id(list[1])
      BY <1>5
    <2>2. /\ Id(list[i+1]) \in Buffers
          /\ buf[Id(list[i+1])].lock
          /\ list[i+1].nr_sectors = 3 - list[i+1].buffer
          /\ list[i+1].start_sector = 2 * list[i+1].block + list[i+1].buffer - 1
      BY <2>1, <1>3 DEF Listed
    <2>3. Id(list'[i]) \in Buffers /\ buf'[Id(list'[i])] = buf[Id(list[i+1])]
      BY <2>1, <2>2, <1>1
    <2> QED  BY <2>1, <2>2, <2>3
  <1>7. OnlyOnce'
    <2> SUFFICES ASSUME NEW i \in 1 .. Len(list'), NEW j \in 1 .. Len(list'),
                        Id(list'[i]) = Id(list'[j])
                 PROVE  i = j
      BY DEF OnlyOnce, Id
    <2>1. /\ i + 1 \in 1 .. Len(list) /\ list'[i] = list[i + 1]
          /\ j + 1 \in 1 .. Len(list) /\ list'[j] = list[j + 1]
      BY <1>5
    <2>2. i + 1 = j + 1  BY <2>1, <1>3 DEF OnlyOnce
    <2> QED  BY <2>2
  <1> QED  BY <1>2, <1>6, <1>7

(* The list after the current request went on. *)
LEMMA GoesOnFacts ==
    ASSUME StepInv, NEW r, GoesOn(r)
    PROVE  /\ list' \in Seq(Entries) /\ Len(list') = Len(list)
           /\ Len(list) \in Nat \ {0} /\ list' # <<>> /\ list'[1] = r
           /\ \A i \in 1 .. Len(list) : i # 1 => list'[i] = list[i]
           /\ \A i \in 1 .. Len(list) : Id(list'[i]) = Id(list[i])
  <1>1. /\ list \in Seq(Entries) /\ list # <<>> /\ r \in Entries
        /\ list' = [list EXCEPT ![1] = r] /\ Id(r) = Id(list[1])
    BY DEF StepInv, TypeOK, GoesOn
  <1>2. /\ list' \in Seq(Entries) /\ Len(list') = Len(list)
        /\ Len(list) \in Nat \ {0} /\ list' # <<>> /\ list'[1] = r
        /\ \A i \in 1 .. Len(list) : i # 1 => list'[i] = list[i]
    BY <1>1, FirstFacts
  <1>3. ASSUME NEW i \in 1 .. Len(list) PROVE Id(list'[i]) = Id(list[i])
    <2>1. CASE i = 1  BY <2>1, <1>1, <1>2
    <2>2. CASE i # 1  BY <2>2, <1>2
    <2> QED  BY <2>1, <2>2
  <1> QED  BY <1>2, <1>3

(* A request that goes on stays listed, once, with its buffer locked. *)
LEMMA GoesOnKeeps ==
    ASSUME StepInv, NEW r, GoesOn(r)
    PROVE  list' \in Seq(Entries) /\ Listed' /\ OnlyOnce'
  <1>1. /\ list' \in Seq(Entries) /\ Len(list') = Len(list)
        /\ list'[1] = r
        /\ \A i \in 1 .. Len(list) : i # 1 => list'[i] = list[i]
        /\ \A i \in 1 .. Len(list) : Id(list'[i]) = Id(list[i])
    BY GoesOnFacts
  <1>2. OnlyOnce /\ Listed  BY DEF StepInv
  <1>3. /\ r.nr_sectors = 3 - r.buffer
        /\ r.start_sector = 2 * r.block + r.buffer - 1
        /\ \A b \in Buffers : buf'[b].lock = buf[b].lock
    BY DEF GoesOn
  <1>4. Listed'
    <2> SUFFICES ASSUME NEW i \in 1 .. Len(list)
                 PROVE  /\ Id(list'[i]) \in Buffers
                        /\ buf'[Id(list'[i])].lock
                        /\ list'[i].nr_sectors = 3 - list'[i].buffer
                        /\ list'[i].start_sector =
                               2 * list'[i].block + list'[i].buffer - 1
      BY <1>1 DEF Listed, Id
    <2>1. Id(list'[i]) \in Buffers /\ buf'[Id(list'[i])].lock
      <3>1. Id(list[i]) \in Buffers /\ buf[Id(list[i])].lock
        BY <1>2 DEF Listed
      <3> QED  BY <3>1, <1>1, <1>3
    <2>2. /\ list'[i].nr_sectors = 3 - list'[i].buffer
          /\ list'[i].start_sector = 2 * list'[i].block + list'[i].buffer - 1
      <3>1. CASE i = 1  BY <3>1, <1>1, <1>3
      <3>2. CASE i # 1
        <4>1. /\ list[i].nr_sectors = 3 - list[i].buffer
              /\ list[i].start_sector = 2 * list[i].block + list[i].buffer - 1
          BY <1>2 DEF Listed
        <4>2. list'[i] = list[i]  BY <3>2, <1>1
        <4> QED  BY <4>1, <4>2
      <3> QED  BY <3>1, <3>2
    <2> QED  BY <2>1, <2>2
  <1>5. OnlyOnce'
    <2> SUFFICES ASSUME NEW i \in 1 .. Len(list), NEW j \in 1 .. Len(list),
                        Id(list'[i]) = Id(list'[j])
                 PROVE  i = j
      BY <1>1 DEF OnlyOnce, Id
    <2> QED  BY <1>1, <1>2 DEF OnlyOnce
  <1> QED  BY <1>1, <1>4, <1>5

(* end_request unlocks the current buffer and leaves the others alone. *)
LEMMA EndRequestFacts ==
    ASSUME HardDiskAssumption, StepInv, list # <<>>,
           NEW bf \in [Buffers -> Contents], NEW u \in BOOLEAN
    PROVE  LET b == Id(list[1])
               e == end_request(bf, u)
           IN /\ e \in [Buffers -> Contents]
              /\ \A c \in Buffers : c # b => e[c] = bf[c]
              /\ e[b].lock = FALSE /\ e[b].uptodate = u
              /\ e[b].dirt = bf[b].dirt /\ e[b].data = bf[b].data
  <1> DEFINE b == Id(list[1])
             e == end_request(bf, u)
             x == [bf[b] EXCEPT !.uptodate = u, !.lock = FALSE]
  <1>1. b \in Buffers  BY FirstIsListed, EntryFacts
  <1>2. bf[b] \in Contents  BY <1>1
  <1>3. /\ x \in Contents /\ x.lock = FALSE /\ x.uptodate = u
        /\ x.dirt = bf[b].dirt /\ x.data = bf[b].data
    BY <1>2 DEF Contents
  <1>4. e = [bf EXCEPT ![b] = x]  BY DEF end_request
  <1> HIDE DEF x, b, e
  <1>5. e \in [Buffers -> Contents] /\ e[b] = x
        /\ \A c \in Buffers : c # b => e[c] = bf[c]
    BY <1>1, <1>3, <1>4
  <1> QED  BY <1>3, <1>5 DEF b, e

(* An error ends the current request without success, or leaves it to be   *)
(* tried again as it is.                                                   *)
LEMMA ErrorFacts ==
    ASSUME HardDiskAssumption, StepInv, list # <<>>, bad_rw_intr
    PROVE  /\ buf' \in [Buffers -> Contents] /\ reset' \in BOOLEAN
           /\ \/ /\ Ends
                 /\ ~buf'[Id(list[1])].uptodate
              \/ /\ GoesOn([list[1] EXCEPT !.errors = @ + 1])
                 /\ buf' = buf
  <1> DEFINE r == list[1]
             last == r.errors + 1 >= MAX_ERRORS
  <1>1. 1 \in 1 .. Len(list)  BY FirstIsListed
  <1>2. r \in Entries /\ Id(r) \in Buffers  BY <1>1, EntryFacts
  <1>3. buf \in [Buffers -> Contents] /\ reset \in BOOLEAN
    BY DEF StepInv, TypeOK
  <1>4. reset' \in BOOLEAN
    <2>1. \/ reset' \in {reset, TRUE}
          \/ reset' = (reset \/ list'[1].errors > MAX_ERRORS \div 2)
      BY Zenon DEF bad_rw_intr
    <2>2. CASE reset' \in {reset, TRUE}  BY <1>3, <2>2
    <2>3. CASE reset' = (reset \/ list'[1].errors > MAX_ERRORS \div 2)
      BY <1>3, <2>3, Zenon
    <2> QED  BY <2>1, <2>2, <2>3
  <1>5. CASE last
    <2>1. buf' = end_request(buf, FALSE) /\ list' = Tail(list)
      BY <1>5, Zenon DEF bad_rw_intr
    <2>2. /\ buf' \in [Buffers -> Contents]
          /\ \A c \in Buffers : c # Id(r) => buf'[c] = buf[c]
          /\ buf'[Id(r)].uptodate = FALSE
      BY <1>3, <2>1, EndRequestFacts
    <2> QED  BY <1>4, <2>1, <2>2 DEF Ends
  <1>6. CASE ~last
    <2> DEFINE n == [r EXCEPT !.errors = @ + 1]
    <2>1. buf' = buf /\ list' = [list EXCEPT ![1].errors = @ + 1]
      BY <1>6, Zenon DEF bad_rw_intr
    <2>2. list' = [list EXCEPT ![1] = n]  BY <2>1
    <2>3. /\ r.nr_sectors = 3 - r.buffer
          /\ r.start_sector = 2 * r.block + r.buffer - 1
      BY <1>1 DEF StepInv, Listed
    <2> HIDE DEF r
    <2>4. r.errors \in 0 .. MAX_ERRORS - 1 /\ MAX_ERRORS \in Nat
      BY <1>2 DEF Entries, HardDiskAssumption
    <2>5. r.errors + 1 \in 0 .. MAX_ERRORS - 1
      BY <2>4, <1>6
    <2>6. n \in Entries  BY <1>2, <2>5 DEF Entries
    <2>7. /\ n.cmd = r.cmd /\ n.dev = r.dev /\ n.block = r.block
          /\ n.nr_sectors = r.nr_sectors /\ n.buffer = r.buffer
          /\ n.start_sector = r.start_sector
      BY <1>2 DEF Entries
    <2>8. GoesOn(n)
      BY <2>1, <2>2, <2>3, <2>6, <2>7 DEF GoesOn, Id, r
    <2> QED  BY <1>3, <1>4, <2>1, <2>8 DEF r
  <1> QED  BY <1>5, <1>6

(* The list got the request r behind its i-th one. *)
Grows(i, r) == /\ list' \in Seq(Entries) /\ Len(list') = Len(list) + 1
               /\ i = 0 => list = <<>>
               /\ \A j \in 1 .. i : list'[j] = list[j]
               /\ \A j \in i + 2 .. Len(list) + 1 : list'[j] = list[j-1]
               /\ list'[i + 1] = r

NewRequest(b, rw) ==
    [cmd |-> rw, dev |-> b[1], block |-> b[2], errors |-> 0,
     start_sector |-> 2 * b[2], nr_sectors |-> 2, buffer |-> 1]

(* The list after make_request: a new request for an unlocked buffer. *)
LEMMA MakeFacts ==
    ASSUME HardDiskAssumption, StepInv, NEW b \in Buffers,
           NEW rw \in {READ, WRITE}, make_request(b, rw)
    PROVE  /\ buf' \in [Buffers -> Contents]
           /\ \A c \in Buffers : c # b => buf'[c] = buf[c]
           /\ buf'[b].lock /\ ~buf'[b].dirt
           /\ ~buf[b].lock /\ ~run
           /\ \E i \in 0 .. Len(list) : Grows(i, NewRequest(b, rw))
           /\ run' = (list = <<>>)
  <1> DEFINE r == NewRequest(b, rw)
             x == [buf[b] EXCEPT !.lock = TRUE, !.dirt = FALSE]
  <1>1. /\ ~run /\ ~buf[b].lock
        /\ buf' = [buf EXCEPT ![b].lock = TRUE, ![b].dirt = FALSE]
        /\ \/ list = <<>> /\ list' = <<r>> /\ run' = TRUE
           \/ \E i \in 1 .. Len(list) :
                 /\ list' = Elevator!InsertAfter(list, i, r)
                 /\ run' = run
    BY DEF make_request, NewRequest
  <1>2. buf \in [Buffers -> Contents] /\ list \in Seq(Entries)
    BY DEF StepInv, TypeOK
  <1>3. buf[b] \in Contents  BY <1>2
  <1>4. x \in Contents /\ x.lock = TRUE /\ x.dirt = FALSE
    BY <1>3 DEF Contents
  <1>5. buf' = [buf EXCEPT ![b] = x]  BY <1>1
  <1>6. r \in Entries
    <2>1. b[1] \in Devices /\ b[2] \in Blocks  BY DEF Devices, Blocks
    <2>2. b[2] \in Nat /\ MAX_ERRORS \in Nat \ {0}
      BY DEF HardDiskAssumption
    <2>3. 2 * b[2] \in Nat /\ 0 \in 0 .. MAX_ERRORS - 1  BY <2>2
    <2> QED  BY <2>1, <2>3 DEF Entries, NewRequest
  <1> HIDE DEF x
  <1>7. /\ buf' \in [Buffers -> Contents] /\ buf'[b] = x
        /\ \A c \in Buffers : c # b => buf'[c] = buf[c]
    BY <1>2, <1>4, <1>5
  <1>8. (\E i \in 0 .. Len(list) : Grows(i, r)) /\ run' = (list = <<>>)
    <2> HIDE DEF r
    <2>1. CASE list = <<>> /\ list' = <<r>> /\ run' = TRUE
      <3>1. Len(list) = 0  BY <2>1
      <3>2. /\ list' \in Seq(Entries) /\ Len(list') = 1
            /\ list'[1] = r
        BY <1>6, <2>1
      <3>3. Grows(0, r)  BY <2>1, <3>1, <3>2 DEF Grows
      <3>4. run' = (list = <<>>)  BY <2>1
      <3>5. 0 \in 0 .. Len(list)  BY <3>1
      <3> QED  BY <3>3, <3>4, <3>5
    <2>2. CASE \E i \in 1 .. Len(list) :
                 /\ list' = Elevator!InsertAfter(list, i, r)
                 /\ run' = run
      <3>1. PICK i \in 1 .. Len(list) :
                 /\ list' = Elevator!InsertAfter(list, i, r)
                 /\ run' = run
        BY <2>2
      <3>0. i \in 1 .. Len(list)  BY <3>1
      <3> DEFINE p == Elevator!InsertAfter(list, i, r)
      <3>2. /\ p \in Seq(Entries) /\ Len(p) = Len(list) + 1
            /\ \A j \in 1 .. Len(list) + 1 : p[j] =
                 IF j <= i THEN list[j] ELSE IF j = i + 1 THEN r ELSE list[j-1]
        <4>1. \A j \in 1 .. Len(list) + 1 : p[j] =
                 IF j <= i THEN list[j] ELSE IF j = i + 1 THEN r ELSE list[j-1]
          BY DEF Elevator!InsertAfter
        <4>2. p \in [1 .. Len(list) + 1 -> Entries]
          BY <3>0, <1>2, <1>6 DEF Elevator!InsertAfter
        <4> HIDE DEF p
        <4>3. p \in Seq(Entries) /\ Len(p) = Len(list) + 1  BY <4>2, <1>2, SMTT(30)
        <4> QED  BY <4>1, <4>3
      <3>3. Len(list) \in Nat /\ i \in Nat /\ i > 0 /\ i <= Len(list)
            /\ list # <<>>
        BY <3>0, <1>2
      <3>4. list' = p  BY <3>1
      <3> HIDE DEF p
      <3>5. Grows(i, r)
        <4> DEFINE m == Len(list)
        <4> HIDE DEF m
        <4>1. \A j \in 1 .. i : p[j] = list[j]  BY <3>2, <3>3 DEF m
        <4>2. \A j \in i + 2 .. m + 1 : p[j] = list[j-1]
          BY <3>2, <3>3 DEF m
        <4>3. p[i + 1] = r  BY <3>2, <3>3
        <4> QED  BY <3>2, <3>3, <3>4, <4>1, <4>2, <4>3 DEF Grows, m
      <3>6. run' = (list = <<>>)
        BY <3>1, <3>3, <1>1 DEF StepInv, TypeOK
      <3>7. i \in 0 .. Len(list)  BY <3>3
      <3> QED  BY <3>5, <3>6, <3>7
    <2> QED  BY <1>1, <2>1, <2>2 DEF r
  <1> QED  BY <1>1, <1>4, <1>7, <1>8

(* Where the j-th request of the grown list was before. *)
Before(i, j) == IF j <= i THEN j ELSE j - 1

(* Every other request of the grown list was in it before, in this order. *)
LEMMA GrowsFacts ==
    ASSUME StepInv, NEW i \in 0 .. Len(list), NEW r, Grows(i, r)
    PROVE  /\ Len(list) \in Nat /\ i \in Nat
           /\ i + 1 \in 1 .. Len(list') /\ list'[i + 1] = r
           /\ list # <<>> => list'[1] = list[1]
           /\ list' # <<>>
           /\ \A j \in 1 .. Len(list') : j # i + 1 =>
                 /\ Before(i, j) \in 1 .. Len(list)
                 /\ list'[j] = list[Before(i, j)]
           /\ \A j, ix \in 1 .. Len(list') : j # i + 1 /\ ix # i + 1 =>
                 (Before(i, j) = Before(i, ix) => j = ix)
  <1> DEFINE m == Len(list)
  <1>1. m \in Nat /\ i \in Nat /\ i <= m
    BY DEF StepInv, TypeOK
  <1>2. /\ list' \in Seq(Entries) /\ Len(list') = m + 1
        /\ i = 0 => list = <<>>
        /\ \A j \in 1 .. i : list'[j] = list[j]
        /\ \A j \in i + 2 .. m + 1 : list'[j] = list[j-1]
        /\ list'[i + 1] = r
    BY DEF Grows
  <1> HIDE DEF m
  <1>3. list # <<>> => list'[1] = list[1]
    <2> SUFFICES ASSUME list # <<>> PROVE list'[1] = list[1]
      OBVIOUS
    <2>1. 1 \in 1 .. i  BY <1>1, <1>2
    <2> QED  BY <1>2, <2>1
  <1>4. list' # <<>>  BY <1>1, <1>2
  <1>5. ASSUME NEW j \in 1 .. m + 1, j # i + 1
        PROVE  Before(i, j) \in 1 .. m /\ list'[j] = list[Before(i, j)]
    <2>1. CASE j <= i
      BY <1>1, <1>2, <2>1 DEF Before
    <2>2. CASE ~(j <= i)
      <3>1. j \in i + 2 .. m + 1  BY <1>1, <1>5, <2>2
      <3> QED  BY <1>1, <1>2, <2>2, <3>1 DEF Before
    <2> QED  BY <2>1, <2>2
  <1>6. ASSUME NEW j \in 1 .. m + 1, NEW ix \in 1 .. m + 1,
               j # i + 1, ix # i + 1, Before(i, j) = Before(i, ix)
        PROVE  j = ix
    BY <1>1, <1>6 DEF Before
  <1>7. i + 1 \in 1 .. m + 1  BY <1>1
  <1> QED  BY <1>1, <1>2, <1>3, <1>4, <1>5, <1>6, <1>7 DEF m

(* The new request is the only one for its buffer, which was not locked. *)
LEMMA GrowsKeeps ==
    ASSUME HardDiskAssumption, StepInv, NEW b \in Buffers,
           NEW rw \in {READ, WRITE}, make_request(b, rw)
    PROVE  list' \in Seq(Entries) /\ Listed' /\ OnlyOnce'
  <1> DEFINE r == NewRequest(b, rw)
  <1>1. /\ \A c \in Buffers : c # b => buf'[c] = buf[c]
        /\ buf'[b].lock /\ ~buf[b].lock
    BY MakeFacts
  <1>2. PICK i \in 0 .. Len(list) : Grows(i, r)  BY MakeFacts
  <1>3. list' \in Seq(Entries)  BY <1>2 DEF Grows
  <1>4. /\ i + 1 \in 1 .. Len(list') /\ list'[i + 1] = r
        /\ \A j \in 1 .. Len(list') : j # i + 1 =>
                 /\ Before(i, j) \in 1 .. Len(list)
                 /\ list'[j] = list[Before(i, j)]
        /\ \A j, ix \in 1 .. Len(list') : j # i + 1 /\ ix # i + 1 =>
                 (Before(i, j) = Before(i, ix) => j = ix)
    BY <1>2, GrowsFacts
  <1>5. /\ Id(r) = b /\ r.nr_sectors = 3 - r.buffer
        /\ r.start_sector = 2 * r.block + r.buffer - 1
    <2>1. b = <<b[1], b[2]>> /\ b[2] \in Nat  BY DEF HardDiskAssumption
    <2>2. Id(r) = b  BY <2>1 DEF Id, NewRequest
    <2>3. /\ r.nr_sectors = 2 /\ r.buffer = 1 /\ r.block = b[2]
          /\ r.start_sector = 2 * b[2]
      BY DEF NewRequest
    <2> HIDE DEF r
    <2> QED  BY <2>1, <2>2, <2>3
  <1>6. Listed /\ OnlyOnce  BY DEF StepInv
  <1> HIDE DEF r
  <1>7. ASSUME NEW ix \in 1 .. Len(list)
        PROVE  Id(list[ix]) # b /\ Id(list[ix]) \in Buffers
    BY <1>1, <1>6 DEF Listed
  <1>8. Listed'
    <2> SUFFICES ASSUME NEW j \in 1 .. Len(list')
                 PROVE  /\ Id(list'[j]) \in Buffers
                        /\ buf'[Id(list'[j])].lock
                        /\ list'[j].nr_sectors = 3 - list'[j].buffer
                        /\ list'[j].start_sector =
                               2 * list'[j].block + list'[j].buffer - 1
      BY DEF Listed, Id
    <2>1. CASE j = i + 1  BY <2>1, <1>1, <1>4, <1>5
    <2>2. CASE j # i + 1
      <3> DEFINE ix == Before(i, j)
      <3>1. ix \in 1 .. Len(list) /\ list'[j] = list[ix]  BY <2>2, <1>4
      <3> HIDE DEF ix
      <3>2. /\ Id(list[ix]) \in Buffers /\ buf[Id(list[ix])].lock
            /\ list[ix].nr_sectors = 3 - list[ix].buffer
            /\ list[ix].start_sector = 2 * list[ix].block + list[ix].buffer - 1
        BY <3>1, <1>6 DEF Listed
      <3>3. buf'[Id(list[ix])] = buf[Id(list[ix])]  BY <3>1, <1>1, <1>7
      <3> QED  BY <3>1, <3>2, <3>3
    <2> QED  BY <2>1, <2>2
  <1>9. OnlyOnce'
    <2> SUFFICES ASSUME NEW j \in 1 .. Len(list'), NEW ix \in 1 .. Len(list'),
                        Id(list'[j]) = Id(list'[ix])
                 PROVE  j = ix
      BY DEF OnlyOnce, Id
    <2>1. CASE j = i + 1 /\ ix = i + 1  BY <2>1
    <2>2. CASE j = i + 1 /\ ix # i + 1
      <3>1. Id(list'[ix]) # b  BY <2>2, <1>4, <1>7
      <3> QED  BY <2>2, <3>1, <1>4, <1>5
    <2>3. CASE j # i + 1 /\ ix = i + 1
      <3>1. Id(list'[j]) # b  BY <2>3, <1>4, <1>7
      <3> QED  BY <2>3, <3>1, <1>4, <1>5
    <2>4. CASE j # i + 1 /\ ix # i + 1
      <3>1. /\ Before(i, j) \in 1 .. Len(list) /\ list'[j] = list[Before(i, j)]
            /\ Before(i, ix) \in 1 .. Len(list) /\ list'[ix] = list[Before(i, ix)]
        BY <2>4, <1>4
      <3>2. Before(i, j) = Before(i, ix)  BY <3>1, <1>6 DEF OnlyOnce
      <3> QED  BY <2>4, <3>2, <1>4
    <2> QED  BY <2>1, <2>2, <2>3, <2>4
  <1> QED  BY <1>3, <1>8, <1>9

(* A process changes one buffer and its dirt flag. *)
LEMMA ModifyFacts ==
    ASSUME StepInv, NEW b \in Buffers, NEW v \in Values, Modify(b, v)
    PROVE  /\ buf' \in [Buffers -> Contents]
           /\ \A c \in Buffers : c # b => buf'[c] = buf[c]
           /\ buf'[b].lock = buf[b].lock /\ buf'[b].dirt
  <1> DEFINE x == [buf[b] EXCEPT !.data = [h \in {1, 2} |-> v], !.dirt = TRUE]
  <1>1. buf \in [Buffers -> Contents] /\ buf[b] \in Contents
    BY DEF StepInv, TypeOK
  <1>2. x \in Contents /\ x.lock = buf[b].lock /\ x.dirt = TRUE
    BY <1>1 DEF Contents
  <1>3. buf' = [buf EXCEPT ![b] = x]  BY DEF Modify
  <1> HIDE DEF x
  <1> QED  BY <1>1, <1>2, <1>3

(* StepInv is kept when a process changes a buffer ... *)
LEMMA ModifyStep ==
    ASSUME StepInv, NEW b \in Buffers, NEW v \in Values, Modify(b, v)
    PROVE  StepInv'
  <1>1. /\ buf' \in [Buffers -> Contents]
        /\ \A c \in Buffers : c # b => buf'[c] = buf[c]
        /\ buf'[b].lock = buf[b].lock
    BY ModifyFacts
  <1>2. /\ list' = list /\ disk' = disk /\ do_hd' = do_hd /\ reset' = reset
        /\ recalibrate' = recalibrate /\ run' = run /\ ctl' = ctl
    BY DEF Modify
  <1>3. TypeOK'  BY <1>1, <1>2 DEF StepInv, TypeOK
  <1>4. \A c \in Buffers : buf'[c].lock = buf[c].lock  BY <1>1
  <1>5. Listed'
    BY <1>2, <1>4 DEF StepInv, Listed, Id
  <1>6. OnlyOnce' /\ InStep'
    BY <1>2 DEF StepInv, OnlyOnce, InStep, Id, Sector
  <1> QED  BY <1>3, <1>5, <1>6 DEF StepInv

(* ... when it makes a request ... *)
LEMMA MakeStep ==
    ASSUME HardDiskAssumption, StepInv, NEW b \in Buffers,
           NEW rw \in {READ, WRITE}, make_request(b, rw)
    PROVE  StepInv'
  <1>1. list' \in Seq(Entries) /\ Listed' /\ OnlyOnce'  BY GrowsKeeps
  <1>2. /\ disk' = disk /\ do_hd' = do_hd /\ reset' = reset
        /\ recalibrate' = recalibrate /\ ctl' = ctl
    BY DEF make_request
  <1>3. buf' \in [Buffers -> Contents] /\ run' = (list = <<>>)
    BY MakeFacts
  <1>4. TypeOK'  BY <1>1, <1>2, <1>3 DEF StepInv, TypeOK
  <1>5. PICK i \in 0 .. Len(list) : Grows(i, NewRequest(b, rw))
    BY MakeFacts
  <1>6. list' # <<>> /\ (list # <<>> => list'[1] = list[1])
    BY <1>5, GrowsFacts
  <1>7. InStep'
    BY <1>2, <1>3, <1>6 DEF StepInv, InStep, Sector
  <1> QED  BY <1>1, <1>4, <1>7 DEF StepInv

(* While do_hd_request runs the controller is idle. *)
LEMMA IdleWhileRunning ==
    ASSUME StepInv, run
    PROVE  ctl.cmd = "none"
  BY DEF StepInv, InStep

(* ... when do_hd_request finds no request ... *)
LEMMA NoRequestStep ==
    ASSUME StepInv, NoRequest
    PROVE  StepInv'
  <1>1. ctl.cmd = "none"  BY IdleWhileRunning DEF NoRequest
  <1> QED
    BY <1>1, ZenonT(60) DEF StepInv, NoRequest, TypeOK, Listed, OnlyOnce, InStep, Id

(* ... when it refuses one ... *)
LEMMA BadPartitionStep ==
    ASSUME HardDiskAssumption, StepInv, BadPartition
    PROVE  StepInv'
  <1>1. /\ list # <<>> /\ buf' = end_request(buf, FALSE) /\ list' = Tail(list)
        /\ disk' = disk /\ do_hd' = do_hd /\ reset' = reset
        /\ recalibrate' = recalibrate /\ run' = run /\ ctl' = ctl
    BY DEF BadPartition
  <1>2. buf \in [Buffers -> Contents]  BY DEF StepInv, TypeOK
  <1>3. /\ buf' \in [Buffers -> Contents]
        /\ \A c \in Buffers : c # Id(list[1]) => buf'[c] = buf[c]
    BY <1>1, <1>2, EndRequestFacts
  <1>4. Ends  BY <1>1, <1>3 DEF Ends
  <1>5. list' \in Seq(Entries) /\ Listed' /\ OnlyOnce'  BY <1>4, EndsKeeps
  <1>6. TypeOK'  BY <1>1, <1>3, <1>5 DEF StepInv, TypeOK
  <1>7. ctl.cmd = "none"  BY IdleWhileRunning DEF BadPartition
  <1>8. InStep'  BY <1>1, <1>7 DEF InStep
  <1> QED  BY <1>5, <1>6, <1>8 DEF StepInv

(* do_hd_request gives the controller a command. *)
LEMMA CommandStep ==
    ASSUME HardDiskAssumption, StepInv,
           reset_hd \/ Recalibrate \/ StartRead \/ StartWrite
    PROVE  StepInv'
  <1>1. list # <<>> /\ list' = list /\ buf' = buf /\ disk' = disk /\ ~run'
        /\ run' = FALSE
    BY DEF reset_hd, Recalibrate, StartRead, StartWrite, Starting, Ready
  <1>2. 1 \in 1 .. Len(list)  BY <1>1, FirstIsListed
  <1> DEFINE r == list[1]
  <1>3. r \in Entries /\ Id(r) \in Buffers /\ Sector(r) \in Nat
    BY <1>2, EntryFacts
  <1>4. r.nr_sectors \in Nat /\ Half(r) \in Values /\ 0 \in Values
    <2>1. buf[Id(r)] \in Contents  BY <1>3 DEF StepInv, TypeOK
    <2>2. r.nr_sectors \in {1, 2} /\ r.buffer \in {1, 2}
      BY <1>3 DEF Entries
    <2> QED  BY <2>1, <2>2 DEF Half, Contents, HardDiskAssumption
  <1>5. /\ do_hd' \in Handlers /\ reset' \in BOOLEAN /\ recalibrate' \in BOOLEAN
        /\ ctl' \in [cmd : {"none", "specify", "restore", "read", "write"},
                      sector : Nat, left : Nat, data : Values]
    <2>1. CASE reset_hd
      BY <1>4, <2>1 DEF reset_hd, hd_out, Handlers
    <2>2. CASE Recalibrate
      BY <1>4, <2>2 DEF Recalibrate, hd_out, Handlers, StepInv, TypeOK
    <2>3. CASE StartRead
      BY <1>3, <1>4, <2>3 DEF StartRead, hd_out, Handlers, StepInv, TypeOK
    <2>4. CASE StartWrite
      BY <1>3, <1>4, <2>4 DEF StartWrite, hd_out, Handlers, StepInv, TypeOK
    <2> QED  BY <2>1, <2>2, <2>3, <2>4
  <1>6. TypeOK'  BY <1>1, <1>5 DEF StepInv, TypeOK
  <1>7. Listed' /\ OnlyOnce'  BY <1>1 DEF StepInv, Listed, OnlyOnce, Id
  <1>8. InStep'
    <2>1. CASE reset_hd
      BY <1>1, <2>1 DEF reset_hd, hd_out, InStep, HandlerFor
    <2>2. CASE Recalibrate
      BY <1>1, <2>2 DEF Recalibrate, hd_out, InStep, HandlerFor
    <2>3. CASE StartRead
      BY <1>1, <2>3 DEF StartRead, hd_out, InStep, HandlerFor, Ready, Sector
    <2>4. CASE StartWrite
      BY <1>1, <2>4 DEF StartWrite, hd_out, InStep, HandlerFor, Ready, Sector
    <2> QED  BY <2>1, <2>2, <2>3, <2>4
  <1> QED  BY <1>6, <1>7, <1>8 DEF StepInv

(* The list stays well-formed when a request ends or goes on. *)
LEMMA ErrorKeeps ==
    ASSUME HardDiskAssumption, StepInv, list # <<>>, bad_rw_intr
    PROVE  /\ list' \in Seq(Entries) /\ Listed' /\ OnlyOnce'
           /\ buf' \in [Buffers -> Contents] /\ reset' \in BOOLEAN
  <1>1. /\ buf' \in [Buffers -> Contents] /\ reset' \in BOOLEAN
        /\ Ends \/ \E r : GoesOn(r)
    BY ErrorFacts, Zenon
  <1>2. CASE Ends  BY <1>1, <1>2, EndsKeeps
  <1>3. CASE \E r : GoesOn(r)  BY <1>1, <1>3, GoesOnKeeps
  <1> QED  BY <1>1, <1>2, <1>3

(* ... when the wait for DRQ_STAT runs out ... *)
LEMMA WriteTimeoutStep ==
    ASSUME HardDiskAssumption, StepInv, WriteTimeout
    PROVE  StepInv'
  <1>1. /\ list # <<>> /\ bad_rw_intr /\ disk' = disk /\ run
        /\ do_hd' = "write_intr" /\ recalibrate' = recalibrate
        /\ run' = run /\ ctl' = ctl
    BY DEF WriteTimeout, Ready, Starting
  <1>2. /\ list' \in Seq(Entries) /\ Listed' /\ OnlyOnce'
        /\ buf' \in [Buffers -> Contents] /\ reset' \in BOOLEAN
    BY <1>1, ErrorKeeps
  <1>3. TypeOK'  BY <1>1, <1>2 DEF StepInv, TypeOK, Handlers
  <1>4. ctl.cmd = "none"  BY <1>1, IdleWhileRunning
  <1>5. InStep'  BY <1>1, <1>4 DEF InStep
  <1> QED  BY <1>2, <1>3, <1>5 DEF StepInv

(* ... and when the interrupt of a reset or a recalibration comes. *)
LEMMA RecalIntrStep ==
    ASSUME HardDiskAssumption, StepInv, recal_intr
    PROVE  StepInv'
  <1>1. /\ list' = list /\ buf' = buf /\ disk' = disk /\ reset' = reset
        /\ recalibrate' = recalibrate /\ run' = TRUE /\ do_hd' = "none"
        /\ ctl' = Idle
    BY DEF recal_intr
  <1>2. Idle \in [cmd : {"none", "specify", "restore", "read", "write"},
                      sector : Nat, left : Nat, data : Values]
    BY DEF Idle, HardDiskAssumption
  <1>3. TypeOK'  BY <1>1, <1>2 DEF StepInv, TypeOK, Handlers
  <1>4. Listed' /\ OnlyOnce'  BY <1>1 DEF StepInv, Listed, OnlyOnce, Id
  <1>5. InStep'  BY <1>1 DEF InStep, Idle
  <1> QED  BY <1>3, <1>4, <1>5 DEF StepInv

(* What InStep says when an interrupt comes. *)
LEMMA InterruptFacts ==
    ASSUME HardDiskAssumption, StepInv, NEW handler, Interrupt(handler)
    PROVE  /\ list # <<>> /\ ~run /\ 1 \in 1 .. Len(list)
           /\ handler = "read_intr" => ctl.cmd = "read"
           /\ handler = "write_intr" => ctl.cmd = "write"
           /\ ctl.cmd \in {"read", "write"} =>
                 /\ ctl.sector = At(Id(list[1]), list[1].buffer)
                 /\ ctl.sector = Sector(list[1])
                 /\ ctl.sector \in Sectors
                 /\ ctl.left = list[1].nr_sectors
           /\ ctl.cmd = "read" => list[1].cmd = READ
           /\ ctl.cmd = "write" => list[1].cmd = WRITE
           /\ ctl.data \in Values
  <1>1. /\ ctl.cmd # "none" /\ do_hd = handler
        /\ ctl.cmd \in {"none", "specify", "restore", "read", "write"}
        /\ ctl.data \in Values
    BY DEF Interrupt, StepInv, TypeOK
  <1>2. /\ ~run /\ list # <<>> /\ do_hd = HandlerFor[ctl.cmd]
        /\ ctl.cmd \in {"read", "write"} =>
              /\ list[1].cmd = IF ctl.cmd = "read" THEN READ ELSE WRITE
              /\ ctl.sector = Sector(list[1])
              /\ ctl.left = list[1].nr_sectors
    BY <1>1 DEF StepInv, InStep
  <1>3. 1 \in 1 .. Len(list)  BY <1>2, FirstIsListed
  <1>4. /\ Sector(list[1]) = At(Id(list[1]), list[1].buffer)
        /\ Sector(list[1]) \in Sectors
    BY <1>3, EntryFacts
  <1>5. /\ handler = "read_intr" => ctl.cmd = "read"
        /\ handler = "write_intr" => ctl.cmd = "write"
    BY <1>1, <1>2 DEF HandlerFor
  <1> QED  BY <1>1, <1>2, <1>3, <1>4, <1>5

(* The current request has both halves of its buffer before it, or the     *)
(* second one.                                                             *)
LEMMA AdvancedFacts ==
    ASSUME HardDiskAssumption, StepInv, list # <<>>
    PROVE  LET r == list[1]
               a == Advanced(r)
           IN /\ r.nr_sectors > 1 =>
                    /\ r.buffer = 1 /\ r.nr_sectors = 2
                    /\ a \in Entries /\ Id(a) = Id(r) /\ a.cmd = r.cmd
                    /\ a.buffer = 2 /\ a.nr_sectors = 1
                    /\ a.start_sector = 2 * a.block + 1
                    /\ Sector(a) = Sector(r) + 1
              /\ ~(r.nr_sectors > 1) => r.buffer = 2 /\ r.nr_sectors = 1
              /\ r.buffer \in {1, 2}
  <1> DEFINE r == list[1]
             a == Advanced(r)
  <1>1. 1 \in 1 .. Len(list)  BY FirstIsListed
  <1>2. r \in Entries  BY <1>1, EntryFacts
  <1>3. /\ r.nr_sectors = 3 - r.buffer
        /\ r.start_sector = 2 * r.block + r.buffer - 1
    BY <1>1 DEF StepInv, Listed
  <1>4. r.block \in Nat /\ r.dev \in Nat /\ start_sect[r.dev] \in Nat
    <2>1. /\ Id(r) \in Buffers /\ Id(r)[1] = r.dev /\ Id(r)[2] = r.block
      BY <1>1, EntryFacts
    <2>2. r.dev \in Devices  BY <1>2 DEF Entries
    <2> QED  BY <2>1, <2>2 DEF HardDiskAssumption
  <1> HIDE DEF r
  <1>5. r.buffer \in {1, 2} /\ r.nr_sectors \in {1, 2} /\ r.start_sector \in Nat
    BY <1>2 DEF Entries
  <1>6. ~(r.nr_sectors > 1) => r.buffer = 2 /\ r.nr_sectors = 1
    BY <1>3, <1>5
  <1>7. ASSUME r.nr_sectors > 1
        PROVE  /\ r.buffer = 1 /\ r.nr_sectors = 2
               /\ a \in Entries /\ Id(a) = Id(r) /\ a.cmd = r.cmd
               /\ a.buffer = 2 /\ a.nr_sectors = 1
               /\ a.start_sector = 2 * a.block + 1
               /\ Sector(a) = Sector(r) + 1
    <2>1. r.buffer = 1 /\ r.nr_sectors = 2  BY <1>3, <1>5, <1>7
    <2>2. /\ a.buffer = 2 /\ a.nr_sectors = 1 /\ a.cmd = r.cmd
          /\ a.dev = r.dev /\ a.block = r.block
          /\ a.start_sector = r.start_sector + 1
      BY <1>2, <2>1 DEF Advanced, Entries
    <2>3. a \in Entries
      <3>1. /\ r.buffer + 1 \in {1, 2} /\ r.nr_sectors - 1 \in {1, 2}
            /\ r.start_sector + 1 \in Nat
        BY <1>5, <2>1
      <3> QED  BY <1>2, <3>1 DEF Advanced, Entries
    <2> HIDE DEF a
    <2>4. a.start_sector = 2 * a.block + 1  BY <1>3, <1>4, <2>1, <2>2
    <2>5. Sector(a) = Sector(r) + 1  BY <1>4, <1>5, <2>2 DEF Sector
    <2>6. Id(a) = Id(r)  BY <2>2 DEF Id
    <2> QED  BY <2>1, <2>2, <2>3, <2>4, <2>5, <2>6
  <1> QED  BY <1>5, <1>6, <1>7 DEF r

(* The controller goes on to a sector, or is idle. *)
LEMMA NextSectorType ==
    ASSUME HardDiskAssumption, StepInv, NEW d \in Values, NextSector(d)
    PROVE  ctl' \in [cmd : {"none", "specify", "restore", "read", "write"},
                     sector : Nat, left : Nat, data : Values]
  <1>1. ctl \in [cmd : {"none", "specify", "restore", "read", "write"},
                 sector : Nat, left : Nat, data : Values]
    BY DEF StepInv, TypeOK
  <1>2. CASE ctl.left <= 1
    <2>1. ctl' = Idle  BY <1>2 DEF NextSector
    <2> QED  BY <2>1 DEF Idle, HardDiskAssumption
  <1>3. CASE ~(ctl.left <= 1)
    <2>1. ctl' = [ctl EXCEPT !.sector = @ + 1, !.left = @ - 1, !.data = d]
      BY <1>3 DEF NextSector
    <2>2. ctl.sector + 1 \in Nat /\ ctl.left - 1 \in Nat  BY <1>1, <1>3
    <2> QED  BY <1>1, <2>1, <2>2
  <1> QED  BY <1>2, <1>3

(* An interrupt that reports an error keeps StepInv ... *)
LEMMA IntrBadStep ==
    ASSUME HardDiskAssumption, StepInv, NEW handler, rw_intr_bad(handler)
    PROVE  StepInv'
  <1>1. /\ Interrupt(handler) /\ bad_rw_intr /\ run' = TRUE
        /\ do_hd' = "none" /\ ctl' = Idle /\ recalibrate' = recalibrate
        /\ \/ disk' = disk
           \/ disk' = [disk EXCEPT ![ctl.sector] = ctl.data]
    BY DEF rw_intr_bad
  <1>2. list # <<>> /\ ctl.data \in Values  BY <1>1, InterruptFacts
  <1>3. /\ list' \in Seq(Entries) /\ Listed' /\ OnlyOnce'
        /\ buf' \in [Buffers -> Contents] /\ reset' \in BOOLEAN
    BY <1>1, <1>2, ErrorKeeps
  <1>4. disk' \in [Sectors -> Values]
    BY <1>1, <1>2 DEF StepInv, TypeOK
  <1>5. Idle \in [cmd : {"none", "specify", "restore", "read", "write"},
                  sector : Nat, left : Nat, data : Values]
    BY DEF Idle, HardDiskAssumption
  <1>6. TypeOK'  BY <1>1, <1>3, <1>4, <1>5 DEF StepInv, TypeOK, Handlers
  <1>7. InStep'  BY <1>1 DEF InStep, Idle
  <1> QED  BY <1>3, <1>6, <1>7 DEF StepInv

(* A sector that was read is put into its half of the buffer. *)
LEMMA FilledFacts ==
    ASSUME HardDiskAssumption, StepInv, list # <<>>, NEW v \in Values
    PROVE  LET r == list[1]
               b == Id(r)
               bf == [buf EXCEPT ![b].data[r.buffer] = v]
           IN /\ bf \in [Buffers -> Contents]
              /\ \A c \in Buffers : c # b => bf[c] = buf[c]
              /\ bf[b].lock = buf[b].lock /\ bf[b].dirt = buf[b].dirt
              /\ bf[b].data[r.buffer] = v
              /\ \A h \in {1, 2} : h # r.buffer =>
                    bf[b].data[h] = buf[b].data[h]
  <1> DEFINE r == list[1]
             b == Id(r)
             bf == [buf EXCEPT ![b].data[r.buffer] = v]
             d == [buf[b].data EXCEPT ![r.buffer] = v]
             x == [buf[b] EXCEPT !.data = d]
  <1>1. 1 \in 1 .. Len(list)  BY FirstIsListed
  <1>2. b \in Buffers /\ r.buffer \in {1, 2}
    BY <1>1, EntryFacts, AdvancedFacts
  <1>3. buf \in [Buffers -> Contents] /\ buf[b] \in Contents
    BY <1>2 DEF StepInv, TypeOK
  <1>4. buf[b].data \in [{1, 2} -> Values]  BY <1>3 DEF Contents
  <1>5. bf = [buf EXCEPT ![b] = x]  OBVIOUS
  <1> HIDE DEF r, b, bf
  <1>6. /\ d \in [{1, 2} -> Values] /\ d[r.buffer] = v
        /\ \A h \in {1, 2} : h # r.buffer => d[h] = buf[b].data[h]
    BY <1>2, <1>4
  <1> HIDE DEF d
  <1>7. /\ x \in Contents /\ x.lock = buf[b].lock /\ x.dirt = buf[b].dirt
        /\ x.data = d
    BY <1>3, <1>6 DEF Contents
  <1> HIDE DEF x
  <1>8. /\ bf \in [Buffers -> Contents] /\ bf[b] = x
        /\ \A c \in Buffers : c # b => bf[c] = buf[c]
    BY <1>2, <1>3, <1>5, <1>7
  <1> QED  BY <1>6, <1>7, <1>8 DEF r, b, bf

(* ... and so does one that brings a sector ... *)
LEMMA ReadIntrStep ==
    ASSUME HardDiskAssumption, StepInv, read_intr
    PROVE  StepInv'
  <1> DEFINE r == list[1]
             a == Advanced(r)
             n == [a EXCEPT !.errors = 0]
             more == r.nr_sectors > 1
             bf == [buf EXCEPT ![Id(r)].data[r.buffer] = disk[ctl.sector]]
  <1>1. /\ Interrupt("read_intr") /\ NextSector(0)
        /\ list' = IF more THEN [list EXCEPT ![1] = n] ELSE Tail(list)
        /\ buf' = IF more THEN bf ELSE end_request(bf, TRUE)
        /\ do_hd' = IF more THEN "read_intr" ELSE "none"
        /\ run' = ~more
        /\ disk' = disk /\ reset' = reset /\ recalibrate' = recalibrate
    BY DEF read_intr
  <1>2. /\ list # <<>> /\ ctl.cmd = "read" /\ r.cmd = READ
        /\ ctl.sector \in Sectors /\ ctl.sector = Sector(r)
        /\ ctl.left = r.nr_sectors
    BY <1>1, InterruptFacts
  <1>3. disk[ctl.sector] \in Values  BY <1>2 DEF StepInv, TypeOK
  <1>4. /\ bf \in [Buffers -> Contents]
        /\ \A c \in Buffers : c # Id(r) => bf[c] = buf[c]
        /\ bf[Id(r)].lock = buf[Id(r)].lock
    BY <1>2, <1>3, FilledFacts
  <1>5. ctl' \in [cmd : {"none", "specify", "restore", "read", "write"},
                  sector : Nat, left : Nat, data : Values]
    BY <1>1, NextSectorType DEF HardDiskAssumption
  <1> HIDE DEF bf
  <1>6. CASE more
    <2>1. /\ r.nr_sectors = 2 /\ a \in Entries /\ Id(a) = Id(r)
          /\ a.cmd = r.cmd /\ a.buffer = 2 /\ a.nr_sectors = 1
          /\ a.start_sector = 2 * a.block + 1 /\ Sector(a) = Sector(r) + 1
      BY <1>2, <1>6, AdvancedFacts
    <2>2. /\ list' = [list EXCEPT ![1] = n] /\ buf' = bf
          /\ do_hd' = "read_intr" /\ run' = FALSE
      BY <1>1, <1>6
    <2> HIDE DEF a
    <2>3. /\ n \in Entries /\ n.cmd = a.cmd /\ n.dev = a.dev
          /\ n.block = a.block /\ n.buffer = 2 /\ n.nr_sectors = 1
          /\ n.start_sector = a.start_sector
      BY <2>1 DEF Entries, HardDiskAssumption
    <2> HIDE DEF n
    <2>4. /\ Id(n) = Id(r) /\ Sector(n) = Sector(r) + 1
          /\ n.start_sector = 2 * n.block + n.buffer - 1
          /\ n.nr_sectors = 3 - n.buffer
      <3>1. Id(n) = Id(a) /\ Sector(n) = Sector(a)  BY <2>3 DEF Id, Sector
      <3>2. n.block \in Nat
        <4>1. n.block \in Blocks  BY <2>3 DEF Entries
        <4> QED  BY <4>1 DEF Blocks, HardDiskAssumption
      <3>3. n.start_sector = 2 * n.block + n.buffer - 1
            /\ n.nr_sectors = 3 - n.buffer
        BY <2>1, <2>3, <3>2
      <3> QED  BY <2>1, <3>1, <3>3
    <2>5. GoesOn(n)
      BY <1>2, <1>4, <2>1, <2>2, <2>3, <2>4 DEF GoesOn
    <2>6. list' \in Seq(Entries) /\ Listed' /\ OnlyOnce'  BY <2>5, GoesOnKeeps
    <2>7. list'[1] = n /\ list' # <<>>  BY <2>5, GoesOnFacts
    <2>8. TypeOK'
      BY <1>1, <1>4, <1>5, <2>2, <2>6 DEF StepInv, TypeOK, Handlers
    <2>9. /\ ctl'.cmd = "read" /\ ctl'.sector = ctl.sector + 1 /\ ctl'.left = 1
      <3>1. ctl' = [ctl EXCEPT !.sector = @ + 1, !.left = @ - 1, !.data = 0]
        BY <1>1, <1>2, <2>1 DEF NextSector
      <3> QED  BY <1>2, <2>1, <3>1 DEF StepInv, TypeOK
    <2>10. InStep'
      <3>1. Sector(list'[1]) = Sector(r) + 1  BY <2>4, <2>7
      <3> QED  BY <1>2, <2>1, <2>2, <2>3, <2>7, <2>9, <3>1
             DEF InStep, HandlerFor, Sector
    <2> QED  BY <2>6, <2>8, <2>10 DEF StepInv
  <1>7. CASE ~more
    <2>1. /\ list' = Tail(list) /\ buf' = end_request(bf, TRUE)
          /\ do_hd' = "none" /\ run' = TRUE
      BY <1>1, <1>7
    <2>2. /\ buf' \in [Buffers -> Contents]
          /\ \A c \in Buffers : c # Id(r) => buf'[c] = buf[c]
      BY <1>2, <1>4, <2>1, EndRequestFacts
    <2>3. Ends  BY <1>2, <2>1, <2>2 DEF Ends
    <2>4. list' \in Seq(Entries) /\ Listed' /\ OnlyOnce'  BY <2>3, EndsKeeps
    <2>5. TypeOK'
      BY <1>1, <1>5, <2>1, <2>2, <2>4 DEF StepInv, TypeOK, Handlers
    <2>6. ctl' = Idle
      <3>1. ctl.left = 1  BY <1>2, <1>7, AdvancedFacts
      <3> QED  BY <1>1, <3>1 DEF NextSector
    <2>7. InStep'  BY <2>6 DEF InStep, Idle
    <2> QED  BY <2>4, <2>5, <2>7 DEF StepInv
  <1> QED  BY <1>6, <1>7

(* ... and one that asks for the next. *)
LEMMA WriteIntrStep ==
    ASSUME HardDiskAssumption, StepInv, write_intr
    PROVE  StepInv'
  <1> DEFINE r == list[1]
             n == Advanced(r)
             more == r.nr_sectors > 1
             d == IF more THEN Half(n) ELSE 0
  <1>1. /\ Interrupt("write_intr") /\ NextSector(d)
        /\ list' = IF more THEN [list EXCEPT ![1] = n] ELSE Tail(list)
        /\ buf' = IF more THEN buf ELSE end_request(buf, TRUE)
        /\ do_hd' = IF more THEN "write_intr" ELSE "none"
        /\ run' = ~more
        /\ disk' = [disk EXCEPT ![ctl.sector] = ctl.data]
        /\ reset' = reset /\ recalibrate' = recalibrate
    BY DEF write_intr
  <1>2. /\ list # <<>> /\ ctl.cmd = "write" /\ r.cmd = WRITE
        /\ ctl.sector \in Sectors /\ ctl.sector = Sector(r)
        /\ ctl.left = r.nr_sectors /\ ctl.data \in Values
        /\ 1 \in 1 .. Len(list)
    BY <1>1, InterruptFacts
  <1>3. disk' \in [Sectors -> Values]
    <2>1. disk' = [disk EXCEPT ![ctl.sector] = ctl.data]  BY <1>1
    <2> QED  BY <1>2, <2>1 DEF StepInv, TypeOK
  <1>4. buf \in [Buffers -> Contents] /\ Id(r) \in Buffers
    BY <1>2, EntryFacts DEF StepInv, TypeOK
  <1>5. CASE more
    <2>1. /\ r.nr_sectors = 2 /\ n \in Entries /\ Id(n) = Id(r)
          /\ n.cmd = r.cmd /\ n.buffer = 2 /\ n.nr_sectors = 1
          /\ n.start_sector = 2 * n.block + 1 /\ Sector(n) = Sector(r) + 1
      BY <1>2, <1>5, AdvancedFacts
    <2>2. /\ list' = [list EXCEPT ![1] = n] /\ buf' = buf
          /\ do_hd' = "write_intr" /\ run' = FALSE /\ d = Half(n)
      BY <1>1, <1>5
    <2> HIDE DEF n
    <2>3. d \in Values
      <3>1. buf[Id(n)] \in Contents  BY <1>4, <2>1
      <3> QED  BY <2>1, <2>2, <3>1 DEF Half, Contents
    <2>4. /\ n.start_sector = 2 * n.block + n.buffer - 1
          /\ n.nr_sectors = 3 - n.buffer
      <3>1. n.block \in Nat
        <4>1. n.block \in Blocks  BY <2>1 DEF Entries
        <4> QED  BY <4>1 DEF Blocks, HardDiskAssumption
      <3> QED  BY <2>1, <3>1
    <2>5. GoesOn(n)
      BY <1>2, <2>1, <2>2, <2>4 DEF GoesOn
    <2>6. list' \in Seq(Entries) /\ Listed' /\ OnlyOnce'  BY <2>5, GoesOnKeeps
    <2>7. list'[1] = n /\ list' # <<>>  BY <2>5, GoesOnFacts
    <2> HIDE DEF d
    <2>8. ctl' \in [cmd : {"none", "specify", "restore", "read", "write"},
                    sector : Nat, left : Nat, data : Values]
      BY <1>1, <2>3, NextSectorType
    <2>9. TypeOK'
      BY <1>1, <1>3, <1>4, <2>2, <2>6, <2>8 DEF StepInv, TypeOK, Handlers
    <2>10. /\ ctl'.cmd = "write" /\ ctl'.sector = ctl.sector + 1 /\ ctl'.left = 1
      <3>1. ctl' = [ctl EXCEPT !.sector = @ + 1, !.left = @ - 1, !.data = d]
        BY <1>1, <1>2, <2>1 DEF NextSector
      <3> QED  BY <1>2, <2>1, <3>1 DEF StepInv, TypeOK
    <2>11. InStep'
      <3>1. Sector(list'[1]) = Sector(r) + 1  BY <2>1, <2>7
      <3> QED  BY <1>2, <2>1, <2>2, <2>7, <2>10, <3>1
             DEF InStep, HandlerFor, Sector
    <2> QED  BY <2>6, <2>9, <2>11 DEF StepInv
  <1>6. CASE ~more
    <2>1. /\ list' = Tail(list) /\ buf' = end_request(buf, TRUE)
          /\ do_hd' = "none" /\ run' = TRUE /\ d = 0
      BY <1>1, <1>6
    <2>2. /\ buf' \in [Buffers -> Contents]
          /\ \A c \in Buffers : c # Id(r) => buf'[c] = buf[c]
      BY <1>2, <1>4, <2>1, EndRequestFacts
    <2>3. Ends  BY <1>2, <2>1, <2>2 DEF Ends
    <2>4. list' \in Seq(Entries) /\ Listed' /\ OnlyOnce'  BY <2>3, EndsKeeps
    <2>5. ctl' = Idle
      <3>1. ctl.left = 1  BY <1>2, <1>6, AdvancedFacts
      <3> HIDE DEF d
      <3> QED  BY <1>1, <3>1 DEF NextSector
    <2>6. Idle \in [cmd : {"none", "specify", "restore", "read", "write"},
                    sector : Nat, left : Nat, data : Values]
      BY DEF Idle, HardDiskAssumption
    <2>7. TypeOK'
      BY <1>1, <1>3, <2>1, <2>2, <2>4, <2>5, <2>6 DEF StepInv, TypeOK, Handlers
    <2>8. InStep'  BY <2>5 DEF InStep, Idle
    <2> QED  BY <2>4, <2>7, <2>8 DEF StepInv
  <1> QED  BY <1>5, <1>6

-----------------------------------------------------------------------------
(* Every step keeps StepInv. *)
LEMMA StepInvStep ==
    ASSUME HardDiskAssumption, StepInv, [Next]_vars
    PROVE  StepInv'
  <1>1. CASE \E b \in Buffers, v \in Values : Modify(b, v)
    BY <1>1, ModifyStep
  <1>2. CASE \E b \in Buffers, rw \in {READ, WRITE} : make_request(b, rw)
    BY <1>2, MakeStep
  <1>3. CASE do_hd_request
    BY <1>3, NoRequestStep, BadPartitionStep, CommandStep, WriteTimeoutStep
       DEF do_hd_request
  <1>4. CASE hd_interrupt
    BY <1>4, ReadIntrStep, WriteIntrStep, RecalIntrStep, IntrBadStep
       DEF hd_interrupt
  <1>5. CASE UNCHANGED vars
    BY <1>5 DEF vars, StepInv, TypeOK, Listed, OnlyOnce, InStep, Id, Sector
  <1> QED  BY <1>1, <1>2, <1>3, <1>4, <1>5 DEF Next

(* The invariant holds at first. *)
LEMMA InitFacts ==
    ASSUME HardDiskAssumption, Init
    PROVE  IInv
  <1>1. \A b \in Buffers : buf[b].uptodate = FALSE
    BY DEF Init
  <1>2. TypeOK
    <2>1. list \in Seq(Entries)  BY DEF Init
    <2>2. buf \in [Buffers -> Contents]
      BY DEF Init, Contents, HardDiskAssumption
    <2>3. disk \in [Sectors -> Values]  BY DEF Init, HardDiskAssumption
    <2>4. ctl \in [cmd : {"none", "specify", "restore", "read", "write"},
                   sector : Nat, left : Nat, data : Values]
      BY DEF Init, Idle, HardDiskAssumption
    <2> QED  BY <2>1, <2>2, <2>3, <2>4 DEF Init, TypeOK, Handlers
  <1>3. Listed /\ OnlyOnce /\ Moved
    <2>1. Len(list) = 0  BY DEF Init
    <2> QED  BY <2>1 DEF Listed, OnlyOnce, Moved
  <1>4. InStep /\ Sending  BY DEF Init, Idle, InStep, Sending
  <1>5. SameOnDisk  BY <1>1 DEF SameOnDisk
  <1> QED  BY <1>2, <1>3, <1>4, <1>5 DEF IInv, StepInv

(* Driver and controller agree on the request, the sector and the handler  *)
(* through retries, resets and timeouts.  This needs no assumption about   *)
(* where the partitions are.                                               *)
THEOREM StaysInStep == Spec => []InStep
  <1>1. Init => StepInv  BY HardDiskAssumption, InitFacts DEF IInv
  <1>2. StepInv /\ [Next]_vars => StepInv'
    BY HardDiskAssumption, StepInvStep
  <1>3. StepInv => InStep  BY DEF StepInv
  <1> QED  BY <1>1, <1>2, <1>3, PTL DEF Spec

-----------------------------------------------------------------------------
(* The step writes no sector but the next one of the current request. *)
OnlyHere ==
    \A c \in Buffers : \A h \in {1, 2} :
        c # Id(list[1]) \/ h # list[1].buffer =>
            disk'[At(c, h)] = disk[At(c, h)]

(* A sector belongs to one half of one buffer. *)
LEMMA WrittenHere ==
    ASSUME HardDiskAssumption, NoOverlap, StepInv, list # <<>>,
           NEW v \in Values, NEW s, s = At(Id(list[1]), list[1].buffer),
           disk' = [disk EXCEPT ![s] = v]
    PROVE  OnlyHere /\ disk'[s] = v
  <1> DEFINE r == list[1]
             b == Id(r)
  <1>1. 1 \in 1 .. Len(list)  BY FirstIsListed
  <1>2. b \in Buffers /\ s \in Sectors /\ r.buffer \in {1, 2}
    BY <1>1, EntryFacts, AdvancedFacts
  <1>3. disk \in [Sectors -> Values]  BY DEF StepInv, TypeOK
  <1>4. disk'[s] = v  BY <1>2, <1>3
  <1>5. \A t \in Sectors : t # s => disk'[t] = disk[t]  BY <1>2, <1>3
  <1> HIDE DEF r, b
  <1>6. s = At(b, r.buffer)  BY DEF b, r
  <1>7. ASSUME NEW c \in Buffers, NEW h \in {1, 2}, c # b \/ h # r.buffer
        PROVE  disk'[At(c, h)] = disk[At(c, h)]
    <2>1. At(c, h) \in {At(c, 1), At(c, 2)}  OBVIOUS
    <2>2. At(c, h) \in Sectors  BY <2>1 DEF Sectors
    <2>3. At(c, h) # s  BY <1>2, <1>6, <1>7 DEF NoOverlap
    <2> QED  BY <1>5, <2>2, <2>3
  <1> QED  BY <1>4, <1>7 DEF OnlyHere, b, r

(* Both halves of the buffer b are on the disk, unless it was changed. *)
Written(b) == \A h \in {1, 2} :
    buf'[b].dirt \/ buf'[b].data[h] = disk'[At(b, h)]

(* The end of a request keeps the data right, if it failed or all of its  *)
(* buffer is written.                                                    *)
LEMMA EndsData ==
    ASSUME HardDiskAssumption, IInv, Ends, OnlyHere,
           ~buf'[Id(list[1])].uptodate \/ Written(Id(list[1]))
    PROVE  Moved' /\ SameOnDisk'
  <1> DEFINE b == Id(list[1])
  <1>1. StepInv /\ Moved /\ SameOnDisk  BY DEF IInv
  <1>2. /\ list \in Seq(Entries) /\ list # <<>> /\ list' = Tail(list)
        /\ \A c \in Buffers : c # b => buf'[c] = buf[c]
    BY <1>1 DEF StepInv, TypeOK, Ends
  <1>3. /\ Len(list') = Len(list) - 1 /\ Len(list) \in Nat \ {0}
        /\ \A i \in 1 .. Len(list') :
                 i + 1 \in 1 .. Len(list) /\ list'[i] = list[i + 1]
    BY <1>2, TailFacts
  <1>4. \A c \in Buffers : \A h \in {1, 2} :
            c # b => disk'[At(c, h)] = disk[At(c, h)]
    BY DEF OnlyHere
  <1>5. Moved'
    <2> SUFFICES ASSUME NEW i \in 1 .. Len(list'), NEW h \in {1, 2},
                        h < list'[i].buffer
                 PROVE  \/ buf'[Id(list'[i])].dirt
                        \/ buf'[Id(list'[i])].data[h] =
                               disk'[At(Id(list'[i]), h)]
      BY DEF Moved, Id, At
    <2>1. /\ i + 1 \in 1 .. Len(list) /\ list'[i] = list[i + 1]
          /\ 1 \in 1 .. Len(list) /\ i + 1 # 1
      BY <1>3
    <2> DEFINE c == Id(list[i + 1])
    <2>2. c # b /\ c \in Buffers
      BY <1>1, <2>1 DEF StepInv, OnlyOnce, Listed
    <2>3. buf[c].dirt \/ buf[c].data[h] = disk[At(c, h)]
      BY <1>1, <2>1 DEF Moved
    <2>4. buf'[c] = buf[c] /\ disk'[At(c, h)] = disk[At(c, h)]
      BY <1>2, <1>4, <2>2
    <2> QED  BY <2>1, <2>3, <2>4
  <1>6. SameOnDisk'
    <2> SUFFICES ASSUME NEW c \in Buffers, NEW h \in {1, 2},
                        buf'[c].uptodate, ~buf'[c].lock, ~buf'[c].dirt
                 PROVE  buf'[c].data[h] = disk'[At(c, h)]
      BY DEF SameOnDisk, At
    <2>1. CASE c = b  BY <2>1 DEF Written
    <2>2. CASE c # b
      <3>1. buf'[c] = buf[c] /\ disk'[At(c, h)] = disk[At(c, h)]
        BY <1>2, <1>4, <2>2
      <3> QED  BY <1>1, <3>1 DEF SameOnDisk
    <2> QED  BY <2>1, <2>2
  <1> QED  BY <1>5, <1>6

(* So does a request that goes on, if the halves before are written. *)
LEMMA GoesOnData ==
    ASSUME HardDiskAssumption, IInv, NEW r, GoesOn(r), OnlyHere,
           \A c \in Buffers : c # Id(list[1]) => buf'[c] = buf[c],
           \A h \in {1, 2} : h < r.buffer =>
               \/ buf'[Id(r)].dirt
               \/ buf'[Id(r)].data[h] = disk'[At(Id(r), h)]
    PROVE  Moved' /\ SameOnDisk'
  <1> DEFINE b == Id(list[1])
  <1>1. StepInv /\ Moved /\ SameOnDisk  BY DEF IInv
  <1>2. /\ Len(list') = Len(list) /\ Len(list) \in Nat \ {0} /\ list'[1] = r
        /\ \A i \in 1 .. Len(list) : i # 1 => list'[i] = list[i]
    BY <1>1, GoesOnFacts
  <1>3. /\ Id(r) = b /\ \A c \in Buffers : buf'[c].lock = buf[c].lock
    BY DEF GoesOn
  <1>4. \A c \in Buffers : \A h \in {1, 2} :
            c # b => disk'[At(c, h)] = disk[At(c, h)]
    BY DEF OnlyHere
  <1>5. 1 \in 1 .. Len(list)  BY <1>2
  <1>6. b \in Buffers /\ buf[b].lock  BY <1>1, <1>5 DEF StepInv, Listed
  <1>7. Moved'
    <2> SUFFICES ASSUME NEW i \in 1 .. Len(list), NEW h \in {1, 2},
                        h < list'[i].buffer
                 PROVE  \/ buf'[Id(list'[i])].dirt
                        \/ buf'[Id(list'[i])].data[h] =
                               disk'[At(Id(list'[i]), h)]
      BY <1>2 DEF Moved, Id, At
    <2>1. CASE i = 1  BY <1>2, <2>1
    <2>2. CASE i # 1
      <3> DEFINE c == Id(list[i])
      <3>1. c # b /\ c \in Buffers
        BY <1>1, <1>5, <2>2 DEF StepInv, OnlyOnce, Listed
      <3>2. list'[i] = list[i]  BY <1>2, <2>2
      <3>3. buf[c].dirt \/ buf[c].data[h] = disk[At(c, h)]
        BY <1>1, <3>2 DEF Moved
      <3>4. buf'[c] = buf[c] /\ disk'[At(c, h)] = disk[At(c, h)]
        BY <1>4, <3>1
      <3> QED  BY <3>2, <3>3, <3>4
    <2> QED  BY <2>1, <2>2
  <1>8. SameOnDisk'
    <2> SUFFICES ASSUME NEW c \in Buffers, NEW h \in {1, 2},
                        buf'[c].uptodate, ~buf'[c].lock, ~buf'[c].dirt
                 PROVE  buf'[c].data[h] = disk'[At(c, h)]
      BY DEF SameOnDisk, At
    <2>1. c # b  BY <1>3, <1>6
    <2>2. buf'[c] = buf[c] /\ disk'[At(c, h)] = disk[At(c, h)]
      BY <1>4, <2>1
    <2> QED  BY <1>1, <2>2 DEF SameOnDisk
  <1> QED  BY <1>7, <1>8

(* What becomes of the data in each step. *)
DataInv == Moved /\ Sending /\ SameOnDisk

(* A changed buffer is dirty, and nothing is claimed of its halves. *)
LEMMA ModifyData ==
    ASSUME HardDiskAssumption, IInv, NEW b \in Buffers, NEW v \in Values,
           Modify(b, v)
    PROVE  DataInv'
  <1>1. StepInv /\ Moved /\ Sending /\ SameOnDisk  BY DEF IInv
  <1>2. /\ \A c \in Buffers : c # b => buf'[c] = buf[c]
        /\ buf'[b].dirt
    BY <1>1, ModifyFacts
  <1>3. list' = list /\ disk' = disk /\ ctl' = ctl  BY DEF Modify
  <1>4. Moved'
    <2> SUFFICES ASSUME NEW i \in 1 .. Len(list), NEW h \in {1, 2},
                        h < list[i].buffer
                 PROVE  \/ buf'[Id(list[i])].dirt
                        \/ buf'[Id(list[i])].data[h] = disk[At(Id(list[i]), h)]
      BY <1>3 DEF Moved, Id, At
    <2>1. Id(list[i]) \in Buffers  BY <1>1 DEF StepInv, Listed
    <2>2. CASE Id(list[i]) = b  BY <1>2, <2>2
    <2>3. CASE Id(list[i]) # b
      <3>1. buf'[Id(list[i])] = buf[Id(list[i])]  BY <1>2, <2>1, <2>3
      <3> QED  BY <1>1, <3>1 DEF Moved
    <2> QED  BY <2>2, <2>3
  <1>5. Sending'
    <2> SUFFICES ASSUME ctl.cmd = "write"
                 PROVE  \/ buf'[Id(list[1])].dirt
                        \/ ctl.data = buf'[Id(list[1])].data[list[1].buffer]
      BY <1>3 DEF Sending, Half, Id
    <2>1. list # <<>>  BY <1>1 DEF StepInv, InStep
    <2>2. Id(list[1]) \in Buffers  BY <1>1, <2>1, FirstIsListed, EntryFacts
    <2>3. CASE Id(list[1]) = b  BY <1>2, <2>3
    <2>4. CASE Id(list[1]) # b
      <3>1. buf'[Id(list[1])] = buf[Id(list[1])]  BY <1>2, <2>2, <2>4
      <3> QED  BY <1>1, <3>1 DEF Sending, Half
    <2> QED  BY <2>3, <2>4
  <1>6. SameOnDisk'
    <2> SUFFICES ASSUME NEW c \in Buffers, NEW h \in {1, 2},
                        buf'[c].uptodate, ~buf'[c].lock, ~buf'[c].dirt
                 PROVE  buf'[c].data[h] = disk[At(c, h)]
      BY <1>3 DEF SameOnDisk, At
    <2>1. buf'[c] = buf[c]  BY <1>2
    <2> QED  BY <1>1, <2>1 DEF SameOnDisk
  <1> QED  BY <1>4, <1>5, <1>6 DEF DataInv

(* A new request has moved nothing, and its buffer is locked. *)
LEMMA MakeData ==
    ASSUME HardDiskAssumption, IInv, NEW b \in Buffers,
           NEW rw \in {READ, WRITE}, make_request(b, rw)
    PROVE  DataInv'
  <1>1. StepInv /\ Moved /\ Sending /\ SameOnDisk  BY DEF IInv
  <1>2. /\ \A c \in Buffers : c # b => buf'[c] = buf[c]
        /\ buf'[b].lock /\ ~buf[b].lock
    BY <1>1, MakeFacts
  <1>3. disk' = disk /\ ctl' = ctl  BY DEF make_request
  <1> DEFINE r == NewRequest(b, rw)
  <1>4. PICK i \in 0 .. Len(list) : Grows(i, r)  BY <1>1, MakeFacts
  <1>5. /\ list'[i + 1] = r /\ (list # <<>> => list'[1] = list[1])
        /\ \A j \in 1 .. Len(list') : j # i + 1 =>
                 /\ Before(i, j) \in 1 .. Len(list)
                 /\ list'[j] = list[Before(i, j)]
    BY <1>1, <1>4, GrowsFacts
  <1>6. r.buffer = 1  BY DEF NewRequest
  <1> HIDE DEF r
  <1>7. ASSUME NEW ix \in 1 .. Len(list)
        PROVE  Id(list[ix]) \in Buffers /\ buf'[Id(list[ix])] = buf[Id(list[ix])]
    <2>1. Id(list[ix]) \in Buffers /\ buf[Id(list[ix])].lock
      BY <1>1 DEF StepInv, Listed
    <2> QED  BY <1>2, <2>1
  <1>8. Moved'
    <2> SUFFICES ASSUME NEW j \in 1 .. Len(list'), NEW h \in {1, 2},
                        h < list'[j].buffer
                 PROVE  \/ buf'[Id(list'[j])].dirt
                        \/ buf'[Id(list'[j])].data[h] = disk[At(Id(list'[j]), h)]
      BY <1>3 DEF Moved, Id, At
    <2>1. j # i + 1  BY <1>5, <1>6
    <2> DEFINE ix == Before(i, j)
    <2>2. ix \in 1 .. Len(list) /\ list'[j] = list[ix]  BY <1>5, <2>1
    <2> HIDE DEF ix
    <2>3. buf'[Id(list[ix])] = buf[Id(list[ix])]  BY <1>7, <2>2
    <2>4. buf[Id(list[ix])].dirt \/ buf[Id(list[ix])].data[h] = disk[At(Id(list[ix]), h)]
      BY <1>1, <2>2 DEF Moved
    <2> QED  BY <2>2, <2>3, <2>4
  <1>9. Sending'
    <2> SUFFICES ASSUME ctl.cmd = "write"
                 PROVE  \/ buf'[Id(list'[1])].dirt
                        \/ ctl.data = buf'[Id(list'[1])].data[list'[1].buffer]
      BY <1>3 DEF Sending, Half, Id
    <2>1. list # <<>>  BY <1>1 DEF StepInv, InStep
    <2>2. buf'[Id(list[1])] = buf[Id(list[1])]  BY <1>1, <1>7, <2>1, FirstIsListed
    <2>3. list'[1] = list[1]  BY <1>5, <2>1
    <2> QED  BY <1>1, <2>2, <2>3 DEF Sending, Half
  <1>10. SameOnDisk'
    <2> SUFFICES ASSUME NEW c \in Buffers, NEW h \in {1, 2},
                        buf'[c].uptodate, ~buf'[c].lock, ~buf'[c].dirt
                 PROVE  buf'[c].data[h] = disk[At(c, h)]
      BY <1>3 DEF SameOnDisk, At
    <2>1. buf'[c] = buf[c]  BY <1>2
    <2> QED  BY <1>1, <2>1 DEF SameOnDisk
  <1> QED  BY <1>8, <1>9, <1>10 DEF DataInv

(* The steps that move no data. *)
LEMMA CommandData ==
    ASSUME HardDiskAssumption, IInv,
           \/ NoRequest \/ reset_hd \/ Recalibrate \/ StartRead \/ StartWrite
           \/ recal_intr
    PROVE  DataInv'
  <1>1. StepInv /\ Moved /\ Sending /\ SameOnDisk  BY DEF IInv
  <1>2. list' = list /\ buf' = buf /\ disk' = disk
    BY DEF NoRequest, reset_hd, Recalibrate, StartRead, StartWrite, recal_intr
  <1>3. Moved' /\ SameOnDisk'
    BY <1>1, <1>2 DEF Moved, SameOnDisk, Id, At
  <1>4. Sending'
    <2>1. CASE NoRequest
      BY <1>1, <1>2, <2>1 DEF NoRequest, Sending, Half, Id
    <2>2. CASE StartWrite
      BY <1>2, <2>2 DEF StartWrite, hd_out, Sending, Half, Id
    <2>3. CASE reset_hd \/ Recalibrate \/ StartRead \/ recal_intr
      <3>1. ctl'.cmd # "write"
        BY <2>3 DEF reset_hd, Recalibrate, StartRead, recal_intr, hd_out, Idle
      <3> QED  BY <3>1 DEF Sending
    <2> QED  BY <2>1, <2>2, <2>3
  <1> QED  BY <1>3, <1>4 DEF DataInv

(* A refused request leaves its buffer not up to date. *)
LEMMA BadPartitionData ==
    ASSUME HardDiskAssumption, IInv, BadPartition
    PROVE  DataInv'
  <1>1. StepInv  BY DEF IInv
  <1>2. /\ list # <<>> /\ buf' = end_request(buf, FALSE) /\ list' = Tail(list)
        /\ disk' = disk /\ run /\ ctl' = ctl
    BY DEF BadPartition
  <1>3. buf \in [Buffers -> Contents]  BY <1>1 DEF StepInv, TypeOK
  <1>4. /\ \A c \in Buffers : c # Id(list[1]) => buf'[c] = buf[c]
        /\ buf'[Id(list[1])].uptodate = FALSE
    BY <1>1, <1>2, <1>3, EndRequestFacts
  <1>5. Ends  BY <1>2, <1>4 DEF Ends
  <1>6. OnlyHere  BY <1>2 DEF OnlyHere
  <1>7. Moved' /\ SameOnDisk'  BY <1>4, <1>5, <1>6, EndsData
  <1>8. ctl'.cmd = "none"  BY <1>1, <1>2, IdleWhileRunning
  <1>9. Sending'  BY <1>8 DEF Sending
  <1> QED  BY <1>7, <1>9 DEF DataInv

(* An error moves no data, apart from a sector that may have been written. *)
LEMMA ErrorData ==
    ASSUME HardDiskAssumption, IInv, list # <<>>, bad_rw_intr, OnlyHere
    PROVE  Moved' /\ SameOnDisk'
  <1> DEFINE r == list[1]
             n == [r EXCEPT !.errors = @ + 1]
  <1>1. StepInv /\ Moved  BY DEF IInv
  <1>2. \/ Ends /\ ~buf'[Id(r)].uptodate
        \/ GoesOn(n) /\ buf' = buf
    BY <1>1, ErrorFacts
  <1>3. CASE Ends /\ ~buf'[Id(r)].uptodate  BY <1>3, EndsData
  <1>4. CASE GoesOn(n) /\ buf' = buf
    <2>1. 1 \in 1 .. Len(list)  BY <1>1, FirstIsListed
    <2>2. r \in Entries /\ Id(r) \in Buffers  BY <1>1, <2>1, EntryFacts
    <2>3. n.buffer = r.buffer /\ n.buffer \in {1, 2}  BY <2>2 DEF Entries
    <2>4. Id(n) = Id(r)  BY <1>4 DEF GoesOn
    <2> HIDE DEF n
    <2>5. ASSUME NEW h \in {1, 2}, h < n.buffer
          PROVE  \/ buf'[Id(n)].dirt
                 \/ buf'[Id(n)].data[h] = disk'[At(Id(n), h)]
      <3>1. buf[Id(r)].dirt \/ buf[Id(r)].data[h] = disk[At(Id(r), h)]
        BY <1>1, <2>1, <2>3, <2>5 DEF Moved
      <3>2. disk'[At(Id(r), h)] = disk[At(Id(r), h)]
        <4>1. h # r.buffer  BY <2>3, <2>5
        <4> QED  BY <2>2, <4>1 DEF OnlyHere
      <3> QED  BY <1>4, <2>4, <3>1, <3>2
    <2> QED  BY <1>4, <2>5, GoesOnData
  <1> QED  BY <1>2, <1>3, <1>4

(* A write that timed out has moved nothing. *)
LEMMA WriteTimeoutData ==
    ASSUME HardDiskAssumption, IInv, WriteTimeout
    PROVE  DataInv'
  <1>1. StepInv  BY DEF IInv
  <1>2. list # <<>> /\ bad_rw_intr /\ disk' = disk /\ run /\ ctl' = ctl
    BY DEF WriteTimeout, Ready, Starting
  <1>3. OnlyHere  BY <1>2 DEF OnlyHere
  <1>4. Moved' /\ SameOnDisk'  BY <1>2, <1>3, ErrorData
  <1>5. ctl'.cmd = "none"  BY <1>1, <1>2, IdleWhileRunning
  <1>6. Sending'  BY <1>5 DEF Sending
  <1> QED  BY <1>4, <1>6 DEF DataInv

(* An error may come before or after its sector reached the disk. *)
LEMMA IntrBadData ==
    ASSUME HardDiskAssumption, NoOverlap, IInv, NEW handler, rw_intr_bad(handler)
    PROVE  DataInv'
  <1>1. StepInv  BY DEF IInv
  <1>2. /\ Interrupt(handler) /\ bad_rw_intr /\ ctl' = Idle
        /\ \/ disk' = disk
           \/ ctl.cmd = "write" /\ disk' = [disk EXCEPT ![ctl.sector] = ctl.data]
    BY DEF rw_intr_bad
  <1>3. /\ list # <<>> /\ ctl.data \in Values
        /\ ctl.cmd = "write" => ctl.sector = At(Id(list[1]), list[1].buffer)
    BY <1>1, <1>2, InterruptFacts
  <1>4. OnlyHere
    <2>1. CASE disk' = disk  BY <2>1 DEF OnlyHere
    <2>2. CASE /\ ctl.cmd = "write"
               /\ disk' = [disk EXCEPT ![ctl.sector] = ctl.data]
      BY <1>1, <1>3, <2>2, WrittenHere
    <2> QED  BY <1>2, <2>1, <2>2
  <1>5. Moved' /\ SameOnDisk'  BY <1>2, <1>3, <1>4, ErrorData
  <1>6. Sending'  BY <1>2 DEF Sending, Idle
  <1> QED  BY <1>5, <1>6 DEF DataInv

(* A sector that was read is the same in memory as on the disk. *)
LEMMA ReadIntrData ==
    ASSUME HardDiskAssumption, IInv, read_intr
    PROVE  DataInv'
  <1> DEFINE r == list[1]
             b == Id(r)
             a == Advanced(r)
             n == [a EXCEPT !.errors = 0]
             more == r.nr_sectors > 1
             bf == [buf EXCEPT ![Id(r)].data[r.buffer] = disk[ctl.sector]]
  <1>0. StepInv /\ Moved  BY DEF IInv
  <1>1. /\ Interrupt("read_intr") /\ NextSector(0)
        /\ list' = IF more THEN [list EXCEPT ![1] = n] ELSE Tail(list)
        /\ buf' = IF more THEN bf ELSE end_request(bf, TRUE)
        /\ disk' = disk
    BY DEF read_intr
  <1>2. /\ list # <<>> /\ ctl.cmd = "read" /\ 1 \in 1 .. Len(list)
        /\ ctl.sector \in Sectors /\ ctl.sector = At(b, r.buffer)
    BY <1>0, <1>1, InterruptFacts
  <1>3. disk[ctl.sector] \in Values  BY <1>0, <1>2 DEF StepInv, TypeOK
  <1>4. /\ bf \in [Buffers -> Contents]
        /\ \A c \in Buffers : c # b => bf[c] = buf[c]
        /\ bf[b].lock = buf[b].lock /\ bf[b].dirt = buf[b].dirt
        /\ bf[b].data[r.buffer] = disk[ctl.sector]
        /\ \A h \in {1, 2} : h # r.buffer => bf[b].data[h] = buf[b].data[h]
    BY <1>0, <1>2, <1>3, FilledFacts
  <1>5. OnlyHere  BY <1>1 DEF OnlyHere
  <1> HIDE DEF bf
  <1>6. Sending'
    <2>1. ctl' = Idle \/ ctl'.cmd = ctl.cmd
      BY <1>0, <1>1 DEF NextSector, StepInv, TypeOK
    <2> QED  BY <1>2, <2>1 DEF Sending, Idle
  <1>7. CASE more
    <2>1. /\ r.buffer = 1 /\ a \in Entries /\ Id(a) = b
          /\ a.cmd = r.cmd /\ a.buffer = 2 /\ a.nr_sectors = 1
          /\ a.start_sector = 2 * a.block + 1
      BY <1>0, <1>2, <1>7, AdvancedFacts
    <2>2. list' = [list EXCEPT ![1] = n] /\ buf' = bf
      BY <1>1, <1>7
    <2> HIDE DEF a
    <2>3. /\ n \in Entries /\ n.cmd = a.cmd /\ n.dev = a.dev
          /\ n.block = a.block /\ n.buffer = 2 /\ n.nr_sectors = 1
          /\ n.start_sector = a.start_sector
      BY <2>1 DEF Entries, HardDiskAssumption
    <2> HIDE DEF n
    <2>4. /\ Id(n) = b
          /\ n.start_sector = 2 * n.block + n.buffer - 1
          /\ n.nr_sectors = 3 - n.buffer
      <3>1. n.block \in Nat
        <4>1. n.block \in Blocks  BY <2>3 DEF Entries
        <4> QED  BY <4>1 DEF Blocks, HardDiskAssumption
      <3>2. Id(n) = Id(a)  BY <2>3 DEF Id
      <3> QED  BY <2>1, <2>3, <3>1, <3>2
    <2>5. GoesOn(n)
      BY <1>2, <1>4, <2>1, <2>2, <2>3, <2>4 DEF GoesOn
    <2>6. ASSUME NEW h \in {1, 2}, h < n.buffer
          PROVE  \/ buf'[Id(n)].dirt
                 \/ buf'[Id(n)].data[h] = disk'[At(Id(n), h)]
      <3>1. h = r.buffer  BY <2>1, <2>3, <2>6
      <3> QED  BY <1>1, <1>2, <1>4, <2>2, <2>4, <3>1
    <2>7. \A c \in Buffers : c # b => buf'[c] = buf[c]  BY <1>4, <2>2
    <2>8. Moved' /\ SameOnDisk'  BY <1>5, <2>5, <2>6, <2>7, GoesOnData
    <2> QED  BY <1>6, <2>8 DEF DataInv
  <1>8. CASE ~more
    <2>1. list' = Tail(list) /\ buf' = end_request(bf, TRUE)
      BY <1>1, <1>8
    <2>2. /\ \A c \in Buffers : c # b => buf'[c] = buf[c]
          /\ buf'[b].dirt = bf[b].dirt /\ buf'[b].data = bf[b].data
      <3>1. bf \in [Buffers -> Contents]  BY <1>4
      <3>2. LET e == end_request(bf, TRUE)
            IN /\ \A c \in Buffers : c # b => e[c] = bf[c]
               /\ e[b].dirt = bf[b].dirt /\ e[b].data = bf[b].data
        BY <1>0, <1>2, <3>1, EndRequestFacts
      <3>3. buf' = end_request(bf, TRUE)  BY <2>1
      <3>4. \A c \in Buffers : c # b => bf[c] = buf[c]  BY <1>4
      <3> QED  BY <3>2, <3>3, <3>4
    <2>3. Ends  BY <1>2, <2>1, <2>2 DEF Ends
    <2>4. r.buffer = 2  BY <1>0, <1>2, <1>8, AdvancedFacts
    <2>5. Written(b)
      <3> SUFFICES ASSUME NEW h \in {1, 2}
                   PROVE  buf'[b].dirt \/ buf'[b].data[h] = disk'[At(b, h)]
        BY DEF Written
      <3>1. CASE h = 2  BY <1>1, <1>2, <1>4, <2>2, <2>4, <3>1
      <3>2. CASE h = 1
        <4>1. buf[b].dirt \/ buf[b].data[h] = disk[At(b, h)]
          BY <1>0, <1>2, <2>4, <3>2 DEF Moved
        <4>2. bf[b].data[h] = buf[b].data[h]  BY <1>4, <2>4, <3>2
        <4> QED  BY <1>1, <1>4, <2>2, <4>1, <4>2
      <3> QED  BY <3>1, <3>2
    <2>6. Moved' /\ SameOnDisk'  BY <1>5, <2>3, <2>5, EndsData
    <2> QED  BY <1>6, <2>6 DEF DataInv
  <1> QED  BY <1>7, <1>8

(* A sector that was written is, unless the buffer was changed meanwhile. *)
LEMMA WriteIntrData ==
    ASSUME HardDiskAssumption, NoOverlap, IInv, write_intr
    PROVE  DataInv'
  <1> DEFINE r == list[1]
             b == Id(r)
             n == Advanced(r)
             more == r.nr_sectors > 1
             d == IF more THEN Half(n) ELSE 0
  <1>0. StepInv /\ Moved /\ Sending  BY DEF IInv
  <1>1. /\ Interrupt("write_intr") /\ NextSector(d)
        /\ list' = IF more THEN [list EXCEPT ![1] = n] ELSE Tail(list)
        /\ buf' = IF more THEN buf ELSE end_request(buf, TRUE)
        /\ disk' = [disk EXCEPT ![ctl.sector] = ctl.data]
    BY DEF write_intr
  <1>2. /\ list # <<>> /\ ctl.cmd = "write" /\ 1 \in 1 .. Len(list)
        /\ ctl.sector = At(b, r.buffer) /\ ctl.data \in Values
        /\ ctl.left = r.nr_sectors
    BY <1>0, <1>1, InterruptFacts
  <1>3. OnlyHere /\ disk'[At(b, r.buffer)] = ctl.data
    <2>1. disk' = [disk EXCEPT ![ctl.sector] = ctl.data]  BY <1>1
    <2> QED  BY <1>0, <1>2, <2>1, WrittenHere
  <1>4. buf[b].dirt \/ buf[b].data[r.buffer] = disk'[At(b, r.buffer)]
    BY <1>0, <1>2, <1>3 DEF Sending, Half
  <1>5. buf \in [Buffers -> Contents] /\ b \in Buffers
    BY <1>0, <1>2, EntryFacts DEF StepInv, TypeOK
  <1>6. CASE more
    <2>1. /\ r.buffer = 1 /\ r.nr_sectors = 2 /\ n \in Entries /\ Id(n) = b
          /\ n.cmd = r.cmd /\ n.buffer = 2 /\ n.nr_sectors = 1
          /\ n.start_sector = 2 * n.block + 1
      BY <1>0, <1>2, <1>6, AdvancedFacts
    <2>2. list' = [list EXCEPT ![1] = n] /\ buf' = buf /\ d = Half(n)
      BY <1>1, <1>6
    <2> HIDE DEF n
    <2>3. /\ n.start_sector = 2 * n.block + n.buffer - 1
          /\ n.nr_sectors = 3 - n.buffer
      <3>1. n.block \in Nat
        <4>1. n.block \in Blocks  BY <2>1 DEF Entries
        <4> QED  BY <4>1 DEF Blocks, HardDiskAssumption
      <3> QED  BY <2>1, <3>1
    <2>4. GoesOn(n)  BY <1>2, <2>1, <2>2, <2>3 DEF GoesOn
    <2>5. ASSUME NEW h \in {1, 2}, h < n.buffer
          PROVE  \/ buf'[Id(n)].dirt
                 \/ buf'[Id(n)].data[h] = disk'[At(Id(n), h)]
      <3>1. h = r.buffer  BY <2>1, <2>5
      <3> QED  BY <1>4, <2>1, <2>2, <3>1
    <2>6. \A c \in Buffers : c # b => buf'[c] = buf[c]  BY <2>2
    <2>7. Moved' /\ SameOnDisk'  BY <1>3, <2>4, <2>5, <2>6, GoesOnData
    <2>8. list'[1] = n  BY <1>0, <2>4, GoesOnFacts
    <2>9. ctl'.data = Half(n)
      <3> HIDE DEF d
      <3>1. ctl' = [ctl EXCEPT !.sector = @ + 1, !.left = @ - 1, !.data = d]
        BY <1>1, <1>2, <2>1 DEF NextSector
      <3> QED  BY <1>0, <2>2, <3>1 DEF StepInv, TypeOK
    <2>10. Sending'
      BY <2>2, <2>8, <2>9 DEF Sending, Half, Id
    <2> QED  BY <2>7, <2>10 DEF DataInv
  <1>7. CASE ~more
    <2>1. list' = Tail(list) /\ buf' = end_request(buf, TRUE)
      BY <1>1, <1>7
    <2>2. /\ \A c \in Buffers : c # b => buf'[c] = buf[c]
          /\ buf'[b].dirt = buf[b].dirt /\ buf'[b].data = buf[b].data
      BY <1>0, <1>2, <1>5, <2>1, EndRequestFacts
    <2>3. Ends  BY <1>2, <2>1, <2>2 DEF Ends
    <2>4. r.buffer = 2 /\ r.nr_sectors = 1
      BY <1>0, <1>2, <1>7, AdvancedFacts
    <2>5. Written(b)
      <3> SUFFICES ASSUME NEW h \in {1, 2}
                   PROVE  buf'[b].dirt \/ buf'[b].data[h] = disk'[At(b, h)]
        BY DEF Written
      <3>1. CASE h = 2  BY <1>4, <2>2, <2>4, <3>1
      <3>2. CASE h = 1
        <4>1. buf[b].dirt \/ buf[b].data[h] = disk[At(b, h)]
          BY <1>0, <1>2, <2>4, <3>2 DEF Moved
        <4>2. disk'[At(b, h)] = disk[At(b, h)]
          BY <1>3, <1>5, <2>4, <3>2 DEF OnlyHere
        <4> QED  BY <2>2, <4>1, <4>2
      <3> QED  BY <3>1, <3>2
    <2>6. Moved' /\ SameOnDisk'  BY <1>3, <2>3, <2>5, EndsData
    <2>7. ctl' = Idle
      <3> HIDE DEF d
      <3> QED  BY <1>1, <1>2, <2>4 DEF NextSector
    <2>8. Sending'  BY <2>7 DEF Sending, Idle
    <2> QED  BY <2>6, <2>8 DEF DataInv
  <1> QED  BY <1>6, <1>7

(* Every step keeps the inductive invariant. *)
LEMMA IInvStep ==
    ASSUME HardDiskAssumption, NoOverlap, IInv, [Next]_vars
    PROVE  IInv'
  <1>1. StepInv'  BY StepInvStep DEF IInv
  <1>2. DataInv'
    <2>1. CASE \E b \in Buffers, v \in Values : Modify(b, v)
      BY <2>1, ModifyData
    <2>2. CASE \E b \in Buffers, rw \in {READ, WRITE} : make_request(b, rw)
      BY <2>2, MakeData
    <2>3. CASE do_hd_request
      BY <2>3, CommandData, BadPartitionData, WriteTimeoutData DEF do_hd_request
    <2>4. CASE hd_interrupt
      BY <2>4, ReadIntrData, WriteIntrData, CommandData, IntrBadData
         DEF hd_interrupt
    <2>5. CASE UNCHANGED vars
      BY <2>5 DEF vars, IInv, DataInv, Moved, Sending, SameOnDisk, Half, Id, At
    <2> QED  BY <2>1, <2>2, <2>3, <2>4, <2>5 DEF Next
  <1> QED  BY <1>1, <1>2 DEF IInv, DataInv

(* The inductive invariant: a listed request is for a locked buffer of its *)
(* own, driver and controller are in step, the half that was transferred   *)
(* is on the disk, and the controller holds the half that is next.         *)
THEOREM Invariance == Spec => []IInv
  <1>1. Init => IInv  BY HardDiskAssumption, InitFacts
  <1>2. IInv /\ [Next]_vars => IInv'
    BY HardDiskAssumption, NoOverlap, IInvStep
  <1> QED  BY <1>1, <1>2, PTL DEF Spec

(* An unlocked, clean buffer marked b_uptodate holds what is on the disk,  *)
(* whatever errors, resets and changes came in the middle of its transfer. *)
THEOREM MemoryAndDiskAgree == Spec => []SameOnDisk
  <1>1. IInv => SameOnDisk  BY DEF IInv
  <1> QED  BY <1>1, Invariance, PTL

-----------------------------------------------------------------------------
(* The elevator sees of a request its command, device and block. *)
Short(r) == [cmd |-> r.cmd, dev |-> r.dev, block |-> r.block]

(* Two sequences with the same elements are equal. *)
LEMMA SameSeq ==
    ASSUME NEW S, NEW p \in Seq(S), NEW q \in Seq(S), Len(p) = Len(q),
           \A i \in 1 .. Len(p) : p[i] = q[i]
    PROVE  p = q
  OBVIOUS

(* The elevator's view of a list of requests. *)
LEMMA AbstractFacts ==
    ASSUME NEW l \in Seq(Entries)
    PROVE  /\ Abstract(l) \in Seq(Queue!Requests)
           /\ Len(Abstract(l)) = Len(l) /\ Len(l) \in Nat
           /\ \A i \in 1 .. Len(l) : Abstract(l)[i] = Short(l[i])
           /\ (Abstract(l) = <<>>) <=> (l = <<>>)
  <1> DEFINE A == Abstract(l)
  <1>1. \A i \in 1 .. Len(l) : A[i] = Short(l[i])  BY DEF Abstract, Short
  <1>2. \A r \in Entries : Short(r) \in Queue!Requests
    BY DEF Entries, Short, Queue!Requests, READ, WRITE, Elevator!READ,
           Elevator!WRITE, Queue!READ, Queue!WRITE
  <1>3. A = [i \in 1 .. Len(l) |-> Short(l[i])]  BY DEF Abstract, Short
  <1>4. A \in [1 .. Len(l) -> Queue!Requests]
    <2>1. \A i \in 1 .. Len(l) : Short(l[i]) \in Queue!Requests  BY <1>2
    <2> QED  BY <1>3, <2>1
  <1> HIDE DEF A
  <1>5. A \in Seq(Queue!Requests) /\ Len(A) = Len(l)  BY <1>4
  <1>6. (A = <<>>) <=> (l = <<>>)  BY <1>5
  <1> QED  BY <1>1, <1>5, <1>6 DEF A

(* IN_ORDER looks at nothing else of a request ... *)
LEMMA OrderSame ==
    ASSUME NEW x, NEW y
    PROVE  Elevator!IN_ORDER(x, y) <=> Queue!IN_ORDER(Short(x), Short(y))
  BY DEF Elevator!IN_ORDER, Queue!IN_ORDER, Short

(* ... so that add_request finds the same place ... *)
LEMMA PointSame ==
    ASSUME NEW l \in Seq(Entries), NEW r, NEW i \in 1 .. Len(l),
           Elevator!InsertPoint(l, r, i)
    PROVE  Queue!InsertPoint(Abstract(l), Short(r), i)
  <1> DEFINE A == Abstract(l)
             m == Len(l)
  <1>1. /\ Len(A) = m /\ m \in Nat
        /\ \A j \in 1 .. m : A[j] = Short(l[j])
    BY AbstractFacts
  <1>2. /\ Elevator!Fits(l, i, r) \/ i = m
        /\ \A j \in 1 .. i - 1 : ~Elevator!Fits(l, j, r)
    BY DEF Elevator!InsertPoint
  <1> HIDE DEF A, m
  <1>3. ASSUME NEW j \in 1 .. m
        PROVE  Elevator!Fits(l, j, r) <=> Queue!Fits(A, j, Short(r))
    <2>1. CASE j < m
      <3>1. A[j] = Short(l[j]) /\ A[j + 1] = Short(l[j + 1])
        BY <1>1, <2>1
      <3>2. /\ Elevator!IN_ORDER(l[j], r) <=> Queue!IN_ORDER(A[j], Short(r))
            /\ Elevator!IN_ORDER(l[j], l[j+1]) <=> Queue!IN_ORDER(A[j], A[j+1])
            /\ Elevator!IN_ORDER(r, l[j+1]) <=> Queue!IN_ORDER(Short(r), A[j+1])
        BY <3>1, OrderSame
      <3> QED  BY <1>1, <2>1, <3>2, Zenon DEF Elevator!Fits, Queue!Fits, m
    <2>2. CASE ~(j < m)
      BY <1>1, <2>2, Zenon DEF Elevator!Fits, Queue!Fits, m
    <2> QED  BY <2>1, <2>2
  <1>4. i \in 1 .. m  BY DEF m
  <1>5. Queue!Fits(A, i, Short(r)) \/ i = m  BY <1>2, <1>3, <1>4
  <1>6. ASSUME NEW j \in 1 .. i - 1 PROVE ~Queue!Fits(A, j, Short(r))
    <2>1. j \in 1 .. m  BY <1>1, <1>4
    <2> QED  BY <1>2, <1>3, <2>1
  <1> QED  BY <1>1, <1>4, <1>5, <1>6, Zenon DEF Queue!InsertPoint, A

(* ... and puts the same request there. *)
LEMMA InsertSame ==
    ASSUME NEW l \in Seq(Entries), NEW r \in Entries, NEW i \in 1 .. Len(l)
    PROVE  Abstract(Elevator!InsertAfter(l, i, r)) =
               Queue!InsertAfter(Abstract(l), i, Short(r))
  <1> DEFINE A == Abstract(l)
             m == Len(l)
             p == Elevator!InsertAfter(l, i, r)
             q == Queue!InsertAfter(A, i, Short(r))
  <1>1. Len(A) = m /\ m \in Nat /\ \A j \in 1 .. m : A[j] = Short(l[j])
    BY AbstractFacts
  <1>2. p = [j \in 1 .. m + 1 |-> IF j <= i THEN l[j]
                                  ELSE IF j = i + 1 THEN r ELSE l[j-1]]
    BY DEF Elevator!InsertAfter
  <1>3. q = [j \in 1 .. m + 1 |-> IF j <= i THEN A[j]
                                  ELSE IF j = i + 1 THEN Short(r) ELSE A[j-1]]
    BY <1>1 DEF Queue!InsertAfter
  <1>4. \A j \in 1 .. m : l[j] \in Entries  OBVIOUS
  <1>5. i \in 1 .. m  OBVIOUS
  <1> HIDE DEF A, m, p, q
  <1>6. p \in [1 .. m + 1 -> Entries]  BY <1>1, <1>2, <1>4, <1>5
  <1>7. p \in Seq(Entries) /\ Len(p) = m + 1  BY <1>1, <1>6
  <1>8. Abstract(p) = [j \in 1 .. m + 1 |-> Short(p[j])]
    BY <1>7 DEF Abstract, Short
  <1>9. ASSUME NEW j \in 1 .. m + 1 PROVE Short(p[j]) = q[j]
    <2>1. CASE j <= i
      BY <1>1, <1>2, <1>3, <1>5, <2>1
    <2>2. CASE j = i + 1
      BY <1>1, <1>2, <1>3, <1>5, <2>2
    <2>3. CASE ~(j <= i) /\ j # i + 1
      <3>1. j - 1 \in 1 .. m  BY <1>1, <1>5, <2>3
      <3>2. p[j] = l[j-1] /\ q[j] = A[j-1]  BY <1>2, <1>3, <2>3
      <3> QED  BY <1>1, <3>1, <3>2
    <2> QED  BY <2>1, <2>2, <2>3
  <1> QED
    <2>1. q = [j \in 1 .. m + 1 |-> q[j]]  BY <1>3
    <2>2. Abstract(p) = q  BY <1>8, <1>9, <2>1
    <2> QED  BY <2>2 DEF p, q, A

(* The end of the current request is the elevator's. *)
LEMMA TailAbstract ==
    ASSUME StepInv, list # <<>>, list' = Tail(list)
    PROVE  Queue!end_request
  <1>1. list \in Seq(Entries) /\ list # <<>> /\ list' = Tail(list)
    BY DEF StepInv, TypeOK
  <1>2. /\ list' \in Seq(Entries) /\ Len(list') = Len(list) - 1
        /\ \A i \in 1 .. Len(list') :
                 i + 1 \in 1 .. Len(list) /\ list'[i] = list[i + 1]
    BY <1>1, TailFacts
  <1> DEFINE A == Abstract(list)
             B == Abstract(list')
  <1>3. /\ A \in Seq(Queue!Requests) /\ Len(A) = Len(list) /\ A # <<>>
        /\ \A i \in 1 .. Len(list) : A[i] = Short(list[i])
    BY <1>1, AbstractFacts
  <1>4. /\ B \in Seq(Queue!Requests) /\ Len(B) = Len(list')
        /\ \A i \in 1 .. Len(list') : B[i] = Short(list'[i])
    BY <1>2, AbstractFacts
  <1> HIDE DEF A, B
  <1>5. /\ Tail(A) \in Seq(Queue!Requests) /\ Len(Tail(A)) = Len(A) - 1
        /\ \A i \in 1 .. Len(Tail(A)) : Tail(A)[i] = A[i + 1]
    BY <1>3, TailFacts
  <1>6. Len(B) = Len(Tail(A))  BY <1>2, <1>3, <1>4, <1>5
  <1>7. \A i \in 1 .. Len(B) : B[i] = Tail(A)[i]
    BY <1>2, <1>3, <1>4, <1>5, <1>6
  <1>8. B = Tail(A)  BY <1>4, <1>5, <1>6, <1>7, SameSeq
  <1> QED  BY <1>3, <1>8 DEF Queue!end_request, A, B

(* A request that goes on is the same to the elevator. *)
LEMMA FirstAbstract ==
    ASSUME StepInv, list # <<>>, NEW r \in Entries, Id(r) = Id(list[1]),
           r.cmd = list[1].cmd, list' = [list EXCEPT ![1] = r]
    PROVE  Abstract(list') = Abstract(list)
  <1>1. list \in Seq(Entries)  BY DEF StepInv, TypeOK
  <1>2. /\ list' \in Seq(Entries) /\ Len(list') = Len(list) /\ list'[1] = r
        /\ \A i \in 1 .. Len(list) : i # 1 => list'[i] = list[i]
    BY <1>1, FirstFacts
  <1>3. Short(r) = Short(list[1])  BY <1>1 DEF Short, Id
  <1>4. \A i \in 1 .. Len(list) : Short(list'[i]) = Short(list[i])
    BY <1>2, <1>3
  <1> DEFINE A == Abstract(list)
             B == Abstract(list')
  <1>5. /\ A \in Seq(Queue!Requests) /\ Len(A) = Len(list)
        /\ \A i \in 1 .. Len(list) : A[i] = Short(list[i])
    BY <1>1, AbstractFacts
  <1>6. /\ B \in Seq(Queue!Requests) /\ Len(B) = Len(list')
        /\ \A i \in 1 .. Len(list') : B[i] = Short(list'[i])
    BY <1>2, AbstractFacts
  <1> HIDE DEF A, B
  <1>7. \A i \in 1 .. Len(B) : B[i] = A[i]  BY <1>2, <1>4, <1>5, <1>6
  <1>8. B = A  BY <1>2, <1>5, <1>6, <1>7, SameSeq
  <1> QED  BY <1>8 DEF A, B

(* An error ends the current request or changes nothing for the elevator. *)
LEMMA ErrorAbstract ==
    ASSUME HardDiskAssumption, StepInv, list # <<>>, bad_rw_intr
    PROVE  Queue!end_request \/ Abstract(list') = Abstract(list)
  <1>1. Ends \/ \E r : GoesOn(r)  BY ErrorFacts, Zenon
  <1>2. CASE Ends  BY <1>2, TailAbstract DEF Ends
  <1>3. CASE \E r : GoesOn(r)  BY <1>3, FirstAbstract DEF GoesOn
  <1> QED  BY <1>1, <1>2, <1>3

(* make_request is the elevator's add_request. *)
LEMMA MakeAbstract ==
    ASSUME HardDiskAssumption, StepInv, NEW b \in Buffers,
           NEW rw \in {READ, WRITE}, make_request(b, rw)
    PROVE  \E r \in Queue!Requests : Queue!add_request(r)
  <1> DEFINE r == NewRequest(b, rw)
             s == Short(r)
             A == Abstract(list)
  <1>1. /\ ~buf[b].lock /\ Len(list) < NR_REQUEST
        /\ \/ list = <<>> /\ list' = <<r>>
           \/ \E i \in 1 .. Len(list) :
                 /\ Elevator!InsertPoint(list, r, i)
                 /\ list' = Elevator!InsertAfter(list, i, r)
    BY DEF make_request, NewRequest
  <1>2. list \in Seq(Entries)  BY DEF StepInv, TypeOK
  <1>3. r \in Entries
    <2>1. PICK i \in 0 .. Len(list) : Grows(i, r)  BY MakeFacts
    <2>2. list' \in Seq(Entries)  BY <2>1 DEF Grows
    <2>3. i + 1 \in 1 .. Len(list') /\ list'[i + 1] = r  BY <2>1, GrowsFacts
    <2> HIDE DEF r
    <2> QED  BY <2>2, <2>3
  <1>4. r.dev = b[1] /\ r.block = b[2]  BY DEF NewRequest
  <1> HIDE DEF r
  <1>5. s \in Queue!Requests
    BY <1>3 DEF Entries, Short, Queue!Requests, READ, WRITE, Elevator!READ,
                Elevator!WRITE, Queue!READ, Queue!WRITE
  <1>6. s.dev = b[1] /\ s.block = b[2]  BY <1>4 DEF Short
  <1>7. /\ A \in Seq(Queue!Requests) /\ Len(A) = Len(list)
        /\ \A i \in 1 .. Len(list) : A[i] = Short(list[i])
        /\ (A = <<>>) <=> (list = <<>>)
    BY <1>2, AbstractFacts
  <1>8. ~Queue!Listed(s)
    <2> SUFFICES ASSUME NEW i \in 1 .. Len(list),
                        A[i].dev = s.dev, A[i].block = s.block
                 PROVE  FALSE
      BY <1>7 DEF Queue!Listed
    <2>1. list[i].dev = b[1] /\ list[i].block = b[2]
      <3>1. Short(list[i]).dev = b[1] /\ Short(list[i]).block = b[2]
        BY <1>6, <1>7
      <3> QED  BY <3>1 DEF Short
    <2>2. b = <<b[1], b[2]>>  BY DEF HardDiskAssumption
    <2>3. Id(list[i]) = b  BY <2>1, <2>2 DEF Id
    <2> QED  BY <1>1, <2>3 DEF StepInv, Listed
  <1> DEFINE B == Abstract(list')
  <1>9. \/ A = <<>> /\ B = <<s>>
        \/ \E i \in 1 .. Len(A) : /\ Queue!InsertPoint(A, s, i)
                                  /\ B = Queue!InsertAfter(A, i, s)
    <2>1. CASE list = <<>> /\ list' = <<r>>
      <3>1. list' \in Seq(Entries) /\ Len(list') = 1 /\ list'[1] = r
        BY <1>3, <2>1
      <3>2. B \in Seq(Queue!Requests) /\ Len(B) = 1 /\ B[1] = s
        BY <3>1, AbstractFacts
      <3> HIDE DEF B, s
      <3>3. B = <<s>>  BY <3>2
      <3> QED  BY <1>7, <2>1, <3>3
    <2>2. ASSUME NEW i \in 1 .. Len(list), Elevator!InsertPoint(list, r, i),
                 list' = Elevator!InsertAfter(list, i, r)
          PROVE  /\ Queue!InsertPoint(A, s, i)
                 /\ B = Queue!InsertAfter(A, i, s)
      <3>1. Queue!InsertPoint(A, s, i)  BY <1>2, <2>2, PointSame
      <3>2. Abstract(Elevator!InsertAfter(list, i, r)) =
                Queue!InsertAfter(A, i, s)
        BY <1>2, <1>3, InsertSame
      <3> QED  BY <2>2, <3>1, <3>2
    <2> HIDE DEF A, B, s
    <2> QED  BY <1>1, <1>7, <2>1, <2>2
  <1>10. Queue!add_request(s)
    <2> HIDE DEF s
    <2>1. Len(A) < NR_REQUEST  BY <1>1, <1>7
    <2> QED  BY <1>8, <1>9, <2>1, Zenon DEF Queue!add_request
  <1> QED  BY <1>5, <1>10

(* Every step is one of the elevator, or changes nothing for it. *)
LEMMA StepAbstract ==
    ASSUME HardDiskAssumption, StepInv, [Next]_vars
    PROVE  [Queue!QueueNext]_(Abstract(list))
  <1>1. CASE \E b \in Buffers, rw \in {READ, WRITE} : make_request(b, rw)
    BY <1>1, MakeAbstract DEF Queue!QueueNext
  <1>2. CASE list' = list
    BY <1>2
  <1>3. CASE BadPartition
    <2>1. list # <<>> /\ list' = Tail(list)  BY <1>3 DEF BadPartition
    <2> QED  BY <2>1, TailAbstract DEF Queue!QueueNext
  <1>4. CASE WriteTimeout \/ \E handler : rw_intr_bad(handler)
    <2>1. bad_rw_intr /\ list # <<>>
      BY <1>4, InterruptFacts
         DEF WriteTimeout, Ready, Starting, rw_intr_bad
    <2> QED  BY <2>1, ErrorAbstract DEF Queue!QueueNext
  <1>5. CASE read_intr \/ write_intr
    <2> DEFINE r == list[1]
               a == Advanced(r)
    <2>1. list # <<>>  BY <1>5, InterruptFacts DEF read_intr, write_intr
    <2>2. \/ /\ r.nr_sectors > 1
             /\ \/ list' = [list EXCEPT ![1] = a]
                \/ list' = [list EXCEPT ![1] = [a EXCEPT !.errors = 0]]
          \/ list' = Tail(list)
      BY <1>5, Zenon DEF read_intr, write_intr
    <2>3. list \in Seq(Entries) /\ 1 \in 1 .. Len(list)
      BY <2>1, FirstIsListed DEF StepInv, TypeOK
    <2>4. CASE list' = Tail(list)
      <3>1. Queue!end_request
        BY <2>1, <2>4, TailAbstract
      <3> QED  BY <3>1 DEF Queue!QueueNext
    <2>5. CASE /\ r.nr_sectors > 1
               /\ \/ list' = [list EXCEPT ![1] = a]
                  \/ list' = [list EXCEPT ![1] = [a EXCEPT !.errors = 0]]
      <3>1. a \in Entries /\ Id(a) = Id(r) /\ a.cmd = r.cmd
        BY <2>1, <2>5, AdvancedFacts
      <3> DEFINE e == [a EXCEPT !.errors = 0]
      <3> HIDE DEF a
      <3>2. /\ e \in Entries /\ e.cmd = a.cmd /\ e.dev = a.dev
            /\ e.block = a.block
        BY <3>1 DEF Entries, HardDiskAssumption
      <3>3. Id(e) = Id(r) /\ e.cmd = r.cmd  BY <3>1, <3>2 DEF Id
      <3> HIDE DEF e
      <3>4. Abstract(list') = Abstract(list)
        BY <2>1, <2>5, <3>1, <3>2, <3>3, FirstAbstract DEF e
      <3> QED  BY <3>4
    <2> QED  BY <2>2, <2>4, <2>5
  <1>6. CASE UNCHANGED vars  BY <1>2, <1>6 DEF vars
  <1>7. CASE \E b \in Buffers, v \in Values : Modify(b, v)
    BY <1>2, <1>7 DEF Modify
  <1>8. CASE do_hd_request
    <2>1. CASE NoRequest \/ reset_hd \/ Recalibrate \/ StartRead \/ StartWrite
      BY <1>2, <2>1 DEF NoRequest, reset_hd, Recalibrate, StartRead, StartWrite
    <2> QED  BY <1>3, <1>4, <1>8, <2>1 DEF do_hd_request
  <1>9. CASE hd_interrupt
    <2>1. CASE recal_intr  BY <1>2, <2>1 DEF recal_intr
    <2> QED  BY <1>4, <1>5, <1>9, <2>1 DEF hd_interrupt
  <1> QED  BY <1>1, <1>6, <1>7, <1>8, <1>9 DEF Next

(* The driver implements the elevator of RequestQueue: whatever it does to *)
(* the current request, the requests behind it are the list that           *)
(* add_request builds, and each leaves it from the front, once.            *)
THEOREM Refinement == Spec => ImplementsElevator
  <1>1. Init => StepInv  BY HardDiskAssumption, InitFacts DEF IInv
  <1>2. StepInv /\ [Next]_vars => StepInv'
    BY HardDiskAssumption, StepInvStep
  <1>3. Init => Queue!QueueInit
    <2>1. ASSUME list = <<>> PROVE Abstract(list) = <<>>
      <3>1. list \in Seq(Entries)  BY <2>1
      <3> QED  BY <2>1, <3>1, AbstractFacts
    <2> QED  BY <2>1 DEF Init, Queue!QueueInit
  <1>4. StepInv /\ [Next]_vars => [Queue!QueueNext]_(Abstract(list))
    BY HardDiskAssumption, StepAbstract
  <1> QED  BY <1>1, <1>2, <1>3, <1>4, PTL
           DEF Spec, ImplementsElevator, Queue!QueueSpec

-----------------------------------------------------------------------------
(* The pipe. *)


USE DEF RUNNING, INTERRUPTIBLE, UNINTERRUPTIBLE, ZOMBIE

(* % on the ring: one wrap at most. *)
LEMMA ModIsWrap ==
    ASSUME PipeAssumption, NEW x \in 0 .. 2 * PAGE_SIZE - 1
    PROVE  x % PAGE_SIZE = Wrap(x) /\ Wrap(x) \in 0 .. PAGE_SIZE - 1
  <1>1. PAGE_SIZE \in Nat /\ PAGE_SIZE > 0
    BY DEF PipeAssumption
  <1> DEFINE q == x \div PAGE_SIZE
             r == x % PAGE_SIZE
  <1>2. q \in Int /\ r \in 0 .. PAGE_SIZE - 1 /\ x = PAGE_SIZE * q + r
    BY <1>1
  <1> HIDE DEF q, r
  <1>3. q >= 0
    <2> SUFFICES ASSUME q <= -1 PROVE FALSE
      BY <1>2
    <2>1. PAGE_SIZE * q <= PAGE_SIZE * (-1)
      BY <1>1, <1>2
    <2> QED  BY <1>1, <1>2, <2>1
  <1>4. q <= 1
    <2> SUFFICES ASSUME q >= 2 PROVE FALSE
      BY <1>2
    <2>1. PAGE_SIZE * q >= PAGE_SIZE * 2
      BY <1>1, <1>2
    <2> QED  BY <1>1, <1>2, <2>1
  <1>5. CASE q = 0
    BY <1>1, <1>2, <1>5 DEF Wrap, r
  <1>6. CASE q = 1
    BY <1>1, <1>2, <1>6 DEF Wrap, r
  <1> QED  BY <1>2, <1>3, <1>4, <1>5, <1>6

LEMMA SizeIsWrap ==
    ASSUME PipeAssumption, PipeTypeOK
    PROVE  /\ PIPE_SIZE = Wrap(PIPE_HEAD - PIPE_TAIL + PAGE_SIZE)
           /\ PIPE_SIZE \in 0 .. PAGE_SIZE - 1
           /\ Room \in 0 .. PAGE_SIZE - 1
  <1>1. PIPE_HEAD - PIPE_TAIL + PAGE_SIZE \in 0 .. 2 * PAGE_SIZE - 1
    BY DEF PipeAssumption, PipeTypeOK
  <1>2. /\ PIPE_SIZE = Wrap(PIPE_HEAD - PIPE_TAIL + PAGE_SIZE)
        /\ PIPE_SIZE \in 0 .. PAGE_SIZE - 1
    BY <1>1, ModIsWrap DEF PIPE_SIZE
  <1> QED  BY <1>2 DEF Room, PipeAssumption

LEMMA Min3Least ==
    ASSUME NEW a \in Nat, NEW b \in Nat, NEW c \in Nat
    PROVE  /\ Min3(a, b, c) \in {a, b, c}
           /\ Min3(a, b, c) <= a /\ Min3(a, b, c) <= b /\ Min3(a, b, c) <= c
  <1>1. \E m \in {a, b, c} : \A x \in {a, b, c} : m <= x
    <2>1. CASE a <= b /\ a <= c  BY <2>1
    <2>2. CASE b <= a /\ b <= c  BY <2>2
    <2>3. CASE c <= a /\ c <= b  BY <2>3
    <2> QED  BY <2>1, <2>2, <2>3
  <1> QED  BY <1>1 DEF Min3

(* The queue of the pipe under the primitives of SleepOn. *)
LEMMA WakePipe ==
    ASSUME PipeAssumption, PipeTypeOK
    PROVE  LET r == wake_up(k, Pipe) IN
           /\ r \in KernelStates
           /\ r.tmp = k.tmp /\ r.at = k.at
           /\ r.head[Pipe] = Null
           /\ \A t \in Tasks : r.state[t] =
                  IF t = k.head[Pipe] THEN RUNNING ELSE k.state[t]
  <1>1. CASE k.head[Pipe] = Null
    BY <1>1 DEF wake_up, MakeRunning, KernelStates, States, PipeAssumption, PipeTypeOK
  <1>2. CASE k.head[Pipe] # Null
    BY <1>2 DEF wake_up, MakeRunning, KernelStates, States, PipeAssumption, PipeTypeOK
  <1> QED  BY <1>1, <1>2

LEMMA LeavePipe ==
    ASSUME PipeAssumption, PipeTypeOK, NEW t \in Tasks, k.at[t] # Null
    PROVE  LET r == SleepLeave(k, t) IN
           /\ k.at[t] = Pipe
           /\ r \in KernelStates
           /\ r.head[Pipe] = k.tmp[t]
           /\ r.at[t] = Null
           /\ \A u \in Tasks : u # t => r.tmp[u] = k.tmp[u] /\ r.at[u] = k.at[u]
           /\ \A u \in Tasks : r.state[u] =
                  IF u = k.tmp[t] THEN RUNNING ELSE k.state[u]
  <1>1. k.at[t] = Pipe
    BY DEF PipeTypeOK, KernelStates, PipeAssumption
  <1>2. CASE k.tmp[t] = Null
    BY <1>1, <1>2 DEF SleepLeave, MakeRunning, KernelStates, States, PipeAssumption, PipeTypeOK
  <1>3. CASE k.tmp[t] # Null
    BY <1>1, <1>3 DEF SleepLeave, MakeRunning, KernelStates, States, PipeAssumption, PipeTypeOK
  <1> QED  BY <1>2, <1>3

-----------------------------------------------------------------------------
(* The numbers of the ring. *)
LEMMA RingTypes ==
    ASSUME PipeAssumption, PipeTypeOK
    PROVE  /\ PAGE_SIZE \in Nat /\ PAGE_SIZE > 0
           /\ PIPE_TAIL \in 0 .. PAGE_SIZE - 1 /\ PIPE_HEAD \in 0 .. PAGE_SIZE - 1
           /\ sent \in Nat /\ sent <= MaxBytes /\ MaxBytes \in Nat
           /\ page \in [0 .. PAGE_SIZE - 1 -> 0 .. MaxBytes]
           /\ got \in Seq(0 .. MaxBytes) /\ Len(got) \in Nat
  <1>1. /\ PAGE_SIZE \in Nat /\ PAGE_SIZE > 0 /\ MaxBytes \in Nat
    BY DEF PipeAssumption
  <1>2. PIPE_TAIL \in 0 .. PAGE_SIZE - 1 /\ PIPE_HEAD \in 0 .. PAGE_SIZE - 1
    BY DEF PipeTypeOK
  <1>3. sent \in Nat /\ sent <= MaxBytes
    BY <1>1 DEF PipeTypeOK
  <1>4. /\ page \in [0 .. PAGE_SIZE - 1 -> 0 .. MaxBytes]
        /\ got \in Seq(0 .. MaxBytes)
    BY DEF PipeTypeOK
  <1>5. Len(got) \in Nat
    BY <1>4
  <1> QED  BY <1>1, <1>2, <1>3, <1>4, <1>5

(* A reader takes c bytes from the tail. *)
LEMMA RingRead ==
    ASSUME PipeAssumption, PipeTypeOK, NEW c \in Nat, c > 0, c <= PIPE_SIZE,
           c <= PAGE_SIZE - PIPE_TAIL, InRing(page, got),
           PIPE_TAIL' = Wrap(PIPE_TAIL + c),
           PIPE_HEAD' = PIPE_HEAD, sent' = sent
    PROVE  LET g == got \o Bytes([at |-> PIPE_TAIL, n |-> c, from |-> 0]) IN
           /\ PIPE_TAIL' \in 0 .. PAGE_SIZE - 1
           /\ g \in Seq(0 .. MaxBytes)
           /\ Len(g) + PIPE_SIZE' = sent
           /\ \A i \in 1 .. Len(g) : g[i] = i
           /\ \A j \in 0 .. PIPE_SIZE' - 1 :
                 page[Wrap(PIPE_TAIL' + j)] = Len(g) + j + 1
  <1> DEFINE P == PAGE_SIZE
             T == PIPE_TAIL
             S == PIPE_SIZE
             b == Bytes([at |-> T, n |-> c, from |-> 0])
             g == got \o b
             m == Len(got)
  <1>1. /\ P \in Nat /\ P > 0 /\ T \in 0 .. P - 1 /\ PIPE_HEAD \in 0 .. P - 1
        /\ S \in 0 .. P - 1 /\ S = Wrap(PIPE_HEAD - T + P)
        /\ sent \in Nat /\ m \in Nat /\ got \in Seq(0 .. MaxBytes)
        /\ page \in [0 .. P - 1 -> 0 .. MaxBytes]
    <2>1. S \in 0 .. P - 1 /\ S = Wrap(PIPE_HEAD - T + P)
      BY SizeIsWrap
    <2> QED  BY <2>1, RingTypes
  <1>2. /\ m + S = sent /\ \A i \in 1 .. m : got[i] = i
        /\ \A j \in 0 .. S - 1 : page[Wrap(T + j)] = m + j + 1
    BY DEF InRing
  <1>3. PIPE_TAIL' = Wrap(T + c) /\ PIPE_TAIL' \in 0 .. P - 1
    BY <1>1 DEF Wrap
  <1>4. PIPE_SIZE' = Wrap(PIPE_HEAD - PIPE_TAIL' + P)
    <2>0. P \in Nat /\ PIPE_HEAD \in 0 .. P - 1 /\ PIPE_TAIL' \in 0 .. P - 1
      BY <1>1, <1>3
    <2> HIDE DEF P
    <2>1. PIPE_HEAD - PIPE_TAIL' + P \in 0 .. 2 * P - 1
      BY <2>0
    <2> QED  BY <2>1, ModIsWrap DEF PIPE_SIZE, P
  <1>5. PIPE_SIZE' = S - c
    BY <1>1, <1>3, <1>4 DEF Wrap
  <1>6. /\ b \in Seq(0 .. MaxBytes) /\ Len(b) = c
        /\ \A i \in 1 .. c : b[i] = page[T + i - 1]
    BY <1>1 DEF Bytes
  <1> HIDE DEF b, m, S, T, P
  <1>7. /\ g \in Seq(0 .. MaxBytes) /\ Len(g) = m + c
        /\ \A i \in 1 .. m : g[i] = got[i]
        /\ \A i \in m + 1 .. m + c : g[i] = b[i - m]
    <2>1. /\ g \in Seq(0 .. MaxBytes) /\ Len(g) = Len(got) + Len(b)
          /\ \A i \in 1 .. Len(got) + Len(b) :
                 g[i] = IF i <= Len(got) THEN got[i] ELSE b[i - Len(got)]
      <3>1. got \in Seq(0 .. MaxBytes) /\ b \in Seq(0 .. MaxBytes)
        BY <1>1, <1>6
      <3> QED  BY <3>1, ConcatProperties
    <2>2. Len(got) = m /\ m \in Nat
      BY <1>1 DEF m
    <2>3. Len(b) = c
      BY <1>6
    <2> HIDE DEF g
    <2>4. \A i \in 1 .. m : i \in 1 .. Len(got) + Len(b) /\ i <= Len(got)
      BY <2>2, <2>3
    <2>5. \A i \in m + 1 .. m + c :
              i \in 1 .. Len(got) + Len(b) /\ ~(i <= Len(got))
      BY <2>2, <2>3
    <2>6. \A i \in 1 .. m : g[i] = got[i]
      BY <2>1, <2>4, Zenon
    <2>7. \A i \in m + 1 .. m + c : g[i] = b[i - m]
      BY <2>1, <2>2, <2>5, Zenon
    <2>8. Len(g) = m + c
      BY <2>1, <2>2, <2>3
    <2> QED  BY <2>1, <2>6, <2>7, <2>8
  <1> HIDE DEF g
  <1>8. \A i \in 1 .. Len(g) : g[i] = i
    <2> SUFFICES ASSUME NEW i \in 1 .. Len(g) PROVE g[i] = i
      OBVIOUS
    <2>0. m \in Nat /\ i \in Nat /\ i >= 1 /\ i <= m + c
      BY <1>1, <1>7
    <2>3. S \in Nat /\ c <= S
      BY <1>1 DEF S
    <2>1. CASE i <= m
      <3>1. i \in 1 .. m  BY <2>0, <2>1
      <3> QED  BY <1>2, <1>7, <3>1, Zenon
    <2>2. CASE i > m
      <3> DEFINE j == i - m - 1
      <3>1. j \in 0 .. c - 1 /\ j \in 0 .. S - 1 /\ i - m \in 1 .. c /\ i \in m + 1 .. m + c
        BY <2>0, <2>2, <2>3
      <3>2. Wrap(T + j) = T + j /\ T + (i - m) - 1 = T + j
        BY <1>1, <3>1 DEF Wrap, T, P
      <3>3. g[i] = page[T + j]
        BY <1>6, <1>7, <3>1, <3>2
      <3>4. page[Wrap(T + j)] = m + j + 1
        BY <1>2, <3>1
      <3>5. m + j + 1 = i
        BY <2>0
      <3> HIDE DEF j
      <3> QED  BY <3>2, <3>3, <3>4, <3>5, Zenon
    <2> QED  BY <2>0, <2>1, <2>2
  <1>9. ASSUME NEW j \in 0 .. PIPE_SIZE' - 1
        PROVE  page[Wrap(PIPE_TAIL' + j)] = Len(g) + j + 1
    <2>0. S \in Nat
      BY <1>1
    <2>1. c + j \in 0 .. S - 1
      BY <1>5, <1>9, <2>0
    <2>2. Wrap(PIPE_TAIL' + j) = Wrap(T + (c + j))
      BY <1>1, <1>3, <1>5, <1>9 DEF Wrap, T, P, S
    <2>3. page[Wrap(T + (c + j))] = m + (c + j) + 1
      BY <1>2, <2>1
    <2> QED  BY <1>1, <1>7, <2>2, <2>3
  <1>10. Len(g) + PIPE_SIZE' = sent
    BY <1>1, <1>2, <1>5, <1>7
  <1> QED  BY <1>3, <1>7, <1>8, <1>9, <1>10 DEF g, b, T, P

(* A writer adds c bytes at the head. *)
LEMMA RingWrite ==
    ASSUME PipeAssumption, PipeTypeOK, NEW c \in Nat, c > 0, c <= Room,
           c <= PAGE_SIZE - PIPE_HEAD, InRing(page, got),
           PIPE_HEAD' = Wrap(PIPE_HEAD + c),
           PIPE_TAIL' = PIPE_TAIL, sent' = sent + c
    PROVE  LET p == Filled([at |-> PIPE_HEAD, n |-> c, from |-> sent]) IN
           /\ Len(got) + PIPE_SIZE' = sent'
           /\ \A j \in 0 .. PIPE_SIZE' - 1 :
                 p[Wrap(PIPE_TAIL + j)] = Len(got) + j + 1
  <1> DEFINE P == PAGE_SIZE
             T == PIPE_TAIL
             H == PIPE_HEAD
             S == PIPE_SIZE
             p == Filled([at |-> H, n |-> c, from |-> sent])
             m == Len(got)
  <1>1. /\ P \in Nat /\ P > 0 /\ T \in 0 .. P - 1 /\ H \in 0 .. P - 1
        /\ S \in 0 .. P - 1 /\ S = Wrap(H - T + P) /\ c <= P - 1 - S
        /\ sent \in Nat /\ m \in Nat
    <2>1. S \in 0 .. P - 1 /\ S = Wrap(H - T + P) /\ c <= P - 1 - S
      BY SizeIsWrap DEF Room
    <2> QED  BY <2>1, RingTypes
  <1>2. /\ m + S = sent
        /\ \A j \in 0 .. S - 1 : page[Wrap(T + j)] = m + j + 1
    BY DEF InRing
  <1>3. PIPE_HEAD' = Wrap(H + c) /\ PIPE_HEAD' \in 0 .. P - 1
    BY <1>1 DEF Wrap
  <1>4. PIPE_SIZE' = Wrap(PIPE_HEAD' - T + P)
    <2>1. PIPE_HEAD' - T + P \in 0 .. 2 * P - 1
      BY <1>1, <1>3
    <2> QED  BY <2>1, ModIsWrap DEF PIPE_SIZE, P
  <1>5. PIPE_SIZE' = S + c
    BY <1>1, <1>3, <1>4 DEF Wrap
  <1>6. \A i \in 0 .. P - 1 : p[i] = IF i \in H .. H + c - 1 THEN sent + i - H + 1
                                     ELSE page[i]
    BY DEF Filled
  <1> HIDE DEF p, m, S, T, H, P
  <1>7. ASSUME NEW j \in 0 .. PIPE_SIZE' - 1
        PROVE  p[Wrap(T + j)] = m + j + 1
    <2>1. Wrap(T + j) \in 0 .. P - 1
      BY <1>1, <1>5, <1>7 DEF Wrap, P
    <2>2. CASE j < S
      <3>1. Wrap(T + j) \notin H .. H + c - 1
        BY <1>1, <1>5, <1>7, <2>2 DEF Wrap, P
      <3>2. j \in 0 .. S - 1
        BY <1>1, <1>5, <1>7, <2>2
      <3> QED  BY <1>2, <1>6, <2>1, <3>1, <3>2
    <2>3. CASE j >= S
      <3>0. j \in Nat /\ j < S + c
        BY <1>1, <1>5, <1>7
      <3>1a. j - S \in 0 .. c - 1
        BY <1>1, <2>3, <3>0
      <3>1b. Wrap(T + j) = H + (j - S)
        <4>1. CASE H >= T
          <5>1. S = H - T
            BY <1>1, <4>1 DEF Wrap, P
          <5>2. T + j < P /\ T + j = H + (j - S)
            BY <1>1, <3>0, <5>1 DEF H, P
          <5> QED  BY <1>1, <3>0, <5>2 DEF Wrap, P
        <4>2. CASE H < T
          <5>1. S = H - T + P
            BY <1>1, <4>2 DEF Wrap, P
          <5>2. T + j >= P /\ T + j - P = H + (j - S)
            BY <1>1, <2>3, <3>0, <5>1
          <5> QED  BY <1>1, <3>0, <5>2 DEF Wrap, P
        <4> QED  BY <1>1, <4>1, <4>2
      <3>1. Wrap(T + j) = H + (j - S) /\ j - S \in 0 .. c - 1
        BY <3>1a, <3>1b
      <3>2. p[Wrap(T + j)] = sent + (H + (j - S)) - H + 1
        BY <1>1, <1>6, <2>1, <3>1
      <3> QED  BY <1>1, <1>2, <1>7, <3>1, <3>2
    <2> QED  BY <1>1, <1>5, <1>7, <2>2, <2>3
  <1>8. Len(got) + PIPE_SIZE' = sent'
    <2>1. m + PIPE_SIZE' = sent'
      BY <1>1, <1>2, <1>5
    <2> QED  BY <2>1 DEF m
  <1> QED  BY <1>7, <1>8 DEF p, m, T, H

-----------------------------------------------------------------------------
(* What leaves the ring, or the wait queue, alone. *)
LEMMA RingSame ==
    ASSUME Ring, UNCHANGED <<PIPE_HEAD, PIPE_TAIL, page, sent, got, chunk, race>>,
           \A t \in Tasks : pc'[t] = "copy" <=> pc[t] = "copy", PipeAssumption
    PROVE  Ring'
  <1> DEFINE R(t) == InRing(page, got \o Bytes(chunk[t]))
             W(t) == InRing(Filled(chunk[t]), got)
  <1>1. /\ InRing(page, got)' <=> InRing(page, got)
        /\ \A t : R(t)' <=> R(t)
        /\ \A t : W(t)' <=> W(t)
    BY DEF InRing, PIPE_SIZE, Bytes, Filled, Wrap
  <1>2. /\ race' = race
        /\ Readers \subseteq Tasks /\ Writers \subseteq Tasks
    BY DEF PipeAssumption
  <1>3. ASSUME ~race
        PROVE  /\ \A t, u \in Tasks : pc[t] = "copy" /\ pc[u] = "copy" => t = u
               /\ (\A t \in Tasks : pc[t] # "copy") => InRing(page, got)
               /\ \A t \in Readers : pc[t] = "copy" => R(t)
               /\ \A t \in Writers : pc[t] = "copy" => W(t)
    BY <1>3 DEF Ring
  <1>4. (~race' =>
          /\ \A t, u \in Tasks : pc'[t] = "copy" /\ pc'[u] = "copy" => t = u
          /\ (\A t \in Tasks : pc'[t] # "copy") => InRing(page, got)'
          /\ \A t \in Readers : pc'[t] = "copy" => R(t)'
          /\ \A t \in Writers : pc'[t] = "copy" => W(t)') => Ring'
    BY DEF Ring
  <1> SUFFICES ASSUME ~race PROVE Ring'
    BY <1>2, <1>4
  <1> HIDE DEF R, W
  <1>5. \A t, u \in Tasks : pc'[t] = "copy" /\ pc'[u] = "copy" => t = u
    BY <1>3
  <1>6. (\A t \in Tasks : pc'[t] # "copy") => InRing(page, got)'
    BY <1>1, <1>3
  <1>7. \A t \in Readers : pc'[t] = "copy" => R(t)'
    BY <1>1, <1>2, <1>3
  <1>8. \A t \in Writers : pc'[t] = "copy" => W(t)'
    BY <1>1, <1>2, <1>3
  <1> QED  BY <1>4, <1>5, <1>6, <1>7, <1>8

LEMMA WaitSame ==
    ASSUME Places, Alone, UNCHANGED <<k, overlap, i_count>>,
           cur' \in {cur, Null}, PipeAssumption
    PROVE  Places' /\ Alone'
  <1>1. Places'
    BY DEF Places, Waiting, PipeAssumption
  <1>2. Alone'
    BY DEF Alone, Waiting, Members
  <1> QED  BY <1>1, <1>2

(* A wake-up before the first overlap leaves nobody asleep. *)
LEMMA WakeAll ==
    ASSUME PipeAssumption, PipeTypeOK, Places, Alone, k' = wake_up(k, Pipe),
           cur' = cur, overlap' = overlap
    PROVE  Places' /\ Alone' /\ (~overlap => Waiting' = {})
  <1>1. /\ k'.tmp = k.tmp /\ k'.at = k.at /\ k'.head[Pipe] = Null
        /\ \A t \in Tasks : k'.state[t] =
               IF t = k.head[Pipe] THEN RUNNING ELSE k.state[t]
    BY WakePipe
  <1>2. Places'
    BY <1>1 DEF Places, Waiting
  <1>3. \A t \in Tasks : t \in Members(k, Pipe)' <=> t \in Members(k, Pipe)
    BY <1>1 DEF Members
  <1>4. ASSUME ~overlap, NEW t \in Tasks, t \in Members(k, Pipe)
        PROVE  k'.state[t] = RUNNING
    BY <1>1, <1>4 DEF Alone
  <1>5. ~overlap => Waiting' = {}
    <2> SUFFICES ASSUME ~overlap, NEW t \in Tasks, k'.state[t] = UNINTERRUPTIBLE
                 PROVE  FALSE
      BY DEF Waiting
    <2>1. t \in Waiting
      BY <1>1 DEF Waiting
    <2>2. t \in Members(k, Pipe)
      BY <2>1 DEF Places, Members
    <2> QED  BY <1>4, <2>2
  <1>6. Alone'
    <2> SUFFICES ASSUME ~overlap PROVE Alone'
      BY DEF Alone
    <2>1. \A t \in Members(k, Pipe)' : t \in Tasks /\ t \in Members(k, Pipe)
      BY <1>3 DEF Members
    <2>2. \A t, u \in Members(k, Pipe) : t = u
      BY DEF Alone
    <2>3. \A t \in Members(k, Pipe) : k.tmp[t] = Null
      BY DEF Alone
    <2> QED  BY <1>1, <1>4, <1>5, <2>1, <2>2, <2>3 DEF Alone
  <1> QED  BY <1>2, <1>5, <1>6

-----------------------------------------------------------------------------
LEMMA InitIInv == ASSUME PipeInit, PipeAssumption PROVE PipeInv
  <1>1. k.at = [t \in Tasks |-> Null] /\ k.state = [t \in Tasks |-> RUNNING]
        /\ k.head = [q \in Queues |-> Null] /\ k.tmp = [t \in Tasks |-> Null]
        /\ k \in KernelStates
    BY DEF PipeInit, KernelInit, KernelStates, States
  <1>2. \A t \in Tasks : k.at[t] = Null /\ k.state[t] = RUNNING
    BY <1>1
  <1>3. Waiting = {} /\ Members(k, Pipe) = {} /\ k.head[Pipe] = Null
    BY <1>1, <1>2 DEF Waiting, Members, PipeAssumption
  <1>4. None \in [at : 0 .. PAGE_SIZE - 1, n : 0 .. PAGE_SIZE, from : 0 .. MaxBytes]
    BY DEF None, PipeAssumption
  <1>5. PipeTypeOK
    <2>1. chunk \in [Tasks -> [at : 0 .. PAGE_SIZE - 1, n : 0 .. PAGE_SIZE,
                               from : 0 .. MaxBytes]]
      BY <1>4 DEF PipeInit
    <2>2. cur \in Tasks \cup {Null} /\ pc \in [Tasks -> {"user", "loop", "copy"}]
          /\ open \subseteq Tasks /\ sigpipe \subseteq Tasks
          /\ overlap \in BOOLEAN /\ race \in BOOLEAN
      BY DEF PipeInit
    <2>4. i_count \in 0 .. 2
      BY DEF PipeInit
    <2>3. /\ count \in [Tasks -> 0 .. MaxCount]
          /\ PIPE_HEAD \in 0 .. PAGE_SIZE - 1
          /\ PIPE_TAIL \in 0 .. PAGE_SIZE - 1
          /\ page \in [0 .. PAGE_SIZE - 1 -> 0 .. MaxBytes]
          /\ sent \in 0 .. MaxBytes
          /\ got \in Seq(0 .. MaxBytes)
      BY DEF PipeInit, PipeAssumption
    <2> QED  BY <1>1, <2>1, <2>2, <2>3, <2>4 DEF PipeTypeOK
  <1>6. OpenEnds
    BY DEF PipeInit, OpenEnds, PipeAssumption
  <1>7. \A t \in Tasks : pc[t] # "copy"
    BY DEF PipeInit
  <1>8. Chunks
    BY <1>7 DEF Chunks
  <1>9. Places
    BY <1>3 DEF Places, PipeInit, PipeAssumption
  <1>10. Alone
    BY <1>3 DEF Alone
  <1>11. Ring
    <2>1. PIPE_SIZE = 0
      <3>1. PIPE_SIZE = Wrap(PIPE_HEAD - PIPE_TAIL + PAGE_SIZE)
        BY <1>5, SizeIsWrap
      <3> QED  BY <3>1 DEF PipeInit, Wrap, PipeAssumption
    <2>2. InRing(page, got)
      BY <2>1 DEF InRing, PipeInit
    <2> QED  BY <1>7, <2>2 DEF Ring, PipeAssumption
  <1> QED  BY <1>5, <1>6, <1>8, <1>9, <1>10, <1>11 DEF PipeInv

(* schedule() *)
LEMMA ScheduleStep ==
    ASSUME PipeInv, PipeAssumption, NEW t \in Tasks, schedule(t)
    PROVE  PipeInv'
  <1>1. /\ PipeTypeOK /\ OpenEnds /\ Chunks /\ Places /\ Alone /\ Ring
        /\ cur' = t /\ k.state[t] = RUNNING
        /\ UNCHANGED <<pc, count, chunk, open, sigpipe, data, overlap, race>>
    BY DEF PipeInv, schedule
  <1>2. UNCHANGED <<i_count, PIPE_HEAD, PIPE_TAIL, page, sent, got>>
    BY <1>1 DEF data, pipe
  <1>3. k' \in KernelStates /\ Places' /\ Alone'
    <2>1. CASE k.at[t] = Null
      <3>1. k' = k
        BY <2>1 DEF schedule
      <3>2. k' \in KernelStates
        BY <1>1, <3>1 DEF PipeTypeOK
      <3>3. Places'
        BY <1>1, <2>1, <3>1 DEF Places, Waiting
      <3>4. Alone'
        BY <1>1, <1>2, <3>1 DEF Alone, Waiting, Members
      <3> QED  BY <3>2, <3>3, <3>4
    <2>2. CASE k.at[t] # Null
      <3>1. k' = SleepLeave(k, t)
        BY <2>2 DEF schedule
      <3>2. /\ k.at[t] = Pipe
            /\ k' \in KernelStates
            /\ k'.head[Pipe] = k.tmp[t]
            /\ k'.at[t] = Null
            /\ \A u \in Tasks : u # t => k'.tmp[u] = k.tmp[u] /\ k'.at[u] = k.at[u]
            /\ \A u \in Tasks : k'.state[u] =
                   IF u = k.tmp[t] THEN RUNNING ELSE k.state[u]
        BY <1>1, <2>2, <3>1, LeavePipe
      <3>3. \A u \in Tasks : u \in Waiting' => u \in Waiting /\ u # t
        BY <1>1, <3>2 DEF Waiting
      <3>4. Places'
        BY <1>1, <3>2, <3>3 DEF Places, Waiting
      <3>5. Alone'
        <4> SUFFICES ASSUME ~overlap PROVE Alone'
          BY <1>1 DEF Alone
        <4>1. t \in Members(k, Pipe) /\ k.tmp[t] = Null
          BY <1>1, <3>2 DEF Alone, Members
        <4>2. Members(k, Pipe)' = {}
          <5> SUFFICES ASSUME NEW u \in Tasks, k'.at[u] = Pipe PROVE FALSE
            BY DEF Members
          <5>1. u # t
            BY <3>2 DEF PipeAssumption
          <5>2. u \in Members(k, Pipe)
            BY <3>2, <5>1 DEF Members
          <5> QED  BY <1>1, <4>1, <5>1, <5>2 DEF Alone
        <4>3. Waiting' # {} => i_count' = 2
          <5>1. Waiting' # {} => Waiting # {}
            BY <3>3 DEF Waiting
          <5> QED  BY <1>1, <1>2, <5>1 DEF Alone
        <4>4. k'.head[Pipe] = Null
          BY <3>2, <4>1
        <4> QED  BY <4>2, <4>3, <4>4 DEF Alone
      <3> QED  BY <3>2, <3>4, <3>5
    <2> QED  BY <2>1, <2>2
  <1>4. PipeTypeOK'
    BY <1>1, <1>2, <1>3 DEF PipeTypeOK
  <1>5. OpenEnds' /\ Chunks'
    BY <1>1, <1>2 DEF OpenEnds, Chunks
  <1>6. Ring'
    BY <1>1, <1>2, RingSame
  <1> QED  BY <1>3, <1>4, <1>5, <1>6 DEF PipeInv

(* Preempt and Call move neither the ring nor the queue *)
LEMMA UserStep ==
    ASSUME PipeInv, PipeAssumption, NEW t \in Tasks,
           Preempt(t) \/ \E n \in 1 .. MaxCount : Call(t, n)
    PROVE  PipeInv'
  <1>1. PipeTypeOK /\ OpenEnds /\ Chunks /\ Places /\ Alone /\ Ring
    BY DEF PipeInv
  <1>2. UNCHANGED <<k, chunk, open, sigpipe, data, overlap, race>>
    BY DEF Preempt, Call
  <1>3. UNCHANGED <<i_count, PIPE_HEAD, PIPE_TAIL, page, sent, got>>
    BY <1>2 DEF data, pipe
  <1>4. /\ cur' \in {cur, Null}
        /\ pc' \in [Tasks -> {"user", "loop", "copy"}]
        /\ count' \in [Tasks -> 0 .. MaxCount]
        /\ \A u \in Tasks : pc'[u] = "copy" <=> pc[u] = "copy"
        /\ \A u \in Tasks : pc'[u] # "user" => pc[u] # "user" \/ u \in open
    <2>1. CASE Preempt(t)
      BY <1>1, <2>1 DEF Preempt, PipeTypeOK
    <2>2. ASSUME NEW n \in 1 .. MaxCount, Call(t, n)
          PROVE  <1>4!1 /\ <1>4!2 /\ <1>4!3 /\ <1>4!4 /\ <1>4!5
      <3>1. /\ cur' = cur /\ t \in open /\ pc[t] = "user"
            /\ pc' = [pc EXCEPT ![t] = "loop"]
            /\ count' = [count EXCEPT ![t] = n]
        BY <2>2 DEF Call
      <3>2. /\ pc \in [Tasks -> {"user", "loop", "copy"}]
            /\ count \in [Tasks -> 0 .. MaxCount]
        BY <1>1 DEF PipeTypeOK
      <3>3. count' \in [Tasks -> 0 .. MaxCount]
        BY <3>1, <3>2 DEF PipeAssumption
      <3>4. pc' \in [Tasks -> {"user", "loop", "copy"}]
        BY <3>1, <3>2
      <3>5. \A u \in Tasks : pc'[u] = IF u = t THEN "loop" ELSE pc[u]
        BY <3>1, <3>2
      <3> QED  BY <3>1, <3>3, <3>4, <3>5
    <2> QED  BY <2>1, <2>2
  <1>5. PipeTypeOK'
    BY <1>1, <1>2, <1>3, <1>4 DEF PipeTypeOK
  <1>6. OpenEnds'
    BY <1>1, <1>2, <1>3, <1>4 DEF OpenEnds
  <1>7. Chunks'
    BY <1>1, <1>2, <1>3, <1>4 DEF Chunks
  <1>8. Places' /\ Alone'
    BY <1>1, <1>2, <1>3, <1>4, WaitSame
  <1>9. Ring'
    BY <1>1, <1>2, <1>3, <1>4, RingSame
  <1> QED  BY <1>5, <1>6, <1>7, <1>8, <1>9 DEF PipeInv

(* the end of a call *)
LEMMA FinishStep ==
    ASSUME PipeInv, PipeAssumption, NEW t \in Tasks, Finish(t)
    PROVE  PipeInv'
  <1>1. PipeTypeOK /\ OpenEnds /\ Chunks /\ Places /\ Alone /\ Ring
    BY DEF PipeInv
  <1>2. /\ UNCHANGED <<cur, chunk, open, data, overlap, race>>
        /\ k' = wake_up(k, Pipe) /\ pc[t] = "loop"
        /\ pc' = [pc EXCEPT ![t] = "user"]
        /\ count' = [count EXCEPT ![t] = 0]
    BY DEF Finish
  <1>3. UNCHANGED <<i_count, PIPE_HEAD, PIPE_TAIL, page, sent, got>>
    BY <1>2 DEF data, pipe
  <1>4. sigpipe' \subseteq Tasks
    BY <1>1 DEF Finish, PipeTypeOK, PipeAssumption
  <1>5. /\ pc' \in [Tasks -> {"user", "loop", "copy"}]
        /\ \A u \in Tasks : pc'[u] = IF u = t THEN "user" ELSE pc[u]
    <2>1. pc \in [Tasks -> {"user", "loop", "copy"}]
      BY <1>1 DEF PipeTypeOK
    <2> QED  BY <1>2, <2>1
  <1>6. count' \in [Tasks -> 0 .. MaxCount]
    <2>1. count \in [Tasks -> 0 .. MaxCount] /\ MaxCount \in Nat
      BY <1>1 DEF PipeTypeOK, PipeAssumption
    <2> QED  BY <1>2, <2>1
  <1>7. PipeTypeOK'
    <2>1. k' \in KernelStates
      BY <1>1, <1>2, WakePipe
    <2> QED  BY <1>1, <1>2, <1>3, <1>4, <1>5, <1>6, <2>1 DEF PipeTypeOK
  <1>8. OpenEnds' /\ Chunks'
    BY <1>1, <1>2, <1>3, <1>5 DEF OpenEnds, Chunks
  <1>9. Places' /\ Alone'
    BY <1>1, <1>2, <1>3, WakeAll
  <1>10. Ring'
    <2>1. \A u \in Tasks : pc'[u] = "copy" <=> pc[u] = "copy"
      BY <1>2, <1>5
    <2> QED  BY <1>1, <1>2, <1>3, <2>1, RingSame
  <1> QED  BY <1>7, <1>8, <1>9, <1>10 DEF PipeInv

(* the sleep of a call the pipe cannot serve *)
LEMMA BlockStep ==
    ASSUME PipeInv, PipeAssumption, NEW t \in Tasks, Block(t)
    PROVE  PipeInv'
  <1> DEFINE woken == wake_up(k, Pipe)
  <1>1. PipeTypeOK /\ OpenEnds /\ Chunks /\ Places /\ Alone /\ Ring
    BY DEF PipeInv
  <1>2. /\ UNCHANGED <<pc, count, chunk, open, sigpipe, data, race>>
        /\ cur = t /\ cur' = Null /\ i_count = 2
        /\ k' = sleep_on(woken, t, Pipe)
        /\ overlap' = (overlap \/ \E u \in Members(k, Pipe) : woken.state[u] = RUNNING)
    BY DEF Block
  <1>3. UNCHANGED <<i_count, PIPE_HEAD, PIPE_TAIL, page, sent, got>>
    BY <1>2 DEF data, pipe
  <1>4. /\ woken \in KernelStates
        /\ woken.tmp = k.tmp /\ woken.at = k.at /\ woken.head[Pipe] = Null
        /\ \A u \in Tasks : woken.state[u] =
               IF u = k.head[Pipe] THEN RUNNING ELSE k.state[u]
    BY <1>1, WakePipe
  <1> HIDE DEF woken
  <1>5. k' \in KernelStates
    BY <1>2, <1>4 DEF KernelStates, States, sleep_on, SleepEnter, PipeAssumption
  <1>6. /\ k'.tmp[t] = Null /\ k'.head[Pipe] = t /\ k'.at[t] = Pipe
        /\ \A u \in Tasks : u # t => k'.at[u] = k.at[u] /\ k'.state[u] = woken.state[u]
    BY <1>2, <1>4 DEF KernelStates, States, sleep_on, SleepEnter, PipeAssumption
  <1>7. PipeTypeOK'
    <2>1. overlap' \in BOOLEAN
      BY <1>2
    <2> QED  BY <1>1, <1>2, <1>3, <1>5, <2>1 DEF PipeTypeOK
  <1>8. OpenEnds' /\ Chunks'
    BY <1>1, <1>2, <1>3 DEF OpenEnds, Chunks
  <1>9. Places'
    <2> SUFFICES ASSUME NEW u \in Tasks, u \in Waiting' PROVE k'.at[u] = Pipe
      BY <1>2 DEF Places, PipeAssumption
    <2>1. CASE u = t
      BY <1>6, <2>1
    <2>2. CASE u # t
      <3>1. u \in Waiting
        BY <1>4, <1>6, <2>2 DEF Waiting
      <3> QED  BY <1>1, <1>6, <2>2, <3>1 DEF Places
    <2> QED  BY <2>1, <2>2
  <1>10. Alone'
    <2> SUFFICES ASSUME ~overlap' PROVE Alone'
      BY DEF Alone
    <2>1. ~overlap /\ \A u \in Members(k, Pipe) : woken.state[u] # RUNNING
      BY <1>2
    <2>2. Members(k, Pipe) = {}
      <3> SUFFICES ASSUME NEW u \in Members(k, Pipe) PROVE FALSE
        OBVIOUS
      <3>1. u \in Tasks
        BY DEF Members
      <3>2. k.head[Pipe] \in {u, Null} /\ (k.head[Pipe] = Null => k.state[u] = RUNNING)
        BY <1>1, <2>1 DEF Alone
      <3> QED  BY <1>4, <2>1, <3>1, <3>2
    <2>3. \A u \in Tasks : u \in Members(k, Pipe)' => u = t
      BY <1>6, <2>2 DEF Members
    <2>4. Members(k, Pipe)' \subseteq {t} /\ t \in Members(k, Pipe)'
      BY <1>6, <2>3 DEF Members
    <2>5. k'.head[Pipe] # Null
      BY <1>6 DEF PipeAssumption
    <2> QED  BY <1>2, <1>3, <1>6, <2>4, <2>5 DEF Alone
  <1>11. Ring'
    BY <1>1, <1>2, <1>3, RingSame
  <1> QED  BY <1>7, <1>8, <1>9, <1>10, <1>11 DEF PipeInv

(* sys_close *)
LEMMA CloseStep ==
    ASSUME PipeInv, PipeAssumption, NEW t \in Tasks, sys_close(t)
    PROVE  PipeInv'
  <1> DEFINE end  == IF t \in Readers THEN Readers ELSE Writers
             last == open \cap end = {t}
  <1>1. PipeTypeOK /\ OpenEnds /\ Chunks /\ Places /\ Alone /\ Ring
    BY DEF PipeInv
  <1>2. /\ UNCHANGED <<cur, pc, count, chunk, sigpipe, PIPE_HEAD, PIPE_TAIL,
                       page, sent, got, overlap, race>>
        /\ cur = t /\ pc[t] = "user" /\ t \in open /\ open' = open \ {t}
        /\ k' = (IF last THEN wake_up(k, Pipe) ELSE k)
        /\ i_count' = (IF last THEN i_count - 1 ELSE i_count)
    BY DEF sys_close
  <1>3. OpenEnds'
    <2>1. \A u \in Tasks : pc'[u] # "user" => u \in open'
      BY <1>1, <1>2 DEF OpenEnds
    <2>2. i_count' = (IF open' \cap Readers = {} THEN 0 ELSE 1)
                     + (IF open' \cap Writers = {} THEN 0 ELSE 1)
      <3>1. CASE t \in Readers
        <4>1. open' \cap Writers = open \cap Writers
          BY <1>2, <3>1 DEF PipeAssumption
        <4>2. open \cap Readers # {}
          BY <1>2, <3>1
        <4>3. CASE last
          <5>1. open' \cap Readers = {}
            BY <1>2, <3>1, <4>3
          <5> QED  BY <1>1, <1>2, <4>1, <4>2, <4>3, <5>1 DEF OpenEnds
        <4>4. CASE ~last
          <5>1. open' \cap Readers # {}
            BY <1>2, <3>1, <4>4
          <5> QED  BY <1>1, <1>2, <4>1, <4>2, <4>4, <5>1 DEF OpenEnds
        <4> QED  BY <4>3, <4>4
      <3>2. CASE t \notin Readers
        <4>1. open' \cap Readers = open \cap Readers
          BY <1>2, <3>2
        <4>2. open \cap Writers # {} /\ t \in Writers
          BY <1>2, <3>2 DEF PipeAssumption
        <4>3. CASE last
          <5>1. open' \cap Writers = {}
            BY <1>2, <3>2, <4>3
          <5> QED  BY <1>1, <1>2, <4>1, <4>2, <4>3, <5>1 DEF OpenEnds
        <4>4. CASE ~last
          <5>1. open' \cap Writers # {}
            BY <1>2, <3>2, <4>2, <4>4
          <5> QED  BY <1>1, <1>2, <4>1, <4>2, <4>4, <5>1 DEF OpenEnds
        <4> QED  BY <4>3, <4>4
      <3> QED  BY <3>1, <3>2
    <2> QED  BY <2>1, <2>2 DEF OpenEnds
  <1>4. k' \in KernelStates /\ Places' /\ Alone'
    <2>1. CASE last
      <3>1. k' = wake_up(k, Pipe)
        BY <1>2, <2>1
      <3> QED  BY <1>1, <1>2, <3>1, WakeAll, WakePipe
    <2>2. CASE ~last
      <3>1. k' = k /\ i_count' = i_count
        BY <1>2, <2>2
      <3> QED  BY <1>1, <1>2, <3>1, WaitSame DEF PipeTypeOK
    <2> QED  BY <2>1, <2>2
  <1>5. PipeTypeOK'
    <2>1. i_count' \in 0 .. 2
      BY <1>3 DEF OpenEnds
    <2>2. open' \subseteq Tasks
      BY <1>1, <1>2 DEF PipeTypeOK
    <2> HIDE DEF last
    <2> QED  BY <1>1, <1>2, <1>4, <2>1, <2>2 DEF PipeTypeOK
  <1>6. Chunks'
    BY <1>1, <1>2 DEF Chunks
  <1>7. Ring'
    BY <1>1, <1>2, RingSame
  <1> QED  BY <1>3, <1>4, <1>5, <1>6, <1>7 DEF PipeInv

-----------------------------------------------------------------------------
(* A chunk lies inside the page, and what a copy of it leaves has its type. *)
ChunkSet == [at : 0 .. PAGE_SIZE - 1, n : 0 .. PAGE_SIZE, from : 0 .. MaxBytes]

LEMMA ChunkTypes ==
    ASSUME PipeAssumption, PipeTypeOK, NEW c \in ChunkSet, c.at + c.n <= PAGE_SIZE
    PROVE  /\ Bytes(c) \in Seq(0 .. MaxBytes) /\ Len(Bytes(c)) = c.n
           /\ got \o Bytes(c) \in Seq(0 .. MaxBytes)
           /\ c.from + c.n <= MaxBytes =>
                 Filled(c) \in [0 .. PAGE_SIZE - 1 -> 0 .. MaxBytes]
  <1>1. /\ PAGE_SIZE \in Nat /\ MaxBytes \in Nat
        /\ page \in [0 .. PAGE_SIZE - 1 -> 0 .. MaxBytes]
        /\ got \in Seq(0 .. MaxBytes)
    BY RingTypes
  <1>2. c.at \in 0 .. PAGE_SIZE - 1 /\ c.n \in 0 .. PAGE_SIZE /\ c.from \in 0 .. MaxBytes
    BY DEF ChunkSet
  <1>3. \A i \in 1 .. c.n : c.at + i - 1 \in 0 .. PAGE_SIZE - 1
    <2> DEFINE a == c.at
               n == c.n
    <2>1. a \in Nat /\ n \in Nat /\ a + n <= PAGE_SIZE
      BY <1>1, <1>2
    <2> HIDE DEF a, n
    <2>2. \A i \in 1 .. n : a + i - 1 \in 0 .. PAGE_SIZE - 1
      BY <1>1, <2>1
    <2> QED  BY <2>2 DEF a, n
  <1>4. \A i \in 1 .. c.n : page[c.at + i - 1] \in 0 .. MaxBytes
    BY <1>1, <1>3
  <1>5. Bytes(c) \in Seq(0 .. MaxBytes) /\ Len(Bytes(c)) = c.n
    BY <1>2, <1>4 DEF Bytes
  <1>6. got \o Bytes(c) \in Seq(0 .. MaxBytes)
    BY <1>1, <1>5, ConcatProperties
  <1>7. ASSUME c.from + c.n <= MaxBytes
        PROVE  Filled(c) \in [0 .. PAGE_SIZE - 1 -> 0 .. MaxBytes]
    <2>1. \A i \in 0 .. PAGE_SIZE - 1 : i \in c.at .. c.at + c.n - 1 =>
              c.from + i - c.at + 1 \in 0 .. MaxBytes
      <3> DEFINE a == c.at
                 n == c.n
                 f == c.from
      <3>1. a \in Nat /\ n \in Nat /\ f \in Nat /\ f + n <= MaxBytes
        BY <1>1, <1>2, <1>7
      <3> HIDE DEF a, n, f
      <3>2. \A i \in 0 .. PAGE_SIZE - 1 : i \in a .. a + n - 1 =>
                f + i - a + 1 \in 0 .. MaxBytes
        BY <1>1, <3>1
      <3> QED  BY <3>2 DEF a, n, f
    <2> QED  BY <1>1, <2>1 DEF Filled
  <1> QED  BY <1>5, <1>6, <1>7

(* Both outcomes of Copy. *)
LEMMA CopyTypes ==
    ASSUME PipeAssumption, PipeTypeOK, NEW t \in Tasks, NEW c \in ChunkSet,
           c.at + c.n <= PAGE_SIZE, c.from + c.n <= MaxBytes \/ t \in Readers,
           Copy(t, c), pc[t] = "loop"
    PROVE  /\ page' \in [0 .. PAGE_SIZE - 1 -> 0 .. MaxBytes]
           /\ got' \in Seq(0 .. MaxBytes)
           /\ pc' \in [Tasks -> {"user", "loop", "copy"}]
           /\ chunk' \in [Tasks -> ChunkSet]
           /\ cur' \in {cur, Null}
           /\ \A u \in Tasks : u # t => pc'[u] = pc[u] /\ chunk'[u] = chunk[u]
           /\ \/ /\ pc'[t] = "loop"
                 /\ got' = IF t \in Readers THEN got \o Bytes(c) ELSE got
                 /\ page' = IF t \in Writers THEN Filled(c) ELSE page
              \/ /\ pc'[t] = "copy" /\ chunk'[t] = c
                 /\ got' = got /\ page' = page
  <1>1. /\ page \in [0 .. PAGE_SIZE - 1 -> 0 .. MaxBytes]
        /\ got \in Seq(0 .. MaxBytes)
        /\ pc \in [Tasks -> {"user", "loop", "copy"}]
        /\ chunk \in [Tasks -> ChunkSet]
        /\ t \in Writers => t \notin Readers
    BY DEF PipeTypeOK, ChunkSet, PipeAssumption
  <1>2. /\ got \o Bytes(c) \in Seq(0 .. MaxBytes)
        /\ c.from + c.n <= MaxBytes =>
              Filled(c) \in [0 .. PAGE_SIZE - 1 -> 0 .. MaxBytes]
    BY ChunkTypes
  <1>3. CASE /\ got' = IF t \in Readers THEN got \o Bytes(c) ELSE got
             /\ page' = IF t \in Writers THEN Filled(c) ELSE page
             /\ UNCHANGED <<cur, pc, chunk>>
    BY <1>1, <1>2, <1>3
  <1>4. CASE /\ chunk' = [chunk EXCEPT ![t] = c]
             /\ pc' = [pc EXCEPT ![t] = "copy"]
             /\ cur' = Null
             /\ UNCHANGED <<got, page>>
    BY <1>1, <1>4
  <1> QED  BY <1>3, <1>4 DEF Copy

(* read_pipe takes a chunk *)
LEMMA ReadStep ==
    ASSUME PipeInv, PipeAssumption, NEW t \in Tasks, ReadChunk(t)
    PROVE  PipeInv'
  <1> DEFINE c == Min3(PAGE_SIZE - PIPE_TAIL, count[t], PIPE_SIZE)
             ch == [at |-> PIPE_TAIL, n |-> c, from |-> 0]
  <1>1. PipeTypeOK /\ OpenEnds /\ Chunks /\ Places /\ Alone /\ Ring
    BY DEF PipeInv
  <1>2. /\ cur = t /\ pc[t] = "loop" /\ t \in Readers
        /\ count[t] > 0 /\ PIPE_SIZE > 0
        /\ count' = [count EXCEPT ![t] = @ - c]
        /\ PIPE_TAIL' = (PIPE_TAIL + c) % PAGE_SIZE
        /\ Copy(t, ch)
        /\ race' = (race \/ \E u \in Tasks \ {t} : pc[u] = "copy")
        /\ UNCHANGED <<k, open, sigpipe, i_count, PIPE_HEAD, sent, overlap>>
    BY DEF ReadChunk, RecordRace
  <1>3. /\ PAGE_SIZE \in Nat /\ PIPE_TAIL \in 0 .. PAGE_SIZE - 1 /\ PAGE_SIZE > 0
        /\ PIPE_SIZE \in 0 .. PAGE_SIZE - 1 /\ MaxBytes \in Nat
    BY <1>1, RingTypes, SizeIsWrap
  <1>4. count \in [Tasks -> 0 .. MaxCount] /\ count[t] \in 0 .. MaxCount /\ MaxCount \in Nat
    BY <1>1 DEF PipeTypeOK, PipeAssumption
  <1>5. c \in Nat /\ c > 0 /\ c <= PAGE_SIZE - PIPE_TAIL /\ c <= count[t] /\ c <= PIPE_SIZE
    <2>1. PAGE_SIZE - PIPE_TAIL \in Nat /\ count[t] \in Nat /\ PIPE_SIZE \in Nat
          /\ PAGE_SIZE - PIPE_TAIL > 0
      BY <1>3, <1>4
    <2>2. /\ c \in {PAGE_SIZE - PIPE_TAIL, count[t], PIPE_SIZE}
          /\ c <= PAGE_SIZE - PIPE_TAIL /\ c <= count[t] /\ c <= PIPE_SIZE
      BY <2>1, Min3Least
    <2> HIDE DEF c
    <2> QED  BY <1>2, <2>1, <2>2
  <1> HIDE DEF c
  <1>6. PIPE_TAIL' = Wrap(PIPE_TAIL + c) /\ PIPE_TAIL' \in 0 .. PAGE_SIZE - 1
    <2>1. PIPE_TAIL + c \in 0 .. 2 * PAGE_SIZE - 1
      BY <1>3, <1>5
    <2> QED  BY <1>2, <2>1, ModIsWrap
  <1>7. count' \in [Tasks -> 0 .. MaxCount]
    <2>1. count[t] - c \in 0 .. MaxCount
      BY <1>4, <1>5
    <2>2. count' = [count EXCEPT ![t] = count[t] - c]
      BY <1>2
    <2> QED  BY <1>4, <2>1, <2>2
  <1>8. ch \in ChunkSet /\ ch.at + ch.n <= PAGE_SIZE
    BY <1>3, <1>5 DEF ChunkSet
  <1>9. /\ page' \in [0 .. PAGE_SIZE - 1 -> 0 .. MaxBytes]
        /\ got' \in Seq(0 .. MaxBytes)
        /\ pc' \in [Tasks -> {"user", "loop", "copy"}]
        /\ chunk' \in [Tasks -> ChunkSet]
        /\ cur' \in {cur, Null}
        /\ \A u \in Tasks : u # t => pc'[u] = pc[u] /\ chunk'[u] = chunk[u]
        /\ \/ /\ pc'[t] = "loop"
              /\ got' = IF t \in Readers THEN got \o Bytes(ch) ELSE got
              /\ page' = IF t \in Writers THEN Filled(ch) ELSE page
           \/ /\ pc'[t] = "copy" /\ chunk'[t] = ch
              /\ got' = got /\ page' = page
    BY <1>1, <1>2, <1>8, CopyTypes
  <1>10. /\ \/ pc'[t] = "loop" /\ got' = got \o Bytes(ch)
            \/ pc'[t] = "copy" /\ chunk'[t] = ch /\ got' = got
         /\ page' = page
    BY <1>2, <1>9 DEF PipeAssumption
  <1>11. PipeTypeOK'
    <2>1. race' \in BOOLEAN
      BY <1>2
    <2>2. cur' \in Tasks \cup {Null}
      BY <1>2, <1>9
    <2> HIDE DEF ch
    <2> QED  BY <1>1, <1>2, <1>6, <1>7, <1>9, <2>1, <2>2 DEF PipeTypeOK, ChunkSet
  <1>12. OpenEnds'
    <2>1. \A u \in Tasks : pc'[u] # "user" => pc[u] # "user"
      BY <1>2, <1>9
    <2> QED  BY <1>1, <1>2, <2>1 DEF OpenEnds
  <1>13. Chunks'
    <2> SUFFICES ASSUME NEW u \in Tasks, pc'[u] = "copy"
                 PROVE  /\ chunk'[u].at + chunk'[u].n <= PAGE_SIZE
                        /\ chunk'[u].from + chunk'[u].n <= sent \/ u \in Readers
      BY <1>2 DEF Chunks
    <2>1. CASE u = t
      BY <1>2, <1>8, <1>10, <2>1
    <2>2. CASE u # t
      BY <1>1, <1>9, <2>2 DEF Chunks
    <2> QED  BY <2>1, <2>2
  <1>14. Places' /\ Alone'
    BY <1>1, <1>2, <1>9, WaitSame
  <1>15. Ring'
    <2> SUFFICES ASSUME ~race' PROVE Ring'
      BY DEF Ring
    <2>1. ~race /\ \A u \in Tasks : pc[u] # "copy"
      BY <1>2
    <2>2. InRing(page, got)
      BY <1>1, <2>1 DEF Ring
    <2> DEFINE g == got \o Bytes(ch)
    <2>3. /\ Len(g) + PIPE_SIZE' = sent
          /\ \A i \in 1 .. Len(g) : g[i] = i
          /\ \A j \in 0 .. PIPE_SIZE' - 1 :
                 page[Wrap(PIPE_TAIL' + j)] = Len(g) + j + 1
      BY <1>1, <1>2, <1>5, <1>6, <2>2, RingRead
    <2>4. \A u \in Tasks : pc'[u] = "copy" => u = t
      BY <1>9, <2>1
    <2>5. t \notin Writers /\ \A u \in Writers \cup Readers : u \in Tasks
      BY <1>2 DEF PipeAssumption
    <2>6. CASE pc'[t] = "loop" /\ got' = g
      <3> HIDE DEF g, ch
      <3>1. InRing(page, got)'
        BY <1>2, <1>10, <2>3, <2>6 DEF InRing, Wrap
      <3>2. \A u \in Tasks : pc'[u] # "copy"
        BY <2>4, <2>6
      <3> QED  BY <2>5, <3>1, <3>2 DEF Ring
    <2>7. CASE pc'[t] = "copy" /\ chunk'[t] = ch /\ got' = got
      <3>1. (got \o Bytes(chunk[t]))' = g
        BY <1>10, <2>7 DEF Bytes
      <3> HIDE DEF g, ch
      <3>2. InRing(page, got \o Bytes(chunk[t]))'
        BY <1>2, <1>10, <2>3, <3>1 DEF InRing, Wrap
      <3>3. \A u \in Readers : pc'[u] = "copy" => InRing(page, got \o Bytes(chunk[u]))'
        BY <2>4, <2>5, <3>2
      <3> QED  BY <2>4, <2>5, <2>7, <3>3, <1>2 DEF Ring
    <2> QED  BY <1>10, <2>6, <2>7
  <1> QED  BY <1>11, <1>12, <1>13, <1>14, <1>15 DEF PipeInv

(* write_pipe takes room and fills it *)
LEMMA WriteStep ==
    ASSUME PipeInv, PipeAssumption, NEW t \in Tasks, WriteChunk(t)
    PROVE  PipeInv'
  <1> DEFINE c == Min3(PAGE_SIZE - PIPE_HEAD, count[t], Room)
             ch == [at |-> PIPE_HEAD, n |-> c, from |-> sent]
  <1>1. PipeTypeOK /\ OpenEnds /\ Chunks /\ Places /\ Alone /\ Ring
    BY DEF PipeInv
  <1>2. /\ cur = t /\ pc[t] = "loop" /\ t \in Writers
        /\ count[t] > 0 /\ Room > 0 /\ sent + c <= MaxBytes /\ sent' = sent + c
        /\ count' = [count EXCEPT ![t] = @ - c]
        /\ PIPE_HEAD' = (PIPE_HEAD + c) % PAGE_SIZE
        /\ Copy(t, ch)
        /\ race' = (race \/ \E u \in Tasks \ {t} : pc[u] = "copy")
        /\ UNCHANGED <<k, open, sigpipe, i_count, PIPE_TAIL, overlap>>
    BY DEF WriteChunk, RecordRace
  <1>3. /\ PAGE_SIZE \in Nat /\ PIPE_HEAD \in 0 .. PAGE_SIZE - 1 /\ PAGE_SIZE > 0
        /\ Room \in 0 .. PAGE_SIZE - 1 /\ MaxBytes \in Nat
    BY <1>1, RingTypes, SizeIsWrap
  <1>4. count \in [Tasks -> 0 .. MaxCount] /\ count[t] \in 0 .. MaxCount /\ MaxCount \in Nat
    BY <1>1 DEF PipeTypeOK, PipeAssumption
  <1>5. c \in Nat /\ c > 0 /\ c <= PAGE_SIZE - PIPE_HEAD /\ c <= count[t] /\ c <= Room
    <2>1. PAGE_SIZE - PIPE_HEAD \in Nat /\ count[t] \in Nat /\ Room \in Nat
          /\ PAGE_SIZE - PIPE_HEAD > 0
      BY <1>3, <1>4
    <2>2. /\ c \in {PAGE_SIZE - PIPE_HEAD, count[t], Room}
          /\ c <= PAGE_SIZE - PIPE_HEAD /\ c <= count[t] /\ c <= Room
      BY <2>1, Min3Least
    <2> HIDE DEF c
    <2> QED  BY <1>2, <2>1, <2>2
  <1> HIDE DEF c
  <1>6. PIPE_HEAD' = Wrap(PIPE_HEAD + c) /\ PIPE_HEAD' \in 0 .. PAGE_SIZE - 1
    <2>1. PIPE_HEAD + c \in 0 .. 2 * PAGE_SIZE - 1
      BY <1>3, <1>5
    <2> QED  BY <1>2, <2>1, ModIsWrap
  <1>7. count' \in [Tasks -> 0 .. MaxCount]
    <2>1. count[t] - c \in 0 .. MaxCount
      BY <1>4, <1>5
    <2>2. count' = [count EXCEPT ![t] = count[t] - c]
      BY <1>2
    <2> QED  BY <1>4, <2>1, <2>2
  <1>8. /\ ch \in ChunkSet /\ ch.at + ch.n <= PAGE_SIZE
        /\ ch.from + ch.n <= sent' /\ ch.from + ch.n <= MaxBytes
    <2>1. sent \in Nat /\ sent <= MaxBytes
      BY <1>1, RingTypes
    <2> QED  BY <1>2, <1>3, <1>5, <2>1 DEF ChunkSet
  <1>9. /\ page' \in [0 .. PAGE_SIZE - 1 -> 0 .. MaxBytes]
        /\ got' \in Seq(0 .. MaxBytes)
        /\ pc' \in [Tasks -> {"user", "loop", "copy"}]
        /\ chunk' \in [Tasks -> ChunkSet]
        /\ cur' \in {cur, Null}
        /\ \A u \in Tasks : u # t => pc'[u] = pc[u] /\ chunk'[u] = chunk[u]
        /\ \/ /\ pc'[t] = "loop"
              /\ got' = IF t \in Readers THEN got \o Bytes(ch) ELSE got
              /\ page' = IF t \in Writers THEN Filled(ch) ELSE page
           \/ /\ pc'[t] = "copy" /\ chunk'[t] = ch
              /\ got' = got /\ page' = page
    BY <1>1, <1>2, <1>8, CopyTypes
  <1>10. /\ \/ pc'[t] = "loop" /\ page' = Filled(ch)
            \/ pc'[t] = "copy" /\ chunk'[t] = ch /\ page' = page
         /\ got' = got
    BY <1>2, <1>9 DEF PipeAssumption
  <1>11. PipeTypeOK'
    <2>1. race' \in BOOLEAN
      BY <1>2
    <2>2. cur' \in Tasks \cup {Null}
      BY <1>2, <1>9
    <2>3. sent' \in 0 .. MaxBytes
      <3>1. sent \in Nat /\ MaxBytes \in Nat
        BY <1>1, RingTypes
      <3>2. sent' = sent + c /\ sent + c <= MaxBytes
        BY <1>2
      <3> QED  BY <1>5, <3>1, <3>2
    <2> HIDE DEF ch
    <2> QED  BY <1>1, <1>2, <1>6, <1>7, <1>9, <2>1, <2>2, <2>3 DEF PipeTypeOK, ChunkSet
  <1>12. OpenEnds'
    <2>1. \A u \in Tasks : pc'[u] # "user" => pc[u] # "user"
      BY <1>2, <1>9
    <2> QED  BY <1>1, <1>2, <2>1 DEF OpenEnds
  <1>13. Chunks'
    <2> SUFFICES ASSUME NEW u \in Tasks, pc'[u] = "copy"
                 PROVE  /\ chunk'[u].at + chunk'[u].n <= PAGE_SIZE
                        /\ chunk'[u].from + chunk'[u].n <= sent' \/ u \in Readers
      BY DEF Chunks
    <2>1. CASE u = t
      BY <1>8, <1>10, <2>1
    <2>2. CASE u # t
      <3>1. /\ chunk[u].at + chunk[u].n <= PAGE_SIZE
            /\ chunk[u].from + chunk[u].n <= sent \/ u \in Readers
            /\ chunk'[u] = chunk[u]
        BY <1>1, <1>9, <2>2 DEF Chunks
      <3>2. chunk[u] \in ChunkSet
        BY <1>1 DEF PipeTypeOK, ChunkSet
      <3> DEFINE f == chunk[u].from + chunk[u].n
      <3>3. f \in Int /\ sent \in Nat
        BY <1>1, <3>2, RingTypes DEF ChunkSet
      <3> HIDE DEF f
      <3>4. f <= sent => f <= sent'
        BY <1>2, <1>5, <3>3
      <3> QED  BY <3>1, <3>4 DEF f
    <2> QED  BY <2>1, <2>2
  <1>14. Places' /\ Alone'
    BY <1>1, <1>2, <1>9, WaitSame
  <1>15. Ring'
    <2> SUFFICES ASSUME ~race' PROVE Ring'
      BY DEF Ring
    <2>1. ~race /\ \A u \in Tasks : pc[u] # "copy"
      BY <1>2
    <2>2. InRing(page, got)
      BY <1>1, <2>1 DEF Ring
    <2> DEFINE p == Filled(ch)
    <2>3. /\ Len(got) + PIPE_SIZE' = sent'
          /\ \A j \in 0 .. PIPE_SIZE' - 1 :
                 p[Wrap(PIPE_TAIL + j)] = Len(got) + j + 1
      BY <1>1, <1>2, <1>5, <1>6, <2>2, RingWrite
    <2>4. \A u \in Tasks : pc'[u] = "copy" => u = t
      BY <1>9, <2>1
    <2>5. t \notin Readers /\ \A u \in Writers \cup Readers : u \in Tasks
      BY <1>2 DEF PipeAssumption
    <2>6. \A i \in 1 .. Len(got) : got[i] = i
      BY <2>2 DEF InRing
    <2>7. CASE pc'[t] = "loop" /\ page' = p
      <3> HIDE DEF p, ch
      <3>1. InRing(page, got)'
        BY <1>2, <1>10, <2>3, <2>6, <2>7 DEF InRing, Wrap
      <3>2. \A u \in Tasks : pc'[u] # "copy"
        BY <2>4, <2>7
      <3> QED  BY <2>5, <3>1, <3>2 DEF Ring
    <2>8. CASE pc'[t] = "copy" /\ chunk'[t] = ch /\ page' = page
      <3>1. Filled(chunk[t])' = p
        BY <1>10, <2>8 DEF Filled
      <3> HIDE DEF p, ch
      <3>2. InRing(Filled(chunk[t]), got)'
        BY <1>2, <1>10, <2>3, <2>6, <3>1 DEF InRing, Wrap
      <3>3. \A u \in Writers : pc'[u] = "copy" => InRing(Filled(chunk[u]), got)'
        BY <2>4, <2>5, <3>2
      <3> QED  BY <2>4, <2>5, <2>8, <3>3, <1>2 DEF Ring
    <2> QED  BY <1>10, <2>7, <2>8
  <1> QED  BY <1>11, <1>12, <1>13, <1>14, <1>15 DEF PipeInv

(* the copy goes on after its page fault *)
LEMMA CopyOnStep ==
    ASSUME PipeInv, PipeAssumption, NEW t \in Tasks, CopyOn(t)
    PROVE  PipeInv'
  <1>1. PipeTypeOK /\ OpenEnds /\ Chunks /\ Places /\ Alone /\ Ring
    BY DEF PipeInv
  <1>2. /\ cur = t /\ pc[t] = "copy"
        /\ got' = IF t \in Readers THEN got \o Bytes(chunk[t]) ELSE got
        /\ page' = IF t \in Writers THEN Filled(chunk[t]) ELSE page
        /\ pc' = [pc EXCEPT ![t] = "loop"]
        /\ chunk' = [chunk EXCEPT ![t] = None]
        /\ UNCHANGED <<k, cur, count, open, sigpipe, i_count, PIPE_HEAD, PIPE_TAIL,
                       sent, overlap, race>>
    BY DEF CopyOn, pipe
  <1>3. None \in ChunkSet
    BY DEF None, ChunkSet, PipeAssumption
  <1>4. /\ pc \in [Tasks -> {"user", "loop", "copy"}]
        /\ chunk \in [Tasks -> ChunkSet]
    BY <1>1 DEF PipeTypeOK, ChunkSet
  <1>5. /\ pc' \in [Tasks -> {"user", "loop", "copy"}]
        /\ chunk' \in [Tasks -> ChunkSet]
        /\ pc'[t] = "loop"
        /\ \A u \in Tasks : u # t => pc'[u] = pc[u] /\ chunk'[u] = chunk[u]
    BY <1>2, <1>3, <1>4
  <1>6. /\ t \in Readers => got' = got \o Bytes(chunk[t]) /\ page' = page
        /\ t \in Writers => got' = got /\ page' = Filled(chunk[t])
        /\ t \in Readers \/ t \in Writers
        /\ Readers \subseteq Tasks /\ Writers \subseteq Tasks
    BY <1>2 DEF PipeAssumption
  <1>7. /\ page' \in [0 .. PAGE_SIZE - 1 -> 0 .. MaxBytes]
        /\ got' \in Seq(0 .. MaxBytes)
    <2>1. /\ chunk[t] \in ChunkSet /\ chunk[t].at + chunk[t].n <= PAGE_SIZE
          /\ chunk[t].from + chunk[t].n <= sent \/ t \in Readers
      BY <1>1, <1>2, <1>4 DEF Chunks
    <2>2. chunk[t].from + chunk[t].n <= sent => chunk[t].from + chunk[t].n <= MaxBytes
      <3> DEFINE f == chunk[t].from + chunk[t].n
      <3>1. f \in Int /\ sent \in Nat /\ MaxBytes \in Nat /\ sent <= MaxBytes
        <4>1. chunk[t].from \in Int /\ chunk[t].n \in Int
          BY <2>1 DEF ChunkSet
        <4>2. f \in Int
          BY <4>1
        <4>3. sent \in Nat /\ MaxBytes \in Nat /\ sent <= MaxBytes
          BY <1>1, RingTypes
        <4> QED  BY <4>2, <4>3
      <3> HIDE DEF f
      <3>2. f <= sent => f <= MaxBytes
        BY <3>1
      <3> QED  BY <3>2 DEF f
    <2>3. /\ got \o Bytes(chunk[t]) \in Seq(0 .. MaxBytes)
          /\ chunk[t].from + chunk[t].n <= MaxBytes =>
                 Filled(chunk[t]) \in [0 .. PAGE_SIZE - 1 -> 0 .. MaxBytes]
      BY <1>1, <2>1, ChunkTypes
    <2>4. /\ page \in [0 .. PAGE_SIZE - 1 -> 0 .. MaxBytes]
          /\ got \in Seq(0 .. MaxBytes)
      BY <1>1, RingTypes
    <2>5. ~(t \in Readers /\ t \in Writers)
      BY DEF PipeAssumption
    <2> QED  BY <1>6, <2>1, <2>2, <2>3, <2>4, <2>5
  <1>8. PipeTypeOK'
    BY <1>1, <1>2, <1>5, <1>7 DEF PipeTypeOK, ChunkSet
  <1>9. OpenEnds'
    <2>1. \A u \in Tasks : pc'[u] # "user" => pc[u] # "user"
      BY <1>2, <1>5
    <2> QED  BY <1>1, <1>2, <2>1 DEF OpenEnds
  <1>10. Chunks'
    BY <1>1, <1>2, <1>5 DEF Chunks
  <1>11. Places' /\ Alone'
    BY <1>1, <1>2, WaitSame
  <1>12. Ring'
    <2> SUFFICES ASSUME ~race PROVE Ring'
      BY <1>2 DEF Ring
    <2>1. \A u \in Tasks : pc'[u] # "copy"
      BY <1>1, <1>2, <1>5 DEF Ring
    <2>2. InRing(page', got')
      <3>1. CASE t \in Readers
        BY <1>1, <1>2, <1>6, <3>1 DEF Ring
      <3>2. CASE t \in Writers
        BY <1>1, <1>2, <1>6, <3>2 DEF Ring
      <3> QED  BY <1>6, <3>1, <3>2
    <2>3. InRing(page, got)'
      BY <1>2, <2>2 DEF InRing, PIPE_SIZE, Wrap
    <2> QED  BY <1>6, <2>1, <2>3 DEF Ring
  <1> QED  BY <1>8, <1>9, <1>10, <1>11, <1>12 DEF PipeInv

LEMMA StutterStep ==
    ASSUME PipeInv, PipeAssumption, UNCHANGED pipeVars
    PROVE  PipeInv'
  <1>1. PipeTypeOK /\ OpenEnds /\ Chunks /\ Places /\ Alone /\ Ring
    BY DEF PipeInv
  <1>2. UNCHANGED <<k, cur, pc, count, chunk, open, sigpipe, overlap, race,
                    i_count, PIPE_HEAD, PIPE_TAIL, page, sent, got>>
    BY DEF pipeVars, data, pipe
  <1>3. PipeTypeOK' /\ OpenEnds' /\ Chunks'
    BY <1>1, <1>2 DEF PipeTypeOK, OpenEnds, Chunks
  <1>4. Places' /\ Alone' /\ Ring'
    BY <1>1, <1>2, WaitSame, RingSame
  <1> QED  BY <1>3, <1>4 DEF PipeInv

LEMMA StepIInv == ASSUME PipeInv, PipeAssumption, [PipeNext]_pipeVars PROVE PipeInv'
  <1>1. CASE PipeNext
    <2>1. PICK t \in Tasks : \/ schedule(t) \/ Preempt(t)
                             \/ \E n \in 1 .. MaxCount : Call(t, n)
                             \/ Finish(t) \/ Block(t)
                             \/ ReadChunk(t) \/ WriteChunk(t) \/ CopyOn(t)
                             \/ sys_close(t)
      BY <1>1 DEF PipeNext
    <2> QED  BY <2>1, ScheduleStep, UserStep, FinishStep, BlockStep, ReadStep,
                WriteStep, CopyOnStep, CloseStep
  <1>2. CASE UNCHANGED pipeVars
    BY <1>2, StutterStep
  <1> QED  BY <1>1, <1>2

-----------------------------------------------------------------------------
(* The inductive invariant holds in every state of read_pipe, write_pipe   *)
(* and sys_close.                                                          *)
THEOREM PipeInvariant == PipeSpec => []PipeInv
  <1>1. PipeInit => PipeInv
    BY InitIInv, PipeAssumption
  <1>2. PipeInv /\ [PipeNext]_pipeVars => PipeInv'
    BY StepIInv, PipeAssumption
  <1> QED  BY <1>1, <1>2, PTL DEF PipeSpec

(* The reader gets the bytes the writers wrote, all of them and in order,  *)
(* as long as no page fault lets another process into the ring.            *)
THEOREM BytesInOrder == PipeSpec => []DataIntact
  <1>1. PipeInv => DataIntact
    <2> SUFFICES ASSUME PipeInv, ~race PROVE \A i \in 1 .. Len(got) : got[i] = i
      BY DEF DataIntact
    <2>1. PipeTypeOK /\ Chunks /\ Ring
      BY DEF PipeInv
    <2>2. CASE \A t \in Tasks : pc[t] # "copy"
      BY <2>1, <2>2 DEF Ring, InRing
    <2>3. CASE \E t \in Readers : pc[t] = "copy"
      <3>1. PICK t \in Readers : pc[t] = "copy"
        BY <2>3
      <3>2. t \in Tasks
        BY PipeAssumption DEF PipeAssumption
      <3>3. chunk[t] \in ChunkSet /\ chunk[t].at + chunk[t].n <= PAGE_SIZE
        BY <2>1, <3>1, <3>2 DEF PipeTypeOK, ChunkSet, Chunks
      <3> DEFINE b == Bytes(chunk[t])
                 g == got \o b
      <3>4. b \in Seq(0 .. MaxBytes) /\ got \in Seq(0 .. MaxBytes)
        BY <2>1, <3>3, ChunkTypes, RingTypes, PipeAssumption
      <3> HIDE DEF b
      <3>5. /\ Len(g) = Len(got) + Len(b) /\ Len(b) \in Nat /\ Len(got) \in Nat
            /\ \A i \in 1 .. Len(got) + Len(b) :
                  g[i] = IF i <= Len(got) THEN got[i] ELSE b[i - Len(got)]
        BY <3>4, ConcatProperties
      <3>6. \A i \in 1 .. Len(g) : g[i] = i
        BY <2>1, <3>1 DEF Ring, InRing, b
      <3> HIDE DEF g
      <3> QED  BY <3>5, <3>6
    <2>4. CASE \E t \in Writers : pc[t] = "copy"
      BY <2>1, <2>4 DEF Ring, InRing
    <2> QED  BY <2>2, <2>3, <2>4, PipeAssumption DEF PipeAssumption
  <1> QED  BY <1>1, PipeInvariant, PTL

(* Until the first overlap some process that holds the pipe is awake.      *)
THEOREM SomebodyAwake == PipeSpec => []NoMutualWait
  <1>1. PipeInv => NoMutualWait
    <2> SUFFICES ASSUME PipeInv, ~overlap, open # {}, open \subseteq Waiting PROVE FALSE
      BY DEF NoMutualWait
    <2>1. PipeTypeOK /\ OpenEnds /\ Places /\ Alone
      BY DEF PipeInv
    <2>2. i_count = 2
      BY <2>1 DEF Alone
    <2>3. open \cap Readers # {} /\ open \cap Writers # {}
      BY <2>1, <2>2 DEF OpenEnds
    <2>4. PICK r \in open \cap Readers, w \in open \cap Writers : TRUE
      BY <2>3
    <2>5. r \in Members(k, Pipe) /\ w \in Members(k, Pipe)
      BY <2>1, <2>4 DEF Places, Members, Waiting
    <2>6. r = w
      BY <2>1, <2>5 DEF Alone
    <2> QED  BY <2>4, <2>6, PipeAssumption DEF PipeAssumption
  <1> QED  BY <1>1, PipeInvariant, PTL

(* A call returns early only when the other end is closed for good.        *)
THEOREM EarlyReturnCause == PipeSpec => EarlyReturn
  <1> DEFINE A == \A t \in Tasks : (pc[t] = "loop" /\ pc'[t] = "user" /\ count[t] > 0) =>
                    IF t \in Readers THEN open \cap Writers = {} /\ PIPE_SIZE = 0
                                     ELSE open \cap Readers = {} /\ t \in sigpipe'
  <1>1. PipeInv /\ [PipeNext]_pipeVars => [A]_pipeVars
    <2> SUFFICES ASSUME PipeInv, PipeNext, NEW t \in Tasks,
                        pc[t] = "loop", pc'[t] = "user", count[t] > 0
                 PROVE  IF t \in Readers THEN open \cap Writers = {} /\ PIPE_SIZE = 0
                                         ELSE open \cap Readers = {} /\ t \in sigpipe'
      OBVIOUS
    <2>1. PipeTypeOK /\ OpenEnds
      BY DEF PipeInv
    <2>2. pc \in [Tasks -> {"user", "loop", "copy"}]
      BY <2>1 DEF PipeTypeOK
    <2>3. PICK u \in Tasks : \/ schedule(u) \/ Preempt(u)
                             \/ \E n \in 1 .. MaxCount : Call(u, n)
                             \/ Finish(u) \/ Block(u)
                             \/ ReadChunk(u) \/ WriteChunk(u) \/ CopyOn(u)
                             \/ sys_close(u)
      BY DEF PipeNext
    <2>4. Finish(u) /\ u = t
      <3>1. CASE schedule(u) \/ Preempt(u) \/ Block(u) \/ sys_close(u)
        BY <3>1 DEF schedule, Preempt, Block, sys_close
      <3>2. CASE \E n \in 1 .. MaxCount : Call(u, n)
        BY <2>2, <3>2 DEF Call
      <3>3. CASE ReadChunk(u) \/ WriteChunk(u)
        BY <2>2, <3>3 DEF ReadChunk, WriteChunk, Copy
      <3>4. CASE CopyOn(u)
        BY <2>2, <3>4 DEF CopyOn
      <3>5. CASE Finish(u)
        BY <2>2, <3>5 DEF Finish
      <3> QED  BY <2>3, <3>1, <3>2, <3>3, <3>4, <3>5
    <2>5. t \in open /\ Available(t) = 0 /\ i_count # 2
          /\ sigpipe' = sigpipe \cup ({t} \cap Writers)
      <3>1. t \in open
        BY <2>1 DEF OpenEnds
      <3>2. ~(count[t] = 0)
        BY <2>1, PipeAssumption DEF PipeTypeOK, PipeAssumption
      <3> QED  BY <2>4, <3>1, <3>2 DEF Finish
    <2>6. CASE t \in Readers
      <3>1. open \cap Readers # {}
        BY <2>5, <2>6
      <3>2. open \cap Writers = {}
        BY <2>1, <2>5, <3>1 DEF OpenEnds
      <3> QED  BY <2>5, <2>6, <3>2 DEF Available
    <2>7. CASE t \notin Readers
      <3>1. open \cap Writers # {} /\ t \in Writers
        BY <2>5, <2>7, PipeAssumption DEF PipeAssumption
      <3>2. open \cap Readers = {}
        BY <2>1, <2>5, <3>1 DEF OpenEnds
      <3> QED  BY <2>5, <2>7, <3>1, <3>2
    <2> QED  BY <2>6, <2>7
  <1> QED  BY <1>1, PipeInvariant, PTL DEF PipeSpec, EarlyReturn
=============================================================================
