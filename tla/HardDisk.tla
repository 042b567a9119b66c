------------------------------ MODULE HardDisk ------------------------------
(***************************************************************************)
(* The hard disk driver, kernel/blk_drv/hd.c: do_hd_request, its interrupt *)
(* handlers, its retries and the reset and recalibration of the            *)
(* controller, with the buffers whose blocks it transfers.                 *)
(*                                                                         *)
(* The list of requests is the elevator of RequestQueue, carrying what the *)
(* driver keeps in a request: how many errors it met, the next sector, how *)
(* many sectors are left, and which half of the buffer is next.  A buffer  *)
(* is known by its device (a partition) and its block of two sectors.      *)
(*                                                                         *)
(* The controller is outside of the source: it answers every command it    *)
(* accepts with one interrupt a sector, until one reports an error.  A     *)
(* write command may also fail to ask for data in time, and then raises no *)
(* interrupt.                                                              *)
(***************************************************************************)
EXTENDS Naturals, Sequences

CONSTANTS Buffers,     \* <<dev, block>> of the buffers in use
          start_sect,  \* hd[].start_sect, indexed by device
          nr_sects,    \* hd[].nr_sects
          MAX_ERRORS,  \* tries a request gets
          NR_REQUEST,  \* the request slots
          Values       \* what a sector may contain

Devices == {b[1] : b \in Buffers}
Blocks  == {b[2] : b \in Buffers}
Elevator == INSTANCE RequestQueue WITH queue <- <<>>

(* the absolute sector of half h of the buffer b *)
At(b, h) == start_sect[b[1]] + 2 * b[2] + h - 1

ASSUME HardDiskAssumption ==
    /\ Buffers \subseteq Nat \X Nat
    /\ \A d \in Devices : start_sect[d] \in Nat /\ nr_sects[d] \in Nat
    /\ MAX_ERRORS \in Nat \ {0}
    /\ NR_REQUEST \in Nat
    /\ 0 \in Values

(* The partitions in use do not overlap (hd[0], the whole disk, is not in  *)
(* use beside its partitions), and no buffer is for a block behind the end *)
(* of its partition, which do_hd_request would not notice.                 *)
ASSUME NoOverlap ==
    \A b, c \in Buffers : \A h, g \in {1, 2} :
        At(b, h) = At(c, g) => b = c /\ h = g

READ  == Elevator!READ
WRITE == Elevator!WRITE

VARIABLES
  list,         \* the requests, the first one is CURRENT_REQ
  buf,          \* [lock, dirt, uptodate, data] of each buffer
  disk,         \* the contents of the absolute sectors
  do_hd,        \* the interrupt handler
  reset, recalibrate,
  run,          \* do_hd_request is at its label repeat
  ctl           \* the command the controller is working on

vars == <<list, buf, disk, do_hd, reset, recalibrate, run, ctl>>

Handlers == {"none", "read_intr", "write_intr", "recal_intr"}
Idle == [cmd |-> "none", sector |-> 0, left |-> 0, data |-> 0]
Sectors == UNION {{At(b, 1), At(b, 2)} : b \in Buffers}

Init == /\ list = <<>>
        /\ buf = [b \in Buffers |-> [lock |-> FALSE, dirt |-> FALSE,
                     uptodate |-> FALSE, data |-> [h \in {1, 2} |-> 0]]]
        /\ disk = [s \in Sectors |-> 0]
        /\ do_hd = "none"
        /\ reset = FALSE /\ recalibrate = FALSE
        /\ run = FALSE
        /\ ctl = Idle

Id(r) == <<r.dev, r.block>>
Sector(r) == start_sect[r.dev] + r.start_sector

-----------------------------------------------------------------------------
(* A process changes a buffer it has read, also while the buffer is locked *)
(* because it is being written.                                            *)
Modify(b, v) ==
    /\ ~run /\ buf[b].uptodate
    /\ buf' = [buf EXCEPT ![b].data = [h \in {1, 2} |-> v],
                          ![b].dirt = TRUE]
    /\ UNCHANGED <<list, disk, do_hd, reset, recalibrate, run, ctl>>

(* make_request and add_request: lock the buffer and list its request; the *)
(* driver is started when the list was empty.                              *)
make_request(b, rw) ==
    LET r == [cmd |-> rw, dev |-> b[1], block |-> b[2], errors |-> 0,
              start_sector |-> 2 * b[2], nr_sectors |-> 2, buffer |-> 1]
    IN /\ ~run /\ ~buf[b].lock /\ Len(list) < NR_REQUEST
       /\ IF rw = WRITE THEN buf[b].dirt ELSE ~buf[b].uptodate
       /\ buf' = [buf EXCEPT ![b].lock = TRUE, ![b].dirt = FALSE]
       /\ \/ list = <<>> /\ list' = <<r>> /\ run' = TRUE
          \/ \E i \in 1 .. Len(list) :
                 /\ Elevator!InsertPoint(list, r, i)
                 /\ list' = Elevator!InsertAfter(list, i, r)
                 /\ run' = run
       /\ UNCHANGED <<disk, do_hd, reset, recalibrate, ctl>>

-----------------------------------------------------------------------------
(* Faulty variant: a failure goes unnoticed. *)
end_requestBlind(bf, uptodate) ==
    [bf EXCEPT ![Id(list[1])].uptodate = TRUE, ![Id(list[1])].lock = FALSE]

(* end_request: the buffers bf with that of the current request unlocked   *)
end_request(bf, uptodate) ==
    [bf EXCEPT ![Id(list[1])].uptodate = uptodate,
               ![Id(list[1])].lock     = FALSE]

(* Faulty variant: a request is tried for ever. *)
bad_rw_intrForever ==
    /\ list' = [list EXCEPT ![1].errors = IF @ + 1 < MAX_ERRORS THEN @ + 1 ELSE @]
    /\ reset' = (reset \/ list'[1].errors > MAX_ERRORS \div 2)
    /\ UNCHANGED buf

(* Faulty variant: a request that failed is tried again after the others. *)
bad_rw_intrLater ==
    /\ list' = Append(Tail(list), list[1])
    /\ reset' = TRUE
    /\ UNCHANGED buf

(* An error of the current request.  When that was its last try and no     *)
(* request follows, the errors field is read through the NULL pointer, and *)
(* the value found there decides about reset.                              *)
bad_rw_intr ==
    LET last == list[1].errors + 1 >= MAX_ERRORS
    IN /\ buf' = IF last THEN end_request(buf, FALSE) ELSE buf
       /\ list' = IF last THEN Tail(list)
                  ELSE [list EXCEPT ![1].errors = @ + 1]
       /\ IF list' = <<>> THEN reset' \in {reset, TRUE}
          ELSE reset' = (reset \/ list'[1].errors > MAX_ERRORS \div 2)

(* hd_out: set the handler and give the controller a command *)
hd_out(cmd, sector, nsect, data, intr_addr) ==
    /\ do_hd' = intr_addr
    /\ ctl' = [cmd |-> cmd, sector |-> sector, left |-> nsect, data |-> data]

(* CHECK_REQUEST finds the list empty *)
NoRequest ==
    /\ run /\ list = <<>>
    /\ run' = FALSE
    /\ UNCHANGED <<list, buf, disk, do_hd, reset, recalibrate, ctl>>

Refused(r) == r.nr_sectors > nr_sects[r.dev]

BadPartition ==
    /\ run /\ list # <<>> /\ Refused(list[1])
    /\ buf' = end_request(buf, FALSE)
    /\ list' = Tail(list)
    /\ UNCHANGED <<disk, do_hd, reset, recalibrate, run, ctl>>

Starting == run /\ list # <<>> /\ ~Refused(list[1])

reset_hd ==
    /\ Starting /\ reset
    /\ reset' = FALSE /\ recalibrate' = TRUE
    /\ hd_out("specify", 0, 0, 0, "recal_intr")
    /\ run' = FALSE
    /\ UNCHANGED <<list, buf, disk>>

Recalibrate ==
    /\ Starting /\ ~reset /\ recalibrate
    /\ recalibrate' = FALSE
    /\ hd_out("restore", 0, 0, 0, "recal_intr")
    /\ run' = FALSE
    /\ UNCHANGED <<list, buf, disk, reset>>

Ready(cmd) == Starting /\ ~reset /\ ~recalibrate /\ list[1].cmd = cmd

(* the data of the next half of the current request's buffer *)
Half(r) == buf[Id(r)].data[r.buffer]

StartRead ==
    LET r == list[1]
    IN /\ Ready(READ)
       /\ hd_out("read", Sector(r), r.nr_sectors, 0, "read_intr")
       /\ run' = FALSE
       /\ UNCHANGED <<list, buf, disk, reset, recalibrate>>

(* the controller asks for the data, and gets the first sector *)
StartWrite ==
    LET r == list[1]
    IN /\ Ready(WRITE)
       /\ hd_out("write", Sector(r), r.nr_sectors, Half(r), "write_intr")
       /\ run' = FALSE
       /\ UNCHANGED <<list, buf, disk, reset, recalibrate>>

(* the loop that waits for DRQ_STAT runs out: an error, and goto repeat *)
WriteTimeout ==
    /\ Ready(WRITE)
    /\ do_hd' = "write_intr"
    /\ bad_rw_intr
    /\ UNCHANGED <<disk, recalibrate, run, ctl>>

-----------------------------------------------------------------------------
(* hd_interrupt calls do_hd, and clears it *)
Interrupt(handler) == ctl.cmd # "none" /\ do_hd = handler

(* the controller goes on with the next sector, if one is left *)
NextSector(data) ==
    ctl' = IF ctl.left <= 1 THEN Idle
           ELSE [ctl EXCEPT !.sector = @ + 1, !.left = @ - 1, !.data = data]

(* win_result reports an error, and the command ends *)
rw_intr_bad(handler) ==
    /\ Interrupt(handler)
    /\ bad_rw_intr
    /\ run' = TRUE
    /\ do_hd' = "none"
    /\ ctl' = Idle
    /\ disk' \in {disk} \cup
           (IF ctl.cmd = "write"
            THEN {[disk EXCEPT ![ctl.sector] = ctl.data]} ELSE {})
    /\ UNCHANGED recalibrate

(* Faulty variant: the sector to go on with after an error stays behind. *)
AdvancedInPlace(r) == [r EXCEPT !.buffer = @ + 1, !.nr_sectors = @ - 1]

(* the current request after one more sector *)
Advanced(r) == [r EXCEPT !.buffer = @ + 1, !.start_sector = @ + 1,
                         !.nr_sectors = @ - 1]

read_intr ==
    LET r    == list[1]
        bf   == [buf EXCEPT ![Id(r)].data[r.buffer] = disk[ctl.sector]]
        more == r.nr_sectors > 1
    IN /\ Interrupt("read_intr")
       /\ list' = IF more
                  THEN [list EXCEPT ![1] = [Advanced(r) EXCEPT !.errors = 0]]
                  ELSE Tail(list)
       /\ buf' = IF more THEN bf ELSE end_request(bf, TRUE)
       /\ do_hd' = IF more THEN "read_intr" ELSE "none"
       /\ run' = ~more
       /\ NextSector(0)
       /\ UNCHANGED <<disk, reset, recalibrate>>

write_intr ==
    LET r    == list[1]
        more == r.nr_sectors > 1
    IN /\ Interrupt("write_intr")
       /\ disk' = [disk EXCEPT ![ctl.sector] = ctl.data]
       /\ list' = IF more THEN [list EXCEPT ![1] = Advanced(r)] ELSE Tail(list)
       /\ buf' = IF more THEN buf ELSE end_request(buf, TRUE)
       /\ do_hd' = IF more THEN "write_intr" ELSE "none"
       /\ run' = ~more
       /\ NextSector(IF more THEN Half(Advanced(r)) ELSE 0)
       /\ UNCHANGED <<reset, recalibrate>>

recal_intr ==
    /\ Interrupt("recal_intr")
    /\ run' = TRUE
    /\ do_hd' = "none"
    /\ ctl' = Idle
    /\ UNCHANGED <<list, buf, disk, reset, recalibrate>>

do_hd_request == \/ NoRequest \/ BadPartition \/ reset_hd \/ Recalibrate
                 \/ StartRead \/ StartWrite \/ WriteTimeout

hd_interrupt == \/ read_intr \/ write_intr \/ recal_intr
                \/ \E handler \in Handlers \ {"none"} : rw_intr_bad(handler)

Next == \/ \E b \in Buffers : \/ \E v \in Values : Modify(b, v)
                              \/ \E rw \in {READ, WRITE} : make_request(b, rw)
        \/ do_hd_request
        \/ hd_interrupt

Spec == Init /\ [][Next]_vars

(* The driver's code runs to its end, and the controller answers. *)
FairSpec == Spec /\ WF_vars(do_hd_request) /\ WF_vars(hd_interrupt)

-----------------------------------------------------------------------------
Entries == [cmd : {READ, WRITE}, dev : Devices, block : Blocks,
            errors : 0 .. MAX_ERRORS - 1, start_sector : Nat,
            nr_sectors : {1, 2}, buffer : {1, 2}]
Contents == [lock : BOOLEAN, dirt : BOOLEAN, uptodate : BOOLEAN,
             data : [{1, 2} -> Values]]

TypeOK == /\ list \in Seq(Entries)
          /\ buf \in [Buffers -> Contents]
          /\ disk \in [Sectors -> Values]
          /\ do_hd \in Handlers
          /\ reset \in BOOLEAN /\ recalibrate \in BOOLEAN /\ run \in BOOLEAN
          /\ ctl \in [cmd : {"none", "specify", "restore", "read", "write"},
                      sector : Nat, left : Nat, data : Values]

HandlerFor == [specify |-> "recal_intr", restore |-> "recal_intr",
               read |-> "read_intr", write |-> "write_intr"]

(* Driver and controller agree: while a command is under way there is a    *)
(* current request, the handler is the one for the command, and the sector *)
(* the controller is at is the one the driver would ask for again after an *)
(* error.                                                                  *)
InStep ==
    ctl.cmd # "none" =>
        /\ ~run /\ list # <<>>
        /\ do_hd = HandlerFor[ctl.cmd]
        /\ ctl.cmd \in {"read", "write"} =>
              /\ list[1].cmd = IF ctl.cmd = "read" THEN READ ELSE WRITE
              /\ ctl.sector = Sector(list[1])
              /\ ctl.left = list[1].nr_sectors

(* What blk.h says of b_uptodate: "uptodate means data which in memory is  *)
(* the same as data in disk".  It holds of every unlocked buffer that was  *)
(* not changed since, across retries in the middle of a block, resets, and *)
(* changes to the buffer during its transfer.                              *)
SameOnDisk ==
    \A b \in Buffers :
        buf[b].uptodate /\ ~buf[b].lock /\ ~buf[b].dirt =>
            \A h \in {1, 2} : buf[b].data[h] = disk[At(b, h)]

(* The requests behind the current one, whatever the driver did to those   *)
(* before them, form the list the elevator builds.                         *)
Abstract(l) == [i \in 1 .. Len(l) |->
    [cmd |-> l[i].cmd, dev |-> l[i].dev, block |-> l[i].block]]
Queue == INSTANCE RequestQueue WITH queue <- Abstract(list)
ImplementsElevator == Queue!QueueSpec

(* A listed request is for a locked buffer, which no other request is for, *)
(* and its fields agree on how far the transfer came.                      *)
Listed ==
    \A i \in 1 .. Len(list) :
        /\ Id(list[i]) \in Buffers
        /\ buf[Id(list[i])].lock
        /\ list[i].nr_sectors = 3 - list[i].buffer
        /\ list[i].start_sector = 2 * list[i].block + list[i].buffer - 1
OnlyOnce == \A i, j \in 1 .. Len(list) : Id(list[i]) = Id(list[j]) => i = j

(* The half already transferred is the same in memory and on the disk,     *)
(* unless a process changed the buffer since.                              *)
Moved ==
    \A i \in 1 .. Len(list) : \A h \in {1, 2} :
        LET b == Id(list[i])
        IN h < list[i].buffer =>
               buf[b].dirt \/ buf[b].data[h] = disk[At(b, h)]

(* What the controller is about to write is the next half of the buffer,   *)
(* unless a process changed that since.                                    *)
Sending ==
    ctl.cmd = "write" =>
        buf[Id(list[1])].dirt \/ ctl.data = Half(list[1])

StepInv == TypeOK /\ Listed /\ OnlyOnce /\ InStep
IInv == StepInv /\ Moved /\ Sending /\ SameOnDisk

(* Every request ends: its buffer is unlocked, however often the           *)
(* controller fails.                                                       *)
EveryRequestEnds == \A b \in Buffers : buf[b].lock ~> ~buf[b].lock
=============================================================================
