---------------------------- MODULE FileSystem ----------------------------
(***************************************************************************)
(* Inodes, directories, bitmaps and the system calls on path names:        *)
(* fs/inode.c, fs/bitmap.c, fs/truncate.c, fs/namei.c, fs/open.c.          *)
(*                                                                         *)
(* A process runs a list of operations.  It keeps the processor (cur) up   *)
(* to an operation that begins with a read of a block, in which it may     *)
(* sleep, or up to the lock of an inode, for which it waits; what lies     *)
(* between two such points is one stretch nobody else can interrupt.       *)
(*                                                                         *)
(* The inode table is indexed by the inode number: that a number is in the *)
(* table once is what iget's search establishes, and new_inode is watched  *)
(* for the opposite.  A directory and a file have one block; a directory   *)
(* has all its entries from the beginning, "." and ".." only in the link   *)
(* counts.  Blocks are read without errors, calls come from the super      *)
(* user.  Mounted file systems and device nodes are left out.              *)
(*                                                                         *)
(* The code has sleeps its authors did not protect.  The history variable  *)
(* flaws records which of them was hit; the properties are about what      *)
(* happens before.                                                         *)
(***************************************************************************)
EXTENDS Integers, Sequences, FiniteSets

CONSTANTS Tasks, Null,
          Inodes,      \* inode numbers 1 .. n; 1 is the root
          Zones,       \* block numbers 1 .. m; 1 is the root directory's
          Slots,       \* entries of a directory
          Requests     \* the system calls each process makes

ROOT_INO == 1
Calls == {"open", "mknod", "mkdir", "rmdir", "unlink", "link", "chmod",
          "sync"}
Flags == {"O_CREAT", "O_EXCL", "O_TRUNC"}

Request == [call : Calls, path : Seq(STRING), new : Seq(STRING), flags : SUBSET Flags]

ASSUME FsAssumption ==
    /\ IsFiniteSet(Tasks) /\ IsFiniteSet(Inodes) /\ IsFiniteSet(Zones)
    /\ Inodes = 1 .. Cardinality(Inodes) /\ Zones = 1 .. Cardinality(Zones)
    /\ 1 \in Inodes /\ 1 \in Zones /\ Slots \in Nat
    /\ Null \notin Tasks
    /\ \A t \in Tasks : \A q \in Requests[t] :
         /\ q \in Request
         /\ q.call # "sync" => q.path # <<>>
         /\ q.call = "link" => q.new # <<>>

VARIABLES
  disk,    \* the inodes on disk, buffers included
  core,    \* the inode table
  dirs,    \* the directory blocks
  imap, zmap,   \* the bits set in the inode and zone bitmaps
  r,       \* the processes
  cur,     \* the running process
  panic,   \* history: the kernel called panic()
  flaws    \* history: the unprotected sleeps that were hit
vars == <<disk, core, dirs, imap, zmap, r, cur, panic, flaws>>

Min(S) == CHOOSE x \in S : \A y \in S : x <= y

Op(op, n) == [op |-> op, n |-> n, z |-> 0]
iput(n)   == Op("iput", n)

Free      == [ino |-> 0, name |-> "none"]     \* an unused directory entry
Blank     == [nlinks |-> 0, mode |-> "none", zone |-> 0]
Unused    == [nlinks |-> 0, mode |-> "none", zone |-> 0, in |-> FALSE,
              count |-> 0, dirt |-> FALSE, lock |-> FALSE]
d_inode(m) == [nlinks |-> m.nlinks, mode |-> m.mode, zone |-> m.zone]

(* A process in user mode; fd is the file it has open. *)
User(fd) == [todo |-> <<>>, call |-> "none", path |-> <<>>, new |-> <<>>,
             flags |-> {}, dir |-> 0, inode |-> 0, nr |-> 0, slot |-> 0,
             zone |-> 0, fd |-> fd]

RootDir == [nlinks |-> 2, mode |-> "dir", zone |-> 1]

Init == /\ disk = [n \in Inodes |-> IF n = ROOT_INO THEN RootDir ELSE Blank]
        /\ core = [n \in Inodes |->
              IF n = ROOT_INO
              THEN [nlinks |-> 2, mode |-> "dir", zone |-> 1, in |-> TRUE,
                    count |-> 1, dirt |-> FALSE, lock |-> FALSE]
              ELSE Unused]
        /\ dirs = [z \in Zones |-> [i \in 1 .. Slots |-> Free]]
        /\ imap = {ROOT_INO} /\ zmap = {1}
        /\ r = [t \in Tasks |-> User(0)]
        /\ cur = Null /\ panic = FALSE /\ flaws = {}

Ops == {"walk", "find", "iget", "read", "add", "mkdir", "open", "namei", "chmod",
        "unlink", "unlink2", "rmdir", "empty_dir", "rmdir2", "iput", "truncate",
        "free_block", "free_inode", "lock", "write", "nlinks--", "nlinks=0",
        "nlinks++", "brelse", "fd", "create_block", "bread", "copy"}
Modes     == {"none", "reg", "dir"}
Ino0      == Inodes \cup {0}
Zone0     == Zones \cup {0}
Operation == [op : Ops, n : Ino0, z : Zone0]
Process   == [todo : Seq(Operation), call : Calls \cup {"none", "namei"},
              path : Seq(STRING), new : Seq(STRING), flags : SUBSET Flags,
              dir : Ino0, inode : Ino0, nr : Ino0, slot : 0 .. Slots,
              zone : Zone0, fd : Ino0]
Minode    == [nlinks : Int, mode : Modes, zone : Zone0, in : BOOLEAN,
              count : Nat, dirt : BOOLEAN, lock : BOOLEAN]

TypeOK ==
    /\ disk \in [Inodes -> [nlinks : Int, mode : Modes, zone : Zone0]]
    /\ core \in [Inodes -> Minode]
    /\ dirs \in [Zones -> [1 .. Slots -> [ino : Ino0, name : STRING \cup {"none"}]]]
    /\ imap \subseteq Inodes /\ zmap \subseteq Zones
    /\ r \in [Tasks -> Process]
    /\ cur \in Tasks \cup {Null} /\ panic \in BOOLEAN

-----------------------------------------------------------------------------
(* Operations that begin with a read of a block. *)
Sleeps == {"find", "add", "read", "write", "free_block", "mkdir", "empty_dir",
           "brelse", "unlink2", "rmdir2", "create_block", "bread", "copy"}

Now(t, op) == /\ cur \in {t, Null}
              /\ r[t].todo # <<>> /\ Head(r[t].todo).op = op
Arg(t)  == Head(r[t].todo).n
Rest(t) == Tail(r[t].todo)

(* t goes on with rec: it may lose the processor at an operation that      *)
(* sleeps, and does when the call returns.                                 *)
Return(p) == IF p.todo = <<>> THEN User(p.fd) ELSE p
Go(t, rec) ==
    /\ r' = [r EXCEPT ![t] = Return(rec)]
    /\ cur' = IF rec.todo = <<>> \/ Head(rec.todo).op \in Sleeps THEN Null ELSE t
Do(t, ops) == Go(t, [r[t] EXCEPT !.todo = ops])

(* What t holds is put in this order, and the call is over: a failure, or  *)
(* the end of a successful call.                                           *)
(* Faulty variant: the directory's reference is lost.                      *)
PutDirNever(t) == <<>>
PutDir(t)      == <<iput(r[t].dir)>>
PutInode(t)    == <<iput(r[t].inode)>>
Put(t, ops)    == Go(t, [r[t] EXCEPT !.todo = ops, !.dir = 0, !.inode = 0])
PutAll(t)      == IF r[t].inode = 0 THEN PutDir(t) ELSE PutDir(t) \o PutInode(t)

Locked(n) == core[n].lock
(* wait_on_inode, lock_inode: sleep until the inode is unlocked *)
wait_on_inode(t) ==
    /\ cur = t /\ r[t].todo # <<>>
    /\ \/ Head(r[t].todo).op \in {"iput", "lock"} /\ Locked(Arg(t))
       \/ Head(r[t].todo).op = "iget" /\ Locked(r[t].nr)
    /\ cur' = Null
    /\ UNCHANGED <<disk, core, dirs, imap, zmap, r, panic, flaws>>

-----------------------------------------------------------------------------
(* The system calls. get_dir starts at the root directory. *)
Call(t, q) ==
    /\ cur = Null /\ r[t].todo = <<>> /\ q.call # "sync"
    /\ q.call = "open" => r[t].fd = 0
    /\ Go(t, [User(r[t].fd) EXCEPT
                !.call = IF q.call = "link" THEN "namei" ELSE q.call,
                !.path = q.path, !.new = q.new, !.flags = q.flags,
                !.dir = ROOT_INO, !.todo = <<Op("walk", 0)>>])
    /\ core' = [core EXCEPT ![ROOT_INO].count = @ + 1]
    /\ UNCHANGED <<disk, dirs, imap, zmap, panic, flaws>>

sys_close(t) ==
    /\ cur = Null /\ r[t].todo = <<>> /\ r[t].fd # 0
    /\ Go(t, [User(0) EXCEPT !.todo = <<iput(r[t].fd)>>])
    /\ UNCHANGED <<disk, core, dirs, imap, zmap, panic, flaws>>

(* the inodes part of sys_sync: write_inode for every dirty inode *)
sync_inodes(t) ==
    /\ cur = Null /\ r[t].todo = <<>> /\ \E n \in Inodes : core[n].dirt
    /\ \E q \in Requests[t] : q.call = "sync"
    /\ Do(t, [n \in Inodes |-> Op("lock", n)])
    /\ UNCHANGED <<disk, core, dirs, imap, zmap, panic, flaws>>

-----------------------------------------------------------------------------
(* write_inode: the inode is locked while its block is read *)
lock_inode(t) ==
    LET n == Arg(t)
    IN /\ Now(t, "lock") /\ ~Locked(n)
       /\ IF core[n].dirt
          THEN /\ core' = [core EXCEPT ![n].lock = TRUE]
               /\ Do(t, <<Op("write", n)>> \o Rest(t))
          ELSE Do(t, Rest(t)) /\ UNCHANGED core
       /\ UNCHANGED <<disk, dirs, imap, zmap, panic, flaws>>

write_inode(t) ==
    LET n == Arg(t)
    IN /\ Now(t, "write")
       /\ disk' = [disk EXCEPT ![n] = d_inode(core[n])]
       /\ core' = [core EXCEPT ![n].dirt = FALSE, ![n].lock = FALSE]
       /\ Do(t, Rest(t))
       /\ UNCHANGED <<dirs, imap, zmap, panic, flaws>>

MustWrite(n) == core[n].dirt
(* Faulty variant: other references are not looked at. *)
LastAlways(n) == TRUE
Last(n) == core[n].count = 1

(* iput: the last reference to an inode without links frees it, that to a  *)
(* changed one writes it and tries again                                   *)
Iput(t) ==
    LET n == Arg(t)
    IN /\ Now(t, "iput") /\ ~Locked(n)
       /\ panic' = (panic \/ core[n].count = 0)
       /\ \/ /\ ~Last(n) \/ (core[n].nlinks > 0 /\ ~MustWrite(n))
             /\ core' = [core EXCEPT ![n].count = IF @ = 0 THEN 0 ELSE @ - 1]
             /\ Do(t, Rest(t))
          \/ /\ Last(n) /\ core[n].nlinks = 0
             /\ Do(t, <<Op("truncate", n), Op("free_inode", n)>> \o Rest(t))
             /\ UNCHANGED core
          \/ /\ Last(n) /\ core[n].nlinks > 0 /\ MustWrite(n)
             /\ Do(t, <<Op("lock", n)>> \o r[t].todo)
             /\ UNCHANGED core
       /\ UNCHANGED <<disk, dirs, imap, zmap, flaws>>

(* truncate: free_block may sleep before it clears the bit *)
truncate(t) ==
    LET n == Arg(t)
        z == core[n].zone
    IN /\ Now(t, "truncate")
       /\ \/ core[n].mode = "none" /\ Do(t, Rest(t)) /\ UNCHANGED core
          \/ /\ core[n].mode # "none" /\ z # 0
             /\ Do(t, <<[op |-> "free_block", n |-> n, z |-> z]>> \o Rest(t))
             /\ UNCHANGED core
          \/ /\ core[n].mode # "none" /\ z = 0
             /\ core' = [core EXCEPT ![n].dirt = TRUE] /\ Do(t, Rest(t))
       /\ UNCHANGED <<disk, dirs, imap, zmap, panic, flaws>>

(* the processes that have a buffer of the block in use *)
Users(z) == {u \in Tasks : /\ r[u].todo # <<>> /\ r[u].zone = z
                           /\ Head(r[u].todo).op = "copy"}

(* free_block, then i_zone = 0: a buffer in use makes it give up, and a    *)
(* bit that is clear already makes it panic                                *)
free_block(t) ==
    LET n == Arg(t)
        z == Head(r[t].todo).z
    IN /\ Now(t, "free_block")
       /\ zmap' = IF Users(z) = {} THEN zmap \ {z} ELSE zmap
       /\ panic' = (panic \/ (Users(z) = {} /\ z \notin zmap))
       /\ flaws' = flaws \cup {f \in {"block in use"} : Users(z) # {}}
                         \cup {f \in {"truncated twice"} : core[n].zone # z}
       /\ core' = [core EXCEPT ![n].zone = 0, ![n].dirt = TRUE]
       /\ Do(t, Rest(t))
       /\ UNCHANGED <<disk, dirs, imap>>

(* Faulty variant: the bit stays set. *)
InodeKept(n) == imap
InodeFreed(n) == imap \ {n}

free_inode(t) ==
    LET n == Arg(t)
    IN /\ Now(t, "free_inode")
       /\ panic' = (panic \/ core[n].count > 1 \/ core[n].nlinks > 0)
       /\ flaws' = flaws \cup {f \in {"freed while written"} : Locked(n)}
       /\ imap' = InodeFreed(n)
       /\ core' = [core EXCEPT ![n] = Unused]
       /\ Do(t, Rest(t))
       /\ UNCHANGED <<disk, dirs, zmap>>

-----------------------------------------------------------------------------
(* get_empty_inode may drop an inode nobody uses from the table; 0 stands  *)
(* for an empty place.                                                     *)
Droppable == {0} \cup {n \in Inodes : /\ core[n].in /\ core[n].count = 0
                                      /\ ~core[n].dirt /\ ~Locked(n)}
Dropped(n) == IF n = 0 THEN core ELSE [core EXCEPT ![n] = Unused]

(* iget returns to get_dir, which goes into the directory, or to its caller *)
Gotten(t) ==
    IF Head(Rest(t)).op = "walk"
    THEN [r[t] EXCEPT !.todo = Rest(t), !.dir = r[t].nr, !.nr = 0]
    ELSE [r[t] EXCEPT !.todo = Rest(t), !.inode = r[t].nr, !.nr = 0]

(* a number somebody is about to free *)
Freeing(n) == \E u \in Tasks : \E i \in DOMAIN r[u].todo :
                 r[u].todo[i].op = "free_inode" /\ r[u].todo[i].n = n

iget(t) ==
    LET n == r[t].nr
    IN /\ Now(t, "iget") /\ ~Locked(n)
       /\ \E e \in Droppable :
            LET table == Dropped(e)
            IN IF table[n].in
               THEN /\ core' = [table EXCEPT ![n].count = @ + 1]
                    /\ Go(t, Gotten(t))
               ELSE /\ core' = [table EXCEPT ![n] = [@ EXCEPT !.in = TRUE,
                                   !.count = 1, !.lock = TRUE]]
                    /\ Do(t, <<Op("read", n)>> \o Rest(t))
       /\ flaws' = flaws \cup {f \in {"stale number"} : n \notin imap \/ Freeing(n)}
       /\ UNCHANGED <<disk, dirs, imap, zmap, panic>>

(* read_inode after its block was read *)
read_inode(t) ==
    LET n == Arg(t)
    IN /\ Now(t, "read")
       /\ core' = [core EXCEPT ![n] = [@ EXCEPT !.nlinks = disk[n].nlinks,
              !.mode = disk[n].mode, !.zone = disk[n].zone, !.lock = FALSE]]
       /\ Go(t, Gotten(t))
       /\ UNCHANGED <<disk, dirs, imap, zmap, panic, flaws>>

-----------------------------------------------------------------------------
(* permission: nobody may use a deleted directory *)
permission(n) == core[n].nlinks > 0

(* get_dir, dir_namei: one more directory, or the name in the last one *)
get_dir(t) ==
    /\ Now(t, "walk")
    /\ IF core[r[t].dir].mode # "dir" \/ ~permission(r[t].dir)
       THEN Put(t, PutAll(t))
       ELSE Do(t, <<Op("find", 0)>>)
    /\ UNCHANGED <<disk, core, dirs, imap, zmap, panic, flaws>>

Entries(d) == IF core[d].zone = 0 THEN [i \in {} |-> Free] ELSE dirs[core[d].zone]
find_entry(d, name) == {i \in DOMAIN Entries(d) :
                          Entries(d)[i].ino # 0 /\ Entries(d)[i].name = name}

(* new_inode: the first free number *)
NewInode(mode) ==
    [nlinks |-> 1, mode |-> mode, zone |-> 0, in |-> TRUE, count |-> 1, dirt |-> TRUE,
     lock |-> FALSE]

(* new_block: the first free block *)
new_block == Min(Zones \ zmap)

(* the calls that make a new file *)
Creates(t) == \/ r[t].call \in {"mknod", "mkdir"}
              \/ /\ r[t].call = "open" /\ "O_CREAT" \in r[t].flags
                 /\ permission(r[t].dir)

(* The name is not there: open with O_CREAT, mknod and mkdir make an       *)
(* inode, link goes on to its entry, the others fail.                      *)
NotFound(t) ==
    LET n == Min(Inodes \ imap)
        z == new_block
        mode == IF r[t].call = "mkdir" THEN "none" ELSE "reg"
        made == [r[t] EXCEPT !.inode = n, !.todo = <<Op("add", 0)>>]
    IN IF r[t].call = "link" THEN /\ Do(t, <<Op("add", 0)>>)
                                  /\ UNCHANGED <<core, imap, zmap, flaws>>
       ELSE IF ~Creates(t) \/ imap = Inodes
       THEN Put(t, PutAll(t)) /\ UNCHANGED <<core, imap, zmap, flaws>>
       ELSE \E e \in Droppable :
              /\ core' = [Dropped(e) EXCEPT ![n] = NewInode(mode)]
              /\ imap' = imap \cup {n}
              /\ flaws' = flaws \cup {f \in {"stale number"} :
                              core[n].in \/ \E u \in Tasks : r[u].nr = n}
              /\ IF r[t].call # "mkdir" THEN Go(t, made) /\ UNCHANGED zmap
                 ELSE IF zmap = Zones
                 THEN /\ Put(t, PutDir(t) \o <<Op("nlinks--", n), iput(n)>>)
                      /\ UNCHANGED zmap
                 ELSE /\ Go(t, [made EXCEPT !.zone = z, !.todo = <<Op("mkdir", 0)>>])
                      /\ zmap' = zmap \cup {z}

(* The name is there, with inode number nr.  Most callers put the          *)
(* directory, which may sleep, before they get the inode.                  *)
Found(t, i, nr) ==
    LET get(op) == Go(t, [r[t] EXCEPT !.nr = nr, !.dir = 0,
                             !.todo = <<iput(r[t].dir), Op("iget", 0), Op(op, 0)>>])
    IN CASE r[t].call \in {"mknod", "mkdir", "link"} -> Put(t, PutAll(t))
         [] r[t].call = "open" /\ "O_EXCL" \in r[t].flags -> Put(t, PutDir(t))
         [] r[t].call = "open" /\ "O_EXCL" \notin r[t].flags -> get("open")
         [] r[t].call \in {"namei", "chmod"} -> get(r[t].call)
         [] OTHER -> Go(t, [r[t] EXCEPT !.nr = nr, !.slot = i,
                               !.todo = <<Op("iget", 0), Op(r[t].call, 0)>>])

(* find_entry, for a directory on the way or for the last name *)
Find(t) ==
    LET d == r[t].dir
        S == find_entry(d, Head(r[t].path))
        i == Min(S)
        nr == Entries(d)[i].ino
    IN /\ Now(t, "find")
       /\ IF S = {}
          THEN IF Len(r[t].path) > 1
               THEN Put(t, PutAll(t)) /\ UNCHANGED <<core, imap, zmap, flaws>>
               ELSE NotFound(t)
          ELSE /\ IF Len(r[t].path) > 1
                  THEN Go(t, [r[t] EXCEPT !.nr = nr, !.path = Tail(@), !.dir = 0,
                          !.todo = <<iput(d), Op("iget", 0), Op("walk", 0)>>])
                  ELSE Found(t, i, nr)
               /\ UNCHANGED <<core, imap, zmap, flaws>>
       /\ UNCHANGED <<disk, dirs, panic>>

-----------------------------------------------------------------------------
(* sys_mkdir has its block: "." and ".." *)
sys_mkdir(t) ==
    LET n == r[t].inode
    IN /\ Now(t, "mkdir")
       /\ core' = [core EXCEPT ![n] = [@ EXCEPT !.zone = r[t].zone, !.nlinks = 2,
                                                !.mode = "dir", !.dirt = TRUE]]
       /\ dirs' = [dirs EXCEPT ![r[t].zone] = [i \in 1 .. Slots |-> Free]]
       /\ Go(t, [r[t] EXCEPT !.zone = 0, !.todo = <<Op("add", 0)>>])
       /\ UNCHANGED <<disk, imap, zmap, panic, flaws>>

(* the entries with this inode number *)
Names(n) == {e \in zmap \X (1 .. Slots) : dirs[e[1]][e[2]].ino = n}

(* Faulty variant: the parent's count is not raised for "..". *)
ParentLinksSame(n) == 0
ParentLinks(n) == IF core[n].mode = "dir" THEN 1 ELSE 0

(* add_entry and de->inode_nr = i_num, and what each caller does then *)
Add(t) ==
    LET d == r[t].dir
        n == r[t].inode
        S == {i \in DOMAIN Entries(d) : Entries(d)[i].ino = 0}
        end == CASE r[t].call = "open" -> PutDir(t) \o <<Op("fd", n)>>
                 [] r[t].call = "link" -> <<Op("brelse", 0)>> \o PutDir(t)
                                               \o <<Op("nlinks++", n), iput(n)>>
                 [] OTHER -> PutDir(t) \o PutInode(t)
    IN /\ Now(t, "add") /\ S # {}
       /\ dirs' = [dirs EXCEPT ![core[d].zone][Min(S)] =
                                   [ino |-> n, name |-> Head(r[t].path)]]
       /\ core' = [core EXCEPT ![d].nlinks = @ + ParentLinks(n),
                               ![d].dirt = @ \/ core[n].mode = "dir"]
       /\ flaws' = flaws
            \cup {f \in {"name added twice"} : find_entry(d, Head(r[t].path)) # {}}
            \cup {f \in {"directory deleted"} : Names(d) = {} /\ d # ROOT_INO}
       /\ Put(t, end)
       /\ UNCHANGED <<disk, imap, zmap, panic>>

(* no entry and no block for more: the new inode is given back.  mkdir     *)
(* frees the block itself and then again through iput.                     *)
AddFails(t) ==
    LET n == r[t].inode
    IN /\ Now(t, "add") /\ \A i \in DOMAIN Entries(r[t].dir) :
                              Entries(r[t].dir)[i].ino # 0
       /\ core' = IF r[t].call = "open" THEN [core EXCEPT ![n].nlinks = @ - 1]
                  ELSE core
       /\ flaws' = flaws \cup {f \in {"freed twice"} : r[t].call = "mkdir"}
       /\ Put(t, CASE r[t].call = "open" -> PutInode(t) \o PutDir(t)
                   [] r[t].call = "link" -> PutDir(t) \o PutInode(t)
                   [] OTHER -> PutDir(t) \o <<Op("nlinks=0", n), iput(n)>>)
       /\ UNCHANGED <<disk, dirs, imap, zmap, panic>>

(* the assignments to i_nlinks between two sleeps *)
LinkChange(op, links) == CASE op = "nlinks--" -> links - 1
                            [] op = "nlinks++" -> links + 1
                            [] OTHER -> 0
SetLinks(t) == \E op \in {"nlinks--", "nlinks=0", "nlinks++"} :
    LET n == Arg(t)
    IN /\ Now(t, op)
       /\ core' = [core EXCEPT ![n].nlinks = LinkChange(op, @),
                               ![n].dirt = @ \/ op = "nlinks++"]
       /\ Do(t, Rest(t))
       /\ UNCHANGED <<disk, dirs, imap, zmap, panic, flaws>>

-----------------------------------------------------------------------------
(* What the callers do with the inode they looked up. *)

(* open_namei after iget: a directory cannot be opened for writing, and a  *)
(* deleted file not at all                                                 *)
open_namei(t) ==
    LET n == r[t].inode
    IN /\ Now(t, "open")
       /\ IF core[n].mode = "dir" \/ ~permission(n) THEN Put(t, PutInode(t))
          ELSE IF "O_TRUNC" \in r[t].flags
          THEN Put(t, <<Op("truncate", n), Op("fd", n)>>)
          ELSE Put(t, <<Op("fd", n)>>)
       /\ UNCHANGED <<disk, core, dirs, imap, zmap, panic, flaws>>

(* sys_open stores the inode in the file *)
sys_open(t) ==
    /\ Now(t, "fd")
    /\ Go(t, [r[t] EXCEPT !.fd = Arg(t), !.todo = <<>>])
    /\ UNCHANGED <<disk, core, dirs, imap, zmap, panic, flaws>>

(* namei marks the inode as changed, and so do chmod, chown and utime,     *)
(* which end there; link goes on with the new name                         *)
namei(t) ==
    LET n == r[t].inode
    IN /\ Now(t, "chmod")
       /\ core' = [core EXCEPT ![n].dirt = TRUE]
       /\ Put(t, PutInode(t))
       /\ UNCHANGED <<disk, dirs, imap, zmap, panic, flaws>>

sys_link(t) ==
    LET n == r[t].inode
        changed == [core EXCEPT ![n].dirt = TRUE]
    IN /\ Now(t, "namei")
       /\ IF core[n].mode = "dir" THEN core' = changed /\ Put(t, PutInode(t))
          ELSE /\ core' = [changed EXCEPT ![ROOT_INO].count = @ + 1]
               /\ Go(t, [r[t] EXCEPT !.call = "link", !.path = r[t].new,
                            !.dir = ROOT_INO, !.todo = <<Op("walk", 0)>>])
       /\ UNCHANGED <<disk, dirs, imap, zmap, panic, flaws>>

(* brelse waits for the buffer, so it may sleep *)
Brelse(t) ==
    /\ Now(t, "brelse") /\ Do(t, Rest(t))
    /\ UNCHANGED <<disk, core, dirs, imap, zmap, panic, flaws>>

-----------------------------------------------------------------------------
(* de->inode_nr = 0, through the pointer find_entry returned: reading the  *)
(* inode and empty_dir have slept since                                    *)
Cleared(t) == [dirs EXCEPT ![core[r[t].dir].zone][r[t].slot] = Free]
Changed(t) == dirs[core[r[t].dir].zone][r[t].slot].ino # r[t].inode

sys_unlink(t) ==
    LET n == r[t].inode
    IN /\ Now(t, "unlink")
       /\ IF core[n].mode = "dir"
          THEN Put(t, PutInode(t) \o PutDir(t)) /\ UNCHANGED <<core, dirs, flaws>>
          ELSE /\ core' = [core EXCEPT ![n].nlinks = IF @ = 0 THEN 1 ELSE @]
               /\ dirs' = Cleared(t)
               /\ flaws' = flaws
                    \cup {f \in {"entry changed"} : Changed(t)}
                    \cup {f \in {"link not counted"} : core[n].nlinks = 0}
               /\ Do(t, <<Op("unlink2", 0)>>)
       /\ UNCHANGED <<disk, imap, zmap, panic>>

(* after brelse.  Faulty variant: the inode is not marked as changed. *)
UnlinkedClean(n) == [core EXCEPT ![n].nlinks = @ - 1]
Unlinked(n) == [core EXCEPT ![n].nlinks = @ - 1, ![n].dirt = TRUE]
Unlink2(t) ==
    /\ Now(t, "unlink2")
    /\ core' = Unlinked(r[t].inode)
    /\ Put(t, PutInode(t) \o PutDir(t))
    /\ UNCHANGED <<disk, dirs, imap, zmap, panic, flaws>>

(* sys_rmdir: the directory must have no other user, and then be empty *)
sys_rmdir(t) ==
    LET n == r[t].inode
    IN /\ Now(t, "rmdir")
       /\ IF core[n].count > 1 THEN Put(t, PutAll(t))
          ELSE IF core[n].mode # "dir" THEN Put(t, PutInode(t) \o PutDir(t))
          ELSE Do(t, <<Op("empty_dir", 0)>>)
       /\ UNCHANGED <<disk, core, dirs, imap, zmap, panic, flaws>>

empty_dir(t) ==
    LET n == r[t].inode
    IN /\ Now(t, "empty_dir")
       /\ IF \E i \in DOMAIN Entries(n) : Entries(n)[i].ino # 0
          THEN Put(t, PutInode(t) \o PutDir(t)) /\ UNCHANGED <<dirs, flaws>>
          ELSE /\ dirs' = Cleared(t)
               /\ flaws' = flaws
                    \cup {f \in {"entry changed"} : Changed(t)}
                    \cup {f \in {"directory in use"} : core[n].count > 1}
               /\ Do(t, <<Op("rmdir2", 0)>>)
       /\ UNCHANGED <<disk, core, imap, zmap, panic>>

Rmdir2(t) ==
    LET d == r[t].dir
        removed == [core EXCEPT ![r[t].inode] = [@ EXCEPT !.nlinks = 0, !.dirt = TRUE]]
    IN /\ Now(t, "rmdir2")
       /\ core' = [removed EXCEPT ![d] = [removed[d] EXCEPT !.nlinks = @ - 1, !.dirt = TRUE]]
       /\ Put(t, PutAll(t))
       /\ UNCHANGED <<disk, dirs, imap, zmap, panic, flaws>>

-----------------------------------------------------------------------------
(* file_write on the open file: create_block finds the block or takes the  *)
(* first free one; getblk sleeps between new_block's bit and i_zone        *)
file_write(t) ==
    LET n == r[t].fd
        z == new_block
    IN /\ cur = Null /\ r[t].todo = <<>> /\ n # 0
       /\ \/ /\ core[n].zone # 0
             /\ Go(t, [r[t] EXCEPT !.zone = core[n].zone, !.todo = <<Op("bread", n)>>])
             /\ UNCHANGED zmap
          \/ /\ core[n].zone = 0 /\ zmap # Zones
             /\ Go(t, [r[t] EXCEPT !.zone = z, !.todo = <<Op("create_block", n)>>])
             /\ zmap' = zmap \cup {z}
       /\ UNCHANGED <<disk, core, dirs, imap, panic, flaws>>

create_block(t) ==
    LET n == Arg(t)
    IN /\ Now(t, "create_block")
       /\ core' = [core EXCEPT ![n].zone = r[t].zone, ![n].dirt = TRUE]
       /\ dirs' = [dirs EXCEPT ![r[t].zone] = [i \in 1 .. Slots |-> Free]]
       /\ flaws' = flaws \cup {f \in {"allocated twice"} : core[n].zone # 0}
       /\ Do(t, <<Op("bread", n)>>)
       /\ UNCHANGED <<disk, imap, zmap, panic>>

(* bread has taken the buffer: t copies into it and may sleep in a page    *)
(* fault; then it releases the buffer                                      *)
Bread(t) ==
    /\ Now(t, "bread")
    /\ flaws' = flaws \cup {f \in {"block freed"} : core[Arg(t)].zone # r[t].zone}
    /\ Do(t, <<Op("copy", Arg(t))>>)
    /\ UNCHANGED <<disk, core, dirs, imap, zmap, panic>>

Copied(t) ==
    /\ Now(t, "copy")
    /\ Do(t, <<>>)
    /\ UNCHANGED <<disk, core, dirs, imap, zmap, panic, flaws>>

Next == \E t \in Tasks :
    \/ \E q \in Requests[t] : Call(t, q)
    \/ sys_close(t) \/ sync_inodes(t) \/ file_write(t)
    \/ wait_on_inode(t) \/ lock_inode(t) \/ write_inode(t)
    \/ Iput(t) \/ truncate(t) \/ free_block(t) \/ free_inode(t)
    \/ iget(t) \/ read_inode(t) \/ get_dir(t) \/ Find(t)
    \/ sys_mkdir(t) \/ Add(t) \/ AddFails(t) \/ SetLinks(t)
    \/ open_namei(t) \/ sys_open(t) \/ namei(t) \/ sys_link(t) \/ Brelse(t)
    \/ sys_unlink(t) \/ Unlink2(t) \/ sys_rmdir(t) \/ empty_dir(t) \/ Rmdir2(t)
    \/ create_block(t) \/ Bread(t) \/ Copied(t)

Spec == Init /\ [][Next]_vars

-----------------------------------------------------------------------------
Has(t, op, n) == \E i \in DOMAIN r[t].todo :
                    r[t].todo[i].op = op /\ r[t].todo[i].n = n
At(t, ops) == r[t].todo # <<>> /\ Head(r[t].todo).op \in ops
Count(b) == IF b THEN 1 ELSE 0

(* an inode that iget has put into the table and is still reading *)
Reading(n) == \E t \in Tasks : Has(t, "read", n)
InCore(n) == core[n].in /\ ~Reading(n)
(* an inode as the next iget would see it *)
Ino(n) == IF InCore(n) THEN d_inode(core[n]) ELSE disk[n]

Subdirs(n) == {e \in {Ino(n).zone} \X (1 .. Slots) :
                 e[1] # 0 /\ dirs[e[1]][e[2]].ino # 0
                          /\ Ino(dirs[e[1]][e[2]].ino).mode = "dir"}

(* The calls that are between a change of a directory entry and the one of *)
(* i_nlinks that belongs to it: those that owe the inode a name or still   *)
(* have to take the link away, and those that still have to count it.      *)
Owed(n) == Cardinality(
    {t \in Tasks : \/ /\ r[t].inode = n
                      /\ \/ At(t, {"mkdir", "unlink2", "rmdir2"})
                         \/ At(t, {"add"}) /\ r[t].call # "link"
                   \/ At(t, {"rmdir2"}) /\ r[t].dir = n
                   \/ Has(t, "nlinks--", n) \/ Has(t, "nlinks=0", n)})
Uncounted(n) == Cardinality({t \in Tasks : Has(t, "nlinks++", n)})

(* i_nlinks is the number of names of a file; a directory counts its name, *)
(* its "." and the ".." of each directory in it.  Several processes create,*)
(* link and remove names, and each sleeps between an entry and its count.  *)
LinksExact == flaws = {} => \A n \in imap :
    LET names == Cardinality(Names(n)) + Owed(n) - Uncounted(n) + Count(n = ROOT_INO)
        dots  == IF Ino(n).mode = "dir" /\ names > 0
                 THEN 1 + Cardinality(Subdirs(n)) ELSE 0
    IN Ino(n).nlinks = names + dots

(* The bitmaps tell the truth: an inode is allocated as long as it has a   *)
(* name or a user, and a block as long as exactly one inode (or one call   *)
(* about to give it to an inode) has it.                                   *)
Owners(z) == Cardinality({n \in imap : Ino(n).zone = z})
             + Cardinality({t \in Tasks : r[t].zone = z
                                          /\ At(t, {"mkdir", "create_block"})})
NothingLeaks == flaws = {} =>
    /\ \A n \in Inodes : n \in imap <=>
          n = ROOT_INO \/ Names(n) # {} \/ core[n].count > 0
    /\ \A z \in Zones : Owners(z) = Count(z \in zmap)

(* the operations of a list that hold a reference to n *)
Refers(o, n) == o.n = n /\ o.op \in {"iput", "fd", "free_inode", "read"}
Pending(todo, n) == {i \in DOMAIN todo : Refers(todo[i], n)}

(* i_count is the number of references that processes, files and the calls *)
(* in progress have: no path through a call forgets or repeats an iput.    *)
CountExact == flaws = {} => \A n \in Inodes :
    core[n].count =
        Count(n = ROOT_INO)
        + Cardinality({t \in Tasks : r[t].fd = n})
        + Cardinality({t \in Tasks : r[t].dir = n})
        + Cardinality({t \in Tasks : r[t].inode = n})
        + Cardinality(UNION {{t} \X Pending(r[t].todo, n) : t \in Tasks})

(* An inode in the table that is not marked as changed is the one on disk, *)
(* and an inode nobody uses is neither changed nor locked: get_empty_inode *)
(* may take its place without writing it.                                  *)
CleanIsWritten == flaws = {} => \A n \in imap : InCore(n) =>
    /\ ~core[n].dirt /\ core[n].nlinks > 0 => d_inode(core[n]) = disk[n]
    /\ core[n].count = 0 => ~core[n].dirt /\ ~core[n].lock

(* None of the panic() calls of iput, free_inode and free_block is reached. *)
NoPanic == flaws = {} => ~panic

-----------------------------------------------------------------------------
(* The inductive invariant of the proofs.                                  *)
(* Operations on one inode, which may stand in any number before the last. *)
Plain == {"iput", "truncate", "free_inode", "lock", "write", "free_block",
          "nlinks--", "nlinks=0", "nlinks++", "brelse", "fd"}
Copying == {"create_block", "bread", "copy"}
LooksUp == {"walk", "open", "namei", "chmod", "unlink", "rmdir"}

(* What may follow an operation of a list. *)
Follows(o, s) ==
    CASE o.op \in {"truncate", "free_block"} -> s.op \in {"free_inode", "fd"} /\ s.n = o.n
      [] o.op \in {"lock", "write"} -> s.op = "lock" \/ (s.op = "iput" /\ s.n = o.n)
      [] o.op \in {"nlinks--", "nlinks=0", "nlinks++"} -> s.op = "iput" /\ s.n = o.n
      [] o.op = "brelse" -> s.op = "iput"
      [] o.op \in {"iget", "read"} -> s.op \in LooksUp
      [] o.op \in {"iput", "free_inode"} -> s.op \in Plain \cup {"iget"}
      [] OTHER -> FALSE

(* A list of operations, and one that is complete. *)
Run(q) ==
    /\ \A i \in 1 .. Len(q) : q[i].op \in Plain \ {"brelse"} => q[i].n # 0
    /\ \A i \in 1 .. Len(q) - 1 : Follows(q[i], q[i + 1])
    /\ \A i \in 2 .. Len(q) :
          /\ q[i].op \notin {"write", "free_block", "read"}
          /\ q[i].op = "free_inode" =>
                q[i-1].op \in {"truncate", "free_block"} /\ q[i-1].n = q[i].n
Open == {"iget", "read", "truncate", "free_block", "nlinks--", "nlinks=0",
         "nlinks++", "brelse"}

(* What a process holds, after the last operation of its list: a call      *)
(* walks and finds with a directory, gets the inode, uses both and puts    *)
(* them back.                                                              *)
Holding(p, last, many) ==
    /\ last = "fd" \/ p.call = "open" => p.fd = 0
    /\ (p.nr # 0) <=> (many /\ last \in LooksUp)
    /\ last \in Plain => p.dir = 0 /\ p.inode = 0
    /\ last \in Copying => /\ p.dir = 0 /\ p.inode = 0 /\ p.fd # 0 /\ p.zone # 0
                           /\ p.todo[1].n = p.fd
    /\ last \notin Plain \cup Copying =>
         /\ p.path # <<>> /\ p.call \notin {"none", "sync"}
         /\ p.call = "namei" => p.new # <<>>
         /\ p.todo[1].op = "read" => p.todo[1].n = p.nr
         /\ (p.dir = 0) <=> \/ last = "walk" /\ many
                            \/ last \in {"open", "namei", "chmod"}
         /\ (p.inode = 0) <=> (IF last \in {"walk", "find"} THEN p.call # "link" ELSE many)
    /\ last \in {"open", "namei", "chmod", "mkdir"} => p.call = last
    /\ last \in {"unlink", "unlink2"} => p.call = "unlink" /\ p.slot # 0
    /\ last \in {"rmdir", "empty_dir", "rmdir2"} => p.call = "rmdir" /\ p.slot # 0
    /\ last = "add" => p.call \in {"open", "mknod", "mkdir", "link"}
    /\ last = "mkdir" => p.zone # 0

Shape(p) == IF p.todo = <<>> THEN p = User(p.fd)
            ELSE /\ Run(p.todo) /\ p.todo[Len(p.todo)].op \notin Open
                 /\ Holding(p, p.todo[Len(p.todo)].op, Len(p.todo) > 1)
Shapes == \A t \in Tasks : Shape(r[t])

(* A place of the table that is not used is empty; nobody else has an      *)
(* inode that is about to be freed, or that is being read.                 *)
Table == \A n \in Inodes :
    /\ ~core[n].in => core[n] = Unused
    /\ Freeing(n) \/ Reading(n) => core[n].count = 1

(* The lock of an inode belongs to who reads or writes it. *)
Locking(t, n) == At(t, {"read", "write"}) /\ Arg(t) = n
LockHeld == \A n \in Inodes :
    /\ core[n].lock <=> \E t \in Tasks : Locking(t, n)
    /\ \A t, u \in Tasks : Locking(t, n) /\ Locking(u, n) => t = u

IInv == flaws = {} => TypeOK /\ Shapes /\ Table /\ LockHeld /\ CountExact
=============================================================================
