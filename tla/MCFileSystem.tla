---------------------------- MODULE MCFileSystem ----------------------------
(* Two processes that create, link, open, truncate and remove the same     *)
(* names, in the root directory and in a directory of it.                  *)
EXTENDS FileSystem, TLC

CONSTANTS t1, t2

Req(call, path, new, flags) ==
    [call |-> call, path |-> path, new |-> new, flags |-> flags]

MCRequests ==
    (t1 :> {Req("open", <<"a">>, <<>>, {"O_CREAT", "O_TRUNC"}),
            Req("mkdir", <<"d">>, <<>>, {}),
            Req("link", <<"a">>, <<"c">>, {}),
            Req("mknod", <<"d", "b">>, <<>>, {})}) @@
    (t2 :> {Req("rmdir", <<"d">>, <<>>, {}),
            Req("unlink", <<"a">>, <<>>, {}),
            Req("chmod", <<"d", "b">>, <<>>, {}),
            Req("open", <<"a">>, <<>>, {}),
            Req("sync", <<>>, <<>>, {})})

(* Nothing is asked of the file system after one of the unprotected sleeps. *)
Sound == flaws = {}

(* What is on disk of a free inode, or of a changed one in the table, is   *)
(* overwritten before it is read.                                          *)
View == <<[n \in Inodes |-> IF n \notin imap \/ (core[n].in /\ core[n].dirt)
                            THEN Blank ELSE disk[n]],
          core, dirs, imap, zmap, r, cur, panic, flaws>>
=============================================================================
