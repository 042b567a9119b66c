------------------------------- MODULE MCTty -------------------------------
EXTENDS Tty

(* Nothing is asked of the terminal after one of the unprotected places. *)
Sound == flaws = {}
=============================================================================
