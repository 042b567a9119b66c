----------------------------- MODULE MCProcess -----------------------------
(* Init and two more processes. *)
EXTENDS Process

MCKills == {<<0, SIGHUP>>, <<3, SIGKILL>>}
MCMasks == {{SIGCHLD}}
MCActions == {<<SIGHUP, "KEEP">>, <<SIGHUP, "ONCE">>}
MCWants == {-1, 0}
MCMayCall == <<{"fork", "waitpid"},
               {"fork", "waitpid", "exit", "setsid", "kill", "ssetmask"},
               {"exit", "pause", "sigaction"}>>
=============================================================================
