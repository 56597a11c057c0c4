---------------------------- MODULE MCStateLocks ----------------------------
(* Three goroutines in two processes.  The service's worker reads and      *)
(* writes; beside it, in the same process, setup initializes the root and  *)
(* reads or cleans up; a command line process cleans up too, so that a     *)
(* purge meets readers, a new initialization and its own retry.            *)
EXTENDS StateLocks, TLC

CONSTANTS worker, setup, cleaner, service, command

MCActors == {worker, setup, cleaner}
MCProcesses == {service, command}
MCProc == worker :> service @@ setup :> service @@ cleaner :> command
MCDoes == worker :> {"read"} @@ setup :> {"open", "clean"}
            @@ cleaner :> {"clean", "write"}
MCInodes == 1 .. 2
=============================================================================
