--------------------------- MODULE MCInstallation ---------------------------
(***************************************************************************)
(* Instances of Installation for TLC: the processes that run commands are  *)
(* interchangeable, and only safety is checked.                            *)
(***************************************************************************)
EXTENDS Installation, TLC

Commands == Permutations(Procs)

=============================================================================
