------------------------- MODULE MCServiceLifecycle -------------------------
(* Constants of ServiceLifecycle for TLC. *)
EXTENDS ServiceLifecycle, TLC

CONSTANTS here, there, dev, production

\* Two roots that compete for the one job.
MCRootOf == here :> dev @@ there :> production
MCDoes == here :> Ops @@ there :> {"start"}
=============================================================================
