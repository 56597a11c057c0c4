--------------------------- MODULE MCKeysetVault ---------------------------
(* KeysetVault for two operations of the service and two connections. *)
EXTENDS KeysetVault, TLC

CONSTANTS one, two

MCClients == {one, two}
MCConnections == {"orders", "billing"}
MCSymmetry == Permutations(MCClients)
=============================================================================
