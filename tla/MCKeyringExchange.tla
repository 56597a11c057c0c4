------------------------- MODULE MCKeyringExchange -------------------------
(***************************************************************************)
(* One request and one rival operation, of the same installation or of     *)
(* another one; a collection for each of them and the other program's.     *)
(***************************************************************************)
EXTENDS KeyringExchange, TLC

CONSTANTS edit, rival, acct1, acct2, coll1, coll2, foreign, check1, check2

MCCallers == {edit, rival}
MCAccounts == {acct1, acct2}
MCCollections == {coll1, coll2, foreign}
MCTargets == {check1, check2}
MCRivals == {"create", "delete", "prepare"}

\* Nothing tells the accounts, the collections to be made or the checks apart.
Symmetry ==
  Permutations(MCAccounts) \cup Permutations({coll1, coll2})
    \cup Permutations(MCTargets)
=============================================================================
