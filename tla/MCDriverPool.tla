---------------------------- MODULE MCDriverPool ----------------------------
(* Constants of DriverPool for TLC. *)
EXTENDS DriverPool

\* Two credentials of one profile, and a second profile.
TwoProfiles ==
  { [profile |-> "a", print |-> "old"], [profile |-> "a", print |-> "new"],
    [profile |-> "b", print |-> "old"] }

\* A single access: the pool's own life, without replacement.
OneAccess == { [profile |-> "a", print |-> "old"] }

Callers == Permutations(Operations)
=============================================================================
