--------------------------- MODULE MCManagerWork ---------------------------
(* Constants of ManagerWork for TLC. *)
EXTENDS ManagerWork, TLC

CONSTANTS c1, c2, r1, r2, r3, a1, a2

\* An agent uses a profile that two clients edit, one of which may do
\* anything else instead; a third client only meets the limit.
OneProfileBusy ==
    c1 :> {<<"work", a1>>, <<"list", "none">>}
    @@ r1 :> {<<"edit", a1>>}
    @@ r2 :> {<<"replace", a1>>, <<"describe", a1>>, <<"test", "none">>,
              <<"credential-presence", "none">>, <<"enable", "none">>}
    @@ r3 :> {}

\* Two calls on one profile, once a client has unlocked the vault.
TwoCalls ==
    c1 :> {<<"work", a1>>} @@ c2 :> {<<"work", a1>>} @@ r1 :> {<<"enable", "none">>}
=============================================================================
