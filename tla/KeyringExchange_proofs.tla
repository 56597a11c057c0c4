----------------------- MODULE KeyringExchange_proofs -----------------------
(***************************************************************************)
(* What the keyset operations and the management exchange guarantee for    *)
(* any number of operations, accounts, collections and targets: a password *)
(* serves the prompt it was typed at, all work in one keyring with one     *)
(* keyset for each account, and success is reported only whole.            *)
(*                                                                         *)
(* The inductive invariant has two halves.  Operations is about the        *)
(* callers and the provider: the account's bus name keeps two operations   *)
(* on one account apart, the setup's bus name keeps two setups apart, and  *)
(* nobody is inside a collection while an alias may still be set.  Every   *)
(* step of a caller is either a return, a move within its operation, a     *)
(* step of the setup, or one of three that change what all share (the      *)
(* alias, an item made, an item deleted).  Exchange is about the frames    *)
(* under way: an answer that bears the pending ID is an answer to what the *)
(* waiting prompt asks, and a result that was written is on its way until  *)
(* it is reported, before the reply.                                       *)
(***************************************************************************)
EXTENDS KeyringExchange, FiniteSetTheorems, SequenceTheorems, TLAPS

----------------------------------------------------------------------------
(* The invariant of the operations; r is the record of a caller *)

Fields == {"pc", "goal", "acct", "owner", "coll", "ask", "attempt", "pass",
           "round", "after", "item", "result"}

\* Between the setup lock and the confirmation of the alias; with a password
\* for the collection to be made; and from there on.
Making(r) ==
  \/ r.pc \in {"firstDefault", "secondDefault", "makes", "thirdDefault", "setsAlias", "confirms"}
  \/ r.pc \in {"ask", "waits"} /\ r.ask = "create"
MakingWithPassword == {"secondDefault", "makes", "thirdDefault", "setsAlias", "confirms"}

\* In unlock, on the way to r.after.
Unlocking(r) ==
  \/ r.pc \in {"unlock", "prompted", "checks", "unlocks", "verifies"}
  \/ r.pc \in {"ask", "waits"} /\ r.ask = "unlock"

\* In a collection, which is r.coll.
Inside(r) ==
  \/ r.pc \in {"confirms", "search", "attributes", "gets", "creates", "deletes"}
  \/ Unlocking(r)

\* About to create an item, having found none; or about to use the one found.
Creating(r) == r.pc = "creates" \/ (Unlocking(r) /\ r.after = "creates")
Using(r) ==
  r.pc \in {"attributes", "gets", "deletes"} \/ (Unlocking(r) /\ r.after # "creates")

\* What was asked is what is done, and a password is held for it only.
Asked(r) ==
  /\ DOMAIN r = Fields /\ r.ask \in {"unlock", "create"}
  /\ r.pc \in MakingWithPassword => r.ask = "create"
  /\ r.pc \in {"prompted", "checks", "unlocks", "verifies"} => r.ask = "unlock"
  /\ r.pass # NoOne =>
       /\ r.pass.kind = r.ask /\ r.pass.attempt = r.attempt
       /\ r.pc \in MakingWithPassword \cup {"checks", "unlocks"}

\* An operation ends with a result; the keyset of a success is there.
Concluded(r) ==
  /\ r.pc # "ended" => r.result = "none"
  /\ r.result = "ok" /\ r.goal \in {"load", "create"} => r.item # NoOne
  /\ r.pc = "deletes" \/ r.after = "deletes" => r.goal = "delete"
  /\ r.after \in {"attributes", "creates", "deletes", "gets"}
  /\ Using(r) => r.item # NoOne
Kept(r) ==
  r.result = "ok" /\ r.item # NoOne =>
    \/ \E e \in Callers : s[e].goal = "delete"
    \/ \E i \in items : i.coll = r.coll /\ i.acct = r.acct /\ i.by = r.item

\* The bus names that serve as locks, and what they keep the others from.
Holds(c) ==
  /\ s[c].acct \in Accounts
  /\ Running(c) => holder[s[c].acct] = c
  /\ Making(s[c]) => setup = c
  /\ Creating(s[c]) => Matching(c) = {}

\* Those inside a collection that is not the other program's are in the same
\* one, and nobody is while an alias may still be set.
Keyring ==
  /\ alias \in Collections \cup {NoCollection}
  /\ \A c \in Callers :
       /\ Inside(s[c]) =>
            s[c].coll \in Collections /\ (s[c].coll # Foreign => alias \in {s[c].coll, Foreign})
       /\ s[c].pc \in {"thirdDefault", "setsAlias"} => s[c].coll \in Collections \ {Foreign}
       /\ s[c].pc = "setsAlias" => alias \in {NoCollection, Foreign}
  /\ \A c, d \in Callers :
       Inside(s[c]) /\ s[c].coll # Foreign =>
         /\ Inside(s[d]) => s[d].coll \in {s[c].coll, Foreign}
         /\ s[d].pc # "setsAlias"

Unique ==
  /\ \A i \in items : i.by \in Callers
  /\ \A i, j \in items : i.coll = j.coll /\ i.acct = j.acct => i = j

Operations ==
  /\ DOMAIN s = Callers /\ DOMAIN holder = Accounts
  /\ \A c \in Callers : Asked(s[c]) /\ Concluded(s[c]) /\ Kept(s[c]) /\ Holds(c)
  /\ Keyring /\ Unique

----------------------------------------------------------------------------
(* The invariant of the exchange *)

\* The challenge under way is the latest; its ID is free of older answers.
Challenges ==
  /\ x.next \in Nat /\ x.pending \in {0, x.next}
  /\ x.pending # 0 \/ x.parked # NoOne => s[Edit].pc \in {"waits", "ended"}
  /\ x.parked # NoOne => x.pending = 0
  /\ cl.id \in 0..x.next
  /\ \A k \in DOMAIN down : down[k].is = "challenge" => down[k].id \in 1..x.next
  /\ \A k \in DOMAIN up : up[k].id \in 0..x.next

\* While the prompt waits, whatever bears the ID of its challenge is about
\* the password that it asked for.
Answering == s[Edit].pc = "waits" =>
  /\ x.next # 0
  /\ \A k \in DOMAIN down : down[k].is = "challenge" /\ down[k].id = x.next =>
       down[k].ask = s[Edit].ask /\ down[k].attempt = s[Edit].attempt
  /\ cl.pc = "asking" /\ cl.id = x.next =>
       cl.ask.kind = s[Edit].ask /\ cl.ask.attempt = s[Edit].attempt
  /\ \A k \in DOMAIN up : up[k].id = x.next => up[k].answer \in Answers(Edit)
  /\ x.parked # NoOne => x.parked \in Answers(Edit)

\* A result is on its way until it is reported, and the reply comes last.
Sent == {down[k].of : k \in {j \in DOMAIN down : down[j].is = "result"}}
Replied(k) ==
  /\ k = Len(down) /\ x.phase = "closed"
  /\ down[k].error = "ok" =>
       /\ x.left = {} /\ x.result # "cancelled"
       /\ cl.want = {} => x.result = "ok"
Reports ==
  /\ x.phase = "keyring" => x.result = None
  /\ x.result = "ok" => s[Edit].pc = "ended" /\ s[Edit].result = "ok"
  /\ \A k \in DOMAIN down : down[k].is = "reply" => Replied(k)
  /\ Connected /\ x.result # "cancelled" => cl.want \subseteq x.left \cup cl.reported \cup Sent
  /\ cl.reported \subseteq cl.want
  /\ cl.error # "ok"
  /\ cl.outcome = "ok" => ~Connected /\ (cl.want = {} => s[Edit].pc = "ended")

IsSeq(q) == q \in Seq({q[k] : k \in DOMAIN q})
Frames ==
  /\ IsSeq(down) /\ IsSeq(up)
  /\ \A k \in DOMAIN down : down[k].is \in {"challenge", "result", "reply"}
  /\ DOMAIN x = {"phase", "result", "next", "pending", "parked", "ended", "reader", "left"}
  /\ DOMAIN cl = {"pc", "id", "seen", "ask", "error", "stopped", "reported", "outcome", "want"}
  /\ s[Edit].goal \in {"load", "create"}

Exchange == Frames /\ Challenges /\ Answering /\ Reports /\ SuccessIsWhole

\* The inductive invariant.
IInv == Operations /\ Exchange

----------------------------------------------------------------------------
(* The steps of the operations *)

\* Only c moves, and remains the operation it is.
Moves(c) ==
  /\ DOMAIN s' = Callers
  /\ \A d \in Callers \ {c} : s'[d] = s[d]
  /\ DOMAIN s'[c] = Fields
  /\ s'[c].goal = s[c].goal /\ s'[c].acct = s[c].acct

\* What a step of c leaves to the others.
LEMMA OthersKeep ==
    ASSUME Operations, NEW c \in Callers, Moves(c), NEW d \in Callers \ {c}
    PROVE  Asked(s'[d]) /\ Concluded(s'[d]) /\ s'[d] = s[d]
           /\ (s[d].goal = "delete" <=> s'[d].goal = "delete")
  BY DEF Operations, Moves, Asked, Concluded, Using, Unlocking

LEMMA Deleters ==
    ASSUME Operations, NEW c \in Callers, Moves(c)
    PROVE  (\E e \in Callers : s'[e].goal = "delete") <=> (\E e \in Callers : s[e].goal = "delete")
  BY DEF Operations, Moves

\* An operation that returns disturbs nobody.
LEMMA ReturnKeeps ==
    ASSUME Operations, NEW c \in Callers, NEW result, NEW item,
           Running(c) \/ At(c, "idle"), Return(c, result, item), UNCHANGED store,
           result = "ok" /\ s[c].goal \in {"load", "create"} => item # NoOne,
           result = "ok" /\ item # NoOne =>
             \E i \in items : i.coll = s[c].coll /\ i.acct = s[c].acct /\ i.by = item
    PROVE  Operations' /\ s'[c].pc = "ended" /\ Moves(c)
           /\ s'[c].result = result /\ s'[c].item = item
  <1>1. /\ Moves(c) /\ s'[c].pc = "ended" /\ s'[c].result = result /\ s'[c].item = item
        /\ s'[c].ask = "unlock" /\ s'[c].pass = NoOne /\ s'[c].after = "attributes"
        /\ s'[c].coll = s[c].coll
    BY DEF Operations, Return, Session, Moves, Asked, Fields
  <1>2. /\ DOMAIN holder' = Accounts
        /\ \A d \in Callers \ {c}, a \in Accounts : holder[a] = d => holder'[a] = d
        /\ \A d \in Callers \ {c} : setup = d => setup' = d
    BY DEF Operations, Return
  <1>3. Asked(s'[c]) /\ Concluded(s'[c])
    BY <1>1, CallersAssumption DEF Asked, Concluded, MakingWithPassword, Using, Unlocking, Moves
  <1>4. Kept(s[c])' /\ Holds(c)'
    BY <1>1, Deleters DEF Operations, Kept, Holds, Running, Making, Creating, Unlocking, Moves, store
  <1>5. ASSUME NEW d \in Callers \ {c}
        PROVE  Asked(s'[d]) /\ Concluded(s'[d]) /\ Kept(s[d])' /\ Holds(d)'
    <2>1. Kept(s[d])'
      BY <1>1, OthersKeep, Deleters DEF Operations, Kept, store
    <2>2. Holds(d)'
      BY <1>1, <1>2, OthersKeep
      DEF Operations, Holds, Running, Making, Creating, Unlocking, Matching, store
    <2> QED BY <1>1, <2>1, <2>2, OthersKeep
  <1>6. Keyring'
    BY <1>1, OthersKeep DEF Operations, Keyring, Inside, Unlocking, store
  <1>7. Unique'
    BY DEF Operations, Unique, store
  <1> QED BY <1>1, <1>2, <1>3, <1>4, <1>5, <1>6, <1>7 DEF Operations, Moves

\* A step of c inside its operation, which enters no collection, changes no
\* alias and makes or deletes no item; locks may change, and the setup lock
\* may be taken from nobody or given back.
LEMMA MoveKeeps ==
    ASSUME Operations, NEW c \in Callers, Moves(c), Running(c), s'[c].pc # "ended",
           UNCHANGED <<alias, items, holder>>,
           setup' # setup => c \in {setup, setup'} /\ NoOne \in {setup, setup'},
           s'[c].coll = s[c].coll, s'[c].result = s[c].result,
           Asked(s'[c]), Concluded(s'[c]),
           Making(s'[c]) => setup' = c,
           Creating(s'[c]) => Creating(s[c]) \/ Matching(c) = {},
           Inside(s'[c]) => Inside(s[c]),
           s'[c].pc \in {"thirdDefault", "setsAlias"} => s'[c].pc = s[c].pc
    PROVE  Operations'
  <1>1. \A d \in Callers \ {c} : setup = d => setup' = d
    BY CallersAssumption
  <1>2. Kept(s[c])' /\ Holds(c)'
    <2>1. s[c].result = "none"
      BY DEF Operations, Concluded, Running
    <2>2. Matching(c)' = Matching(c)
      BY DEF Matching, Moves
    <2>3. Kept(s[c])'
      BY <2>1 DEF Kept
    <2>4. Holds(c)'
      BY <2>2 DEF Operations, Holds, Running, Moves
    <2> QED BY <2>3, <2>4
  <1>3. ASSUME NEW d \in Callers \ {c}
        PROVE  Asked(s'[d]) /\ Concluded(s'[d]) /\ Kept(s[d])' /\ Holds(d)'
    <2>1. Kept(s[d])'
      BY OthersKeep, Deleters DEF Operations, Kept
    <2>2. Holds(d)'
      BY <1>1, OthersKeep DEF Operations, Holds, Running, Making, Creating, Unlocking, Matching
    <2> QED BY <2>1, <2>2, OthersKeep
  <1>4. \A d \in Callers : /\ s'[d].coll = s[d].coll /\ (Inside(s'[d]) => Inside(s[d]))
                           /\ s'[d].pc \in {"thirdDefault", "setsAlias"} => s'[d].pc = s[d].pc
    BY OthersKeep
  <1>5. Keyring'
    BY <1>4 DEF Operations, Keyring
  <1> QED BY <1>2, <1>3, <1>5 DEF Operations, Moves, Unique

\* unlockPassword asks again, or gives up.
LEMMA AsksAgainKeeps ==
    ASSUME Operations, NEW c \in Callers, Running(c), AsksAgain(c), UNCHANGED store,
           Unlocking(s[c]) \/ s[c].ask # "unlock"
    PROVE  Operations' /\ Moves(c) /\ s'[c].pc \in {"ask", "ended"} /\ s'[c].result # "ok"
  <1>1. CASE s[c].ask = "unlock" /\ s[c].attempt < MaxAttempts
    <2>1. /\ Moves(c) /\ s'[c].pc = "ask" /\ s'[c].ask = "unlock" /\ s'[c].pass = NoOne
          /\ s'[c].coll = s[c].coll /\ s'[c].result = s[c].result
          /\ s'[c].after = s[c].after /\ s'[c].item = s[c].item
          /\ UNCHANGED bus
      BY <1>1 DEF AsksAgain, Operations, Moves, Asked, Fields
    <2>2. Asked(s'[c]) /\ Concluded(s'[c]) /\ s[c].result = "none"
      BY <1>1, <2>1 DEF Operations, Asked, Concluded, MakingWithPassword, Using, Unlocking, Moves, Running
    <2>3. /\ ~Making(s'[c]) /\ (Creating(s'[c]) => Creating(s[c]))
          /\ (Inside(s'[c]) => Inside(s[c]))
      BY <1>1, <2>1 DEF Making, Creating, Inside, Unlocking
    <2> QED BY <2>1, <2>2, <2>3, MoveKeeps DEF store, bus
  <1>2. CASE ~(s[c].ask = "unlock" /\ s[c].attempt < MaxAttempts)
    BY <1>2, ReturnKeeps DEF AsksAgain
  <1> QED BY <1>1, <1>2

\* The prompt returns one of the answers it may.
LEMMA ResumesKeeps ==
    ASSUME Operations, NEW c \in Callers, NEW a, s[c].pc \in {"ask", "waits"},
           a \in Answers(c), Resumes(c, a)
    PROVE  Operations' /\ Moves(c) /\ s'[c].pc \in {"ask", "ended", "secondDefault", "checks"}
  <1>0. Running(c) /\ (Unlocking(s[c]) \/ s[c].ask # "unlock") /\ UNCHANGED store
    BY DEF Running, Unlocking, Resumes
  <1>1. CASE a = Cancelled
    BY <1>0, <1>1, ReturnKeeps, CallersAssumption DEF Resumes
  <1>2. CASE a = Empty /\ a # Cancelled
    BY <1>0, <1>2, AsksAgainKeeps DEF Resumes
  <1>3. CASE a \notin {Empty, Cancelled}
    <2>1. a.kind = s[c].ask /\ a.attempt = s[c].attempt
      BY <1>3 DEF Answers
    <2>2. /\ Moves(c) /\ s'[c].pass = a /\ s'[c].ask = s[c].ask /\ s'[c].attempt = s[c].attempt
          /\ s'[c].pc = IF s[c].ask = "create" THEN "secondDefault" ELSE "checks"
          /\ s'[c].coll = s[c].coll /\ s'[c].result = s[c].result
          /\ s'[c].after = s[c].after /\ s'[c].item = s[c].item
          /\ UNCHANGED bus
      BY <1>3 DEF Resumes, Operations, Moves, Asked, Fields
    <2>3. Asked(s'[c])
      BY <2>1, <2>2 DEF Operations, Asked, MakingWithPassword, Moves
    <2>4. Concluded(s'[c])
      BY <2>2 DEF Operations, Asked, Concluded, Using, Unlocking, Moves
    <2>5. /\ Making(s'[c]) => Making(s[c])
          /\ Creating(s'[c]) => Creating(s[c])
          /\ Inside(s'[c]) => Inside(s[c])
      BY <2>2 DEF Operations, Asked, Making, Creating, Inside, Unlocking
    <2>6. Making(s'[c]) => setup' = c
      BY <2>2, <2>5 DEF Operations, Holds, bus
    <2> QED BY <1>0, <2>2, <2>3, <2>4, <2>5, <2>6, MoveKeeps DEF store, bus
  <1> QED BY <1>1, <1>2, <1>3

\* On the way to what the collection is unlocked for.
LEMMA UnlockForKeeps ==
    ASSUME Operations, NEW c \in Callers, NEW after, NEW item, UnlockFor(c, after, item),
           s[c].pc \in {"search", "attributes"}, UNCHANGED store,
           after \in {"attributes", "creates", "deletes", "gets"},
           after = "deletes" => s[c].goal = "delete",
           IF after = "creates" THEN Matching(c) = {} ELSE item # NoOne
    PROVE  Operations' /\ Moves(c) /\ s'[c].pc = "unlock"
  <1>1. /\ Moves(c) /\ s'[c].pc = "unlock" /\ s'[c].ask = s[c].ask /\ s'[c].attempt = s[c].attempt
        /\ s'[c].coll = s[c].coll /\ s'[c].result = s[c].result /\ s'[c].pass = s[c].pass
        /\ s'[c].after = after /\ s'[c].item = item
        /\ UNCHANGED bus
    BY DEF UnlockFor, Operations, Moves, Asked, Fields
  <1>2. Asked(s'[c]) /\ Concluded(s'[c]) /\ s[c].result = "none"
    BY <1>1 DEF Operations, Asked, Concluded, MakingWithPassword, Using, Unlocking, Moves
  <1>3. ~Making(s'[c]) /\ Inside(s[c]) /\ (Creating(s'[c]) => Matching(c) = {})
    BY <1>1 DEF Making, Creating, Inside, Unlocking
  <1> QED BY <1>1, <1>2, <1>3, MoveKeeps DEF store, bus, Running

\* The collection is unlocked: what it was unlocked for goes on.
LEMMA GoesOnKeeps ==
    ASSUME Operations, NEW c \in Callers, Unlocking(s[c]), UNCHANGED bus, UNCHANGED store,
           s' = [s EXCEPT ![c].pc = s[c].after]
             \/ s' = [s EXCEPT ![c].pc = s[c].after, ![c].pass = NoOne],
           s[c].pc = "checks" => s'[c].pass = NoOne,
           s[c].pc # "unlocks"
    PROVE  Operations' /\ Moves(c) /\ s'[c].pc \in {"attributes", "creates", "deletes", "gets"}
  <1>1. /\ Moves(c) /\ s'[c].pc = s[c].after /\ s'[c].ask = s[c].ask /\ s'[c].attempt = s[c].attempt
        /\ s'[c].coll = s[c].coll /\ s'[c].result = s[c].result /\ s'[c].pass \in {NoOne, s[c].pass}
        /\ s'[c].after = s[c].after /\ s'[c].item = s[c].item
        /\ s[c].after \in {"attributes", "creates", "deletes", "gets"}
    BY DEF Operations, Moves, Asked, Fields, Concluded
  <1>2. Asked(s'[c])
    BY <1>1 DEF Operations, Asked, MakingWithPassword, Unlocking, Moves
  <1>3. Concluded(s'[c]) /\ s[c].result = "none" /\ Running(c)
    BY <1>1 DEF Operations, Concluded, Using, Unlocking, Moves, Running
  <1>4. ~Making(s'[c]) /\ Inside(s[c]) /\ (Creating(s'[c]) => Creating(s[c]))
    BY <1>1 DEF Making, Creating, Inside, Unlocking
  <1> QED BY <1>1, <1>2, <1>3, <1>4, MoveKeeps DEF store, bus

\* What an operation's own step shows of it.
Fine(c) == Operations' /\ Moves(c) /\ s'[c].pc # "waits"

LEMMA FailureKeeps ==
    ASSUME Operations, NEW c \in Callers, Running(c) \/ At(c, "idle"), UNCHANGED store,
           NEW result, Return(c, result, NoOne),
           result # "ok" \/ s[c].goal \notin {"load", "create"}
    PROVE  Fine(c)
  BY ReturnKeeps DEF Fine

LEMMA TakesSetupKeeps ==
    ASSUME Operations, NEW c \in Callers, TakesSetup(c) PROVE Fine(c)
  <1>0. s[c].pc = "setup" /\ Running(c) /\ UNCHANGED store
    BY DEF TakesSetup, Calls, At, Running
  <1>1. CASE kind # "password"
    BY <1>0, <1>1, FailureKeeps DEF TakesSetup
  <1>2. CASE kind = "password"
    <2>1. /\ Moves(c) /\ s'[c].pc = "firstDefault" /\ s'[c].ask = s[c].ask
          /\ s'[c].coll = s[c].coll /\ s'[c].result = s[c].result /\ s'[c].pass = s[c].pass
          /\ s'[c].after = s[c].after /\ s'[c].item = s[c].item
          /\ setup = NoOne /\ setup' = c /\ UNCHANGED holder
      BY <1>2 DEF TakesSetup, SetupFree, Go, Operations, Moves, Asked, Fields
    <2>2. Asked(s'[c]) /\ Concluded(s'[c])
      BY <1>0, <2>1 DEF Operations, Asked, Concluded, MakingWithPassword, Using, Unlocking, Moves
    <2>3. ~Creating(s'[c]) /\ ~Inside(s'[c])
      BY <2>1 DEF Creating, Inside, Unlocking
    <2>4. Operations'
      BY <1>0, <2>1, <2>2, <2>3, MoveKeeps DEF store
    <2> QED BY <2>1, <2>4 DEF Fine
  <1> QED BY <1>1, <1>2

LEMMA AsksNobodyKeeps ==
    ASSUME Operations, NEW c \in Callers, AsksNobody(c) PROVE Fine(c)
  BY FailureKeeps DEF AsksNobody, At, Running

LEMMA ConfirmsAliasKeeps ==
    ASSUME Operations, NEW c \in Callers, ConfirmsAlias(c) PROVE Fine(c)
  <1>0. s[c].pc = "confirms" /\ Running(c) /\ UNCHANGED store
    BY DEF ConfirmsAlias, Calls, At, Running
  <1>1. CASE alias # s[c].coll
    BY <1>0, <1>1, FailureKeeps DEF ConfirmsAlias
  <1>2. CASE alias = s[c].coll /\ s[c].coll \in locked
    BY <1>0, <1>2, FailureKeeps DEF ConfirmsAlias
  <1>3. CASE alias = s[c].coll /\ s[c].coll \notin locked
    <2>1. /\ Moves(c) /\ s'[c].pc = "search" /\ s'[c].ask = s[c].ask
          /\ s'[c].coll = s[c].coll /\ s'[c].result = s[c].result /\ s'[c].pass = NoOne
          /\ s'[c].after = s[c].after /\ s'[c].item = s[c].item
          /\ setup' = NoOne /\ UNCHANGED holder
      BY <1>3 DEF ConfirmsAlias, Operations, Moves, Asked, Fields
    <2>2. Asked(s'[c]) /\ Concluded(s'[c])
      BY <1>0, <2>1 DEF Operations, Asked, Concluded, MakingWithPassword, Using, Unlocking, Moves
    <2>3. ~Making(s'[c]) /\ ~Creating(s'[c]) /\ Inside(s[c]) /\ setup = c
      BY <1>0, <2>1 DEF Making, Creating, Inside, Unlocking, Operations, Holds
    <2>4. Operations'
      BY <1>0, <2>1, <2>2, <2>3, MoveKeeps DEF store
    <2> QED BY <2>1, <2>4 DEF Fine
  <1> QED BY <1>1, <1>2, <1>3

LEMMA BeginsUnlockKeeps ==
    ASSUME Operations, NEW c \in Callers, BeginsUnlock(c) PROVE Fine(c)
  <1>0. s[c].pc = "unlock" /\ Running(c) /\ UNCHANGED store /\ Unlocking(s[c])
    BY DEF BeginsUnlock, Calls, At, Running, Unlocking
  <1>1. CASE s[c].coll \notin locked
    BY <1>0, <1>1, GoesOnKeeps DEF BeginsUnlock, Unlocked, Go, Fine
  <1>2. CASE s[c].coll \in locked /\ c \notin Interactive
    BY <1>0, <1>2, FailureKeeps DEF BeginsUnlock
  <1>3. CASE s[c].coll \in locked /\ c \in Interactive /\ kind = "neither"
    BY <1>0, <1>3, FailureKeeps DEF BeginsUnlock
  <1>4. CASE s[c].coll \in locked /\ c \in Interactive /\ kind # "neither"
    <2>1. /\ Moves(c) /\ s'[c].pc \in {"ask", "prompted"} /\ s'[c].ask = "unlock"
          /\ s'[c].coll = s[c].coll /\ s'[c].result = s[c].result /\ s'[c].pass = s[c].pass
          /\ s'[c].after = s[c].after /\ s'[c].item = s[c].item
          /\ UNCHANGED bus
      BY <1>4 DEF BeginsUnlock, Operations, Moves, Asked, Fields
    <2>2. Asked(s'[c]) /\ Concluded(s'[c])
      BY <1>0, <2>1 DEF Operations, Asked, Concluded, MakingWithPassword, Using, Unlocking, Moves
    <2>3. /\ ~Making(s'[c]) /\ Inside(s[c])
          /\ Creating(s'[c]) => Creating(s[c])
      BY <1>0, <2>1 DEF Making, Creating, Inside, Unlocking
    <2>4. Operations'
      BY <1>0, <2>1, <2>2, <2>3, MoveKeeps DEF store, bus
    <2> QED BY <2>1, <2>4 DEF Fine
  <1> QED BY <1>1, <1>2, <1>3, <1>4

LEMMA ChecksAliasKeeps ==
    ASSUME Operations, NEW c \in Callers, ChecksAlias(c) PROVE Fine(c)
  <1>0. s[c].pc = "checks" /\ Running(c) /\ UNCHANGED store /\ Unlocking(s[c])
    BY DEF ChecksAlias, Calls, At, Running, Unlocking
  <1>1. CASE alias # s[c].coll
    BY <1>0, <1>1, FailureKeeps DEF ChecksAlias
  <1>2. CASE alias = s[c].coll /\ s[c].coll \notin locked
    <2>1. s'[c].pass = NoOne
      BY <1>2 DEF ChecksAlias, Operations, Asked, Fields
    <2> QED BY <1>0, <1>2, <2>1, GoesOnKeeps DEF ChecksAlias, Fine
  <1>3. CASE alias = s[c].coll /\ s[c].coll \in locked
    <2>1. /\ Moves(c) /\ s'[c].pc = "unlocks" /\ s'[c].ask = s[c].ask /\ s'[c].attempt = s[c].attempt
          /\ s'[c].coll = s[c].coll /\ s'[c].result = s[c].result /\ s'[c].pass = s[c].pass
          /\ s'[c].after = s[c].after /\ s'[c].item = s[c].item
          /\ UNCHANGED bus
      BY <1>3 DEF ChecksAlias, Operations, Moves, Asked, Fields
    <2>2. Asked(s'[c]) /\ Concluded(s'[c])
      BY <1>0, <2>1 DEF Operations, Asked, Concluded, MakingWithPassword, Using, Unlocking, Moves
    <2>3. /\ ~Making(s'[c]) /\ Inside(s[c])
          /\ Creating(s'[c]) => Creating(s[c])
      BY <1>0, <2>1 DEF Making, Creating, Inside, Unlocking
    <2>4. Operations'
      BY <1>0, <2>1, <2>2, <2>3, MoveKeeps DEF store, bus
    <2> QED BY <2>1, <2>4 DEF Fine
  <1> QED BY <1>1, <1>2, <1>3

\* An unlock was done, by the password or in the provider's own prompt.
LEMMA VerifiesNext ==
    ASSUME Operations, NEW c \in Callers, s[c].pc \in {"unlocks", "prompted"},
           \/ s[c].pc = "prompted" /\ s' = [s EXCEPT ![c].pc = "verifies"]
           \/ s' = [s EXCEPT ![c].pc = "verifies", ![c].pass = NoOne],
           UNCHANGED <<alias, items, bus>>
    PROVE  Fine(c)
  <1>1. /\ Moves(c) /\ s'[c].pc = "verifies" /\ s'[c].ask = s[c].ask
        /\ s'[c].coll = s[c].coll /\ s'[c].result = s[c].result /\ s'[c].pass = NoOne
        /\ s'[c].after = s[c].after /\ s'[c].item = s[c].item
    BY DEF Operations, Moves, Asked, Fields, MakingWithPassword
  <1>2. Asked(s'[c]) /\ Concluded(s'[c])
    BY <1>1 DEF Operations, Asked, Concluded, MakingWithPassword, Using, Unlocking, Moves
  <1>3. /\ ~Making(s'[c]) /\ Inside(s[c])
        /\ Creating(s'[c]) => Creating(s[c])
    BY <1>1 DEF Making, Creating, Inside, Unlocking
  <1>4. Operations'
    BY <1>1, <1>2, <1>3, MoveKeeps DEF bus, Running
  <1> QED BY <1>1, <1>4 DEF Fine

LEMMA UnlocksWithPasswordKeeps ==
    ASSUME Operations, NEW c \in Callers, UnlocksWithPassword(c) PROVE Fine(c)
  <1>0. s[c].pc = "unlocks" /\ Running(c) /\ Unlocking(s[c])
    BY DEF UnlocksWithPassword, Calls, At, Running, Unlocking
  <1>1. CASE s[c].coll \notin locked \/ s[c].pass.right
    BY <1>0, <1>1, VerifiesNext DEF UnlocksWithPassword
  <1>2. CASE ~(s[c].coll \notin locked \/ s[c].pass.right)
    BY <1>0, <1>2, AsksAgainKeeps DEF UnlocksWithPassword, store, Fine
  <1> QED BY <1>1, <1>2

LEMMA VerifiesUnlockKeeps ==
    ASSUME Operations, NEW c \in Callers, VerifiesUnlock(c) PROVE Fine(c)
  <1>0. s[c].pc = "verifies" /\ Running(c) /\ UNCHANGED store /\ Unlocking(s[c])
    BY DEF VerifiesUnlock, Calls, At, Running, Unlocking
  <1>1. CASE s[c].coll \notin locked
    BY <1>0, <1>1, GoesOnKeeps DEF VerifiesUnlock, Unlocked, Go, Fine
  <1>2. CASE s[c].coll \in locked /\ kind = "password"
    BY <1>0, <1>2, AsksAgainKeeps DEF VerifiesUnlock, Fine
  <1>3. CASE s[c].coll \in locked /\ kind # "password"
    BY <1>0, <1>3, FailureKeeps DEF VerifiesUnlock
  <1> QED BY <1>1, <1>2, <1>3

LEMMA NativePromptKeeps ==
    ASSUME Operations, NEW c \in Callers, NativePrompt(c) PROVE Fine(c)
  <1>0. s[c].pc = "prompted" /\ Running(c)
    BY DEF NativePrompt, Calls, At, Running
  <1>1. CASE Go(c, "verifies") /\ UNCHANGED bus
    BY <1>0, <1>1, VerifiesNext DEF NativePrompt, Go
  <1>2. CASE Return(c, "denied", NoOne) /\ UNCHANGED locked
    BY <1>0, <1>2, FailureKeeps DEF NativePrompt, store
  <1> QED BY <1>1, <1>2 DEF NativePrompt

LEMMA SearchesKeeps ==
    ASSUME Operations, NEW c \in Callers, Searches(c) PROVE Fine(c)
  <1>0. s[c].pc = "search" /\ Running(c) /\ UNCHANGED store
    BY DEF Searches, Calls, At, Running
  <1>1. CASE Matching(c) = {}
    <2>1. CASE s[c].goal = "create" /\ s[c].round = 1
      BY <1>0, <1>1, <2>1, UnlockForKeeps DEF Searches, FindsNone, Fine
    <2>2. CASE s[c].goal \in {"delete", "prepare"}
      BY <1>0, <1>1, <2>2, FailureKeeps DEF Searches, FindsNone
    <2>3. CASE ~(s[c].goal = "create" /\ s[c].round = 1) /\ s[c].goal \notin {"delete", "prepare"}
      BY <1>0, <1>1, <2>3, FailureKeeps DEF Searches, FindsNone
    <2> QED BY <2>1, <2>2, <2>3
  <1>2. CASE Matching(c) # {} /\ Cardinality(Matching(c)) # 1
    BY <1>0, <1>2, FailureKeeps DEF Searches
  <1>3. CASE Matching(c) # {} /\ Cardinality(Matching(c)) = 1
    <2>1. PICK i \in Matching(c) : UnlockFor(c, "attributes", i.by)
      BY <1>3 DEF Searches
    <2>2. i.by # NoOne
      BY CallersAssumption DEF Matching, Operations, Unique
    <2> QED BY <1>0, <2>1, <2>2, UnlockForKeeps DEF Fine
  <1> QED BY <1>1, <1>2, <1>3

LEMMA ReadsAttributesKeeps ==
    ASSUME Operations, NEW c \in Callers, ReadsAttributes(c) PROVE Fine(c)
  <1>0. s[c].pc = "attributes" /\ Running(c) /\ UNCHANGED store /\ s[c].item # NoOne
    BY DEF ReadsAttributes, Calls, At, Running, Operations, Concluded, Using
  <1>1. CASE ~ \E i \in Matching(c) : i.by = s[c].item
    BY <1>0, <1>1, FailureKeeps DEF ReadsAttributes
  <1>2. CASE \E i \in Matching(c) : i.by = s[c].item
    <2>1. CASE s[c].goal = "prepare"
      BY <1>0, <1>2, <2>1, FailureKeeps DEF ReadsAttributes
    <2>2. CASE s[c].goal = "delete" /\ s[c].round = 1
      BY <1>0, <1>2, <2>2, UnlockForKeeps DEF ReadsAttributes, Fine
    <2>3. CASE s[c].goal = "delete" /\ s[c].round = 2
      BY <1>0, <1>2, <2>3, FailureKeeps DEF ReadsAttributes
    <2>4. CASE ~(s[c].goal = "prepare" \/ (s[c].goal = "delete" /\ s[c].round \in {1, 2}))
      BY <1>0, <1>2, <2>4, UnlockForKeeps DEF ReadsAttributes, Fine
    <2> QED BY <2>1, <2>2, <2>3, <2>4
  <1> QED BY <1>1, <1>2

LEMMA GetsSecretKeeps ==
    ASSUME Operations, NEW c \in Callers, GetsSecret(c) PROVE Fine(c)
  <1>0. s[c].pc = "gets" /\ Running(c) /\ UNCHANGED store /\ s[c].item # NoOne
    BY DEF GetsSecret, Calls, At, Running, Operations, Concluded, Using
  <1>1. CASE s[c].coll \in locked \/ ~ \E i \in Matching(c) : i.by = s[c].item
    BY <1>0, <1>1, FailureKeeps DEF GetsSecret
  <1>2. CASE ~(s[c].coll \in locked \/ ~ \E i \in Matching(c) : i.by = s[c].item)
    BY <1>0, <1>2, ReturnKeeps DEF GetsSecret, Matching, Fine
  <1> QED BY <1>1, <1>2

\* A setup excludes every other one.
LEMMA OneSetup ==
    ASSUME Operations, NEW c \in Callers, NEW d \in Callers, Making(s[c]), Making(s[d])
    PROVE  c = d
  BY DEF Operations, Holds

\* A step of c into the keyring, which is the one that the alias names, or
\* within a setup: the alias, the items and the names of the others stay.
LEMMA SetupKeeps ==
    ASSUME Operations, NEW c \in Callers, Moves(c),
           UNCHANGED <<alias, items>>,
           DOMAIN holder' = Accounts, holder'[s[c].acct] = c,
           \A a \in Accounts : holder'[a] # holder[a] => holder[a] = NoOne,
           setup' # setup => c \in {setup, setup'} /\ NoOne \in {setup, setup'},
           s'[c].result = s[c].result, s[c].result = "none",
           Asked(s'[c]), Concluded(s'[c]),
           Making(s'[c]) => setup' = c, ~Creating(s'[c]),
           Inside(s'[c]) => s'[c].coll = alias /\ alias # NoCollection,
           s'[c].pc \in {"thirdDefault", "setsAlias"} =>
             /\ Making(s[c]) /\ s'[c].coll \in Collections \ {Foreign}
             /\ s'[c].pc = "setsAlias" => alias = NoCollection
    PROVE  Operations'
  <1>1. /\ \A d \in Callers \ {c} : setup = d => setup' = d
        /\ \A d \in Callers \ {c}, a \in Accounts : holder[a] = d => holder'[a] = d
    BY CallersAssumption
  <1>2. Kept(s[c])' /\ Holds(c)'
    BY DEF Operations, Kept, Holds, Moves
  <1>3. ASSUME NEW d \in Callers \ {c}
        PROVE  Asked(s'[d]) /\ Concluded(s'[d]) /\ Kept(s[d])' /\ Holds(d)'
    <2>1. Kept(s[d])'
      BY OthersKeep, Deleters DEF Operations, Kept
    <2>2. Holds(d)'
      BY <1>1, OthersKeep DEF Operations, Holds, Running, Making, Creating, Unlocking, Matching
    <2> QED BY <2>1, <2>2, OthersKeep
  <1>4. \A d \in Callers \ {c} : s'[d] = s[d]
    BY DEF Moves
  <1>6. ASSUME NEW d \in Callers
        PROVE  /\ Inside(s'[d]) =>
                    s'[d].coll \in Collections /\ (s'[d].coll # Foreign => alias \in {s'[d].coll, Foreign})
               /\ s'[d].pc \in {"thirdDefault", "setsAlias"} => s'[d].coll \in Collections \ {Foreign}
               /\ s'[d].pc = "setsAlias" => alias \in {NoCollection, Foreign}
    BY <1>4 DEF Operations, Keyring
  <1>7. ASSUME NEW d \in Callers, NEW e \in Callers, Inside(s'[d]), s'[d].coll # Foreign
        PROVE  (Inside(s'[e]) => s'[e].coll \in {s'[d].coll, Foreign}) /\ s'[e].pc # "setsAlias"
    <2>1. alias \in {s'[d].coll, Foreign} /\ s'[d].coll \in Collections
      BY <1>6, <1>7
    <2>2. CASE d = c
      BY <1>4, <1>6, <1>7, <2>1, <2>2, CallersAssumption DEF Operations, Keyring, Inside, Unlocking
    <2>3. CASE d # c /\ e = c
      BY <1>4, <1>6, <1>7, <2>1, <2>3, CallersAssumption DEF Operations, Keyring
    <2>4. CASE d # c /\ e # c
      BY <1>4, <1>7, <2>4 DEF Operations, Keyring
    <2> QED BY <2>2, <2>3, <2>4
  <1>8. Keyring'
    BY <1>6, <1>7 DEF Operations, Keyring
  <1> QED BY <1>2, <1>3, <1>8 DEF Operations, Moves, Unique

LEMMA OpensKeeps ==
    ASSUME Operations, NEW c \in Callers, Opens(c) PROVE Fine(c)
  <1>0. s[c].pc = "idle" /\ UNCHANGED store
    BY DEF Opens, At
  <1>1. CASE ~NameFree(c)
    BY <1>0, <1>1, FailureKeeps DEF Opens
  <1>2. CASE NameFree(c) /\ alias = NoCollection /\ s[c].goal # "create"
    BY <1>0, <1>2, FailureKeeps DEF Opens
  <1>3. CASE NameFree(c) /\ ~(alias = NoCollection /\ s[c].goal # "create")
    <2>1. /\ Moves(c) /\ s'[c].pc = (IF alias = NoCollection THEN "setup" ELSE "search")
          /\ s'[c].ask = s[c].ask
          /\ s'[c].coll = alias /\ s'[c].result = s[c].result /\ s'[c].pass = s[c].pass
          /\ s'[c].after = s[c].after /\ s'[c].item = s[c].item
          /\ holder' = [holder EXCEPT ![s[c].acct] = c] /\ holder[s[c].acct] = NoOne
          /\ UNCHANGED setup
      BY <1>3 DEF Opens, NameFree, Operations, Moves, Asked, Fields
    <2>2. Asked(s'[c]) /\ Concluded(s'[c]) /\ s[c].result = "none"
      BY <1>0, <2>1 DEF Operations, Asked, Concluded, MakingWithPassword, Using, Unlocking, Moves
    <2>3. ~Making(s'[c]) /\ ~Creating(s'[c]) /\ (Inside(s'[c]) => alias # NoCollection)
      BY <2>1 DEF Making, Creating, Inside, Unlocking
    <2>4. DOMAIN holder' = Accounts /\ holder'[s[c].acct] = c
      BY <2>1 DEF Operations, Holds
    <2>5. Operations'
      BY <1>0, <2>1, <2>2, <2>3, <2>4, SetupKeeps DEF store
    <2> QED BY <2>1, <2>5 DEF Fine
  <1> QED BY <1>1, <1>2, <1>3

LEMMA ReadsDefaultKeeps ==
    ASSUME Operations, NEW c \in Callers, ReadsDefault(c) PROVE Fine(c)
  <1>1. PICK pc \in {"firstDefault", "secondDefault", "thirdDefault"} :
          /\ s[c].pc = pc
          /\ IF alias # NoCollection
             THEN /\ s' = [s EXCEPT ![c].pc = "search", ![c].coll = alias, ![c].pass = NoOne]
                  /\ setup' = NoOne
             ELSE /\ s' = [s EXCEPT ![c].pc = AfterDefault[pc], ![c].ask = "create"]
                  /\ UNCHANGED setup
    BY DEF ReadsDefault, AfterDefault, Calls, At
  <1>2. UNCHANGED store /\ UNCHANGED holder /\ Making(s[c]) /\ setup = c
        /\ holder[s[c].acct] = c /\ s[c].acct \in Accounts
    BY <1>1 DEF ReadsDefault, Making, Operations, Holds, Running
  <1>3. CASE alias # NoCollection
    <2>1. /\ Moves(c) /\ s'[c].pc = "search" /\ s'[c].ask = s[c].ask
          /\ s'[c].coll = alias /\ s'[c].result = s[c].result /\ s'[c].pass = NoOne
          /\ s'[c].after = s[c].after /\ s'[c].item = s[c].item
          /\ setup' = NoOne
      BY <1>1, <1>3 DEF Operations, Moves, Asked, Fields
    <2>2. Asked(s'[c]) /\ Concluded(s'[c]) /\ s[c].result = "none"
      BY <1>1, <2>1 DEF Operations, Asked, Concluded, MakingWithPassword, Using, Unlocking, Moves
    <2>3. ~Making(s'[c]) /\ ~Creating(s'[c])
      BY <2>1 DEF Making, Creating, Unlocking
    <2>4. Operations'
      BY <1>2, <1>3, <2>1, <2>2, <2>3, SetupKeeps DEF store, Operations
    <2> QED BY <2>1, <2>4 DEF Fine
  <1>4. CASE alias = NoCollection
    <2>1. /\ Moves(c) /\ s'[c].ask = "create"
          /\ s'[c].pc = [firstDefault |-> "ask", secondDefault |-> "makes",
                         thirdDefault |-> "setsAlias"][s[c].pc]
          /\ s'[c].coll = s[c].coll /\ s'[c].result = s[c].result /\ s'[c].pass = s[c].pass
          /\ s'[c].attempt = s[c].attempt
          /\ s'[c].after = s[c].after /\ s'[c].item = s[c].item
          /\ UNCHANGED setup
      BY <1>1, <1>4 DEF AfterDefault, Operations, Moves, Asked, Fields
    <2>p. s'[c].pc = (CASE s[c].pc = "firstDefault" -> "ask" [] s[c].pc = "secondDefault" -> "makes"
                        [] s[c].pc = "thirdDefault" -> "setsAlias")
      BY <1>1, <2>1
    <2>2. Asked(s'[c]) /\ Concluded(s'[c]) /\ s[c].result = "none"
      BY <1>1, <2>1, <2>p DEF Operations, Asked, Concluded, MakingWithPassword, Using, Unlocking, Moves
    <2>3. ~Creating(s'[c]) /\ ~Inside(s'[c])
      BY <1>1, <2>1, <2>p DEF Creating, Inside, Unlocking
    <2>4. s'[c].pc \in {"thirdDefault", "setsAlias"} => s'[c].coll \in Collections \ {Foreign}
      BY <1>1, <2>1, <2>p DEF Operations, Keyring
    <2>5. Operations'
      BY <1>2, <1>4, <2>1, <2>2, <2>3, <2>4, SetupKeeps DEF store, Operations
    <2>6. s'[c].pc # "waits"
      BY <1>1, <2>p
    <2> QED BY <2>1, <2>5, <2>6 DEF Fine
  <1> QED BY <1>3, <1>4

LEMMA MakesCollectionKeeps ==
    ASSUME Operations, NEW c \in Callers, MakesCollection(c) PROVE Fine(c)
  <1>1. PICK new \in Collections \ {Foreign} :
          s[c].pc = "makes" /\ s' = [s EXCEPT ![c].pc = "thirdDefault", ![c].coll = new]
    BY DEF MakesCollection, Calls, At
  <1>2. UNCHANGED <<alias, items, bus>> /\ Making(s[c]) /\ setup = c
        /\ holder[s[c].acct] = c /\ s[c].acct \in Accounts
    BY <1>1 DEF MakesCollection, Making, Operations, Holds, Running
  <1>3. /\ Moves(c) /\ s'[c].pc = "thirdDefault" /\ s'[c].ask = s[c].ask
        /\ s'[c].coll = new /\ s'[c].result = s[c].result /\ s'[c].pass = s[c].pass
        /\ s'[c].attempt = s[c].attempt
        /\ s'[c].after = s[c].after /\ s'[c].item = s[c].item
    BY <1>1 DEF Operations, Moves, Asked, Fields
  <1>4. Asked(s'[c]) /\ Concluded(s'[c]) /\ s[c].result = "none"
    BY <1>1, <1>3 DEF Operations, Asked, Concluded, MakingWithPassword, Using, Unlocking, Moves
  <1>5. ~Creating(s'[c]) /\ ~Inside(s'[c])
    BY <1>3 DEF Creating, Inside, Unlocking
  <1>6. Operations'
    BY <1>2, <1>3, <1>4, <1>5, SetupKeeps DEF bus, Operations
  <1> QED BY <1>3, <1>6 DEF Fine

\* The alias of a collection that was just made: nobody is in another one.
LEMMA SetsAliasKeeps ==
    ASSUME Operations, NEW c \in Callers, SetsAlias(c) PROVE Fine(c)
  <1>0. /\ s[c].pc = "setsAlias" /\ Making(s[c]) /\ UNCHANGED <<items, bus>>
        /\ alias' = s[c].coll /\ s[c].coll \in Collections \ {Foreign}
        /\ Running(c)
    BY DEF SetsAlias, Calls, At, Making, Running, Operations, Keyring
  <1>1. /\ Moves(c) /\ s'[c].pc = "confirms" /\ s'[c].ask = s[c].ask
        /\ s'[c].coll = s[c].coll /\ s'[c].result = s[c].result /\ s'[c].pass = s[c].pass
        /\ s'[c].attempt = s[c].attempt
        /\ s'[c].after = s[c].after /\ s'[c].item = s[c].item
    BY DEF SetsAlias, Go, Operations, Moves, Asked, Fields
  <1>2. Asked(s'[c]) /\ Concluded(s'[c]) /\ s[c].result = "none"
    BY <1>0, <1>1 DEF Operations, Asked, Concluded, MakingWithPassword, Using, Unlocking, Moves
  <1>3. Making(s'[c]) /\ ~Creating(s'[c])
    BY <1>1 DEF Making, Creating, Unlocking
  <1>4. Kept(s[c])' /\ Holds(c)'
    BY <1>0, <1>1, <1>2, <1>3 DEF Operations, Kept, Holds, Running, Moves, bus
  <1>5. ASSUME NEW d \in Callers \ {c}
        PROVE  Asked(s'[d]) /\ Concluded(s'[d]) /\ Kept(s[d])' /\ Holds(d)'
    <2>1. Kept(s[d])'
      BY <1>0, <1>1, OthersKeep, Deleters DEF Operations, Kept
    <2>2. Holds(d)'
      BY <1>0, <1>1, OthersKeep
      DEF Operations, Holds, Running, Making, Creating, Unlocking, Matching, bus
    <2> QED BY <1>1, <2>1, <2>2, OthersKeep
  <1>6. \A d \in Callers \ {c} :
          /\ s'[d] = s[d] /\ s[d].pc \notin {"thirdDefault", "setsAlias"}
          /\ Inside(s[d]) => s[d].coll = Foreign
    <2>1. \A d \in Callers \ {c} : s[d].pc \notin {"thirdDefault", "setsAlias"}
      BY <1>0, OneSetup DEF Making
    <2>2. \A d \in Callers \ {c} : Inside(s[d]) => s[d].coll = Foreign
      BY <1>0 DEF Operations, Keyring
    <2> QED BY <1>1, <2>1, <2>2 DEF Moves
  <1>7. Keyring'
    <2>1. alias' \in Collections \ {Foreign} /\ s'[c].coll = alias'
          /\ s'[c].pc \notin {"thirdDefault", "setsAlias"}
      BY <1>0, <1>1
    <2>2. \A d \in Callers : /\ s'[d].pc \notin {"thirdDefault", "setsAlias"}
                             /\ Inside(s'[d]) => s'[d].coll \in {alias', Foreign}
      BY <1>6, <2>1
    <2> QED BY <2>1, <2>2, CallersAssumption DEF Keyring
  <1>8. Operations'
    BY <1>0, <1>1, <1>2, <1>4, <1>5, <1>7 DEF Operations, Moves, Unique, bus
  <1> QED BY <1>1, <1>8 DEF Fine

LEMMA CreatesItemKeeps ==
    ASSUME Operations, NEW c \in Callers, CreatesItem(c) PROVE Fine(c)
  <1>0. s[c].pc = "creates" /\ Running(c) /\ UNCHANGED <<kind, owner, alias, made, locked>>
    BY DEF CreatesItem, Acts, Calls, At, Running
  <1>1. CASE Return(c, "locked", NoOne) /\ UNCHANGED items
    BY <1>0, <1>1, FailureKeeps DEF store
  <1>2. CASE /\ s[c].coll \notin locked /\ items' = WithItem(c)
             /\ s' = [s EXCEPT ![c].pc = "search", ![c].round = 2] /\ UNCHANGED bus
    <2>1. /\ Moves(c) /\ s'[c].pc = "search" /\ s'[c].ask = s[c].ask
          /\ s'[c].coll = s[c].coll /\ s'[c].result = s[c].result /\ s'[c].pass = s[c].pass
          /\ s'[c].attempt = s[c].attempt
          /\ s'[c].after = s[c].after /\ s'[c].item = s[c].item
      BY <1>2 DEF Operations, Moves, Asked, Fields
    <2>2. Asked(s'[c]) /\ Concluded(s'[c]) /\ s[c].result = "none" /\ Matching(c) = {}
      BY <1>0, <2>1 DEF Operations, Asked, Concluded, MakingWithPassword, Using, Unlocking, Moves,
                        Holds, Creating
    <2>3. ~Making(s'[c]) /\ ~Creating(s'[c]) /\ Inside(s[c])
      BY <1>0, <2>1 DEF Making, Creating, Unlocking, Inside
    <2>4. Kept(s[c])' /\ Holds(c)'
      BY <1>2, <2>1, <2>2, <2>3, <1>0 DEF Operations, Kept, Holds, Running, Moves, bus
    <2>5. ASSUME NEW d \in Callers \ {c}
          PROVE  Asked(s'[d]) /\ Concluded(s'[d]) /\ Kept(s[d])' /\ Holds(d)'
      <3>1. items \subseteq items'
        BY <1>2 DEF WithItem
      <3>2. Kept(s[d])'
        BY <2>1, <3>1, OthersKeep, Deleters DEF Operations, Kept
      <3>3. Creating(s[d]) => s[d].acct # s[c].acct
        BY <1>0 DEF Operations, Holds, Creating, Unlocking, Running
      <3>4. Creating(s[d]) => Matching(d)' = {}
        BY <1>2, <2>1, <3>3, OthersKeep DEF WithItem, Matching, Operations, Holds
      <3>5. Holds(d)'
        BY <1>2, <2>1, <3>4, OthersKeep DEF Operations, Holds, Running, bus
      <3> QED BY <2>1, <3>2, <3>5, OthersKeep
    <2>6. \A d \in Callers : /\ s'[d].coll = s[d].coll /\ (Inside(s'[d]) => Inside(s[d]))
                             /\ s'[d].pc \in {"thirdDefault", "setsAlias"} => s'[d].pc = s[d].pc
      BY <2>1, <2>3, OthersKeep
    <2>7. Keyring'
      BY <1>0, <2>6 DEF Operations, Keyring
    <2>8. Unique'
      BY <1>2, <2>2 DEF Operations, Unique, WithItem, Matching
    <2>9. Operations'
      BY <1>2, <2>1, <2>2, <2>4, <2>5, <2>7, <2>8 DEF Operations, Moves, bus
    <2> QED BY <2>1, <2>9 DEF Fine
  <1> QED BY <1>1, <1>2 DEF CreatesItem, Acts

LEMMA DeletesItemKeeps ==
    ASSUME Operations, NEW c \in Callers, DeletesItem(c) PROVE Fine(c)
  <1>0. /\ s[c].pc = "deletes" /\ Running(c) /\ UNCHANGED <<kind, owner, alias, made, locked>>
        /\ s[c].goal = "delete"
    BY DEF DeletesItem, Acts, Calls, At, Running, Operations, Concluded
  <1>1. CASE Return(c, "locked", NoOne) /\ UNCHANGED items
    BY <1>0, <1>1, FailureKeeps DEF store
  <1>2. CASE /\ items' \subseteq items
             /\ s' = [s EXCEPT ![c].pc = "search", ![c].round = 2] /\ UNCHANGED bus
    <2>1. /\ Moves(c) /\ s'[c].pc = "search" /\ s'[c].ask = s[c].ask
          /\ s'[c].coll = s[c].coll /\ s'[c].result = s[c].result /\ s'[c].pass = s[c].pass
          /\ s'[c].attempt = s[c].attempt
          /\ s'[c].after = s[c].after /\ s'[c].item = s[c].item
      BY <1>2 DEF Operations, Moves, Asked, Fields
    <2>2. Asked(s'[c]) /\ Concluded(s'[c])
      BY <1>0, <2>1 DEF Operations, Asked, Concluded, MakingWithPassword, Using, Unlocking, Moves
    <2>3. ~Making(s'[c]) /\ ~Creating(s'[c]) /\ Inside(s[c])
      BY <1>0, <2>1 DEF Making, Creating, Unlocking, Inside
    <2>4. \A d \in Callers : Kept(s[d])'
      BY <1>0, <2>1 DEF Kept, Moves
    <2>5. ASSUME NEW d \in Callers
          PROVE  Asked(s'[d]) /\ Concluded(s'[d]) /\ Holds(d)'
      <3>1. CASE d = c
        BY <1>0, <1>2, <2>1, <2>2, <2>3, <3>1 DEF Operations, Holds, Running, Moves, bus
      <3>2. CASE d # c
        BY <1>2, <2>1, <3>2, OthersKeep
        DEF Operations, Holds, Running, Making, Creating, Unlocking, Matching, bus
      <3> QED BY <3>1, <3>2
    <2>6. \A d \in Callers : /\ s'[d].coll = s[d].coll /\ (Inside(s'[d]) => Inside(s[d]))
                             /\ s'[d].pc \in {"thirdDefault", "setsAlias"} => s'[d].pc = s[d].pc
      BY <2>1, <2>3, OthersKeep
    <2>7. Keyring'
      BY <1>0, <2>6 DEF Operations, Keyring
    <2>8. Unique'
      BY <1>2 DEF Operations, Unique
    <2>9. Operations'
      BY <1>2, <2>1, <2>4, <2>5, <2>7, <2>8 DEF Operations, Moves, bus
    <2> QED BY <2>1, <2>9 DEF Fine
  <1> QED BY <1>1, <1>2 DEF DeletesItem, Acts

\* Every step of an operation whose context lives.
LEMMA OperatesKeeps ==
    ASSUME Operations, NEW c \in Callers, Operates(c)
    PROVE  Fine(c) /\ s[c].pc \notin {"waits", "ended"}
  <1>1. Fine(c)
    BY OpensKeeps, TakesSetupKeeps, ReadsDefaultKeeps, MakesCollectionKeeps, SetsAliasKeeps,
       ConfirmsAliasKeeps, AsksNobodyKeeps, BeginsUnlockKeeps, ChecksAliasKeeps,
       UnlocksWithPasswordKeeps, VerifiesUnlockKeeps, NativePromptKeeps, SearchesKeeps,
       ReadsAttributesKeeps, GetsSecretKeeps, CreatesItemKeeps, DeletesItemKeeps
    DEF Operates
  <1>2. s[c].pc \notin {"waits", "ended"}
    BY DEF Operates, Opens, TakesSetup, ReadsDefault, AfterDefault, MakesCollection, SetsAlias,
           ConfirmsAlias, AsksNobody, BeginsUnlock, ChecksAlias, UnlocksWithPassword,
           VerifiesUnlock, NativePrompt, Searches, ReadsAttributes, GetsSecret, CreatesItem,
           DeletesItem, Acts, Calls, At
  <1> QED BY <1>1, <1>2

\* The other programs of the session.
LEMMA EnvironmentKeeps ==
    ASSUME Operations, ForeignDefault \/ UserLocks \/ ProviderRestarts
    PROVE  Operations' /\ UNCHANGED s
  <1>1. UNCHANGED <<items, bus, s>> /\ alias' \in {alias, Foreign}
    BY DEF ForeignDefault, UserLocks, ProviderRestarts
  <1>2. \A c \in Callers : Asked(s[c])' /\ Concluded(s[c])' /\ Kept(s[c])' /\ Holds(c)'
    BY <1>1 DEF Operations, Asked, Concluded, Kept, Holds, Using, Unlocking, Creating, Making,
                Running, Matching, bus
  <1>3. Keyring'
    BY <1>1, CallersAssumption DEF Operations, Keyring, Inside, Unlocking
  <1> QED BY <1>1, <1>2, <1>3 DEF Operations, Unique, bus

----------------------------------------------------------------------------
(* The steps of the exchange *)

LEMMA Appended ==
    ASSUME NEW q, IsSeq(q), NEW e
    PROVE  /\ IsSeq(Append(q, e)) /\ Len(q) \in Nat /\ DOMAIN q = 1..Len(q)
           /\ DOMAIN Append(q, e) = 1..(Len(q) + 1) /\ Len(Append(q, e)) = Len(q) + 1
           /\ \A k \in 1..Len(q) : Append(q, e)[k] = q[k]
           /\ Append(q, e)[Len(q) + 1] = e
  <1> DEFINE S == {q[k] : k \in DOMAIN q} \cup {e}
  <1>1. q \in Seq(S)
    BY DEF IsSeq
  <1>2. /\ Append(q, e) \in Seq(S) /\ Len(Append(q, e)) = Len(q) + 1 /\ Len(q) \in Nat
        /\ \A k \in 1..Len(q) : Append(q, e)[k] = q[k]
        /\ Append(q, e)[Len(q) + 1] = e
    BY <1>1, AppendProperties, LenProperties
  <1>3. DOMAIN q = 1..Len(q) /\ DOMAIN Append(q, e) = 1..(Len(q) + 1)
    BY <1>1, <1>2, LenProperties
  <1>4. Append(q, e) \in Seq({Append(q, e)[k] : k \in DOMAIN Append(q, e)})
    BY <1>2, <1>3
  <1> QED BY <1>2, <1>3, <1>4 DEF IsSeq

LEMMA Consumed ==
    ASSUME NEW q, IsSeq(q), q # <<>>
    PROVE  /\ IsSeq(Tail(q)) /\ Len(q) \in Nat \ {0} /\ DOMAIN q = 1..Len(q)
           /\ DOMAIN Tail(q) = 1..(Len(q) - 1) /\ Len(Tail(q)) = Len(q) - 1
           /\ \A k \in 1..(Len(q) - 1) : Tail(q)[k] = q[k + 1]
           /\ Head(q) = q[1]
  <1> DEFINE S == {q[k] : k \in DOMAIN q}
  <1>1. q \in Seq(S)
    BY DEF IsSeq
  <1>2. /\ Tail(q) \in Seq(S) /\ Len(Tail(q)) = Len(q) - 1 /\ Len(q) \in Nat \ {0}
        /\ \A k \in 1..(Len(q) - 1) : Tail(q)[k] = q[k + 1]
        /\ DOMAIN q = 1..Len(q) /\ Head(q) = q[1]
    BY <1>1, HeadTailProperties, LenProperties, EmptySeq
  <1>3. DOMAIN Tail(q) = 1..(Len(q) - 1)
    BY <1>2, LenProperties
  <1>4. Tail(q) \in Seq({Tail(q)[k] : k \in DOMAIN Tail(q)})
    <2>1. PICK t : t = Tail(q)
      OBVIOUS
    <2>2. t \in Seq(S) /\ DOMAIN t = 1..Len(t) /\ Len(t) \in Nat
      BY <1>2, <2>1, LenProperties
    <2>3. t \in [1..Len(t) -> {t[k] : k \in DOMAIN t}]
      BY <2>2
    <2>4. t \in Seq({t[k] : k \in DOMAIN t})
      BY <2>2, <2>3, SeqDef
    <2> QED BY <2>1, <2>4
  <1> QED BY <1>2, <1>3, <1>4 DEF IsSeq

LEMMA Nothing == IsSeq(<<>>) /\ DOMAIN <<>> = {} /\ Len(<<>>) = 0
  BY DEF IsSeq

\* A step of another operation, or of another program.
LEMMA ExchangeRests ==
    ASSUME Exchange, UNCHANGED exchange, s'[Edit] = s[Edit]
    PROVE  Exchange'
  BY DEF Exchange, exchange, Frames, Challenges, Answering, Answers, Reports, Replied, Sent,
         Connected, SuccessIsWhole, IsSeq

\* A step of the request's operation that does not begin or continue a prompt.
LEMMA EditStepKeeps ==
    ASSUME Exchange, UNCHANGED exchange, Moves(Edit), s[Edit].pc # "ended", s'[Edit].pc # "waits",
           s[Edit].pc = "waits" => s'[Edit].pc = "ended"
    PROVE  Exchange'
  <1>1. Frames'
    BY DEF Exchange, exchange, Frames, Moves, IsSeq
  <1>2. Challenges'
    BY DEF Exchange, exchange, Challenges
  <1>3. Answering'
    BY DEF Answering
  <1>4. Reports'
    BY DEF Exchange, exchange, Reports, Replied, Sent, Connected
  <1>5. SuccessIsWhole'
    BY DEF Exchange, exchange, Reports, SuccessIsWhole
  <1> QED BY <1>1, <1>2, <1>3, <1>4, <1>5 DEF Exchange

LEMMA SendsChallengeKeeps ==
    ASSUME IInv, SendsChallenge PROVE IInv'
  <1>0. /\ s[Edit].pc = "ask" /\ Running(Edit) /\ UNCHANGED <<store, cl, up>> /\ Edit \in Callers
        /\ x.pending = 0 /\ x.parked = NoOne
    BY EditAssumption DEF SendsChallenge, At, Running, IInv, Exchange, Challenges
  <1>1. CASE MayAsk /\ x.next < MaxChallenges /\ Connected
    <2> DEFINE f == [is |-> "challenge", id |-> x.next + 1, ask |-> s[Edit].ask,
                     attempt |-> s[Edit].attempt]
    <2>1. /\ x' = [x EXCEPT !.next = @ + 1, !.pending = x.next + 1]
          /\ down' = Append(down, f) /\ s' = [s EXCEPT ![Edit].pc = "waits"] /\ UNCHANGED bus
      BY <1>1 DEF SendsChallenge, Go
    <2>2. /\ Moves(Edit) /\ s'[Edit].pc = "waits" /\ s'[Edit].ask = s[Edit].ask
          /\ s'[Edit].coll = s[Edit].coll /\ s'[Edit].result = s[Edit].result
          /\ s'[Edit].pass = s[Edit].pass /\ s'[Edit].attempt = s[Edit].attempt
          /\ s'[Edit].after = s[Edit].after /\ s'[Edit].item = s[Edit].item
      BY <1>0, <2>1 DEF IInv, Operations, Moves, Asked, Fields
    <2>3. Asked(s'[Edit]) /\ Concluded(s'[Edit])
      BY <1>0, <2>2 DEF IInv, Operations, Asked, Concluded, MakingWithPassword, Using, Unlocking,
                        Moves
    <2>4. /\ Making(s'[Edit]) => Making(s[Edit])
          /\ Creating(s'[Edit]) => Creating(s[Edit])
          /\ Inside(s'[Edit]) => Inside(s[Edit])
      BY <1>0, <2>2 DEF Making, Creating, Inside, Unlocking
    <2>5. Making(s'[Edit]) => setup' = Edit
      BY <1>0, <2>1, <2>4 DEF IInv, Operations, Holds, bus
    <2>6. Operations'
      BY <1>0, <2>1, <2>2, <2>3, <2>4, <2>5, MoveKeeps DEF IInv, store, bus
    <2>7. /\ IsSeq(down') /\ DOMAIN down' = 1..(Len(down) + 1) /\ DOMAIN down = 1..Len(down)
          /\ \A k \in 1..Len(down) : down'[k] = down[k]
          /\ down'[Len(down) + 1] = f /\ Len(down) \in Nat /\ Len(down') = Len(down) + 1
      BY <2>1, Appended DEF IInv, Exchange, Frames
    <2>8. /\ x'.next = x.next + 1 /\ x'.pending = x.next + 1 /\ x'.phase = x.phase
          /\ x'.result = x.result /\ x'.left = x.left /\ x'.parked = x.parked
          /\ x.next \in Nat /\ DOMAIN x' = DOMAIN x /\ x.phase # "closed"
      BY <1>1, <2>1 DEF IInv, Exchange, Frames, Challenges, MayAsk, Open
    <2>9. Frames'
      <3>1. \A k \in DOMAIN down' : (k \in DOMAIN down /\ down'[k] = down[k]) \/ down'[k] = f
        BY <2>7
      <3>2. \A k \in DOMAIN down' : down'[k].is \in {"challenge", "result", "reply"}
        BY <3>1 DEF IInv, Exchange, Frames
      <3>3. IsSeq(up)'
        BY <1>0 DEF IInv, Exchange, Frames, IsSeq
      <3> QED BY <1>0, <2>2, <2>7, <2>8, <3>2, <3>3 DEF IInv, Exchange, Frames, Moves
    <2>10. Challenges'
      <3>1. \A k \in DOMAIN down' : down'[k].is = "challenge" => down'[k].id \in 1..x'.next
        <4>1. SUFFICES ASSUME NEW k \in DOMAIN down', down'[k].is = "challenge"
                       PROVE  down'[k].id \in 1..x'.next
          OBVIOUS
        <4>2. CASE k = Len(down) + 1
          BY <2>7, <2>8, <4>2
        <4>3. CASE k # Len(down) + 1
          BY <2>7, <2>8, <4>1, <4>3 DEF IInv, Exchange, Challenges
        <4> QED BY <4>2, <4>3
      <3>2. cl'.id \in 0..x'.next /\ \A k \in DOMAIN up' : up'[k].id \in 0..x'.next
        BY <1>0, <2>8 DEF IInv, Exchange, Challenges
      <3> QED BY <1>0, <2>2, <2>8, <3>1, <3>2 DEF Challenges
    <2>11. Answering'
      BY <1>0, <2>2, <2>7, <2>8 DEF IInv, Exchange, Challenges, Answering
    <2>12. Reports'
      <3>1. Sent \subseteq Sent'
        BY <2>7 DEF Sent
      <3>2. \A k \in DOMAIN down : down[k].is # "reply"
        BY <2>8 DEF IInv, Exchange, Reports, Replied
      <3>3. \A k \in DOMAIN down' : down'[k].is # "reply"
        BY <2>7, <3>2
      <3> QED BY <1>0, <1>1, <2>8, <3>1, <3>3 DEF IInv, Exchange, Reports, Connected
    <2>13. SuccessIsWhole'
      BY <1>0, <1>1 DEF IInv, Exchange, Reports, SuccessIsWhole
    <2> QED BY <2>6, <2>9, <2>10, <2>11, <2>12, <2>13 DEF IInv, Exchange
  <1>2. CASE ~(MayAsk /\ x.next < MaxChallenges /\ Connected)
    <2>1. /\ \E r \in {"unavailable", "cancelled"} : Return(Edit, r, NoOne)
          /\ x' = [x EXCEPT !.ended = @ \/ ~Connected] /\ UNCHANGED down
      BY <1>2 DEF SendsChallenge
    <2>2. Operations' /\ Moves(Edit) /\ s'[Edit].pc = "ended"
      BY <1>0, <2>1, ReturnKeeps DEF IInv
    <2>3. /\ x'.next = x.next /\ x'.pending = x.pending /\ x'.phase = x.phase
          /\ x'.result = x.result /\ x'.left = x.left /\ x'.parked = x.parked
          /\ DOMAIN x' = DOMAIN x
      BY <2>1 DEF IInv, Exchange, Frames
    <2>4. Frames' /\ Challenges' /\ Answering'
      BY <1>0, <2>1, <2>2, <2>3 DEF IInv, Exchange, Frames, Challenges, Answering, Moves, IsSeq
    <2>5. Reports'
      BY <1>0, <2>1, <2>2, <2>3 DEF IInv, Exchange, Reports, Replied, Sent, Connected
    <2>6. SuccessIsWhole'
      BY <1>0 DEF IInv, Exchange, Reports, SuccessIsWhole
    <2> QED BY <2>2, <2>4, <2>5, <2>6 DEF IInv, Exchange
  <1> QED BY <1>1, <1>2

\* Steps that leave the keyring, the client and the frames alone.
LEMMA OperationsRest ==
    ASSUME Operations, UNCHANGED <<store, bus, s>>
    PROVE  Operations'
  BY DEF Operations, store, bus, Asked, Concluded, Using, Unlocking, Kept, Holds, Running, Making,
         Creating, Matching, Keyring, Inside, Unique

LEMMA ServerReadsKeeps ==
    ASSUME IInv, ServerReads PROVE IInv'
  <1>0. UNCHANGED <<store, bus, s, cl, down>> /\ x.parked = NoOne /\ up # <<>>
    BY DEF ServerReads
  <1>1. Operations'
    BY <1>0, OperationsRest DEF IInv
  <1>2. /\ IsSeq(up') /\ DOMAIN up' = 1..(Len(up) - 1) /\ DOMAIN up = 1..Len(up)
        /\ \A k \in 1..(Len(up) - 1) : up'[k] = up[k + 1]
        /\ Head(up) = up[1] /\ Len(up) \in Nat \ {0}
    BY <1>0, Consumed DEF ServerReads, IInv, Exchange, Frames
  <1>3. /\ x'.next = x.next /\ x'.pending = 0 /\ x'.phase = x.phase /\ DOMAIN x' = DOMAIN x
        /\ x'.result = x.result /\ x'.left = x.left
        /\ x'.parked # NoOne => /\ x.pending # 0 /\ up[1].id = x.pending
                                /\ x'.parked = up[1].answer
    BY <1>0, <1>2 DEF ServerReads, Accepts, IInv, Exchange, Frames
  <1>4. Frames'
    BY <1>0, <1>2, <1>3 DEF IInv, Exchange, Frames, IsSeq
  <1>5. \A k \in DOMAIN up' : \E j \in DOMAIN up : up'[k] = up[j]
    BY <1>2
  <1>6. Challenges'
    BY <1>0, <1>3, <1>5 DEF IInv, Exchange, Challenges
  <1>7. Answering'
    <2>1. x'.parked # NoOne /\ s[Edit].pc = "waits" => x'.parked \in Answers(Edit)
      BY <1>2, <1>3 DEF IInv, Exchange, Challenges, Answering
    <2> QED BY <1>0, <1>3, <1>5, <2>1 DEF IInv, Exchange, Answering, Answers
  <1>8. Reports' /\ SuccessIsWhole'
    BY <1>0, <1>3 DEF IInv, Exchange, Reports, Replied, Sent, Connected, SuccessIsWhole
  <1> QED BY <1>1, <1>4, <1>6, <1>7, <1>8 DEF IInv, Exchange

\* Steps of the service that change none of its tables but those of the prompt.
LEMMA ServiceKeeps ==
    ASSUME IInv, UNCHANGED <<store, bus, s, cl, down, up>>,
           x'.next = x.next, x'.pending = x.pending, x'.phase = x.phase, DOMAIN x' = DOMAIN x,
           x'.result = x.result, x'.left = x.left, x'.parked \in {NoOne, x.parked}
    PROVE  IInv'
  <1>1. Operations'
    BY OperationsRest DEF IInv
  <1>2. Frames' /\ Challenges'
    BY DEF IInv, Exchange, Frames, Challenges, IsSeq
  <1>3. Answering'
    BY DEF IInv, Exchange, Answering, Answers
  <1>4. Reports' /\ SuccessIsWhole'
    BY DEF IInv, Exchange, Reports, Replied, Sent, Connected, SuccessIsWhole
  <1> QED BY <1>1, <1>2, <1>3, <1>4 DEF IInv, Exchange

LEMMA TakesAnswerKeeps ==
    ASSUME IInv, TakesAnswer PROVE IInv'
  <1>0. /\ s[Edit].pc = "waits" /\ x.parked # NoOne /\ UNCHANGED <<cl, down, up>>
        /\ x.parked \in Answers(Edit) /\ Resumes(Edit, x.parked) /\ x.pending = 0
    BY DEF TakesAnswer, At, IInv, Exchange, Challenges, Answering
  <1>1. Operations' /\ Moves(Edit) /\ s'[Edit].pc # "waits"
    BY <1>0, ResumesKeeps, EditAssumption DEF IInv
  <1>2. /\ x'.next = x.next /\ x'.pending = 0 /\ x'.phase = x.phase /\ DOMAIN x' = DOMAIN x
        /\ x'.result = x.result /\ x'.left = x.left /\ x'.parked = NoOne
    BY <1>0 DEF TakesAnswer, IInv, Exchange, Frames
  <1>3. Frames' /\ Challenges' /\ Answering'
    BY <1>0, <1>1, <1>2 DEF IInv, Exchange, Frames, Challenges, Answering, Moves, IsSeq
  <1>4. Reports' /\ SuccessIsWhole'
    BY <1>0, <1>2 DEF IInv, Exchange, Reports, Replied, Sent, Connected, SuccessIsWhole
  <1> QED BY <1>1, <1>3, <1>4 DEF IInv, Exchange

\* The request's operation fails, for whatever reason.
LEMMA EditFailsKeeps ==
    ASSUME IInv, Running(Edit), NEW result, result # "ok", Return(Edit, result, NoOne),
           UNCHANGED <<store, exchange>>
    PROVE  IInv'
  <1>1. Operations' /\ Moves(Edit) /\ s'[Edit].pc = "ended"
    BY ReturnKeeps, EditAssumption DEF IInv
  <1>2. Exchange'
    BY <1>1, EditStepKeeps DEF IInv, Running
  <1> QED BY <1>1, <1>2 DEF IInv

LEMMA PromptExpiresKeeps ==
    ASSUME IInv, PromptExpires PROVE IInv'
  BY EditFailsKeeps DEF PromptExpires, PromptEnds, At, Running

LEMMA KeyringReturnsKeeps ==
    ASSUME IInv, KeyringReturns PROVE IInv'
  <1>0. UNCHANGED <<store, bus, s, cl, down, up>> /\ x.phase = "keyring" /\ x.result = None
    BY DEF KeyringReturns, IInv, Exchange, Reports
  <1>1. Operations'
    BY <1>0, OperationsRest DEF IInv
  <1>2. PICK result :
          /\ result = IF x.ended THEN "cancelled" ELSE s[Edit].result
          /\ At(Edit, "ended") \/ x.ended
          /\ x' = [x EXCEPT !.phase = "checks", !.result = result,
                            !.left = IF result = "cancelled" THEN {} ELSE @]
    BY DEF KeyringReturns
  <1>3. /\ x'.next = x.next /\ x'.pending = x.pending /\ x'.phase = "checks"
        /\ DOMAIN x' = DOMAIN x /\ x'.result = result /\ x'.parked = x.parked
        /\ x'.left = IF result = "cancelled" THEN {} ELSE x.left
    BY <1>2 DEF IInv, Exchange, Frames
  <1>4. Frames' /\ Challenges'
    BY <1>0, <1>3 DEF IInv, Exchange, Frames, Challenges, IsSeq
  <1>5. Answering'
    BY <1>0, <1>3 DEF IInv, Exchange, Answering, Answers
  <1>6. Reports'
    <2>1. \A k \in DOMAIN down : down[k].is # "reply"
      BY <1>0 DEF IInv, Exchange, Reports, Replied
    <2>2. result = "ok" => s[Edit].pc = "ended" /\ s[Edit].result = "ok"
      BY <1>2 DEF At
    <2>3. x.result # "cancelled"
      BY <1>0 DEF None
    <2> QED BY <1>0, <1>3, <2>1, <2>2, <2>3 DEF IInv, Exchange, Reports, Sent, Connected
  <1>7. SuccessIsWhole'
    BY <1>0 DEF IInv, Exchange, SuccessIsWhole
  <1> QED BY <1>1, <1>4, <1>5, <1>6, <1>7 DEF IInv, Exchange

LEMMA BatchEndsKeeps ==
    ASSUME IInv, BatchEnds PROVE IInv'
  <1>0. UNCHANGED <<store, bus, s, cl, down, up>> /\ x.phase = "checks"
    BY DEF BatchEnds
  <1>1. Operations'
    BY <1>0, OperationsRest DEF IInv
  <1>2. /\ x'.next = x.next /\ x'.pending = x.pending /\ x'.phase = "checks"
        /\ DOMAIN x' = DOMAIN x /\ x'.result = "cancelled" /\ x'.parked = x.parked
    BY <1>0 DEF BatchEnds, IInv, Exchange, Frames
  <1>3. Frames' /\ Challenges'
    BY <1>0, <1>2 DEF IInv, Exchange, Frames, Challenges, IsSeq
  <1>4. Answering'
    BY <1>0, <1>2 DEF IInv, Exchange, Answering, Answers
  <1>5. Reports'
    BY <1>0, <1>2 DEF IInv, Exchange, Reports, Replied, Connected
  <1>6. SuccessIsWhole'
    BY <1>0 DEF IInv, Exchange, SuccessIsWhole
  <1> QED BY <1>1, <1>3, <1>4, <1>5, <1>6 DEF IInv, Exchange

\* A result takes the place of its check among what the client is owed.
LEMMA ReportKeeps ==
    ASSUME IInv, NEW t \in Targets, Report(t) PROVE IInv'
  <1>0. /\ UNCHANGED <<store, bus, s, cl, up>> /\ x.phase = "checks" /\ t \in x.left
        /\ \A k \in DOMAIN down : down[k].is # "reply"
    BY DEF Report, IInv, Exchange, Reports, Replied
  <1>1. CASE Connected
    <2>1. Operations'
      BY <1>0, OperationsRest DEF IInv
    <2>2. /\ x'.next = x.next /\ x'.pending = x.pending /\ x'.phase = "checks"
          /\ DOMAIN x' = DOMAIN x /\ x'.result = x.result /\ x'.parked = x.parked
          /\ x'.left = x.left \ {t}
      BY <1>0, <1>1 DEF Report, IInv, Exchange, Frames
    <2> DEFINE f == [is |-> "result", of |-> t]
    <2>3. /\ IsSeq(down') /\ DOMAIN down' = 1..(Len(down) + 1) /\ DOMAIN down = 1..Len(down)
          /\ \A k \in 1..Len(down) : down'[k] = down[k]
          /\ down'[Len(down) + 1] = f /\ Len(down) \in Nat
      <3>1. IsSeq(down) /\ down' = Append(down, f)
        BY <1>1 DEF Report, IInv, Exchange, Frames
      <3> HIDE DEF f
      <3> QED BY <3>1, Appended
    <2>4. \A k \in DOMAIN down' : (k \in DOMAIN down /\ down'[k] = down[k]) \/ down'[k] = f
      BY <2>3
    <2>5. Frames' /\ Challenges'
      <3>1. \A k \in DOMAIN down' : down'[k].is \in {"challenge", "result", "reply"}
        BY <2>4 DEF IInv, Exchange, Frames
      <3>2. IsSeq(up)'
        BY <1>0 DEF IInv, Exchange, Frames, IsSeq
      <3>3. Frames'
        BY <1>0, <2>2, <2>3, <3>1, <3>2 DEF IInv, Exchange, Frames
      <3>4. Challenges'
        BY <1>0, <2>2, <2>4 DEF IInv, Exchange, Challenges
      <3> QED BY <3>3, <3>4
    <2>6. Answering'
      BY <1>0, <2>2, <2>4 DEF IInv, Exchange, Answering, Answers
    <2>7. Sent \cup {t} \subseteq Sent'
      <3>1. Sent \subseteq Sent'
        BY <2>3 DEF Sent
      <3>2. t \in Sent'
        <4>1. Len(down) + 1 \in DOMAIN down' /\ down'[Len(down) + 1].is = "result"
              /\ down'[Len(down) + 1].of = t
          BY <2>3
        <4> QED BY <4>1 DEF Sent
      <3> QED BY <3>1, <3>2
    <2>8. Reports'
      BY <1>0, <2>2, <2>4, <2>7 DEF IInv, Exchange, Reports, Connected
    <2>9. SuccessIsWhole'
      BY <1>0 DEF IInv, Exchange, SuccessIsWhole
    <2> QED BY <2>1, <2>5, <2>6, <2>8, <2>9 DEF IInv, Exchange
  <1>2. CASE ~Connected
    <2>1. /\ x'.next = x.next /\ x'.pending = x.pending /\ x'.phase = x.phase /\ DOMAIN x' = DOMAIN x
          /\ x'.result = x.result /\ x'.left = x.left /\ x'.parked = x.parked
          /\ UNCHANGED down
      BY <1>2 DEF Report, IInv, Exchange, Frames
    <2> QED BY <1>0, <2>1, ServiceKeeps
  <1> QED BY <1>1, <1>2

\* The reply is written when every check has returned, and nothing after it.
LEMMA SendsReplyKeeps ==
    ASSUME IInv, SendsReply PROVE IInv'
  <1>0. /\ UNCHANGED <<store, bus, s, cl>> /\ up' = <<>> /\ x.phase = "checks" /\ x.left = {}
        /\ \A k \in DOMAIN down : down[k].is # "reply"
    BY DEF SendsReply, ChecksReturned, IInv, Exchange, Reports, Replied
  <1>1. Operations'
    BY <1>0, OperationsRest DEF IInv
  <1>2. /\ x'.next = x.next /\ x'.pending = x.pending /\ x'.phase = "closed"
        /\ DOMAIN x' = DOMAIN x /\ x'.result = x.result /\ x'.parked = x.parked
        /\ x'.left = {}
    BY <1>0 DEF SendsReply, IInv, Exchange, Frames
  <1>3. IsSeq(up') /\ DOMAIN up' = {}
    BY <1>0, Nothing
  <1> DEFINE error == IF cl.want # {} /\ x.result # "cancelled" THEN "ok" ELSE x.result
             f == [is |-> "reply", error |-> error]
  <1>4. CASE Connected
    <2>3. /\ IsSeq(down') /\ DOMAIN down' = 1..(Len(down) + 1) /\ DOMAIN down = 1..Len(down)
          /\ \A k \in 1..Len(down) : down'[k] = down[k]
          /\ down'[Len(down) + 1] = f /\ Len(down) \in Nat /\ Len(down') = Len(down) + 1
      BY <1>4, Appended DEF SendsReply, IInv, Exchange, Frames
    <2>4. \A k \in DOMAIN down' : \/ k \in DOMAIN down /\ down'[k] = down[k]
                                  \/ k = Len(down') /\ down'[k] = f
      BY <2>3
    <2>5. Frames'
      BY <1>0, <1>2, <1>3, <2>3 DEF IInv, Exchange, Frames
    <2>6. Challenges'
      BY <1>0, <1>2, <1>3, <2>4 DEF IInv, Exchange, Challenges
    <2>7. Answering'
      BY <1>0, <1>2, <1>3, <2>4 DEF IInv, Exchange, Answering, Answers
    <2>8. Sent \subseteq Sent'
      BY <2>3 DEF Sent
    <2>9. f.error = "ok" => x.result # "cancelled" /\ (cl.want = {} => x.result = "ok")
      OBVIOUS
    <2>10. \A k \in DOMAIN down' : down'[k].is = "reply" => Replied(k)'
      BY <1>0, <1>2, <2>4, <2>9 DEF Replied
    <2>11. Reports'
      BY <1>0, <1>2, <2>8, <2>10 DEF IInv, Exchange, Reports, Connected
    <2>12. SuccessIsWhole'
      BY <1>0 DEF IInv, Exchange, SuccessIsWhole
    <2> QED BY <1>1, <2>5, <2>6, <2>7, <2>11, <2>12 DEF IInv, Exchange
  <1>5. CASE ~Connected
    <2>1. IsSeq(down') /\ DOMAIN down' = {}
      BY <1>5, Nothing DEF SendsReply
    <2>2. Frames' /\ Challenges'
      BY <1>0, <1>2, <1>3, <2>1 DEF IInv, Exchange, Frames, Challenges
    <2>3. Answering'
      BY <1>0, <1>2, <1>3, <2>1 DEF IInv, Exchange, Answering, Answers
    <2>4. Reports' /\ SuccessIsWhole'
      BY <1>0, <1>2, <1>5, <2>1 DEF IInv, Exchange, Reports, Connected, SuccessIsWhole
    <2> QED BY <1>1, <2>2, <2>3, <2>4 DEF IInv, Exchange
  <1> QED BY <1>4, <1>5

LEMMA ServiceDiesKeeps ==
    ASSUME IInv, ServiceDies PROVE IInv'
  <1>0. /\ UNCHANGED <<cl, down>> /\ up' = <<>> /\ x.phase # "closed"
        /\ \A k \in DOMAIN down : down[k].is # "reply"
    BY DEF ServiceDies, Open, IInv, Exchange, Reports, Replied
  <1>1. Operations' /\ s'[Edit].goal = s[Edit].goal
        /\ (s'[Edit] = s[Edit] \/ (s[Edit].pc # "ended" /\ s'[Edit].pc = "ended"))
        /\ s'[Edit].pc # "waits"
    <2>1. CASE Running(Edit)
      <3>1. Return(Edit, "unavailable", NoOne) /\ UNCHANGED store
        BY <2>1 DEF ServiceDies, Fails
      <3>2. Operations' /\ Moves(Edit) /\ s'[Edit].pc = "ended"
        BY <2>1, <3>1, ReturnKeeps, EditAssumption DEF IInv
      <3> QED BY <2>1, <3>2 DEF Moves, Running
    <2>2. CASE ~Running(Edit)
      BY <2>2, OperationsRest DEF ServiceDies, Running, IInv
    <2> QED BY <2>1, <2>2
  <1>2. /\ x'.next = x.next /\ x'.pending = x.pending /\ x'.phase = "closed"
        /\ DOMAIN x' = DOMAIN x /\ x'.result = x.result /\ x'.parked = NoOne
        /\ x'.left = x.left
    BY <1>0 DEF ServiceDies, IInv, Exchange, Frames
  <1>3. IsSeq(up') /\ DOMAIN up' = {}
    BY <1>0, Nothing
  <1>4. Frames'
    BY <1>0, <1>1, <1>2, <1>3 DEF IInv, Exchange, Frames, IsSeq
  <1>5. Challenges'
    BY <1>0, <1>1, <1>2, <1>3 DEF IInv, Exchange, Challenges
  <1>6. Answering'
    BY <1>1 DEF Answering
  <1>7. Reports'
    BY <1>0, <1>1, <1>2 DEF IInv, Exchange, Reports, Sent, Connected
  <1>8. SuccessIsWhole'
    BY <1>0, <1>1 DEF IInv, Exchange, Reports, SuccessIsWhole
  <1> QED BY <1>1, <1>4, <1>5, <1>6, <1>7, <1>8 DEF IInv, Exchange

LEMMA ServerKeeps == ASSUME IInv, Server PROVE IInv'
  <1>1. CASE ReaderEnds
    <2>1. /\ x'.next = x.next /\ x'.pending = x.pending /\ x'.phase = x.phase /\ DOMAIN x' = DOMAIN x
          /\ x'.result = x.result /\ x'.left = x.left /\ x'.parked = NoOne
          /\ UNCHANGED <<store, bus, s, cl, down, up>>
      BY <1>1 DEF ReaderEnds, IInv, Exchange, Frames
    <2> QED BY <2>1, ServiceKeeps
  <1>2. CASE ServiceStops
    <2>1. /\ x'.next = x.next /\ x'.pending = x.pending /\ x'.phase = x.phase /\ DOMAIN x' = DOMAIN x
          /\ x'.result = x.result /\ x'.left = x.left /\ x'.parked = x.parked
          /\ UNCHANGED <<store, bus, s, cl, down, up>>
      BY <1>2 DEF ServiceStops, IInv, Exchange, Frames
    <2> QED BY <2>1, ServiceKeeps
  <1> QED BY <1>1, <1>2, SendsChallengeKeeps, ServerReadsKeeps, TakesAnswerKeeps, PromptExpiresKeeps,
             KeyringReturnsKeeps, BatchEndsKeeps, SendsReplyKeeps, ServiceDiesKeeps, ReportKeeps
          DEF Server

----------------------------------------------------------------------------
(* The steps of the client *)

\* The client is gone: what it was owed no longer matters.
LEMMA ClientGone ==
    ASSUME IInv, UNCHANGED <<store, bus, s, x, up>>, NEW outcome, ClientReturns(outcome),
           down' = <<>> \/ down' = down,
           outcome = "ok" => cl.reported = cl.want /\ (cl.want = {} => x.result = "ok")
    PROVE  IInv'
  <1>1. Operations'
    BY OperationsRest DEF IInv
  <1>2. /\ cl'.pc = "closed" /\ cl'.outcome = outcome /\ cl'.id = 0 /\ cl'.error = None
        /\ cl'.want = cl.want /\ cl'.reported = cl.reported /\ DOMAIN cl' = DOMAIN cl
    BY DEF ClientReturns, IInv, Exchange, Frames
  <1>3. IsSeq(down') /\ \A k \in DOMAIN down' : down' = down
    BY Nothing DEF IInv, Exchange, Frames
  <1>4. Frames'
    BY <1>2, <1>3 DEF IInv, Exchange, Frames, IsSeq
  <1>5. Challenges'
    BY <1>2, <1>3 DEF IInv, Exchange, Challenges
  <1>6. Answering'
    BY <1>2, <1>3 DEF IInv, Exchange, Answering, Answers
  <1>7. Reports'
    <2>1. \A k \in DOMAIN down' : down'[k].is = "reply" => Replied(k)'
      BY <1>2, <1>3 DEF IInv, Exchange, Reports, Replied
    <2> QED BY <1>2, <2>1 DEF IInv, Exchange, Reports, Connected, None
  <1>8. SuccessIsWhole'
    BY <1>2, EditAssumption
    DEF IInv, Exchange, Reports, Frames, Operations, Concluded, SuccessIsWhole
  <1> QED BY <1>1, <1>4, <1>5, <1>6, <1>7, <1>8 DEF IInv, Exchange

\* Frames the client keeps: all but the first.
LEMMA ClientReadsKeeps ==
    ASSUME IInv, ClientReads PROVE IInv'
  <1>0. cl.pc = "reading" /\ down # <<>> /\ UNCHANGED <<store, bus, s, x, up>>
    BY DEF ClientReads
  <1>1. /\ IsSeq(Tail(down)) /\ Len(down) \in Nat \ {0} /\ DOMAIN down = 1..Len(down)
        /\ DOMAIN Tail(down) = 1..(Len(down) - 1) /\ Len(Tail(down)) = Len(down) - 1
        /\ \A k \in 1..(Len(down) - 1) : Tail(down)[k] = down[k + 1]
        /\ Head(down) = down[1]
    BY <1>0, Consumed DEF IInv, Exchange, Frames
  <1>2. down' = IF Connected' THEN Tail(down) ELSE <<>>
    BY DEF ClientReads
  <1> DEFINE f == Head(down)
  <1>3. f = down[1] /\ 1 \in DOMAIN down /\ f.is \in {"challenge", "result", "reply"}
    BY <1>1 DEF IInv, Exchange, Frames
  <1>4. ASSUME NEW outcome, ClientReturns(outcome),
               outcome = "ok" => cl.reported = cl.want /\ (cl.want = {} => x.result = "ok")
        PROVE  IInv'
    <2>1. ~Connected'
      BY <1>4 DEF ClientReturns, Connected, IInv, Exchange, Frames
    <2> QED BY <1>0, <1>2, <1>4, <2>1, ClientGone
  <1>5. CASE f.is = "reply"
    <2>1. ClientReturns(IF cl.error # None THEN cl.error ELSE f.error)
      BY <1>5 DEF ClientReads, ReceivesReply
    <2>2. Replied(1) /\ Len(down) = 1
      BY <1>3, <1>5 DEF IInv, Exchange, Reports, Replied
    <2>3. Sent = {}
      BY <1>1, <1>3, <1>5, <2>2 DEF Sent
    <2>4. f.error = "ok" => cl.reported = cl.want /\ (cl.want = {} => x.result = "ok")
      BY <1>0, <1>3, <2>2, <2>3 DEF IInv, Exchange, Reports, Replied, Connected
    <2>5. cl.error # "ok"
      BY DEF IInv, Exchange, Reports
    <2> QED BY <1>4, <2>1, <2>4, <2>5
  <1>6. ASSUME NEW g, cl' = g, g.pc # "closed", DOMAIN g = DOMAIN cl,
               g.want = cl.want, g.outcome = cl.outcome, g.error = cl.error
        PROVE  /\ down' = Tail(down) /\ Connected' /\ Connected
               /\ \A k \in DOMAIN down' : k + 1 \in DOMAIN down /\ down'[k] = down[k + 1]
               /\ Operations' /\ Frames' /\ SuccessIsWhole'
               /\ \A k \in DOMAIN down' : down'[k].is = "reply" => Replied(k)'
               /\ f.is # "result" => Sent \subseteq Sent'
               /\ f.is = "result" => Sent \subseteq Sent' \cup {f.of}
    <2>1. down' = Tail(down) /\ Connected' /\ Connected
      BY <1>0, <1>2, <1>6 DEF Connected
    <2>2. \A k \in DOMAIN down' : k + 1 \in DOMAIN down /\ down'[k] = down[k + 1]
      BY <1>1, <2>1
    <2>3. Operations'
      BY <1>0, OperationsRest DEF IInv
    <2>4. Frames'
      <3>1. \A k \in DOMAIN down' : down'[k].is \in {"challenge", "result", "reply"}
        BY <2>2 DEF IInv, Exchange, Frames
      <3>2. IsSeq(up)' /\ IsSeq(down)'
        BY <1>0, <1>1, <2>1 DEF IInv, Exchange, Frames, IsSeq
      <3> QED BY <1>0, <1>6, <3>1, <3>2 DEF IInv, Exchange, Frames
    <2>5. SuccessIsWhole'
      BY <1>0, <1>6, <2>1 DEF IInv, Exchange, Reports, SuccessIsWhole
    <2>6. \A k \in DOMAIN down' : down'[k].is = "reply" => Replied(k)'
      BY <1>0, <1>1, <1>6, <2>1, <2>2 DEF IInv, Exchange, Reports, Replied
    <2>7. ASSUME NEW j \in DOMAIN down, down[j].is = "result", j # 1
          PROVE  down[j].of \in Sent'
      <3>1. j - 1 \in DOMAIN down' /\ down'[j - 1] = down[j]
        BY <1>1, <2>1, <2>7
      <3> QED BY <2>7, <3>1 DEF Sent
    <2>8. (f.is # "result" => Sent \subseteq Sent') /\ (f.is = "result" => Sent \subseteq Sent' \cup {f.of})
      <3>1. ASSUME NEW t \in Sent, t \notin Sent'
            PROVE  f.is = "result" /\ t = f.of
        <4>1. PICK j \in DOMAIN down : down[j].is = "result" /\ t = down[j].of
          BY DEF Sent
        <4>2. j = 1
          BY <2>7, <3>1, <4>1
        <4> QED BY <1>3, <4>1, <4>2
      <3> QED BY <3>1
    <2> QED BY <2>1, <2>2, <2>3, <2>4, <2>5, <2>6, <2>8
  <1>7. CASE f.is = "result" /\ f.of \in cl.want \ cl.reported
    <2>1. cl' = [cl EXCEPT !.reported = @ \cup {f.of}]
      BY <1>7 DEF ClientReads, ReceivesResult
    <2>2. /\ cl'.pc = "reading" /\ DOMAIN cl' = DOMAIN cl /\ cl'.want = cl.want
          /\ cl'.outcome = cl.outcome /\ cl'.error = cl.error /\ cl'.id = cl.id
          /\ cl'.reported = cl.reported \cup {f.of}
      BY <1>0, <2>1 DEF IInv, Exchange, Frames
    <2>3. PICK g : g = cl'
      OBVIOUS
    <2>4. /\ Connected' /\ Connected
          /\ \A k \in DOMAIN down' : k + 1 \in DOMAIN down /\ down'[k] = down[k + 1]
          /\ Operations' /\ Frames' /\ SuccessIsWhole'
          /\ \A k \in DOMAIN down' : down'[k].is = "reply" => Replied(k)'
          /\ Sent \subseteq Sent' \cup {f.of}
      BY <1>6, <1>7, <2>2, <2>3
    <2>5. Challenges'
      BY <1>0, <2>2, <2>4 DEF IInv, Exchange, Challenges
    <2>6. Answering'
      BY <1>0, <2>2, <2>4 DEF IInv, Exchange, Answering, Answers
    <2>7. Reports'
      BY <1>0, <1>7, <2>2, <2>4 DEF IInv, Exchange, Reports
    <2> QED BY <2>4, <2>5, <2>6, <2>7 DEF IInv, Exchange
  <1>8. CASE f.is = "challenge" /\ ~(f.id \in cl.seen \/ Cardinality(cl.seen) >= MaxChallenges)
    <2>1. cl' = [cl EXCEPT !.pc = "asking", !.id = f.id, !.seen = @ \cup {f.id},
                           !.ask = [kind |-> f.ask, attempt |-> f.attempt]]
      BY <1>8 DEF ClientReads, ReceivesChallenge
    <2>2. /\ cl'.pc = "asking" /\ DOMAIN cl' = DOMAIN cl /\ cl'.want = cl.want
          /\ cl'.outcome = cl.outcome /\ cl'.error = cl.error /\ cl'.id = f.id
          /\ cl'.reported = cl.reported
          /\ cl'.ask.kind = f.ask /\ cl'.ask.attempt = f.attempt
      BY <1>0, <2>1 DEF IInv, Exchange, Frames
    <2>3. PICK g : g = cl'
      OBVIOUS
    <2>4. /\ Connected' /\ Connected
          /\ \A k \in DOMAIN down' : k + 1 \in DOMAIN down /\ down'[k] = down[k + 1]
          /\ Operations' /\ Frames' /\ SuccessIsWhole'
          /\ \A k \in DOMAIN down' : down'[k].is = "reply" => Replied(k)'
          /\ Sent \subseteq Sent'
      BY <1>6, <1>8, <2>2, <2>3
    <2>5. f.id \in 0..x.next
      BY <1>3, <1>8 DEF IInv, Exchange, Challenges
    <2>6. Challenges'
      BY <1>0, <2>2, <2>4, <2>5 DEF IInv, Exchange, Challenges
    <2>7. Answering'
      BY <1>0, <1>3, <1>8, <2>2, <2>4 DEF IInv, Exchange, Answering, Answers
    <2>8. Reports'
      BY <1>0, <2>2, <2>4 DEF IInv, Exchange, Reports
    <2> QED BY <2>4, <2>6, <2>7, <2>8 DEF IInv, Exchange
  <1>9. CASE \/ f.is = "result" /\ f.of \notin cl.want \ cl.reported
             \/ f.is = "challenge" /\ (f.id \in cl.seen \/ Cardinality(cl.seen) >= MaxChallenges)
    <2>1. ClientReturns("state")
      BY <1>9 DEF ClientReads, ReceivesResult, ReceivesChallenge
    <2> QED BY <1>4, <2>1
  <1> QED BY <1>3, <1>5, <1>7, <1>8, <1>9

LEMMA ClientAnswersKeeps ==
    ASSUME IInv, ClientAnswers PROVE IInv'
  <1>0. cl.pc = "asking" /\ UNCHANGED <<store, bus, s, x, down>>
    BY DEF ClientAnswers
  <1>1. PICK a \in Typed \cup {Empty, Cancelled} :
          IF Open
          THEN /\ up' = Append(up, [id |-> cl.id, answer |-> Given(a)])
               /\ cl' = [cl EXCEPT !.pc = "reading", !.ask = NoOne, !.error = ErrorOf(a)]
          ELSE /\ \/ cl' = [cl EXCEPT !.pc = "reading", !.ask = NoOne, !.error = ErrorOf(a)]
                  \/ ClientReturns("unavailable")
               /\ UNCHANGED up
    BY DEF ClientAnswers
  <1>2. CASE ~Open /\ ClientReturns("unavailable")
    BY <1>0, <1>1, <1>2, ClientGone
  <1>3. CASE cl' = [cl EXCEPT !.pc = "reading", !.ask = NoOne, !.error = ErrorOf(a)]
    <2>1. /\ cl'.pc = "reading" /\ DOMAIN cl' = DOMAIN cl /\ cl'.want = cl.want
          /\ cl'.outcome = cl.outcome /\ cl'.error # "ok" /\ cl'.id = cl.id
          /\ cl'.reported = cl.reported
      BY <1>3 DEF ErrorOf, None, IInv, Exchange, Frames
    <2>2. Operations'
      BY <1>0, OperationsRest DEF IInv
    <2> DEFINE e == [id |-> cl.id, answer |-> Given(a)]
    <2>3. /\ IsSeq(up')
          /\ \A k \in DOMAIN up' : (k \in DOMAIN up /\ up'[k] = up[k]) \/ (Open /\ up'[k] = e)
      <3>1. CASE Open
        <4>1. IsSeq(up)
          BY DEF IInv, Exchange, Frames
        <4>2. up' = Append(up, e)
          BY <1>1, <3>1
        <4> QED BY <3>1, <4>1, <4>2, Appended
      <3>2. CASE ~Open
        BY <1>1, <1>3, <3>2, <2>1 DEF ClientReturns, IInv, Exchange, Frames, IsSeq
      <3> QED BY <3>1, <3>2
    <2>4. Frames'
      BY <1>0, <2>1, <2>3 DEF IInv, Exchange, Frames, IsSeq
    <2>5. Challenges'
      BY <1>0, <2>1, <2>3 DEF IInv, Exchange, Challenges
    <2>6. s[Edit].pc = "waits" /\ cl.id = x.next => Given(a) \in Answers(Edit)
      BY <1>0 DEF IInv, Exchange, Answering, Answers, Given, Typed
    <2>7. Answering'
      BY <1>0, <2>1, <2>3, <2>6 DEF IInv, Exchange, Answering, Answers
    <2>8. Reports' /\ SuccessIsWhole'
      BY <1>0, <2>1 DEF IInv, Exchange, Reports, Replied, Sent, Connected, SuccessIsWhole
    <2> QED BY <2>2, <2>4, <2>5, <2>7, <2>8 DEF IInv, Exchange
  <1> QED BY <1>1, <1>2, <1>3

LEMMA ClientKeeps == ASSUME IInv, Client PROVE IInv'
  <1>1. CASE ClientEnds
    BY <1>1, ClientGone DEF ClientEnds
  <1>2. CASE Interrupts
    BY <1>2, ClientGone DEF Interrupts
  <1>3. CASE PromptWithdrawn
    <2>1. /\ cl'.pc = cl.pc /\ DOMAIN cl' = DOMAIN cl /\ cl'.want = cl.want
          /\ cl'.outcome = cl.outcome /\ cl'.error = cl.error /\ cl'.id = cl.id
          /\ cl'.reported = cl.reported /\ cl'.ask = cl.ask
          /\ UNCHANGED <<store, bus, s, x, down, up>>
      BY <1>3 DEF PromptWithdrawn, IInv, Exchange, Frames
    <2>2. Operations'
      BY <2>1, OperationsRest DEF IInv
    <2>3. Frames' /\ Challenges'
      BY <2>1 DEF IInv, Exchange, Frames, Challenges, IsSeq
    <2>4. Answering'
      BY <2>1 DEF IInv, Exchange, Answering, Answers
    <2>5. Reports' /\ SuccessIsWhole'
      BY <2>1 DEF IInv, Exchange, Reports, Replied, Sent, Connected, SuccessIsWhole
    <2> QED BY <2>2, <2>3, <2>4, <2>5 DEF IInv, Exchange
  <1> QED BY <1>1, <1>2, <1>3, ClientReadsKeeps, ClientAnswersKeeps DEF Client

----------------------------------------------------------------------------
(* The specification *)

LEMMA Initially == ExchangeInit => IInv
  <1> SUFFICES ASSUME ExchangeInit PROVE IInv
    OBVIOUS
  <1>1. PICK goals \in [Callers -> Goals], accts \in [Callers -> Accounts] :
          /\ goals[Edit] \in {"load", "create"}
          /\ s = [c \in Callers |-> Session(goals[c], accts[c])]
    BY DEF ExchangeInit
  <1>2. \A c \in Callers :
          /\ DOMAIN s[c] = Fields /\ s[c].pc = "idle" /\ s[c].ask = "unlock" /\ s[c].pass = NoOne
          /\ s[c].result = "none" /\ s[c].after = "attributes" /\ s[c].acct \in Accounts
    BY <1>1 DEF Session, Fields
  <1>3. Operations
    <2>1. \A c \in Callers : Asked(s[c]) /\ Concluded(s[c]) /\ Kept(s[c]) /\ Holds(c)
      BY <1>2 DEF Asked, Concluded, Kept, Holds, Using, Unlocking, Making, Creating, Running,
                  MakingWithPassword
    <2>2. DOMAIN s = Callers /\ DOMAIN holder = Accounts /\ items = {}
          /\ alias \in Collections \cup {NoCollection}
      BY <1>1, CallersAssumption DEF ExchangeInit, Init
    <2>3. Keyring
      BY <1>2, <2>2 DEF Keyring, Inside, Unlocking
    <2> QED BY <2>1, <2>2, <2>3 DEF Operations, Unique
  <1>4. s[Edit].goal \in {"load", "create"} /\ s[Edit].pc = "idle"
    BY <1>1, <1>2, EditAssumption DEF Session
  <1>5. /\ DOMAIN cl = {"pc", "id", "seen", "ask", "error", "stopped", "reported", "outcome", "want"}
        /\ cl.pc = "reading" /\ cl.id = 0 /\ cl.error = None /\ cl.outcome = None
        /\ cl.reported = {}
    BY DEF ExchangeInit
  <1>6. /\ DOMAIN x = {"phase", "result", "next", "pending", "parked", "ended", "reader", "left"}
        /\ x.phase = "keyring" /\ x.result = None /\ x.next = 0 /\ x.pending = 0
        /\ x.parked = NoOne /\ x.left = cl.want
    BY DEF ExchangeInit
  <1>7. IsSeq(down) /\ IsSeq(up) /\ DOMAIN down = {} /\ DOMAIN up = {}
    BY Nothing DEF ExchangeInit
  <1>8. Exchange
    BY <1>4, <1>5, <1>6, <1>7
    DEF Exchange, Frames, Challenges, Answering, Reports, Connected, SuccessIsWhole, None
  <1> QED BY <1>3, <1>8 DEF IInv

LEMMA CallersKeep ==
    ASSUME IInv, NEW c \in Callers, Works(c) \/ GivesUp(c) \/ AnswersHere(c)
    PROVE  IInv'
  <1>1. CASE Works(c)
    <2>1. Operations' /\ Moves(c) /\ s'[c].pc # "waits" /\ s[c].pc \notin {"waits", "ended"}
          /\ UNCHANGED exchange
      BY <1>1, OperatesKeeps DEF Works, Fine, IInv
    <2> QED BY <2>1, ExchangeRests, EditStepKeeps, EditAssumption DEF IInv, Moves
  <1>2. CASE GivesUp(c)
    <2>1. Running(c) /\ Return(c, "unavailable", NoOne) /\ UNCHANGED store /\ UNCHANGED exchange
      BY <1>2 DEF GivesUp, Fails
    <2>2. Operations' /\ Moves(c) /\ s'[c].pc = "ended" /\ s[c].pc # "ended"
      BY <2>1, ReturnKeeps DEF IInv, Running
    <2> QED BY <2>1, <2>2, ExchangeRests, EditStepKeeps, EditAssumption DEF IInv, Moves
  <1>3. CASE AnswersHere(c)
    <2>1. PICK a \in Answers(c) : Resumes(c, a)
      BY <1>3 DEF AnswersHere
    <2>2. c # Edit /\ s[c].pc = "ask" /\ UNCHANGED exchange
      BY <1>3 DEF AnswersHere, At
    <2>3. Operations' /\ Moves(c)
      BY <2>1, <2>2, ResumesKeeps DEF IInv
    <2> QED BY <2>2, <2>3, ExchangeRests, EditAssumption DEF IInv, Moves
  <1> QED BY <1>1, <1>2, <1>3

LEMMA Inductive == IInv /\ [Next]_vars => IInv'
  <1> SUFFICES ASSUME IInv, [Next]_vars PROVE IInv'
    OBVIOUS
  <1>1. CASE Environment
    <2>1. Operations' /\ UNCHANGED s /\ UNCHANGED exchange
      BY <1>1, EnvironmentKeeps DEF Environment, IInv
    <2> QED BY <2>1, ExchangeRests DEF IInv
  <1>2. CASE UNCHANGED vars
    <2>1. UNCHANGED <<store, bus, s>> /\ UNCHANGED exchange
      BY <1>2 DEF vars
    <2> QED BY <2>1, OperationsRest, ExchangeRests DEF IInv
  <1> QED BY <1>1, <1>2, ServerKeeps, ClientKeeps, CallersKeep DEF Next

LEMMA Implied == IInv => PasswordsKeepTheirPurpose /\ OneKeyringOneKeyset /\ SuccessIsWhole
  <1> SUFFICES ASSUME IInv
               PROVE  PasswordsKeepTheirPurpose /\ OneKeyringOneKeyset /\ SuccessIsWhole
    OBVIOUS
  <1>1. PasswordsKeepTheirPurpose
    BY DEF IInv, Operations, Asked, MakingWithPassword, PasswordsKeepTheirPurpose
  <1>2. ASSUME NEW c \in Callers, s[c].pc \in {"confirms", "unlock", "creates", "gets", "deletes"}
        PROVE  s[c].coll = Foreign \/ alias \in {s[c].coll, Foreign}
    BY <1>2 DEF IInv, Operations, Keyring, Inside, Unlocking
  <1>3. ASSUME NEW c \in Callers, NEW d \in Callers,
               s[c].acct = s[d].acct /\ s[c].coll = s[d].coll,
               s[c].item # NoOne /\ s[c].result = "ok",
               s[d].item # NoOne /\ s[d].result = "ok",
               ~ \E e \in Callers : s[e].goal = "delete"
        PROVE  s[c].item = s[d].item
    <2>1. PICK i \in items : i.coll = s[c].coll /\ i.acct = s[c].acct /\ i.by = s[c].item
      BY <1>3 DEF IInv, Operations, Kept
    <2>2. PICK j \in items : j.coll = s[d].coll /\ j.acct = s[d].acct /\ j.by = s[d].item
      BY <1>3 DEF IInv, Operations, Kept
    <2> QED BY <1>3, <2>1, <2>2 DEF IInv, Operations, Unique
  <1>4. OneKeyringOneKeyset
    BY <1>2, <1>3 DEF IInv, Operations, Unique, OneKeyringOneKeyset
  <1> QED BY <1>1, <1>4 DEF IInv, Exchange

\* The inductive invariant of the operations and of the exchange.
THEOREM ExchangeInvariant == Spec => []IInv
  BY Initially, Inductive, PTL DEF Spec

\* service/keyring.go:14 and keyring_linux.go:195, for any number of
\* operations on any accounts: a password typed at one prompt of the keyring
\* is never used for another one, however late its answer comes.
THEOREM PasswordsKeepTheirPurposeThm == Spec => []PasswordsKeepTheirPurpose
  BY ExchangeInvariant, Implied, PTL

\* secretservice_linux.go:78 and keyring_linux.go:154, for any number of
\* operations: all of them work in one keyring, unless another program made
\* its own the default, and an account has one keyset there, which all who
\* were given it share.
THEOREM OneKeyringOneKeysetThm == Spec => []OneKeyringOneKeyset
  BY ExchangeInvariant, Implied, PTL

\* management.go:449 and keyring.go:134, for any set of targets: a command
\* that is told of success has every result and a keyset behind it, whoever
\* dies, is interrupted or gives up on the way.
THEOREM SuccessIsWholeThm == Spec => []SuccessIsWhole
  BY ExchangeInvariant, Implied, PTL
=============================================================================
