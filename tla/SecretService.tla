--------------------------- MODULE SecretService ---------------------------
(***************************************************************************)
(* The keyset of an installation in the Secret Service of a Linux desktop  *)
(* (vault/secretservice_linux.go, vault/keyring_linux.go).                 *)
(*                                                                         *)
(* A caller is one operation on one account: it opens its own bus          *)
(* connection, takes the account's bus name, finds or makes the default    *)
(* collection, unlocks it, and loads, creates or deletes the item.  A      *)
(* prompt for a password is asked here and answered by whoever composes    *)
(* this module (Resumes): a terminal, or the exchange of KeyringExchange.  *)
(*                                                                         *)
(* Every call goes to the unique bus name of the provider that was pinned  *)
(* when the caller opened; a call may fail at any point (Fails), before or *)
(* after it took effect.                                                   *)
(***************************************************************************)
EXTENDS FiniteSets, Naturals

CONSTANTS
  Callers,      \* operations, each with its own bus connection
  Interactive,  \* those whose context permits prompts
  Accounts,     \* key accounts, one per installation
  Collections,  \* collections there can ever be
  Foreign,      \* the one another program may make and use as the default
  NoCollection, \* the path "/"
  NoOne,        \* no caller, no password
  Empty,        \* a prompt comes back with ErrPassword,
  Cancelled,    \* or the user refuses
  MaxAttempts,  \* tries at an unlock; 3 in the code
  MaxOwner      \* bound: incarnations of the provider

ASSUME CallersAssumption ==
  /\ Interactive \subseteq Callers
  /\ Foreign \in Collections /\ NoCollection \notin Collections
  /\ NoOne \notin Callers
  /\ Empty # Cancelled

VARIABLES
  kind,    \* what the provider can do: "password", "prompt" or "neither"
  owner,   \* incarnation that owns org.freedesktop.secrets
  alias,   \* the collection the alias "default" names
  made,    \* collections that exist
  locked,  \* those that are locked
  items,   \* keysets: [coll, acct, by], by the caller whose key it is
  holder,  \* owner of each account's bus name
  setup,   \* owner of the bus name KeyringSetup
  s        \* the secretSession of each caller, its place and its result

store == <<kind, owner, alias, made, locked, items>>
bus == <<holder, setup>>

Goals == {"load", "create", "delete", "prepare"}
Attempts == 1..MaxAttempts

\* What was typed: for which challenge, and whether it opens the collection.
Password == [kind : {"unlock", "create"}, attempt : Attempts, right : BOOLEAN]

\* What a prompt comes back with: a password, an ErrPassword or a refusal.
Answers(c) ==
  [kind : {s[c].ask}, attempt : {s[c].attempt}, right : BOOLEAN]
    \cup {Empty, Cancelled}

Session(goal, acct) ==
  [pc |-> "idle", goal |-> goal, acct |-> acct, owner |-> 0, coll |-> NoCollection,
   ask |-> "unlock", attempt |-> 1, pass |-> NoOne, round |-> 1,
   after |-> "attributes", item |-> NoOne, result |-> "none"]

Init ==
  /\ kind \in {"password", "prompt", "neither"}
  /\ owner = 1
  /\ \/ alias = NoCollection /\ made = {}
     \/ alias = Foreign /\ made = {Foreign}
  /\ locked \in SUBSET made
  /\ items = {}
  /\ holder = [a \in Accounts |-> NoOne]
  /\ setup = NoOne

At(c, pc) == s[c].pc = pc
Running(c) == s[c].pc \notin {"idle", "ended"}

\* The call of a caller that stands at pc reaches the provider it pinned;
\* checkOwner asks the same of the bus.
Calls(c, pc) == At(c, pc) /\ s[c].owner = owner

Go(c, pc) == s' = [s EXCEPT ![c].pc = pc]

\* The caller returns: its connection closes and with it go its bus names,
\* and the password it held is cleared.
Return(c, result, item) ==
  /\ s' = [s EXCEPT ![c] = [Session(s[c].goal, s[c].acct) EXCEPT
                              !.pc = "ended", !.coll = s[c].coll,
                              !.result = result, !.item = item]]
  /\ holder' = [a \in Accounts |-> IF holder[a] = c THEN NoOne ELSE holder[a]]
  /\ setup' = IF setup = c THEN NoOne ELSE setup

\* Any call fails, the context ends or the time for preparation is over.
Fails(c) ==
  /\ Running(c)
  /\ Return(c, "unavailable", NoOne) /\ UNCHANGED store

-----------------------------------------------------------------------------
\* openCollection

\* Mutant of NameFree: the name is taken over from whoever has it.
NameFree_Replaced(c) == holder[s[c].acct] \in Callers \cup {NoOne}

\* The name is requested without queueing and without replacing its owner.
NameFree(c) == holder[s[c].acct] = NoOne

Opens(c) ==
  /\ At(c, "idle")
  /\ IF ~NameFree(c)
     THEN Return(c, "unavailable", NoOne)
     ELSE IF alias = NoCollection /\ s[c].goal # "create"
     THEN Return(c, "missing", NoOne)
     ELSE /\ s' = [s EXCEPT ![c].owner = owner, ![c].coll = alias,
                            ![c].pc = IF alias = NoCollection THEN "setup"
                                      ELSE "search"]
          /\ holder' = [holder EXCEPT ![s[c].acct] = c]
          /\ UNCHANGED setup
  /\ UNCHANGED store

-----------------------------------------------------------------------------
\* createCollection

SetupFree == setup = NoOne

\* Polled every 50 ms until it is had.
TakesSetup(c) ==
  /\ Calls(c, "setup")
  /\ IF kind # "password"
     THEN Return(c, "unsupported", NoOne)
     ELSE SetupFree /\ setup' = c /\ Go(c, "firstDefault") /\ UNCHANGED holder
  /\ UNCHANGED store

\* readDefault: before the prompt, after it, and before the alias is set.  A
\* default that exists is used, and the setup lock given back.
AfterDefault == [firstDefault |-> "ask", secondDefault |-> "makes",
                 thirdDefault |-> "setsAlias"]

ReadsDefault(c) ==
  \E pc \in DOMAIN AfterDefault :
    /\ Calls(c, pc)
    /\ IF alias # NoCollection
       THEN /\ s' = [s EXCEPT ![c].pc = "search", ![c].coll = alias,
                              ![c].pass = NoOne]
            /\ setup' = NoOne
       ELSE /\ s' = [s EXCEPT ![c].pc = AfterDefault[pc], ![c].ask = "create"]
            /\ UNCHANGED setup
    /\ UNCHANGED <<store, holder>>

\* The provider makes a protected collection; its path is kept in coll.
MakesCollection(c) ==
  /\ Calls(c, "makes")
  /\ \E new \in Collections \ (made \cup {Foreign}) :
       /\ made' = made \cup {new}
       /\ s' = [s EXCEPT ![c].pc = "thirdDefault", ![c].coll = new]
  /\ UNCHANGED <<kind, owner, alias, locked, items, bus>>

SetsAlias(c) ==
  /\ Calls(c, "setsAlias")
  /\ alias' = s[c].coll
  /\ Go(c, "confirms")
  /\ UNCHANGED <<kind, owner, made, locked, items, bus>>

ConfirmsAlias(c) ==
  /\ Calls(c, "confirms")
  /\ IF alias # s[c].coll
     THEN Return(c, "provider changed", NoOne)
     ELSE IF s[c].coll \in locked
     THEN Return(c, "locked", NoOne)
     ELSE /\ s' = [s EXCEPT ![c].pc = "search", ![c].pass = NoOne]
          /\ setup' = NoOne /\ UNCHANGED holder
  /\ UNCHANGED store

-----------------------------------------------------------------------------
\* AskKeyring

\* A purge deletes without a terminal boundary (service/cleanup.go:142).
HasTerminal(c) == c \in Interactive /\ s[c].goal # "delete"

AsksNobody(c) ==
  /\ At(c, "ask") /\ ~HasTerminal(c)
  /\ Return(c, "terminal", NoOne) /\ UNCHANGED store

\* unlockPassword asks up to three times (MaxAttempts).
AsksAgain(c) ==
  IF s[c].ask = "unlock" /\ s[c].attempt < MaxAttempts
  THEN /\ s' = [s EXCEPT ![c].pc = "ask", ![c].attempt = @ + 1,
                         ![c].pass = NoOne]
       /\ UNCHANGED bus
  ELSE Return(c, "password", NoOne)

\* The prompt returns answer a.
Resumes(c, a) ==
  /\ CASE a = Cancelled -> Return(c, "cancelled", NoOne)
       [] a = Empty     -> AsksAgain(c)
       [] OTHER -> /\ s' = [s EXCEPT ![c].pass = a,
                            ![c].pc = IF s[c].ask = "create"
                                      THEN "secondDefault" ELSE "checks"]
                   /\ UNCHANGED bus
  /\ UNCHANGED store

-----------------------------------------------------------------------------
\* unlock, on the way to s.after

Unlocked(c) == /\ Go(c, s[c].after) /\ UNCHANGED bus

BeginsUnlock(c) ==
  /\ Calls(c, "unlock")
  /\ IF s[c].coll \notin locked THEN Unlocked(c)
     ELSE IF c \notin Interactive THEN Return(c, "locked", NoOne)
     ELSE IF kind = "neither" THEN Return(c, "unsupported", NoOne)
     ELSE /\ s' = [s EXCEPT ![c].pc = IF kind = "password" THEN "ask"
                                      ELSE "prompted",
                            ![c].ask = "unlock", ![c].attempt = 1]
          /\ UNCHANGED bus
  /\ UNCHANGED store

\* Before the password is used the alias must still name the collection.
ChecksAlias(c) ==
  /\ Calls(c, "checks")
  /\ IF alias # s[c].coll
     THEN Return(c, "provider changed", NoOne)
     ELSE /\ s' = IF s[c].coll \in locked
                  THEN [s EXCEPT ![c].pc = "unlocks"]
                  ELSE [s EXCEPT ![c].pc = s[c].after, ![c].pass = NoOne]
          /\ UNCHANGED bus
  /\ UNCHANGED store

\* UnlockWithMasterPassword: denied when the password is wrong.
UnlocksWithPassword(c) ==
  /\ Calls(c, "unlocks")
  /\ IF s[c].coll \notin locked \/ s[c].pass.right
     THEN /\ locked' = locked \ {s[c].coll}
          /\ s' = [s EXCEPT ![c].pc = "verifies", ![c].pass = NoOne]
          /\ UNCHANGED bus
     ELSE AsksAgain(c) /\ UNCHANGED locked
  /\ UNCHANGED <<kind, owner, alias, made, items>>

\* The collection may have been locked again; that counts as a wrong password.
VerifiesUnlock(c) ==
  /\ Calls(c, "verifies")
  /\ IF s[c].coll \in locked
     THEN IF kind = "password" THEN AsksAgain(c) ELSE Return(c, "locked", NoOne)
     ELSE Unlocked(c)
  /\ UNCHANGED store

\* The provider's own prompt: completed or dismissed.
NativePrompt(c) ==
  /\ Calls(c, "prompted")
  /\ \/ locked' = locked \ {s[c].coll} /\ Go(c, "verifies") /\ UNCHANGED bus
     \/ Return(c, "denied", NoOne) /\ UNCHANGED locked
  /\ UNCHANGED <<kind, owner, alias, made, items>>

-----------------------------------------------------------------------------
\* find, load, CreateIfAbsent, Delete, PrepareDelete

Matching(c) == {i \in items : i.coll = s[c].coll /\ i.acct = s[c].acct}

UnlockFor(c, after, item) ==
  /\ s' = [s EXCEPT ![c].pc = "unlock", ![c].after = after, ![c].item = item]
  /\ UNCHANGED bus

\* No item: missing, which a deletion wants and a creation starts from.
FindsNone(c) ==
  CASE s[c].goal = "create" /\ s[c].round = 1 -> UnlockFor(c, "creates", NoOne)
    [] s[c].goal \in {"delete", "prepare"}    -> Return(c, "ok", NoOne)
    [] OTHER                                  -> Return(c, "missing", NoOne)

Searches(c) ==
  /\ Calls(c, "search")
  /\ IF Matching(c) = {} THEN FindsNone(c)
     ELSE IF Cardinality(Matching(c)) # 1 THEN Return(c, "unavailable", NoOne)
     ELSE \E i \in Matching(c) : UnlockFor(c, "attributes", i.by)
  /\ UNCHANGED store

\* The attributes are read once the collection is unlocked; the item found is
\* loaded, deleted, or all that was asked for.
ReadsAttributes(c) ==
  /\ Calls(c, "attributes")
  /\ IF ~ \E i \in Matching(c) : i.by = s[c].item
     THEN Return(c, "unavailable", NoOne)
     ELSE CASE s[c].goal = "prepare" -> Return(c, "ok", NoOne)
            [] s[c].goal = "delete" /\ s[c].round = 1 ->
                 UnlockFor(c, "deletes", s[c].item)
            [] s[c].goal = "delete" /\ s[c].round = 2 ->
                 Return(c, "unavailable", NoOne)
            [] OTHER -> UnlockFor(c, "gets", s[c].item)
  /\ UNCHANGED store

GetsSecret(c) ==
  /\ Calls(c, "gets")
  /\ IF s[c].coll \in locked \/ ~ \E i \in Matching(c) : i.by = s[c].item
     THEN Return(c, "unavailable", NoOne)
     ELSE Return(c, "ok", s[c].item)
  /\ UNCHANGED store

\* CreateItem without replacement: what exists stays.
WithItem(c) ==
  items \cup {[coll |-> s[c].coll, acct |-> s[c].acct, by |-> c]}

\* CreateItem and Item.Delete act at once or when their prompt is completed;
\* then the search is repeated.
Acts(c, pc, effect) ==
  /\ Calls(c, pc)
  /\ \/ /\ s[c].coll \notin locked
        /\ items' = effect
        /\ s' = [s EXCEPT ![c].pc = "search", ![c].round = 2]
        /\ UNCHANGED bus
     \/ \* locked again, or the prompt is dismissed or not permitted
        Return(c, "locked", NoOne) /\ UNCHANGED items
  /\ UNCHANGED <<kind, owner, alias, made, locked>>

CreatesItem(c) == Acts(c, "creates", WithItem(c))

DeletesItem(c) ==
  Acts(c, "deletes", {i \in items : i \notin Matching(c) \/ i.by # s[c].item})

-----------------------------------------------------------------------------
\* The steps of an operation whose context lives, but for its prompts.
Operates(c) ==
  \/ Opens(c) \/ TakesSetup(c) \/ ReadsDefault(c) \/ MakesCollection(c)
  \/ SetsAlias(c) \/ ConfirmsAlias(c) \/ AsksNobody(c) \/ BeginsUnlock(c)
  \/ ChecksAlias(c) \/ UnlocksWithPassword(c) \/ VerifiesUnlock(c)
  \/ NativePrompt(c) \/ Searches(c) \/ ReadsAttributes(c) \/ GetsSecret(c)
  \/ CreatesItem(c) \/ DeletesItem(c)

\* The other programs of the session: one makes its collection the default,
\* the user locks a collection, or the provider is restarted.
ForeignDefault ==
  /\ alias # Foreign
  /\ made' = made \cup {Foreign} /\ alias' = Foreign
  /\ UNCHANGED <<kind, owner, locked, items, bus, s>>

UserLocks ==
  /\ \E k \in made \ locked : locked' = locked \cup {k}
  /\ UNCHANGED <<kind, owner, alias, made, items, bus, s>>

ProviderRestarts ==
  /\ owner < MaxOwner
  /\ owner' = owner + 1 /\ locked' = made
  /\ UNCHANGED <<kind, alias, made, items, bus, s>>

-----------------------------------------------------------------------------
SecretTypeOK ==
  /\ kind \in {"password", "prompt", "neither"} /\ owner \in 1..MaxOwner
  /\ alias \in Collections \cup {NoCollection}
  /\ made \subseteq Collections /\ locked \subseteq made
  /\ items \subseteq [coll : Collections, acct : Accounts, by : Callers]
  /\ holder \in [Accounts -> Callers \cup {NoOne}]
  /\ setup \in Callers \cup {NoOne}
  /\ \A c \in Callers : s[c].pass \in Password \cup {NoOne}

\* service/keyring.go:14 and keyring_linux.go:195: a password that was typed is used for what it was
\* typed for: to make the collection when there is none, or for the attempt at
\* the unlock that asked.  A late answer to an earlier prompt is never taken
\* for the next one's.
PasswordsKeepTheirPurpose ==
  \A c \in Callers :
    s[c].pass # NoOne =>
      /\ s[c].pass.kind = s[c].ask /\ s[c].pass.attempt = s[c].attempt
      /\ s[c].ask = "unlock" => s[c].pc \in {"checks", "unlocks"}

\* secretservice_linux.go:78 and keyring_linux.go:154: whatever operations and
\* setups of whichever installations run at once, they all work in one keyring,
\* unless another program made its own the default; in a keyring an account has
\* one keyset; and all who were given it were given the same, unless somebody
\* deleted one.
OneKeyringOneKeyset ==
  /\ \A c \in Callers :
       s[c].pc \in {"confirms", "unlock", "creates", "gets", "deletes"} =>
         s[c].coll = Foreign \/ alias \in {s[c].coll, Foreign}
  /\ \A i, j \in items : i.coll = j.coll /\ i.acct = j.acct => i = j
  /\ \A c, d \in Callers :
       /\ s[c].acct = s[d].acct /\ s[c].coll = s[d].coll
       /\ s[c].item # NoOne /\ s[c].result = "ok"
       /\ s[d].item # NoOne /\ s[d].result = "ok"
       => \/ s[c].item = s[d].item
          \/ \E e \in Callers : s[e].goal = "delete"
=============================================================================
