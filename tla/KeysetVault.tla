---------------------------- MODULE KeysetVault ----------------------------
(***************************************************************************)
(* The credential vault (internal/vault/repository.go with the rows it     *)
(* keeps through internal/config/database.go): one keyset per installation *)
(* lives in the OS credential store, its metadata and the credentials it   *)
(* encrypts live in SQLite, and no transaction spans the two.              *)
(*                                                                         *)
(* Clients of the one service process unlock the keyset, create it, and    *)
(* publish connections; callers give up at any wait, the process dies at   *)
(* any step, the OS item may be lost, and an uninstaller in another        *)
(* process purges it all.                                                  *)
(*                                                                         *)
(* Leases are those of StateLocks: a section that reads or commits once    *)
(* under its lease is one step; the write lease of Apply, which commits    *)
(* twice, and the lifecycle lease are held from step to step.  The OS      *)
(* store is external: it serves the calls of the installation one after    *)
(* the other (nativeGate on macOS, the account's bus name on Linux), goes  *)
(* on with a call whose caller gave up, and drops the call of a process    *)
(* that died, before or after its effect.                                  *)
(*                                                                         *)
(* A keyset is a number, which is also its fingerprint; 0 stands for none. *)
(* Bounds: MaxKeys keysets, MaxRevision revisions.                         *)
(***************************************************************************)
EXTENDS Integers, FiniteSets

CONSTANTS
    Clients,          \* operations the service runs at a time
    Nobody,           \* the caller of an abandoned native call
    Connections,      \* connection ids
    MaxReservations,  \* encryptions a keyset may ever serve (1,000,000)
    MaxKeys,          \* keysets ever generated (bound)
    MaxRevision       \* generations of the profiles (bound)

ASSUME NobodyAssumption == Nobody \notin Clients
ASSUME BoundsAssumption ==
    MaxReservations \in Nat /\ MaxKeys \in Nat /\ MaxRevision \in Nat

VARIABLES
    pc,          \* where each client is
    job,         \* what it does: an Unlock, or an Apply of one change
    expected,    \* the revision it previewed, 0 for none
    meta,        \* its copy of the keyset metadata
    raw,         \* the keyset it has in memory, 0 for none
    up,          \* the service process runs
    closed,      \* Repository.closed
    primitive,   \* Repository.primitive and its fingerprint
    native,      \* the creation the OS store is serving: keyset and caller
    item,        \* the keyset in the OS store
    db,          \* data-mate.db exists
    keyset,      \* the keyset row
    revision,    \* the generation
    bundle,      \* for each connection, the keyset that encrypted its bundle
    purging,     \* the tombstone
    upc,         \* where the uninstaller is
    keys,        \* keysets generated so far
    used         \* for each keyset, the encryptions it has served

clientVars == <<pc, job, expected, meta, raw>>
serviceVars == <<up, closed, primitive>>
diskVars == <<db, keyset, revision, bundle, purging>>
countVars == <<keys, used>>
vars == <<pc, job, expected, meta, raw, up, closed, primitive, native, item,
          db, keyset, revision, bundle, purging, upc, keys, used>>

NoKeyset == [phase |-> "", key |-> 0, reserved |-> 0]
NoJob == [does |-> "none"]
Idle == [key |-> 0, by |-> Nobody]

Jobs == [does : {"open"}] \cup [does : {"create"}]
          \cup [does : {"save", "drop"}, id : Connections]

Init ==
    /\ pc = [c \in Clients |-> "idle"]
    /\ job = [c \in Clients |-> NoJob]
    /\ expected = [c \in Clients |-> 0]
    /\ meta = [c \in Clients |-> NoKeyset]
    /\ raw = [c \in Clients |-> 0]
    /\ up = FALSE /\ closed = FALSE /\ primitive = 0
    /\ native = Idle /\ item = 0
    /\ db = TRUE /\ keyset = NoKeyset /\ revision = 1
    /\ bundle = [id \in Connections |-> 0]
    /\ purging = FALSE
    /\ upc = "idle"
    /\ keys = 0 /\ used = [k \in 1..MaxKeys |-> 0]

----------------------------------------------------------------------------
(* What a client holds *)

Creates(c) == job[c].does # "open"

\* Past the gate of Unlock, and past the lifecycle lease of a creation.
Unlocking(c) ==
    pc[c] \in {"lifecycle", "read", "load", "generate", "create", "creating", "parse", "publish-key"}
HoldsLifecycle(c) == Unlocking(c) /\ pc[c] # "lifecycle" /\ Creates(c)

\* Inside the write lease of Apply.
Writing(c) == pc[c] \in {"reserve", "encrypt", "publish"}

GateFree(c) == \A d \in Clients \ {c} : ~Unlocking(d)
LifecycleFree(c) == upc = "idle" /\ \A d \in Clients \ {c} : ~HoldsLifecycle(d)
NoWriter == \A c \in Clients : ~Writing(c)

\* A read or write lease can be had and the metadata is read under it.
Lease == NoWriter /\ db /\ ~purging

\* The operation returns, with an error or its result; its leases, the gate and
\* its keyset buffers are gone.  A native call it waits for goes on unowned.
Return(c) ==
    /\ pc' = [pc EXCEPT ![c] = "idle"]
    /\ job' = [job EXCEPT ![c] = NoJob]
    /\ expected' = [expected EXCEPT ![c] = 0]
    /\ meta' = [meta EXCEPT ![c] = NoKeyset]
    /\ raw' = [raw EXCEPT ![c] = 0]

\* Unlock returns nil: an Apply goes on to its write lease.
Unlocked(c) ==
    IF job[c].does = "save"
      THEN /\ pc' = [pc EXCEPT ![c] = "write"]
           /\ raw' = [raw EXCEPT ![c] = 0]
           /\ meta' = [meta EXCEPT ![c] = NoKeyset]
           /\ UNCHANGED <<job, expected>>
      ELSE Return(c)

\* providerCall, every lease acquisition, SQL statement and ctx check may end
\* the operation with an error instead of its next step.
Fail(c) ==
    /\ pc[c] # "idle"
    /\ Return(c)
    /\ native' = [native EXCEPT !.by = IF @ = c THEN Nobody ELSE @]
    /\ UNCHANGED <<serviceVars, item, diskVars, upc, countVars>>

----------------------------------------------------------------------------
(* Unlock *)

\* A request arrives.  A change carries the revision its preview was made on.
\* Deleting a connection needs no key (Mutation.NeedsKey).
Begin(c, j) ==
    /\ pc[c] = "idle" /\ up /\ Lease
    /\ job' = [job EXCEPT ![c] = j]
    /\ expected' = [expected EXCEPT ![c] = IF j.does = "open" THEN 0 ELSE revision]
    /\ pc' = [pc EXCEPT ![c] = IF j.does = "drop" THEN "write" ELSE "gate"]
    /\ UNCHANGED <<meta, raw, serviceVars, native, item, diskVars, upc, countVars>>

\* The gate is taken.  A closed repository fails (Fail); one that has its
\* primitive is ready at once.
EnterGate(c) ==
    /\ pc[c] = "gate" /\ GateFree(c) /\ ~closed
    /\ IF primitive # 0
         THEN Unlocked(c)
         ELSE /\ pc' = [pc EXCEPT ![c] = IF Creates(c) THEN "lifecycle" ELSE "read"]
              /\ UNCHANGED <<job, expected, meta, raw>>
    /\ UNCHANGED <<serviceVars, native, item, diskVars, upc, countVars>>

TakeLifecycle(c) ==
    /\ pc[c] = "lifecycle" /\ LifecycleFree(c)
    /\ pc' = [pc EXCEPT ![c] = "read"]
    /\ UNCHANGED <<job, expected, meta, raw, serviceVars, native, item, diskVars, upc, countVars>>

RevisionFits(c) == expected[c] \in {0, revision}

\* The metadata is read under a short read lease.  Without a keyset there is
\* nothing to unlock, and a creation generates one.
ReadKeyset(c) ==
    /\ pc[c] = "read" /\ Lease /\ RevisionFits(c)
    /\ IF keyset.phase = "" /\ ~Creates(c)
         THEN Unlocked(c)
         ELSE /\ meta' = [meta EXCEPT ![c] = keyset]
              /\ pc' = [pc EXCEPT ![c] = IF keyset.phase = "" THEN "generate" ELSE "load"]
              /\ UNCHANGED <<job, expected, raw>>
    /\ UNCHANGED <<serviceVars, native, item, diskVars, upc, countVars>>

\* Mutant of Load: it does not wait for an abandoned creation.
Load_Unserialized(c) ==
    /\ pc[c] = "load"
    /\ \/ /\ item # 0 /\ item = meta[c].key
          /\ raw' = [raw EXCEPT ![c] = item]
          /\ pc' = [pc EXCEPT ![c] = "parse"]
       \/ /\ item = 0 /\ meta[c].phase = "intent" /\ Creates(c) /\ meta[c].reserved = 0
          /\ pc' = [pc EXCEPT ![c] = "generate"]
          /\ UNCHANGED raw
    /\ UNCHANGED <<job, expected, meta, serviceVars, native, item, diskVars, upc, countVars>>

\* Mutant of Load: a missing item is always replaced.
Load_ReplacesMissing(c) ==
    /\ pc[c] = "load" /\ native = Idle
    /\ \/ /\ item # 0 /\ item = meta[c].key
          /\ raw' = [raw EXCEPT ![c] = item]
          /\ pc' = [pc EXCEPT ![c] = "parse"]
       \/ /\ item = 0 /\ Creates(c)
          /\ pc' = [pc EXCEPT ![c] = "generate"]
          /\ UNCHANGED raw
    /\ UNCHANGED <<job, expected, meta, serviceVars, native, item, diskVars, upc, countVars>>

\* Load returns the item.  Only an intent that never encrypted anything may
\* find none and start again; another fingerprint needs repair (Fail).
Load(c) ==
    /\ pc[c] = "load" /\ native = Idle
    /\ \/ /\ item # 0 /\ item = meta[c].key
          /\ raw' = [raw EXCEPT ![c] = item]
          /\ pc' = [pc EXCEPT ![c] = "parse"]
       \/ /\ item = 0 /\ meta[c].phase = "intent" /\ Creates(c) /\ meta[c].reserved = 0
          /\ pc' = [pc EXCEPT ![c] = "generate"]
          /\ UNCHANGED raw
    /\ UNCHANGED <<job, expected, meta, serviceVars, native, item, diskVars, upc, countVars>>

\* A keyset is generated and the intent to create it is committed first.
SaveIntent(c) ==
    /\ pc[c] = "generate" /\ Creates(c) /\ Lease /\ RevisionFits(c) /\ keys < MaxKeys
    /\ keys' = keys + 1
    /\ raw' = [raw EXCEPT ![c] = keys']
    /\ meta' = [meta EXCEPT ![c] = [phase |-> "intent", key |-> keys', reserved |-> 0]]
    /\ keyset' = meta'[c]
    /\ pc' = [pc EXCEPT ![c] = "create"]
    /\ UNCHANGED <<job, expected, serviceVars, native, item, db, revision, bundle, purging, upc, used>>

\* CreateIfAbsent is called, and waits for the store.
CallCreate(c) ==
    /\ pc[c] = "create" /\ native = Idle
    /\ native' = [key |-> raw[c], by |-> c]
    /\ pc' = [pc EXCEPT ![c] = "creating"]
    /\ UNCHANGED <<job, expected, meta, raw, serviceVars, item, diskVars, upc, countVars>>

\* The primitive is parsed; an intent becomes ready under a write lease that
\* rechecks the revision.
MarkReady(c) ==
    /\ pc[c] = "parse"
    /\ IF meta[c].phase = "ready"
         THEN UNCHANGED <<meta, keyset>>
         ELSE /\ Creates(c) /\ Lease /\ RevisionFits(c)
              /\ meta' = [meta EXCEPT ![c].phase = "ready"]
              /\ keyset' = meta'[c]
    /\ pc' = [pc EXCEPT ![c] = "publish-key"]
    /\ UNCHANGED <<job, expected, raw, serviceVars, native, item,
                   db, revision, bundle, purging, upc, countVars>>

\* The repository becomes ready, unless it was closed meanwhile.
PublishPrimitive(c) ==
    /\ pc[c] = "publish-key" /\ ~closed
    /\ primitive' = raw[c]
    /\ Unlocked(c)
    /\ UNCHANGED <<up, closed, native, item, diskVars, upc, countVars>>

----------------------------------------------------------------------------
(* Apply under its write lease *)

TakeWriteLease(c) ==
    /\ pc[c] = "write" /\ Lease /\ revision = expected[c]
    /\ pc' = [pc EXCEPT ![c] = IF job[c].does = "save" THEN "reserve" ELSE "publish"]
    /\ UNCHANGED <<job, expected, meta, raw, serviceVars, native, item, diskVars, upc, countVars>>

\* Repository.cipher
CipherFits == keyset.phase = "ready" /\ primitive # 0 /\ ~closed /\ primitive = keyset.key

\* Mutant of Reserve: the last reservation is one too many.
Reserve_OneTooMany(c) ==
    /\ pc[c] = "reserve" /\ CipherFits
    /\ bundle[job[c].id] \in {0, primitive}
    /\ keyset.reserved <= MaxReservations
    /\ keyset' = [keyset EXCEPT !.reserved = @ + 1]
    /\ raw' = [raw EXCEPT ![c] = primitive]
    /\ pc' = [pc EXCEPT ![c] = "encrypt"]
    /\ UNCHANGED <<job, expected, meta, serviceVars, native, item,
                   db, revision, bundle, purging, upc, countVars>>

\* Mutant of Reserve: the reservation is not committed.
Reserve_Unsaved(c) ==
    /\ pc[c] = "reserve" /\ CipherFits
    /\ bundle[job[c].id] \in {0, primitive}
    /\ keyset.reserved < MaxReservations
    /\ raw' = [raw EXCEPT ![c] = primitive]
    /\ pc' = [pc EXCEPT ![c] = "encrypt"]
    /\ UNCHANGED <<job, expected, meta, serviceVars, native, item, diskVars, upc, countVars>>

\* The old bundle decrypts, and one encryption is reserved by a commit of its own.
Reserve(c) ==
    /\ pc[c] = "reserve" /\ CipherFits
    /\ bundle[job[c].id] \in {0, primitive}
    /\ keyset.reserved < MaxReservations
    /\ keyset' = [keyset EXCEPT !.reserved = @ + 1]
    /\ raw' = [raw EXCEPT ![c] = primitive]
    /\ pc' = [pc EXCEPT ![c] = "encrypt"]
    /\ UNCHANGED <<job, expected, meta, serviceVars, native, item,
                   db, revision, bundle, purging, upc, countVars>>

Encrypt(c) ==
    /\ pc[c] = "encrypt"
    /\ used' = [used EXCEPT ![raw[c]] = @ + 1]
    /\ pc' = [pc EXCEPT ![c] = "publish"]
    /\ UNCHANGED <<job, expected, meta, raw, serviceVars, native, item, diskVars, upc, keys>>

\* One transaction publishes the profiles, the bundles and the new generation.
\* When its commit reports an error its outcome is this step or Fail.
Publish(c) ==
    /\ pc[c] = "publish" /\ revision < MaxRevision
    /\ revision' = revision + 1
    /\ bundle' = [bundle EXCEPT ![job[c].id] = raw[c]]
    /\ Return(c)
    /\ UNCHANGED <<serviceVars, native, item, db, keyset, purging, upc, countVars>>

----------------------------------------------------------------------------
(* The OS store *)

\* CreateIfAbsent never overwrites an item; its caller, if it still waits,
\* compares what is there with its own keyset.
NativeCreate ==
    /\ native # Idle
    /\ item' = IF item = 0 THEN native.key ELSE item
    /\ native' = Idle
    /\ IF native.by = Nobody
         THEN UNCHANGED clientVars
         ELSE IF item' = native.key
           THEN /\ pc' = [pc EXCEPT ![native.by] = "parse"]
                /\ UNCHANGED <<job, expected, meta, raw>>
           ELSE Return(native.by)
    /\ UNCHANGED <<serviceVars, diskVars, upc, countVars>>

\* An abandoned creation is refused.
NativeRefuse ==
    /\ native # Idle /\ native.by = Nobody
    /\ native' = Idle
    /\ UNCHANGED <<clientVars, serviceVars, item, diskVars, upc, countVars>>

\* The user or the system deletes the item.
ItemLost ==
    /\ item # 0
    /\ item' = 0
    /\ UNCHANGED <<clientVars, serviceVars, native, diskVars, upc, countVars>>

----------------------------------------------------------------------------
(* The service process *)

StartService ==
    /\ ~up /\ ~purging /\ upc = "idle"
    /\ up' = TRUE /\ closed' = FALSE
    /\ UNCHANGED <<clientVars, primitive, native, item, diskVars, upc, countVars>>

\* Manager.Close at shutdown; operations that run go on.
Close ==
    /\ up /\ ~closed
    /\ closed' = TRUE /\ primitive' = 0
    /\ UNCHANGED <<clientVars, up, native, item, diskVars, upc, countVars>>

\* The process ends, in whatever it was doing.
Exit ==
    /\ up' = FALSE /\ closed' = FALSE /\ primitive' = 0
    /\ pc' = [c \in Clients |-> "idle"]
    /\ job' = [c \in Clients |-> NoJob]
    /\ expected' = [c \in Clients |-> 0]
    /\ meta' = [c \in Clients |-> NoKeyset]
    /\ raw' = [c \in Clients |-> 0]
    /\ native' = Idle
    /\ item' \in {item, IF item = 0 THEN native.key ELSE item}

Crash ==
    /\ up
    /\ Exit
    /\ UNCHANGED <<diskVars, upc, countVars>>

----------------------------------------------------------------------------
(* Uninstall with purge *)

BeginUninstall ==
    /\ upc = "idle" /\ \A c \in Clients : ~HoldsLifecycle(c)
    /\ upc' = "stop"
    /\ UNCHANGED <<clientVars, serviceVars, native, item, diskVars, countVars>>

StopService ==
    /\ upc = "stop"
    /\ upc' = "purge"
    /\ Exit
    /\ UNCHANGED <<diskVars, countVars>>

\* Mutant of HasKeyset: only a ready keyset counts.
HasKeyset_ReadyOnly == db /\ keyset.phase = "ready"

\* HasKeysetForPurge; a missing database means the key is deleted already.
HasKeyset == db /\ keyset.phase # ""

\* PurgeLocked begins: the tombstone is published.
BeginPurge ==
    /\ upc = "purge" /\ NoWriter
    /\ purging' = TRUE
    /\ upc' = IF HasKeyset THEN "delete" ELSE "forget"
    /\ UNCHANGED <<clientVars, serviceVars, native, item, db, keyset, revision, bundle, countVars>>

DeleteKey ==
    /\ upc = "delete"
    /\ item' = 0
    /\ upc' = "forget"
    /\ UNCHANGED <<clientVars, serviceVars, native, diskVars, countVars>>

\* The journal and the database are removed.
RemoveDatabase ==
    /\ upc = "forget"
    /\ db' = FALSE /\ keyset' = NoKeyset /\ bundle' = [id \in Connections |-> 0]
    /\ upc' = "idle"
    /\ UNCHANGED <<clientVars, serviceVars, native, item, revision, purging, countVars>>

\* The uninstaller returns an error or dies.
FailUninstall ==
    /\ upc # "idle"
    /\ upc' = "idle"
    /\ UNCHANGED <<clientVars, serviceVars, native, item, diskVars, countVars>>

----------------------------------------------------------------------------

Unlock(c) ==
    \/ EnterGate(c) \/ TakeLifecycle(c) \/ ReadKeyset(c) \/ Load(c)
    \/ SaveIntent(c) \/ CallCreate(c) \/ MarkReady(c) \/ PublishPrimitive(c)

Apply(c) == TakeWriteLease(c) \/ Reserve(c) \/ Encrypt(c) \/ Publish(c)

Uninstall ==
    BeginUninstall \/ StopService \/ BeginPurge \/ DeleteKey \/ RemoveDatabase \/ FailUninstall

Next ==
    \/ \E c \in Clients : (\E j \in Jobs : Begin(c, j)) \/ Unlock(c) \/ Apply(c) \/ Fail(c)
    \/ NativeCreate \/ NativeRefuse \/ ItemLost
    \/ StartService \/ Close \/ Crash
    \/ Uninstall

Spec == Init /\ [][Next]_vars

----------------------------------------------------------------------------
(* Properties *)

Pcs == {"idle", "gate", "lifecycle", "read", "load", "generate", "create", "creating",
        "parse", "publish-key", "write", "reserve", "encrypt", "publish"}
Keysets == [phase : {"", "intent", "ready"}, key : Nat, reserved : Nat]

TypeOK ==
    /\ pc \in [Clients -> Pcs]
    /\ job \in [Clients -> Jobs \cup {NoJob}]
    /\ expected \in [Clients -> Nat]
    /\ meta \in [Clients -> Keysets]
    /\ raw \in [Clients -> Nat]
    /\ up \in BOOLEAN /\ closed \in BOOLEAN /\ primitive \in Nat
    /\ native \in [key : Nat, by : Clients \cup {Nobody}]
    /\ item \in Nat
    /\ db \in BOOLEAN /\ keyset \in Keysets /\ revision \in Nat
    /\ bundle \in [Connections -> Nat]
    /\ purging \in BOOLEAN
    /\ upc \in {"idle", "stop", "purge", "delete", "forget"}
    /\ keys \in Nat /\ used \in [1..MaxKeys -> Nat]

\* DESIGN.md:339: a crash or a caller that gives up leaves an intent that a
\* retry can finish.  The item in the OS store, and one that an abandoned call
\* may still create, is the one that the metadata names.
RetryFindsItem ==
    db => \A k \in {item, native.key} \ {0} : keyset.phase # "" /\ k = keyset.key

\* PurgeLocked removes the database, and with it the last record of the keyset,
\* only when no keyset is left in the OS store or on its way there.  Nor does the
\* service it closed first hold one, even if an Unlock that began before ends later.
PurgeLeavesNoKey ==
    /\ ~db => item = 0 /\ native = Idle
    /\ closed => primitive = 0

\* DESIGN.md:339: once ready, a keyset is never replaced, not even when its
\* item is lost, and its accounting is never reset.
NeverReplaced ==
    [][keyset.phase = "ready" /\ db' =>
         /\ keyset'.phase = "ready" /\ keyset'.key = keyset.key
         /\ keyset'.reserved >= keyset.reserved]_vars

\* DESIGN.md section 6.1: every encryption was reserved in a commit of its own
\* before it was made, so that no crash makes a keyset serve more than
\* MaxReservations of them.
UsageReserved ==
    \A k \in 1..MaxKeys :
        /\ used[k] <= MaxReservations
        /\ db /\ used[k] > 0 => k = keyset.key /\ used[k] <= keyset.reserved

\* What Lease.Keyset accepts: every bundle was encrypted by the keyset the
\* metadata names, and there was a reservation for each.  Anything else could
\* only be repaired by hand.
CredentialsReadable ==
    LET saved == {id \in Connections : bundle[id] # 0} IN
    /\ saved # {} => keyset.phase = "ready"
    /\ \A id \in saved : bundle[id] = keyset.key
    /\ Cardinality(saved) <= keyset.reserved
=============================================================================
