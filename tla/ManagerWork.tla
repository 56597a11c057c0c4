---------------------------- MODULE ManagerWork ----------------------------
(***************************************************************************)
(* The service manager (internal/service manager.go, management.go,        *)
(* validation.go): the calls of agents and the requests of the management  *)
(* socket, each in a goroutine of its own, over one store of profiles.     *)
(*                                                                         *)
(* A call works under a slot and a shared lease.  A request of the command *)
(* line holds a management slot; it reads the store under a short lease,   *)
(* unlocks the vault without one, and reads again.  A test runs one check  *)
(* per profile, each with the slot and lease of a call; an edit tests its  *)
(* candidate and publishes it under the exclusive lease.                   *)
(*                                                                         *)
(* The leases are those that StateLocks implements: ReaderWriter, and      *)
(* nobody is admitted to read while a writer waits.  A section that takes  *)
(* a lease, reads and releases it is one step.  The vault's own steps are  *)
(* in KeysetVault and the driver's in DriverPool; here the vault is open   *)
(* or locked, and the driver keeps at most one pool per profile id.  Every *)
(* profile has credentials.  A revision is the number of the publication   *)
(* that made it; a profile is its id and the body of its settings.         *)
(***************************************************************************)
EXTENDS Integers, FiniteSets

CONSTANTS
    Calls,           \* calls of agents
    Clients,         \* requests of the command line
    Aliases,         \* profiles, by the name the user gives them
    Asks,            \* what each of them may ask: operation and alias (bound)
    MaxActive,       \* database.MaxActiveOperations (32)
    MaxWaiting,      \* database.MaxWaitingOperations (128)
    MaxManagement,   \* management requests at a time (4)
    MaxDiagnostics,  \* diagnosticConcurrency
    MaxEnds          \* bound: contexts that end (a caller's, the service's)

Checks == Clients \X Aliases
Tasks == Calls \cup Clients \cup Checks
\* A mutation edits the settings of a profile or puts a new one in its place.
Mutations == {"edit", "replace"}
Management == Mutations \cup {"enable", "test", "describe", "credential-presence"}

ASSUME TasksAssumption ==
    Calls \cap Clients = {} /\ Calls \cap Checks = {} /\ Clients \cap Checks = {}
ASSUME AsksAssumption ==
    /\ \A c \in Calls : Asks[c] \subseteq ({"work"} \X Aliases) \cup {<<"list", "none">>}
    /\ \A r \in Clients :
         Asks[r] \subseteq ((Mutations \cup {"describe"}) \X Aliases)
                        \cup ({"enable", "test", "credential-presence"} \X {"none"})
ASSUME LimitsAssumption ==
    MaxActive \in Nat /\ MaxWaiting \in Nat /\ MaxManagement \in Nat
    /\ MaxDiagnostics \in Nat /\ MaxEnds \in Nat

VARIABLES
    pc,         \* where each goroutine is
    job,        \* what it works on, see NoJob
    slots,      \* tokens in the channels active, waiting, management, diagnostics
    shared,     \* goroutines with a shared lease
    exclusive,  \* the goroutine with the exclusive lease, if any
    wanting,    \* writers that wait for it
    store,      \* the published revision and its profiles
    snap,       \* Manager.revision and profiles: what refresh saw last
    pools,      \* the profiles the driver keeps a pool for
    unlocked,   \* the repository has the keyset in memory
    vaultError, \* clients whose test could not unlock the vault
    aborted,    \* clients whose batch of checks was cancelled
    gone,       \* calls and clients whose context ended (deadline, hang-up)
    stopped,    \* the context of the manager ended
    closed      \* Manager.Close has run

leases == <<shared, exclusive, wanting>>
known == <<store, snap, pools>>
ends == <<vaultError, aborted, gone, stopped, closed>>
vars == <<pc, job, slots, leases, known, unlocked, ends>>

RW == INSTANCE ReaderWriter WITH Actors <- Tasks

None == [id |-> 0, body |-> 0]
Empty == [rev |-> 0, at |-> [a \in Aliases |-> None]]
NoJob == [op |-> "none",       \* the operation
          alias |-> "none",    \* the profile it names
          seen |-> Empty,      \* the revision the caller saw (Expected, Targets)
          prof |-> None,       \* the profile it works on
          result |-> "none"]   \* ok, failed, revision or cancelled

\* The profiles of the first revision have different ids.
FirstIds == CHOOSE f \in [Aliases -> 1..Cardinality(Aliases)] :
                \A a, b \in Aliases : f[a] = f[b] => a = b

ProfilesOf(s) == {s.at[a] : a \in Aliases} \ {None}

Init ==
    /\ pc = [t \in Tasks |-> "idle"]
    /\ job = [t \in Tasks |-> NoJob]
    /\ slots = [active |-> 0, waiting |-> 0, management |-> 0, diagnostics |-> 0]
    /\ shared = {} /\ exclusive = {} /\ wanting = {}
    /\ store = [rev |-> 1, at |-> [a \in Aliases |-> [id |-> FirstIds[a], body |-> 1]]]
    /\ snap = store
    /\ pools = {}
    /\ unlocked = FALSE
    /\ vaultError = {} /\ aborted = {} /\ gone = {}
    /\ stopped = FALSE /\ closed = FALSE

----------------------------------------------------------------------------
(* Contexts, leases and the refresh of the manager's profiles. *)

\* The context of t has ended.
Ended(t) ==
    \/ stopped
    \/ t \in gone
    \/ \E r \in Clients, a \in Aliases : t = <<r, a>> /\ (r \in gone \/ r \in aborted)

MayRead == exclusive = {} /\ wanting = {}

\* A section that takes a shared lease, reads, and releases it.
ReadsBriefly == MayRead /\ UNCHANGED leases

Goes(t, where) == pc' = [pc EXCEPT ![t] = where]

\* Of what it worked on, only a check keeps its result, for its report.
Ends(t, where, r) ==
    /\ Goes(t, where)
    /\ job' = [job EXCEPT ![t] = IF t \in Checks THEN [@ EXCEPT !.prof = None, !.result = r] ELSE NoJob]

Adds(k, n) == slots' = [slots EXCEPT ![k] = @ + n]

\* Mutant of InvalidateChanged: profiles are compared by their ids.
InvalidateChanged_ByIdOnly(new) ==
    pools' = {q \in pools :
                ~\E old \in ProfilesOf(snap) :
                    old.id = q.id /\ \A p \in ProfilesOf(new) : p.id # old.id}

\* The manager keeps the pools of the profiles that are still the same.
InvalidateChanged(new) ==
    pools' = {q \in pools :
                ~\E old \in ProfilesOf(snap) \ ProfilesOf(new) : old.id = q.id}

Refresh ==
    /\ IF snap.rev = store.rev THEN UNCHANGED pools ELSE InvalidateChanged(store)
    /\ snap' = store
    /\ UNCHANGED store

\* The snapshot cannot be read, because the context of the reader ends while
\* it reads: every profile is forgotten, and its pool retired.
RefreshUnreadable(t) ==
    /\ Ended(t)
    /\ InvalidateChanged(Empty)
    /\ snap' = Empty
    /\ UNCHANGED store

----------------------------------------------------------------------------
(* Admission, of calls, checks, descriptions and the tests of an edit. *)

Admitting(t) == pc[t] = "admit" /\ UNCHANGED <<leases, known, unlocked, ends>>

\* Where a goroutine goes with its slot, and where without one.
Admitted(t) == IF job[t].op \in Mutations THEN "testing" ELSE "lease"
Concludes(t) ==
    IF t \in Calls THEN "done" ELSE IF t \in Checks THEN "report" ELSE "reply"

Concluded(t, r) == Ends(t, Concludes(t), r)

Admit(t) ==
    /\ Admitting(t) /\ ~stopped
    /\ \/ slots.active < MaxActive
          /\ Adds("active", 1) /\ Goes(t, Admitted(t)) /\ UNCHANGED job
       \/ slots.active = MaxActive /\ slots.waiting < MaxWaiting
          /\ Adds("waiting", 1) /\ Goes(t, "queued") /\ UNCHANGED job
       \/ slots.active = MaxActive /\ slots.waiting = MaxWaiting
          /\ UNCHANGED slots /\ Concluded(t, "failed")

Refuse(t) ==
    /\ Admitting(t) /\ stopped
    /\ UNCHANGED slots
    /\ Concluded(t, "cancelled")

Queued(t) == pc[t] = "queued" /\ UNCHANGED <<leases, known, unlocked, ends>>

TakeActive(t) ==
    /\ Queued(t)
    /\ slots.active < MaxActive
    /\ slots' = [slots EXCEPT !.active = @ + 1, !.waiting = @ - 1]
    /\ Goes(t, Admitted(t)) /\ UNCHANGED job

\* Mutant of LeaveQueue: the place in the queue is kept.
LeaveQueue_KeepsPlace(t, r) == UNCHANGED slots /\ Concluded(t, r)

LeaveQueue(t, r) == Adds("waiting", -1) /\ Concluded(t, r)

QueueCancelled(t) == Queued(t) /\ Ended(t) /\ LeaveQueue(t, "cancelled")
QueueDeadline(t) == Queued(t) /\ LeaveQueue(t, "failed")

\* The slot is given back after the lease.
Leave(t) ==
    /\ pc[t] = "leaving"
    /\ Adds("active", -1)
    /\ IF job[t].op \in Mutations
       THEN Goes(t, "apply") /\ UNCHANGED job
       ELSE Concluded(t, job[t].result)
    /\ UNCHANGED <<leases, known, unlocked, ends>>

----------------------------------------------------------------------------
(* Manager.Work and Connections, with a slot. *)

\* The profile a task finds under its lease.
Resolves(t) == store.at[job[t].alias]

\* A check works only on the profile that was selected, a description only
\* at the revision the caller saw.
StillBound(t) ==
    /\ job[t].op \in {"test", "describe"} => Resolves(t).id = job[t].seen.at[job[t].alias].id
    /\ job[t].op = "describe" => store.rev = job[t].seen.rev

TakeLease(t) == pc[t] = "lease" /\ MayRead /\ UNCHANGED <<slots, unlocked, ends>>

BeginWork(t) ==
    /\ TakeLease(t) /\ Refresh
    /\ job[t].op # "list" /\ unlocked /\ StillBound(t)
    /\ RW!AcquireShared(t) /\ UNCHANGED wanting
    /\ Goes(t, "ready")
    /\ job' = [job EXCEPT ![t].prof = Resolves(t)]

\* Connections lists what it read; Work ends early.
EndEarly(t) ==
    /\ TakeLease(t) /\ Refresh /\ UNCHANGED leases
    /\ \/ job[t].op = "list" /\ Ends(t, "leaving", "ok")
       \/ job[t].op # "list" /\ ~unlocked /\ Ends(t, "leaving", "failed")
       \/ job[t].op # "list" /\ unlocked /\ ~StillBound(t) /\ Ends(t, "leaving", "revision")

WorkUnreadable(t) ==
    /\ TakeLease(t) /\ RefreshUnreadable(t) /\ UNCHANGED leases
    /\ Ends(t, "leaving", "cancelled")

WorkGivesUp(t) ==
    /\ pc[t] = "lease" /\ Ended(t)
    /\ Ends(t, "leaving", "cancelled")
    /\ UNCHANGED <<slots, leases, known, unlocked, ends>>

\* The driver replaces a pool of the same profile that was made from other
\* settings.  A test of the driver has a pool of its own.
Checkout(t) ==
    /\ pc[t] = "ready"
    /\ Goes(t, "working")
    /\ pools' = IF job[t].op = "test" THEN pools
                ELSE {q \in pools : q.id # job[t].prof.id} \cup {job[t].prof}
    /\ UNCHANGED <<job, slots, leases, store, snap, unlocked, ends>>

HasPool(t) == job[t].op = "test" \/ job[t].prof \in pools

EndWork(t) ==
    /\ pc[t] = "working"
    /\ RW!Leave({t}) /\ UNCHANGED wanting
    /\ \E r \in {"ok", "failed", "cancelled"} :
         /\ r = "ok" => HasPool(t)
         /\ r = "cancelled" => Ended(t)
         /\ Ends(t, "leaving", r)
    /\ UNCHANGED <<slots, known, unlocked, ends>>

Work(t) ==
    \/ Admit(t) \/ Refuse(t) \/ TakeActive(t) \/ QueueCancelled(t) \/ Leave(t)
    \/ BeginWork(t) \/ EndEarly(t) \/ WorkUnreadable(t) \/ WorkGivesUp(t)
    \/ Checkout(t) \/ EndWork(t)

CallArrives(c, op, a) ==
    /\ pc[c] = "idle" /\ ~stopped
    /\ Goes(c, "admit")
    /\ job' = [job EXCEPT ![c] = [NoJob EXCEPT !.op = op, !.alias = a]]
    /\ UNCHANGED <<slots, leases, known, unlocked, ends>>

----------------------------------------------------------------------------
(* A request: what its client saw is in job.seen; of an edit, the candidate *)
(* is in job.prof.                                                          *)

Replies(r) == Goes(r, "reply") /\ job' = [job EXCEPT ![r] = NoJob]
Idles == UNCHANGED <<slots, leases, known, unlocked, ends>>

Candidate(op, a) ==
    CASE op = "edit" -> [id |-> store.at[a].id, body |-> store.rev + 1]
      [] op = "replace" -> [id |-> Cardinality(Aliases) + store.rev, body |-> store.rev + 1]
      [] OTHER -> None

Request(r, op, a) ==
    /\ pc[r] = "idle" /\ ~stopped
    /\ slots.management < MaxManagement
    /\ Adds("management", 1)
    /\ Goes(r, "snapshot")
    /\ job' = [job EXCEPT ![r] =
                  [NoJob EXCEPT !.op = op, !.alias = a, !.seen = store, !.prof = Candidate(op, a)]]
    /\ UNCHANGED <<leases, known, unlocked, ends>>

RefuseRequest(r) ==
    /\ pc[r] = "idle" /\ ~stopped
    /\ slots.management = MaxManagement
    /\ Goes(r, "done")
    /\ UNCHANGED job /\ Idles

\* The revision or the profiles that the client saw are still there.
AsExpected(r) ==
    CASE job[r].op = "enable" -> TRUE
      [] job[r].op = "test" -> \A a \in Aliases : store.at[a].id = job[r].seen.at[a].id
      [] OTHER -> store.rev = job[r].seen.rev

\* Mutant of ReadsBriefly's use in Snapshot: the lease is kept.
Snapshot_KeepsLease(r) ==
    /\ pc[r] = "snapshot"
    /\ MayRead /\ RW!AcquireShared(r) /\ UNCHANGED wanting
    /\ IF AsExpected(r)
       THEN Goes(r, "unlock") /\ job' = [job EXCEPT ![r].seen = store]
       ELSE Replies(r)
    /\ UNCHANGED <<slots, known, unlocked, ends>>

\* The profiles a test selects are those of this snapshot.
Snapshot(r) ==
    /\ pc[r] = "snapshot"
    /\ ReadsBriefly
    /\ IF AsExpected(r)
       THEN Goes(r, "unlock") /\ job' = [job EXCEPT ![r].seen = store]
       ELSE Replies(r)
    /\ UNCHANGED <<slots, known, unlocked, ends>>

\* testProfiles starts a goroutine for each profile it selected.
Spawn(r) ==
    /\ pc' = [t \in Tasks |-> IF t = r THEN "batch"
                              ELSE IF t \in {r} \X Aliases THEN "slot" ELSE pc[t]]
    /\ job' = [t \in Tasks |-> IF t \in {r} \X Aliases
                               THEN [NoJob EXCEPT !.op = "test", !.alias = t[2], !.seen = job[r].seen]
                               ELSE job[t]]

AfterUnlock(r) ==
    CASE job[r].op = "test" -> Spawn(r)
      [] job[r].op = "describe" -> Goes(r, "admit") /\ UNCHANGED job
      [] OTHER -> Goes(r, "recheck") /\ UNCHANGED job

\* Repository.gate: one goroutine at a time is inside Unlock.
GateFree == \A r \in Clients : pc[r] \notin {"keyset", "provider"}

EnterGate(r) ==
    /\ pc[r] = "unlock" /\ GateFree
    /\ IF unlocked THEN AfterUnlock(r) ELSE Goes(r, "keyset") /\ UNCHANGED job
    /\ Idles

ReadKeyset(r) ==
    /\ pc[r] = "keyset"
    /\ ReadsBriefly
    /\ Goes(r, "provider")
    /\ UNCHANGED <<job, slots, known, unlocked, ends>>

ProviderOpens(r) ==
    /\ pc[r] = "provider" /\ ~Ended(r)
    /\ unlocked' = TRUE
    /\ AfterUnlock(r)
    /\ UNCHANGED <<slots, leases, known, ends>>

\* A test goes on: its checks report the failure.
ProviderFails(r) ==
    /\ pc[r] = "provider"
    /\ IF job[r].op = "test"
       THEN Spawn(r) /\ vaultError' = vaultError \cup {r}
       ELSE Replies(r) /\ UNCHANGED vaultError
    /\ UNCHANGED <<slots, leases, known, unlocked, aborted, gone, stopped, closed>>

\* The second look at the store, after the vault: an edit goes on when the
\* revision and the credentials allow it; the others have their answer.
Recheck(r) ==
    /\ pc[r] = "recheck"
    /\ ReadsBriefly
    /\ \/ AsExpected(r) /\ job[r].op \in Mutations /\ Goes(r, "admit") /\ UNCHANGED job
       \/ Replies(r)
    /\ UNCHANGED <<slots, known, unlocked, ends>>

GivesUp(r) ==
    /\ pc[r] \in {"snapshot", "unlock", "keyset", "provider", "recheck", "apply", "writer"}
    /\ Ended(r)
    /\ Replies(r)
    /\ wanting' = wanting \ {r}
    /\ UNCHANGED <<slots, shared, exclusive, known, unlocked, ends>>

\* The reply tells the state of the keyset, which it reads under a lease.
Reply(r) ==
    /\ pc[r] = "reply"
    /\ MayRead \/ Ended(r)
    /\ Adds("management", -1)
    /\ Goes(r, "done")
    /\ UNCHANGED <<job, leases, known, unlocked, ends>>

----------------------------------------------------------------------------
(* The checks of a test. *)

TakeDiagnostics(k) ==
    /\ pc[k] = "slot"
    /\ slots.diagnostics < MaxDiagnostics
    /\ Adds("diagnostics", 1)
    /\ IF k[1] \in vaultError THEN Ends(k, "report", "failed") ELSE Goes(k, "admit") /\ UNCHANGED job
    /\ UNCHANGED <<leases, known, unlocked, ends>>

NoDiagnostics(k) ==
    /\ pc[k] = "slot" /\ Ended(k)
    /\ Goes(k, "done") /\ job' = [job EXCEPT ![k] = NoJob]
    /\ Idles

\* A result is reported; a changed profile, a cancellation or a report that
\* cannot be delivered cancels the batch.
Report(k) ==
    /\ pc[k] = "report"
    /\ Adds("diagnostics", -1)
    /\ Goes(k, "done") /\ job' = [job EXCEPT ![k] = NoJob]
    /\ \/ job[k].result \in {"ok", "failed"} /\ UNCHANGED aborted
       \/ (job[k].result \notin {"ok", "failed"} \/ ~Ended(k)) /\ aborted' = aborted \cup {k[1]}
    /\ UNCHANGED <<leases, known, unlocked, vaultError, gone, stopped, closed>>

BatchEnds(r) ==
    /\ pc[r] = "batch"
    /\ \A a \in Aliases : pc[<<r, a>>] = "done"
    /\ Replies(r)
    /\ vaultError' = vaultError \ {r}
    /\ UNCHANGED <<slots, leases, known, unlocked, aborted, gone, stopped, closed>>

Check(k) == TakeDiagnostics(k) \/ NoDiagnostics(k) \/ Report(k)

----------------------------------------------------------------------------
(* The end of an edit: validateMutation tests the candidate, Apply          *)
(* publishes it.                                                            *)

TestCandidate(r) ==
    /\ pc[r] = "testing"
    /\ \/ Ends(r, "leaving", "failed")
       \/ Goes(r, "leaving") /\ UNCHANGED job
    /\ Idles

\* Apply finds the vault unlocked, behind whoever is in the gate.
AskExclusive(r) ==
    /\ pc[r] = "apply" /\ ~Ended(r) /\ GateFree
    /\ wanting' = wanting \cup {r}
    /\ Goes(r, "writer")
    /\ UNCHANGED <<job, slots, shared, exclusive, known, unlocked, ends>>

TakeExclusive(r) ==
    /\ pc[r] = "writer"
    /\ RW!AcquireExclusive(r) /\ wanting' = wanting \ {r}
    /\ Goes(r, "publishing")
    /\ UNCHANGED <<job, slots, known, unlocked, ends>>

\* Mutant of MayPublish: the expected revision is not compared again.
MayPublish_Unchecked(r) == TRUE

MayPublish(r) == store.rev = job[r].seen.rev

\* Another revision, or an encryption or a commit that fails, publishes
\* nothing; a commit that fails may also have happened.
Publish(r) ==
    /\ pc[r] = "publishing"
    /\ RW!Leave({r}) /\ UNCHANGED wanting
    /\ \/ ~MayPublish(r) /\ Replies(r) /\ UNCHANGED store
       \/ MayPublish(r) /\ Replies(r) /\ UNCHANGED store
       \/ /\ MayPublish(r)
          /\ (Goes(r, "refresh") /\ UNCHANGED job) \/ Replies(r)
          /\ store' = [rev |-> store.rev + 1, at |-> [store.at EXCEPT ![job[r].alias] = job[r].prof]]
    /\ UNCHANGED <<slots, snap, pools, unlocked, ends>>

RefreshPublished(r) ==
    /\ pc[r] = "refresh" /\ MayRead
    /\ \/ Refresh /\ Replies(r)
       \/ RefreshUnreadable(r) /\ Replies(r)
    /\ UNCHANGED <<slots, leases, unlocked, ends>>

RefreshGivesUp(r) ==
    /\ pc[r] = "refresh" /\ Ended(r)
    /\ Replies(r)
    /\ Idles

Edit(r) ==
    TestCandidate(r) \/ AskExclusive(r) \/ TakeExclusive(r) \/ Publish(r)
    \/ RefreshPublished(r) \/ RefreshGivesUp(r)

Serve(r) ==
    \/ Snapshot(r) \/ EnterGate(r) \/ ReadKeyset(r) \/ ProviderOpens(r) \/ ProviderFails(r)
    \/ Recheck(r) \/ GivesUp(r) \/ BatchEnds(r) \/ Reply(r) \/ Edit(r)

----------------------------------------------------------------------------
(* The end of a context, and of the service. *)

MayEnd == Cardinality(gone) + (IF stopped THEN 1 ELSE 0) < MaxEnds

\* A caller hangs up, or its deadline passes.
CallerEnds(t) ==
    /\ t \notin gone /\ pc[t] \notin {"idle", "done"} /\ MayEnd
    /\ gone' = gone \cup {t}
    /\ UNCHANGED <<pc, job, slots, leases, known, unlocked, vaultError, aborted, stopped, closed>>

Stop ==
    /\ ~stopped /\ MayEnd
    /\ stopped' = TRUE
    /\ UNCHANGED <<pc, job, slots, leases, known, unlocked, vaultError, aborted, gone, closed>>

\* The listeners wait for their goroutines before the manager is closed.
Close ==
    /\ stopped /\ ~closed
    /\ \A t \in Tasks : pc[t] \in {"idle", "done"}
    /\ closed' = TRUE
    /\ pools' = {} /\ unlocked' = FALSE
    /\ UNCHANGED <<pc, job, slots, leases, store, snap, vaultError, aborted, gone, stopped>>

Step(t) == Work(t) \/ (t \in Clients /\ Serve(t)) \/ (t \in Checks /\ Check(t))

Arrives ==
    \/ \E c \in Calls : \E ask \in Asks[c] : CallArrives(c, ask[1], ask[2])
    \/ \E r \in Clients : RefuseRequest(r) \/ \E ask \in Asks[r] : Request(r, ask[1], ask[2])

Next ==
    \/ Arrives
    \/ \E t \in Tasks : Step(t) \/ QueueDeadline(t)
    \/ \E t \in Calls \cup Clients : CallerEnds(t)
    \/ Stop \/ Close

\* Some goroutine that can run does, and the driver and the OS store answer.
\* No deadline has to pass, and nobody has to hang up or stop the service.
Running == (\E t \in Tasks : Step(t)) \/ Close

Spec == Init /\ [][Next]_vars /\ WF_vars(Running)

----------------------------------------------------------------------------
(* Properties *)

Pcs == {"idle", "admit", "queued", "lease", "ready", "working", "leaving", "done",
        "snapshot", "unlock", "keyset", "provider", "recheck", "batch", "reply",
        "slot", "report", "testing", "apply", "writer", "publishing", "refresh"}

Profiles == [id : Nat, body : Nat]
Stores == [rev : Nat, at : [Aliases -> Profiles]]

\* Types.
TypeOK ==
    /\ pc \in [Tasks -> Pcs]
    /\ job \in [Tasks -> [op : Management \cup {"none", "work", "list"},
                          alias : Aliases \cup {"none"}, seen : Stores, prof : Profiles,
                          result : {"none", "ok", "failed", "revision", "cancelled"}]]
    /\ slots \in [{"active", "waiting", "management", "diagnostics"} -> Int]
    /\ shared \subseteq Tasks /\ exclusive \subseteq Clients /\ wanting \subseteq Clients
    /\ store \in Stores /\ snap \in Stores /\ pools \subseteq Profiles
    /\ vaultError \subseteq Clients /\ aborted \subseteq Clients /\ gone \subseteq Calls \cup Clients
    /\ unlocked \in BOOLEAN /\ stopped \in BOOLEAN /\ closed \in BOOLEAN

At(where) == Cardinality({t \in Tasks : pc[t] \in where})

\* Admission, its deadline, a cancelled caller and shutdown race for a
\* waiter, and a place is neither lost nor kept: every token is that of a
\* goroutine that will give it back (Manager.admit, HandleManagement,
\* testProfiles), and no channel holds more than its size.
SlotsBalanced ==
    /\ slots.active = At({"lease", "ready", "working", "testing", "leaving"})
    /\ slots.waiting = At({"queued"})
    /\ slots.management = Cardinality({r \in Clients : pc[r] \notin {"idle", "done"}} )
    /\ slots.diagnostics = Cardinality({k \in Checks : pc[k] \notin {"idle", "slot", "done"}})
    /\ slots.active <= MaxActive /\ slots.waiting <= MaxWaiting
    /\ slots.management <= MaxManagement /\ slots.diagnostics <= MaxDiagnostics

\* Whatever is published while a call waits in the queue, an unlock prompts
\* or a test runs, work is done on the profile that is published: a check on
\* the profile its user selected, a description on the revision its user
\* saw.  Unless somebody's context has ended, a profile that changed has lost
\* its pool once the manager has seen the change (Manager.Work, refresh,
\* checkProfile).
WorkSeesPublished ==
    /\ \A t \in Tasks : pc[t] \in {"ready", "working"} =>
         /\ job[t].prof = store.at[job[t].alias]
         /\ job[t].op = "test" => job[t].prof.id = job[t].seen.at[job[t].alias].id
         /\ job[t].op = "describe" => store.rev = job[t].seen.rev
    /\ gone \cup aborted = {} /\ ~stopped /\ snap.rev = store.rev => pools \subseteq ProfilesOf(store)

\* An edit replaces the very profiles its user looked at, and leaves the others
\* as the user saw them, whatever was published while the vault was unlocked and
\* the candidate tested without a lease: a revision number stands for one content
\* of the store (validateMutation, Apply).
EditsReplaceWhatTheySaw ==
    [][store' # store =>
         \E r \in Clients :
            /\ pc[r] = "publishing" /\ job[r].seen = store
            /\ \A a \in Aliases \ {job[r].alias} : store'.at[a] = job[r].seen.at[a]]_vars

\* Every call and request ends, and a stopped service closes: nobody asks
\* for a lease while holding one, so readers and waiting writers never stand
\* off, whatever the deadlines ("a waiting writer blocks the vault's own
\* lease", management.go:359 and 410).
EveryRequestEnds ==
    []<>(/\ \A t \in Tasks : pc[t] \in {"idle", "done"}
         /\ stopped => closed)

\* A caller whose context ends leaves the others at work: no running
\* operation loses the pool of a profile that is still published.
CancellationSparesOthers ==
    [][\A t \in Tasks :
         pc[t] = "working" /\ pc'[t] = "working" /\ HasPool(t) => HasPool(t)']_vars
=============================================================================
