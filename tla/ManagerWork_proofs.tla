------------------------ MODULE ManagerWork_proofs -------------------------
(***************************************************************************)
(* What the service manager guarantees for any number of calls, requests   *)
(* and profiles and any limits: places are neither lost nor kept, work is  *)
(* done on the profile that is published, and an edit replaces what its    *)
(* user saw.                                                               *)
(*                                                                         *)
(* A place is taken in one function and given back in another, on each of  *)
(* the ways a goroutine can end.  The proof goes by goroutine: every step  *)
(* but Spawn moves one (Moves), and its tokens are those of the place it   *)
(* is in.  For the profiles it is the lease that matters: who works has a  *)
(* shared one (LeaseFits), so nothing is published and the manager has     *)
(* seen what is (SnapFits).                                                *)
(***************************************************************************)
EXTENDS ManagerWork, FiniteSetTheorems, TLAPS

\* The goroutines whose token is in each channel.
ActivePcs == {"lease", "ready", "working", "testing", "leaving"}
Active == {t \in Tasks : pc[t] \in ActivePcs}
Waiting == {t \in Tasks : pc[t] \in {"queued"}}
Managing == {r \in Clients : pc[r] \notin {"idle", "done"}}
Diagnosing == {k \in Checks : pc[k] \notin {"idle", "slot", "done"}}

Balanced ==
  /\ DOMAIN slots = {"active", "waiting", "management", "diagnostics"}
  /\ IsFiniteSet(Active) /\ slots.active = Cardinality(Active)
  /\ IsFiniteSet(Waiting) /\ slots.waiting = Cardinality(Waiting)
  /\ IsFiniteSet(Managing) /\ slots.management = Cardinality(Managing)
  /\ IsFiniteSet(Diagnosing) /\ slots.diagnostics = Cardinality(Diagnosing)
  /\ slots.active <= MaxActive /\ slots.waiting <= MaxWaiting
  /\ slots.management <= MaxManagement /\ slots.diagnostics <= MaxDiagnostics

\* What a goroutine works on fits the place it is in.
Admission == {"admit", "queued", "lease", "ready", "working"}
JobFits(t, p, j) ==
  /\ DOMAIN j = DOMAIN NoJob
  /\ t \in Calls => /\ j.op = "work" => j.alias \in Aliases
                    /\ p \in Admission => j.op \in {"work", "list"}
                    /\ p \in {"ready", "working"} => j.op = "work"
  /\ t \in Clients => /\ j.op \in Mutations \cup {"describe"} => j.alias \in Aliases
                      /\ j.op \in Mutations => j.prof.body # 0
                      /\ p \in Admission => j.op \in Mutations \cup {"describe"}
                      /\ p \in {"apply", "writer", "publishing"} => j.op \in Mutations
  /\ t \in Checks => /\ j.op # "none" => j.alias \in Aliases
                     /\ p \in Admission \cup {"slot"} => j.op = "test"

Shaped ==
  /\ DOMAIN pc = Tasks /\ DOMAIN job = Tasks
  /\ \A t \in Tasks : JobFits(t, pc[t], job[t])
  /\ store.rev \in Nat /\ DOMAIN store.at = Aliases
  /\ \A a \in Aliases : store.at[a].body # 0

\* A client's checks begin with its batch.
Late == {"batch", "reply", "done"}
ChecksWait == \A r \in Clients, a \in Aliases : pc[r] \notin Late => pc[<<r, a>>] = "idle"

LeaseFits ==
  /\ shared = {t \in Tasks : pc[t] \in {"ready", "working"}}
  /\ exclusive = {t \in Tasks : pc[t] = "publishing"}
  /\ shared = {} \/ exclusive = {}

WorkBound ==
  \A t \in Tasks : pc[t] \in {"ready", "working"} =>
    /\ job[t].prof = store.at[job[t].alias]
    /\ job[t].op = "test" => job[t].prof.id = job[t].seen.at[job[t].alias].id
    /\ job[t].op = "describe" => store.rev = job[t].seen.rev

\* As long as no context has ended, the manager's profiles are published
\* ones, the present ones while somebody works, and the pools are theirs.
Undisturbed == gone \cup aborted = {} /\ ~stopped
SnapFits == Undisturbed =>
  /\ snap.rev \in Nat /\ snap.rev <= store.rev
  /\ snap.rev = store.rev => snap = store
  /\ shared # {} => snap = store
  /\ pools \subseteq ProfilesOf(snap)

\* The inductive invariant.
IInv == Balanced /\ Shaped /\ ChecksWait /\ LeaseFits /\ WorkBound /\ SnapFits

LEMMA Kinds ==
    ASSUME NEW t \in Tasks
    PROVE  /\ t \in Calls \/ t \in Clients \/ t \in Checks
           /\ t \in Calls => t \notin Clients /\ t \notin Checks
           /\ t \in Clients => t \notin Calls /\ t \notin Checks
           /\ t \in Checks => t \notin Calls /\ t \notin Clients
  BY TasksAssumption DEF Tasks

LEMMA InitInv == Init => IInv
<1> SUFFICES ASSUME Init PROVE IInv
  OBVIOUS
<1>1. Balanced
  <2>1. Active = {} /\ Waiting = {} /\ Managing = {} /\ Diagnosing = {}
    BY DEF Init, Active, ActivePcs, Waiting, Managing, Diagnosing, Tasks
  <2>2. IsFiniteSet({}) /\ Cardinality({}) = 0
    BY FS_EmptySet
  <2> QED
    BY <2>1, <2>2, LimitsAssumption DEF Init, Balanced
<1>2. Shaped
  BY DEF Init, Shaped, JobFits, NoJob, Admission, Mutations
<1>3. ChecksWait
  BY DEF Init, ChecksWait, Tasks, Checks
<1>4. LeaseFits /\ WorkBound
  BY DEF Init, LeaseFits, WorkBound
<1>5. SnapFits
  BY DEF Init, SnapFits
<1> QED
  BY <1>1, <1>2, <1>3, <1>4, <1>5 DEF IInv

----------------------------------------------------------------------------
(* A step of one goroutine *)

One(b) == IF b THEN 1 ELSE 0

\* Its tokens follow it from its place to the next.
Tokens(t, p, q) ==
  /\ DOMAIN slots' = DOMAIN slots
  /\ slots'.active = slots.active + One(q \in ActivePcs) - One(p \in ActivePcs)
  /\ slots'.waiting = slots.waiting + One(q = "queued") - One(p = "queued")
  /\ slots'.management = slots.management
       + One(t \in Clients /\ q \notin {"idle", "done"}) - One(t \in Clients /\ p \notin {"idle", "done"})
  /\ slots'.diagnostics = slots.diagnostics
       + One(t \in Checks /\ q \notin {"idle", "slot", "done"})
       - One(t \in Checks /\ p \notin {"idle", "slot", "done"})
  /\ slots'.active <= MaxActive /\ slots'.waiting <= MaxWaiting
  /\ slots'.management <= MaxManagement /\ slots'.diagnostics <= MaxDiagnostics

Moves(t) ==
  /\ DOMAIN pc' = Tasks /\ \A u \in Tasks \ {t} : pc'[u] = pc[u]
  /\ DOMAIN job' = Tasks /\ \A u \in Tasks \ {t} : job'[u] = job[u]
  /\ Tokens(t, pc[t], pc'[t])
  /\ JobFits(t, pc'[t], job'[t])
  /\ t \in Clients /\ pc[t] \in Late => pc'[t] \in Late
  /\ t \in Checks => pc[t] # "idle"

\* It neither works nor publishes, and leaves the profiles alone.
Holding == {"ready", "working", "publishing"}
Plain(t) ==
  /\ UNCHANGED <<shared, exclusive, store, snap, pools>>
  /\ Undisturbed' => Undisturbed
  /\ pc[t] \notin Holding /\ pc'[t] \notin Holding

LEMMA OneElement ==
    ASSUME NEW S, NEW T, NEW t, IsFiniteSet(S),
           T = S \/ (t \notin S /\ T = S \cup {t}) \/ (t \in S /\ T = S \ {t})
    PROVE  IsFiniteSet(T) /\ Cardinality(T) = Cardinality(S) + One(t \in T) - One(t \in S)
<1>1. Cardinality(S) \in Nat
  BY FS_CardinalityType
<1>2. CASE T = S
  BY <1>1, <1>2 DEF One
<1>3. CASE t \notin S /\ T = S \cup {t}
  <2>1. IsFiniteSet(T) /\ Cardinality(T) = Cardinality(S) + 1
    BY <1>3, FS_AddElement
  <2>2. t \in T
    BY <1>3
  <2> QED
    BY <1>1, <1>3, <2>1, <2>2 DEF One
<1>4. CASE t \in S /\ T = S \ {t}
  <2>1. IsFiniteSet(T) /\ Cardinality(T) = Cardinality(S) - 1
    BY <1>4, FS_RemoveElement
  <2>2. t \notin T
    BY <1>4
  <2> QED
    BY <1>1, <1>4, <2>1, <2>2 DEF One
<1> QED
  BY <1>2, <1>3, <1>4

\* Tokens keep the balance.
LEMMA MovesBalance ==
    ASSUME Balanced, NEW t \in Tasks, Moves(t)
    PROVE  Balanced'
<1>1. /\ IsFiniteSet(Active')
      /\ Cardinality(Active') = Cardinality(Active) + One(pc'[t] \in ActivePcs) - One(pc[t] \in ActivePcs)
  <2>1. /\ (t \in Active <=> pc[t] \in ActivePcs) /\ (t \in Active' <=> pc'[t] \in ActivePcs)
        /\ \/ Active' = Active
           \/ (t \notin Active /\ Active' = Active \cup {t})
           \/ (t \in Active /\ Active' = Active \ {t})
    BY DEF Moves, Active
  <2>2. IsFiniteSet(Active') /\ Cardinality(Active') = Cardinality(Active) + One(t \in Active') - One(t \in Active)
    BY <2>1, OneElement DEF Balanced
  <2> QED
    BY <2>1, <2>2 DEF One
<1>2. /\ IsFiniteSet(Waiting')
      /\ Cardinality(Waiting') = Cardinality(Waiting) + One(pc'[t] = "queued") - One(pc[t] = "queued")
  <2>1. /\ (t \in Waiting <=> pc[t] = "queued") /\ (t \in Waiting' <=> pc'[t] = "queued")
        /\ \/ Waiting' = Waiting
           \/ (t \notin Waiting /\ Waiting' = Waiting \cup {t})
           \/ (t \in Waiting /\ Waiting' = Waiting \ {t})
    BY DEF Moves, Waiting
  <2>2. IsFiniteSet(Waiting') /\ Cardinality(Waiting') = Cardinality(Waiting) + One(t \in Waiting') - One(t \in Waiting)
    BY <2>1, OneElement DEF Balanced
  <2> QED
    BY <2>1, <2>2 DEF One
<1>3. /\ IsFiniteSet(Managing')
      /\ Cardinality(Managing') = Cardinality(Managing)
           + One(t \in Clients /\ pc'[t] \notin {"idle", "done"}) - One(t \in Clients /\ pc[t] \notin {"idle", "done"})
  <2>1. /\ (t \in Managing <=> t \in Clients /\ pc[t] \notin {"idle", "done"})
        /\ (t \in Managing' <=> t \in Clients /\ pc'[t] \notin {"idle", "done"})
        /\ \/ Managing' = Managing
           \/ (t \notin Managing /\ Managing' = Managing \cup {t})
           \/ (t \in Managing /\ Managing' = Managing \ {t})
    BY DEF Moves, Managing, Tasks
  <2>2. IsFiniteSet(Managing') /\ Cardinality(Managing') = Cardinality(Managing) + One(t \in Managing') - One(t \in Managing)
    BY <2>1, OneElement DEF Balanced
  <2> QED
    BY <2>1, <2>2 DEF One
<1>4. /\ IsFiniteSet(Diagnosing')
      /\ Cardinality(Diagnosing') = Cardinality(Diagnosing)
           + One(t \in Checks /\ pc'[t] \notin {"idle", "slot", "done"})
           - One(t \in Checks /\ pc[t] \notin {"idle", "slot", "done"})
  <2>1. /\ (t \in Diagnosing <=> t \in Checks /\ pc[t] \notin {"idle", "slot", "done"})
        /\ (t \in Diagnosing' <=> t \in Checks /\ pc'[t] \notin {"idle", "slot", "done"})
        /\ \/ Diagnosing' = Diagnosing
           \/ (t \notin Diagnosing /\ Diagnosing' = Diagnosing \cup {t})
           \/ (t \in Diagnosing /\ Diagnosing' = Diagnosing \ {t})
    BY DEF Moves, Diagnosing, Tasks
  <2>2. IsFiniteSet(Diagnosing') /\ Cardinality(Diagnosing') = Cardinality(Diagnosing) + One(t \in Diagnosing') - One(t \in Diagnosing)
    BY <2>1, OneElement DEF Balanced
  <2> QED
    BY <2>1, <2>2 DEF One
<1> QED
  BY <1>1, <1>2, <1>3, <1>4 DEF Balanced, Moves, Tokens

----------------------------------------------------------------------------
(* The steps *)

\* What the leaves below need of the state.
LEMMA Here ==
    ASSUME IInv, NEW t \in Tasks
    PROVE  /\ DOMAIN pc = Tasks /\ DOMAIN job = Tasks /\ JobFits(t, pc[t], job[t])
           /\ DOMAIN slots = {"active", "waiting", "management", "diagnostics"}
           /\ slots.active \in Nat /\ slots.waiting \in Nat
           /\ slots.management \in Nat /\ slots.diagnostics \in Nat
           /\ slots.active <= MaxActive /\ slots.waiting <= MaxWaiting
           /\ slots.management <= MaxManagement /\ slots.diagnostics <= MaxDiagnostics
  BY FS_CardinalityType DEF IInv, Shaped, Balanced

\* A goroutine goes, with the job it has, to a place that the job fits.
LEMMA Going ==
    ASSUME IInv, NEW t \in Tasks, NEW w, Goes(t, w)
    PROVE  /\ DOMAIN pc' = Tasks /\ pc'[t] = w /\ \A u \in Tasks \ {t} : pc'[u] = pc[u]
           /\ job' = job => DOMAIN job' = Tasks /\ job'[t] = job[t] /\ \A u \in Tasks \ {t} : job'[u] = job[u]
  BY DEF Goes, IInv, Shaped

\* It has no job any more, or that of a check whose result is to be reported.
LEMMA Ending ==
    ASSUME IInv, NEW t \in Tasks, NEW w, NEW r, Ends(t, w, r),
           w \notin Admission \cup {"slot", "apply", "writer", "publishing"}
    PROVE  /\ DOMAIN pc' = Tasks /\ pc'[t] = w /\ \A u \in Tasks \ {t} : pc'[u] = pc[u]
           /\ DOMAIN job' = Tasks /\ \A u \in Tasks \ {t} : job'[u] = job[u]
           /\ JobFits(t, w, job'[t])
<1>1. Goes(t, w)
  BY DEF Ends
<1>2. DOMAIN job = Tasks /\ JobFits(t, pc[t], job[t])
  BY Here
<1>3. DOMAIN job' = Tasks /\ \A u \in Tasks \ {t} : job'[u] = job[u]
  BY <1>2 DEF Ends
<1>4. CASE t \in Checks
  <2>1. job'[t] = [job[t] EXCEPT !.prof = None, !.result = r]
    BY <1>2, <1>4 DEF Ends
  <2>2. DOMAIN job'[t] = DOMAIN NoJob /\ job'[t].op = job[t].op /\ job'[t].alias = job[t].alias
    BY <1>2, <2>1 DEF JobFits, NoJob
  <2>3. t \notin Calls /\ t \notin Clients
    BY <1>4, Kinds
  <2>4. JobFits(t, w, job'[t])
    BY <1>2, <1>4, <2>2, <2>3 DEF JobFits
  <2> QED
    BY <1>1, <1>3, <2>4, Going
<1>5. CASE t \notin Checks
  <2>1. job'[t] = NoJob
    BY <1>2, <1>5 DEF Ends
  <2>2. JobFits(t, w, NoJob)
    BY <1>5 DEF JobFits, NoJob, Mutations, Admission
  <2> QED
    BY <1>1, <1>3, <2>1, <2>2, Going
<1> QED
  BY <1>4, <1>5

\* A client answers.
LEMMA Replying ==
    ASSUME IInv, NEW r \in Clients, Replies(r)
    PROVE  /\ DOMAIN pc' = Tasks /\ pc'[r] = "reply" /\ \A u \in Tasks \ {r} : pc'[u] = pc[u]
           /\ DOMAIN job' = Tasks /\ \A u \in Tasks \ {r} : job'[u] = job[u]
           /\ JobFits(r, "reply", job'[r])
<1>1. r \in Tasks /\ r \notin Checks
  BY Kinds DEF Tasks
<1>2. Ends(r, "reply", "ok")
  BY <1>1 DEF Replies, Ends
<1> QED
  BY <1>1, <1>2, Ending DEF Admission

LEMMA ConcludedMoves ==
    ASSUME IInv, NEW t \in Tasks, NEW r, Concluded(t, r)
    PROVE  /\ DOMAIN pc' = Tasks /\ pc'[t] = Concludes(t) /\ \A u \in Tasks \ {t} : pc'[u] = pc[u]
           /\ DOMAIN job' = Tasks /\ \A u \in Tasks \ {t} : job'[u] = job[u]
           /\ JobFits(t, pc'[t], job'[t])
           /\ t \in Calls => pc'[t] = "done"
           /\ t \in Clients => pc'[t] = "reply"
           /\ t \in Checks => pc'[t] = "report"
<1>1. /\ t \in Calls => Concludes(t) = "done"
      /\ t \in Clients => Concludes(t) = "reply"
      /\ t \in Checks => Concludes(t) = "report"
  BY Kinds DEF Concludes
<1>2. Concludes(t) \in {"done", "reply", "report"}
  BY <1>1, Kinds
<1> QED
  BY <1>1, <1>2, Ending DEF Concluded, Admission

\* Admission, and the return of the slot.
LEMMA AdmissionMoves ==
    ASSUME IInv, NEW t \in Tasks,
           Admit(t) \/ Refuse(t) \/ TakeActive(t) \/ QueueCancelled(t) \/ QueueDeadline(t) \/ Leave(t)
    PROVE  Moves(t) /\ Plain(t)
<1> USE Here, Kinds, LimitsAssumption
<1>1. CASE Admit(t) /\ slots.active < MaxActive
  <2>1. pc[t] = "admit" /\ Goes(t, Admitted(t)) /\ job' = job /\ Admitted(t) \in {"testing", "lease"}
        /\ slots' = [slots EXCEPT !.active = @ + 1]
    BY <1>1 DEF Admit, Admitting, Admitted, Adds
  <2>2. JobFits(t, Admitted(t), job[t])
    BY <2>1 DEF JobFits, Admission, Admitted, Mutations
  <2>3. Tokens(t, pc[t], Admitted(t))
    BY <1>1, <2>1 DEF Tokens, ActivePcs, One
  <2> QED
    BY <1>1, <2>1, <2>2, <2>3, Going DEF Moves, Plain, Late, Holding, Admit, Admitting, known, leases, ends, Undisturbed
<1>2. CASE Admit(t) /\ slots.active = MaxActive /\ slots.waiting < MaxWaiting
  <2>1. pc[t] = "admit" /\ Goes(t, "queued") /\ job' = job /\ slots' = [slots EXCEPT !.waiting = @ + 1]
    BY <1>2 DEF Admit, Admitting, Adds
  <2>2. JobFits(t, "queued", job[t])
    BY <2>1 DEF JobFits, Admission
  <2>3. Tokens(t, pc[t], "queued")
    BY <1>2, <2>1 DEF Tokens, ActivePcs, One
  <2> QED
    BY <1>2, <2>1, <2>2, <2>3, Going DEF Moves, Plain, Late, Holding, Admit, Admitting, known, leases, ends, Undisturbed
<1>3. ASSUME NEW r, Concluded(t, r), pc[t] \in {"admit", "queued", "leaving"}, UNCHANGED <<leases, known, unlocked, ends>>,
             slots' = CASE pc[t] = "admit" -> slots
                        [] pc[t] = "queued" -> [slots EXCEPT !.waiting = @ - 1]
                        [] OTHER -> [slots EXCEPT !.active = @ - 1]
      PROVE  Moves(t) /\ Plain(t)
  <2>1. Tokens(t, pc[t], pc'[t])
    BY <1>3, ConcludedMoves DEF Tokens, ActivePcs, One
  <2> QED
    BY <1>3, <2>1, ConcludedMoves DEF Moves, Plain, Late, Holding, known, leases, ends, Undisturbed
<1>4. CASE Admit(t) /\ slots.active = MaxActive /\ slots.waiting = MaxWaiting
  BY <1>3, <1>4 DEF Admit, Admitting
<1>5. CASE Refuse(t)
  BY <1>3, <1>5 DEF Refuse, Admitting
<1>6. CASE TakeActive(t)
  <2>1. pc[t] = "queued" /\ Goes(t, Admitted(t)) /\ job' = job /\ Admitted(t) \in {"testing", "lease"}
        /\ slots' = [slots EXCEPT !.active = @ + 1, !.waiting = @ - 1] /\ slots.active < MaxActive
    BY <1>6 DEF TakeActive, Queued, Admitted
  <2>2. JobFits(t, Admitted(t), job[t])
    BY <2>1 DEF JobFits, Admission, Admitted, Mutations
  <2>3. Tokens(t, pc[t], Admitted(t))
    BY <2>1 DEF Tokens, ActivePcs, One
  <2> QED
    BY <1>6, <2>1, <2>2, <2>3, Going DEF Moves, Plain, Late, Holding, TakeActive, Queued, known, leases, ends, Undisturbed
<1>7. CASE QueueCancelled(t) \/ QueueDeadline(t)
  <2>1. pc[t] = "queued" /\ UNCHANGED <<leases, known, unlocked, ends>>
        /\ slots' = [slots EXCEPT !.waiting = @ - 1] /\ (Concluded(t, "cancelled") \/ Concluded(t, "failed"))
    BY <1>7 DEF QueueCancelled, QueueDeadline, LeaveQueue, Queued, Adds
  <2> QED
    BY <1>3, <2>1
<1>8. CASE Leave(t)
  <2>1. pc[t] = "leaving" /\ slots' = [slots EXCEPT !.active = @ - 1] /\ UNCHANGED <<leases, known, unlocked, ends>>
    BY <1>8 DEF Leave, Adds
  <2>2. CASE job[t].op \in Mutations
    <3>1. Goes(t, "apply") /\ job' = job
      BY <1>8, <2>2 DEF Leave
    <3>2. JobFits(t, "apply", job[t])
      BY <2>1, <2>2 DEF JobFits, Admission
    <3>3. Tokens(t, pc[t], "apply")
      BY <2>1 DEF Tokens, ActivePcs, One
    <3> QED
      BY <2>1, <3>1, <3>2, <3>3, Going DEF Moves, Plain, Late, Holding, known, leases, ends, Undisturbed
  <2>3. CASE job[t].op \notin Mutations
    BY <1>3, <1>8, <2>1, <2>3 DEF Leave
  <2> QED
    BY <2>2, <2>3
<1> QED
  BY <1>1, <1>2, <1>4, <1>5, <1>6, <1>7, <1>8 DEF Admit

\* A step to a place w, on whatever grounds, that moves tokens and fits the job.
LEMMA PlainStep ==
    ASSUME NEW t \in Tasks, NEW w,
           DOMAIN pc' = Tasks, pc'[t] = w, \A u \in Tasks \ {t} : pc'[u] = pc[u],
           DOMAIN job' = Tasks, \A u \in Tasks \ {t} : job'[u] = job[u],
           JobFits(t, w, job'[t]), Tokens(t, pc[t], w),
           UNCHANGED <<shared, exclusive, known>>, Undisturbed' => Undisturbed,
           pc[t] \notin Holding \cup {"idle"} \/ (pc[t] = "idle" /\ t \notin Checks), w \notin Holding,
           pc[t] \in Late => w \in Late
    PROVE  Moves(t) /\ Plain(t)
  BY DEF Moves, Plain, Holding, known

\* A call or a request arrives.
LEMMA ArrivalMoves ==
    ASSUME IInv, NEW t \in Tasks,
           \/ t \in Calls /\ \E ask \in Asks[t] : CallArrives(t, ask[1], ask[2])
           \/ t \in Clients /\ (RefuseRequest(t) \/ \E ask \in Asks[t] : Request(t, ask[1], ask[2]))
    PROVE  Moves(t) /\ Plain(t)
<1> USE Here, Kinds, LimitsAssumption
<1>1. ASSUME t \in Calls, NEW ask \in Asks[t], CallArrives(t, ask[1], ask[2])
      PROVE  Moves(t) /\ Plain(t)
  <2>1. ask[1] \in {"work", "list"} /\ (ask[1] = "work" => ask[2] \in Aliases)
    BY <1>1, AsksAssumption
  <2>2. /\ pc[t] = "idle" /\ Goes(t, "admit") /\ UNCHANGED <<shared, exclusive, known, slots, gone, aborted, stopped>>
        /\ job' = [job EXCEPT ![t] = [NoJob EXCEPT !.op = ask[1], !.alias = ask[2]]]
    BY <1>1 DEF CallArrives, leases, ends
  <2>3. JobFits(t, "admit", job'[t])
    BY <1>1, <2>1, <2>2 DEF JobFits, NoJob, Admission, Mutations
  <2>4. Tokens(t, pc[t], "admit")
    BY <1>1, <2>2 DEF Tokens, ActivePcs, One
  <2> QED
    BY <1>1, <2>2, <2>3, <2>4, Going, PlainStep DEF Late, Holding, Undisturbed
<1>2. ASSUME t \in Clients, NEW ask \in Asks[t], Request(t, ask[1], ask[2])
      PROVE  Moves(t) /\ Plain(t)
  <2> DEFINE op == ask[1]
             j == [NoJob EXCEPT !.op = op, !.alias = ask[2], !.seen = store, !.prof = Candidate(op, ask[2])]
  <2>1. /\ op \in Mutations \cup {"describe"} => ask[2] \in Aliases
    BY <1>2, AsksAssumption DEF Mutations
  <2>2. /\ pc[t] = "idle" /\ Goes(t, "snapshot") /\ UNCHANGED <<shared, exclusive, known, gone, aborted, stopped>>
        /\ slots' = [slots EXCEPT !.management = @ + 1] /\ slots.management < MaxManagement
        /\ job' = [job EXCEPT ![t] = j]
    BY <1>2 DEF Request, leases, ends, Adds
  <2>3. op \in Mutations => Candidate(op, ask[2]).body # 0
    <3>1. store.rev \in Nat
      BY DEF IInv, Shaped
    <3>2. CASE op = "edit"
      BY <3>1, <3>2 DEF Candidate
    <3>3. CASE op = "replace"
      BY <3>1, <3>3 DEF Candidate
    <3> QED
      BY <3>2, <3>3 DEF Mutations
  <2>4. DOMAIN j = DOMAIN NoJob /\ j.op = op /\ j.alias = ask[2] /\ j.prof = Candidate(op, ask[2])
    BY DEF NoJob
  <2>5. job'[t] = j /\ DOMAIN job' = Tasks /\ \A u \in Tasks \ {t} : job'[u] = job[u]
    BY <2>2
  <2> HIDE DEF op, j
  <2>6. JobFits(t, "snapshot", j)
    BY <1>2, <2>1, <2>3, <2>4 DEF JobFits, Admission
  <2>7. Tokens(t, pc[t], "snapshot")
    BY <1>2, <2>2 DEF Tokens, ActivePcs, One
  <2> QED
    BY <1>2, <2>2, <2>5, <2>6, <2>7, Going, PlainStep DEF Late, Holding, Undisturbed
<1>3. CASE t \in Clients /\ RefuseRequest(t)
  <2>1. pc[t] = "idle" /\ Goes(t, "done") /\ job' = job
        /\ UNCHANGED <<shared, exclusive, known, slots, gone, aborted, stopped>>
    BY <1>3 DEF RefuseRequest, Idles, leases, ends
  <2>2. JobFits(t, "done", job[t])
    BY <2>1 DEF JobFits, Admission
  <2>3. Tokens(t, pc[t], "done")
    BY <2>1 DEF Tokens, ActivePcs, One
  <2> QED
    BY <1>3, <2>1, <2>2, <2>3, Going, PlainStep DEF Late, Holding, Undisturbed
<1> QED
  BY <1>1, <1>2, <1>3

\* A client's steps, but for those that publish or start its checks.
LEMMA ClientMoves ==
    ASSUME IInv, NEW r \in Clients,
           \/ Snapshot(r) \/ ReadKeyset(r) \/ Recheck(r) \/ GivesUp(r) \/ BatchEnds(r) \/ Reply(r)
           \/ TestCandidate(r) \/ AskExclusive(r) \/ RefreshGivesUp(r)
    PROVE  Moves(r) /\ Plain(r)
<1>0. r \in Tasks /\ r \notin Checks /\ r \notin Calls
  BY Kinds DEF Tasks
<1> USE <1>0, Here, LimitsAssumption
\* From place to place, without a token.
<1>1. ASSUME Replies(r), UNCHANGED <<shared, exclusive, known, slots, gone, aborted, stopped>>,
             pc[r] \in {"snapshot", "unlock", "keyset", "provider", "recheck", "apply", "writer", "batch", "refresh"}
      PROVE  Moves(r) /\ Plain(r)
  <2>1. Tokens(r, pc[r], "reply")
    BY <1>1 DEF Tokens, ActivePcs, One
  <2> QED
    BY <1>1, <2>1, Replying, PlainStep DEF Late, Holding, Undisturbed
<1>2. ASSUME NEW w \in {"unlock", "provider", "admit", "writer"}, Goes(r, w), JobFits(r, w, job'[r]),
             DOMAIN job' = Tasks, \A u \in Tasks \ {r} : job'[u] = job[u],
             UNCHANGED <<shared, exclusive, known, slots, gone, aborted, stopped>>,
             pc[r] \in {"snapshot", "keyset", "recheck", "apply"}
      PROVE  Moves(r) /\ Plain(r)
  <2>1. Tokens(r, pc[r], w)
    BY <1>2 DEF Tokens, ActivePcs, One
  <2> QED
    BY <1>2, <2>1, Going, PlainStep DEF Late, Holding, Undisturbed
<1>3. CASE Snapshot(r)
  <2>1. UNCHANGED <<shared, exclusive, known, slots, gone, aborted, stopped>> /\ pc[r] = "snapshot"
    BY <1>3 DEF Snapshot, ReadsBriefly, leases, ends
  <2>2. CASE Goes(r, "unlock") /\ job' = [job EXCEPT ![r].seen = store]
    <3>1. DOMAIN job' = Tasks /\ (\A u \in Tasks \ {r} : job'[u] = job[u]) /\ job'[r] = [job[r] EXCEPT !.seen = store]
      BY <2>2
    <3>2. JobFits(r, "unlock", job'[r])
      BY <3>1 DEF JobFits, NoJob, Admission
    <3> QED
      BY <1>2, <2>1, <2>2, <3>1, <3>2
  <2> QED
    BY <1>1, <1>3, <2>1, <2>2 DEF Snapshot
<1>4. CASE ReadKeyset(r)
  <2>1. JobFits(r, "provider", job[r])
    BY DEF JobFits, Admission
  <2> QED
    BY <1>2, <1>4, <2>1, Going DEF ReadKeyset, ReadsBriefly, leases, ends
<1>5. CASE Recheck(r)
  <2>1. UNCHANGED <<shared, exclusive, known, slots, gone, aborted, stopped>> /\ pc[r] = "recheck"
    BY <1>5 DEF Recheck, ReadsBriefly, leases, ends
  <2>2. CASE job[r].op \in Mutations /\ Goes(r, "admit") /\ job' = job
    <3>1. JobFits(r, "admit", job[r])
      BY <2>2 DEF JobFits, Admission
    <3> QED
      BY <1>2, <2>1, <2>2, <3>1, Going
  <2> QED
    BY <1>1, <1>5, <2>1, <2>2 DEF Recheck
<1>6. CASE GivesUp(r)
  BY <1>1, <1>6 DEF GivesUp, ends
<1>7. CASE BatchEnds(r)
  BY <1>1, <1>7 DEF BatchEnds, leases
<1>8. CASE RefreshGivesUp(r)
  BY <1>1, <1>8 DEF RefreshGivesUp, Idles, leases, ends
<1>9. CASE AskExclusive(r)
  <2>1. pc[r] = "apply" /\ job[r].op \in Mutations
    BY <1>9 DEF AskExclusive, JobFits
  <2>2. JobFits(r, "writer", job[r])
    BY <2>1 DEF JobFits, Admission
  <2> QED
    BY <1>2, <1>9, <2>1, <2>2, Going DEF AskExclusive, ends
<1>10. CASE Reply(r)
  <2>1. /\ pc[r] = "reply" /\ Goes(r, "done") /\ job' = job /\ slots' = [slots EXCEPT !.management = @ - 1]
        /\ UNCHANGED <<shared, exclusive, known, gone, aborted, stopped>>
    BY <1>10 DEF Reply, Adds, leases, ends
  <2>2. JobFits(r, "done", job[r])
    BY DEF JobFits, Admission
  <2>3. Tokens(r, pc[r], "done")
    BY <2>1 DEF Tokens, ActivePcs, One
  <2> QED
    BY <2>1, <2>2, <2>3, Going, PlainStep DEF Late, Holding, Undisturbed
<1>11. CASE TestCandidate(r)
  <2>1. pc[r] = "testing" /\ UNCHANGED <<shared, exclusive, known, slots, gone, aborted, stopped>>
    BY <1>11 DEF TestCandidate, Idles, leases, ends
  <2>2. Tokens(r, pc[r], "leaving")
    BY <2>1 DEF Tokens, ActivePcs, One
  <2>3. CASE Ends(r, "leaving", "failed")
    BY <2>1, <2>2, <2>3, Ending, PlainStep DEF Late, Holding, Undisturbed, Admission
  <2>4. CASE Goes(r, "leaving") /\ job' = job
    <3>1. JobFits(r, "leaving", job[r])
      BY DEF JobFits, Admission
    <3> QED
      BY <2>1, <2>2, <2>4, <3>1, Going, PlainStep DEF Late, Holding, Undisturbed
  <2> QED
    BY <1>11, <2>3, <2>4 DEF TestCandidate
<1> QED
  BY <1>3, <1>4, <1>5, <1>6, <1>7, <1>8, <1>9, <1>10, <1>11

\* A client starts its checks.
Spawns(r) ==
  /\ Spawn(r) /\ pc[r] \in {"unlock", "provider"} /\ job[r].op = "test"
  /\ UNCHANGED <<shared, exclusive, known, slots, gone, aborted, stopped>>

\* A client in the vault.
LEMMA VaultMoves ==
    ASSUME IInv, NEW r \in Clients, EnterGate(r) \/ ProviderOpens(r) \/ ProviderFails(r)
    PROVE  (Moves(r) /\ Plain(r)) \/ Spawns(r)
<1>0. r \in Tasks /\ r \notin Checks /\ r \notin Calls
  BY Kinds DEF Tasks
<1> USE <1>0, Here, LimitsAssumption
<1>1. UNCHANGED <<shared, exclusive, known, slots, gone, aborted, stopped>> /\ pc[r] \in {"unlock", "provider"}
  BY DEF EnterGate, ProviderOpens, ProviderFails, Idles, leases, ends
<1>2. ASSUME NEW w \in {"keyset", "admit", "recheck"}, Goes(r, w), job' = job, JobFits(r, w, job[r])
      PROVE  Moves(r) /\ Plain(r)
  <2>1. Tokens(r, pc[r], w)
    BY <1>1, <1>2 DEF Tokens, ActivePcs, One
  <2> QED
    BY <1>1, <1>2, <2>1, Going, PlainStep DEF Late, Holding, Undisturbed
<1>3. CASE AfterUnlock(r)
  <2>1. CASE job[r].op = "test"
    BY <1>1, <1>3, <2>1 DEF AfterUnlock, Spawns
  <2>2. CASE job[r].op = "describe"
    <3>1. JobFits(r, "admit", job[r])
      BY <2>2 DEF JobFits, Admission
    <3> QED
      BY <1>2, <1>3, <2>2, <3>1 DEF AfterUnlock
  <2>3. CASE job[r].op \notin {"test", "describe"}
    <3>1. JobFits(r, "recheck", job[r])
      BY DEF JobFits, Admission
    <3> QED
      BY <1>2, <1>3, <2>3, <3>1 DEF AfterUnlock
  <2> QED
    BY <2>1, <2>2, <2>3
<1>4. CASE Goes(r, "keyset") /\ job' = job
  <2>1. JobFits(r, "keyset", job[r])
    BY DEF JobFits, Admission
  <2> QED
    BY <1>2, <1>4, <2>1
<1>5. CASE Replies(r)
  <2>1. Tokens(r, pc[r], "reply")
    BY <1>1 DEF Tokens, ActivePcs, One
  <2> QED
    BY <1>1, <1>5, <2>1, Replying, PlainStep DEF Late, Holding, Undisturbed
<1>6. CASE Spawn(r) /\ job[r].op = "test"
  BY <1>1, <1>6 DEF Spawns
<1> QED
  BY <1>3, <1>4, <1>5, <1>6 DEF EnterGate, ProviderOpens, ProviderFails

\* A check outside its work.
LEMMA CheckMoves ==
    ASSUME IInv, NEW k \in Checks, Check(k)
    PROVE  Moves(k) /\ Plain(k)
<1>0. k \in Tasks /\ k \notin Clients /\ k \notin Calls
  BY Kinds DEF Tasks
<1> USE <1>0, Here, LimitsAssumption
<1>1. CASE TakeDiagnostics(k)
  <2>1. /\ pc[k] = "slot" /\ slots.diagnostics < MaxDiagnostics /\ slots' = [slots EXCEPT !.diagnostics = @ + 1]
        /\ UNCHANGED <<shared, exclusive, known, gone, aborted, stopped>>
        /\ Ends(k, "report", "failed") \/ (Goes(k, "admit") /\ job' = job)
    BY <1>1 DEF TakeDiagnostics, Adds, leases, ends
  <2>2. Tokens(k, pc[k], "report") /\ Tokens(k, pc[k], "admit")
    BY <2>1 DEF Tokens, ActivePcs, One
  <2>3. CASE Ends(k, "report", "failed")
    BY <2>1, <2>2, <2>3, Ending, PlainStep DEF Late, Holding, Undisturbed, Admission
  <2>4. CASE Goes(k, "admit") /\ job' = job
    <3>1. JobFits(k, "admit", job[k])
      BY <2>1 DEF JobFits, Admission
    <3> QED
      BY <2>1, <2>2, <2>4, <3>1, Going, PlainStep DEF Late, Holding, Undisturbed
  <2> QED
    BY <2>1, <2>3, <2>4
<1>2. JobFits(k, "done", NoJob)
  BY DEF JobFits, NoJob, Admission
<1>3. CASE NoDiagnostics(k)
  <2>1. /\ pc[k] = "slot" /\ UNCHANGED <<shared, exclusive, known, slots, gone, aborted, stopped>>
        /\ Goes(k, "done") /\ job' = [job EXCEPT ![k] = NoJob]
    BY <1>3 DEF NoDiagnostics, Idles, leases, ends
  <2>2. Tokens(k, pc[k], "done")
    BY <2>1 DEF Tokens, ActivePcs, One
  <2>3. DOMAIN job' = Tasks /\ job'[k] = NoJob /\ \A u \in Tasks \ {k} : job'[u] = job[u]
    BY <2>1
  <2> QED
    BY <1>2, <2>1, <2>2, <2>3, Going, PlainStep DEF Late, Holding, Undisturbed
<1>4. CASE Report(k)
  <2>1. /\ pc[k] = "report" /\ slots' = [slots EXCEPT !.diagnostics = @ - 1]
        /\ UNCHANGED <<shared, exclusive, known, gone, stopped>>
        /\ Goes(k, "done") /\ job' = [job EXCEPT ![k] = NoJob] /\ aborted \subseteq aborted'
    BY <1>4 DEF Report, Adds, leases
  <2>2. Tokens(k, pc[k], "done")
    BY <2>1 DEF Tokens, ActivePcs, One
  <2>3. DOMAIN job' = Tasks /\ job'[k] = NoJob /\ \A u \in Tasks \ {k} : job'[u] = job[u]
    BY <2>1
  <2>4. Undisturbed' => Undisturbed
    BY <2>1 DEF Undisturbed
  <2> QED
    BY <1>2, <2>1, <2>2, <2>3, <2>4, Going, PlainStep DEF Late, Holding
<1> QED
  BY <1>1, <1>3, <1>4 DEF Check

\* The steps with a lease, as moves of one goroutine.
LEMMA WorkMoves ==
    ASSUME IInv, NEW t \in Tasks,
           BeginWork(t) \/ EndEarly(t) \/ WorkUnreadable(t) \/ WorkGivesUp(t) \/ Checkout(t) \/ EndWork(t)
    PROVE  Moves(t)
<1> USE Here, Kinds, LimitsAssumption
<1>1. ASSUME NEW r, Ends(t, "leaving", r), pc[t] \in {"lease", "working"}, slots' = slots
      PROVE  Moves(t)
  <2>1. Tokens(t, pc[t], "leaving")
    BY <1>1 DEF Tokens, ActivePcs, One
  <2> QED
    BY <1>1, <2>1, Ending DEF Moves, Late, Admission
<1>2. CASE EndEarly(t) \/ WorkUnreadable(t) \/ WorkGivesUp(t) \/ EndWork(t)
  <2>1. \E r : Ends(t, "leaving", r)
    BY <1>2 DEF EndEarly, WorkUnreadable, WorkGivesUp, EndWork
  <2> QED
    BY <1>1, <1>2, <2>1 DEF EndEarly, WorkUnreadable, WorkGivesUp, EndWork, TakeLease
<1>3. CASE BeginWork(t)
  <2>1. /\ pc[t] = "lease" /\ Goes(t, "ready") /\ slots' = slots /\ job[t].op # "list"
        /\ job' = [job EXCEPT ![t].prof = Resolves(t)]
    BY <1>3 DEF BeginWork, TakeLease
  <2>2. DOMAIN job' = Tasks /\ (\A u \in Tasks \ {t} : job'[u] = job[u]) /\ job'[t] = [job[t] EXCEPT !.prof = Resolves(t)]
    BY <2>1
  <2>3. /\ DOMAIN job'[t] = DOMAIN NoJob /\ job'[t].op = job[t].op /\ job'[t].alias = job[t].alias
        /\ job'[t].prof = store.at[job[t].alias]
    BY <2>2 DEF JobFits, NoJob, Resolves
  <2>4. \A a \in Aliases : store.at[a].body # 0
    BY DEF IInv, Shaped
  <2>5. JobFits(t, "ready", job'[t])
    BY <2>1, <2>3, <2>4 DEF JobFits, Admission
  <2>6. Tokens(t, pc[t], "ready")
    BY <2>1 DEF Tokens, ActivePcs, One
  <2> QED
    BY <2>1, <2>2, <2>5, <2>6, Going DEF Moves, Late
<1>4. CASE Checkout(t)
  <2>1. pc[t] = "ready" /\ Goes(t, "working") /\ slots' = slots /\ job' = job
    BY <1>4 DEF Checkout
  <2>2. JobFits(t, "working", job[t]) /\ Tokens(t, pc[t], "working")
    BY <2>1 DEF JobFits, Admission, Tokens, ActivePcs, One
  <2> QED
    BY <2>1, <2>2, Going DEF Moves, Late
<1> QED
  BY <1>2, <1>3, <1>4

LEMMA PublisherMoves ==
    ASSUME IInv, NEW r \in Clients, TakeExclusive(r) \/ Publish(r) \/ RefreshPublished(r)
    PROVE  Moves(r)
<1>0. r \in Tasks /\ r \notin Checks /\ r \notin Calls
  BY Kinds DEF Tasks
<1> USE <1>0, Here, LimitsAssumption
<1>1. ASSUME NEW w \in {"publishing", "refresh"}, Goes(r, w), job' = job, JobFits(r, w, job[r]), slots' = slots,
             pc[r] \in {"writer", "publishing"}
      PROVE  Moves(r)
  <2>1. Tokens(r, pc[r], w)
    BY <1>1 DEF Tokens, ActivePcs, One
  <2> QED
    BY <1>1, <2>1, Going DEF Moves, Late
<1>2. ASSUME Replies(r), slots' = slots, pc[r] \in {"publishing", "refresh"}
      PROVE  Moves(r)
  <2>1. Tokens(r, pc[r], "reply")
    BY <1>2 DEF Tokens, ActivePcs, One
  <2> QED
    BY <1>2, <2>1, Replying DEF Moves, Late
<1>3. CASE TakeExclusive(r)
  <2>1. pc[r] = "writer" /\ JobFits(r, "publishing", job[r])
    BY <1>3 DEF TakeExclusive, JobFits, Admission
  <2> QED
    BY <1>1, <1>3, <2>1 DEF TakeExclusive
<1>4. CASE Publish(r)
  <2>1. JobFits(r, "refresh", job[r])
    BY DEF JobFits, Admission
  <2> QED
    BY <1>1, <1>2, <1>4, <2>1 DEF Publish
<1>5. CASE RefreshPublished(r)
  BY <1>2, <1>5 DEF RefreshPublished
<1> QED
  BY <1>3, <1>4, <1>5

----------------------------------------------------------------------------
(* The steps keep the invariant *)

StoreShaped ==
  /\ store.rev \in Nat /\ DOMAIN store.at = Aliases
  /\ \A a \in Aliases : store.at[a].body # 0

LEMMA MovesKeep ==
    ASSUME IInv, NEW t \in Tasks, Moves(t), StoreShaped'
    PROVE  Balanced' /\ Shaped' /\ ChecksWait'
<1>1. Balanced'
  BY MovesBalance DEF IInv
<1>2. Shaped'
  BY DEF IInv, Shaped, Moves, StoreShaped
<1>3. ChecksWait'
  <2> SUFFICES ASSUME NEW r \in Clients, NEW a \in Aliases, pc'[r] \notin Late
               PROVE  pc'[<<r, a>>] = "idle"
    BY DEF ChecksWait
  <2>1. <<r, a>> \in Checks /\ <<r, a>> \in Tasks /\ r \in Tasks
    BY DEF Checks, Tasks
  <2>2. pc[r] \notin Late
    BY <2>1 DEF Moves
  <2>3. pc[<<r, a>>] = "idle"
    BY <2>2 DEF IInv, ChecksWait
  <2> QED
    BY <2>1, <2>3 DEF Moves
<1> QED
  BY <1>1, <1>2, <1>3

LEMMA PlainKeeps ==
    ASSUME IInv, NEW t \in Tasks, Moves(t), Plain(t)
    PROVE  IInv'
<1>1. StoreShaped'
  BY DEF IInv, Shaped, Plain, StoreShaped
<1>2. \A u \in Tasks : /\ pc[u] \in Holding \/ pc'[u] \in Holding => u # t
                       /\ pc'[u] \in Holding <=> pc[u] \in Holding
                       /\ pc[u] \in Holding => pc'[u] = pc[u] /\ job'[u] = job[u]
  BY DEF Moves, Plain
<1>3. LeaseFits'
  BY <1>2 DEF IInv, LeaseFits, Plain, Holding
<1>4. WorkBound'
  BY <1>2 DEF IInv, WorkBound, Plain, Holding
<1>5. SnapFits'
  BY DEF IInv, SnapFits, Plain, ProfilesOf
<1> QED
  BY <1>1, <1>3, <1>4, <1>5, MovesKeep DEF IInv

\* The checks of a client were idle.
LEMMA SpawnKeeps ==
    ASSUME IInv, NEW r \in Clients, Spawns(r)
    PROVE  IInv'
<1> DEFINE own == {r} \X Aliases
<1>1. /\ r \in Tasks /\ r \notin own /\ own \subseteq Checks /\ own \subseteq Tasks
      /\ \A k \in own : k \notin Clients /\ k \notin Calls /\ k[2] \in Aliases
  BY Kinds DEF Tasks, Checks
<1>2. \A k \in own : pc[k] = "idle"
  <2>1. pc[r] \notin Late
    BY DEF Spawns, Late
  <2> QED
    BY <2>1 DEF IInv, ChecksWait
<1>3. /\ DOMAIN pc' = Tasks /\ pc'[r] = "batch" /\ pc[r] \in {"unlock", "provider"}
      /\ \A k \in own : pc'[k] = "slot"
      /\ \A u \in Tasks : u # r /\ u \notin own => pc'[u] = pc[u]
  BY <1>1 DEF Spawns, Spawn
<1>4. /\ DOMAIN job' = Tasks
      /\ \A k \in own : job'[k] = [NoJob EXCEPT !.op = "test", !.alias = k[2], !.seen = job[r].seen]
      /\ \A u \in Tasks : u \notin own => job'[u] = job[u]
  BY <1>1 DEF Spawns, Spawn
<1> HIDE DEF own
<1>5. Balanced'
  <2>1. Active' = Active
    BY <1>1, <1>2, <1>3 DEF Active, ActivePcs
  <2>2. Waiting' = Waiting
    BY <1>1, <1>2, <1>3 DEF Waiting
  <2>3. Managing' = Managing
    BY <1>1, <1>2, <1>3 DEF Managing, Tasks
  <2>4. Diagnosing' = Diagnosing
    BY <1>1, <1>2, <1>3, Kinds DEF Diagnosing, Tasks
  <2> QED
    BY <2>1, <2>2, <2>3, <2>4 DEF IInv, Balanced, Spawns
<1>6. Shaped'
  <2>1. ASSUME NEW k \in own PROVE JobFits(k, pc'[k], job'[k])
    BY <1>1, <1>3, <1>4 DEF JobFits, NoJob, Admission
  <2>2. JobFits(r, pc'[r], job'[r])
    <3>1. JobFits(r, pc[r], job[r]) /\ job'[r] = job[r] /\ r \notin Checks
      BY <1>1, <1>4, Here, Kinds
    <3> QED
      BY <1>3, <3>1 DEF JobFits, Admission
  <2>3. ASSUME NEW u \in Tasks, u # r, u \notin own PROVE JobFits(u, pc'[u], job'[u])
    BY <1>3, <1>4, <2>3, Here
  <2> QED
    BY <1>3, <1>4, <2>1, <2>2, <2>3 DEF IInv, Shaped, Spawns, known
<1>7. ChecksWait'
  <2> SUFFICES ASSUME NEW c \in Clients, NEW a \in Aliases, pc'[c] \notin Late
               PROVE  pc'[<<c, a>>] = "idle"
    BY DEF ChecksWait
  <2>1. c # r
    BY <1>3 DEF Late
  <2>2. <<c, a>> \notin own /\ <<c, a>> \in Checks /\ <<c, a>> # r /\ <<c, a>> \in Tasks /\ c \in Tasks /\ c \notin own
    BY <1>1, <2>1, Kinds DEF own, Checks, Tasks
  <2>3. pc[c] \notin Late
    BY <1>3, <2>1, <2>2
  <2> QED
    BY <1>3, <2>2, <2>3 DEF IInv, ChecksWait
<1>8. \A u \in Tasks : /\ pc'[u] \in Holding <=> pc[u] \in Holding
                       /\ pc[u] \in Holding => pc'[u] = pc[u] /\ job'[u] = job[u]
  BY <1>1, <1>2, <1>3, <1>4 DEF Holding
<1>9. LeaseFits' /\ WorkBound' /\ SnapFits'
  <2>1. LeaseFits'
    BY <1>8 DEF IInv, LeaseFits, Holding, Spawns
  <2>2. WorkBound'
    BY <1>8 DEF IInv, WorkBound, Holding, Spawns, known
  <2>3. SnapFits'
    BY DEF IInv, SnapFits, Spawns, known, Undisturbed, ProfilesOf
  <2> QED
    BY <2>1, <2>2, <2>3
<1> QED
  BY <1>5, <1>6, <1>7, <1>9 DEF IInv

\* After a refresh the manager's profiles are the published ones, and so are
\* those with a pool.
LEMMA RefreshFits ==
    ASSUME IInv, Refresh
    PROVE  /\ store' = store /\ snap' = store
           /\ Undisturbed => pools' \subseteq ProfilesOf(store)
<1>1. store' = store /\ snap' = store
  BY DEF Refresh
<1>2. ASSUME Undisturbed PROVE pools' \subseteq ProfilesOf(store)
  <2>1. pools \subseteq ProfilesOf(snap) /\ (snap.rev = store.rev => snap = store)
    BY <1>2 DEF IInv, SnapFits
  <2>2. CASE snap.rev = store.rev
    BY <2>1, <2>2 DEF Refresh
  <2>3. CASE snap.rev # store.rev
    BY <2>1, <2>3 DEF Refresh, InvalidateChanged
  <2> QED
    BY <2>2, <2>3
<1> QED
  BY <1>1, <1>2

\* A step that takes no lease and publishes nothing; it may refresh.
LEMMA RefreshKeeps ==
    ASSUME IInv, NEW t \in Tasks, Moves(t), Refresh \/ RefreshUnreadable(t),
           pc[t] \notin Holding, pc'[t] \notin Holding, UNCHANGED <<shared, exclusive, ends>>
    PROVE  IInv'
<1>1. store' = store /\ StoreShaped'
  BY DEF IInv, Shaped, Refresh, RefreshUnreadable, StoreShaped
<1>2. \A u \in Tasks : /\ pc'[u] \in Holding <=> pc[u] \in Holding
                       /\ pc[u] \in Holding => pc'[u] = pc[u] /\ job'[u] = job[u]
  BY DEF Moves
<1>3. LeaseFits'
  BY <1>2 DEF IInv, LeaseFits, Holding
<1>4. WorkBound'
  BY <1>1, <1>2 DEF IInv, WorkBound, Holding
<1>5. SnapFits'
  <2> SUFFICES ASSUME Undisturbed
               PROVE  /\ snap'.rev \in Nat /\ snap'.rev <= store.rev
                      /\ snap' = store
                      /\ pools' \subseteq ProfilesOf(store)
    BY <1>1 DEF SnapFits, Undisturbed, ends, ProfilesOf
  <2>1. ~Ended(t)
    BY DEF Undisturbed, Ended
  <2>2. Refresh
    BY <2>1 DEF RefreshUnreadable
  <2> QED
    BY <2>2, RefreshFits DEF IInv, Shaped
<1> QED
  BY <1>1, <1>3, <1>4, <1>5, MovesKeep DEF IInv

\* Work begins on the published profile.
LEMMA BeginWorkKeeps ==
    ASSUME IInv, NEW t \in Tasks, BeginWork(t)
    PROVE  IInv'
<1>1. Moves(t)
  BY WorkMoves
<1>2. /\ pc[t] = "lease" /\ pc'[t] = "ready" /\ exclusive = {} /\ exclusive' = {} /\ shared' = shared \cup {t}
      /\ Refresh /\ StillBound(t) /\ UNCHANGED ends
  BY Here DEF BeginWork, TakeLease, MayRead, RW!AcquireShared, Goes
<1>3. store' = store /\ snap' = store /\ StoreShaped'
  BY <1>2, RefreshFits DEF IInv, Shaped, StoreShaped
<1>4. /\ job'[t].prof = store.at[job[t].alias] /\ job'[t].op = job[t].op
      /\ job'[t].alias = job[t].alias /\ job'[t].seen = job[t].seen
  <2>1. job'[t] = [job[t] EXCEPT !.prof = Resolves(t)] /\ DOMAIN job[t] = DOMAIN NoJob
    BY Here DEF BeginWork, JobFits
  <2> QED
    BY <2>1 DEF NoJob, Resolves
<1>5. LeaseFits'
  BY <1>1, <1>2 DEF IInv, LeaseFits, Moves
<1>6. WorkBound'
  <2>1. ASSUME NEW u \in Tasks \ {t}, pc'[u] \in {"ready", "working"}
        PROVE  pc[u] = pc'[u] /\ job'[u] = job[u]
    BY <1>1 DEF Moves
  <2>2. /\ job'[t].op = "test" => job'[t].prof.id = job'[t].seen.at[job'[t].alias].id
        /\ job'[t].op = "describe" => store.rev = job'[t].seen.rev
    BY <1>2, <1>4 DEF StillBound, Resolves
  <2> QED
    BY <1>3, <1>4, <2>1, <2>2 DEF IInv, WorkBound
<1>7. SnapFits'
  BY <1>2, <1>3, RefreshFits DEF SnapFits, Undisturbed, ends, StoreShaped, ProfilesOf
<1> QED
  BY <1>1, <1>3, <1>5, <1>6, <1>7, MovesKeep DEF IInv

\* The pool it gets is that of a published profile.
LEMMA CheckoutKeeps ==
    ASSUME IInv, NEW t \in Tasks, Checkout(t)
    PROVE  IInv'
<1>1. Moves(t)
  BY WorkMoves
<1>2. /\ pc[t] = "ready" /\ pc'[t] = "working" /\ job' = job
      /\ UNCHANGED <<shared, exclusive, store, snap, ends>>
      /\ pools' = IF job[t].op = "test" THEN pools
                  ELSE {q \in pools : q.id # job[t].prof.id} \cup {job[t].prof}
  BY Here DEF Checkout, Goes, leases
<1>3. StoreShaped'
  BY <1>2 DEF IInv, Shaped, StoreShaped
<1>4. LeaseFits' /\ WorkBound'
  <2>1. \A u \in Tasks : pc[u] \in {"ready", "working"} <=> pc'[u] \in {"ready", "working"}
    BY <1>1, <1>2 DEF Moves
  <2>2. \A u \in Tasks : pc[u] = "publishing" <=> pc'[u] = "publishing"
    BY <1>1, <1>2 DEF Moves
  <2> QED
    BY <1>2, <2>1, <2>2 DEF IInv, LeaseFits, WorkBound
<1>5. job[t].op # "test" => job[t].prof \in ProfilesOf(store)
  <2>1. JobFits(t, "ready", job[t])
    BY <1>2, Here
  <2>2. CASE job[t].op # "test"
    <3>1. job[t].alias \in Aliases
      BY <2>1, <2>2, Kinds DEF JobFits, Admission
    <3>2. job[t].prof = store.at[job[t].alias] /\ store.at[job[t].alias].body # 0
      BY <1>2, <3>1 DEF IInv, WorkBound, Shaped
    <3> QED
      BY <3>1, <3>2 DEF ProfilesOf, None
  <2> QED
    BY <2>2
<1>6. SnapFits'
  <2> SUFFICES ASSUME Undisturbed PROVE snap = store /\ snap.rev \in Nat /\ pools' \subseteq ProfilesOf(snap)
    BY <1>2 DEF SnapFits, Undisturbed, ends, ProfilesOf, IInv, Shaped
  <2>1. t \in shared
    BY <1>2 DEF IInv, LeaseFits
  <2> QED
    BY <1>2, <1>5, <2>1 DEF IInv, SnapFits, Shaped
<1> QED
  BY <1>1, <1>3, <1>4, <1>6, MovesKeep DEF IInv

LEMMA EndWorkKeeps ==
    ASSUME IInv, NEW t \in Tasks, EndWork(t)
    PROVE  IInv'
<1>1. Moves(t)
  BY WorkMoves
<1>2. /\ pc[t] = "working" /\ pc'[t] = "leaving" /\ shared' = shared \ {t} /\ exclusive' = exclusive \ {t}
      /\ UNCHANGED <<known, ends>>
  BY Here DEF EndWork, RW!Leave, Ends, Goes
<1>3. StoreShaped'
  BY <1>2 DEF IInv, Shaped, StoreShaped, known
<1>4. LeaseFits'
  BY <1>1, <1>2 DEF IInv, LeaseFits, Moves
<1>5. WorkBound'
  BY <1>1, <1>2 DEF IInv, WorkBound, Moves, known
<1>6. SnapFits'
  BY <1>2 DEF IInv, SnapFits, Undisturbed, known, ends, ProfilesOf
<1> QED
  BY <1>1, <1>3, <1>4, <1>5, <1>6, MovesKeep DEF IInv

LEMMA TakeExclusiveKeeps ==
    ASSUME IInv, NEW r \in Clients, TakeExclusive(r)
    PROVE  IInv'
<1>1. Moves(r) /\ r \in Tasks
  BY PublisherMoves DEF Tasks
<1>2. /\ pc[r] = "writer" /\ pc'[r] = "publishing" /\ shared = {} /\ shared' = {}
      /\ exclusive = {} /\ exclusive' = {r} /\ UNCHANGED <<known, ends>>
  BY <1>1, Here DEF TakeExclusive, RW!AcquireExclusive, Goes
<1>3. StoreShaped'
  BY <1>2 DEF IInv, Shaped, StoreShaped, known
<1>4. LeaseFits'
  BY <1>1, <1>2 DEF IInv, LeaseFits, Moves
<1>5. WorkBound'
  BY <1>1, <1>2 DEF IInv, WorkBound, Moves, known
<1>6. SnapFits'
  BY <1>2 DEF IInv, SnapFits, Undisturbed, known, ends, ProfilesOf
<1> QED
  BY <1>1, <1>3, <1>4, <1>5, <1>6, MovesKeep DEF IInv

\* Who publishes has the lease alone: nobody works.
LEMMA PublishKeeps ==
    ASSUME IInv, NEW r \in Clients, Publish(r)
    PROVE  IInv'
<1>1. Moves(r) /\ r \in Tasks
  BY PublisherMoves DEF Tasks
<1>2. /\ pc[r] = "publishing" /\ pc'[r] \in {"reply", "refresh"}
      /\ shared' = shared \ {r} /\ exclusive' = exclusive \ {r} /\ UNCHANGED <<snap, pools, ends>>
      /\ \/ store' = store
         \/ store' = [rev |-> store.rev + 1, at |-> [store.at EXCEPT ![job[r].alias] = job[r].prof]]
  BY <1>1, Here DEF Publish, RW!Leave, Goes, Replies
<1>3. shared = {} /\ \A u \in Tasks : pc[u] \notin {"ready", "working"}
  BY <1>1, <1>2 DEF IInv, LeaseFits
<1>4. \A u \in Tasks : pc'[u] \notin {"ready", "working"}
  BY <1>1, <1>2, <1>3 DEF Moves
<1>5. job[r].prof.body # 0
  BY <1>1, <1>2, Here DEF JobFits
<1>6. StoreShaped'
  <2>1. StoreShaped
    BY DEF IInv, Shaped, StoreShaped
  <2>2. CASE store' = store
    BY <2>1, <2>2 DEF StoreShaped
  <2>3. CASE store' = [rev |-> store.rev + 1, at |-> [store.at EXCEPT ![job[r].alias] = job[r].prof]]
    <3>1. store'.rev = store.rev + 1 /\ store'.at = [store.at EXCEPT ![job[r].alias] = job[r].prof]
      BY <2>3
    <3> QED
      BY <1>5, <2>1, <3>1 DEF StoreShaped
  <2> QED
    BY <1>2, <2>2, <2>3
<1>7. LeaseFits'
  BY <1>1, <1>2, <1>3, <1>4 DEF IInv, LeaseFits, Moves
<1>8. WorkBound'
  BY <1>4 DEF WorkBound
<1>9. SnapFits'
  <2>1. store' = store \/ store'.rev = store.rev + 1
    BY <1>2
  <2>2. store.rev \in Nat /\ shared' = {}
    BY <1>2, <1>3 DEF IInv, Shaped
  <2> QED
    BY <1>2, <2>1, <2>2 DEF IInv, SnapFits, Undisturbed, ends, ProfilesOf
<1> QED
  BY <1>1, <1>6, <1>7, <1>8, <1>9, MovesKeep DEF IInv

----------------------------------------------------------------------------
(* The theorems *)

LEMMA StepKeeps ==
    ASSUME IInv, NEW t \in Tasks, Step(t) \/ QueueDeadline(t)
    PROVE  IInv'
<1>1. CASE Admit(t) \/ Refuse(t) \/ TakeActive(t) \/ QueueCancelled(t) \/ QueueDeadline(t) \/ Leave(t)
  BY <1>1, AdmissionMoves, PlainKeeps
<1>2. CASE BeginWork(t)
  BY <1>2, BeginWorkKeeps
<1>3. CASE EndEarly(t) \/ WorkUnreadable(t)
  <2>1. Moves(t)
    BY <1>3, WorkMoves
  <2>2. pc[t] = "lease" /\ pc'[t] = "leaving" /\ UNCHANGED <<shared, exclusive, ends>>
        /\ (Refresh \/ RefreshUnreadable(t))
    BY <1>3, Here DEF EndEarly, WorkUnreadable, TakeLease, leases, Ends, Goes
  <2> QED
    BY <2>1, <2>2, RefreshKeeps DEF Holding
<1>4. CASE WorkGivesUp(t)
  <2>1. Moves(t)
    BY <1>4, WorkMoves
  <2>2. Plain(t)
    BY <1>4, Here DEF WorkGivesUp, Plain, Holding, Ends, Goes, leases, known, ends, Undisturbed
  <2> QED
    BY <2>1, <2>2, PlainKeeps
<1>5. CASE Checkout(t)
  BY <1>5, CheckoutKeeps
<1>6. CASE EndWork(t)
  BY <1>6, EndWorkKeeps
<1>7. ASSUME t \in Clients, Serve(t) PROVE IInv'
  <2>1. CASE \/ Snapshot(t) \/ ReadKeyset(t) \/ Recheck(t) \/ GivesUp(t) \/ BatchEnds(t) \/ Reply(t)
             \/ TestCandidate(t) \/ AskExclusive(t) \/ RefreshGivesUp(t)
    BY <1>7, <2>1, ClientMoves, PlainKeeps
  <2>2. CASE EnterGate(t) \/ ProviderOpens(t) \/ ProviderFails(t)
    BY <1>7, <2>2, VaultMoves, PlainKeeps, SpawnKeeps
  <2>3. CASE TakeExclusive(t)
    BY <1>7, <2>3, TakeExclusiveKeeps
  <2>4. CASE Publish(t)
    BY <1>7, <2>4, PublishKeeps
  <2>5. CASE RefreshPublished(t)
    <3>1. Moves(t)
      BY <1>7, <2>5, PublisherMoves
    <3>2. pc[t] = "refresh" /\ pc'[t] = "reply" /\ UNCHANGED <<shared, exclusive, ends>>
          /\ (Refresh \/ RefreshUnreadable(t))
      BY <2>5, Here DEF RefreshPublished, leases, Replies, Goes
    <3> QED
      BY <3>1, <3>2, RefreshKeeps DEF Holding
  <2> QED
    BY <1>7, <2>1, <2>2, <2>3, <2>4, <2>5 DEF Serve, Edit
<1>8. CASE t \in Checks /\ Check(t)
  BY <1>8, CheckMoves, PlainKeeps
<1> QED
  BY <1>1, <1>2, <1>3, <1>4, <1>5, <1>6, <1>7, <1>8 DEF Step, Work

\* The manager's invariant, for any calls, requests, profiles and limits: each
\* channel holds the tokens of those that will give them back, the leases are
\* those of who works and who publishes, and work is on published profiles
\* (Manager, internal/service/manager.go, management.go, validation.go).
THEOREM ManagerInvariant == Spec => []IInv
<1>1. Init => IInv
  BY InitInv
<1>2. IInv /\ [Next]_vars => IInv'
  <2> SUFFICES ASSUME IInv, [Next]_vars PROVE IInv'
    OBVIOUS
  <2>1. CASE Arrives
    BY <2>1, ArrivalMoves, PlainKeeps DEF Arrives, Tasks
  <2>2. CASE \E t \in Tasks : Step(t) \/ QueueDeadline(t)
    BY <2>2, StepKeeps
  <2>3. ASSUME UNCHANGED <<pc, job, slots, shared, exclusive, store, snap>>,
               Undisturbed' => Undisturbed /\ pools' = pools
        PROVE  IInv'
    <3>1. Balanced' /\ Shaped' /\ ChecksWait' /\ LeaseFits' /\ WorkBound'
      BY <2>3 DEF IInv, Balanced, Active, Waiting, Managing, Diagnosing, Shaped, ChecksWait, LeaseFits, WorkBound
    <3>2. SnapFits'
      BY <2>3 DEF IInv, SnapFits, ProfilesOf
    <3> QED
      BY <3>1, <3>2 DEF IInv
  <2>4. ASSUME NEW t \in Calls \cup Clients, CallerEnds(t) PROVE IInv'
    BY <2>3, <2>4 DEF CallerEnds, Undisturbed, leases, known
  <2>5. CASE Stop
    BY <2>3, <2>5 DEF Stop, Undisturbed, leases, known
  <2>6. CASE Close
    BY <2>3, <2>6 DEF Close, Undisturbed, leases
  <2>7. CASE UNCHANGED vars
    BY <2>3, <2>7 DEF vars, leases, known, ends, Undisturbed
  <2> QED
    BY <2>1, <2>2, <2>4, <2>5, <2>6, <2>7 DEF Next
<1> QED
  BY <1>1, <1>2, PTL DEF Spec

\* A place in one of the manager's channels is neither lost nor kept, however
\* admission, its deadline, a cancelled caller, a failed vault and shutdown
\* meet (Manager.admit, HandleManagement, testProfiles).
THEOREM SlotsBalancedThm == Spec => []SlotsBalanced
<1>1. IInv => SlotsBalanced
  BY DEF IInv, Balanced, SlotsBalanced, At, Active, ActivePcs, Waiting, Managing, Diagnosing
<1> QED
  BY <1>1, ManagerInvariant, PTL

\* Work is done on the profile that is published, and as long as no context
\* has ended no pool of another is kept (Manager.Work, refresh, checkProfile).
THEOREM WorkSeesPublishedThm == Spec => []WorkSeesPublished
<1>1. IInv => WorkSeesPublished
  BY DEF IInv, WorkBound, SnapFits, Undisturbed, WorkSeesPublished
<1> QED
  BY <1>1, ManagerInvariant, PTL

----------------------------------------------------------------------------
(* What an edit replaces *)

\* What a goroutine has seen is what it or its batch saw before, or the
\* present store.
OldNews ==
  \A t \in Tasks :
    \/ job'[t].seen \in {Empty, store}
    \/ \E u \in Tasks : job'[t].seen = job[u].seen

\* A revision number stands for one content of the store.
SeenFits ==
  /\ store.rev > 0
  /\ \A t \in Tasks :
       /\ job[t].seen.rev \in Nat /\ job[t].seen.rev <= store.rev
       /\ job[t].seen.rev = store.rev => job[t].seen = store

\* A job that ends leaves what was seen, or nothing.
LEMMA EndsSeen ==
    ASSUME IInv, NEW t \in Tasks, NEW w, NEW r, Ends(t, w, r)
    PROVE  job'[t].seen \in {job[t].seen, Empty} /\ \A u \in Tasks \ {t} : job'[u] = job[u]
<1>1. DOMAIN job = Tasks /\ DOMAIN job[t] = DOMAIN NoJob
  BY Here DEF JobFits
<1>2. \A u \in Tasks \ {t} : job'[u] = job[u]
  BY <1>1 DEF Ends
<1>3. CASE t \in Checks
  <2>1. job'[t] = [job[t] EXCEPT !.prof = None, !.result = r]
    BY <1>1, <1>3 DEF Ends
  <2>2. job'[t].seen = job[t].seen
    BY <1>1, <2>1 DEF NoJob
  <2> QED
    BY <1>2, <2>2
<1>4. CASE t \notin Checks
  <2>1. job'[t] = NoJob
    BY <1>1, <1>4 DEF Ends
  <2> QED
    BY <1>2, <2>1 DEF NoJob
<1> QED
  BY <1>3, <1>4

\* Who ends, replies or resolves its profile has seen nothing new.
LEMMA EndingNews ==
    ASSUME IInv, NEW t \in Tasks,
           \/ job' = job
           \/ Replies(t)
           \/ \E w, r : Ends(t, w, r)
           \/ \E p : job' = [job EXCEPT ![t].prof = p]
    PROVE  OldNews
<1>1. DOMAIN job = Tasks /\ DOMAIN job[t] = DOMAIN NoJob
  BY Here DEF JobFits
<1>2. CASE job' = job
  BY <1>2 DEF OldNews
<1>3. ASSUME job'[t].seen \in {job[t].seen, Empty}, \A u \in Tasks \ {t} : job'[u] = job[u] PROVE OldNews
  BY <1>3 DEF OldNews
<1>4. CASE Replies(t)
  <2>1. job'[t] = NoJob /\ \A u \in Tasks \ {t} : job'[u] = job[u]
    BY <1>1, <1>4 DEF Replies
  <2>2. NoJob.seen = Empty
    BY DEF NoJob
  <2> QED
    BY <1>3, <2>1, <2>2
<1>5. ASSUME NEW p, job' = [job EXCEPT ![t].prof = p] PROVE OldNews
  <2>1. job'[t].seen = job[t].seen
    BY <1>1, <1>5 DEF NoJob
  <2>2. \A u \in Tasks \ {t} : job'[u] = job[u]
    BY <1>1, <1>5
  <2> QED
    BY <1>3, <2>1, <2>2
<1>6. ASSUME NEW w, NEW r, Ends(t, w, r) PROVE OldNews
  BY <1>3, <1>6, EndsSeen
<1> QED
  BY <1>2, <1>4, <1>5, <1>6

\* The checks of a batch have seen what their client saw.
LEMMA SpawnNews ==
    ASSUME IInv, NEW r \in Clients, Spawn(r)
    PROVE  OldNews
<1> DEFINE own == {r} \X Aliases
<1>1. r \in Tasks /\ r \notin own /\ own \subseteq Tasks
  BY Kinds DEF Tasks, Checks
<1>2. /\ DOMAIN job' = Tasks
      /\ \A k \in own : job'[k] = [NoJob EXCEPT !.op = "test", !.alias = k[2], !.seen = job[r].seen]
      /\ \A u \in Tasks : u \notin own => job'[u] = job[u]
  BY <1>1 DEF Spawn
<1> HIDE DEF own
<1>3. ASSUME NEW t \in Tasks, t \in own PROVE job'[t].seen = job[r].seen
  BY <1>2, <1>3 DEF NoJob
<1> QED
  BY <1>1, <1>2, <1>3 DEF OldNews

\* A call has seen nothing, a request the store as it is.
LEMMA ArrivalNews ==
    ASSUME IInv, Arrives
    PROVE  OldNews
<1>1. DOMAIN job = Tasks
  BY DEF IInv, Shaped
<1>2. ASSUME NEW c \in Calls, NEW o, NEW a, CallArrives(c, o, a) PROVE OldNews
  <2>1. job'[c].seen = Empty
    BY <1>1, <1>2 DEF CallArrives, NoJob, Tasks
  <2>2. \A t \in Tasks \ {c} : job'[t] = job[t]
    BY <1>1, <1>2 DEF CallArrives
  <2> QED
    BY <2>1, <2>2 DEF OldNews
<1>3. ASSUME NEW r \in Clients, NEW o, NEW a, Request(r, o, a) PROVE OldNews
  <2>1. job'[r].seen = store
    BY <1>1, <1>3 DEF Request, NoJob, Tasks
  <2>2. \A t \in Tasks \ {r} : job'[t] = job[t]
    BY <1>1, <1>3 DEF Request
  <2> QED
    BY <2>1, <2>2 DEF OldNews
<1>4. ASSUME NEW r \in Clients, RefuseRequest(r) PROVE OldNews
  BY <1>4 DEF RefuseRequest, OldNews
<1> QED
  BY <1>2, <1>3, <1>4 DEF Arrives

\* A request sees the store in its first snapshot, and keeps what it saw.
LEMMA ServingNews ==
    ASSUME IInv, NEW r \in Clients, Serve(r)
    PROVE  OldNews
<1>1. r \in Tasks /\ DOMAIN job = Tasks /\ DOMAIN job[r] = DOMAIN NoJob
  BY Here DEF Tasks, JobFits
<1>2. ASSUME job' = job \/ Replies(r) \/ \E w, v : Ends(r, w, v) PROVE OldNews
  BY <1>1, <1>2, EndingNews
<1>3. CASE Snapshot(r)
  <2>1. CASE AsExpected(r)
    <3>1. job' = [job EXCEPT ![r].seen = store]
      BY <1>3, <2>1 DEF Snapshot
    <3>2. job'[r].seen = store
      BY <1>1, <3>1 DEF NoJob
    <3> QED
      BY <1>1, <3>1, <3>2 DEF OldNews
  <2>2. CASE ~AsExpected(r)
    BY <1>2, <1>3, <2>2 DEF Snapshot
  <2> QED
    BY <2>1, <2>2
<1>4. ASSUME AfterUnlock(r) PROVE OldNews
  <2>1. Spawn(r) \/ job' = job
    BY <1>4 DEF AfterUnlock
  <2> QED
    BY <1>2, <2>1, SpawnNews
<1>5. CASE EnterGate(r) \/ ProviderOpens(r)
  BY <1>2, <1>4, <1>5 DEF EnterGate, ProviderOpens
<1>6. CASE ProviderFails(r)
  BY <1>2, <1>6, SpawnNews DEF ProviderFails
<1>7. CASE ReadKeyset(r) \/ Recheck(r) \/ GivesUp(r) \/ BatchEnds(r) \/ Reply(r)
  BY <1>2, <1>7 DEF ReadKeyset, Recheck, GivesUp, BatchEnds, Reply
<1>8. CASE TestCandidate(r)
  BY <1>2, <1>8 DEF TestCandidate
<1>9. CASE AskExclusive(r) \/ TakeExclusive(r) \/ Publish(r) \/ RefreshPublished(r) \/ RefreshGivesUp(r)
  BY <1>2, <1>9 DEF AskExclusive, TakeExclusive, Publish, RefreshPublished, RefreshGivesUp
<1> QED
  BY <1>3, <1>5, <1>6, <1>7, <1>8, <1>9 DEF Serve, Edit

LEMMA News ==
    ASSUME IInv, [Next]_vars
    PROVE  OldNews
<1>1. ASSUME NEW t \in Tasks, job' = job \/ (\E w, r : Ends(t, w, r)) PROVE OldNews
  BY <1>1, EndingNews
<1>2. ASSUME job' = job PROVE OldNews
  BY <1>2 DEF OldNews
<1>3. ASSUME NEW t \in Tasks, Work(t) PROVE OldNews
  <2>1. CASE BeginWork(t)
    BY <2>1, EndingNews DEF BeginWork
  <2>2. CASE Admit(t) \/ Refuse(t) \/ TakeActive(t) \/ QueueCancelled(t) \/ Leave(t)
    BY <1>1, <2>2 DEF Admit, Refuse, TakeActive, QueueCancelled, LeaveQueue, Leave, Concluded
  <2>3. CASE EndEarly(t) \/ WorkUnreadable(t) \/ WorkGivesUp(t) \/ Checkout(t) \/ EndWork(t)
    BY <1>1, <2>3 DEF EndEarly, WorkUnreadable, WorkGivesUp, Checkout, EndWork
  <2> QED
    BY <1>3, <2>1, <2>2, <2>3 DEF Work
<1>4. ASSUME NEW k \in Checks, Check(k) PROVE OldNews
  <2>1. k \in Tasks /\ DOMAIN job = Tasks
    BY <1>4 DEF Tasks, IInv, Shaped
  <2>2. CASE TakeDiagnostics(k)
    BY <1>1, <2>1, <2>2 DEF TakeDiagnostics
  <2>3. CASE NoDiagnostics(k) \/ Report(k)
    BY <2>1, <2>3 DEF NoDiagnostics, Report, OldNews, NoJob
  <2> QED
    BY <1>4, <2>2, <2>3 DEF Check
<1>5. ASSUME NEW t \in Tasks, Step(t) \/ QueueDeadline(t) PROVE OldNews
  <2>1. CASE QueueDeadline(t)
    BY <1>1, <2>1 DEF QueueDeadline, LeaveQueue, Concluded
  <2> QED
    BY <1>3, <1>4, <1>5, <2>1, ServingNews DEF Step
<1>6. CASE (\E t \in Calls \cup Clients : CallerEnds(t)) \/ Stop \/ Close \/ UNCHANGED vars
  BY <1>2, <1>6 DEF CallerEnds, Stop, Close, vars
<1> QED
  BY <1>5, <1>6, ArrivalNews DEF Next

\* Only a publication changes the store.
LEMMA OnlyPublish ==
    ASSUME [Next]_vars, store' # store
    PROVE  \E r \in Clients : Publish(r)
<1>1. ASSUME Arrives PROVE FALSE
  <2>1. ASSUME NEW c, NEW o, NEW a, CallArrives(c, o, a) \/ Request(c, o, a) \/ RefuseRequest(c) PROVE FALSE
    BY <2>1 DEF CallArrives, Request, RefuseRequest, Idles, known
  <2> QED
    BY <1>1, <2>1 DEF Arrives
<1>2. ASSUME NEW t \in Tasks, Work(t) \/ QueueDeadline(t) PROVE FALSE
  BY <1>2 DEF Work, QueueDeadline, Admit, Admitting, Refuse, TakeActive, Queued, QueueCancelled, Leave,
              BeginWork, EndEarly, WorkUnreadable, WorkGivesUp, Checkout, EndWork, Refresh, RefreshUnreadable, known
<1>3. ASSUME NEW k \in Checks, Check(k) PROVE FALSE
  BY <1>3 DEF Check, TakeDiagnostics, NoDiagnostics, Report, Idles, known
<1>4. ASSUME NEW r \in Clients, Serve(r), ~Publish(r) PROVE FALSE
  <2>1. CASE \/ Snapshot(r) \/ EnterGate(r) \/ ReadKeyset(r) \/ ProviderOpens(r) \/ ProviderFails(r)
             \/ Recheck(r) \/ GivesUp(r) \/ BatchEnds(r) \/ Reply(r)
    BY <2>1 DEF Snapshot, EnterGate, ReadKeyset, ProviderOpens, ProviderFails, Recheck, GivesUp,
                BatchEnds, Reply, Idles, known
  <2>2. CASE Edit(r)
    BY <1>4, <2>2 DEF Edit, TestCandidate, AskExclusive, TakeExclusive, RefreshPublished, RefreshGivesUp,
                      Refresh, RefreshUnreadable, Idles, known
  <2> QED
    BY <1>4, <2>1, <2>2 DEF Serve
<1>5. ASSUME (\E t \in Calls \cup Clients : CallerEnds(t)) \/ Stop \/ Close \/ UNCHANGED vars PROVE FALSE
  BY <1>5 DEF CallerEnds, Stop, Close, vars, known
<1> QED
  BY <1>1, <1>2, <1>3, <1>4, <1>5 DEF Next, Step

\* An edit replaces the very profiles its user looked at and no others, however
\* long it waits for the vault, the test of its candidate and the lease
\* (validateMutation, Repository.Apply).
THEOREM EditsReplaceWhatTheySawThm == Spec => EditsReplaceWhatTheySaw
<1>1. Init => SeenFits
  BY DEF Init, SeenFits, NoJob, Empty
<1>2. ASSUME IInv, SeenFits, [Next]_vars PROVE SeenFits'
  <2>1. OldNews
    BY <1>2, News
  <2>2. store.rev \in Nat
    BY <1>2 DEF IInv, Shaped
  <2>3. store' = store \/ store'.rev = store.rev + 1
    <3>1. ASSUME NEW r \in Clients, Publish(r), store' # store PROVE store'.rev = store.rev + 1
      BY <3>1 DEF Publish
    <3> QED
      BY <1>2, <3>1, OnlyPublish
  <2>4. ASSUME NEW t \in Tasks
        PROVE  /\ job'[t].seen.rev \in Nat /\ job'[t].seen.rev <= store.rev
               /\ job'[t].seen.rev = store.rev => job'[t].seen = store
    BY <1>2, <2>1, <2>2 DEF OldNews, SeenFits, Empty
  <2> QED
    BY <1>2, <2>2, <2>3, <2>4 DEF SeenFits
<1>3. ASSUME IInv, SeenFits, [Next]_vars, store' # store
      PROVE  \E r \in Clients :
                /\ pc[r] = "publishing" /\ job[r].seen = store
                /\ \A a \in Aliases \ {job[r].alias} : store'.at[a] = job[r].seen.at[a]
  <2>1. PICK r \in Clients : Publish(r)
    BY <1>3, OnlyPublish
  <2>2. r \in Tasks /\ DOMAIN store.at = Aliases
    BY <1>3 DEF Tasks, IInv, Shaped
  <2>3. /\ pc[r] = "publishing" /\ job[r].seen.rev = store.rev
        /\ store' = [rev |-> store.rev + 1, at |-> [store.at EXCEPT ![job[r].alias] = job[r].prof]]
    BY <1>3, <2>1 DEF Publish, MayPublish
  <2>4. job[r].seen = store
    BY <1>3, <2>2, <2>3 DEF SeenFits
  <2> QED
    BY <2>2, <2>3, <2>4
<1>4. IInv /\ SeenFits /\ [Next]_vars => SeenFits'
  BY <1>2
<1>5. IInv /\ SeenFits /\ [Next]_vars => [store' # store =>
         \E r \in Clients :
            /\ pc[r] = "publishing" /\ job[r].seen = store
            /\ \A a \in Aliases \ {job[r].alias} : store'.at[a] = job[r].seen.at[a]]_vars
  BY <1>3
<1> QED
  BY <1>1, <1>4, <1>5, ManagerInvariant, PTL DEF Spec, EditsReplaceWhatTheySaw

=============================================================================
