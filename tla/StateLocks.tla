----------------------------- MODULE StateLocks -----------------------------
(***************************************************************************)
(* The leases of an installation (internal/config: locks.go, lifecycle.go, *)
(* cleanup.go, storage.go) as several processes, each with several         *)
(* goroutines, take, drop and lose them.                                   *)
(*                                                                         *)
(* A lease passes the rwQueue of its process and then locks files with     *)
(* flock, in the order lifecycle, gate, state.  A lock file is a name for  *)
(* an inode: opening the name and locking the inode are two steps, the     *)
(* last step of a purge unlinks the names, and a later opener may create   *)
(* them again.  A process that dies drops its queue places and its flocks. *)
(*                                                                         *)
(* Four operations are modelled: an ordinary read or write lease on an     *)
(* open Store; "clean", a LifecycleLease with its nested CleanupLease and  *)
(* the purge it may carry out; and "open", the initialization in Open.     *)
(* PurgeLease, which only tests request, is the acquisition of "clean"     *)
(* without the stop at "lifecycle".  Bounds: Inodes and MaxInstallations.  *)
(***************************************************************************)
EXTENDS Integers, FiniteSets

CONSTANTS
    Actors,              \* goroutines that use the installation
    Processes,
    Proc,                \* Proc[a] is the process a runs in
    Does,                \* Does[a] is the set of operations a performs
    Inodes,              \* inodes a lock file may get (bound)
    MaxInstallations     \* identities ever created in the root (bound)

Ops == {"read", "write", "clean", "open"}

ASSUME ActorsAssumption ==
    /\ Proc \in [Actors -> Processes]
    /\ Does \in [Actors -> SUBSET Ops]
ASSUME BoundsAssumption == 0 \notin Inodes /\ MaxInstallations \in Nat

VARIABLES
    pc,         \* where each actor is in its operation
    op,         \* its operation
    store,      \* identity of the Store it has open, 0 for none
    create,     \* whether its next lock call passes O_CREAT
    fd,         \* the inode of each lock file it has open, 0 for none
    locked,     \* the lock files it holds a flock on
    dir,        \* the inode each lock file name stands for, 0 for no file
    ident,      \* installation.json, id 0 for no file
    receipt,    \* purge.json: the identity being purged, 0 for no file
    created     \* number of identities created so far (they are UUIDs)

actorVars == <<pc, op, store, create, fd, locked>>
diskVars == <<dir, ident, receipt, created>>
vars == <<pc, op, store, create, fd, locked, dir, ident, receipt, created>>

Files == {"lifecycle", "gate", "state"}
NoFile == [f \in Files |-> 0]
NoIdentity == [id |-> 0, purging |-> FALSE, established |-> FALSE]

LifecyclePcs == {"lifecycle-open", "lifecycle-flock", "lifecycle-check", "lifecycle"}
StatePcs == {"gate-open", "gate-flock", "state-open", "state-flock", "check", "held"}
PurgePcs == {"rm-state", "rm-gate", "rm-identity", "rm-lifecycle", "rm-receipt"}
OpenPcs == {"init-receipt", "init-identity", "init-gate", "init-state", "init-established"}
Pcs == {"idle", "lifecycle-queue", "state-queue"}
         \cup LifecyclePcs \cup StatePcs \cup PurgePcs \cup OpenPcs

Init ==
    /\ pc = [a \in Actors |-> "idle"]
    /\ op = [a \in Actors |-> "read"]
    /\ store = [a \in Actors |-> 0]
    /\ create = [a \in Actors |-> FALSE]
    /\ fd = [a \in Actors |-> NoFile]
    /\ locked = [a \in Actors |-> {}]
    /\ dir = NoFile
    /\ ident = NoIdentity
    /\ receipt = 0
    /\ created = 0

----------------------------------------------------------------------------
(* What an actor sees *)

\* readIdentity: the identity, or the terminal receipt in its place.
Identity ==
    IF ident.id # 0 THEN ident
    ELSE [id |-> receipt, purging |-> receipt # 0, established |-> receipt # 0]

\* The places an actor has in the queues of its process.
InLifecycle(a) == op[a] \in {"clean", "open"} /\ pc[a] \notin {"idle", "lifecycle-queue"}
InState(a) == pc[a] \in StatePcs \cup PurgePcs
Exclusive(a) == op[a] # "read"

Peers(a) == {b \in Actors \ {a} : Proc[b] = Proc[a]}

\* The rwQueues grant; RwQueue shows that a queue keeps these promises.
LifecycleFree(a) == \A b \in Peers(a) : ~InLifecycle(b)
\* Mutant of StateFree: a writer waits for all waiting writers, itself included.
StateFree_CountsItself(a) ==
    \A b \in Peers(a) \cup {a} : ~InState(b) /\ (Exclusive(b) => pc[b] # "state-queue")

StateFree(a) ==
    \A b \in Peers(a) :
        IF Exclusive(a) THEN ~InState(b)
        ELSE Exclusive(b) => ~InState(b) /\ pc[b] # "state-queue"

\* flock with LOCK_NB on the inode a has open under the name f.
FlockFree(a, f) ==
    \A b \in Actors \ {a} :
        f \in locked[b] /\ fd[b][f] = fd[a][f]
            => f = "state" /\ ~Exclusive(a) /\ ~Exclusive(b)

\* Mutant of Named: nobody looks whether the locked file still has its name.
Named_Assumed(a, f) == TRUE

\* verifyLock: the locked descriptor is still the named file.
Named(a, f) == dir[f] = fd[a][f]

\* Mutant of IdentityFits: an ordinary lease accepts a tombstone.
IdentityFits_AcceptsPurging(a) ==
    /\ Identity.id = store[a] /\ store[a] # 0
    /\ Identity.established

\* verifyIdentity, as check reads its result: purge-capable leases tolerate
\* the tombstone, ordinary ones do not.
IdentityFits(a) ==
    /\ Identity.id = store[a] /\ store[a] # 0
    /\ \/ Identity.purging /\ op[a] = "clean"
       \/ ~Identity.purging /\ Identity.established

\* Lease.check
Checked(a) == (\A f \in locked[a] : Named(a, f)) /\ IdentityFits(a)

----------------------------------------------------------------------------
(* Beginning and ending an operation *)

\* OpenExisting: a Store for ordinary leases, refused on a tombstone.
OpenExisting(a) ==
    /\ pc[a] = "idle" /\ store[a] = 0 /\ Does[a] \cap {"read", "write"} # {}
    /\ ident.id # 0 /\ ~ident.purging
    /\ store' = [store EXCEPT ![a] = ident.id]
    /\ UNCHANGED <<pc, op, create, fd, locked, diskVars>>

CloseStore(a) ==
    /\ pc[a] = "idle" /\ store[a] # 0
    /\ store' = [store EXCEPT ![a] = 0]
    /\ UNCHANGED <<pc, op, create, fd, locked, diskVars>>

\* ReadLease or WriteLease is called on the open Store.
BeginOrdinary(a, k) ==
    /\ pc[a] = "idle" /\ store[a] # 0 /\ k \in Does[a] \cap {"read", "write"}
    /\ op' = [op EXCEPT ![a] = k]
    /\ create' = [create EXCEPT ![a] = FALSE]
    /\ pc' = [pc EXCEPT ![a] = "state-queue"]
    /\ UNCHANGED <<store, fd, locked, diskVars>>

\* OpenLifecycle, unless the Store is open already, and Lifecycle is called.
\* Only a Store read from the receipt (s.terminal) may create lifecycle.lock.
BeginClean(a) ==
    /\ pc[a] = "idle" /\ "clean" \in Does[a] /\ Identity.id # 0
    /\ op' = [op EXCEPT ![a] = "clean"]
    /\ store' = [store EXCEPT ![a] = IF @ = 0 THEN Identity.id ELSE @]
    /\ create' = [create EXCEPT ![a] = store[a] = 0 /\ ident.id = 0]
    /\ pc' = [pc EXCEPT ![a] = "lifecycle-queue"]
    /\ UNCHANGED <<fd, locked, diskVars>>

BeginOpen(a) ==
    /\ pc[a] = "idle" /\ "open" \in Does[a] /\ store[a] = 0
    /\ op' = [op EXCEPT ![a] = "open"]
    /\ pc' = [pc EXCEPT ![a] = "lifecycle-queue"]
    /\ UNCHANGED <<store, create, fd, locked, diskVars>>

\* Every lock and queue place of a is released and its operation is over.
\* The Store outlives ordinary leases; op and create mean nothing now.
Leave(a) ==
    /\ pc' = [pc EXCEPT ![a] = "idle"]
    /\ fd' = [fd EXCEPT ![a] = NoFile]
    /\ locked' = [locked EXCEPT ![a] = {}]
    /\ op' = [op EXCEPT ![a] = "read"]
    /\ create' = [create EXCEPT ![a] = FALSE]

\* The nested CleanupLease is released, its LifecycleLease is kept.
LeaveState(a) ==
    /\ pc' = [pc EXCEPT ![a] = "lifecycle"]
    /\ fd' = [fd EXCEPT ![a] = [NoFile EXCEPT !["lifecycle"] = fd[a]["lifecycle"]]]
    /\ locked' = [locked EXCEPT ![a] = {"lifecycle"}]
    /\ UNCHANGED <<op, create>>

\* An acquisition returns an error: what it had taken so far is released.
Abandon(a) ==
    /\ IF op[a] = "clean" /\ pc[a] \in StatePcs \cup {"state-queue"}
         THEN LeaveState(a) /\ UNCHANGED store
         ELSE /\ Leave(a)
              /\ store' = [store EXCEPT ![a] = IF op[a] \in {"clean", "open"} THEN 0 ELSE @]
    /\ UNCHANGED diskVars

----------------------------------------------------------------------------
(* Queues and lock files *)

EnterLifecycle(a) ==
    /\ pc[a] = "lifecycle-queue" /\ LifecycleFree(a)
    /\ pc' = [pc EXCEPT ![a] = "lifecycle-open"]
       \* Open reads installation.json first: it creates the lock of a new root.
    /\ create' = [create EXCEPT ![a] = IF op[a] = "open" THEN ident.id = 0 ELSE @]
    /\ UNCHANGED <<op, store, fd, locked, diskVars>>

EnterState(a) ==
    /\ pc[a] = "state-queue" /\ StateFree(a)
    /\ pc' = [pc EXCEPT ![a] = "gate-open"]
    /\ UNCHANGED <<op, store, create, fd, locked, diskVars>>

Opening == [lifecycle |-> "lifecycle-open", gate |-> "gate-open", state |-> "state-open"]
Flocking == [lifecycle |-> "lifecycle-flock", gate |-> "gate-flock", state |-> "state-flock"]
AfterFlock(a) ==
    [lifecycle |-> IF op[a] = "open" THEN "init-receipt" ELSE "lifecycle-check",
     gate |-> "state-open", state |-> "check"]

\* An inode is given to a new file only when nothing refers to it any more.
FreeInodes(f) == Inodes \ ({dir[f]} \cup {fd[b][f] : b \in Actors})
NewInode(f) == CHOOSE i \in FreeInodes(f) : TRUE

\* openFile in lock: the name is resolved, and created if allowed and absent.
OpenLockFile(a, f) ==
    /\ pc[a] = Opening[f]
    /\ \/ /\ dir[f] # 0
          /\ UNCHANGED dir
       \/ /\ dir[f] = 0 /\ create[a] /\ FreeInodes(f) # {}
          /\ dir' = [dir EXCEPT ![f] = NewInode(f)]
    /\ fd' = [fd EXCEPT ![a][f] = dir'[f]]
    /\ pc' = [pc EXCEPT ![a] = Flocking[f]]
    /\ UNCHANGED <<op, store, create, locked, ident, receipt, created>>

\* flock succeeds and verifyLock finds the name still standing for the inode.
\* One step: while a holds the flock of a named inode nobody unlinks the name,
\* and an unlinked inode never gets a name again.
Flock(a, f) ==
    /\ pc[a] = Flocking[f] /\ FlockFree(a, f) /\ Named(a, f)
    /\ locked' = [locked EXCEPT ![a] = @ \cup {f}]
    /\ pc' = [pc EXCEPT ![a] = AfterFlock(a)[f]]
    /\ UNCHANGED <<op, store, create, fd, diskVars>>

\* Lifecycle checks the lease and captures the identity as it is now.  Its
\* CleanupLease may create the state locks only if that identity is purging.
HoldLifecycle(a) ==
    /\ pc[a] = "lifecycle-check" /\ Checked(a)
    /\ pc' = [pc EXCEPT ![a] = "lifecycle"]
    /\ create' = [create EXCEPT ![a] = Identity.purging]
    /\ UNCHANGED <<op, store, fd, locked, diskVars>>

\* CleanupLease is called under the LifecycleLease.
BeginCleanup(a) ==
    /\ pc[a] = "lifecycle" /\ Checked(a)
    /\ pc' = [pc EXCEPT ![a] = "state-queue"]
    /\ UNCHANGED <<op, store, create, fd, locked, diskVars>>

\* The lease is checked once more and granted; a reader lets the gate go.
GrantLease(a) ==
    /\ pc[a] = "check" /\ Checked(a)
    /\ pc' = [pc EXCEPT ![a] = "held"]
    /\ IF Exclusive(a)
         THEN UNCHANGED <<fd, locked>>
         ELSE /\ locked' = [locked EXCEPT ![a] = {"state"}]
              /\ fd' = [fd EXCEPT ![a]["gate"] = 0]
    /\ UNCHANGED <<op, store, create, diskVars>>

\* The context ends, a lock file is missing, or a check fails: any wait and any
\* step of an acquisition may return an error instead.
Fail(a) ==
    /\ pc[a] \notin {"idle", "lifecycle", "held"}
    /\ Abandon(a)

\* Release of a granted lease.
Release(a) ==
    \/ /\ pc[a] = "held"
       /\ IF op[a] = "clean" THEN LeaveState(a) ELSE Leave(a)
       /\ UNCHANGED <<store, diskVars>>
    \/ /\ pc[a] = "lifecycle"
       /\ Leave(a)
       /\ store' = [store EXCEPT ![a] = 0]
       /\ UNCHANGED diskVars

----------------------------------------------------------------------------
(* Purge *)

\* BeginPurge publishes the tombstone.  In a retry after the identity was
\* removed it publishes the identity again, from the receipt.  (The code writes
\* the identity its Store read when it took the lease; the lease keeps every
\* other writer of the identity out, and the Pending flag is left out here.)
BeginPurge(a) ==
    /\ pc[a] = "held" /\ op[a] = "clean" /\ Checked(a)
    /\ ident' = [Identity EXCEPT !.purging = TRUE]
    /\ UNCHANGED <<actorVars, dir, receipt, created>>

\* FinishPurge up to the receipt: the owned data is removed, purge.json written.
BeginFinish(a) ==
    /\ pc[a] = "held" /\ op[a] = "clean" /\ Checked(a) /\ Identity.purging
    /\ receipt' = store[a]
    /\ pc' = [pc EXCEPT ![a] = "rm-state"]
    /\ UNCHANGED <<op, store, create, fd, locked, dir, ident, created>>

\* FinishPurge unlinks one name after the other.
RemoveLock(a, f, from, to) ==
    /\ pc[a] = from
    /\ dir' = [dir EXCEPT ![f] = 0]
    /\ pc' = [pc EXCEPT ![a] = to]
    /\ UNCHANGED <<op, store, create, fd, locked, ident, receipt, created>>

RemoveIdentity(a) ==
    /\ pc[a] = "rm-identity"
    /\ ident' = NoIdentity
    /\ pc' = [pc EXCEPT ![a] = "rm-lifecycle"]
    /\ UNCHANGED <<op, store, create, fd, locked, dir, receipt, created>>

RemoveReceipt(a) ==
    /\ pc[a] = "rm-receipt"
    /\ receipt' = 0
    /\ Leave(a)
    /\ store' = [store EXCEPT ![a] = 0]
    /\ UNCHANGED <<dir, ident, created>>

FinishPurge(a) ==
    \/ RemoveLock(a, "state", "rm-state", "rm-gate")
    \/ RemoveLock(a, "gate", "rm-gate", "rm-identity")
    \/ RemoveIdentity(a)
    \/ RemoveLock(a, "lifecycle", "rm-lifecycle", "rm-receipt")
    \/ RemoveReceipt(a)

----------------------------------------------------------------------------
(* Open: initialization under the lifecycle lock *)

\* Mutant of NoReceipt: Open goes on beside a receipt.
NoReceipt_Unchecked(a) ==
    /\ pc[a] = "init-receipt"
    /\ pc' = [pc EXCEPT ![a] = "init-identity"]
    /\ UNCHANGED <<op, store, create, fd, locked, diskVars>>

\* A receipt refuses initialization (its Fail step); otherwise Open goes on.
NoReceipt(a) ==
    /\ pc[a] = "init-receipt" /\ receipt = 0
    /\ pc' = [pc EXCEPT ![a] = "init-identity"]
    /\ UNCHANGED <<op, store, create, fd, locked, diskVars>>

\* Mutant of OpenIdentity: the identity is written once, as it is to be at the
\* end of the initialization.
OpenIdentity_EstablishedAtOnce(a) ==
    /\ pc[a] = "init-identity"
    /\ \/ ident.id # 0 /\ UNCHANGED <<ident, created>>
       \/ /\ ident.id = 0 /\ created < MaxInstallations
          /\ created' = created + 1
          /\ ident' = [id |-> created', purging |-> FALSE, established |-> TRUE]
    /\ store' = [store EXCEPT ![a] = ident'.id]
    /\ create' = [create EXCEPT ![a] = ident.id = 0]
    /\ pc' = [pc EXCEPT ![a] = "init-gate"]
    /\ UNCHANGED <<op, fd, locked, dir, receipt>>

\* The identity is adopted, or a new one is written.
OpenIdentity(a) ==
    /\ pc[a] = "init-identity"
    /\ \/ /\ ident.id # 0
          /\ UNCHANGED <<ident, created>>
       \/ /\ ident.id = 0 /\ created < MaxInstallations
          /\ created' = created + 1
          /\ ident' = [id |-> created', purging |-> FALSE, established |-> FALSE]
    /\ store' = [store EXCEPT ![a] = ident'.id]
    /\ create' = [create EXCEPT ![a] = ~ident'.established]
    /\ pc' = [pc EXCEPT ![a] = "init-gate"]
    /\ UNCHANGED <<op, fd, locked, dir, receipt>>

\* The state locks are opened, and created before profiles are established.
OpenStateLock(a, f, from, to) ==
    /\ pc[a] = from
    /\ \/ dir[f] # 0 /\ UNCHANGED dir
       \/ /\ dir[f] = 0 /\ create[a] /\ FreeInodes(f) # {}
          /\ dir' = [dir EXCEPT ![f] = NewInode(f)]
    /\ pc' = [pc EXCEPT ![a] = to]
    /\ UNCHANGED <<op, store, create, fd, locked, ident, receipt, created>>

\* The database is initialized, profiles are established, lifecycle is released.
Establish(a) ==
    /\ pc[a] = "init-established"
    /\ ident' = [ident EXCEPT !.established = ident.established \/ ~ident.purging]
    /\ Leave(a)
    /\ UNCHANGED <<store, dir, receipt, created>>

Open(a) ==
    \/ NoReceipt(a)
    \/ OpenIdentity(a)
    \/ OpenStateLock(a, "gate", "init-gate", "init-state")
    \/ OpenStateLock(a, "state", "init-state", "init-established")
    \/ Establish(a)

----------------------------------------------------------------------------

\* A process dies: the kernel closes its descriptors, which drops its flocks.
Crash(p) ==
    LET dead == {a \in Actors : Proc[a] = p} IN
    /\ \E a \in dead : pc[a] # "idle" \/ store[a] # 0
    /\ pc' = [a \in Actors |-> IF a \in dead THEN "idle" ELSE pc[a]]
    /\ store' = [a \in Actors |-> IF a \in dead THEN 0 ELSE store[a]]
    /\ fd' = [a \in Actors |-> IF a \in dead THEN NoFile ELSE fd[a]]
    /\ locked' = [a \in Actors |-> IF a \in dead THEN {} ELSE locked[a]]
    /\ op' = [a \in Actors |-> IF a \in dead THEN "read" ELSE op[a]]
    /\ create' = [a \in Actors |-> create[a] /\ a \notin dead]
    /\ UNCHANGED diskVars

Acquire(a) ==
    \/ EnterLifecycle(a)
    \/ EnterState(a)
    \/ \E f \in Files : OpenLockFile(a, f) \/ Flock(a, f)
    \/ HoldLifecycle(a)
    \/ GrantLease(a)

Next ==
    \/ \E a \in Actors :
         \/ OpenExisting(a) \/ CloseStore(a)
         \/ \E k \in {"read", "write"} : BeginOrdinary(a, k)
         \/ BeginClean(a) \/ BeginOpen(a)
         \/ Acquire(a) \/ BeginCleanup(a)
         \/ Fail(a) \/ Release(a)
         \/ BeginPurge(a) \/ BeginFinish(a) \/ FinishPurge(a)
         \/ Open(a)
    \/ \E p \in Processes : Crash(p)

Spec == Init /\ [][Next]_vars

----------------------------------------------------------------------------
(* Properties *)

TypeOK ==
    /\ pc \in [Actors -> Pcs]
    /\ op \in [Actors -> Ops]
    /\ store \in [Actors -> Nat]
    /\ create \in [Actors -> BOOLEAN]
    /\ fd \in [Actors -> [Files -> Inodes \cup {0}]]
    /\ locked \in [Actors -> SUBSET Files]
    /\ dir \in [Files -> Inodes \cup {0}]
    /\ ident \in [id : Nat, purging : BOOLEAN, established : BOOLEAN]
    /\ receipt \in Nat
    /\ created \in Nat

\* A lease is live from its grant to its release.  A purge gives its lease up
\* when it unlinks lifecycle.lock: what is left of it is the receipt.
Live(a) == pc[a] \in {"held"} \cup (PurgePcs \ {"rm-receipt"})
SharedLeases == {a \in Actors : Live(a) /\ op[a] = "read"}
ExclusiveLeases == {a \in Actors : Live(a) /\ op[a] # "read"}

\* The leases of all processes together are one reader-writer lock, although
\* every process sees only its own queue and the names of the lock files.
RW == INSTANCE ReaderWriter
        WITH shared <- SharedLeases, exclusive <- ExclusiveLeases

LeasesExclude == RW!Spec

\* locks.go BeginPurge: the tombstone revokes ordinary admission.  Whoever
\* holds an ordinary lease holds it on the identity that is in the root, and
\* that identity is established and not being purged.
NoLeasePastTombstone ==
    \A a \in Actors :
        pc[a] = "held" /\ op[a] \in {"read", "write"} =>
            ident.id = store[a] /\ ident.established /\ ~ident.purging

\* A purge is final: its identity never comes back to ordinary use, and while
\* its receipt is there no new installation is initialized (storage.go:207).
PurgeIsFinal ==
    [][/\ ident.purging /\ ident'.id # 0 => ident'.id = ident.id /\ ident'.purging
       /\ ident.id = 0 /\ ident'.id # 0 /\ ~ident'.purging => receipt = 0]_vars

\* An established installation that is not being purged has its lock files:
\* nothing else would ever create them again.
EstablishedHasLocks ==
    ident.established /\ ~ident.purging => \A f \in Files : dir[f] # 0

\* What keeps a waiting actor from its next step, apart from errors.
Blocked(a) ==
    \/ pc[a] = "lifecycle-queue" /\ ~LifecycleFree(a)
    \/ pc[a] = "state-queue" /\ ~StateFree(a)
    \/ \E f \in Files : pc[a] = Flocking[f] /\ ~FlockFree(a, f)

\* lifecycle.go:19 and locks.go:200: locks are taken in one order, so waiting
\* actors always wait, in the end, for one that can go on.
NoStandoff ==
    (\E a \in Actors : Blocked(a)) =>
        \E a \in Actors : pc[a] # "idle" /\ ~Blocked(a)
=============================================================================
