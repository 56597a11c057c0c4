# data-mate: a verification development

data-mate gives coding agents read-only access to a user's PostgreSQL
databases.  A per-user background **service** owns profiles, credentials and
connections; a **command line** manages it over a Unix socket; **agents** talk
to it through a bridge process that speaks MCP.  All of them share one
directory, the *installation*, that several processes open at once.

The modules here are TLA+ translations of the Go code under
`src/internal/`.  TLC checks them on small instances; TLAPS proves every
safety property of the runs for every value of the constants.
`PROJECT.json` maps each definition to the lines it models, and lists the
runs, the findings, the hazards and the theorems.

Contents: 1 inventory, 2 modules, 3 runs, 4 fairness, 5 proofs, 6 what the
models assume and leave out, 7 divergence, 8 plan.

## 1. Inventory

### Parts, state, operations

| Part (source) | State it keeps | Operations that change it |
|---|---|---|
| Reader/writer queue of a process (`config/locks.go` 14-84) | `readers`, `writer`, `waiting`, the channel `changed` | `acquire`, release, `signal`, end of a context |
| Leases, lock files, tombstone (`config/locks.go`, `lifecycle.go`, `cleanup.go`, `storage.go`) | `lifecycle.lock`, `gate.lock`, `state.lock`, `installation.json`, `purge.json`, flocks | `ReadLease`, `WriteLease`, `Lifecycle`, `CleanupLease`, `Open`, `OpenExisting`, `BeginPurge`, `FinishPurge` |
| Installation files (`config/storage.go`, `lifecycle.go`, `cleanup.go`) | published documents, temporary files, the owned executable | `replace`, `remove`, `InstallBinary`, `RemoveBinary`, `SetDistributionPending`, `RemainingOwned`, `TrimBinaryDirectory` |
| Profile database (`config/database.go`) | SQLite: keyset row, revision, profiles, credential bundles | `SaveKeyset`, `Publish`, deletion, removal with its journal |
| Vault (`vault/repository.go`) | the primitive in memory, `closed`, the gate; keyset metadata on disk | `Unlock`, `Apply`, `Credential`, `Close`, `PurgeLocked` |
| OS credential store (`vault/keychain_darwin.go`, `secretservice_linux.go`, `nativebus`) | one item per installation | `CreateIfAbsent`, `Load`, `Delete` |
| Driver pools (`database/postgres/driver.go`) | pools, slots, idle and live connections, the approval, timers | `checkout`, `approvePool`, `release`, `Invalidate`, `Close`, idle eviction |
| Query execution (`database/postgres/executor.go`) | the transaction of one call | `executeQuery` with its row and byte budget |
| Service manager (`service/manager.go`) | admitted and queued work, the profile snapshot | `admit`, `refresh`, `Work`, `Close` |
| Management (`service/management.go`, `validation.go`, `keyring.go`) | one exchange per connection: prompts, answers, reports | `HandleManagement`, `testProfiles`, `checkProfile`, both ends of an exchange |
| Service lifecycle (`service/lifecycle.go`, `server.go`, `socket.go`, `owner.go`, `launch_*.go`, `cleanup.go`) | service record, sockets, runtime directory, platform service | `EnsureManagement`, `Start`, `Stop`, `serve`, `OpenSession`, `Uninstall` |
| MCP session (`mcp/session.go`, `bridge.go`) | initialized flag, ids in flight | `Read`, `Write`, cancellation, the two relays |
| Agent registrations (`agent/ownership.go`) | the inventory of registrations | `Ensure`, `RemoveOwned` |
| Distribution (`distribution/`) | executable, inventory, command link, shell files | `Install`, update, removal |
| Catalogue, guard, codecs, profiles, CLI, transports | none of their own beside a request | pure functions and protocol libraries |

### How they interact

* Everything that touches the installation does so under a lease.  A lease is
  taken in the order lifecycle, gate, state; in each process a queue is passed
  before the files are polled with `flock`.
* The vault holds its gate, then the lifecycle lease (only when it creates a
  keyset), then short read or write leases, and calls the OS store **outside**
  the short ones.  No transaction spans SQLite and the OS store.
* The manager refreshes its profile snapshot under a read lease and calls
  `Driver.Invalidate` for the profiles that changed; operations that run keep
  the pool object they already hold.
* The driver hands an operation a connection and gets it back through a
  release function; timers, sockets' asynchronous cleanup and `Close` act on
  the same pool from their own goroutines.
* A management request is one exchange on a connection: the command line answers
  the prompts of the service's credential store, the service reports results
  and replies.  An abandoned store call goes on without the request.
* An agent talks to a bridge, the bridge to a session, the session's guard to the
  MCP SDK, and its tool calls to the manager.
* Install, uninstall and start change the account's files under the lifecycle
  lease, one file at a time; the agent's client adds its entry on their behalf.
* Stop and uninstall hold the lifecycle lease while they stop the service, so
  no start overlaps them; a purge then deletes the OS item first, the database
  second, and the lock files last.

### Which behaviours are hard, and what would make each part correct

| Part | Hard behaviour | Correctness |
|---|---|---|
| Queue | the channel is captured under the mutex and waited for outside; a writer can be cancelled while readers hold back for it | exact counters, no lost wake-up, no overtaken writer, cancellation returns, implements a reader/writer lock |
| Leases | lock files are unlinked and created again between `open` and `flock`; processes die at any step | the leases of all processes are one reader/writer lock; none outlives the tombstone; a purge is final; no stand-off |
| Vault | a store call is abandoned on timeout and goes on; crash between intent, creation and ready; shutdown and purge during an unlock | an interrupted creation can be retried, a ready keyset is never replaced, encryptions are reserved before they are made, saved credentials stay readable, a purge leaves no keyset |
| Driver | retirement, eviction and close race with dialling, auditing and releasing operations | no connection is lost, slots bound connections, work runs only on vouched connections, waiters are woken, unused pools expire, eviction spares work |
| Service lifecycle | controllers and services die at any step; sockets are names that outlive their process; all roots share one job | whoever serves stays reachable, a job is recorded as long as it exists, "stopped" is true when reported |
| Manager | the queue's deadline, cancelled callers, shutdown and edits race; leases are released before the vault is unlocked | slots are neither lost nor kept, work sees what is published, an edit replaces what its user saw, everything ends |
| Credential store, exchange | prompts that time out with an answer on its way, a keyring locked again or replaced, two setups at once, death of either end | a password is used for the prompt it answers, one keyring with one keyset each, success is reported whole |
| MCP session | handlers end in any order, identifiers are reused, the agent goes away | answers in order, the table is what runs, everything is answered and ends |
| Installation, registrations | a command dies between any two files; an older installer, the user and the agent's client change them too | every trace is on record, success means what it says, the executable goes last, the user's content survives |

## 2. Modules

| Module | Models | Composition |
|---|---|---|
| `ReaderWriter` | the abstract reader/writer lock; holders may leave several at a time, as when a process dies | abstract specification of the next two |
| `RwQueue` | `rwQueue` of `config/locks.go` | implements `ReaderWriter` (`Implements`) |
| `StateLocks` | leases, `Open`, tombstone and purge by several goroutines of several processes | implements `ReaderWriter` (`LeasesExclude`); takes the queue's promise proved in `RwQueue` as its guards `LifecycleFree`, `StateFree` |
| `StateLocks_proofs` | the theorems of `RwQueue` and of `StateLocks` | extends `StateLocks`, `RwQueue`, `FiniteSetTheorems`, `TLAPS` |
| `KeysetVault` | `vault/repository.go` over `config/database.go` and the OS store | takes the leases proved in `StateLocks` as atomic sections, or as sections held from step to step |
| `KeysetVault_proofs` | its theorems | extends `KeysetVault`, `FiniteSetTheorems`, `TLAPS` |
| `DriverPool` | `database/postgres/driver.go` | stands alone |
| `DriverPool_proofs` | its theorems | extends `DriverPool`, `FiniteSetTheorems`, `SequenceTheorems`, `WellFoundedInduction`, `TLAPS` |
| `ServiceLifecycle` | `service/lifecycle.go`, `server.go`, `socket.go` and the service half of `cleanup.go` | takes the lifecycle lease proved in `StateLocks` as its guard `LifecycleFree` |
| `ServiceLifecycle_proofs` | its theorems | extends `ServiceLifecycle`, `TLAPS` |
| `ManagerWork` | `service/manager.go`, `management.go`, `validation.go` | takes its leases from `ReaderWriter` (`RW`), the vault as open or locked, the driver as one pool per profile |
| `ManagerWork_proofs` | its theorems | extends `ManagerWork`, `FiniteSetTheorems`, `TLAPS` |
| `SecretService` | the keyset in the Secret Service of a Linux desktop (`vault/secretservice_linux.go`, `keyring_linux.go`) | actions of an operation; prompts are answered by whoever composes it |
| `KeyringExchange` | both ends of a management exchange (`service/keyring.go`) | extends `SecretService`: the request's operation asks over the connection, rivals at their terminals |
| `KeyringExchange_proofs` | the theorems of `SecretService` and `KeyringExchange` | extends `KeyringExchange`, `FiniteSetTheorems`, `SequenceTheorems`, `TLAPS` |
| `McpSession` | `mcp/session.go`, `bridge.go` around the MCP SDK | stands alone |
| `McpSession_proofs` | its theorems | extends `McpSession`, `FiniteSetTheorems`, `SequenceTheorems`, `TLAPS` |
| `Installation` | `distribution/`, `agent/` and the installation side of `service/` and `config/` | one lifecycle lease, proved in `StateLocks` |
| `Installation_proofs` | its theorems | extends `Installation`, `FiniteSetTheorems`, `TLAPS` |
| `MCStateLocks`, `MCKeysetVault`, `MCDriverPool`, `MCServiceLifecycle`, `MCManagerWork`, `MCKeyringExchange`, `MCInstallation` | constants for TLC | |

**RwQueue.**  `readers`, `writer`, `waiting` are the fields.  `at`, `mode` and
`cancelled` describe the goroutines: *parked* is asleep on the present channel,
*woken* is one whose channel has been closed and that has not yet locked the
mutex again.  `Arrive` is `acquire` up to its first unlock, `Retry` one more
turn of its loop, `ReleaseQueue` the release function, `Cancel` the end of the
context.  Each critical section of `q.mu` is one action; `signal` is part of
the action that calls it.  A `Retry` with a channel closed *and* a context
ended may take either branch of the `select`, and the turn then looks at the
context first, as the code does.

**StateLocks.**  A lock file is a *name* (`dir`) for an *inode*; a descriptor
(`fd`) keeps the inode when the name is gone.  Opening and locking are separate
steps, and `OpenLockFile` reuses an inode number only when nothing refers to
it.  `Flock` and the following `verifyLock` are one step (the comment there says
why this loses nothing).  `Checked` is `Lease.check`; `GrantLease` repeats it
and lets a reader's gate go.  `BeginPurge`, `BeginFinish` and `FinishPurge` are
the tombstone, the receipt, and the five unlinkings one by one; `Open` is
initialization, with its early check of the receipt.  `Fail` lets any step of
an acquisition, a purge or an initialization end with an error, and `Crash`
ends a process anywhere.

**KeysetVault.**  The row and the item are separate variables on purpose.  `meta` and `raw` are a
client's copies: they are read in one step and used in a later one.  `native` is a
creation the store is serving, with the caller that still waits, or `Nobody`.
`Fail(c)` is the provider timeout, a failed lease or statement, and a cancelled
request at any step; the native call goes on.  `Exit` may or may not let the
native call of a dead process take effect.  Removing the database is one step:
the journal is removed first and the code's `HasKeyset` treats a missing
database as a deleted key.

**DriverPool.**  `pool[q]` is a pool object (`current` is membership in
`Driver.pools`; `live`, `approved`, `validating` as in the code; `moved` says
that `generation` changed since the audit in progress captured it).  `conn` is
a socket: open, *closing* (`IsClosed` holds but `CleanupDone` has not fired), or gone.
`op` is one call of `runNormalized`.  Each region under `d.mu` is one action;
dialling, auditing, working and closing sockets are outside.  `doomed` holds
the idle connections that `retireLocked` returned and `closePool` has not yet
closed.  `vouched` is a history variable: the connections an audit of their
pool still covers.

**ServiceLifecycle.**  A launch is its nonce: `record` (service.json) and `def`
(the service definition) of a root hold one, `job` and `proc` are one, and
`names` says which launch bound the socket a name stands for.  `dir` is the
runtime directory with an identity of its own, since `runtimeDir.valid`
compares inodes.  `ctl[c].pc` walks `EnsureManagement`, `stopLocked` and
`Uninstall`; the two share `stopLocked`, and `goal` says where it returns to.
Each look at the manager, each probe of a socket and each change of a file is a
step of its own.  `Abandon` is a controller's death or an error that leaves
things as they are, `Die` a service's.  Binding and listening are two steps, as
a connection in between is refused like one to a dead socket.

**ManagerWork.**  A call is a goroutine with a slot and a shared lease; a request
holds a management slot, reads under a short lease, unlocks the vault without one
and reads again.  `Refresh` is `Manager.refresh` with its invalidations;
`RefreshUnreadable` is its failure, which also happens when the caller's context
ended.  `LeaveQueue`, `QueueCancelled` and `QueueDeadline` are the three ends of
waiting in `admit`.  A section that takes a lease, reads and releases is one step.

**SecretService.**  A caller (`s[c]`) is one operation with its own bus
connection.  `pc` is its place, `coll` the collection it pinned, `pass` the
password in its hands with the challenge it was typed for, `after` where an
unlock returns to and `round` whether `find` runs for the second time.  A D-Bus
call and what the caller does with the result is one action; `Fails` lets any
call fail, also after it took effect.  `holder` and `setup` are the two bus
names that serve as locks.  `Return` closes the connection and so frees both.

**KeyringExchange.**  `x` is the handler with its reader goroutine (`parked` is
an answer the reader holds for the prompt), `cl` the command line with its own,
`down` and `up` the frames under way.  `PromptExpires` is the end of the
preparation time, `KeyringReturns` the handler leaving the operation behind when
its request ends, `PromptWithdrawn` the client's reader taking the prompt away.
A test reports one result per check; a mutation has none (`want`).

**McpSession.**  `Read*` are the guard's decisions about a line, made under its
mutexes; `calls` is what the SDK is running; `FindPending`, `Retire` and `Emit` are
the steps of `guard.Write` under `writeMu`, `Reject` and `EmitRefusal` those of
`guard.send` for a line that is refused: the reader holds the same mutex then.  The last
group is `Bridge`.  Its output relay takes what the socket holds (`RelayTakes`) and is
*writing* until stdout has taken all of it (`AgentReads`), which an agent that has
stopped reading never lets happen; meanwhile nobody drains the socket, and the writes of
the guard behind it may stay where they are, with `writeMu` in their hands.

**Installation.**  `disk` is what is left in the account, `proc[p].at` the step a
command stands at.  Each step writes one file, so that a command may fail or be
killed between any two (`MaxStops`).  Older installers' states, which a rerun has to
recover, are initial states; the user may edit the startup file, the command link
and the agent's entry (`MaxEdits`).  `startup` is the text of the startup file: at home, in
the backup an older installer moved it to, *remade* by the user while the
backup is there too, or lost.  `block` is Data Mate's block in it: ours,
ambiguous, or *left* by a removal that failed and only warned (`removeShell`).

## 3. Runs

| Run | Instance | Distinct states | What it shows |
|---|---|---|---|
| `rw_queue` | 4 goroutines, each reads, writes and cancels at will | 19,825 | counters exact, no lost wake-up, no overtaken writer, cancellation returns, waiters served, refinement |
| `state_locks` | 3 goroutines in 2 processes, 2 inodes per name, 2 identities | 481,286 | leases exclude, none past the tombstone, locks of an established root present, no stand-off, purge final |
| `keyset_vault` | 2 operations and an uninstaller, 2 connections, 2 keysets, 2 reservations, 3 revisions | 269,885 (symmetric) | retry, no replacement, reservation, readable credentials, a purge leaves no key in the store or a closed service |
| `driver_pool` | 2 operations, 2 pools, 2 sockets, 1 slot, limit 1, three accesses of two profiles | 815,432 (symmetric) | ownership, bound, expiry, eviction |
| `driver_audit` | 3 operations, 1 pool, 2 sockets, 2 slots | about 284,000 | vouching and the waking of waiters, a liveness property |
| `service_lifecycle` | 2 roots, one started, stopped and uninstalled, one started; 2 launches and 2 directories at a time | 1,293,154 | reachability, recording, truth of "stopped" |
| `runtime_marker` | the same | counterexample | section 7 |
| `manager_work` | 1 call, 3 requests, 2 profiles, 1 slot, 1 place to wait, 2 management slots, 1 context that ends | about 309,000 | slots, what work sees, edits, termination |
| `cancelled_refresh` | 2 calls on 1 profile, 1 request, 1 context that ends | counterexample | section 7 |
| `keyring_exchange` | 1 exchange, 1 rival of the same or another installation, 3 collections, 2 checks, 1 fault or foreign step | 1,189,461 (symmetric) | passwords, keyring and keyset, reports |
| `mcp_session` | 4 lines over 3 identifiers, 2 requests at a time, an agent that may stop reading | 808,987 | order and handshake, the table, answers, termination |
| `installation` | 3 commands in 2 processes, 2 that fail or die, 1 edit, 2 releases | 1,110,889 (symmetric) | traces, success, order, user content |

Why the bounds are enough to meet the interesting cases:

* *rw_queue*: the rules concern at most two readers that overlap, one writer
  that waits for them and one goroutine that arrives behind it.  The state is finite without a bound.
* *state_locks*: one actor that reads, one in its process that initializes and
  cleans up, one in another process that cleans up and writes: a purge meets
  readers, an initialization and its own retry.  Two inodes are what it takes
  for a name to be unlinked and created again under an opener that holds the
  old one; two installations what it takes for a purged identity to be followed
  by another.  Deadlock is not checked since nobody has to begin an operation.
* *keyset_vault*: two keysets let a retry generate a second one, or a
  replacement happen if the code allowed it; two reservations let the counter
  reach its limit with one unused; three revisions let a preview go stale.
  The instance may really stop: a purged root with no service has no step left.
* *driver_pool*: one slot makes operations wait for it, one pool as the limit
  makes every second profile evict the first, and two accesses of one profile
  make a pool be replaced while it is used.  Two operations are symmetric.
* *driver_audit*: an audit needs the one who audits, one who waits, and one who
  arrives between the end of the audit and the waking; two sockets let an
  audited one break while another survives.  Symmetry is not used, because of liveness.
* *service_lifecycle*: two launches are what a new service beside an orphan
  needs, or two roots that compete.  Nonces and directories nothing refers to
  are used again, so the number of launches one after the other is unbounded.
  Only one root's sessions are enabled; the roots' sockets are in directories
  of their own.  An idle system need not go on: deadlock is not checked.

* *manager_work*: one slot and one place make the queue fill and overflow; an
  edit, a replacement and a call meet on one profile; one context that ends is
  enough for each race between an end and a grant.  A second end would add only
  pairs of independent ends.
* *keyring_exchange*: two operations are what two setups, two creations or a
  creation and a purge take.  One fault or foreign step (a lock, a restart,
  another default, a timeout, an interrupt, a death, a failed call) can fall at
  any point; pairs of faults are not explored.
* *mcp_session*: four lines let an identifier be used, answered and used again
  while another is in flight and the bound of two is met; and an answer be blocked in a
  write while an answer and a refusal wait behind it.  The two liveness properties are
  stated with `[]<>`, which for conditions that stay true says what `~>` would and is
  cheaper to check.
* *installation*: three commands are an install, its retry or removal, and what
  comes after; two stops let a retry die as well.  The edit may fall between any two
  steps and concern any of the files that are the user's too.

Every property has a mutant of the code in its module that breaks it (an unsent
signal, a dropped check, a count that includes the caller, a timer armed on one
path only); the `mutants` list pairs them.

## 4. Fairness

* `RwQueue!FairQueue` has weak fairness of `Retry(g)` only: a goroutine whose
  channel is closed, or whose context has ended, is scheduled by the Go runtime
  and locks a mutex that is held for a few instructions.  Nobody is obliged to
  arrive, cancel **or release**: a lease may be held as long as its work takes.
  So `CancelReturns` holds under holders that never leave, and `Served` speaks
  of states in which nobody is in the way.
* `DriverPool!Fairness` lets a waiter whose channel is closed run and an audit
  end.  An audit is a statement on a socket with its operation's context and
  with keep-alive: the server answers or the connection breaks.  The operation's own deadline is *not* used: waiters have to be woken by
  the audit's end in each of its outcomes.
* `ManagerWork!Spec` lets the goroutines of the service run (`Running`): whoever
  can go on does, readers leave when their work is done, and a deadline is never
  needed.  Calls and requests need not arrive.
* `McpSession!Spec` lets the guard's critical sections, the session's end and the
  relays of the bridge proceed once they can; a handler of the SDK ends because the
  manager's work does.  Nothing is assumed of the agent, nor of the service that
  closes sessions.  In particular `AgentReads` is not fair: output has no timer
  (DESIGN.md:503), so an agent that stops reading blocks the output relay, then the
  socket, then the guard's write and every answer behind its mutex.  A write
  (`Emit`, `EmitRefusal`) is obliged to end only while the relay drains the socket or
  the socket is closed (`Drains`).  `EveryCallAnswered` is therefore claimed of agents that
  always read again (`AgentKeepsReading`).  `SessionEnds` claims without it that the
  service's end returns once the socket is closed, and that the bridge
  returns once it has closed its streams.  That a service's close makes the
  bridge return needs it again: a relay blocked in an unread stdout does not see
  the end of the socket, as the test at mcp_test.go:597 says.
* `StateLocks`, `KeysetVault`, `ServiceLifecycle`, `KeyringExchange` and `Installation` have no fairness.  `flock` is polled every
  5 ms, and no order between processes is promised, so no progress is claimed
  beyond `NoStandoff`.

## 5. Proofs

`tlapm` checks the proof modules to the last leaf.

| Theorem | Statement |
|---|---|
| `CountsExactThm` | the queue's types and counters, for any finite set of goroutines |
| `NoLostWakeupThm` | nobody sleeps on the current channel while the queue would admit it |
| `WriterNotOvertakenThm` | while a writer waits, readers only leave |
| `ImplementsThm` | every behaviour of the queue is one of `ReaderWriter` |
| `NoLeasePastTombstoneThm` | no ordinary lease on a tombstone, a foreign or an unestablished identity |
| `EstablishedHasLocksThm` | an established installation has its three lock files |
| `PurgeIsFinalThm` | a purged identity stays one until it is gone; nothing is initialized beside a receipt |
| `NoStandoffThm` | of those who hold or want a lock, one can always go on |
| `LeasesExcludeThm` | the leases of all processes implement `ReaderWriter` |
| `RetryFindsItemThm` | the OS store holds, and is about to hold, only the keyset the row names |
| `NeverReplacedThm` | a ready keyset is never replaced, nor its usage count lowered |
| `UsageReservedThm` | nothing is encrypted that was not reserved by an earlier commit |
| `CredentialsReadableThm` | every credential is of the row's keyset and has its reservation |
| `PurgeLeavesNoKeyThm` | after a purge no keyset is left or on its way; a closed repository holds none |
| `JobRecordedThm` | a job is in its root's record and definition as long as it exists |
| `ServingReachableThm` | whoever serves can be reached under its socket names; nobody unlinks them |
| `StoppedMeansStoppedThm` | a reported stop is true, and leaves nothing a start would have to clear |
| `UnusedPoolsExpireThm` | a current pool nobody uses has a timer |
| `EvictionSparesWorkThm` | no timer and no other profile's checkout retires a pool under an operation |
| `EveryConnectionOwnedThm` | every open connection is held, idle in a current pool, or about to be closed |
| `ConnectionsBoundedThm` | a current pool has no more open connections than slots; none is shared |
| `VouchedBeforeUseThm` | work is done only on connections an audit of their pool covers |
| `SlotsBalancedThm` | every token in the manager's channels is that of a goroutine that will give it back |
| `WorkSeesPublishedThm` | work is done on the published profile; no changed profile keeps its pool |
| `EditsReplaceWhatTheySawThm` | an edit replaces the very profiles its user saw, and no others |
| `TableMatchesWorkThm` | the guard's table is what the SDK runs, within the limit |
| `OneAnswerEachInOrderThm` | the answers under one identifier go out in the order of its requests; the handshake comes first |
| `TracesAreRecordedThm` | wherever commands stop, what they put into the account is on record, but for a block whose removal failed with a warning |
| `SuccessIsCompleteThm` | an install that succeeds left one installation of its release, an uninstall none of its files and no job, a purge nothing of the purged identity, a start an owned registration of its identity |
| `ExecutableLastThm` | the executable goes after the job, the agents' entries, the link and the key |
| `UserContentKeptThm` | no command changes another program's command link or an edited agent entry, or loses a startup file of which only the backup exists |
| `PasswordsKeepTheirPurposeThm` | a password serves the prompt it was typed at and no other |
| `OneKeyringOneKeysetThm` | all operations work in one keyring, with one keyset for each account |
| `SuccessIsWholeThm` | who is told of success has every result and a keyset |

Each rests on an inductive invariant, described below.

*Assumptions.*  `RwQueue`: the set of goroutines is finite.  `StateLocks`:
every actor has a process and a set of operations, 0 is not an inode, and
`MaxInstallations` is a natural number (it may be any).  Nothing is assumed of
the number of actors, processes or inodes.  `KeysetVault`: `Nobody` is not a
client and the three limits are natural numbers; the sets of clients and of
connections may be infinite.  `ServiceLifecycle`: every controller has a root and
a set of operations, and `None` is neither a nonce nor a directory; there may be
any number of roots, controllers per root, launches and directories.
`DriverPool`: slots and pool limit are positive, and `NoConn` is not a
connection; nothing of the number of operations, pools, profiles or connections,
which may be infinite sets.  `ManagerWork`: calls, clients and
checks are different things, the limits are natural numbers, and a request names
a profile if and only if its operation needs one.  `McpSession`: identifiers and
the limit are positive numbers, 0 being the absent identifier.  `Installation`: the
processes are finitely many, since an inode or identity is new when it differs
from all that some process remembers; releases are positive numbers, 0 being the
absent one.  `SecretService` and `KeyringExchange`: the other program's collection is
a collection, the path `/` is not, `NoOne` is not a caller, a refusal is not an empty
password, and the request's operation is a caller; nothing of how many callers,
accounts, collections, targets, attempts or events there are.

*Argument for the queue.*  `QueueTypeOK /\ CountsExact /\ Exclusion` is inductive:
exactness alone is not, since a release by a reader is only exact if no writer
stands beside it.  The lemma `TurnCounts` says what one turn of the loop does to
the counters and is used by `Arrive` and `Retry` alike.  `NoLostWakeup` is a
second invariant on top: a step that makes somebody admissible either signals
or was itself the one admitted.  The refinement has one step per action: a grant
maps to an acquisition, a release to `Leave`, everything else stutters.

*Argument for the leases.*  None of the properties is inductive.  `IInv` adds
which flocks an actor holds at each point (`PcLocks`), that two flocks on one
inode are compatible (`FlocksCompatible`), and that a held flock is on the
inode its name stands for, except for names its holder has itself unlinked
(`LockedNamed`).  Two holders of one file thus meet on one inode, which gives
`LifecycleOnce` and `LiveExclusion`; with these, each action preserves each
conjunct, one lemma per group of actions.  `LeasesExclude` follows by a mapping in
which a crash or the removal of `lifecycle.lock` is a `Leave`.  `NoStandoff`
follows from `PcLocks`: whoever waits waits for one further on in the order
lifecycle, gate, state, or for a writer of its process in the queue of the state
lock, and from the end of that order backwards nobody is left to wait for.

*Argument for the vault.*  The row, the OS item and a caller's copies of both are
written by different transactions, so no property is inductive.  `IInv` adds that
one caller is past the gate and one inside the write lease (`Exclusive`), that
the copies of the one past the gate agree with the row (`MetaFits`), that the
one inside the write lease still has an unused reservation (`Encrypting`), that a
creation in the store is its caller's (`NativeServes`), and that the uninstaller
reaches key and database only after the service ended (`Down`).  The last is
what keeps a caller's copy from outliving the row: the lifecycle lease is not
needed for it, since `Stop` precedes the purge.  `StepWriters` says which steps
write which variable and `ClientMoves` what a step does to one caller; with these
each part of `IInv` looks only at the steps that can disturb it.
`CredentialsReadable` needs a count: the connections with credentials are at most
the encryptions made (`Counted`), and these at most the reservations.

*Argument for the service.*  A controller unlinks names and reports from what it
looked at some steps before.  `IInv` adds that the lifecycle lease of a root has
one holder (`OneHolder`), that from the removal of the job to the next launch
the holder's root has no job (`NoJob`), that a process which starts is the job
(`Launched`), and that a process whose directory is the root's present one is the
one the root recorded (`Owns`).  So while the holder is between job and launch
nobody starts; once the management socket was refused nobody serves either
(`Swept`), and the holder may unlink the session's socket too.  `Owns` keeps a
process that ends late from removing the names of a later launch: it never has
the later one's directory.  Its inductive step needs that a directory is made
under a name no living process holds open, as `FreshDirs` says.  That a launch
gets an unused nonce is not needed.  `StoppedMeansStopped` follows: without a record nobody owns the directory,
so nobody of the root listens.

*Argument for the driver's pools.*  The driver retires an idle pool and picks an
eviction victim by `users`, which `checkout` raises and `release` lowers under
the mutex, while everything between happens outside it.  `IInv` says that
`users` is the number of operations between the two (`UsersCounted`), also in a
pool retired meanwhile.  A timer that fired before the pool was joined again
therefore finds it used, and a pool with an operation in it is no victim.  Of the
twenty-odd actions only a checkout, a release, a timer and a retirement touch
these fields; `OrdinarySteps` disposes of the others at once.

*Argument for the driver's connections.*  A socket changes hands between
operations, idle sets and the closers of retired pools, under the mutex, but it is
dialled, audited and closed outside.  `CInv` says that it is in one place
(`OnePlace`), of the pool that place belongs to (`Belongs`), and that a pool out of
the map has nothing idle (`RetiredBare`): so an operation that returns its socket
late, to a pool retired meanwhile, has to close it itself.  `EveryConnectionOwned`
is inductive only with these.  For the bound, `Fits` counts: the idle sockets
and the operations that have or dial one are no more than the slots; `slots` is
the number of operations that have taken one.  For the audit, `Registered` says that
a pool remembers every socket that awaits its audit before the audit ends, and
`Vouched` that an approval covers all a pool remembers.  An approval is dropped
when the remembered sockets have closed, so a new socket is never vouched for by one
that is gone.

*Argument for the manager.*  A token is taken in one function and given back in
another.  `Tokens` says that in each step the tokens of one goroutine follow it
from its place to the next, which needs that its job fits its place (`JobFits`):
an edit never gets to `lease`, a check always ends in `report`.  Only `Spawn` moves
several goroutines, and those are idle because a batch starts once (`ChecksWait`).
For the profiles, `LeaseFits` says that the shared holders are those in `ready`
and `working` and the exclusive one is in `publishing`; so nothing is published while
somebody works, and the manager's snapshot is the published one (`SnapFits`).  For
the pools it is necessary that no batch of checks was *ever* cancelled: such a batch
may leave the snapshot empty, and a pool checked out then survives the next edit,
also when the batch has long ended (two slots are enough).  An edit compares
only a revision number, read before the unlock and the test.  `SeenFits` says that
what anybody saw is never of a later revision than the store, and equal to it when the
number is; so the equal number at the publication means equal profiles.

*Argument for the MCP session.*  An identifier leaves the table before its
answer is on the wire, so the agent's next request may take it in between.  Who
left the table still has `writeMu` (`Mutex`); whoever takes the identifier then
bears a later line and has to wait for the mutex to answer (`Ordered`).  `Table`
makes the entries and the live calls correspond one to one, and `Counted` turns
that into the limit.  `Greeted` says that of the attempts to initialize at most one
is under way, and that `initSent` is set exactly when a successful one has left
the table; no other work starts before.

*Argument for the installation.*  A command reads the inventory and the identity
once and relies on them for up to fifteen steps, while other processes run.  The
proof is by rely and guarantee.  Who has `distribution.lock` *and whose descriptor is
still the file of that name* is alone with inventory, executable, link and block
(`Locked`); who has the lifecycle lease is alone with identity, job, key and
registration (`Leased`).  `Respects` says what a step may touch without either
lock, and is proved action by action; `OthersKeep` turns it into what every other
command may rely on (`Kept`).  `Progress` then says, by the step a command stands
at, what it has read (`Read`), established (`Home`, `Installed`), removed
(`Removed`) and registered (`Registering`).  A purge unlinks the lock before it ends: from
there it has no claim to it (`Unlinked`), and nothing it still does needs one.  What
it promises at its end must survive whatever other commands do by then: `NotRevived`
says that no step of theirs brings back the identity it purged, nor a receipt of it.

*Argument for the keyring and the exchange.*  `IInv` has a half for each.
`Operations` says of every caller what it holds (`Holds`): while it runs, its
account's bus name, and from the first look at the default alias to the
confirmation, `KeyringSetup`.  So nobody else makes an item for the account between the search that
found none and the creation (`Creating`), and one setup at a time gets to `SetAlias`.
`Keyring` says that nobody is inside a collection, other than the other program's,
while an alias may still be set: the third look at the alias is after the collection
is made, and whoever entered by an alias that existed would have been seen there.  A caller's
step is then a return (`ReturnKeeps`), a move that enters nothing (`MoveKeeps`), a
step into or within a setup (`SetupKeeps`), or one of the three that change what
all share.  `Exchange` says that a challenge's ID is the latest
(`Challenges`), that what bears it, in either direction, is about what the prompt
asked while the prompt waits (`Answering`), and that a result is still due, on its way or reported, the
reply being last (`Reports`).  So a late answer finds no pending ID, and a reply of success
finds everything reported.

*Only model-checked*: all liveness (`CancelReturns`, `Served`, `WaitersWoken`,
`EveryCallAnswered`, `SessionEnds`, `EveryRequestEnds`).  Liveness under fairness, and
`ENABLED`, are out of the prover's reach, and so is induction over recursively
defined data.  Every safety property that a passing run checks is proved.

## 6. Assumptions and omissions

* **OS store** (external).  It is taken to serve the calls of one installation
  in order.  On macOS `nativeGate` serialises them and is kept by an abandoned
  call until it ends; on Linux a call owns a bus name of the account
  (`secretservice_linux.go:83`), which is requested without queueing.  A call that
  was abandoned and takes effect *after* a later `Load` would break
  `RetryFindsItem` (that is the mutant `Load_Unserialized`), so this assumption
  is necessary and is worth knowing.
* **SQLite** (external).  A commit is atomic; one that reports an error may or
  may not have happened.
* **Kernel**.  `flock` belongs to the descriptor and ends with the process; an
  inode number is not reused while something refers to it.
* **Publication of one document** is atomic here (`rename`); the temporary
  files and syncs of `storage.go` are one step with an uncertain outcome.
* `BeginPurge` writes the identity its store read when the lease was taken; the
  model writes the present one with the tombstone set.  Under the lease they
  differ at most in the distribution flag, which is not modelled.
* **launchd and systemd** (external).  A job is launched at once or not at all,
  stays while its process lives and, under launchd, afterwards.  The manager may
  lose the job of a process that serves (the orphan of
  `service_test.go`), not of one that starts.
* **Handshake.**  Build, protocol and peer checks, and the PID in the record,
  are left out: each refusal is an `Abandon`.  Entries of others in the runtime
  directory, which keep it from being removed, are left out too.
* **Pools**: cursors, query contents, and the queries of the audit are left
  out.  The audit's verdict is nondeterministic.
* **Secret Service** (external).  A provider that has lost its bus name answers
  no more calls, and calls of one caller that were sent before its connection
  closed take effect before a later caller's.  The macOS Keychain has no module
  of its own: `KeysetVault` has its interface.
* **Frames** arrive whole, in order, and what was written before an end closed
  can still be read.  Their encoding and limits are left out.
* **Manager**: the status a reply carries, host keys and invalid profiles are
  left out; each profile has credentials.
* **Installation**: one agent client, one startup file.  Receipts that older releases kept
  in the home directory and staged copies an installer left are left out.  So is an
  edit between the look at a file and its replacement: `shellChanges` reads the startup file,
  the inventory is saved, and then the text read is written back with its block, so
  what the user wrote in between is gone.  A client that is missing or disabled, which
  start skips, and an identical entry the user made himself, which start finds ready and does not
  record (ownership.go:147), are left out: what `SuccessIsComplete` says of start is about an
  installed client without such an entry.
* **MCP**: the socket's buffer is abstract, a write to an undrained socket may or
  may not end; failures to duplicate stdout or to make stdin cancellable, with which the bridge
  does not begin, are left out.
* **Size**: `Slots`, `PoolLimit` and `MaxReservations` are 8, 16 and 1,000,000
  in the code.
* Not modelled at all: cryptography (Tink), TLS, SSH and SOCKS5 handshakes,
  SQL text and the syntax tree the guard walks, codecs, terminal output, shell
  text, signatures and archives of releases, the release scripts.  They are
  per-value functions or other people's protocols with no state that survives a
  call.

## 7. Divergences between document and code

Two of these have runs that find them; the others were met while modelling.

**Cancelled refresh** (`cancelled_refresh`).  `Manager.refresh` (manager.go:57)
reads the profiles under its caller's context and takes every failure for a broken
configuration.  A caller cancelled between its lease and that read retires all
pools, and with them the queries others have in progress;
`CancellationSparesOthers` is violated so.  CHANGELOG.md:17 promises to
*preserve other in-flight calls*.  A pool checked out after that failure is also not
invalidated by the next edit, since the snapshot it would be compared with is
empty; it goes with its idle timer or the next checkout.  `WorkSeesPublished`
therefore speaks of states in which no context has ended; a batch of checks
that was cancelled counts as one (`aborted` is never reset).

**The runtime directory's marker** (`runtime_marker`).  `specs/DESIGN.md:688`
promises that after *arbitrary interruption* rerunning completes the cleanup.
The directory is made before its marker is written, and the marker is removed
before the directory; a controller that dies in between leaves a directory that
every later operation of the root refuses.  `RuntimeRecognized` is violated so.

**A startup file made again.**  An interrupted installer of an
older release leaves the user's startup file in a backup.  `recoverLegacyShell` is to
*recover its unrelated content before removing old staging* (install.go:377), but it moves
the backup home only when the startup path is absent (381), and the cleanup
deletes the backup in either case (332).  If the user, who found no startup file, has made
one in the meantime, the backup's text is lost; the model reaches this (`startup = "lost"`,
after one edit).  `UserContentKept` claims what remains true, that the backup survives
while it is the only copy.

**Connections per profile.**  `specs/DESIGN.md:398` promises *at most eight
connections per profile*.  The code bounds each **pool object**: `retireLocked`
takes a pool out of the map, its connections are closed later, and meanwhile the
next `checkout` makes a new pool with slots of its own.  What the code keeps
is `ConnectionsBounded`.

**Another root's job.**  `specs/DESIGN.md:675` promises that *stop/uninstall for
one root cannot boot out another root's job*.  `stopLocked` inspects the job
(lifecycle.go:77) and then boots out the label (89), which is the same for every
root; the lifecycle lease is per root, so in between the inspected job may end
and another root may start.  On Linux `Bootout` looks at the root once more before
it stops the unit by name, which narrows the window.

**A late registration.**  `Controller.Start` enables sessions under one lifecycle
lease and registers agents under a second (lifecycle.go:479), which checks only
that the identity still names an executable.  An uninstall without `--purge` keeps
that identity; if it runs between the leases, an agent entry is added for an
executable that is gone.  DESIGN.md:189: *Start serializes these operations
under the lifecycle lock*.

**An empty method.**  `guard.Read` (session.go:147-155) refuses a call without a
method before it looks for a duplicate identifier, so an identifier in use gets a
second answer; DESIGN.md:501 has duplicates dropped.

**A purge that dies late.**  Between the end of the purge and the removal of
`distribution.json` (uninstall.go:107-119) a crash leaves an inventory without its
identity.  The next install makes a new identity, publishes the executable and
then reports a conflict (install.go:264), and so does each one after it until
`uninstall --purge`, although DESIGN 13.4 has a rerun complete.

**Smaller ones in `Installation`.**  A crash between the publication of the
executable (install.go:247) and of the inventory (274) lets an older installer
replace the newer binary.  An entry identical to the intended one that the user
adds meanwhile is adopted as owned (ownership.go:140).  An `uninstall --purge` that
could not remove the startup block says so (uninstall.go:81) and deletes the inventory
all the same (119), so that no later command knows of the block; `DESIGN.md:684`
describes such a retained block for ambiguous ones only.  An installer killed after
staging leaves its copy in `bin/`.

## 8. Plan

1. `cli/db_transfer.go`: the import that chains each row's edit on the revision the
   one before it published, as a client of `ManagerWork`.
2. The row and byte budget of `executeQuery` as a function against a reference definition.
3. The Keychain's status codes as a second provider beside `SecretService`.
