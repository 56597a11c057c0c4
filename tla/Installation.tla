---------------------------- MODULE Installation ----------------------------
(***************************************************************************)
(* The files an installation leaves in a user account, and the commands    *)
(* that publish and remove them (internal/distribution, the installation   *)
(* side of internal/service and internal/config, internal/agent):          *)
(*                                                                         *)
(*   install    Engine.Install, with Controller.InstallBinary inside it    *)
(*   uninstall  Engine.Uninstall, with Controller.Uninstall inside it      *)
(*   purge      the same with --purge                                      *)
(*   start      Controller.Start: the service, then the registration       *)
(*                                                                         *)
(* Every step writes one file or takes one lock, so that a command can     *)
(* fail or be killed between any two.  The lifecycle lease is one lock     *)
(* here: StateLocks has its files, and shows that the purging identity and *)
(* its terminal receipt act as one.  There is one agent client and one     *)
(* startup file.                                                           *)
(***************************************************************************)
EXTENDS Integers, FiniteSets

CONSTANTS
    Procs,          \* processes that run commands
    NoProc,
    Versions,       \* releases of the installers
    MaxOperations,  \* bound: commands in a behaviour
    MaxStops,       \* bound: commands that fail or die at an arbitrary step
    MaxEdits        \* bound: changes by the user

ASSUME VersionsAssumption == Versions \subseteq Nat \ {0}
ASSUME ProcsAssumption == IsFiniteSet(Procs) /\ NoProc \notin Procs
ASSUME BoundsAssumption == MaxOperations \in Nat /\ MaxStops \in Nat /\ MaxEdits \in Nat

VARIABLES
    disk,    \* what the file system, the keyring and the agent's client keep
    proc,    \* the command each process runs and what it has read
    lease,   \* the process that holds lifecycle.lock
    spent    \* how much of each bound is used

vars == <<disk, proc, lease, spent>>

NoIdentity == [id |-> 0, purging |-> FALSE, exe |-> FALSE, pending |-> FALSE]
NoReceipt == [id |-> 0, release |-> 0, blocks |-> FALSE, legacy |-> "none"]
Idle == [at |-> "idle", op |-> "none", version |-> 0, fd |-> 0, held |-> FALSE,
         inv |-> NoReceipt, id |-> 0]

Fresh ==
    [root |-> FALSE,           \* the installation directory
     lock |-> 0,               \* inode of distribution.lock, 0 when it is absent
     identity |-> NoIdentity,  \* installation.json (purge.json in its place at the end)
     bin |-> 0,                \* the executable, by release
     receipt |-> NoReceipt,    \* distribution.json
     command |-> "none",       \* ~/.local/bin/data-mate: none, ours or the user's other
     loaders |-> FALSE,        \* shell/loader.* and shell/completion.*
     startup |-> "home",       \* the text of the user's startup file: home; backup, where an
                               \* older installer moved it; remade, there too, and the user
                               \* has made the file again since; lost
     block |-> "none",         \* its Data Mate block: none, ours, ambiguous, or left by a
                               \* removal that failed and warned
     entry |-> "none",         \* the agent's data-mate server: none, ours or edited
     record |-> "none",        \* registrations.json: none, intent or owned
     service |-> FALSE,        \* the job runs and service.json records it
     key |-> 0]                \* the keyring item, by the installation it is for

Oldest == {v \in Versions : \A w \in Versions : v <= w}

\* An installation of an older release, interrupted while it had the startup
\* file moved to its backup, or while it was purging.
Older(v, kind) ==
    [Fresh EXCEPT !.root = TRUE, !.bin = v, !.command = "ours",
                  !.identity = [id |-> 1, purging |-> FALSE, exe |-> TRUE, pending |-> kind = "staged"],
                  !.receipt = [id |-> 1, release |-> v, blocks |-> TRUE, legacy |-> kind],
                  !.startup = IF kind = "staged" THEN "backup" ELSE "home"]

Init ==
    /\ disk \in {Fresh, [Fresh EXCEPT !.block = "ambiguous"]}
                \cup {Older(v, kind) : v \in Oldest, kind \in {"staged", "purging"}}
    /\ proc = [p \in Procs |-> Idle]
    /\ lease = NoProc
    /\ spent = [operations |-> 0, stops |-> 0, edits |-> 0]

(***************************************************************************)
(* Steps                                                                   *)
(***************************************************************************)
At(p, step) == proc[p].at = step

Goes(p, step) == proc' = [proc EXCEPT ![p].at = step]

\* A file of the installer: written beside its name, then renamed.
Writes(p, step, files) == Goes(p, step) /\ disk' = files /\ UNCHANGED <<lease, spent>>

\* A document of the store.  An error after its rename leaves it published: that
\* is this step, and then Stops.
Publishes(p, step, files) == Writes(p, step, files)

\* The command returns or dies: its memory is gone and the kernel drops its locks.
Ends(p) ==
    /\ proc' = [proc EXCEPT ![p] = Idle]
    /\ lease' = IF lease = p THEN NoProc ELSE lease
    /\ UNCHANGED spent

First(op) == CASE op = "install" -> "check" [] op = "start" -> "store" [] OTHER -> "open"

Begin(p) ==
    /\ At(p, "idle") /\ spent.operations < MaxOperations
    /\ \E op \in {"install", "uninstall", "purge", "start"}, v \in Versions :
         /\ op = "start" => disk.bin = v
         /\ op \in {"uninstall", "purge"} => v \in Oldest
         /\ proc' = [proc EXCEPT ![p] = [Idle EXCEPT !.op = op, !.version = v, !.at = First(op)]]
    /\ spent' = [spent EXCEPT !.operations = @ + 1]
    /\ UNCHANGED <<disk, lease>>

\* A step fails, the caller cancels, or the process is killed.
Stops(p) ==
    /\ ~At(p, "idle") /\ spent.stops < MaxStops
    /\ proc' = [proc EXCEPT ![p] = Idle]
    /\ lease' = IF lease = p THEN NoProc ELSE lease
    /\ spent' = [spent EXCEPT !.stops = @ + 1]
    /\ UNCHANGED disk

(***************************************************************************)
(* The distribution lock: opened, locked, and compared with what its name  *)
(* means by then, since a purge unlinks it while it holds it               *)
(***************************************************************************)
Unused(used) == CHOOSE n \in 1..(Cardinality(used) + 1) : n \notin used

OpenLock(p) ==
    /\ At(p, "open")
    /\ IF disk.root
         THEN \E fd \in {IF disk.lock # 0 THEN disk.lock
                         ELSE Unused({proc[q].fd : q \in Procs} \cup {0})} :
                /\ disk' = [disk EXCEPT !.lock = fd]
                /\ proc' = [proc EXCEPT ![p].fd = fd, ![p].at = "lock"]
                /\ UNCHANGED <<lease, spent>>
         ELSE Ends(p) /\ UNCHANGED disk

SameFile_Unchecked(p) == TRUE
SameFile(p) == disk.lock = proc[p].fd

TakeLock(p) ==
    /\ At(p, "lock")
    /\ \A q \in Procs : proc[q].held => proc[q].fd # proc[p].fd
    /\ IF SameFile(p)
         THEN /\ proc' = [proc EXCEPT ![p].held = TRUE,
                            ![p].at = IF proc[p].op = "install" THEN "recheck" ELSE "load"]
              /\ UNCHANGED <<lease, spent>>
         ELSE Ends(p)
    /\ UNCHANGED disk

(***************************************************************************)
(* The lifecycle lease                                                     *)
(***************************************************************************)
\* config.Open: makes an identity where there is none.
OpenStore(p) ==
    /\ At(p, "store") /\ lease = NoProc
    /\ IF disk.root
         THEN \E id \in {IF disk.identity.id # 0 THEN disk.identity.id
                         ELSE Unused({0, disk.receipt.id, disk.key} \cup {proc[q].id : q \in Procs})} :
                /\ disk' = [disk EXCEPT !.identity.id = id]
                /\ proc' = [proc EXCEPT ![p].id = id, ![p].at = "lease"]
                /\ UNCHANGED <<lease, spent>>
         ELSE Ends(p) /\ UNCHANGED disk

\* Store.Lifecycle: the identity is read again under the lock.
Current(p) == disk.identity.id = proc[p].id

Admitted(p) == proc[p].op = "purge" \/ ~disk.identity.purging

TakeLease(p, from, to) ==
    /\ At(p, from) /\ lease = NoProc
    /\ IF Current(p) /\ Admitted(p)
         THEN Goes(p, to) /\ lease' = p /\ UNCHANGED spent
         ELSE Ends(p)
    /\ UNCHANGED disk

StopService(p, to) == At(p, "stop") /\ Writes(p, to, [disk EXCEPT !.service = FALSE])

(***************************************************************************)
(* install                                                                 *)
(***************************************************************************)
CommandTaken == disk.command = "other"

Refuses(p) ==
    \/ disk.receipt.legacy = "purging"
    \/ disk.receipt.release > proc[p].version
    \/ CommandTaken

Check(p) ==
    /\ At(p, "check")
    /\ IF Refuses(p)
         THEN Ends(p) /\ UNCHANGED disk
         ELSE Writes(p, "open", [disk EXCEPT !.root = TRUE])

\* The identity of a recorded installation must still be that one.
Foreign(p) ==
    /\ disk.receipt.id # 0 /\ disk.identity.id # 0
    /\ disk.receipt.id # disk.identity.id \/ disk.identity.purging

Recheck(p) ==
    /\ At(p, "recheck")
    /\ disk.receipt.id # 0 /\ disk.identity.id # 0 => lease = NoProc
    /\ IF Refuses(p) \/ Foreign(p)
         THEN Ends(p)
         ELSE /\ proc' = [proc EXCEPT ![p].inv = disk.receipt, ![p].at = "recover"]
              /\ UNCHANGED <<lease, spent>>
    /\ UNCHANGED disk

\* The receipt records a change of the startup file, with its backup.
Moved(p) == proc[p].inv.legacy # "none" /\ proc[p].inv.blocks

Recovered_Never(p) == {disk.startup}

\* recoverLegacyShell: a startup file an older installer had moved comes back,
\* unless there is a file of its name.  One that the user has made since may
\* be there or be deleted again.
Recovered(p) ==
    IF Moved(p) /\ disk.startup = "backup" THEN {"home"}
    ELSE IF Moved(p) /\ disk.startup = "remade" THEN {"home", "remade"}
    ELSE {disk.startup}

\* cleanLegacy: the recorded staging and backup names are removed.
Cleaned(p) ==
    IF Moved(p) /\ disk.startup \in {"backup", "remade"} THEN "lost" ELSE disk.startup

Recover(p, from, to) ==
    /\ At(p, from)
    /\ \E startup \in Recovered(p) : Writes(p, to, [disk EXCEPT !.startup = startup])

\* LifecycleLease.InstallBinary: the identity names the executable before the rename.
Bind(p) == At(p, "bind") /\ Publishes(p, "rename", [disk EXCEPT !.identity.exe = TRUE])

Rename(p) == At(p, "rename") /\ Writes(p, "settle", [disk EXCEPT !.bin = proc[p].version])

\* SetDistributionPending, with the lease; Controller.InstallBinary then returns.
Settle(p) ==
    /\ At(p, "settle")
    /\ disk' = [disk EXCEPT !.identity.pending = FALSE]
    /\ IF proc[p].op = "install"
         THEN Goes(p, "adopt") /\ lease' = NoProc
         ELSE Goes(p, IF proc[p].op = "purge" THEN "tombstone" ELSE "unlink") /\ UNCHANGED lease
    /\ UNCHANGED spent

Adopt(p) ==
    /\ At(p, "adopt") /\ lease = NoProc
    /\ IF proc[p].inv.id \in {0, disk.identity.id}
         THEN /\ proc' = [proc EXCEPT ![p].id = disk.identity.id, ![p].at = "save"]
              /\ disk' = [disk EXCEPT !.startup = Cleaned(p)]
              /\ UNCHANGED <<lease, spent>>
         ELSE Ends(p) /\ UNCHANGED disk

Save(p) ==
    /\ At(p, "save")
    /\ Writes(p, "link", [disk EXCEPT !.receipt =
                [id |-> proc[p].id, release |-> proc[p].version,
                 blocks |-> proc[p].inv.blocks, legacy |-> "none"]])

Link(p) ==
    /\ At(p, "link")
    /\ IF CommandTaken
         THEN Ends(p) /\ UNCHANGED disk
         ELSE Writes(p, "loaders", [disk EXCEPT !.command = "ours"])

\* Completions and loaders; a failure only warns.
WriteLoaders(p) ==
    /\ At(p, "loaders")
    /\ \E loaders \in {TRUE, disk.loaders} : Writes(p, "shell", [disk EXCEPT !.loaders = loaders])

\* One complete pair of markers, or none.
Replaceable == disk.block # "ambiguous"

\* The path is on record before the block is written.  --no-shell, an unknown
\* shell and ambiguous markers leave the startup file alone.
RecordBlock(p) ==
    /\ At(p, "shell")
    /\ \E edit \in BOOLEAN :
         IF edit /\ Replaceable
           THEN Writes(p, "block", [disk EXCEPT !.receipt.blocks = TRUE])
           ELSE Writes(p, "finish", disk)

\* The text that was read with the path is written; a failure only warns.
WriteBlock(p) ==
    /\ At(p, "block")
    /\ \E block \in {"ours", disk.block} : Writes(p, "finish", [disk EXCEPT !.block = block])

Finish(p) == At(p, "finish") /\ Ends(p) /\ UNCHANGED disk

(***************************************************************************)
(* uninstall and purge                                                     *)
(***************************************************************************)
\* Without an identity nothing may be deleted; an executable is then unresolved.
Orphaned == disk.identity.id = 0 /\ disk.bin # 0

Load(p) ==
    /\ At(p, "load")
    /\ IF \/ disk.receipt.legacy = "purging" /\ proc[p].op # "purge"
          \/ Orphaned
         THEN Ends(p)
         ELSE /\ proc' = [proc EXCEPT ![p].inv = disk.receipt, ![p].id = disk.identity.id,
                            ![p].at = IF disk.identity.id = 0 THEN "files" ELSE "lease"]
              /\ UNCHANGED <<lease, spent>>
    /\ UNCHANGED disk

Recorded == disk.record # "none"

\* The client's own command, which may fail or be killed before or after its effect.
RunsCLI(before, after) == {before, after}

Unregister_LeavesEdited(p) ==
    /\ At(p, "agents")
    /\ IF ~Recorded \/ disk.entry = "edited" THEN Writes(p, "files", disk)
       ELSE Writes(p, "forget", [disk EXCEPT !.entry = "none"])

\* RemoveOwned: a recorded entry is removed only as it was written.
Unregister(p) ==
    /\ At(p, "agents")
    /\ \/ ~Recorded /\ Writes(p, "files", disk)
       \/ Recorded /\ disk.entry = "edited" /\ Ends(p) /\ UNCHANGED disk
       \/ /\ Recorded /\ disk.entry # "edited"
          /\ \E entry \in RunsCLI(disk.entry, "none") :
               IF entry = "none"
                 THEN Writes(p, "forget", [disk EXCEPT !.entry = entry])
                 ELSE Ends(p) /\ UNCHANGED disk

Forget(p) == At(p, "forget") /\ Publishes(p, "files", [disk EXCEPT !.record = "none"])

\* removeShell, for the recorded paths.  A startup file that cannot be read or
\* written is a warning, and the command goes on.
RemoveBlock(p) ==
    /\ At(p, "unshell")
    /\ \E block \in IF proc[p].inv.blocks /\ disk.block \in {"ours", "left"}
                     THEN {"none", "left"} ELSE {disk.block} :
         Writes(p, "uncommand", [disk EXCEPT !.block = block])

RemoveCommand(p) ==
    /\ At(p, "uncommand")
    /\ Writes(p, "clean", [disk EXCEPT !.loaders = FALSE, !.command =
                IF disk.command = "ours" THEN "none" ELSE disk.command])

CleanLegacy(p) ==
    /\ At(p, "clean")
    /\ Writes(p, IF proc[p].id = 0 THEN "record" ELSE "settle", [disk EXCEPT !.startup = Cleaned(p)])

Tombstone(p) == At(p, "tombstone") /\ Publishes(p, "key", [disk EXCEPT !.identity.purging = TRUE])

DeleteKey(p) ==
    /\ At(p, "key")
    /\ Writes(p, "unlink", [disk EXCEPT !.key = IF @ = disk.identity.id THEN 0 ELSE @])

\* RemoveBinary; only a purge keeps the lease, for the identity.
RemoveBinary(p) ==
    /\ At(p, "unlink")
    /\ disk' = [disk EXCEPT !.bin = IF disk.identity.exe THEN 0 ELSE @]
    /\ IF proc[p].op = "purge"
         THEN Goes(p, "erase") /\ UNCHANGED lease
         ELSE Goes(p, "record") /\ lease' = NoProc
    /\ UNCHANGED spent

\* FinishPurge: the records of the root, the identity last.
Erase(p) ==
    /\ At(p, "erase")
    /\ disk' = [disk EXCEPT !.identity = NoIdentity]
    /\ Goes(p, "record") /\ lease' = NoProc /\ UNCHANGED spent

Record(p) ==
    /\ At(p, "record")
    /\ IF proc[p].op = "purge"
         THEN Writes(p, "unlock", [disk EXCEPT !.receipt = NoReceipt])
         ELSE Writes(p, "finish", IF proc[p].inv.id = 0 THEN disk
                ELSE [disk EXCEPT !.receipt = [proc[p].inv EXCEPT !.legacy = "none"]])

UnlinkLock(p) == At(p, "unlock") /\ Writes(p, "rmdir", [disk EXCEPT !.lock = 0])

\* removeEmpty: files nobody recorded, like a killed installer's copy, keep the root.
RemoveRoot(p) ==
    /\ At(p, "rmdir")
    /\ \E kept \in BOOLEAN :
         Writes(p, "finish", [disk EXCEPT !.root =
            kept \/ disk.lock # 0 \/ disk.identity.id # 0 \/ disk.receipt.id # 0])

(***************************************************************************)
(* start                                                                   *)
(***************************************************************************)
\* OpenExisting, by the service as by the command: not while it is pending or purging.
Usable == disk.identity.id # 0 /\ ~disk.identity.purging /\ ~disk.identity.pending

\* EnsureManagement: the executable is read before the job starts.
Launch(p) ==
    /\ At(p, "launch")
    /\ IF disk.identity.exe /\ disk.bin = proc[p].version /\ Usable
         THEN /\ disk' = [disk EXCEPT !.service = TRUE]
              /\ Goes(p, "enable") /\ lease' = NoProc /\ UNCHANGED spent
         ELSE Ends(p) /\ UNCHANGED disk

\* The enable request needs the service; the store is then opened once more.
Enable(p) ==
    /\ At(p, "enable")
    /\ IF disk.service THEN Goes(p, "reopen") /\ UNCHANGED <<lease, spent>> ELSE Ends(p)
    /\ UNCHANGED disk

Reopen(p) ==
    /\ At(p, "reopen")
    /\ IF Usable
         THEN /\ proc' = [proc EXCEPT ![p].id = disk.identity.id, ![p].at = "register"]
              /\ UNCHANGED <<lease, spent>>
         ELSE Ends(p)
    /\ UNCHANGED disk

Intends_AfterAdding(record) == record

\* The intent is durable before the client's command runs.
Intends(record) == "intent"

\* adapter.state
State == CASE disk.entry = "none" -> "pending"
           [] disk.entry = "ours" -> "ready"
           [] disk.entry = "edited" -> "conflict"

\* Manager.ensure: an entry in place is taken over only if an intent is recorded.
Inspect(p) ==
    /\ At(p, "ensure")
    /\ IF State = "conflict" \/ ~disk.identity.exe
         THEN Ends(p) /\ UNCHANGED disk
         ELSE \/ /\ State = "ready"
                 /\ Publishes(p, "finish", [disk EXCEPT !.record = IF @ = "intent" THEN "owned" ELSE @])
              \/ State = "pending" /\ Publishes(p, "add", [disk EXCEPT !.record = Intends(@)])

\* The entry is read again, then the client's own command adds it.
Add(p) ==
    /\ At(p, "add")
    /\ IF disk.entry = "none"
         THEN \E entry \in RunsCLI("none", "ours") : Writes(p, "own", [disk EXCEPT !.entry = entry])
         ELSE Ends(p) /\ UNCHANGED disk

Own(p) ==
    /\ At(p, "own")
    /\ IF disk.entry = "ours"
         THEN Publishes(p, "finish", [disk EXCEPT !.record = "owned"])
         ELSE Ends(p) /\ UNCHANGED disk

(***************************************************************************)
(* The user, who acts between two steps: the last look at a file and the   *)
(* write that follows it are one step                                      *)
(***************************************************************************)
Edits(files) ==
    /\ spent.edits < MaxEdits /\ files # disk
    /\ disk' = files
    /\ spent' = [spent EXCEPT !.edits = @ + 1]
    /\ UNCHANGED <<proc, lease>>

EditCommand ==
    \E command \in {"none", "other"} : Edits([disk EXCEPT !.command = command])

\* The user's dotfiles drop or garble the block, or make the file again that an
\* older installer had moved.
EditStartup ==
    \/ /\ disk.startup # "backup"
       /\ \E block \in {"none", "ambiguous"} : Edits([disk EXCEPT !.block = block])
    \/ /\ disk.startup = "backup"
       /\ Edits([disk EXCEPT !.startup = "remade"])

EditAgent ==
    \E entry \in {"none", "edited"} : Edits([disk EXCEPT !.entry = entry])

\* A first credential makes the key, through the running service.
SaveCredential ==
    /\ disk.service /\ disk.key = 0 /\ lease = NoProc /\ ~disk.identity.purging
    /\ disk' = [disk EXCEPT !.key = disk.identity.id]
    /\ UNCHANGED <<proc, lease, spent>>

(***************************************************************************)
(* Specification                                                           *)
(***************************************************************************)
Installing(p) ==
    \/ Check(p) \/ Recheck(p) \/ Recover(p, "recover", "store")
    \/ proc[p].op = "install" /\ (OpenStore(p) \/ TakeLease(p, "lease", "stop") \/ StopService(p, "bind"))
    \/ Bind(p) \/ Rename(p) \/ Settle(p) \/ Adopt(p) \/ Save(p)
    \/ Link(p) \/ WriteLoaders(p) \/ RecordBlock(p) \/ WriteBlock(p)

Removing(p) ==
    \/ Load(p)
    \/ proc[p].op \in {"uninstall", "purge"} /\ (TakeLease(p, "lease", "stop") \/ StopService(p, "agents"))
    \/ Unregister(p) \/ Forget(p) \/ Recover(p, "files", "unshell") \/ RemoveBlock(p)
    \/ RemoveCommand(p) \/ CleanLegacy(p) \/ Tombstone(p) \/ DeleteKey(p)
    \/ RemoveBinary(p) \/ Erase(p) \/ Record(p) \/ UnlinkLock(p) \/ RemoveRoot(p)

Starting(p) ==
    \/ proc[p].op = "start" /\ (OpenStore(p) \/ TakeLease(p, "lease", "launch"))
    \/ Launch(p) \/ Enable(p) \/ Reopen(p) \/ TakeLease(p, "register", "ensure")
    \/ Inspect(p) \/ Add(p) \/ Own(p)

Step(p) ==
    \/ Begin(p) \/ OpenLock(p) \/ TakeLock(p)
    \/ Installing(p) \/ Removing(p) \/ Starting(p)
    \/ Finish(p) \/ Stops(p)

Next == (\E p \in Procs : Step(p)) \/ EditCommand \/ EditStartup \/ EditAgent \/ SaveCredential

Spec == Init /\ [][Next]_vars

(***************************************************************************)
(* Properties                                                              *)
(***************************************************************************)
Steps == {"idle", "check", "open", "lock", "recheck", "recover", "store", "lease", "stop", "bind",
          "rename", "settle", "adopt", "save", "link", "loaders", "shell", "block", "finish", "load", "agents",
          "forget", "files", "unshell", "uncommand", "clean", "tombstone", "key", "unlink",
          "erase", "record", "unlock", "rmdir", "launch", "enable", "reopen", "register",
          "ensure", "add", "own"}
Receipts == [id : Nat, release : Versions \cup {0}, blocks : BOOLEAN,
             legacy : {"none", "staged", "purging"}]

\* Type correctness of the account and of the commands.
TypeOK ==
    /\ disk \in [root : BOOLEAN, lock : Nat,
                 identity : [id : Nat, purging : BOOLEAN, exe : BOOLEAN, pending : BOOLEAN],
                 bin : Versions \cup {0}, receipt : Receipts, command : {"none", "ours", "other"},
                 loaders : BOOLEAN, startup : {"home", "backup", "remade", "lost"},
                 block : {"none", "ours", "ambiguous", "left"}, entry : {"none", "ours", "edited"},
                 record : {"none", "intent", "owned"}, service : BOOLEAN, key : Nat]
    /\ proc \in [Procs -> [at : Steps, op : {"none", "install", "uninstall", "purge", "start"},
                           version : Versions \cup {0}, fd : Nat, held : BOOLEAN,
                           inv : Receipts, id : Nat]]
    /\ lease \in Procs \cup {NoProc}
    /\ spent \in [operations : 0..MaxOperations, stops : 0..MaxStops, edits : 0..MaxEdits]

\* Wherever commands stop, everything Data Mate put into the account is on record
\* for a later uninstall: the executable and the job in the identity, the command
\* and the startup block in distribution.json, the agent entry in
\* registrations.json, and a key belongs to an identity that still exists.  Only a
\* block that a removal has reported it could not remove may outlive its record:
\* a purge deletes distribution.json after that warning (uninstall.go:81, 119).
TracesAreRecorded ==
    /\ disk.bin # 0 => disk.identity.exe
    /\ disk.service => disk.identity.exe
    /\ disk.command = "ours" => disk.receipt.id # 0
    /\ disk.block = "ours" => disk.receipt.blocks
    /\ disk.entry = "ours" => disk.record # "none" /\ disk.identity.id # 0
    /\ disk.key # 0 => disk.identity.id = disk.key

\* A command that reports success has done what it is for, whatever other commands
\* did meanwhile: distribution.lock serializes them although a purge unlinks it.
\* install: executable, receipt and identity are of one installation and release.
\* uninstall: executable, job, command, loaders and block are gone, but for a block
\* whose removal failed with a warning.  purge: whatever is there by then, it is not
\* of the purged installation.  start: the agent entry is recorded as owned, by the
\* installation that started; that its executable and its service are still there
\* is not promised (Controller.Start registers under a second lease).
SuccessIsComplete ==
    \A p \in Procs : At(p, "finish") =>
        /\ proc[p].op = "install" =>
             /\ disk.bin = proc[p].version /\ disk.receipt.release = proc[p].version
             /\ disk.identity.id = disk.receipt.id /\ disk.identity.exe /\ ~disk.identity.pending
        /\ proc[p].op = "uninstall" =>
             /\ disk.bin = 0 /\ ~disk.service /\ disk.command # "ours"
             /\ ~disk.loaders /\ disk.block # "ours"
        /\ proc[p].op = "purge" /\ proc[p].id # 0 =>
             proc[p].id \notin {disk.identity.id, disk.receipt.id, disk.key}
        /\ proc[p].op = "start" =>
             disk.record = "owned" /\ disk.identity.id = proc[p].id

\* The executable goes only when nothing needs it any more: no job, no recorded
\* agent entry, no command link, and under --purge no key (Controller.Uninstall).
ExecutableLast ==
    [][disk.bin # 0 /\ disk'.bin = 0 =>
         /\ ~disk.service /\ disk.record = "none" /\ disk.command # "ours"
         /\ disk.identity.purging => disk.key = 0]_vars

\* What belongs to the user survives: a command entry of another program, an agent
\* entry that was edited, and the text of a startup file whose only copy is the
\* backup an older installer made, unless the user makes the file again himself.
UserContentKept ==
    [][/\ disk.startup = "backup" => disk'.startup # "lost"
       /\ disk.command = "other" /\ disk'.command # "other" => spent'.edits > spent.edits
       /\ disk.entry = "edited" /\ disk'.entry # "edited" => spent'.edits > spent.edits]_vars

=============================================================================
