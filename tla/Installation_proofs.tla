------------------------ MODULE Installation_proofs ------------------------
(***************************************************************************)
(* Wherever the commands of an account stop, and in whatever order they    *)
(* run, what was put into the account is on record; a reported success is  *)
(* complete; the executable goes last; the user's command, agent entry and *)
(* moved startup file stay.  Proved for any number of processes, releases, *)
(* commands, failures and edits, edits of the startup file among them.     *)
(*                                                                         *)
(* A command reads the inventory, the identity and the user's files in one *)
(* step and relies on them many steps later.  Two locks make that right:   *)
(* who has distribution.lock under its present name is alone with the      *)
(* inventory, the executable, the link and the block (Locked), and who has *)
(* the lifecycle lease is alone with the identity's end, the job, the key  *)
(* and the registration (Leased).  Under them, what a command has done so  *)
(* far stays done (Progress), since every step keeps what the other        *)
(* commands rely on (OthersKeep).                                          *)
(***************************************************************************)
EXTENDS Installation, FiniteSetTheorems, TLAPS

Ops == {"none", "install", "uninstall", "purge", "start"}
Removers == {"uninstall", "purge"}

InstallSteps ==
  {"check", "open", "lock", "recheck", "recover", "store", "lease", "stop", "bind", "rename",
   "settle", "adopt", "save", "link", "loaders", "shell", "block", "finish"}
UninstallSteps ==
  {"open", "lock", "load", "lease", "stop", "agents", "forget", "files", "unshell",
   "uncommand", "clean", "settle", "unlink", "record", "finish"}
PurgeSteps == UninstallSteps \cup {"tombstone", "key", "erase", "unlock", "rmdir"}
StartSteps ==
  {"store", "lease", "launch", "enable", "reopen", "register", "ensure", "add", "own", "finish"}

\* The steps of a command.
Place(p) ==
  /\ proc[p].op = "none" <=> proc[p].at = "idle"
  /\ proc[p].op # "none" => proc[p].version # 0
  /\ proc[p].op = "install" => proc[p].at \in InstallSteps
  /\ proc[p].op = "uninstall" => proc[p].at \in UninstallSteps
  /\ proc[p].op = "purge" => proc[p].at \in PurgeSteps
  /\ proc[p].op = "start" => proc[p].at \in StartSteps

InLock(p) ==
  proc[p].op \in {"install", "uninstall", "purge"} /\ proc[p].at \notin {"check", "open", "lock"}
Unlinked(p) == proc[p].op = "purge" /\ proc[p].at \in {"rmdir", "finish"}

\* A held lock file is the one of the name until its holder unlinks it.
Locked(p) ==
  /\ proc[p].held <=> InLock(p)
  /\ InLock(p) \/ At(p, "lock") => proc[p].fd # 0
  /\ InLock(p) /\ ~Unlinked(p) => disk.lock = proc[p].fd
LocksDiffer ==
  \A p, q \in Procs : InLock(p) /\ InLock(q) /\ proc[p].fd = proc[q].fd => p = q

InLease(p) ==
  \/ proc[p].at \in {"stop", "bind", "rename", "settle", "agents", "forget", "tombstone", "key",
                     "unlink", "erase", "launch", "ensure", "add", "own"}
  \/ proc[p].at \in {"files", "unshell", "uncommand", "clean"} /\ proc[p].id # 0
  \/ proc[p].op = "start" /\ proc[p].at = "finish"

\* The lease is its holder's from the step that took it to the one that gives it back,
\* and the identity it was taken for stays.
Leased(p) ==
  /\ lease = p <=> InLease(p)
  /\ InLease(p) => disk.identity.id = proc[p].id
  /\ InLease(p) \/ proc[p].at \in {"lease", "register"} => proc[p].id # 0

\* The inventory a command has read is the present one while it may use it.
Reads(p) ==
  \/ /\ proc[p].op = "install"
     /\ proc[p].at \notin {"check", "open", "lock", "recheck", "link", "loaders", "shell", "block", "finish"}
  \/ /\ proc[p].op \in Removers
     /\ proc[p].at \notin {"open", "lock", "load", "unlock", "rmdir", "finish"}
Read(p) == Reads(p) => proc[p].inv = disk.receipt

\* An older installer's startup file is home before its backup is removed.
Returned(p) ==
  \/ proc[p].op = "install" /\ proc[p].at \in {"store", "lease", "stop", "bind", "rename", "settle", "adopt"}
  \/ proc[p].op \in Removers /\ proc[p].at \in {"unshell", "uncommand", "clean"}
Home(p) == Returned(p) => disk.receipt.legacy = "none" \/ disk.startup # "backup"

\* What an installer has done.
Installed(p) == proc[p].op = "install" =>
  /\ proc[p].at \in {"bind", "rename", "settle"} => ~disk.service
  /\ proc[p].at \in {"rename", "settle", "adopt", "save", "link", "loaders", "shell", "block", "finish"} =>
       disk.identity.exe
  /\ proc[p].at \in {"settle", "adopt", "save", "link", "loaders", "shell", "block", "finish"} =>
       disk.bin = proc[p].version
  /\ proc[p].at \in {"adopt", "save", "link", "loaders", "shell", "block", "finish"} =>
       ~disk.identity.pending
  /\ proc[p].at = "save" => proc[p].id = disk.identity.id
  /\ proc[p].at \in {"link", "loaders", "shell", "block", "finish"} =>
       disk.receipt.id = disk.identity.id /\ disk.receipt.release = proc[p].version
  /\ proc[p].at = "block" => disk.receipt.blocks

\* What an uninstaller has done.  Without an identity there was no executable to begin with.
PastStop(p) ==
  \/ proc[p].at \in {"agents", "forget", "files", "unshell", "uncommand", "clean", "settle",
                     "tombstone", "key", "unlink", "erase", "record"}
  \/ proc[p].op = "uninstall" /\ proc[p].at = "finish"
PastUnlink(p) ==
  \/ proc[p].at \in {"erase", "record"}
  \/ proc[p].at \in {"files", "unshell", "uncommand", "clean"} /\ proc[p].id = 0
  \/ proc[p].op = "uninstall" /\ proc[p].at = "finish"

PastCommand(p) ==
  \/ proc[p].at \in {"clean", "settle", "tombstone", "key", "unlink", "erase", "record"}
  \/ proc[p].op = "uninstall" /\ proc[p].at = "finish"
PastBlock(p) == PastCommand(p) \/ proc[p].at = "uncommand"

Removed(p) == proc[p].op \in Removers =>
  /\ PastStop(p) => ~disk.service
  /\ At(p, "forget") => disk.entry # "ours"
  /\ InLease(p) /\ proc[p].at \notin {"stop", "agents", "forget"} => disk.record = "none"
  /\ PastBlock(p) => disk.block # "ours"
  /\ PastCommand(p) => disk.command # "ours" /\ ~disk.loaders
  /\ InLease(p) /\ proc[p].op = "uninstall" => ~disk.identity.purging
  /\ proc[p].op = "purge" /\ proc[p].at \in {"unlink", "erase"} => disk.key = 0
  /\ PastUnlink(p) => disk.bin = 0
  /\ proc[p].op = "purge" /\ proc[p].id # 0 =>
       /\ proc[p].at \in {"record", "unlock", "rmdir", "finish"} => disk.identity.id # proc[p].id
       /\ proc[p].at \in {"unlock", "rmdir", "finish"} => disk.receipt.id # proc[p].id

\* The intent is on record before the agent's client adds the entry, and the
\* ownership when start is done.
Registering(p) ==
  /\ At(p, "add") => disk.record = "intent"
  /\ proc[p].op = "start" /\ At(p, "finish") => disk.record = "owned"

Control(p) == Place(p) /\ Locked(p) /\ Leased(p)
Progress(p) == Read(p) /\ Home(p) /\ Installed(p) /\ Removed(p) /\ Registering(p)

\* What holds of the account whoever runs.
Account ==
  /\ TracesAreRecorded
  /\ disk.identity.exe => disk.identity.id # 0
  /\ disk.receipt.legacy # "none" => disk.receipt.blocks

\* The inductive invariant.
IInv ==
  TypeOK /\ Account /\ LocksDiffer /\ \A p \in Procs : Control(p) /\ Progress(p)

----------------------------------------------------------------------------
(* Types *)

Identities == [id : Nat, purging : BOOLEAN, exe : BOOLEAN, pending : BOOLEAN]
Disks ==
  [root : BOOLEAN, lock : Nat, identity : Identities, bin : Versions \cup {0},
   receipt : Receipts, command : {"none", "ours", "other"}, loaders : BOOLEAN,
   startup : {"home", "backup", "remade", "lost"},
   block : {"none", "ours", "ambiguous", "left"},
   entry : {"none", "ours", "edited"}, record : {"none", "intent", "owned"},
   service : BOOLEAN, key : Nat]
Commands ==
  [at : Steps, op : Ops, version : Versions \cup {0}, fd : Nat, held : BOOLEAN,
   inv : Receipts, id : Nat]
Spendings == [operations : 0..MaxOperations, stops : 0..MaxStops, edits : 0..MaxEdits]

LEMMA Types ==
  TypeOK <=> /\ disk \in Disks
             /\ proc \in [Procs -> Commands]
             /\ lease \in Procs \cup {NoProc}
             /\ spent \in Spendings
  BY DEF TypeOK, Disks, Identities, Commands, Ops, Spendings

LEMMA TypesNext ==
  TypeOK' <=> /\ disk' \in Disks
              /\ proc' \in [Procs -> Commands]
              /\ lease' \in Procs \cup {NoProc}
              /\ spent' \in Spendings
  BY DEF TypeOK, Disks, Identities, Commands, Ops, Spendings, Receipts, Steps

LEMMA IdleFits == Idle \in Commands /\ NoReceipt \in Receipts
  BY DEF Idle, Commands, NoReceipt, Receipts, Steps, Ops

\* A command that goes on, with what it remembers.
Moves(p, step) ==
  /\ \A q \in Procs \ {p} : proc'[q] = proc[q]
  /\ proc'[p].at = step /\ proc'[p].op = proc[p].op /\ proc'[p].version = proc[p].version
  /\ proc'[p].fd = proc[p].fd /\ proc'[p].held = proc[p].held
  /\ proc'[p].inv = proc[p].inv /\ proc'[p].id = proc[p].id
  /\ proc' \in [Procs -> Commands]

\* A command that returns, fails or dies.
Quits(p) ==
  /\ \A q \in Procs \ {p} : proc'[q] = proc[q]
  /\ proc'[p] = Idle
  /\ proc' \in [Procs -> Commands]
  /\ lease' = IF lease = p THEN NoProc ELSE lease

LEMMA GoesMoves ==
  ASSUME proc \in [Procs -> Commands], NEW p \in Procs, NEW step \in Steps, Goes(p, step)
  PROVE  Moves(p, step)
  BY DEF Goes, Moves, Commands

LEMMA EndsQuits ==
  ASSUME proc \in [Procs -> Commands], NEW p \in Procs, Ends(p) \/ Stops(p)
  PROVE  Quits(p)
  BY IdleFits DEF Ends, Stops, Quits

\* An identifier or inode that nothing refers to.
LEMMA UnusedFits ==
  ASSUME NEW used, IsFiniteSet(used), 0 \in used
  PROVE  Unused(used) \in Nat /\ Unused(used) \notin used /\ Unused(used) # 0
<1>1. Cardinality(used) \in Nat
  BY FS_CardinalityType
<1> DEFINE k == Cardinality(used)
<1>2. \E n \in 1..(k + 1) : n \notin used
  <2> SUFFICES ASSUME 1..(k + 1) \subseteq used PROVE FALSE
    OBVIOUS
  <2>1. Cardinality(1..(k + 1)) <= Cardinality(used)
    BY FS_Subset
  <2>2. 1 <= k + 1 /\ k + 1 \in Int /\ k + 1 - 1 + 1 = k + 1
    BY <1>1
  <2>3. Cardinality(1..(k + 1)) = IF 1 > k + 1 THEN 0 ELSE k + 1 - 1 + 1
    BY <2>2, FS_Interval
  <2> QED
    BY <1>1, <2>1, <2>2, <2>3
<1>3. Unused(used) \in 1..(k + 1) /\ Unused(used) \notin used
  BY <1>2 DEF Unused
<1> QED
  BY <1>1, <1>3

\* Only finitely many are in use.
LEMMA RefsFinite ==
  ASSUME proc \in [Procs -> Commands]
  PROVE  /\ IsFiniteSet({proc[q].fd : q \in Procs} \cup {0})
         /\ IsFiniteSet({0, disk.receipt.id, disk.key} \cup {proc[q].id : q \in Procs})
<1> DEFINE fd == [q \in Procs |-> proc[q].fd]
           id == [q \in Procs |-> proc[q].id]
<1>1. IsFiniteSet({proc[q].fd : q \in Procs})
  <2>1. fd \in Surjection(Procs, {proc[q].fd : q \in Procs})
    BY DEF Surjection
  <2> QED
    BY <2>1, ProcsAssumption, FS_Surjection
<1>2. IsFiniteSet({proc[q].id : q \in Procs})
  <2>1. id \in Surjection(Procs, {proc[q].id : q \in Procs})
    BY DEF Surjection
  <2> QED
    BY <2>1, ProcsAssumption, FS_Surjection
<1>3. IsFiniteSet({0}) /\ IsFiniteSet({0, disk.receipt.id, disk.key})
  <2>1. IsFiniteSet({0})
    BY FS_Singleton
  <2>2. IsFiniteSet({disk.receipt.id}) /\ IsFiniteSet({disk.key})
    BY FS_Singleton
  <2>3. {0, disk.receipt.id, disk.key} = {0} \cup ({disk.receipt.id} \cup {disk.key})
    OBVIOUS
  <2>4. IsFiniteSet({disk.receipt.id} \cup {disk.key})
    BY <2>2, FS_Union
  <2>5. IsFiniteSet({0} \cup ({disk.receipt.id} \cup {disk.key}))
    BY <2>1, <2>4, FS_Union
  <2> QED
    BY <2>1, <2>3, <2>5
<1> QED
  BY <1>1, <1>2, <1>3, FS_Union

----------------------------------------------------------------------------
(* Init *)

\* The two kinds of account to begin with.
LEMMA InitialDisks ==
  ASSUME Init
  PROVE  /\ disk \in Disks /\ Account
<1>1. /\ NoIdentity \in Identities /\ NoReceipt \in Receipts
  BY DEF NoIdentity, NoReceipt, Identities, Receipts
<1>2. CASE disk = Fresh
  BY <1>1, <1>2 DEF Fresh, Disks, Account, TracesAreRecorded, NoIdentity, NoReceipt
<1>3. CASE disk = [Fresh EXCEPT !.block = "ambiguous"]
  BY <1>1, <1>3 DEF Fresh, Disks, Account, TracesAreRecorded, NoIdentity, NoReceipt
<1>4. ASSUME NEW v \in Oldest, NEW kind \in {"staged", "purging"}, disk = Older(v, kind)
      PROVE  disk \in Disks /\ Account
  <2>1. v \in Versions /\ v # 0
    BY VersionsAssumption DEF Oldest
  <2> DEFINE identity == [id |-> 1, purging |-> FALSE, exe |-> TRUE, pending |-> kind = "staged"]
             receipt == [id |-> 1, release |-> v, blocks |-> TRUE, legacy |-> kind]
             startup == IF kind = "staged" THEN "backup" ELSE "home"
  <2>2. disk = [root |-> TRUE, lock |-> 0, identity |-> identity, bin |-> v, receipt |-> receipt,
                command |-> "ours", loaders |-> FALSE, startup |-> startup, block |-> "none",
                entry |-> "none", record |-> "none", service |-> FALSE, key |-> 0]
    BY <1>4 DEF Older, Fresh
  <2>3. /\ identity \in Identities /\ identity.exe /\ identity.id # 0
        /\ receipt \in Receipts /\ receipt.blocks /\ receipt.id # 0
        /\ startup \in {"home", "backup"}
    BY <2>1 DEF Identities, Receipts
  <2> HIDE DEF identity, receipt, startup
  <2>4. disk \in Disks
    BY <2>1, <2>2, <2>3 DEF Disks
  <2>5. Account
    BY <2>1, <2>2, <2>3 DEF Account, TracesAreRecorded
  <2> QED
    BY <2>4, <2>5
<1> QED
  BY <1>2, <1>3, <1>4 DEF Init

LEMMA InitInv == Init => IInv
<1> SUFFICES ASSUME Init PROVE IInv
  OBVIOUS
<1>1. disk \in Disks /\ Account
  BY InitialDisks
<1>2. \A p \in Procs : proc[p] = Idle /\ lease # p
  BY ProcsAssumption DEF Init
<1>3. TypeOK
  <2>1. proc \in [Procs -> Commands] /\ lease \in Procs \cup {NoProc}
    BY IdleFits DEF Init
  <2>2. spent \in Spendings
    BY BoundsAssumption DEF Init, Spendings
  <2> QED
    BY <1>1, <2>1, <2>2, Types
<1>4. ASSUME NEW p \in Procs PROVE Control(p) /\ Progress(p) /\ ~InLock(p)
  <2>0. proc[p].at = "idle" /\ proc[p].op = "none" /\ proc[p].held = FALSE /\ lease # p
    BY <1>2 DEF Idle
  <2>1. Control(p) /\ ~InLock(p)
    BY <2>0 DEF Control, Place, Locked, Leased, InLock, InLease, Unlinked, At
  <2>2. Progress(p)
    BY <2>0 DEF Progress, Read, Reads, Home, Returned, Installed, Removed, PastStop,
                PastUnlink, PastCommand, PastBlock, InLease, Registering, Removers, At
  <2> QED
    BY <2>1, <2>2
<1> QED
  BY <1>1, <1>3, <1>4 DEF IInv, LocksDiffer

----------------------------------------------------------------------------
(* What the commands rely on *)

\* An installation that is gone does not come back: new identifiers are new, and a
\* receipt is written for the identity that is there.
NotRevived(id) == id # 0 =>
  /\ disk'.identity.id = id => disk.identity.id = id
  /\ disk'.receipt.id = id => id \in {disk.identity.id, disk.receipt.id}

\* A step of somebody else.
Kept(q) ==
  /\ proc'[q] = proc[q]
  /\ lease' = q <=> lease = q
  /\ InLock(q) /\ ~Unlinked(q) =>
       /\ disk'.lock = disk.lock /\ disk'.receipt = disk.receipt /\ disk'.bin = disk.bin
       /\ disk'.block = "ours" => disk.block = "ours"
       /\ disk'.loaders => disk.loaders
       /\ disk'.command = "ours" => disk.command = "ours"
       /\ disk.identity.exe => disk'.identity.exe
       /\ disk.identity.id # 0 => disk'.identity.id = disk.identity.id
  /\ lease = q =>
       /\ disk'.identity = disk.identity /\ disk'.record = disk.record /\ disk'.key = disk.key
       /\ disk'.entry = "ours" => disk.entry = "ours"
       /\ disk'.service => disk.service
  /\ disk'.service /\ disk.bin = 0 => disk.service
  /\ disk'.startup = "backup" => disk.startup = "backup"
  /\ disk'.identity.pending => disk.identity.pending
  /\ NotRevived(proc[q].id)

LEMMA StaysFit ==
  ASSUME IInv, NEW q \in Procs, Kept(q)
  PROVE  Control(q)' /\ Progress(q)'
<1> USE DEF Kept
<1>1. Control(q) /\ Progress(q) /\ Account
  BY DEF IInv
<1>2. Place(q)'
  BY <1>1 DEF Control, Place
<1>3. Locked(q)'
  BY <1>1 DEF Control, Locked, InLock, Unlinked, At
<1>4. Leased(q)'
  BY <1>1 DEF Control, Leased, InLease
<1>5. Read(q)'
  <2>1. Reads(q) => InLock(q) /\ ~Unlinked(q)
    BY <1>1 DEF Reads, InLock, Unlinked, Removers, Control, Place, UninstallSteps, PurgeSteps
  <2> QED
    BY <1>1, <2>1 DEF Progress, Read, Reads
<1>6. Home(q)'
  <2>1. Returned(q) => InLock(q) /\ ~Unlinked(q)
    BY DEF Returned, InLock, Unlinked, Removers
  <2> QED
    BY <1>1, <2>1 DEF Progress, Home, Returned
<1>7. Installed(q)'
  <2> SUFFICES ASSUME proc[q].op = "install" PROVE Installed(q)'
    BY DEF Installed
  <2>1. proc[q].at \in {"bind", "rename", "settle"} => lease = q
    BY <1>1 DEF Control, Leased, InLease
  <2>2. proc[q].at \in {"rename", "settle", "adopt", "save", "link", "loaders", "shell", "block", "finish"} =>
          InLock(q) /\ ~Unlinked(q) /\ disk.identity.id # 0
    BY <1>1 DEF InLock, Unlinked, Progress, Installed, Account
  <2> QED
    BY <1>1, <2>1, <2>2 DEF Progress, Installed
<1>8. Removed(q)'
  <2> SUFFICES ASSUME proc[q].op \in Removers PROVE Removed(q)'
    BY DEF Removed
  <2>1. PastStop(q) => lease = q \/ PastUnlink(q)
    BY <1>1 DEF PastStop, PastUnlink, Control, Leased, InLease
  <2>2. PastUnlink(q) => InLock(q) /\ ~Unlinked(q)
    BY <1>1 DEF PastUnlink, InLock, Unlinked, Removers
  <2>3. PastBlock(q) \/ PastCommand(q) => InLock(q) /\ ~Unlinked(q)
    BY DEF PastBlock, PastCommand, InLock, Unlinked, Removers
  <2>4. InLease(q) <=> lease = q
    BY <1>1 DEF Control, Leased
  <2>5. At(q, "forget") \/ proc[q].at \in {"unlink", "erase"} => lease = q
    BY <2>4 DEF InLease, At
  <2>6. Removed(q)
    BY <1>1 DEF Progress
  <2>7. /\ PastStop(q)' <=> PastStop(q)
        /\ PastUnlink(q)' <=> PastUnlink(q)
        /\ PastCommand(q)' <=> PastCommand(q)
        /\ PastBlock(q)' <=> PastBlock(q)
        /\ InLease(q)' <=> InLease(q)
    BY DEF PastStop, PastUnlink, PastCommand, PastBlock, InLease
  <2> QED
    BY <2>1, <2>2, <2>3, <2>4, <2>5, <2>6, <2>7 DEF Removed, NotRevived, At
<1>9. Registering(q)'
  BY <1>1 DEF Progress, Registering, Control, Leased, InLease, At
<1> QED
  BY <1>2, <1>3, <1>4, <1>5, <1>6, <1>7, <1>8, <1>9 DEF Control, Progress

\* What a step of p leaves alone without the locks.
Respects(p) ==
  /\ \A q \in Procs \ {p} : proc'[q] = proc[q]
  /\ \/ lease' = lease
     \/ lease = p /\ lease' = NoProc
     \/ lease = NoProc /\ lease' = p
  /\ ~(InLock(p) /\ ~Unlinked(p)) =>
       /\ disk.lock # 0 => disk'.lock = disk.lock
       /\ disk'.receipt = disk.receipt /\ disk'.bin = disk.bin
       /\ disk'.block = disk.block /\ disk'.loaders = disk.loaders
       /\ disk'.command = "ours" => disk.command = "ours"
       /\ disk.identity.exe => disk'.identity.exe
       /\ disk.identity.id # 0 => disk'.identity.id = disk.identity.id
  /\ lease \notin {p, NoProc} =>
       /\ disk'.identity = disk.identity /\ disk'.record = disk.record /\ disk'.key = disk.key
       /\ disk'.entry = "ours" => disk.entry = "ours"
       /\ disk'.service => disk.service
  /\ disk'.service /\ disk.bin = 0 => disk.service
  /\ disk'.startup = "backup" => disk.startup = "backup"
  /\ disk'.identity.pending => disk.identity.pending
  /\ \A q \in Procs : NotRevived(proc[q].id)

LEMMA OthersKeep ==
  ASSUME IInv, NEW p \in Procs, Respects(p), NEW q \in Procs, q # p
  PROVE  Kept(q)
<1>1. /\ Locked(p) /\ Locked(q) /\ Leased(p) /\ Leased(q)
      /\ LocksDiffer
  BY DEF IInv, Control
<1>2. InLock(q) /\ ~Unlinked(q) => ~(InLock(p) /\ ~Unlinked(p)) /\ disk.lock # 0
  BY <1>1 DEF Locked, LocksDiffer
<1>3. lease = q => lease \notin {p, NoProc}
  BY ProcsAssumption
<1>4. lease' = q <=> lease = q
  BY ProcsAssumption DEF Respects, NotRevived
<1> QED
  BY <1>2, <1>3, <1>4 DEF Respects, Kept

\* What remains to be shown of a step of p.
LEMMA StepKeeps ==
  ASSUME IInv, NEW p \in Procs, TypeOK', Respects(p), Account', Control(p)', Progress(p)',
         InLock(p)' => InLock(p) /\ proc'[p].fd = proc[p].fd
  PROVE  IInv'
<1>1. ASSUME NEW q \in Procs PROVE Control(q)' /\ Progress(q)'
  BY OthersKeep, StaysFit
<1>2. \A q \in Procs : InLock(q)' => InLock(q) /\ proc'[q].fd = proc[q].fd
  BY DEF Respects, NotRevived, InLock
<1>3. LocksDiffer'
  BY <1>2 DEF IInv, LocksDiffer
<1> QED
  BY <1>1, <1>3 DEF IInv

\* A command may stop anywhere.
LEMMA QuitKeeps ==
  ASSUME IInv, NEW p \in Procs, Ends(p) \/ Stops(p), disk' = disk
  PROVE  IInv'
<1>1. TypeOK /\ proc \in [Procs -> Commands] /\ disk \in Disks /\ Account
  BY Types DEF IInv
<1>2. Quits(p)
  BY <1>1, EndsQuits
<1>3. TypeOK'
  <2>1. spent' \in Spendings
    BY <1>1, Types, BoundsAssumption DEF Ends, Stops, Spendings
  <2>2. lease' \in Procs \cup {NoProc}
    BY <1>1, <1>2, Types DEF Quits
  <2> QED
    BY <1>1, <1>2, <2>1, <2>2, TypesNext DEF Quits
<1>4. Respects(p)
  BY <1>2 DEF Quits, Respects, NotRevived
<1>5. Control(p)' /\ ~InLock(p)'
  <2>1. lease' # p
    BY <1>2, ProcsAssumption DEF Quits
  <2> QED
    BY <1>2, <2>1 DEF Quits, Idle, Control, Place, Locked, Leased, InLock, InLease, Unlinked, At
<1>6. Progress(p)'
  BY <1>2 DEF Quits, Idle, Progress, Read, Reads, Home, Returned, Installed, Removed, PastStop,
              PastUnlink, PastCommand, PastBlock, InLease, Registering, Removers, At
<1>7. Account'
  BY <1>1 DEF Account, TracesAreRecorded
<1> QED
  BY <1>3, <1>4, <1>5, <1>6, <1>7, StepKeeps

----------------------------------------------------------------------------
(* The steps of a command, one by one *)

LEMMA Given ==
  ASSUME IInv, NEW p \in Procs
  PROVE  /\ TypeOK /\ disk \in Disks /\ proc \in [Procs -> Commands]
         /\ lease \in Procs \cup {NoProc} /\ spent \in Spendings
         /\ Account /\ Control(p) /\ Progress(p)
  BY Types DEF IInv

\* Whose steps they are.
LEMMA Whose ==
  ASSUME IInv, NEW p \in Procs
  PROVE  /\ proc[p].op \in Ops
         /\ proc[p].at \in {"check", "recheck", "recover", "bind", "rename", "adopt", "save", "link",
                            "loaders", "shell", "block"} => proc[p].op = "install"
         /\ proc[p].at \in {"load", "agents", "forget", "files", "unshell", "uncommand", "clean",
                            "unlink", "record"} => proc[p].op \in Removers
         /\ proc[p].at \in {"tombstone", "key", "erase", "unlock", "rmdir"} => proc[p].op = "purge"
         /\ proc[p].at \in {"launch", "enable", "reopen", "register", "ensure", "add", "own"} =>
              proc[p].op = "start"
         /\ proc[p].at \in {"open", "lock", "stop", "settle"} => proc[p].op \in {"install"} \cup Removers
<1>1. proc[p].op \in Ops /\ Place(p)
  BY Given DEF Commands, Control
<1> QED
  BY <1>1 DEF Ops, Place, Removers, InstallSteps, UninstallSteps, PurgeSteps, StartSteps

\* A step that writes one file, or none.
LEMMA WriteKeeps ==
  ASSUME IInv, NEW p \in Procs, NEW step \in Steps, NEW files \in Disks, Writes(p, step, files),
         Respects(p), Control(p)', Progress(p)', Account', InLock(p)' => InLock(p)
  PROVE  IInv'
<1>1. Moves(p, step) /\ disk' = files /\ lease' = lease /\ spent' = spent
  BY Given, GoesMoves DEF Writes
<1>2. TypeOK'
  BY <1>1, Given, TypesNext DEF Moves
<1> QED
  BY <1>1, <1>2, StepKeeps DEF Moves

LEMMA WriteMoves ==
  ASSUME IInv, NEW p \in Procs, NEW step \in Steps, NEW files, Writes(p, step, files)
  PROVE  Moves(p, step) /\ disk' = files /\ lease' = lease
  BY Given, GoesMoves DEF Writes

LEMMA BindKeeps ==
  ASSUME IInv, NEW p \in Procs, Bind(p)
  PROVE  IInv'
<1> DEFINE files == [disk EXCEPT !.identity.exe = TRUE]
<1>1. disk \in Disks /\ Account /\ Control(p) /\ Progress(p)
  BY Given
<1>2. At(p, "bind") /\ Writes(p, "rename", files)
  BY DEF Bind, Publishes
<1>3. Moves(p, "rename") /\ disk' = files /\ lease' = lease
  BY <1>2, WriteMoves DEF Steps
<1>4. proc[p].op = "install" /\ InLock(p) /\ ~Unlinked(p) /\ lease = p
  BY <1>1, <1>2, Whose DEF At, Removers, InLock, Unlinked, Control, Leased, InLease
<1>5. files \in Disks
  BY <1>1, <1>4 DEF Disks, Identities
<1>6. /\ disk'.loaders = disk.loaders
      /\ disk'.identity.id = disk.identity.id
      /\ disk'.identity.purging = disk.identity.purging
      /\ disk'.identity.exe = TRUE
      /\ disk'.identity.pending = disk.identity.pending
      /\ disk'.lock = disk.lock /\ disk'.bin = disk.bin /\ disk'.receipt = disk.receipt
      /\ disk'.command = disk.command /\ disk'.startup = disk.startup /\ disk'.block = disk.block
      /\ disk'.entry = disk.entry /\ disk'.record = disk.record /\ disk'.service = disk.service
      /\ disk'.key = disk.key
  BY <1>1, <1>3 DEF Disks, Identities
<1> HIDE DEF files
<1>7. Respects(p)
  BY <1>1, <1>2, <1>3, <1>4, <1>6 DEF Respects, NotRevived, Moves
<1>8. Control(p)' /\ (InLock(p)' => InLock(p))
  BY <1>1, <1>2, <1>3, <1>4, <1>6 DEF Control, Place, Locked, Leased, InLock, InLease, Unlinked, At,
     Moves, InstallSteps, UninstallSteps, PurgeSteps, StartSteps, Removers
<1>9. Progress(p)'
  BY <1>1, <1>2, <1>3, <1>4, <1>6 DEF Account, Progress, Read, Reads, Home, Returned, Installed,
     Removed, PastStop, PastUnlink, PastCommand, PastBlock, InLease, Removers, Registering, Moves,
     At
<1>10. Account'
  BY <1>1, <1>2, <1>3, <1>4, <1>6 DEF Account, TracesAreRecorded, Control, Progress, Read, Reads,
     Removed, Installed, InLease, Leased, At, Removers
<1> QED
  BY <1>2, <1>5, <1>7, <1>8, <1>9, <1>10, WriteKeeps DEF Steps

LEMMA RenameKeeps ==
  ASSUME IInv, NEW p \in Procs, Rename(p)
  PROVE  IInv'
<1> DEFINE files == [disk EXCEPT !.bin = proc[p].version]
<1>1. disk \in Disks /\ Account /\ Control(p) /\ Progress(p)
  BY Given
<1>2. At(p, "rename") /\ Writes(p, "settle", files)
  BY DEF Rename
<1>3. Moves(p, "settle") /\ disk' = files /\ lease' = lease
  BY <1>2, WriteMoves DEF Steps
<1>4. proc[p].op = "install" /\ InLock(p) /\ ~Unlinked(p) /\ lease = p /\ proc[p].version \in Versions \cup {0}
  BY <1>1, <1>2, Given, Whose DEF Commands, At, Removers, InLock, Unlinked, Control, Leased, InLease
<1>5. files \in Disks
  BY <1>1, <1>4 DEF Disks, Identities
<1>6. /\ disk'.loaders = disk.loaders
      /\ disk'.bin = proc[p].version
      /\ disk'.lock = disk.lock /\ disk'.receipt = disk.receipt /\ disk'.command = disk.command
      /\ disk'.startup = disk.startup /\ disk'.block = disk.block /\ disk'.entry = disk.entry
      /\ disk'.record = disk.record /\ disk'.service = disk.service /\ disk'.key = disk.key
      /\ disk'.identity = disk.identity
  BY <1>1, <1>3 DEF Disks, Identities
<1> HIDE DEF files
<1>7. Respects(p)
  BY <1>1, <1>2, <1>3, <1>4, <1>6 DEF Respects, NotRevived, Moves
<1>8. Control(p)' /\ (InLock(p)' => InLock(p))
  BY <1>1, <1>2, <1>3, <1>4, <1>6 DEF Control, Place, Locked, Leased, InLock, InLease, Unlinked, At,
     Moves, InstallSteps, UninstallSteps, PurgeSteps, StartSteps, Removers
<1>9. Progress(p)'
  BY <1>1, <1>2, <1>3, <1>4, <1>6 DEF Account, Progress, Read, Reads, Home, Returned, Installed,
     Removed, PastStop, PastUnlink, PastCommand, PastBlock, InLease, Removers, Registering, Moves,
     At
<1>10. Account'
  BY <1>1, <1>2, <1>3, <1>4, <1>6 DEF Account, TracesAreRecorded, Control, Progress, Read, Reads,
     Removed, Installed, InLease, Leased, At, Removers
<1> QED
  BY <1>2, <1>5, <1>7, <1>8, <1>9, <1>10, WriteKeeps DEF Steps

LEMMA SaveKeeps ==
  ASSUME IInv, NEW p \in Procs, Save(p)
  PROVE  IInv'
<1> DEFINE files == [disk EXCEPT !.receipt = [id |-> proc[p].id, release |-> proc[p].version,
                                               blocks |-> proc[p].inv.blocks, legacy |-> "none"]]
<1>1. disk \in Disks /\ Account /\ Control(p) /\ Progress(p)
  BY Given
<1>2. At(p, "save") /\ Writes(p, "link", files)
  BY DEF Save
<1>3. Moves(p, "link") /\ disk' = files /\ lease' = lease
  BY <1>2, WriteMoves DEF Steps
<1>4. proc[p].op = "install" /\ InLock(p) /\ ~Unlinked(p)
  BY <1>1, <1>2, Whose DEF At, Removers, InLock, Unlinked, Control, Leased, InLease
<1>5. files \in Disks
  BY <1>1, <1>4, Given DEF Disks, Identities, Commands, Receipts
<1>6. /\ disk'.loaders = disk.loaders
      /\ disk'.receipt.id = proc[p].id
      /\ disk'.receipt.release = proc[p].version
      /\ disk'.receipt.blocks = proc[p].inv.blocks
      /\ disk'.receipt.legacy = "none"
      /\ disk'.lock = disk.lock /\ disk'.bin = disk.bin /\ disk'.command = disk.command
      /\ disk'.startup = disk.startup /\ disk'.block = disk.block /\ disk'.entry = disk.entry
      /\ disk'.record = disk.record /\ disk'.service = disk.service /\ disk'.key = disk.key
      /\ disk'.identity = disk.identity
  BY <1>1, <1>3, Given DEF Disks, Identities, Commands, Receipts
<1> HIDE DEF files
<1>7. Respects(p)
  BY <1>1, <1>2, <1>3, <1>4, <1>6 DEF Respects, NotRevived, Moves, Progress, Installed, At
<1>8. Control(p)' /\ (InLock(p)' => InLock(p))
  BY <1>1, <1>2, <1>3, <1>4, <1>6 DEF Control, Place, Locked, Leased, InLock, InLease, Unlinked, At,
     Moves, InstallSteps, UninstallSteps, PurgeSteps, StartSteps, Removers
<1>9. Progress(p)'
  BY <1>1, <1>2, <1>3, <1>4, <1>6 DEF Account, Progress, Read, Reads, Home, Returned, Installed,
     Removed, PastStop, PastUnlink, PastCommand, PastBlock, InLease, Removers, Registering, Moves,
     At
<1>10. Account'
  BY <1>1, <1>2, <1>3, <1>4, <1>6 DEF Account, TracesAreRecorded, Control, Progress, Read, Reads,
     Removed, Installed, InLease, Leased, At, Removers
<1> QED
  BY <1>2, <1>5, <1>7, <1>8, <1>9, <1>10, WriteKeeps DEF Steps

LEMMA RecoverFirst ==
  ASSUME IInv, NEW p \in Procs, Recover(p, "recover", "store")
  PROVE  IInv'
<1>0. PICK startup \in Recovered(p) :
         At(p, "recover") /\ Writes(p, "store", [disk EXCEPT !.startup = startup])
  BY DEF Recover
<1> DEFINE files == [disk EXCEPT !.startup = startup]
<1>1. disk \in Disks /\ Account /\ Control(p) /\ Progress(p)
  BY Given
<1>2. At(p, "recover") /\ Writes(p, "store", files)
  BY <1>0
<1>3. Moves(p, "store") /\ disk' = files /\ lease' = lease
  BY <1>2, WriteMoves DEF Steps
<1>4. proc[p].op = "install" /\ InLock(p) /\ ~Unlinked(p)
  BY <1>1, <1>2, Whose DEF At, Removers, InLock, Unlinked, Control, Leased, InLease
<1>5. files \in Disks
  BY <1>0, <1>1, <1>4 DEF Recovered, Moved, Disks, Identities, Receipts
<1>6. /\ disk'.loaders = disk.loaders
      /\ disk'.startup = startup /\ startup \in Recovered(p)
      /\ disk'.lock = disk.lock /\ disk'.bin = disk.bin /\ disk'.receipt = disk.receipt
      /\ disk'.command = disk.command /\ disk'.block = disk.block /\ disk'.entry = disk.entry
      /\ disk'.record = disk.record /\ disk'.service = disk.service /\ disk'.key = disk.key
      /\ disk'.identity = disk.identity
  BY <1>0, <1>1, <1>3 DEF Recovered, Moved, Disks, Identities, Receipts
<1> HIDE DEF files
<1>7. Respects(p)
  BY <1>1, <1>2, <1>3, <1>4, <1>6 DEF Respects, NotRevived, Moves, Recovered, Moved
<1>8. Control(p)' /\ (InLock(p)' => InLock(p))
  BY <1>1, <1>2, <1>3, <1>4, <1>6 DEF Control, Place, Locked, Leased, InLock, InLease, Unlinked, At,
     Moves, InstallSteps, UninstallSteps, PurgeSteps, StartSteps, Removers, Recovered, Moved
<1>9. Progress(p)'
  BY <1>1, <1>2, <1>3, <1>4, <1>6 DEF Account, Progress, Read, Reads, Home, Returned, Installed,
     Removed, PastStop, PastUnlink, PastCommand, PastBlock, InLease, Removers, Registering, Moves,
     At, Recovered, Moved
<1>10. Account'
  BY <1>1, <1>2, <1>3, <1>4, <1>6 DEF Account, TracesAreRecorded, Control, Progress, Read, Reads,
     Removed, Installed, InLease, Leased, At, Removers, Recovered, Moved
<1> QED
  BY <1>2, <1>5, <1>7, <1>8, <1>9, <1>10, WriteKeeps DEF Steps

LEMMA RecoverAgain ==
  ASSUME IInv, NEW p \in Procs, Recover(p, "files", "unshell")
  PROVE  IInv'
<1>0. PICK startup \in Recovered(p) :
         At(p, "files") /\ Writes(p, "unshell", [disk EXCEPT !.startup = startup])
  BY DEF Recover
<1> DEFINE files == [disk EXCEPT !.startup = startup]
<1>1. disk \in Disks /\ Account /\ Control(p) /\ Progress(p)
  BY Given
<1>2. At(p, "files") /\ Writes(p, "unshell", files)
  BY <1>0
<1>3. Moves(p, "unshell") /\ disk' = files /\ lease' = lease
  BY <1>2, WriteMoves DEF Steps
<1>4. proc[p].op \in Removers /\ InLock(p) /\ ~Unlinked(p)
  BY <1>1, <1>2, Whose DEF At, Removers, InLock, Unlinked, Control, Leased, InLease
<1>5. files \in Disks
  BY <1>0, <1>1, <1>4 DEF Recovered, Moved, Disks, Identities, Receipts
<1>6. /\ disk'.loaders = disk.loaders
      /\ disk'.startup = startup /\ startup \in Recovered(p)
      /\ disk'.lock = disk.lock /\ disk'.bin = disk.bin /\ disk'.receipt = disk.receipt
      /\ disk'.command = disk.command /\ disk'.block = disk.block /\ disk'.entry = disk.entry
      /\ disk'.record = disk.record /\ disk'.service = disk.service /\ disk'.key = disk.key
      /\ disk'.identity = disk.identity
  BY <1>0, <1>1, <1>3 DEF Recovered, Moved, Disks, Identities, Receipts
<1> HIDE DEF files
<1>7. Respects(p)
  BY <1>1, <1>2, <1>3, <1>4, <1>6 DEF Respects, NotRevived, Moves, Recovered, Moved
<1>8. Control(p)' /\ (InLock(p)' => InLock(p))
  BY <1>1, <1>2, <1>3, <1>4, <1>6 DEF Control, Place, Locked, Leased, InLock, InLease, Unlinked, At,
     Moves, InstallSteps, UninstallSteps, PurgeSteps, StartSteps, Removers, Recovered, Moved
<1>9. Progress(p)'
  BY <1>1, <1>2, <1>3, <1>4, <1>6 DEF Account, Progress, Read, Reads, Home, Returned, Installed,
     Removed, PastStop, PastUnlink, PastCommand, PastBlock, InLease, Removers, Registering, Moves,
     At, Recovered, Moved
<1>10. Account'
  BY <1>1, <1>2, <1>3, <1>4, <1>6 DEF Account, TracesAreRecorded, Control, Progress, Read, Reads,
     Removed, Installed, InLease, Leased, At, Removers, Recovered, Moved
<1> QED
  BY <1>2, <1>5, <1>7, <1>8, <1>9, <1>10, WriteKeeps DEF Steps

LEMMA StopToBind ==
  ASSUME IInv, NEW p \in Procs, proc[p].op = "install", StopService(p, "bind")
  PROVE  IInv'
<1> DEFINE files == [disk EXCEPT !.service = FALSE]
<1>1. disk \in Disks /\ Account /\ Control(p) /\ Progress(p)
  BY Given
<1>2. At(p, "stop") /\ Writes(p, "bind", files)
  BY DEF StopService
<1>3. Moves(p, "bind") /\ disk' = files /\ lease' = lease
  BY <1>2, WriteMoves DEF Steps
<1>4. proc[p].op = "install" /\ InLock(p) /\ ~Unlinked(p) /\ lease = p
  BY <1>1, <1>2, Whose DEF At, Removers, InLock, Unlinked, Control, Leased, InLease
<1>5. files \in Disks
  BY <1>1, <1>4 DEF Disks, Identities
<1>6. /\ disk'.loaders = disk.loaders
      /\ disk'.service = FALSE
      /\ disk'.lock = disk.lock /\ disk'.bin = disk.bin /\ disk'.receipt = disk.receipt
      /\ disk'.command = disk.command /\ disk'.startup = disk.startup /\ disk'.block = disk.block
      /\ disk'.entry = disk.entry /\ disk'.record = disk.record /\ disk'.key = disk.key
      /\ disk'.identity = disk.identity
  BY <1>1, <1>3 DEF Disks, Identities
<1> HIDE DEF files
<1>7. Respects(p)
  BY <1>1, <1>2, <1>3, <1>4, <1>6 DEF Respects, NotRevived, Moves
<1>8. Control(p)' /\ (InLock(p)' => InLock(p))
  BY <1>1, <1>2, <1>3, <1>4, <1>6 DEF Control, Place, Locked, Leased, InLock, InLease, Unlinked, At,
     Moves, InstallSteps, UninstallSteps, PurgeSteps, StartSteps, Removers
<1>9. Progress(p)'
  BY <1>1, <1>2, <1>3, <1>4, <1>6 DEF Account, Progress, Read, Reads, Home, Returned, Installed,
     Removed, PastStop, PastUnlink, PastCommand, PastBlock, InLease, Removers, Registering, Moves,
     At
<1>10. Account'
  BY <1>1, <1>2, <1>3, <1>4, <1>6 DEF Account, TracesAreRecorded, Control, Progress, Read, Reads,
     Removed, Installed, InLease, Leased, At, Removers
<1> QED
  BY <1>2, <1>5, <1>7, <1>8, <1>9, <1>10, WriteKeeps DEF Steps

LEMMA StopToAgents ==
  ASSUME IInv, NEW p \in Procs, proc[p].op \in Removers, StopService(p, "agents")
  PROVE  IInv'
<1> DEFINE files == [disk EXCEPT !.service = FALSE]
<1>1. disk \in Disks /\ Account /\ Control(p) /\ Progress(p)
  BY Given
<1>2. At(p, "stop") /\ Writes(p, "agents", files)
  BY DEF StopService
<1>3. Moves(p, "agents") /\ disk' = files /\ lease' = lease
  BY <1>2, WriteMoves DEF Steps
<1>4. proc[p].op \in Removers /\ InLock(p) /\ ~Unlinked(p) /\ lease = p
  BY <1>1, <1>2, Whose DEF At, Removers, InLock, Unlinked, Control, Leased, InLease
<1>5. files \in Disks
  BY <1>1, <1>4 DEF Disks, Identities
<1>6. /\ disk'.loaders = disk.loaders
      /\ disk'.service = FALSE
      /\ disk'.lock = disk.lock /\ disk'.bin = disk.bin /\ disk'.receipt = disk.receipt
      /\ disk'.command = disk.command /\ disk'.startup = disk.startup /\ disk'.block = disk.block
      /\ disk'.entry = disk.entry /\ disk'.record = disk.record /\ disk'.key = disk.key
      /\ disk'.identity = disk.identity
  BY <1>1, <1>3 DEF Disks, Identities
<1> HIDE DEF files
<1>7. Respects(p)
  BY <1>1, <1>2, <1>3, <1>4, <1>6 DEF Respects, NotRevived, Moves
<1>8. Control(p)' /\ (InLock(p)' => InLock(p))
  BY <1>1, <1>2, <1>3, <1>4, <1>6 DEF Control, Place, Locked, Leased, InLock, InLease, Unlinked, At,
     Moves, InstallSteps, UninstallSteps, PurgeSteps, StartSteps, Removers
<1>9. Progress(p)'
  BY <1>1, <1>2, <1>3, <1>4, <1>6 DEF Account, Progress, Read, Reads, Home, Returned, Installed,
     Removed, PastStop, PastUnlink, PastCommand, PastBlock, InLease, Removers, Registering, Moves,
     At
<1>10. Account'
  BY <1>1, <1>2, <1>3, <1>4, <1>6 DEF Account, TracesAreRecorded, Control, Progress, Read, Reads,
     Removed, Installed, InLease, Leased, At, Removers
<1> QED
  BY <1>2, <1>5, <1>7, <1>8, <1>9, <1>10, WriteKeeps DEF Steps

----------------------------------------------------------------------------
(* install, after the lease *)

LEMMA CheckWrites ==
  ASSUME IInv, NEW p \in Procs, Check(p), ~Refuses(p)
  PROVE  IInv'
<1> DEFINE files == [disk EXCEPT !.root = TRUE]
<1>1. disk \in Disks /\ Account /\ Control(p) /\ Progress(p)
  BY Given
<1>2. At(p, "check") /\ Writes(p, "open", files)
  BY DEF Check
<1>3. Moves(p, "open") /\ disk' = files /\ lease' = lease
  BY <1>2, WriteMoves DEF Steps
<1>4. proc[p].op = "install"
  BY <1>1, <1>2, Whose DEF At, Removers, InLock, Unlinked, Control, Leased, InLease
<1>5. files \in Disks
  BY <1>1, <1>4 DEF Disks, Identities
<1>6. /\ disk'.loaders = disk.loaders
      /\ disk'.lock = disk.lock /\ disk'.bin = disk.bin /\ disk'.receipt = disk.receipt
      /\ disk'.command = disk.command /\ disk'.startup = disk.startup /\ disk'.block = disk.block
      /\ disk'.entry = disk.entry /\ disk'.record = disk.record /\ disk'.service = disk.service
      /\ disk'.key = disk.key /\ disk'.identity = disk.identity
  BY <1>1, <1>3 DEF Disks, Identities
<1> HIDE DEF files
<1>7. Respects(p)
  BY <1>1, <1>2, <1>3, <1>4, <1>6 DEF Respects, NotRevived, Moves
<1>8. Control(p)' /\ (InLock(p)' => InLock(p))
  BY <1>1, <1>2, <1>3, <1>4, <1>6 DEF Control, Place, Locked, Leased, InLock, InLease, Unlinked, At,
     Moves, InstallSteps, UninstallSteps, PurgeSteps, StartSteps, Removers
<1>9. Progress(p)'
  BY <1>1, <1>2, <1>3, <1>4, <1>6 DEF Account, Progress, Read, Reads, Home, Returned, Installed,
     Removed, PastStop, PastUnlink, PastCommand, PastBlock, InLease, Removers, Registering, Moves,
     At
<1>10. Account'
  BY <1>1, <1>2, <1>3, <1>4, <1>6 DEF Account, TracesAreRecorded, Control, Progress, Read, Reads,
     Removed, Installed, InLease, Leased, At, Removers
<1> QED
  BY <1>2, <1>5, <1>7, <1>8, <1>9, <1>10, WriteKeeps DEF Steps

LEMMA LinkWrites ==
  ASSUME IInv, NEW p \in Procs, Link(p), ~CommandTaken
  PROVE  IInv'
<1> DEFINE files == [disk EXCEPT !.command = "ours"]
<1>1. disk \in Disks /\ Account /\ Control(p) /\ Progress(p)
  BY Given
<1>2. At(p, "link") /\ Writes(p, "loaders", files)
  BY DEF Link
<1>3. Moves(p, "loaders") /\ disk' = files /\ lease' = lease
  BY <1>2, WriteMoves DEF Steps
<1>4. proc[p].op = "install" /\ InLock(p) /\ ~Unlinked(p)
  BY <1>1, <1>2, Whose DEF At, Removers, InLock, Unlinked, Control, Leased, InLease
<1>5. files \in Disks
  BY <1>1, <1>4 DEF Disks, Identities
<1>6. /\ disk'.loaders = disk.loaders
      /\ disk'.command = "ours"
      /\ disk'.lock = disk.lock /\ disk'.bin = disk.bin /\ disk'.receipt = disk.receipt
      /\ disk'.startup = disk.startup /\ disk'.block = disk.block /\ disk'.entry = disk.entry
      /\ disk'.record = disk.record /\ disk'.service = disk.service /\ disk'.key = disk.key
      /\ disk'.identity = disk.identity
  BY <1>1, <1>3 DEF Disks, Identities
<1> HIDE DEF files
<1>7. Respects(p)
  BY <1>1, <1>2, <1>3, <1>4, <1>6 DEF Respects, NotRevived, Moves
<1>8. Control(p)' /\ (InLock(p)' => InLock(p))
  BY <1>1, <1>2, <1>3, <1>4, <1>6 DEF Control, Place, Locked, Leased, InLock, InLease, Unlinked, At,
     Moves, InstallSteps, UninstallSteps, PurgeSteps, StartSteps, Removers
<1>9. Progress(p)'
  BY <1>1, <1>2, <1>3, <1>4, <1>6 DEF Account, Progress, Read, Reads, Home, Returned, Installed,
     Removed, PastStop, PastUnlink, PastCommand, PastBlock, InLease, Removers, Registering, Moves,
     At
<1>10. Account'
  BY <1>1, <1>2, <1>3, <1>4, <1>6 DEF Account, TracesAreRecorded, Control, Progress, Read, Reads,
     Removed, Installed, InLease, Leased, At, Removers
<1> QED
  BY <1>2, <1>5, <1>7, <1>8, <1>9, <1>10, WriteKeeps DEF Steps

LEMMA LoadersKeep ==
  ASSUME IInv, NEW p \in Procs, WriteLoaders(p)
  PROVE  IInv'
<1>0. PICK written \in BOOLEAN : At(p, "loaders") /\ Writes(p, "shell", [disk EXCEPT !.loaders = written])
  BY Given DEF WriteLoaders, Disks
<1> DEFINE files == [disk EXCEPT !.loaders = written]
<1>1. disk \in Disks /\ Account /\ Control(p) /\ Progress(p)
  BY Given
<1>2. At(p, "loaders") /\ Writes(p, "shell", files)
  BY <1>0
<1>3. Moves(p, "shell") /\ disk' = files /\ lease' = lease
  BY <1>2, WriteMoves DEF Steps
<1>4. proc[p].op = "install" /\ InLock(p) /\ ~Unlinked(p)
  BY <1>1, <1>2, Whose DEF At, Removers, InLock, Unlinked, Control, Leased, InLease
<1>5. files \in Disks
  BY <1>0, <1>1, <1>4 DEF Disks, Identities
<1>6. /\ disk'.lock = disk.lock /\ disk'.bin = disk.bin /\ disk'.receipt = disk.receipt
      /\ disk'.command = disk.command /\ disk'.startup = disk.startup /\ disk'.block = disk.block
      /\ disk'.entry = disk.entry /\ disk'.record = disk.record /\ disk'.service = disk.service
      /\ disk'.key = disk.key /\ disk'.identity = disk.identity
  BY <1>0, <1>1, <1>3 DEF Disks, Identities
<1> HIDE DEF files
<1>7. Respects(p)
  BY <1>0, <1>1, <1>2, <1>3, <1>4, <1>6 DEF Respects, NotRevived, Moves
<1>8. Control(p)' /\ (InLock(p)' => InLock(p))
  BY <1>0, <1>1, <1>2, <1>3, <1>4, <1>6 DEF Control, Place, Locked, Leased, InLock, InLease,
     Unlinked, At, Moves, InstallSteps, UninstallSteps, PurgeSteps, StartSteps, Removers
<1>9. Progress(p)'
  BY <1>0, <1>1, <1>2, <1>3, <1>4, <1>6 DEF Account, Progress, Read, Reads, Home, Returned,
     Installed, Removed, PastStop, PastUnlink, PastCommand, PastBlock, InLease, Removers,
     Registering, Moves, At
<1>10. Account'
  BY <1>0, <1>1, <1>2, <1>3, <1>4, <1>6 DEF Account, TracesAreRecorded, Control, Progress, Read,
     Reads, Removed, Installed, InLease, Leased, At, Removers
<1> QED
  BY <1>2, <1>5, <1>7, <1>8, <1>9, <1>10, WriteKeeps DEF Steps

LEMMA BlockRecorded ==
  ASSUME IInv, NEW p \in Procs, At(p, "shell"), Writes(p, "block", [disk EXCEPT !.receipt.blocks = TRUE])
  PROVE  IInv'
<1> DEFINE files == [disk EXCEPT !.receipt.blocks = TRUE]
<1>1. disk \in Disks /\ Account /\ Control(p) /\ Progress(p)
  BY Given
<1>2. At(p, "shell") /\ Writes(p, "block", files)
  BY DEF At
<1>3. Moves(p, "block") /\ disk' = files /\ lease' = lease
  BY <1>2, WriteMoves DEF Steps
<1>4. proc[p].op = "install" /\ InLock(p) /\ ~Unlinked(p)
  BY <1>1, <1>2, Whose DEF At, Removers, InLock, Unlinked, Control, Leased, InLease
<1>5. files \in Disks
  BY <1>1, <1>4 DEF Disks, Identities, Receipts
<1>6. /\ disk'.loaders = disk.loaders
      /\ disk'.receipt.id = disk.receipt.id
      /\ disk'.receipt.release = disk.receipt.release
      /\ disk'.receipt.blocks = TRUE
      /\ disk'.receipt.legacy = disk.receipt.legacy
      /\ disk'.lock = disk.lock /\ disk'.bin = disk.bin /\ disk'.command = disk.command
      /\ disk'.startup = disk.startup /\ disk'.block = disk.block /\ disk'.entry = disk.entry
      /\ disk'.record = disk.record /\ disk'.service = disk.service /\ disk'.key = disk.key
      /\ disk'.identity = disk.identity
  BY <1>1, <1>3 DEF Disks, Identities, Receipts
<1> HIDE DEF files
<1>7. Respects(p)
  BY <1>1, <1>2, <1>3, <1>4, <1>6 DEF Respects, NotRevived, Moves
<1>8. Control(p)' /\ (InLock(p)' => InLock(p))
  BY <1>1, <1>2, <1>3, <1>4, <1>6 DEF Control, Place, Locked, Leased, InLock, InLease, Unlinked, At,
     Moves, InstallSteps, UninstallSteps, PurgeSteps, StartSteps, Removers
<1>9. Progress(p)'
  BY <1>1, <1>2, <1>3, <1>4, <1>6 DEF Account, Progress, Read, Reads, Home, Returned, Installed,
     Removed, PastStop, PastUnlink, PastCommand, PastBlock, InLease, Removers, Registering, Moves,
     At
<1>10. Account'
  BY <1>1, <1>2, <1>3, <1>4, <1>6 DEF Account, TracesAreRecorded, Control, Progress, Read, Reads,
     Removed, Installed, InLease, Leased, At, Removers
<1> QED
  BY <1>2, <1>5, <1>7, <1>8, <1>9, <1>10, WriteKeeps DEF Steps

LEMMA NoBlock ==
  ASSUME IInv, NEW p \in Procs, At(p, "shell"), Writes(p, "finish", disk)
  PROVE  IInv'
<1> DEFINE files == disk
<1>1. disk \in Disks /\ Account /\ Control(p) /\ Progress(p)
  BY Given
<1>2. At(p, "shell") /\ Writes(p, "finish", files)
  BY DEF At
<1>3. Moves(p, "finish") /\ disk' = files /\ lease' = lease
  BY <1>2, WriteMoves DEF Steps
<1>4. proc[p].op = "install" /\ InLock(p) /\ ~Unlinked(p)
  BY <1>1, <1>2, Whose DEF At, Removers, InLock, Unlinked, Control, Leased, InLease
<1>5. files \in Disks
  BY <1>1, <1>4 DEF Disks, Identities
<1>6. disk' = disk
  BY <1>1, <1>3 DEF Disks, Identities
<1> HIDE DEF files
<1>7. Respects(p)
  BY <1>1, <1>2, <1>3, <1>4, <1>6 DEF Respects, NotRevived, Moves
<1>8. Control(p)' /\ (InLock(p)' => InLock(p))
  BY <1>1, <1>2, <1>3, <1>4, <1>6 DEF Control, Place, Locked, Leased, InLock, InLease, Unlinked, At,
     Moves, InstallSteps, UninstallSteps, PurgeSteps, StartSteps, Removers
<1>9. Progress(p)'
  BY <1>1, <1>2, <1>3, <1>4, <1>6 DEF Account, Progress, Read, Reads, Home, Returned, Installed,
     Removed, PastStop, PastUnlink, PastCommand, PastBlock, InLease, Removers, Registering, Moves,
     At
<1>10. Account'
  BY <1>1, <1>2, <1>3, <1>4, <1>6 DEF Account, TracesAreRecorded, Control, Progress, Read, Reads,
     Removed, Installed, InLease, Leased, At, Removers
<1> QED
  BY <1>2, <1>5, <1>7, <1>8, <1>9, <1>10, WriteKeeps DEF Steps

LEMMA WriteBlockKeeps ==
  ASSUME IInv, NEW p \in Procs, WriteBlock(p)
  PROVE  IInv'
<1>0. PICK written \in {"ours", disk.block} :
         At(p, "block") /\ Writes(p, "finish", [disk EXCEPT !.block = written])
  BY DEF WriteBlock
<1> DEFINE files == [disk EXCEPT !.block = written]
<1>1. disk \in Disks /\ Account /\ Control(p) /\ Progress(p)
  BY Given
<1>2. At(p, "block") /\ Writes(p, "finish", files)
  BY <1>0
<1>3. Moves(p, "finish") /\ disk' = files /\ lease' = lease
  BY <1>2, WriteMoves DEF Steps
<1>4. proc[p].op = "install" /\ InLock(p) /\ ~Unlinked(p)
  BY <1>1, <1>2, Whose DEF At, Removers, InLock, Unlinked, Control, Leased, InLease
<1>5. files \in Disks
  BY <1>0, <1>1, <1>4 DEF Disks, Identities
<1>6. /\ disk'.loaders = disk.loaders
      /\ disk'.block = written
      /\ disk'.lock = disk.lock /\ disk'.bin = disk.bin /\ disk'.receipt = disk.receipt
      /\ disk'.command = disk.command /\ disk'.startup = disk.startup /\ disk'.entry = disk.entry
      /\ disk'.record = disk.record /\ disk'.service = disk.service /\ disk'.key = disk.key
      /\ disk'.identity = disk.identity
  BY <1>0, <1>1, <1>3 DEF Disks, Identities
<1> HIDE DEF files
<1>7. Respects(p)
  BY <1>0, <1>1, <1>2, <1>3, <1>4, <1>6 DEF Respects, NotRevived, Moves
<1>8. Control(p)' /\ (InLock(p)' => InLock(p))
  BY <1>0, <1>1, <1>2, <1>3, <1>4, <1>6 DEF Control, Place, Locked, Leased, InLock, InLease,
     Unlinked, At, Moves, InstallSteps, UninstallSteps, PurgeSteps, StartSteps, Removers
<1>9. Progress(p)'
  BY <1>0, <1>1, <1>2, <1>3, <1>4, <1>6 DEF Account, Progress, Read, Reads, Home, Returned,
     Installed, Removed, PastStop, PastUnlink, PastCommand, PastBlock, InLease, Removers,
     Registering, Moves, At
<1>10. Account'
  BY <1>0, <1>1, <1>2, <1>3, <1>4, <1>6 DEF Account, TracesAreRecorded, Control, Progress, Read,
     Reads, Removed, Installed, InLease, Leased, At, Removers
<1> QED
  BY <1>2, <1>5, <1>7, <1>8, <1>9, <1>10, WriteKeeps DEF Steps

----------------------------------------------------------------------------
(* uninstall and purge *)

LEMMA NothingRegistered ==
  ASSUME IInv, NEW p \in Procs, At(p, "agents"), ~Recorded, Writes(p, "files", disk)
  PROVE  IInv'
<1> DEFINE files == disk
<1>1. disk \in Disks /\ Account /\ Control(p) /\ Progress(p)
  BY Given
<1>2. At(p, "agents") /\ Writes(p, "files", files)
  BY DEF At
<1>3. Moves(p, "files") /\ disk' = files /\ lease' = lease
  BY <1>2, WriteMoves DEF Steps
<1>4. proc[p].op \in Removers /\ InLock(p) /\ ~Unlinked(p) /\ lease = p
  BY <1>1, <1>2, Whose DEF At, Removers, InLock, Unlinked, Control, Leased, InLease
<1>5. files \in Disks
  BY <1>1, <1>4 DEF Recorded, Disks
<1>6. disk' = disk
  BY <1>1, <1>3 DEF Recorded, Disks
<1> HIDE DEF files
<1>7. Respects(p)
  BY <1>1, <1>2, <1>3, <1>4, <1>6 DEF Respects, NotRevived, Moves, Recorded
<1>8. Control(p)' /\ (InLock(p)' => InLock(p))
  BY <1>1, <1>2, <1>3, <1>4, <1>6 DEF Control, Place, Locked, Leased, InLock, InLease, Unlinked, At,
     Moves, InstallSteps, UninstallSteps, PurgeSteps, StartSteps, Removers, Recorded
<1>9. Progress(p)'
  BY <1>1, <1>2, <1>3, <1>4, <1>6 DEF Account, Progress, Read, Reads, Home, Returned, Installed,
     Removed, PastStop, PastUnlink, PastCommand, PastBlock, InLease, Removers, Registering, Moves,
     At, Recorded, Control,
     Leased
<1>10. Account'
  BY <1>1, <1>2, <1>3, <1>4, <1>6 DEF Account, TracesAreRecorded, Control, Progress, Read, Reads,
     Removed, Installed, InLease, Leased, At, Removers, Recorded
<1> QED
  BY <1>2, <1>5, <1>7, <1>8, <1>9, <1>10, WriteKeeps DEF Steps

LEMMA EntryRemoved ==
  ASSUME IInv, NEW p \in Procs, At(p, "agents"), Writes(p, "forget", [disk EXCEPT !.entry = "none"])
  PROVE  IInv'
<1> DEFINE files == [disk EXCEPT !.entry = "none"]
<1>1. disk \in Disks /\ Account /\ Control(p) /\ Progress(p)
  BY Given
<1>2. At(p, "agents") /\ Writes(p, "forget", files)
  BY DEF At
<1>3. Moves(p, "forget") /\ disk' = files /\ lease' = lease
  BY <1>2, WriteMoves DEF Steps
<1>4. proc[p].op \in Removers /\ InLock(p) /\ ~Unlinked(p) /\ lease = p
  BY <1>1, <1>2, Whose DEF At, Removers, InLock, Unlinked, Control, Leased, InLease
<1>5. files \in Disks
  BY <1>1, <1>4 DEF Disks, Identities
<1>6. /\ disk'.loaders = disk.loaders
      /\ disk'.entry = "none"
      /\ disk'.lock = disk.lock /\ disk'.bin = disk.bin /\ disk'.receipt = disk.receipt
      /\ disk'.command = disk.command /\ disk'.startup = disk.startup /\ disk'.block = disk.block
      /\ disk'.record = disk.record /\ disk'.service = disk.service /\ disk'.key = disk.key
      /\ disk'.identity = disk.identity
  BY <1>1, <1>3 DEF Disks, Identities
<1> HIDE DEF files
<1>7. Respects(p)
  BY <1>1, <1>2, <1>3, <1>4, <1>6 DEF Respects, NotRevived, Moves
<1>8. Control(p)' /\ (InLock(p)' => InLock(p))
  BY <1>1, <1>2, <1>3, <1>4, <1>6 DEF Control, Place, Locked, Leased, InLock, InLease, Unlinked, At,
     Moves, InstallSteps, UninstallSteps, PurgeSteps, StartSteps, Removers
<1>9. Progress(p)'
  BY <1>1, <1>2, <1>3, <1>4, <1>6 DEF Account, Progress, Read, Reads, Home, Returned, Installed,
     Removed, PastStop, PastUnlink, PastCommand, PastBlock, InLease, Removers, Registering, Moves,
     At
<1>10. Account'
  BY <1>1, <1>2, <1>3, <1>4, <1>6 DEF Account, TracesAreRecorded, Control, Progress, Read, Reads,
     Removed, Installed, InLease, Leased, At, Removers
<1> QED
  BY <1>2, <1>5, <1>7, <1>8, <1>9, <1>10, WriteKeeps DEF Steps

LEMMA ForgetKeeps ==
  ASSUME IInv, NEW p \in Procs, Forget(p)
  PROVE  IInv'
<1> DEFINE files == [disk EXCEPT !.record = "none"]
<1>1. disk \in Disks /\ Account /\ Control(p) /\ Progress(p)
  BY Given
<1>2. At(p, "forget") /\ Writes(p, "files", files)
  BY DEF Forget, Publishes
<1>3. Moves(p, "files") /\ disk' = files /\ lease' = lease
  BY <1>2, WriteMoves DEF Steps
<1>4. proc[p].op \in Removers /\ InLock(p) /\ ~Unlinked(p) /\ lease = p
  BY <1>1, <1>2, Whose DEF At, Removers, InLock, Unlinked, Control, Leased, InLease
<1>5. files \in Disks
  BY <1>1, <1>4 DEF Disks, Identities
<1>6. /\ disk'.loaders = disk.loaders
      /\ disk'.record = "none"
      /\ disk'.lock = disk.lock /\ disk'.bin = disk.bin /\ disk'.receipt = disk.receipt
      /\ disk'.command = disk.command /\ disk'.startup = disk.startup /\ disk'.block = disk.block
      /\ disk'.entry = disk.entry /\ disk'.service = disk.service /\ disk'.key = disk.key
      /\ disk'.identity = disk.identity
  BY <1>1, <1>3 DEF Disks, Identities
<1> HIDE DEF files
<1>7. Respects(p)
  BY <1>1, <1>2, <1>3, <1>4, <1>6 DEF Respects, NotRevived, Moves
<1>8. Control(p)' /\ (InLock(p)' => InLock(p))
  BY <1>1, <1>2, <1>3, <1>4, <1>6 DEF Control, Place, Locked, Leased, InLock, InLease, Unlinked, At,
     Moves, InstallSteps, UninstallSteps, PurgeSteps, StartSteps, Removers
<1>9. Progress(p)'
  BY <1>1, <1>2, <1>3, <1>4, <1>6 DEF Account, Progress, Read, Reads, Home, Returned, Installed,
     Removed, PastStop, PastUnlink, PastCommand, PastBlock, InLease, Removers, Registering, Moves,
     At, Control, Leased
<1>10. Account'
  BY <1>1, <1>2, <1>3, <1>4, <1>6 DEF Account, TracesAreRecorded, Control, Progress, Read, Reads,
     Removed, Installed, InLease, Leased, At, Removers
<1> QED
  BY <1>2, <1>5, <1>7, <1>8, <1>9, <1>10, WriteKeeps DEF Steps

LEMMA RemoveBlockKeeps ==
  ASSUME IInv, NEW p \in Procs, RemoveBlock(p)
  PROVE  IInv'
<1>0. PICK block \in IF proc[p].inv.blocks /\ disk.block \in {"ours", "left"}
                    THEN {"none", "left"} ELSE {disk.block} :
         At(p, "unshell") /\ Writes(p, "uncommand", [disk EXCEPT !.block = block])
  BY DEF RemoveBlock
<1> DEFINE files == [disk EXCEPT !.block = block]
<1>1. disk \in Disks /\ Account /\ Control(p) /\ Progress(p)
  BY Given
<1>2. At(p, "unshell") /\ Writes(p, "uncommand", files)
  BY <1>0
<1>3. Moves(p, "uncommand") /\ disk' = files /\ lease' = lease
  BY <1>2, WriteMoves DEF Steps
<1>4. proc[p].op \in Removers /\ InLock(p) /\ ~Unlinked(p) /\ (disk.block = "ours" => proc[p].inv.blocks)
  BY <1>1, <1>2, Whose DEF At, Removers, InLock, Unlinked, Control, Leased, InLease, Account,
     TracesAreRecorded, Progress, Read, Reads
<1>5. files \in Disks
  BY <1>0, <1>1, <1>4 DEF Disks, Identities, Receipts
<1>6. /\ disk'.loaders = disk.loaders
      /\ disk'.block # "ours"
      /\ disk'.lock = disk.lock /\ disk'.bin = disk.bin /\ disk'.receipt = disk.receipt
      /\ disk'.command = disk.command /\ disk'.startup = disk.startup /\ disk'.entry = disk.entry
      /\ disk'.record = disk.record /\ disk'.service = disk.service /\ disk'.key = disk.key
      /\ disk'.identity = disk.identity
  BY <1>0, <1>1, <1>3, <1>4 DEF Disks, Identities, Receipts
<1> HIDE DEF files
<1>7. Respects(p)
  BY <1>1, <1>2, <1>3, <1>4, <1>6 DEF Respects, NotRevived, Moves
<1>8. Control(p)' /\ (InLock(p)' => InLock(p))
  BY <1>1, <1>2, <1>3, <1>4, <1>6 DEF Control, Place, Locked, Leased, InLock, InLease, Unlinked, At,
     Moves, InstallSteps, UninstallSteps, PurgeSteps, StartSteps, Removers
<1>9. Progress(p)'
  BY <1>1, <1>2, <1>3, <1>4, <1>6 DEF Account, Progress, Read, Reads, Home, Returned, Installed,
     Removed, PastStop, PastUnlink, PastCommand, PastBlock, InLease, Removers, Registering, Moves,
     At
<1>10. Account'
  BY <1>1, <1>2, <1>3, <1>4, <1>6 DEF Account, TracesAreRecorded, Control, Progress, Read, Reads,
     Removed, Installed, InLease, Leased, At, Removers
<1> QED
  BY <1>2, <1>5, <1>7, <1>8, <1>9, <1>10, WriteKeeps DEF Steps

LEMMA RemoveCommandKeeps ==
  ASSUME IInv, NEW p \in Procs, RemoveCommand(p)
  PROVE  IInv'
<1> DEFINE files == [disk EXCEPT !.loaders = FALSE, !.command =
             IF disk.command = "ours" THEN "none" ELSE disk.command]
<1>1. disk \in Disks /\ Account /\ Control(p) /\ Progress(p)
  BY Given
<1>2. At(p, "uncommand") /\ Writes(p, "clean", files)
  BY DEF RemoveCommand
<1>3. Moves(p, "clean") /\ disk' = files /\ lease' = lease
  BY <1>2, WriteMoves DEF Steps
<1>4. proc[p].op \in Removers /\ InLock(p) /\ ~Unlinked(p)
  BY <1>1, <1>2, Whose DEF At, Removers, InLock, Unlinked, Control, Leased, InLease
<1>5. files \in Disks
  <2>1. PICK command \in {"none", "other"} :
             files = [[disk EXCEPT !.loaders = FALSE] EXCEPT !.command = command]
    BY <1>1 DEF Disks
  <2>2. [disk EXCEPT !.loaders = FALSE] \in Disks
    BY <1>1 DEF Disks
  <2> HIDE DEF files
  <2> QED
    BY <2>1, <2>2 DEF Disks
<1>6. /\ disk'.loaders = FALSE
      /\ disk'.command # "ours"
      /\ disk'.lock = disk.lock /\ disk'.bin = disk.bin /\ disk'.receipt = disk.receipt
      /\ disk'.startup = disk.startup /\ disk'.block = disk.block /\ disk'.entry = disk.entry
      /\ disk'.record = disk.record /\ disk'.service = disk.service /\ disk'.key = disk.key
      /\ disk'.identity = disk.identity
  BY <1>1, <1>3 DEF Disks, Identities
<1> HIDE DEF files
<1>7. Respects(p)
  BY <1>1, <1>2, <1>3, <1>4, <1>6 DEF Respects, NotRevived, Moves
<1>8. Control(p)' /\ (InLock(p)' => InLock(p))
  BY <1>1, <1>2, <1>3, <1>4, <1>6 DEF Control, Place, Locked, Leased, InLock, InLease, Unlinked, At,
     Moves, InstallSteps, UninstallSteps, PurgeSteps, StartSteps, Removers
<1>9. Progress(p)'
  BY <1>1, <1>2, <1>3, <1>4, <1>6 DEF Account, Progress, Read, Reads, Home, Returned, Installed,
     Removed, PastStop, PastUnlink, PastCommand, PastBlock, InLease, Removers, Registering, Moves,
     At
<1>10. Account'
  BY <1>1, <1>2, <1>3, <1>4, <1>6 DEF Account, TracesAreRecorded, Control, Progress, Read, Reads,
     Removed, Installed, InLease, Leased, At, Removers
<1> QED
  BY <1>2, <1>5, <1>7, <1>8, <1>9, <1>10, WriteKeeps DEF Steps

LEMMA CleanWithoutIdentity ==
  ASSUME IInv, NEW p \in Procs, CleanLegacy(p), proc[p].id = 0
  PROVE  IInv'
<1> DEFINE files == [disk EXCEPT !.startup = Cleaned(p)]
<1>1. disk \in Disks /\ Account /\ Control(p) /\ Progress(p)
  BY Given
<1>2. At(p, "clean") /\ Writes(p, "record", files)
  BY DEF CleanLegacy
<1>3. Moves(p, "record") /\ disk' = files /\ lease' = lease
  BY <1>2, WriteMoves DEF Steps
<1>4. proc[p].op \in Removers /\ InLock(p) /\ ~Unlinked(p)
  BY <1>1, <1>2, Whose DEF At, Removers, InLock, Unlinked, Control, Leased, InLease
<1>5. files \in Disks
  BY <1>1, <1>4 DEF Cleaned, Moved, Disks, Identities
<1>6. /\ disk'.loaders = disk.loaders
      /\ disk'.startup = Cleaned(p)
      /\ disk'.lock = disk.lock /\ disk'.bin = disk.bin /\ disk'.receipt = disk.receipt
      /\ disk'.command = disk.command /\ disk'.block = disk.block /\ disk'.entry = disk.entry
      /\ disk'.record = disk.record /\ disk'.service = disk.service /\ disk'.key = disk.key
      /\ disk'.identity = disk.identity
  BY <1>1, <1>3 DEF Cleaned, Moved, Disks, Identities
<1> HIDE DEF files
<1>7. Respects(p)
  BY <1>1, <1>2, <1>3, <1>4, <1>6 DEF Respects, NotRevived, Moves, Cleaned, Moved
<1>8. Control(p)' /\ (InLock(p)' => InLock(p))
  BY <1>1, <1>2, <1>3, <1>4, <1>6 DEF Control, Place, Locked, Leased, InLock, InLease, Unlinked, At,
     Moves, InstallSteps, UninstallSteps, PurgeSteps, StartSteps, Removers, Cleaned, Moved
<1>9. Progress(p)'
  BY <1>1, <1>2, <1>3, <1>4, <1>6 DEF Account, Progress, Read, Reads, Home, Returned, Installed,
     Removed, PastStop, PastUnlink, PastCommand, PastBlock, InLease, Removers, Registering, Moves,
     At, Cleaned, Moved
<1>10. Account'
  BY <1>1, <1>2, <1>3, <1>4, <1>6 DEF Account, TracesAreRecorded, Control, Progress, Read, Reads,
     Removed, Installed, InLease, Leased, At, Removers, Cleaned, Moved, Home, Returned
<1> QED
  BY <1>2, <1>5, <1>7, <1>8, <1>9, <1>10, WriteKeeps DEF Steps

LEMMA CleanWithIdentity ==
  ASSUME IInv, NEW p \in Procs, CleanLegacy(p), proc[p].id # 0
  PROVE  IInv'
<1> DEFINE files == [disk EXCEPT !.startup = Cleaned(p)]
<1>1. disk \in Disks /\ Account /\ Control(p) /\ Progress(p)
  BY Given
<1>2. At(p, "clean") /\ Writes(p, "settle", files)
  BY DEF CleanLegacy
<1>3. Moves(p, "settle") /\ disk' = files /\ lease' = lease
  BY <1>2, WriteMoves DEF Steps
<1>4. proc[p].op \in Removers /\ InLock(p) /\ ~Unlinked(p)
  BY <1>1, <1>2, Whose DEF At, Removers, InLock, Unlinked, Control, Leased, InLease
<1>5. files \in Disks
  BY <1>1, <1>4 DEF Cleaned, Moved, Disks, Identities
<1>6. /\ disk'.loaders = disk.loaders
      /\ disk'.startup = Cleaned(p)
      /\ disk'.lock = disk.lock /\ disk'.bin = disk.bin /\ disk'.receipt = disk.receipt
      /\ disk'.command = disk.command /\ disk'.block = disk.block /\ disk'.entry = disk.entry
      /\ disk'.record = disk.record /\ disk'.service = disk.service /\ disk'.key = disk.key
      /\ disk'.identity = disk.identity
  BY <1>1, <1>3 DEF Cleaned, Moved, Disks, Identities
<1> HIDE DEF files
<1>7. Respects(p)
  BY <1>1, <1>2, <1>3, <1>4, <1>6 DEF Respects, NotRevived, Moves, Cleaned, Moved
<1>8. Control(p)' /\ (InLock(p)' => InLock(p))
  BY <1>1, <1>2, <1>3, <1>4, <1>6 DEF Control, Place, Locked, Leased, InLock, InLease, Unlinked, At,
     Moves, InstallSteps, UninstallSteps, PurgeSteps, StartSteps, Removers, Cleaned, Moved
<1>9. Progress(p)'
  BY <1>1, <1>2, <1>3, <1>4, <1>6 DEF Account, Progress, Read, Reads, Home, Returned, Installed,
     Removed, PastStop, PastUnlink, PastCommand, PastBlock, InLease, Removers, Registering, Moves,
     At, Cleaned, Moved
<1>10. Account'
  BY <1>1, <1>2, <1>3, <1>4, <1>6 DEF Account, TracesAreRecorded, Control, Progress, Read, Reads,
     Removed, Installed, InLease, Leased, At, Removers, Cleaned, Moved, Home, Returned
<1> QED
  BY <1>2, <1>5, <1>7, <1>8, <1>9, <1>10, WriteKeeps DEF Steps

LEMMA TombstoneKeeps ==
  ASSUME IInv, NEW p \in Procs, Tombstone(p)
  PROVE  IInv'
<1> DEFINE files == [disk EXCEPT !.identity.purging = TRUE]
<1>1. disk \in Disks /\ Account /\ Control(p) /\ Progress(p)
  BY Given
<1>2. At(p, "tombstone") /\ Writes(p, "key", files)
  BY DEF Tombstone, Publishes
<1>3. Moves(p, "key") /\ disk' = files /\ lease' = lease
  BY <1>2, WriteMoves DEF Steps
<1>4. proc[p].op = "purge" /\ InLock(p) /\ ~Unlinked(p) /\ lease = p
  BY <1>1, <1>2, Whose DEF At, Removers, InLock, Unlinked, Control, Leased, InLease
<1>5. files \in Disks
  BY <1>1, <1>4 DEF Disks, Identities
<1>6. /\ disk'.loaders = disk.loaders
      /\ disk'.identity.id = disk.identity.id
      /\ disk'.identity.purging = TRUE
      /\ disk'.identity.exe = disk.identity.exe
      /\ disk'.identity.pending = disk.identity.pending
      /\ disk'.lock = disk.lock /\ disk'.bin = disk.bin /\ disk'.receipt = disk.receipt
      /\ disk'.command = disk.command /\ disk'.startup = disk.startup /\ disk'.block = disk.block
      /\ disk'.entry = disk.entry /\ disk'.record = disk.record /\ disk'.service = disk.service
      /\ disk'.key = disk.key
  BY <1>1, <1>3 DEF Disks, Identities
<1> HIDE DEF files
<1>7. Respects(p)
  BY <1>1, <1>2, <1>3, <1>4, <1>6 DEF Respects, NotRevived, Moves
<1>8. Control(p)' /\ (InLock(p)' => InLock(p))
  BY <1>1, <1>2, <1>3, <1>4, <1>6 DEF Control, Place, Locked, Leased, InLock, InLease, Unlinked, At,
     Moves, InstallSteps, UninstallSteps, PurgeSteps, StartSteps, Removers
<1>9. Progress(p)'
  BY <1>1, <1>2, <1>3, <1>4, <1>6 DEF Account, Progress, Read, Reads, Home, Returned, Installed,
     Removed, PastStop, PastUnlink, PastCommand, PastBlock, InLease, Removers, Registering, Moves,
     At
<1>10. Account'
  BY <1>1, <1>2, <1>3, <1>4, <1>6 DEF Account, TracesAreRecorded, Control, Progress, Read, Reads,
     Removed, Installed, InLease, Leased, At, Removers
<1> QED
  BY <1>2, <1>5, <1>7, <1>8, <1>9, <1>10, WriteKeeps DEF Steps

LEMMA DeleteKeyKeeps ==
  ASSUME IInv, NEW p \in Procs, DeleteKey(p)
  PROVE  IInv'
<1> DEFINE files == [disk EXCEPT !.key = IF @ = disk.identity.id THEN 0 ELSE @]
<1>1. disk \in Disks /\ Account /\ Control(p) /\ Progress(p)
  BY Given
<1>2. At(p, "key") /\ Writes(p, "unlink", files)
  BY DEF DeleteKey
<1>3. Moves(p, "unlink") /\ disk' = files /\ lease' = lease
  BY <1>2, WriteMoves DEF Steps
<1>4. proc[p].op = "purge" /\ InLock(p) /\ ~Unlinked(p) /\ lease = p
  BY <1>1, <1>2, Whose DEF At, Removers, InLock, Unlinked, Control, Leased, InLease
<1>5. files \in Disks
  BY <1>1, <1>4 DEF Disks, Identities
<1>6. /\ disk'.loaders = disk.loaders
      /\ disk'.key = IF disk.key = disk.identity.id THEN 0 ELSE disk.key
      /\ disk'.lock = disk.lock /\ disk'.bin = disk.bin /\ disk'.receipt = disk.receipt
      /\ disk'.command = disk.command /\ disk'.startup = disk.startup /\ disk'.block = disk.block
      /\ disk'.entry = disk.entry /\ disk'.record = disk.record /\ disk'.service = disk.service
      /\ disk'.identity = disk.identity
  BY <1>1, <1>3 DEF Disks, Identities
<1> HIDE DEF files
<1>7. Respects(p)
  BY <1>1, <1>2, <1>3, <1>4, <1>6 DEF Respects, NotRevived, Moves
<1>8. Control(p)' /\ (InLock(p)' => InLock(p))
  BY <1>1, <1>2, <1>3, <1>4, <1>6 DEF Control, Place, Locked, Leased, InLock, InLease, Unlinked, At,
     Moves, InstallSteps, UninstallSteps, PurgeSteps, StartSteps, Removers
<1>9. Progress(p)'
  BY <1>1, <1>2, <1>3, <1>4, <1>6 DEF Account, Progress, Read, Reads, Home, Returned, Installed,
     Removed, PastStop, PastUnlink, PastCommand, PastBlock, InLease, Removers, Registering, Moves,
     At, TracesAreRecorded
<1>10. Account'
  BY <1>1, <1>2, <1>3, <1>4, <1>6 DEF Account, TracesAreRecorded, Control, Progress, Read, Reads,
     Removed, Installed, InLease, Leased, At, Removers
<1> QED
  BY <1>2, <1>5, <1>7, <1>8, <1>9, <1>10, WriteKeeps DEF Steps

LEMMA RecordErased ==
  ASSUME IInv, NEW p \in Procs, Record(p), proc[p].op = "purge"
  PROVE  IInv'
<1> DEFINE files == [disk EXCEPT !.receipt = NoReceipt]
<1>1. disk \in Disks /\ Account /\ Control(p) /\ Progress(p)
  BY Given
<1>2. At(p, "record") /\ Writes(p, "unlock", files)
  BY DEF Record
<1>3. Moves(p, "unlock") /\ disk' = files /\ lease' = lease
  BY <1>2, WriteMoves DEF Steps
<1>4. proc[p].op = "purge" /\ InLock(p) /\ ~Unlinked(p)
  BY <1>1, <1>2, Whose DEF At, Removers, InLock, Unlinked, Control, Leased, InLease
<1>5. files \in Disks
  BY <1>1, <1>4 DEF NoReceipt, Disks, Identities, Receipts
<1>6. /\ disk'.loaders = disk.loaders
      /\ disk'.receipt.id = 0
      /\ disk'.receipt.legacy = "none"
      /\ disk'.receipt.blocks = FALSE
      /\ disk'.receipt.release = 0
      /\ disk'.lock = disk.lock /\ disk'.bin = disk.bin /\ disk'.command = disk.command
      /\ disk'.startup = disk.startup /\ disk'.block = disk.block /\ disk'.entry = disk.entry
      /\ disk'.record = disk.record /\ disk'.service = disk.service /\ disk'.key = disk.key
      /\ disk'.identity = disk.identity
  BY <1>1, <1>3 DEF NoReceipt, Disks, Identities, Receipts
<1> HIDE DEF files
<1>7. Respects(p)
  BY <1>1, <1>2, <1>3, <1>4, <1>6 DEF Respects, NotRevived, Moves, NoReceipt
<1>8. Control(p)' /\ (InLock(p)' => InLock(p))
  BY <1>1, <1>2, <1>3, <1>4, <1>6 DEF Control, Place, Locked, Leased, InLock, InLease, Unlinked, At,
     Moves, InstallSteps, UninstallSteps, PurgeSteps, StartSteps, Removers, NoReceipt
<1>9. Progress(p)'
  BY <1>1, <1>2, <1>3, <1>4, <1>6 DEF Account, Progress, Read, Reads, Home, Returned, Installed,
     Removed, PastStop, PastUnlink, PastCommand, PastBlock, InLease, Removers, Registering, Moves,
     At, NoReceipt
<1>10. Account'
  BY <1>1, <1>2, <1>3, <1>4, <1>6 DEF Account, TracesAreRecorded, Control, Progress, Read, Reads,
     Removed, Installed, InLease, Leased, At, Removers, NoReceipt, PastBlock, PastCommand
<1> QED
  BY <1>2, <1>5, <1>7, <1>8, <1>9, <1>10, WriteKeeps DEF Steps

LEMMA RecordAbsent ==
  ASSUME IInv, NEW p \in Procs, Record(p), proc[p].op = "uninstall", proc[p].inv.id = 0
  PROVE  IInv'
<1> DEFINE files == disk
<1>1. disk \in Disks /\ Account /\ Control(p) /\ Progress(p)
  BY Given
<1>2. At(p, "record") /\ Writes(p, "finish", files)
  BY DEF Record
<1>3. Moves(p, "finish") /\ disk' = files /\ lease' = lease
  BY <1>2, WriteMoves DEF Steps
<1>4. proc[p].op \in Removers /\ InLock(p) /\ ~Unlinked(p)
  BY <1>1, <1>2, Whose DEF At, Removers, InLock, Unlinked, Control, Leased, InLease
<1>5. files \in Disks
  BY <1>1, <1>4 DEF Disks, Identities
<1>6. disk' = disk
  BY <1>1, <1>3 DEF Disks, Identities
<1> HIDE DEF files
<1>7. Respects(p)
  BY <1>1, <1>2, <1>3, <1>4, <1>6 DEF Respects, NotRevived, Moves
<1>8. Control(p)' /\ (InLock(p)' => InLock(p))
  BY <1>1, <1>2, <1>3, <1>4, <1>6 DEF Control, Place, Locked, Leased, InLock, InLease, Unlinked, At,
     Moves, InstallSteps, UninstallSteps, PurgeSteps, StartSteps, Removers
<1>9. Progress(p)'
  BY <1>1, <1>2, <1>3, <1>4, <1>6 DEF Account, Progress, Read, Reads, Home, Returned, Installed,
     Removed, PastStop, PastUnlink, PastCommand, PastBlock, InLease, Removers, Registering, Moves,
     At
<1>10. Account'
  BY <1>1, <1>2, <1>3, <1>4, <1>6 DEF Account, TracesAreRecorded, Control, Progress, Read, Reads,
     Removed, Installed, InLease, Leased, At, Removers
<1> QED
  BY <1>2, <1>5, <1>7, <1>8, <1>9, <1>10, WriteKeeps DEF Steps

LEMMA RecordKept ==
  ASSUME IInv, NEW p \in Procs, Record(p), proc[p].op = "uninstall", proc[p].inv.id # 0
  PROVE  IInv'
<1> DEFINE files == [disk EXCEPT !.receipt = [proc[p].inv EXCEPT !.legacy = "none"]]
<1>1. disk \in Disks /\ Account /\ Control(p) /\ Progress(p)
  BY Given
<1>2. At(p, "record") /\ Writes(p, "finish", files)
  BY DEF Record
<1>3. Moves(p, "finish") /\ disk' = files /\ lease' = lease
  BY <1>2, WriteMoves DEF Steps
<1>4. proc[p].op \in Removers /\ InLock(p) /\ ~Unlinked(p)
  BY <1>1, <1>2, Whose DEF At, Removers, InLock, Unlinked, Control, Leased, InLease
<1>5. files \in Disks
  BY <1>1, <1>4, Given DEF Disks, Identities, Receipts, Commands, Receipts
<1>6. /\ disk'.loaders = disk.loaders
      /\ disk'.receipt.id = proc[p].inv.id
      /\ disk'.receipt.release = proc[p].inv.release
      /\ disk'.receipt.blocks = proc[p].inv.blocks
      /\ disk'.receipt.legacy = "none"
      /\ disk'.lock = disk.lock /\ disk'.bin = disk.bin /\ disk'.command = disk.command
      /\ disk'.startup = disk.startup /\ disk'.block = disk.block /\ disk'.entry = disk.entry
      /\ disk'.record = disk.record /\ disk'.service = disk.service /\ disk'.key = disk.key
      /\ disk'.identity = disk.identity
  BY <1>1, <1>3, Given DEF Disks, Identities, Receipts, Commands, Receipts
<1> HIDE DEF files
<1>7. Respects(p)
  BY <1>1, <1>2, <1>3, <1>4, <1>6 DEF Respects, NotRevived, Moves, Progress, Read, Reads, At
<1>8. Control(p)' /\ (InLock(p)' => InLock(p))
  BY <1>1, <1>2, <1>3, <1>4, <1>6 DEF Control, Place, Locked, Leased, InLock, InLease, Unlinked, At,
     Moves, InstallSteps, UninstallSteps, PurgeSteps, StartSteps, Removers
<1>9. Progress(p)'
  BY <1>1, <1>2, <1>3, <1>4, <1>6 DEF Account, Progress, Read, Reads, Home, Returned, Installed,
     Removed, PastStop, PastUnlink, PastCommand, PastBlock, InLease, Removers, Registering, Moves,
     At
<1>10. Account'
  BY <1>1, <1>2, <1>3, <1>4, <1>6 DEF Account, TracesAreRecorded, Control, Progress, Read, Reads,
     Removed, Installed, InLease, Leased, At, Removers
<1> QED
  BY <1>2, <1>5, <1>7, <1>8, <1>9, <1>10, WriteKeeps DEF Steps

LEMMA UnlinkLockKeeps ==
  ASSUME IInv, NEW p \in Procs, UnlinkLock(p)
  PROVE  IInv'
<1> DEFINE files == [disk EXCEPT !.lock = 0]
<1>1. disk \in Disks /\ Account /\ Control(p) /\ Progress(p)
  BY Given
<1>2. At(p, "unlock") /\ Writes(p, "rmdir", files)
  BY DEF UnlinkLock
<1>3. Moves(p, "rmdir") /\ disk' = files /\ lease' = lease
  BY <1>2, WriteMoves DEF Steps
<1>4. proc[p].op = "purge" /\ InLock(p) /\ ~Unlinked(p)
  BY <1>1, <1>2, Whose DEF At, Removers, InLock, Unlinked, Control, Leased, InLease
<1>5. files \in Disks
  BY <1>1, <1>4 DEF Disks, Identities
<1>6. /\ disk'.loaders = disk.loaders
      /\ disk'.lock = 0
      /\ disk'.bin = disk.bin /\ disk'.receipt = disk.receipt /\ disk'.command = disk.command
      /\ disk'.startup = disk.startup /\ disk'.block = disk.block /\ disk'.entry = disk.entry
      /\ disk'.record = disk.record /\ disk'.service = disk.service /\ disk'.key = disk.key
      /\ disk'.identity = disk.identity
  BY <1>1, <1>3 DEF Disks, Identities
<1> HIDE DEF files
<1>7. Respects(p)
  BY <1>1, <1>2, <1>3, <1>4, <1>6 DEF Respects, NotRevived, Moves
<1>8. Control(p)' /\ (InLock(p)' => InLock(p))
  BY <1>1, <1>2, <1>3, <1>4, <1>6 DEF Control, Place, Locked, Leased, InLock, InLease, Unlinked, At,
     Moves, InstallSteps, UninstallSteps, PurgeSteps, StartSteps, Removers
<1>9. Progress(p)'
  BY <1>1, <1>2, <1>3, <1>4, <1>6 DEF Account, Progress, Read, Reads, Home, Returned, Installed,
     Removed, PastStop, PastUnlink, PastCommand, PastBlock, InLease, Removers, Registering, Moves,
     At
<1>10. Account'
  BY <1>1, <1>2, <1>3, <1>4, <1>6 DEF Account, TracesAreRecorded, Control, Progress, Read, Reads,
     Removed, Installed, InLease, Leased, At, Removers
<1> QED
  BY <1>2, <1>5, <1>7, <1>8, <1>9, <1>10, WriteKeeps DEF Steps

LEMMA RemoveRootKeeps ==
  ASSUME IInv, NEW p \in Procs, RemoveRoot(p)
  PROVE  IInv'
<1>0. PICK kept \in BOOLEAN : At(p, "rmdir") /\ Writes(p, "finish", [disk EXCEPT !.root = kept])
  BY DEF RemoveRoot
<1> DEFINE files == [disk EXCEPT !.root = kept]
<1>1. disk \in Disks /\ Account /\ Control(p) /\ Progress(p)
  BY Given
<1>2. At(p, "rmdir") /\ Writes(p, "finish", files)
  BY <1>0
<1>3. Moves(p, "finish") /\ disk' = files /\ lease' = lease
  BY <1>2, WriteMoves DEF Steps
<1>4. proc[p].op = "purge"
  BY <1>1, <1>2, Whose DEF At, Removers, InLock, Unlinked, Control, Leased, InLease
<1>5. files \in Disks
  BY <1>0, <1>1, <1>4 DEF Disks, Identities
<1>6. /\ disk'.loaders = disk.loaders
      /\ disk'.lock = disk.lock /\ disk'.bin = disk.bin /\ disk'.receipt = disk.receipt
      /\ disk'.command = disk.command /\ disk'.startup = disk.startup /\ disk'.block = disk.block
      /\ disk'.entry = disk.entry /\ disk'.record = disk.record /\ disk'.service = disk.service
      /\ disk'.key = disk.key /\ disk'.identity = disk.identity
  BY <1>0, <1>1, <1>3 DEF Disks, Identities
<1> HIDE DEF files
<1>7. Respects(p)
  BY <1>0, <1>1, <1>2, <1>3, <1>4, <1>6 DEF Respects, NotRevived, Moves
<1>8. Control(p)' /\ (InLock(p)' => InLock(p))
  BY <1>0, <1>1, <1>2, <1>3, <1>4, <1>6 DEF Control, Place, Locked, Leased, InLock, InLease,
     Unlinked, At, Moves, InstallSteps, UninstallSteps, PurgeSteps, StartSteps, Removers
<1>9. Progress(p)'
  BY <1>0, <1>1, <1>2, <1>3, <1>4, <1>6 DEF Account, Progress, Read, Reads, Home, Returned,
     Installed, Removed, PastStop, PastUnlink, PastCommand, PastBlock, InLease, Removers,
     Registering, Moves, At
<1>10. Account'
  BY <1>0, <1>1, <1>2, <1>3, <1>4, <1>6 DEF Account, TracesAreRecorded, Control, Progress, Read,
     Reads, Removed, Installed, InLease, Leased, At, Removers
<1> QED
  BY <1>2, <1>5, <1>7, <1>8, <1>9, <1>10, WriteKeeps DEF Steps

----------------------------------------------------------------------------
(* start *)

LEMMA EntryAdopted ==
  ASSUME IInv, NEW p \in Procs, At(p, "ensure"), State = "ready",
         Writes(p, "finish", [disk EXCEPT !.record = IF @ = "intent" THEN "owned" ELSE @])
  PROVE  IInv'
<1> DEFINE files == [disk EXCEPT !.record = IF @ = "intent" THEN "owned" ELSE @]
<1>1. disk \in Disks /\ Account /\ Control(p) /\ Progress(p)
  BY Given
<1>2. At(p, "ensure") /\ Writes(p, "finish", files)
  BY DEF At
<1>3. Moves(p, "finish") /\ disk' = files /\ lease' = lease
  BY <1>2, WriteMoves DEF Steps
<1>4. /\ proc[p].op = "start" /\ lease = p /\ ~InLock(p)
      /\ disk.record \in {"intent", "owned"}
  BY <1>1, <1>2, Whose DEF At, Removers, InLock, Unlinked, Control, Leased, InLease,
     State, Disks, Account, TracesAreRecorded
<1>5. files \in Disks
  BY <1>1, <1>4 DEF Disks, Identities
<1>6. /\ disk'.loaders = disk.loaders
      /\ disk'.record = IF disk.record = "intent" THEN "owned" ELSE disk.record
      /\ disk'.lock = disk.lock /\ disk'.bin = disk.bin /\ disk'.receipt = disk.receipt
      /\ disk'.command = disk.command /\ disk'.startup = disk.startup /\ disk'.block = disk.block
      /\ disk'.entry = disk.entry /\ disk'.service = disk.service /\ disk'.key = disk.key
      /\ disk'.identity = disk.identity
  BY <1>1, <1>3 DEF Disks, Identities
<1> HIDE DEF files
<1>7. Respects(p)
  BY <1>1, <1>2, <1>3, <1>4, <1>6 DEF Respects, NotRevived, Moves
<1>8. Control(p)' /\ (InLock(p)' => InLock(p))
  BY <1>1, <1>2, <1>3, <1>4, <1>6 DEF Control, Place, Locked, Leased, InLock, InLease, Unlinked, At,
     Moves, InstallSteps, UninstallSteps, PurgeSteps, StartSteps, Removers
<1>9. Progress(p)'
  BY <1>1, <1>2, <1>3, <1>4, <1>6 DEF Account, Progress, Read, Reads, Home, Returned, Installed,
     Removed, PastStop, PastUnlink, PastCommand, PastBlock, InLease, Removers, Registering, Moves,
     At
<1>10. Account'
  BY <1>1, <1>2, <1>3, <1>4, <1>6 DEF Account, TracesAreRecorded, Control, Progress, Read, Reads,
     Removed, Installed, InLease, Leased, At, Removers
<1> QED
  BY <1>2, <1>5, <1>7, <1>8, <1>9, <1>10, WriteKeeps DEF Steps

LEMMA IntentRecorded ==
  ASSUME IInv, NEW p \in Procs, At(p, "ensure"), State = "pending", Writes(p, "add", [disk EXCEPT !.record = "intent"])
  PROVE  IInv'
<1> DEFINE files == [disk EXCEPT !.record = "intent"]
<1>1. disk \in Disks /\ Account /\ Control(p) /\ Progress(p)
  BY Given
<1>2. At(p, "ensure") /\ Writes(p, "add", files)
  BY DEF At
<1>3. Moves(p, "add") /\ disk' = files /\ lease' = lease
  BY <1>2, WriteMoves DEF Steps
<1>4. proc[p].op = "start" /\ lease = p /\ ~InLock(p)
  BY <1>1, <1>2, Whose DEF At, Removers, InLock, Unlinked, Control, Leased, InLease
<1>5. files \in Disks
  BY <1>1, <1>4 DEF Disks, Identities
<1>6. /\ disk'.loaders = disk.loaders
      /\ disk'.record = "intent"
      /\ disk'.lock = disk.lock /\ disk'.bin = disk.bin /\ disk'.receipt = disk.receipt
      /\ disk'.command = disk.command /\ disk'.startup = disk.startup /\ disk'.block = disk.block
      /\ disk'.entry = disk.entry /\ disk'.service = disk.service /\ disk'.key = disk.key
      /\ disk'.identity = disk.identity
  BY <1>1, <1>3 DEF Disks, Identities
<1> HIDE DEF files
<1>7. Respects(p)
  BY <1>1, <1>2, <1>3, <1>4, <1>6 DEF Respects, NotRevived, Moves
<1>8. Control(p)' /\ (InLock(p)' => InLock(p))
  BY <1>1, <1>2, <1>3, <1>4, <1>6 DEF Control, Place, Locked, Leased, InLock, InLease, Unlinked, At,
     Moves, InstallSteps, UninstallSteps, PurgeSteps, StartSteps, Removers
<1>9. Progress(p)'
  BY <1>1, <1>2, <1>3, <1>4, <1>6 DEF Account, Progress, Read, Reads, Home, Returned, Installed,
     Removed, PastStop, PastUnlink, PastCommand, PastBlock, InLease, Removers, Registering, Moves,
     At
<1>10. Account'
  BY <1>1, <1>2, <1>3, <1>4, <1>6 DEF Account, TracesAreRecorded, Control, Progress, Read, Reads,
     Removed, Installed, InLease, Leased, At, Removers
<1> QED
  BY <1>2, <1>5, <1>7, <1>8, <1>9, <1>10, WriteKeeps DEF Steps

LEMMA EntryAdded ==
  ASSUME IInv, NEW p \in Procs, At(p, "add"), disk.entry = "none", NEW entry \in RunsCLI("none", "ours"), Writes(p, "own", [disk EXCEPT !.entry = entry])
  PROVE  IInv'
<1> DEFINE files == [disk EXCEPT !.entry = entry]
<1>1. disk \in Disks /\ Account /\ Control(p) /\ Progress(p)
  BY Given
<1>2. At(p, "add") /\ Writes(p, "own", files)
  BY DEF At
<1>3. Moves(p, "own") /\ disk' = files /\ lease' = lease
  BY <1>2, WriteMoves DEF Steps
<1>4. proc[p].op = "start" /\ lease = p /\ ~InLock(p)
  BY <1>1, <1>2, Whose DEF At, Removers, InLock, Unlinked, Control, Leased, InLease
<1>5. files \in Disks
  BY <1>1, <1>4 DEF RunsCLI, Disks, Identities
<1>6. /\ disk'.loaders = disk.loaders
      /\ disk'.entry = entry
      /\ disk'.lock = disk.lock /\ disk'.bin = disk.bin /\ disk'.receipt = disk.receipt
      /\ disk'.command = disk.command /\ disk'.startup = disk.startup /\ disk'.block = disk.block
      /\ disk'.record = disk.record /\ disk'.service = disk.service /\ disk'.key = disk.key
      /\ disk'.identity = disk.identity
  BY <1>1, <1>3 DEF RunsCLI, Disks, Identities
<1> HIDE DEF files
<1>7. Respects(p)
  BY <1>1, <1>2, <1>3, <1>4, <1>6 DEF Respects, NotRevived, Moves, RunsCLI
<1>8. Control(p)' /\ (InLock(p)' => InLock(p))
  BY <1>1, <1>2, <1>3, <1>4, <1>6 DEF Control, Place, Locked, Leased, InLock, InLease, Unlinked, At,
     Moves, InstallSteps, UninstallSteps, PurgeSteps, StartSteps, Removers, RunsCLI
<1>9. Progress(p)'
  BY <1>1, <1>2, <1>3, <1>4, <1>6 DEF Account, Progress, Read, Reads, Home, Returned, Installed,
     Removed, PastStop, PastUnlink, PastCommand, PastBlock, InLease, Removers, Registering, Moves,
     At, RunsCLI
<1>10. Account'
  BY <1>1, <1>2, <1>3, <1>4, <1>6 DEF Account, TracesAreRecorded, Control, Progress, Read, Reads,
     Removed, Installed, InLease, Leased, At, Removers, RunsCLI, Registering
<1> QED
  BY <1>2, <1>5, <1>7, <1>8, <1>9, <1>10, WriteKeeps DEF Steps

LEMMA EntryOwned ==
  ASSUME IInv, NEW p \in Procs, At(p, "own"), Writes(p, "finish", [disk EXCEPT !.record = "owned"])
  PROVE  IInv'
<1> DEFINE files == [disk EXCEPT !.record = "owned"]
<1>1. disk \in Disks /\ Account /\ Control(p) /\ Progress(p)
  BY Given
<1>2. At(p, "own") /\ Writes(p, "finish", files)
  BY DEF At
<1>3. Moves(p, "finish") /\ disk' = files /\ lease' = lease
  BY <1>2, WriteMoves DEF Steps
<1>4. proc[p].op = "start" /\ lease = p /\ ~InLock(p)
  BY <1>1, <1>2, Whose DEF At, Removers, InLock, Unlinked, Control, Leased, InLease
<1>5. files \in Disks
  BY <1>1, <1>4 DEF Disks, Identities
<1>6. /\ disk'.loaders = disk.loaders
      /\ disk'.record = "owned"
      /\ disk'.lock = disk.lock /\ disk'.bin = disk.bin /\ disk'.receipt = disk.receipt
      /\ disk'.command = disk.command /\ disk'.startup = disk.startup /\ disk'.block = disk.block
      /\ disk'.entry = disk.entry /\ disk'.service = disk.service /\ disk'.key = disk.key
      /\ disk'.identity = disk.identity
  BY <1>1, <1>3 DEF Disks, Identities
<1> HIDE DEF files
<1>7. Respects(p)
  BY <1>1, <1>2, <1>3, <1>4, <1>6 DEF Respects, NotRevived, Moves
<1>8. Control(p)' /\ (InLock(p)' => InLock(p))
  BY <1>1, <1>2, <1>3, <1>4, <1>6 DEF Control, Place, Locked, Leased, InLock, InLease, Unlinked, At,
     Moves, InstallSteps, UninstallSteps, PurgeSteps, StartSteps, Removers
<1>9. Progress(p)'
  BY <1>1, <1>2, <1>3, <1>4, <1>6 DEF Account, Progress, Read, Reads, Home, Returned, Installed,
     Removed, PastStop, PastUnlink, PastCommand, PastBlock, InLease, Removers, Registering, Moves,
     At
<1>10. Account'
  BY <1>1, <1>2, <1>3, <1>4, <1>6 DEF Account, TracesAreRecorded, Control, Progress, Read, Reads,
     Removed, Installed, InLease, Leased, At, Removers
<1> QED
  BY <1>2, <1>5, <1>7, <1>8, <1>9, <1>10, WriteKeeps DEF Steps

----------------------------------------------------------------------------
(* The steps that read, and those at the ends of the two locks *)

\* A command goes on with what it has read.
Becomes(p, step, fd, held, inv, id) ==
  /\ \A q \in Procs \ {p} : proc'[q] = proc[q]
  /\ proc'[p].at = step /\ proc'[p].op = proc[p].op /\ proc'[p].version = proc[p].version
  /\ proc'[p].fd = fd /\ proc'[p].held = held /\ proc'[p].inv = inv /\ proc'[p].id = id
  /\ proc' \in [Procs -> Commands]

LEMMA GoesBecomes ==
  ASSUME proc \in [Procs -> Commands], NEW p \in Procs, NEW step \in Steps, Goes(p, step)
  PROVE  Becomes(p, step, proc[p].fd, proc[p].held, proc[p].inv, proc[p].id)
  BY GoesMoves DEF Moves, Becomes

LEMMA ReadsInventory ==
  ASSUME proc \in [Procs -> Commands], NEW p \in Procs, NEW step \in Steps, NEW inv \in Receipts,
         proc' = [proc EXCEPT ![p].inv = inv, ![p].at = step]
  PROVE  Becomes(p, step, proc[p].fd, proc[p].held, inv, proc[p].id)
<1>1. proc[p] \in Commands
  OBVIOUS
<1>2. proc' = [proc EXCEPT ![p] = [proc[p] EXCEPT !.inv = inv, !.at = step]]
  OBVIOUS
<1>3. [proc[p] EXCEPT !.inv = inv, !.at = step] \in Commands
  BY <1>1 DEF Commands
<1> QED
  BY <1>1, <1>2, <1>3 DEF Becomes, Commands

LEMMA ReadsIdentity ==
  ASSUME proc \in [Procs -> Commands], NEW p \in Procs, NEW step \in Steps, NEW id \in Nat,
         proc' = [proc EXCEPT ![p].id = id, ![p].at = step]
  PROVE  Becomes(p, step, proc[p].fd, proc[p].held, proc[p].inv, id)
<1>1. proc[p] \in Commands
  OBVIOUS
<1>2. proc' = [proc EXCEPT ![p] = [proc[p] EXCEPT !.id = id, !.at = step]]
  OBVIOUS
<1>3. [proc[p] EXCEPT !.id = id, !.at = step] \in Commands
  BY <1>1 DEF Commands
<1> QED
  BY <1>1, <1>2, <1>3 DEF Becomes, Commands

LEMMA OpensFile ==
  ASSUME proc \in [Procs -> Commands], NEW p \in Procs, NEW step \in Steps, NEW fd \in Nat,
         proc' = [proc EXCEPT ![p].fd = fd, ![p].at = step]
  PROVE  Becomes(p, step, fd, proc[p].held, proc[p].inv, proc[p].id)
<1>1. proc[p] \in Commands
  OBVIOUS
<1>2. proc' = [proc EXCEPT ![p] = [proc[p] EXCEPT !.fd = fd, !.at = step]]
  OBVIOUS
<1>3. [proc[p] EXCEPT !.fd = fd, !.at = step] \in Commands
  BY <1>1 DEF Commands
<1> QED
  BY <1>1, <1>2, <1>3 DEF Becomes, Commands

LEMMA LocksFile ==
  ASSUME proc \in [Procs -> Commands], NEW p \in Procs, NEW step \in Steps,
         proc' = [proc EXCEPT ![p].held = TRUE, ![p].at = step]
  PROVE  Becomes(p, step, proc[p].fd, TRUE, proc[p].inv, proc[p].id)
<1>1. proc[p] \in Commands
  OBVIOUS
<1>2. proc' = [proc EXCEPT ![p] = [proc[p] EXCEPT !.held = TRUE, !.at = step]]
  OBVIOUS
<1>3. [proc[p] EXCEPT !.held = TRUE, !.at = step] \in Commands
  BY <1>1 DEF Commands
<1> QED
  BY <1>1, <1>2, <1>3 DEF Becomes, Commands

LEMMA ReadsBoth ==
  ASSUME proc \in [Procs -> Commands], NEW p \in Procs, NEW step \in Steps,
         NEW inv \in Receipts, NEW id \in Nat,
         proc' = [proc EXCEPT ![p].inv = inv, ![p].id = id, ![p].at = step]
  PROVE  Becomes(p, step, proc[p].fd, proc[p].held, inv, id)
<1>1. proc[p] \in Commands
  OBVIOUS
<1>2. proc' = [proc EXCEPT ![p] = [proc[p] EXCEPT !.inv = inv, !.id = id, !.at = step]]
  OBVIOUS
<1>3. [proc[p] EXCEPT !.inv = inv, !.id = id, !.at = step] \in Commands
  BY <1>1 DEF Commands
<1> QED
  BY <1>1, <1>2, <1>3 DEF Becomes, Commands

LEMMA RecheckReads ==
  ASSUME IInv, NEW p \in Procs, Recheck(p), ~(Refuses(p) \/ Foreign(p))
  PROVE  IInv'
<1> DEFINE files == disk
<1>1. disk \in Disks /\ proc \in [Procs -> Commands] /\ Account /\ Control(p) /\ Progress(p)
  BY Given
<1>2. /\ At(p, "recheck") /\ TRUE
      /\ disk' = files /\ lease' = lease /\ spent' = spent
  BY <1>1 DEF Recheck
<1>3. /\ proc[p].op = "install" /\ InLock(p) /\ ~Unlinked(p) /\ disk.receipt \in Receipts
  BY <1>1, <1>2, Whose DEF At, Removers, InLock, Unlinked, Control, Leased, Locked, InLease, Disks
<1>4. Becomes(p, "recover", proc[p].fd, proc[p].held, disk.receipt, proc[p].id)
  BY <1>1, <1>2, <1>3, ReadsInventory DEF Recheck, Steps
<1>5. TypeOK'
  <2>1. files \in Disks
    BY <1>1, <1>3 DEF Disks, Identities
  <2> QED
    BY <1>2, <1>4, <2>1, Given, TypesNext DEF Becomes
<1>6. disk' = disk
  BY <1>1, <1>2 DEF Disks, Identities
<1> HIDE DEF files
<1>7. Respects(p)
  BY <1>1, <1>2, <1>3, <1>4, <1>6 DEF Respects, NotRevived, Becomes
<1>8. Control(p)' /\ (InLock(p)' => InLock(p) /\ proc'[p].fd = proc[p].fd)
  BY <1>1, <1>2, <1>3, <1>4, <1>6 DEF Control, Place, Locked, Leased, InLock, InLease, Unlinked, At,
     Becomes, InstallSteps, UninstallSteps, PurgeSteps, StartSteps, Removers
<1>9. Progress(p)'
  BY <1>1, <1>2, <1>3, <1>4, <1>6 DEF Account, Progress, Read, Reads, Home, Returned, Installed,
     Removed, PastStop, PastUnlink, PastCommand, PastBlock, InLease, Removers, Registering,
     Becomes, At
<1>10. Account'
  BY <1>1, <1>2, <1>3, <1>4, <1>6 DEF Account, TracesAreRecorded, Control, Progress, Read, Reads,
     Removed, Installed, InLease, Leased, At, Removers
<1> QED
  BY <1>5, <1>7, <1>8, <1>9, <1>10, StepKeeps

LEMMA LeaseToInstall ==
  ASSUME IInv, NEW p \in Procs, proc[p].op = "install", TakeLease(p, "lease", "stop"), Current(p) /\ Admitted(p)
  PROVE  IInv'
<1> DEFINE files == disk
<1>1. disk \in Disks /\ proc \in [Procs -> Commands] /\ Account /\ Control(p) /\ Progress(p)
  BY Given
<1>2. /\ At(p, "lease") /\ lease = NoProc /\ disk.identity.id = proc[p].id
      /\ disk' = files /\ lease' = p /\ spent' = spent
  BY <1>1 DEF TakeLease, Goes, Current
<1>3. /\ proc[p].op = "install" /\ InLock(p) /\ ~Unlinked(p) /\ ~InLease(p)
  BY <1>1, <1>2, Whose DEF At, Removers, InLock, Unlinked, Control, Leased, Locked, InLease
<1>4. Becomes(p, "stop", proc[p].fd, proc[p].held, proc[p].inv, proc[p].id)
  BY <1>1, <1>2, <1>3, GoesBecomes DEF TakeLease, Steps
<1>5. TypeOK'
  <2>1. files \in Disks
    BY <1>1, <1>3 DEF Disks, Identities
  <2> QED
    BY <1>2, <1>4, <2>1, Given, TypesNext DEF Becomes
<1>6. disk' = disk
  BY <1>1, <1>2 DEF Disks, Identities
<1> HIDE DEF files
<1>7. Respects(p)
  BY <1>1, <1>2, <1>3, <1>4, <1>6 DEF Respects, NotRevived, Becomes
<1>8. Control(p)' /\ (InLock(p)' => InLock(p) /\ proc'[p].fd = proc[p].fd)
  BY <1>1, <1>2, <1>3, <1>4, <1>6 DEF Control, Place, Locked, Leased, InLock, InLease, Unlinked, At,
     Becomes, InstallSteps, UninstallSteps, PurgeSteps, StartSteps, Removers, Leased
<1>9. Progress(p)'
  BY <1>1, <1>2, <1>3, <1>4, <1>6 DEF Account, Progress, Read, Reads, Home, Returned, Installed,
     Removed, PastStop, PastUnlink, PastCommand, PastBlock, InLease, Removers, Registering,
     Becomes, At
<1>10. Account'
  BY <1>1, <1>2, <1>3, <1>4, <1>6 DEF Account, TracesAreRecorded, Control, Progress, Read, Reads,
     Removed, Installed, InLease, Leased, At, Removers
<1> QED
  BY <1>5, <1>7, <1>8, <1>9, <1>10, StepKeeps

LEMMA LeaseToRemove ==
  ASSUME IInv, NEW p \in Procs, proc[p].op \in Removers, TakeLease(p, "lease", "stop"), Current(p) /\ Admitted(p)
  PROVE  IInv'
<1> DEFINE files == disk
<1>1. disk \in Disks /\ proc \in [Procs -> Commands] /\ Account /\ Control(p) /\ Progress(p)
  BY Given
<1>2. /\ At(p, "lease") /\ lease = NoProc /\ disk.identity.id = proc[p].id /\ (proc[p].op = "uninstall" => ~disk.identity.purging)
      /\ disk' = files /\ lease' = p /\ spent' = spent
  BY <1>1 DEF TakeLease, Goes, Current, Admitted, Removers
<1>3. /\ proc[p].op \in Removers /\ InLock(p) /\ ~Unlinked(p) /\ ~InLease(p)
  BY <1>1, <1>2, Whose DEF At, Removers, InLock, Unlinked, Control, Leased, Locked, InLease
<1>4. Becomes(p, "stop", proc[p].fd, proc[p].held, proc[p].inv, proc[p].id)
  BY <1>1, <1>2, <1>3, GoesBecomes DEF TakeLease, Steps
<1>5. TypeOK'
  <2>1. files \in Disks
    BY <1>1, <1>3 DEF Disks, Identities
  <2> QED
    BY <1>2, <1>4, <2>1, Given, TypesNext DEF Becomes
<1>6. disk' = disk
  BY <1>1, <1>2 DEF Disks, Identities
<1> HIDE DEF files
<1>7. Respects(p)
  BY <1>1, <1>2, <1>3, <1>4, <1>6 DEF Respects, NotRevived, Becomes
<1>8. Control(p)' /\ (InLock(p)' => InLock(p) /\ proc'[p].fd = proc[p].fd)
  BY <1>1, <1>2, <1>3, <1>4, <1>6 DEF Control, Place, Locked, Leased, InLock, InLease, Unlinked, At,
     Becomes, InstallSteps, UninstallSteps, PurgeSteps, StartSteps, Removers
<1>9. Progress(p)'
  BY <1>1, <1>2, <1>3, <1>4, <1>6 DEF Account, Progress, Read, Reads, Home, Returned, Installed,
     Removed, PastStop, PastUnlink, PastCommand, PastBlock, InLease, Removers, Registering,
     Becomes, At
<1>10. Account'
  BY <1>1, <1>2, <1>3, <1>4, <1>6 DEF Account, TracesAreRecorded, Control, Progress, Read, Reads,
     Removed, Installed, InLease, Leased, At, Removers
<1> QED
  BY <1>5, <1>7, <1>8, <1>9, <1>10, StepKeeps

LEMMA LeaseToLaunch ==
  ASSUME IInv, NEW p \in Procs, proc[p].op = "start", TakeLease(p, "lease", "launch"), Current(p) /\ Admitted(p)
  PROVE  IInv'
<1> DEFINE files == disk
<1>1. disk \in Disks /\ proc \in [Procs -> Commands] /\ Account /\ Control(p) /\ Progress(p)
  BY Given
<1>2. /\ At(p, "lease") /\ lease = NoProc /\ disk.identity.id = proc[p].id
      /\ disk' = files /\ lease' = p /\ spent' = spent
  BY <1>1 DEF TakeLease, Goes, Current
<1>3. /\ proc[p].op = "start" /\ ~InLock(p)
  BY <1>1, <1>2, Whose DEF At, Removers, InLock, Unlinked, Control, Leased, Locked, InLease
<1>4. Becomes(p, "launch", proc[p].fd, proc[p].held, proc[p].inv, proc[p].id)
  BY <1>1, <1>2, <1>3, GoesBecomes DEF TakeLease, Steps
<1>5. TypeOK'
  <2>1. files \in Disks
    BY <1>1, <1>3 DEF Disks, Identities
  <2> QED
    BY <1>2, <1>4, <2>1, Given, TypesNext DEF Becomes
<1>6. disk' = disk
  BY <1>1, <1>2 DEF Disks, Identities
<1> HIDE DEF files
<1>7. Respects(p)
  BY <1>1, <1>2, <1>3, <1>4, <1>6 DEF Respects, NotRevived, Becomes
<1>8. Control(p)' /\ (InLock(p)' => InLock(p) /\ proc'[p].fd = proc[p].fd)
  BY <1>1, <1>2, <1>3, <1>4, <1>6 DEF Control, Place, Locked, Leased, InLock, InLease, Unlinked, At,
     Becomes, InstallSteps, UninstallSteps, PurgeSteps, StartSteps, Removers
<1>9. Progress(p)'
  BY <1>1, <1>2, <1>3, <1>4, <1>6 DEF Account, Progress, Read, Reads, Home, Returned, Installed,
     Removed, PastStop, PastUnlink, PastCommand, PastBlock, InLease, Removers, Registering,
     Becomes, At
<1>10. Account'
  BY <1>1, <1>2, <1>3, <1>4, <1>6 DEF Account, TracesAreRecorded, Control, Progress, Read, Reads,
     Removed, Installed, InLease, Leased, At, Removers
<1> QED
  BY <1>5, <1>7, <1>8, <1>9, <1>10, StepKeeps

LEMMA LeaseToEnsure ==
  ASSUME IInv, NEW p \in Procs, TakeLease(p, "register", "ensure"), Current(p) /\ Admitted(p)
  PROVE  IInv'
<1> DEFINE files == disk
<1>1. disk \in Disks /\ proc \in [Procs -> Commands] /\ Account /\ Control(p) /\ Progress(p)
  BY Given
<1>2. /\ At(p, "register") /\ lease = NoProc /\ disk.identity.id = proc[p].id
      /\ disk' = files /\ lease' = p /\ spent' = spent
  BY <1>1 DEF TakeLease, Goes, Current
<1>3. /\ proc[p].op = "start" /\ ~InLock(p)
  BY <1>1, <1>2, Whose DEF At, Removers, InLock, Unlinked, Control, Leased, Locked, InLease
<1>4. Becomes(p, "ensure", proc[p].fd, proc[p].held, proc[p].inv, proc[p].id)
  BY <1>1, <1>2, <1>3, GoesBecomes DEF TakeLease, Steps
<1>5. TypeOK'
  <2>1. files \in Disks
    BY <1>1, <1>3 DEF Disks, Identities
  <2> QED
    BY <1>2, <1>4, <2>1, Given, TypesNext DEF Becomes
<1>6. disk' = disk
  BY <1>1, <1>2 DEF Disks, Identities
<1> HIDE DEF files
<1>7. Respects(p)
  BY <1>1, <1>2, <1>3, <1>4, <1>6 DEF Respects, NotRevived, Becomes
<1>8. Control(p)' /\ (InLock(p)' => InLock(p) /\ proc'[p].fd = proc[p].fd)
  BY <1>1, <1>2, <1>3, <1>4, <1>6 DEF Control, Place, Locked, Leased, InLock, InLease, Unlinked, At,
     Becomes, InstallSteps, UninstallSteps, PurgeSteps, StartSteps, Removers
<1>9. Progress(p)'
  BY <1>1, <1>2, <1>3, <1>4, <1>6 DEF Account, Progress, Read, Reads, Home, Returned, Installed,
     Removed, PastStop, PastUnlink, PastCommand, PastBlock, InLease, Removers, Registering,
     Becomes, At
<1>10. Account'
  BY <1>1, <1>2, <1>3, <1>4, <1>6 DEF Account, TracesAreRecorded, Control, Progress, Read, Reads,
     Removed, Installed, InLease, Leased, At, Removers
<1> QED
  BY <1>5, <1>7, <1>8, <1>9, <1>10, StepKeeps

LEMMA SettleInstall ==
  ASSUME IInv, NEW p \in Procs, proc[p].op = "install", Settle(p)
  PROVE  IInv'
<1> DEFINE files == [disk EXCEPT !.identity.pending = FALSE]
<1>1. disk \in Disks /\ proc \in [Procs -> Commands] /\ Account /\ Control(p) /\ Progress(p)
  BY Given
<1>2. /\ At(p, "settle") /\ TRUE
      /\ disk' = files /\ lease' = NoProc /\ spent' = spent
  BY <1>1 DEF Settle, Goes
<1>3. /\ proc[p].op = "install" /\ InLock(p) /\ ~Unlinked(p) /\ lease = p
  BY <1>1, <1>2, Whose DEF At, Removers, InLock, Unlinked, Control, Leased, Locked, InLease
<1>4. Becomes(p, "adopt", proc[p].fd, proc[p].held, proc[p].inv, proc[p].id)
  BY <1>1, <1>2, <1>3, GoesBecomes DEF Settle, Steps
<1>5. TypeOK'
  <2>1. files \in Disks
    BY <1>1, <1>3 DEF Disks, Identities
  <2> QED
    BY <1>2, <1>4, <2>1, Given, TypesNext DEF Becomes
<1>6. /\ disk'.loaders = disk.loaders
      /\ disk'.identity.id = disk.identity.id
      /\ disk'.identity.purging = disk.identity.purging
      /\ disk'.identity.exe = disk.identity.exe
      /\ disk'.identity.pending = FALSE
      /\ disk'.lock = disk.lock /\ disk'.bin = disk.bin /\ disk'.receipt = disk.receipt
      /\ disk'.command = disk.command /\ disk'.startup = disk.startup /\ disk'.block = disk.block
      /\ disk'.entry = disk.entry /\ disk'.record = disk.record /\ disk'.service = disk.service
      /\ disk'.key = disk.key
  BY <1>1, <1>2 DEF Disks, Identities
<1> HIDE DEF files
<1>7. Respects(p)
  BY <1>1, <1>2, <1>3, <1>4, <1>6 DEF Respects, NotRevived, Becomes
<1>8. Control(p)' /\ (InLock(p)' => InLock(p) /\ proc'[p].fd = proc[p].fd)
  BY <1>1, <1>2, <1>3, <1>4, <1>6, ProcsAssumption DEF Control, Place, Locked, Leased, InLock,
     InLease, Unlinked, At, Becomes, InstallSteps, UninstallSteps, PurgeSteps, StartSteps, Removers
<1>9. Progress(p)'
  BY <1>1, <1>2, <1>3, <1>4, <1>6 DEF Account, Progress, Read, Reads, Home, Returned, Installed,
     Removed, PastStop, PastUnlink, PastCommand, PastBlock, InLease, Removers, Registering,
     Becomes, At
<1>10. Account'
  BY <1>1, <1>2, <1>3, <1>4, <1>6 DEF Account, TracesAreRecorded, Control, Progress, Read, Reads,
     Removed, Installed, InLease, Leased, At, Removers
<1> QED
  BY <1>5, <1>7, <1>8, <1>9, <1>10, StepKeeps

LEMMA SettlePurge ==
  ASSUME IInv, NEW p \in Procs, proc[p].op = "purge", Settle(p)
  PROVE  IInv'
<1> DEFINE files == [disk EXCEPT !.identity.pending = FALSE]
<1>1. disk \in Disks /\ proc \in [Procs -> Commands] /\ Account /\ Control(p) /\ Progress(p)
  BY Given
<1>2. /\ At(p, "settle") /\ TRUE
      /\ disk' = files /\ lease' = lease /\ spent' = spent
  BY <1>1 DEF Settle, Goes
<1>3. /\ proc[p].op = "purge" /\ InLock(p) /\ ~Unlinked(p) /\ lease = p
  BY <1>1, <1>2, Whose DEF At, Removers, InLock, Unlinked, Control, Leased, Locked, InLease
<1>4. Becomes(p, "tombstone", proc[p].fd, proc[p].held, proc[p].inv, proc[p].id)
  BY <1>1, <1>2, <1>3, GoesBecomes DEF Settle, Steps
<1>5. TypeOK'
  <2>1. files \in Disks
    BY <1>1, <1>3 DEF Disks, Identities
  <2> QED
    BY <1>2, <1>4, <2>1, Given, TypesNext DEF Becomes
<1>6. /\ disk'.loaders = disk.loaders
      /\ disk'.identity.id = disk.identity.id
      /\ disk'.identity.purging = disk.identity.purging
      /\ disk'.identity.exe = disk.identity.exe
      /\ disk'.identity.pending = FALSE
      /\ disk'.lock = disk.lock /\ disk'.bin = disk.bin /\ disk'.receipt = disk.receipt
      /\ disk'.command = disk.command /\ disk'.startup = disk.startup /\ disk'.block = disk.block
      /\ disk'.entry = disk.entry /\ disk'.record = disk.record /\ disk'.service = disk.service
      /\ disk'.key = disk.key
  BY <1>1, <1>2 DEF Disks, Identities
<1> HIDE DEF files
<1>7. Respects(p)
  BY <1>1, <1>2, <1>3, <1>4, <1>6 DEF Respects, NotRevived, Becomes
<1>8. Control(p)' /\ (InLock(p)' => InLock(p) /\ proc'[p].fd = proc[p].fd)
  BY <1>1, <1>2, <1>3, <1>4, <1>6 DEF Control, Place, Locked, Leased, InLock, InLease, Unlinked, At,
     Becomes, InstallSteps, UninstallSteps, PurgeSteps, StartSteps, Removers
<1>9. Progress(p)'
  BY <1>1, <1>2, <1>3, <1>4, <1>6 DEF Account, Progress, Read, Reads, Home, Returned, Installed,
     Removed, PastStop, PastUnlink, PastCommand, PastBlock, InLease, Removers, Registering,
     Becomes, At
<1>10. Account'
  BY <1>1, <1>2, <1>3, <1>4, <1>6 DEF Account, TracesAreRecorded, Control, Progress, Read, Reads,
     Removed, Installed, InLease, Leased, At, Removers
<1> QED
  BY <1>5, <1>7, <1>8, <1>9, <1>10, StepKeeps

LEMMA SettleUninstall ==
  ASSUME IInv, NEW p \in Procs, proc[p].op = "uninstall", Settle(p)
  PROVE  IInv'
<1> DEFINE files == [disk EXCEPT !.identity.pending = FALSE]
<1>1. disk \in Disks /\ proc \in [Procs -> Commands] /\ Account /\ Control(p) /\ Progress(p)
  BY Given
<1>2. /\ At(p, "settle") /\ TRUE
      /\ disk' = files /\ lease' = lease /\ spent' = spent
  BY <1>1 DEF Settle, Goes
<1>3. /\ proc[p].op = "uninstall" /\ InLock(p) /\ ~Unlinked(p) /\ lease = p
  BY <1>1, <1>2, Whose DEF At, Removers, InLock, Unlinked, Control, Leased, Locked, InLease
<1>4. Becomes(p, "unlink", proc[p].fd, proc[p].held, proc[p].inv, proc[p].id)
  BY <1>1, <1>2, <1>3, GoesBecomes DEF Settle, Steps
<1>5. TypeOK'
  <2>1. files \in Disks
    BY <1>1, <1>3 DEF Disks, Identities
  <2> QED
    BY <1>2, <1>4, <2>1, Given, TypesNext DEF Becomes
<1>6. /\ disk'.loaders = disk.loaders
      /\ disk'.identity.id = disk.identity.id
      /\ disk'.identity.purging = disk.identity.purging
      /\ disk'.identity.exe = disk.identity.exe
      /\ disk'.identity.pending = FALSE
      /\ disk'.lock = disk.lock /\ disk'.bin = disk.bin /\ disk'.receipt = disk.receipt
      /\ disk'.command = disk.command /\ disk'.startup = disk.startup /\ disk'.block = disk.block
      /\ disk'.entry = disk.entry /\ disk'.record = disk.record /\ disk'.service = disk.service
      /\ disk'.key = disk.key
  BY <1>1, <1>2 DEF Disks, Identities
<1> HIDE DEF files
<1>7. Respects(p)
  BY <1>1, <1>2, <1>3, <1>4, <1>6 DEF Respects, NotRevived, Becomes
<1>8. Control(p)' /\ (InLock(p)' => InLock(p) /\ proc'[p].fd = proc[p].fd)
  BY <1>1, <1>2, <1>3, <1>4, <1>6 DEF Control, Place, Locked, Leased, InLock, InLease, Unlinked, At,
     Becomes, InstallSteps, UninstallSteps, PurgeSteps, StartSteps, Removers
<1>9. Progress(p)'
  BY <1>1, <1>2, <1>3, <1>4, <1>6 DEF Account, Progress, Read, Reads, Home, Returned, Installed,
     Removed, PastStop, PastUnlink, PastCommand, PastBlock, InLease, Removers, Registering,
     Becomes, At
<1>10. Account'
  BY <1>1, <1>2, <1>3, <1>4, <1>6 DEF Account, TracesAreRecorded, Control, Progress, Read, Reads,
     Removed, Installed, InLease, Leased, At, Removers
<1> QED
  BY <1>5, <1>7, <1>8, <1>9, <1>10, StepKeeps

LEMMA AdoptReads ==
  ASSUME IInv, NEW p \in Procs, Adopt(p), proc[p].inv.id \in {0, disk.identity.id}
  PROVE  IInv'
<1> DEFINE files == [disk EXCEPT !.startup = Cleaned(p)]
<1>1. disk \in Disks /\ proc \in [Procs -> Commands] /\ Account /\ Control(p) /\ Progress(p)
  BY Given
<1>2. /\ At(p, "adopt") /\ TRUE
      /\ disk' = files /\ lease' = lease /\ spent' = spent
  BY <1>1 DEF Adopt
<1>3. /\ proc[p].op = "install" /\ InLock(p) /\ ~Unlinked(p) /\ disk.identity.id \in Nat
  BY <1>1, <1>2, Whose DEF At, Removers, InLock, Unlinked, Control, Leased, Locked, InLease, Disks,
     Identities
<1>4. Becomes(p, "save", proc[p].fd, proc[p].held, proc[p].inv, disk.identity.id)
  BY <1>1, <1>2, <1>3, ReadsIdentity DEF Adopt, Steps
<1>5. TypeOK'
  <2>1. files \in Disks
    BY <1>1, <1>3 DEF Cleaned, Moved, Disks, Identities
  <2> QED
    BY <1>2, <1>4, <2>1, Given, TypesNext DEF Becomes
<1>6. /\ disk'.loaders = disk.loaders
      /\ disk'.startup = Cleaned(p)
      /\ disk'.lock = disk.lock /\ disk'.bin = disk.bin /\ disk'.receipt = disk.receipt
      /\ disk'.command = disk.command /\ disk'.block = disk.block /\ disk'.entry = disk.entry
      /\ disk'.record = disk.record /\ disk'.service = disk.service /\ disk'.key = disk.key
      /\ disk'.identity = disk.identity
  BY <1>1, <1>2 DEF Cleaned, Moved, Disks, Identities
<1> HIDE DEF files
<1>7. Respects(p)
  BY <1>1, <1>2, <1>3, <1>4, <1>6 DEF Respects, NotRevived, Becomes, Cleaned, Moved
<1>8. Control(p)' /\ (InLock(p)' => InLock(p) /\ proc'[p].fd = proc[p].fd)
  BY <1>1, <1>2, <1>3, <1>4, <1>6 DEF Control, Place, Locked, Leased, InLock, InLease, Unlinked, At,
     Becomes, InstallSteps, UninstallSteps, PurgeSteps, StartSteps, Removers, Cleaned, Moved
<1>9. Progress(p)'
  BY <1>1, <1>2, <1>3, <1>4, <1>6 DEF Account, Progress, Read, Reads, Home, Returned, Installed,
     Removed, PastStop, PastUnlink, PastCommand, PastBlock, InLease, Removers, Registering,
     Becomes, At, Cleaned, Moved
<1>10. Account'
  BY <1>1, <1>2, <1>3, <1>4, <1>6 DEF Account, TracesAreRecorded, Control, Progress, Read, Reads,
     Removed, Installed, InLease, Leased, At, Removers, Cleaned, Moved, Home, Returned
<1> QED
  BY <1>5, <1>7, <1>8, <1>9, <1>10, StepKeeps

LEMMA LoadWithoutIdentity ==
  ASSUME IInv, NEW p \in Procs, Load(p), ~((disk.receipt.legacy = "purging" /\ proc[p].op # "purge") \/ Orphaned), disk.identity.id = 0
  PROVE  IInv'
<1> DEFINE files == disk
<1>1. disk \in Disks /\ proc \in [Procs -> Commands] /\ Account /\ Control(p) /\ Progress(p)
  BY Given
<1>2. /\ At(p, "load") /\ (disk.identity.id = 0 => disk.bin = 0)
      /\ disk' = files /\ lease' = lease /\ spent' = spent
  BY <1>1 DEF Load, Orphaned
<1>3. /\ proc[p].op \in Removers /\ InLock(p) /\ ~Unlinked(p) /\ disk.receipt \in Receipts /\ disk.identity.id \in Nat
  BY <1>1, <1>2, Whose DEF At, Removers, InLock, Unlinked, Control, Leased, Locked, InLease, Disks,
     Identities
<1>4. Becomes(p, "files", proc[p].fd, proc[p].held, disk.receipt, disk.identity.id)
  BY <1>1, <1>2, <1>3, ReadsBoth DEF Load, Steps
<1>5. TypeOK'
  <2>1. files \in Disks
    BY <1>1, <1>3 DEF Disks, Identities
  <2> QED
    BY <1>2, <1>4, <2>1, Given, TypesNext DEF Becomes
<1>6. disk' = disk
  BY <1>1, <1>2 DEF Disks, Identities
<1> HIDE DEF files
<1>7. Respects(p)
  BY <1>1, <1>2, <1>3, <1>4, <1>6 DEF Respects, NotRevived, Becomes
<1>8. Control(p)' /\ (InLock(p)' => InLock(p) /\ proc'[p].fd = proc[p].fd)
  BY <1>1, <1>2, <1>3, <1>4, <1>6 DEF Control, Place, Locked, Leased, InLock, InLease, Unlinked, At,
     Becomes, InstallSteps, UninstallSteps, PurgeSteps, StartSteps, Removers
<1>9. Progress(p)'
  BY <1>1, <1>2, <1>3, <1>4, <1>6 DEF Account, Progress, Read, Reads, Home, Returned, Installed,
     Removed, PastStop, PastUnlink, PastCommand, PastBlock, InLease, Removers, Registering,
     Becomes, At, TracesAreRecorded
<1>10. Account'
  BY <1>1, <1>2, <1>3, <1>4, <1>6 DEF Account, TracesAreRecorded, Control, Progress, Read, Reads,
     Removed, Installed, InLease, Leased, At, Removers
<1> QED
  BY <1>5, <1>7, <1>8, <1>9, <1>10, StepKeeps

LEMMA LoadWithIdentity ==
  ASSUME IInv, NEW p \in Procs, Load(p), ~((disk.receipt.legacy = "purging" /\ proc[p].op # "purge") \/ Orphaned), disk.identity.id # 0
  PROVE  IInv'
<1> DEFINE files == disk
<1>1. disk \in Disks /\ proc \in [Procs -> Commands] /\ Account /\ Control(p) /\ Progress(p)
  BY Given
<1>2. /\ At(p, "load") /\ TRUE
      /\ disk' = files /\ lease' = lease /\ spent' = spent
  BY <1>1 DEF Load, Orphaned
<1>3. /\ proc[p].op \in Removers /\ InLock(p) /\ ~Unlinked(p) /\ disk.receipt \in Receipts /\ disk.identity.id \in Nat
  BY <1>1, <1>2, Whose DEF At, Removers, InLock, Unlinked, Control, Leased, Locked, InLease, Disks,
     Identities
<1>4. Becomes(p, "lease", proc[p].fd, proc[p].held, disk.receipt, disk.identity.id)
  BY <1>1, <1>2, <1>3, ReadsBoth DEF Load, Steps
<1>5. TypeOK'
  <2>1. files \in Disks
    BY <1>1, <1>3 DEF Disks, Identities
  <2> QED
    BY <1>2, <1>4, <2>1, Given, TypesNext DEF Becomes
<1>6. disk' = disk
  BY <1>1, <1>2 DEF Disks, Identities
<1> HIDE DEF files
<1>7. Respects(p)
  BY <1>1, <1>2, <1>3, <1>4, <1>6 DEF Respects, NotRevived, Becomes
<1>8. Control(p)' /\ (InLock(p)' => InLock(p) /\ proc'[p].fd = proc[p].fd)
  BY <1>1, <1>2, <1>3, <1>4, <1>6 DEF Control, Place, Locked, Leased, InLock, InLease, Unlinked, At,
     Becomes, InstallSteps, UninstallSteps, PurgeSteps, StartSteps, Removers
<1>9. Progress(p)'
  BY <1>1, <1>2, <1>3, <1>4, <1>6 DEF Account, Progress, Read, Reads, Home, Returned, Installed,
     Removed, PastStop, PastUnlink, PastCommand, PastBlock, InLease, Removers, Registering,
     Becomes, At
<1>10. Account'
  BY <1>1, <1>2, <1>3, <1>4, <1>6 DEF Account, TracesAreRecorded, Control, Progress, Read, Reads,
     Removed, Installed, InLease, Leased, At, Removers
<1> QED
  BY <1>5, <1>7, <1>8, <1>9, <1>10, StepKeeps

LEMMA RemoveBinaryPurge ==
  ASSUME IInv, NEW p \in Procs, proc[p].op = "purge", RemoveBinary(p)
  PROVE  IInv'
<1> DEFINE files == [disk EXCEPT !.bin = IF disk.identity.exe THEN 0 ELSE @]
<1>1. disk \in Disks /\ proc \in [Procs -> Commands] /\ Account /\ Control(p) /\ Progress(p)
  BY Given
<1>2. /\ At(p, "unlink") /\ TRUE
      /\ disk' = files /\ lease' = lease /\ spent' = spent
  BY <1>1 DEF RemoveBinary, Goes
<1>3. /\ proc[p].op = "purge" /\ InLock(p) /\ ~Unlinked(p) /\ lease = p
  BY <1>1, <1>2, Whose DEF At, Removers, InLock, Unlinked, Control, Leased, Locked, InLease
<1>4. Becomes(p, "erase", proc[p].fd, proc[p].held, proc[p].inv, proc[p].id)
  BY <1>1, <1>2, <1>3, GoesBecomes DEF RemoveBinary, Steps
<1>5. TypeOK'
  <2>1. files \in Disks
    BY <1>1, <1>3 DEF Disks, Identities
  <2> QED
    BY <1>2, <1>4, <2>1, Given, TypesNext DEF Becomes
<1>6. /\ disk'.loaders = disk.loaders
      /\ disk'.bin = IF disk.identity.exe THEN 0 ELSE disk.bin
      /\ disk'.lock = disk.lock /\ disk'.receipt = disk.receipt /\ disk'.command = disk.command
      /\ disk'.startup = disk.startup /\ disk'.block = disk.block /\ disk'.entry = disk.entry
      /\ disk'.record = disk.record /\ disk'.service = disk.service /\ disk'.key = disk.key
      /\ disk'.identity = disk.identity
  BY <1>1, <1>2 DEF Disks, Identities
<1> HIDE DEF files
<1>7. Respects(p)
  BY <1>1, <1>2, <1>3, <1>4, <1>6 DEF Respects, NotRevived, Becomes
<1>8. Control(p)' /\ (InLock(p)' => InLock(p) /\ proc'[p].fd = proc[p].fd)
  BY <1>1, <1>2, <1>3, <1>4, <1>6 DEF Control, Place, Locked, Leased, InLock, InLease, Unlinked, At,
     Becomes, InstallSteps, UninstallSteps, PurgeSteps, StartSteps, Removers
<1>9. Progress(p)'
  BY <1>1, <1>2, <1>3, <1>4, <1>6 DEF Account, Progress, Read, Reads, Home, Returned, Installed,
     Removed, PastStop, PastUnlink, PastCommand, PastBlock, InLease, Removers, Registering,
     Becomes, At, TracesAreRecorded
<1>10. Account'
  BY <1>1, <1>2, <1>3, <1>4, <1>6 DEF Account, TracesAreRecorded, Control, Progress, Read, Reads,
     Removed, Installed, InLease, Leased, At, Removers
<1> QED
  BY <1>5, <1>7, <1>8, <1>9, <1>10, StepKeeps

LEMMA RemoveBinaryUninstall ==
  ASSUME IInv, NEW p \in Procs, proc[p].op = "uninstall", RemoveBinary(p)
  PROVE  IInv'
<1> DEFINE files == [disk EXCEPT !.bin = IF disk.identity.exe THEN 0 ELSE @]
<1>1. disk \in Disks /\ proc \in [Procs -> Commands] /\ Account /\ Control(p) /\ Progress(p)
  BY Given
<1>2. /\ At(p, "unlink") /\ TRUE
      /\ disk' = files /\ lease' = NoProc /\ spent' = spent
  BY <1>1 DEF RemoveBinary, Goes
<1>3. /\ proc[p].op = "uninstall" /\ InLock(p) /\ ~Unlinked(p) /\ lease = p
  BY <1>1, <1>2, Whose DEF At, Removers, InLock, Unlinked, Control, Leased, Locked, InLease
<1>4. Becomes(p, "record", proc[p].fd, proc[p].held, proc[p].inv, proc[p].id)
  BY <1>1, <1>2, <1>3, GoesBecomes DEF RemoveBinary, Steps
<1>5. TypeOK'
  <2>1. files \in Disks
    BY <1>1, <1>3 DEF Disks, Identities
  <2> QED
    BY <1>2, <1>4, <2>1, Given, TypesNext DEF Becomes
<1>6. /\ disk'.loaders = disk.loaders
      /\ disk'.bin = IF disk.identity.exe THEN 0 ELSE disk.bin
      /\ disk'.lock = disk.lock /\ disk'.receipt = disk.receipt /\ disk'.command = disk.command
      /\ disk'.startup = disk.startup /\ disk'.block = disk.block /\ disk'.entry = disk.entry
      /\ disk'.record = disk.record /\ disk'.service = disk.service /\ disk'.key = disk.key
      /\ disk'.identity = disk.identity
  BY <1>1, <1>2 DEF Disks, Identities
<1> HIDE DEF files
<1>7. Respects(p)
  BY <1>1, <1>2, <1>3, <1>4, <1>6 DEF Respects, NotRevived, Becomes
<1>8. Control(p)' /\ (InLock(p)' => InLock(p) /\ proc'[p].fd = proc[p].fd)
  BY <1>1, <1>2, <1>3, <1>4, <1>6, ProcsAssumption DEF Control, Place, Locked, Leased, InLock,
     InLease, Unlinked, At, Becomes, InstallSteps, UninstallSteps, PurgeSteps, StartSteps, Removers
<1>9. Progress(p)'
  BY <1>1, <1>2, <1>3, <1>4, <1>6 DEF Account, Progress, Read, Reads, Home, Returned, Installed,
     Removed, PastStop, PastUnlink, PastCommand, PastBlock, InLease, Removers, Registering,
     Becomes, At, TracesAreRecorded
<1>10. Account'
  BY <1>1, <1>2, <1>3, <1>4, <1>6 DEF Account, TracesAreRecorded, Control, Progress, Read, Reads,
     Removed, Installed, InLease, Leased, At, Removers
<1> QED
  BY <1>5, <1>7, <1>8, <1>9, <1>10, StepKeeps

LEMMA EraseKeeps ==
  ASSUME IInv, NEW p \in Procs, Erase(p)
  PROVE  IInv'
<1> DEFINE files == [disk EXCEPT !.identity = NoIdentity]
<1>1. disk \in Disks /\ proc \in [Procs -> Commands] /\ Account /\ Control(p) /\ Progress(p)
  BY Given
<1>2. /\ At(p, "erase") /\ TRUE
      /\ disk' = files /\ lease' = NoProc /\ spent' = spent
  BY <1>1 DEF Erase, Goes
<1>3. /\ proc[p].op = "purge" /\ InLock(p) /\ ~Unlinked(p) /\ lease = p
  BY <1>1, <1>2, Whose DEF At, Removers, InLock, Unlinked, Control, Leased, Locked, InLease
<1>4. Becomes(p, "record", proc[p].fd, proc[p].held, proc[p].inv, proc[p].id)
  BY <1>1, <1>2, <1>3, GoesBecomes DEF Erase, Steps
<1>5. TypeOK'
  <2>1. files \in Disks
    BY <1>1, <1>3 DEF NoIdentity, Disks, Identities
  <2> QED
    BY <1>2, <1>4, <2>1, Given, TypesNext DEF Becomes
<1>6. /\ disk'.loaders = disk.loaders
      /\ disk'.identity.id = 0
      /\ disk'.identity.purging = FALSE
      /\ disk'.identity.exe = FALSE
      /\ disk'.identity.pending = FALSE
      /\ disk'.lock = disk.lock /\ disk'.bin = disk.bin /\ disk'.receipt = disk.receipt
      /\ disk'.command = disk.command /\ disk'.startup = disk.startup /\ disk'.block = disk.block
      /\ disk'.entry = disk.entry /\ disk'.record = disk.record /\ disk'.service = disk.service
      /\ disk'.key = disk.key
  BY <1>1, <1>2 DEF NoIdentity, Disks, Identities
<1> HIDE DEF files
<1>7. Respects(p)
  BY <1>1, <1>2, <1>3, <1>4, <1>6 DEF Respects, NotRevived, Becomes, NoIdentity
<1>8. Control(p)' /\ (InLock(p)' => InLock(p) /\ proc'[p].fd = proc[p].fd)
  BY <1>1, <1>2, <1>3, <1>4, <1>6, ProcsAssumption DEF Control, Place, Locked, Leased, InLock,
     InLease, Unlinked, At, Becomes, InstallSteps, UninstallSteps, PurgeSteps, StartSteps, Removers,
     NoIdentity
<1>9. Progress(p)'
  BY <1>1, <1>2, <1>3, <1>4, <1>6 DEF Account, Progress, Read, Reads, Home, Returned, Installed,
     Removed, PastStop, PastUnlink, PastCommand, PastBlock, InLease, Removers, Registering,
     Becomes, At, NoIdentity
<1>10. Account'
  BY <1>1, <1>2, <1>3, <1>4, <1>6 DEF Account, TracesAreRecorded, Control, Progress, Read, Reads,
     Removed, Installed, InLease, Leased, At, Removers, NoIdentity, PastStop, PastUnlink
<1> QED
  BY <1>5, <1>7, <1>8, <1>9, <1>10, StepKeeps

LEMMA LaunchStarts ==
  ASSUME IInv, NEW p \in Procs, Launch(p), disk.identity.exe /\ disk.bin = proc[p].version /\ Usable
  PROVE  IInv'
<1> DEFINE files == [disk EXCEPT !.service = TRUE]
<1>1. disk \in Disks /\ proc \in [Procs -> Commands] /\ Account /\ Control(p) /\ Progress(p)
  BY Given
<1>2. /\ At(p, "launch") /\ disk.identity.exe /\ disk.bin = proc[p].version
      /\ disk' = files /\ lease' = NoProc /\ spent' = spent
  BY <1>1 DEF Launch, Goes
<1>3. /\ proc[p].op = "start" /\ lease = p /\ ~InLock(p) /\ proc[p].version # 0
  BY <1>1, <1>2, Whose DEF At, Removers, InLock, Unlinked, Control, Leased, Locked, InLease, Place
<1>4. Becomes(p, "enable", proc[p].fd, proc[p].held, proc[p].inv, proc[p].id)
  BY <1>1, <1>2, <1>3, GoesBecomes DEF Launch, Steps
<1>5. TypeOK'
  <2>1. files \in Disks
    BY <1>1, <1>3 DEF Disks, Identities
  <2> QED
    BY <1>2, <1>4, <2>1, Given, TypesNext DEF Becomes
<1>6. /\ disk'.loaders = disk.loaders
      /\ disk'.service = TRUE
      /\ disk'.lock = disk.lock /\ disk'.bin = disk.bin /\ disk'.receipt = disk.receipt
      /\ disk'.command = disk.command /\ disk'.startup = disk.startup /\ disk'.block = disk.block
      /\ disk'.entry = disk.entry /\ disk'.record = disk.record /\ disk'.key = disk.key
      /\ disk'.identity = disk.identity
  BY <1>1, <1>2 DEF Disks, Identities
<1> HIDE DEF files
<1>7. Respects(p)
  BY <1>1, <1>2, <1>3, <1>4, <1>6 DEF Respects, NotRevived, Becomes
<1>8. Control(p)' /\ (InLock(p)' => InLock(p) /\ proc'[p].fd = proc[p].fd)
  BY <1>1, <1>2, <1>3, <1>4, <1>6, ProcsAssumption DEF Control, Place, Locked, Leased, InLock,
     InLease, Unlinked, At, Becomes, InstallSteps, UninstallSteps, PurgeSteps, StartSteps, Removers
<1>9. Progress(p)'
  BY <1>1, <1>2, <1>3, <1>4, <1>6 DEF Account, Progress, Read, Reads, Home, Returned, Installed,
     Removed, PastStop, PastUnlink, PastCommand, PastBlock, InLease, Removers, Registering,
     Becomes, At
<1>10. Account'
  BY <1>1, <1>2, <1>3, <1>4, <1>6 DEF Account, TracesAreRecorded, Control, Progress, Read, Reads,
     Removed, Installed, InLease, Leased, At, Removers
<1> QED
  BY <1>5, <1>7, <1>8, <1>9, <1>10, StepKeeps

LEMMA EnableKeeps ==
  ASSUME IInv, NEW p \in Procs, Enable(p), disk.service
  PROVE  IInv'
<1> DEFINE files == disk
<1>1. disk \in Disks /\ proc \in [Procs -> Commands] /\ Account /\ Control(p) /\ Progress(p)
  BY Given
<1>2. /\ At(p, "enable") /\ TRUE
      /\ disk' = files /\ lease' = lease /\ spent' = spent
  BY <1>1 DEF Enable, Goes
<1>3. /\ proc[p].op = "start" /\ ~InLock(p) /\ lease # p
  BY <1>1, <1>2, Whose DEF At, Removers, InLock, Unlinked, Control, Leased, Locked, InLease
<1>4. Becomes(p, "reopen", proc[p].fd, proc[p].held, proc[p].inv, proc[p].id)
  BY <1>1, <1>2, <1>3, GoesBecomes DEF Enable, Steps
<1>5. TypeOK'
  <2>1. files \in Disks
    BY <1>1, <1>3 DEF Disks, Identities
  <2> QED
    BY <1>2, <1>4, <2>1, Given, TypesNext DEF Becomes
<1>6. disk' = disk
  BY <1>1, <1>2 DEF Disks, Identities
<1> HIDE DEF files
<1>7. Respects(p)
  BY <1>1, <1>2, <1>3, <1>4, <1>6 DEF Respects, NotRevived, Becomes
<1>8. Control(p)' /\ (InLock(p)' => InLock(p) /\ proc'[p].fd = proc[p].fd)
  BY <1>1, <1>2, <1>3, <1>4, <1>6 DEF Control, Place, Locked, Leased, InLock, InLease, Unlinked, At,
     Becomes, InstallSteps, UninstallSteps, PurgeSteps, StartSteps, Removers
<1>9. Progress(p)'
  BY <1>1, <1>2, <1>3, <1>4, <1>6 DEF Account, Progress, Read, Reads, Home, Returned, Installed,
     Removed, PastStop, PastUnlink, PastCommand, PastBlock, InLease, Removers, Registering,
     Becomes, At
<1>10. Account'
  BY <1>1, <1>2, <1>3, <1>4, <1>6 DEF Account, TracesAreRecorded, Control, Progress, Read, Reads,
     Removed, Installed, InLease, Leased, At, Removers
<1> QED
  BY <1>5, <1>7, <1>8, <1>9, <1>10, StepKeeps

LEMMA ReopenReads ==
  ASSUME IInv, NEW p \in Procs, Reopen(p), Usable
  PROVE  IInv'
<1> DEFINE files == disk
<1>1. disk \in Disks /\ proc \in [Procs -> Commands] /\ Account /\ Control(p) /\ Progress(p)
  BY Given
<1>2. /\ At(p, "reopen") /\ disk.identity.id # 0
      /\ disk' = files /\ lease' = lease /\ spent' = spent
  BY <1>1 DEF Reopen, Usable
<1>3. /\ proc[p].op = "start" /\ ~InLock(p) /\ lease # p /\ disk.identity.id \in Nat
  BY <1>1, <1>2, Whose DEF At, Removers, InLock, Unlinked, Control, Leased, Locked, InLease, Disks,
     Identities
<1>4. Becomes(p, "register", proc[p].fd, proc[p].held, proc[p].inv, disk.identity.id)
  BY <1>1, <1>2, <1>3, ReadsIdentity DEF Reopen, Steps
<1>5. TypeOK'
  <2>1. files \in Disks
    BY <1>1, <1>3 DEF Disks, Identities
  <2> QED
    BY <1>2, <1>4, <2>1, Given, TypesNext DEF Becomes
<1>6. disk' = disk
  BY <1>1, <1>2 DEF Disks, Identities
<1> HIDE DEF files
<1>7. Respects(p)
  BY <1>1, <1>2, <1>3, <1>4, <1>6 DEF Respects, NotRevived, Becomes
<1>8. Control(p)' /\ (InLock(p)' => InLock(p) /\ proc'[p].fd = proc[p].fd)
  BY <1>1, <1>2, <1>3, <1>4, <1>6 DEF Control, Place, Locked, Leased, InLock, InLease, Unlinked, At,
     Becomes, InstallSteps, UninstallSteps, PurgeSteps, StartSteps, Removers
<1>9. Progress(p)'
  BY <1>1, <1>2, <1>3, <1>4, <1>6 DEF Account, Progress, Read, Reads, Home, Returned, Installed,
     Removed, PastStop, PastUnlink, PastCommand, PastBlock, InLease, Removers, Registering,
     Becomes, At
<1>10. Account'
  BY <1>1, <1>2, <1>3, <1>4, <1>6 DEF Account, TracesAreRecorded, Control, Progress, Read, Reads,
     Removed, Installed, InLease, Leased, At, Removers
<1> QED
  BY <1>5, <1>7, <1>8, <1>9, <1>10, StepKeeps

----------------------------------------------------------------------------
(* Beginning, opening and locking *)

LEMMA BeginKeeps ==
  ASSUME IInv, NEW p \in Procs, Begin(p)
  PROVE  IInv'
<1> DEFINE new(op, v) == [Idle EXCEPT !.op = op, !.version = v, !.at = First(op)]
<1>1. /\ disk \in Disks /\ proc \in [Procs -> Commands] /\ Account /\ Control(p) /\ Progress(p)
      /\ spent \in Spendings /\ lease \in Procs \cup {NoProc}
  BY Given
<1>2. PICK op \in {"install", "uninstall", "purge", "start"}, v \in Versions :
           proc' = [proc EXCEPT ![p] = new(op, v)]
  BY DEF Begin
<1>3. /\ At(p, "idle") /\ disk' = disk /\ lease' = lease /\ lease # p
      /\ spent' = [spent EXCEPT !.operations = @ + 1] /\ spent.operations < MaxOperations
  BY <1>1 DEF Begin, At, Control, Leased, InLease, Place
<1>4. First(op) \in Steps /\ v \in Versions \cup {0} /\ v # 0
  BY VersionsAssumption DEF Steps, First
<1>5. /\ new(op, v) \in Commands
      /\ new(op, v).op = op /\ new(op, v).version = v /\ new(op, v).at = First(op)
      /\ new(op, v).held = FALSE
  BY <1>4, IdleFits DEF Commands, Idle, Ops
<1>6. /\ proc' \in [Procs -> Commands] /\ \A q \in Procs \ {p} : proc'[q] = proc[q]
      /\ proc'[p].op = op /\ proc'[p].version = v /\ proc'[p].at = First(op) /\ proc'[p].held = FALSE
  <2> HIDE DEF new
  <2> QED
    BY <1>1, <1>2, <1>5
<1>7. TypeOK'
  <2>1. spent' \in Spendings
    BY <1>1, <1>3, BoundsAssumption DEF Spendings
  <2> QED
    BY <1>1, <1>3, <1>6, <2>1, TypesNext
<1>8. Respects(p)
  BY <1>3, <1>6 DEF Respects, NotRevived
<1>9. Control(p)' /\ ~InLock(p)'
  BY <1>3, <1>4, <1>6 DEF First, Control, Place, Locked, Leased, InLock, InLease, Unlinked, At,
     InstallSteps,
     UninstallSteps, PurgeSteps, StartSteps
<1>10. Progress(p)'
  BY <1>3, <1>6 DEF First, Progress, Read, Reads, Home, Returned, Installed, Removed, PastStop,
     PastUnlink, PastCommand, PastBlock, InLease, Removers, Registering, At
<1>11. Account'
  BY <1>1, <1>3 DEF Account, TracesAreRecorded
<1> QED
  BY <1>7, <1>8, <1>9, <1>10, <1>11, StepKeeps

LEMMA LockOpened ==
  ASSUME IInv, NEW p \in Procs, OpenLock(p), disk.root
  PROVE  IInv'
<1> DEFINE used == {proc[q].fd : q \in Procs} \cup {0}
<1>1. disk \in Disks /\ proc \in [Procs -> Commands] /\ Account /\ Control(p) /\ Progress(p)
  BY Given
<1>2. Unused(used) \in Nat /\ Unused(used) # 0
  BY <1>1, RefsFinite, UnusedFits
<1> HIDE DEF used
<1>3. PICK fd \in Nat \ {0} :
        /\ disk.lock # 0 => fd = disk.lock
        /\ disk' = [disk EXCEPT !.lock = fd]
        /\ proc' = [proc EXCEPT ![p].fd = fd, ![p].at = "lock"]
  BY <1>1, <1>2 DEF OpenLock, Disks, used
<1>4. At(p, "open") /\ lease' = lease /\ spent' = spent
  BY DEF OpenLock
<1>5. proc[p].op \in {"install", "uninstall", "purge"} /\ ~InLock(p) /\ ~InLease(p)
  BY <1>4, Whose DEF At, Removers, InLock, InLease
<1>6. Becomes(p, "lock", fd, proc[p].held, proc[p].inv, proc[p].id)
  BY <1>1, <1>3, OpensFile DEF Steps
<1>7. TypeOK'
  <2>1. disk' \in Disks
    BY <1>1, <1>3 DEF Disks
  <2> QED
    BY <1>4, <1>6, <2>1, Given, TypesNext DEF Becomes
<1>8. Respects(p)
  BY <1>1, <1>3, <1>4, <1>6 DEF Respects, NotRevived, Becomes, Disks
<1>9. Control(p)' /\ ~InLock(p)'
  BY <1>1, <1>3, <1>4, <1>5, <1>6 DEF Control, Place, Locked, Leased, InLock, InLease, Unlinked,
     At, Becomes,
     InstallSteps, UninstallSteps, PurgeSteps, StartSteps, Disks
<1>10. Progress(p)'
  BY <1>3, <1>5, <1>6 DEF Progress, Read, Reads, Home, Returned, Installed, Removed, PastStop,
     PastUnlink, PastCommand, PastBlock,
     InLease, Removers, Registering, At, Becomes
<1>11. Account'
  BY <1>1, <1>3 DEF Account, TracesAreRecorded, Disks
<1> QED
  BY <1>7, <1>8, <1>9, <1>10, <1>11, StepKeeps

\* The only step that may be in the way of another holder.
LEMMA LockTaken ==
  ASSUME IInv, NEW p \in Procs, TakeLock(p), SameFile(p)
  PROVE  IInv'
<1> DEFINE step == IF proc[p].op = "install" THEN "recheck" ELSE "load"
<1>1. disk \in Disks /\ proc \in [Procs -> Commands] /\ Account /\ Control(p) /\ Progress(p)
  BY Given
<1>2. /\ At(p, "lock") /\ disk' = disk /\ lease' = lease /\ spent' = spent
      /\ disk.lock = proc[p].fd
      /\ \A q \in Procs : proc[q].held => proc[q].fd # proc[p].fd
      /\ proc' = [proc EXCEPT ![p].held = TRUE, ![p].at = step]
  BY DEF TakeLock, SameFile
<1>3. proc[p].op \in {"install", "uninstall", "purge"} /\ ~InLock(p) /\ ~InLease(p)
  BY <1>2, Whose DEF At, Removers, InLock, InLease
<1>4. Becomes(p, step, proc[p].fd, TRUE, proc[p].inv, proc[p].id)
  BY <1>1, <1>2, LocksFile DEF Steps
<1>5. TypeOK'
  BY <1>2, <1>4, Given, TypesNext DEF Becomes
<1>6. Respects(p)
  BY <1>2, <1>4 DEF Respects, NotRevived, Becomes
<1>7. Control(p)'
  BY <1>1, <1>2, <1>3, <1>4 DEF Control, Place, Locked, Leased, InLock, InLease, Unlinked, At,
     Becomes,
     InstallSteps, UninstallSteps, PurgeSteps, StartSteps
<1>8. Progress(p)'
  BY <1>3, <1>4 DEF Progress, Read, Reads, Home, Returned, Installed, Removed, PastStop,
     PastUnlink, PastCommand, PastBlock,
     InLease, Removers, Registering, At, Becomes
<1>9. Account'
  BY <1>1, <1>2 DEF Account, TracesAreRecorded
<1>10. ASSUME NEW q \in Procs PROVE Control(q)' /\ Progress(q)'
  BY <1>6, <1>7, <1>8, OthersKeep, StaysFit
<1>11. \A q \in Procs \ {p} : (InLock(q)' <=> InLock(q)) /\ proc'[q].fd = proc[q].fd
  BY <1>4 DEF Becomes, InLock
<1>12. \A q \in Procs \ {p} : InLock(q) => proc[q].fd # proc[p].fd
  BY <1>2 DEF IInv, Control, Locked
<1>13. LocksDiffer'
  BY <1>4, <1>11, <1>12 DEF IInv, LocksDiffer, Becomes
<1> QED
  BY <1>5, <1>9, <1>10, <1>13 DEF IInv

LEMMA StoreOpened ==
  ASSUME IInv, NEW p \in Procs, proc[p].op \in {"install", "start"}, OpenStore(p), disk.root
  PROVE  IInv'
<1> DEFINE used == {0, disk.receipt.id, disk.key} \cup {proc[q].id : q \in Procs}
<1>1. disk \in Disks /\ proc \in [Procs -> Commands] /\ Account /\ Control(p) /\ Progress(p)
  BY Given
<1>2. Unused(used) \in Nat /\ Unused(used) # 0 /\ \A q \in Procs : proc[q].id # Unused(used)
  BY <1>1, RefsFinite, UnusedFits
<1> HIDE DEF used
<1>3. PICK id \in Nat \ {0} :
        /\ disk.identity.id # 0 => id = disk.identity.id
        /\ disk.identity.id = 0 => \A q \in Procs : proc[q].id # id
        /\ disk' = [disk EXCEPT !.identity.id = id]
        /\ proc' = [proc EXCEPT ![p].id = id, ![p].at = "lease"]
  BY <1>1, <1>2 DEF OpenStore, Disks, Identities, used
<1>4. At(p, "store") /\ lease = NoProc /\ lease' = lease /\ spent' = spent
  BY DEF OpenStore
<1>5. ~InLease(p) /\ (InLock(p) <=> proc[p].op = "install") /\ ~Unlinked(p) /\ p # NoProc
  BY <1>4, ProcsAssumption DEF At, InLock, InLease, Unlinked
<1>6. Becomes(p, "lease", proc[p].fd, proc[p].held, proc[p].inv, id)
  BY <1>1, <1>3, ReadsIdentity DEF Steps
<1>7. TypeOK'
  <2>1. disk' \in Disks
    BY <1>1, <1>3 DEF Disks, Identities
  <2> QED
    BY <1>4, <1>6, <2>1, Given, TypesNext DEF Becomes
<1>8. Respects(p)
  BY <1>1, <1>3, <1>4, <1>6 DEF Respects, NotRevived, Becomes, Disks, Identities
<1>9. Control(p)' /\ (InLock(p)' => InLock(p) /\ proc'[p].fd = proc[p].fd)
  BY <1>1, <1>3, <1>4, <1>5, <1>6 DEF Control, Place, Locked, Leased, InLock, InLease, Unlinked,
     At, Becomes,
     InstallSteps, UninstallSteps, PurgeSteps, StartSteps, Disks, Identities
<1>10. Progress(p)'
  BY <1>1, <1>3, <1>4, <1>5, <1>6 DEF Progress, Read, Reads, Home, Returned, Installed, Removed,
     PastStop,
     PastUnlink, PastCommand, PastBlock, InLease, Removers, Registering, At, Becomes, Disks,
     Identities
<1>11. Account'
  BY <1>1, <1>3 DEF Account, TracesAreRecorded, Disks, Identities
<1> QED
  BY <1>7, <1>8, <1>9, <1>10, <1>11, StepKeeps

----------------------------------------------------------------------------
(* The user *)

LEMMA UserKeeps ==
  ASSUME IInv, EditCommand \/ EditStartup \/ EditAgent \/ SaveCredential
  PROVE  IInv'
<1>1. /\ disk \in Disks /\ proc \in [Procs -> Commands] /\ Account
      /\ spent \in Spendings /\ lease \in Procs \cup {NoProc}
  BY Types DEF IInv
<1>2. proc' = proc /\ lease' = lease /\ spent' \in Spendings
  BY <1>1, BoundsAssumption DEF EditCommand, EditStartup, EditAgent, SaveCredential, Edits,
     Spendings
<1>3. \/ \E command \in {"none", "other"} : disk' = [disk EXCEPT !.command = command]
      \/ \E entry \in {"none", "edited"} : disk' = [disk EXCEPT !.entry = entry]
      \/ \E block \in {"none", "ambiguous"} : disk' = [disk EXCEPT !.block = block]
      \/ disk.startup = "backup" /\ disk' = [disk EXCEPT !.startup = "remade"]
      \/ disk' = [disk EXCEPT !.key = disk.identity.id] /\ lease = NoProc
  BY DEF EditCommand, EditStartup, EditAgent, SaveCredential, Edits
<1>4. disk' \in Disks /\ Account' /\ \A q \in Procs : Kept(q)
  <2>1. CASE \E command \in {"none", "other"} : disk' = [disk EXCEPT !.command = command]
    BY <1>1, <1>2, <2>1 DEF Disks, Account, TracesAreRecorded, Kept, NotRevived
  <2>2. CASE \E entry \in {"none", "edited"} : disk' = [disk EXCEPT !.entry = entry]
    BY <1>1, <1>2, <2>2 DEF Disks, Account, TracesAreRecorded, Kept, NotRevived
  <2>3. CASE disk' = [disk EXCEPT !.key = disk.identity.id] /\ lease = NoProc
    BY <1>1, <1>2, <2>3, ProcsAssumption DEF Disks, Identities, Account, TracesAreRecorded, Kept,
       NotRevived
  <2>4. CASE \E block \in {"none", "ambiguous"} : disk' = [disk EXCEPT !.block = block]
    BY <1>1, <1>2, <2>4 DEF Disks, Account, TracesAreRecorded, Kept, NotRevived
  <2>5. CASE disk.startup = "backup" /\ disk' = [disk EXCEPT !.startup = "remade"]
    BY <1>1, <1>2, <2>5 DEF Disks, Account, TracesAreRecorded, Kept, NotRevived
  <2> QED
    BY <1>3, <2>1, <2>2, <2>3, <2>4, <2>5
<1>5. TypeOK'
  BY <1>1, <1>2, <1>4, TypesNext
<1>6. \A q \in Procs : Control(q)' /\ Progress(q)'
  BY <1>4, StaysFit
<1>7. LocksDiffer'
  BY <1>2 DEF IInv, LocksDiffer, InLock
<1> QED
  BY <1>4, <1>5, <1>6, <1>7 DEF IInv

----------------------------------------------------------------------------
(* The invariant *)

LEMMA InstallingKeeps ==
  ASSUME IInv, NEW p \in Procs, Installing(p)
  PROVE  IInv'
<1>1. CASE Check(p)
  <2>1. CASE Refuses(p)
    BY <1>1, <2>1, QuitKeeps DEF Check
  <2>2. CASE ~(Refuses(p))
    BY <1>1, <2>2, CheckWrites DEF Check
  <2> QED
    BY <2>1, <2>2
<1>2. CASE Recheck(p)
  <2>1. CASE Refuses(p) \/ Foreign(p)
    BY <1>2, <2>1, QuitKeeps DEF Recheck
  <2>2. CASE ~(Refuses(p) \/ Foreign(p))
    BY <1>2, <2>2, RecheckReads DEF Recheck
  <2> QED
    BY <2>1, <2>2
<1>3. CASE Recover(p, "recover", "store")
  BY <1>3, RecoverFirst
<1>4. CASE proc[p].op = "install" /\ OpenStore(p)
  <2>1. CASE ~disk.root
    BY <1>4, <2>1, QuitKeeps DEF OpenStore
  <2>2. CASE ~(~disk.root)
    BY <1>4, <2>2, StoreOpened DEF OpenStore
  <2> QED
    BY <2>1, <2>2
<1>5. CASE proc[p].op = "install" /\ TakeLease(p, "lease", "stop")
  <2>1. CASE ~(Current(p) /\ Admitted(p))
    BY <1>5, <2>1, QuitKeeps DEF TakeLease
  <2>2. CASE ~(~(Current(p) /\ Admitted(p)))
    BY <1>5, <2>2, LeaseToInstall DEF TakeLease
  <2> QED
    BY <2>1, <2>2
<1>6. CASE proc[p].op = "install" /\ StopService(p, "bind")
  BY <1>6, StopToBind
<1>7. CASE Bind(p)
  BY <1>7, BindKeeps
<1>8. CASE Rename(p)
  BY <1>8, RenameKeeps
<1>9. CASE Settle(p)
  BY <1>9, SettleInstall, SettlePurge, SettleUninstall, Whose DEF Settle, At, Removers
<1>10. CASE Adopt(p)
  <2>1. CASE proc[p].inv.id \notin {0, disk.identity.id}
    BY <1>10, <2>1, QuitKeeps DEF Adopt
  <2>2. CASE ~(proc[p].inv.id \notin {0, disk.identity.id})
    BY <1>10, <2>2, AdoptReads DEF Adopt
  <2> QED
    BY <2>1, <2>2
<1>11. CASE Save(p)
  BY <1>11, SaveKeeps
<1>12. CASE Link(p)
  <2>1. CASE CommandTaken
    BY <1>12, <2>1, QuitKeeps DEF Link
  <2>2. CASE ~(CommandTaken)
    BY <1>12, <2>2, LinkWrites DEF Link
  <2> QED
    BY <2>1, <2>2
<1>13. CASE WriteLoaders(p)
  BY <1>13, LoadersKeep
<1>14. CASE RecordBlock(p)
  BY <1>14, BlockRecorded, NoBlock DEF RecordBlock
<1>15. CASE WriteBlock(p)
  BY <1>15, WriteBlockKeeps
<1> QED
  BY <1>1, <1>2, <1>3, <1>4, <1>5, <1>6, <1>7, <1>8, <1>9, <1>10, <1>11, <1>12, <1>13, <1>14,
     <1>15 DEF Installing

LEMMA RemovingKeeps ==
  ASSUME IInv, NEW p \in Procs, Removing(p)
  PROVE  IInv'
<1>1. CASE Load(p)
  <2>1. CASE (disk.receipt.legacy = "purging" /\ proc[p].op # "purge") \/ Orphaned
    BY <1>1, <2>1, QuitKeeps DEF Load
  <2>2. CASE ~((disk.receipt.legacy = "purging" /\ proc[p].op # "purge") \/ Orphaned)
    BY <1>1, <2>2, LoadWithIdentity, LoadWithoutIdentity DEF Load
  <2> QED
    BY <2>1, <2>2
<1>2. CASE proc[p].op \in {"uninstall", "purge"} /\ TakeLease(p, "lease", "stop")
  <2>1. CASE ~(Current(p) /\ Admitted(p))
    BY <1>2, <2>1, QuitKeeps DEF TakeLease, Removers
  <2>2. CASE ~(~(Current(p) /\ Admitted(p)))
    BY <1>2, <2>2, LeaseToRemove DEF TakeLease, Removers
  <2> QED
    BY <2>1, <2>2
<1>3. CASE proc[p].op \in {"uninstall", "purge"} /\ StopService(p, "agents")
  BY <1>3, StopToAgents DEF Removers
<1>4. CASE Unregister(p)
  <2>1. CASE disk' = disk /\ Ends(p)
    BY <1>4, <2>1, QuitKeeps DEF Unregister
  <2>2. CASE ~(disk' = disk /\ Ends(p))
    BY <1>4, <2>2, NothingRegistered, EntryRemoved DEF Unregister
  <2> QED
    BY <2>1, <2>2
<1>5. CASE Forget(p)
  BY <1>5, ForgetKeeps
<1>6. CASE Recover(p, "files", "unshell")
  BY <1>6, RecoverAgain
<1>7. CASE RemoveBlock(p)
  BY <1>7, RemoveBlockKeeps
<1>8. CASE RemoveCommand(p)
  BY <1>8, RemoveCommandKeeps
<1>9. CASE CleanLegacy(p)
  BY <1>9, CleanWithoutIdentity, CleanWithIdentity
<1>10. CASE Tombstone(p)
  BY <1>10, TombstoneKeeps
<1>11. CASE DeleteKey(p)
  BY <1>11, DeleteKeyKeeps
<1>12. CASE RemoveBinary(p)
  BY <1>12, RemoveBinaryPurge, RemoveBinaryUninstall, Whose DEF RemoveBinary, At, Removers
<1>13. CASE Erase(p)
  BY <1>13, EraseKeeps
<1>14. CASE Record(p)
  BY <1>14, RecordErased, RecordAbsent, RecordKept, Whose DEF Record, At, Removers
<1>15. CASE UnlinkLock(p)
  BY <1>15, UnlinkLockKeeps
<1>16. CASE RemoveRoot(p)
  BY <1>16, RemoveRootKeeps
<1> QED
  BY <1>1, <1>2, <1>3, <1>4, <1>5, <1>6, <1>7, <1>8, <1>9, <1>10, <1>11, <1>12, <1>13, <1>14,
     <1>15, <1>16 DEF Removing

LEMMA StartingKeeps ==
  ASSUME IInv, NEW p \in Procs, Starting(p)
  PROVE  IInv'
<1>1. CASE proc[p].op = "start" /\ OpenStore(p)
  <2>1. CASE ~disk.root
    BY <1>1, <2>1, QuitKeeps DEF OpenStore
  <2>2. CASE ~(~disk.root)
    BY <1>1, <2>2, StoreOpened DEF OpenStore
  <2> QED
    BY <2>1, <2>2
<1>2. CASE proc[p].op = "start" /\ TakeLease(p, "lease", "launch")
  <2>1. CASE ~(Current(p) /\ Admitted(p))
    BY <1>2, <2>1, QuitKeeps DEF TakeLease
  <2>2. CASE ~(~(Current(p) /\ Admitted(p)))
    BY <1>2, <2>2, LeaseToLaunch DEF TakeLease
  <2> QED
    BY <2>1, <2>2
<1>3. CASE Launch(p)
  <2>1. CASE ~(disk.identity.exe /\ disk.bin = proc[p].version /\ Usable)
    BY <1>3, <2>1, QuitKeeps DEF Launch
  <2>2. CASE ~(~(disk.identity.exe /\ disk.bin = proc[p].version /\ Usable))
    BY <1>3, <2>2, LaunchStarts DEF Launch
  <2> QED
    BY <2>1, <2>2
<1>4. CASE Enable(p)
  <2>1. CASE ~disk.service
    BY <1>4, <2>1, QuitKeeps DEF Enable
  <2>2. CASE ~(~disk.service)
    BY <1>4, <2>2, EnableKeeps DEF Enable
  <2> QED
    BY <2>1, <2>2
<1>5. CASE Reopen(p)
  <2>1. CASE ~Usable
    BY <1>5, <2>1, QuitKeeps DEF Reopen
  <2>2. CASE ~(~Usable)
    BY <1>5, <2>2, ReopenReads DEF Reopen
  <2> QED
    BY <2>1, <2>2
<1>6. CASE TakeLease(p, "register", "ensure")
  <2>1. CASE ~(Current(p) /\ Admitted(p))
    BY <1>6, <2>1, QuitKeeps DEF TakeLease
  <2>2. CASE ~(~(Current(p) /\ Admitted(p)))
    BY <1>6, <2>2, LeaseToEnsure DEF TakeLease
  <2> QED
    BY <2>1, <2>2
<1>7. CASE Inspect(p)
  <2>1. CASE disk' = disk /\ Ends(p)
    BY <1>7, <2>1, QuitKeeps DEF Inspect, Publishes, Intends
  <2>2. CASE ~(disk' = disk /\ Ends(p))
    BY <1>7, <2>2, EntryAdopted, IntentRecorded DEF Inspect, Publishes, Intends
  <2> QED
    BY <2>1, <2>2
<1>8. CASE Add(p)
  <2>1. CASE disk.entry # "none"
    BY <1>8, <2>1, QuitKeeps DEF Add
  <2>2. CASE ~(disk.entry # "none")
    BY <1>8, <2>2, EntryAdded DEF Add
  <2> QED
    BY <2>1, <2>2
<1>9. CASE Own(p)
  <2>1. CASE disk.entry # "ours"
    BY <1>9, <2>1, QuitKeeps DEF Own, Publishes
  <2>2. CASE ~(disk.entry # "ours")
    BY <1>9, <2>2, EntryOwned DEF Own, Publishes
  <2> QED
    BY <2>1, <2>2
<1> QED
  BY <1>1, <1>2, <1>3, <1>4, <1>5, <1>6, <1>7, <1>8, <1>9 DEF Starting

LEMMA NextInv == IInv /\ [Next]_vars => IInv'
<1> SUFFICES ASSUME IInv, [Next]_vars PROVE IInv'
  OBVIOUS
<1>1. ASSUME NEW p \in Procs, Step(p) PROVE IInv'
  <2>1. CASE Begin(p)
    BY <2>1, BeginKeeps
  <2>2. CASE OpenLock(p)
    BY <2>2, LockOpened, QuitKeeps DEF OpenLock
  <2>3. CASE TakeLock(p)
    BY <2>3, LockTaken, QuitKeeps DEF TakeLock
  <2>4. CASE Installing(p) \/ Removing(p) \/ Starting(p)
    BY <2>4, InstallingKeeps, RemovingKeeps, StartingKeeps
  <2>5. CASE Finish(p) \/ Stops(p)
    BY <2>5, QuitKeeps DEF Finish, Stops
  <2> QED
    BY <1>1, <2>1, <2>2, <2>3, <2>4, <2>5 DEF Step
<1>2. CASE EditCommand \/ EditStartup \/ EditAgent \/ SaveCredential
  BY <1>2, UserKeeps
<1>3. CASE UNCHANGED vars
  <2>1. disk' = disk /\ proc' = proc /\ lease' = lease /\ spent' = spent
    BY <1>3 DEF vars
  <2>2. \A q \in Procs : Kept(q)
    BY <2>1 DEF Kept, NotRevived
  <2>3. \A q \in Procs : Control(q)' /\ Progress(q)'
    BY <2>2, StaysFit
  <2>4. TypeOK'
    BY <2>1, Types, TypesNext DEF IInv
  <2>5. Account' /\ LocksDiffer'
    BY <2>1 DEF IInv, Account, TracesAreRecorded, LocksDiffer, InLock
  <2> QED
    BY <2>3, <2>4, <2>5 DEF IInv
<1> QED
  BY <1>1, <1>2, <1>3 DEF Next

\* No interleaving of installers, uninstallers, starts and edits, and no failure of
\* theirs at any step, breaks the inductive invariant.
THEOREM InstallationInvariant == Spec => []IInv
<1>1. Init => IInv
  BY InitInv
<1>2. IInv /\ [Next]_vars => IInv'
  BY NextInv
<1> QED
  BY <1>1, <1>2, PTL DEF Spec

\* Types of the account and of the commands.
THEOREM TypeCorrect == Spec => []TypeOK
<1>1. IInv => TypeOK
  BY DEF IInv
<1> QED
  BY <1>1, InstallationInvariant, PTL

\* Everything in the account is on record for a later uninstall, but for a block
\* whose removal failed with a warning (install.go, uninstall.go, ownership.go).
THEOREM TracesAreRecordedThm == Spec => []TracesAreRecorded
<1>1. IInv => TracesAreRecorded
  BY DEF IInv, Account
<1> QED
  BY <1>1, InstallationInvariant, PTL

\* A command that reports success has done what it is for, whatever ran meanwhile:
\* each of the four, as far as the code promises it (SuccessIsComplete).
THEOREM SuccessIsCompleteThm == Spec => []SuccessIsComplete
<1>1. IInv => SuccessIsComplete
  <2> SUFFICES ASSUME IInv, NEW p \in Procs, At(p, "finish")
               PROVE  /\ proc[p].op = "install" =>
                           /\ disk.bin = proc[p].version /\ disk.receipt.release = proc[p].version
                           /\ disk.identity.id = disk.receipt.id /\ disk.identity.exe /\ ~disk.identity.pending
                      /\ proc[p].op = "uninstall" =>
                           /\ disk.bin = 0 /\ ~disk.service /\ disk.command # "ours"
                           /\ ~disk.loaders /\ disk.block # "ours"
                      /\ proc[p].op = "purge" /\ proc[p].id # 0 =>
                           proc[p].id \notin {disk.identity.id, disk.receipt.id, disk.key}
                      /\ proc[p].op = "start" =>
                           disk.record = "owned" /\ disk.identity.id = proc[p].id
    BY DEF SuccessIsComplete
  <2>1. Progress(p) /\ Control(p) /\ Account
    BY Given
  <2>2. CASE proc[p].op = "install"
    BY <2>1, <2>2 DEF At, Progress, Installed
  <2>3. CASE proc[p].op = "uninstall"
    BY <2>1, <2>3 DEF At, Progress, Removed, Removers, PastStop, PastUnlink, PastCommand, PastBlock
  <2>4. CASE proc[p].op = "purge"
    BY <2>1, <2>4 DEF At, Progress, Removed, Removers, Account, TracesAreRecorded
  <2>5. CASE proc[p].op = "start"
    BY <2>1, <2>5 DEF At, Progress, Registering, Control, Leased, InLease
  <2> QED
    BY <2>2, <2>3, <2>4, <2>5
<1> QED
  BY <1>1, InstallationInvariant, PTL

----------------------------------------------------------------------------
(* What a step may never do *)

\* Of a step of a command: the executable comes with a release and goes in one
\* place, and the user's command, edited entry and moved startup file stay.
Spares(p) ==
  /\ disk'.bin # disk.bin => Rename(p) \/ RemoveBinary(p)
  /\ disk.command = "other" => disk'.command = "other"
  /\ disk.entry = "edited" => disk'.entry = "edited"
  /\ disk.startup = "backup" => disk'.startup # "lost"

\* A backup is home again, or on no record, when the old names are removed.
LEMMA CleanedLate ==
  ASSUME IInv, NEW p \in Procs, Adopt(p) \/ CleanLegacy(p), disk.startup = "backup"
  PROVE  Cleaned(p) # "lost"
<1>1. Progress(p) /\ proc[p].at \in {"adopt", "clean"}
  BY Given DEF Adopt, CleanLegacy, At
<1>2. proc[p].inv = disk.receipt /\ disk.receipt.legacy = "none"
  BY <1>1, Whose DEF At, Progress, Read, Reads, Home, Returned, Removers
<1> QED
  BY <1>2 DEF Cleaned, Moved

LEMMA InstallingSpares ==
  ASSUME IInv, disk \in Disks, NEW p \in Procs, Installing(p)
  PROVE  Spares(p)
<1>1. CASE Check(p)
  BY <1>1 DEF Check, Spares, Writes, Publishes, Disks
<1>2. CASE Recheck(p)
  BY <1>2 DEF Recheck, Spares, Writes, Publishes, Disks
<1>3. CASE Recover(p, "recover", "store")
  BY <1>3 DEF Recover, Spares, Writes, Publishes, Disks, Recovered, Moved
<1>4. CASE proc[p].op = "install" /\ OpenStore(p)
  BY <1>4 DEF OpenStore, Spares, Writes, Publishes, Disks
<1>5. CASE proc[p].op = "install" /\ TakeLease(p, "lease", "stop")
  BY <1>5 DEF TakeLease, Spares, Writes, Publishes, Disks
<1>6. CASE proc[p].op = "install" /\ StopService(p, "bind")
  BY <1>6 DEF StopService, Spares, Writes, Publishes, Disks
<1>7. CASE Bind(p)
  BY <1>7 DEF Bind, Spares, Writes, Publishes, Disks
<1>8. CASE Rename(p)
  BY <1>8 DEF Rename, Spares, Writes, Publishes, Disks
<1>9. CASE Settle(p)
  BY <1>9 DEF Settle, Spares, Writes, Publishes, Disks
<1>10. CASE Adopt(p)
  BY <1>10, CleanedLate DEF Adopt, Spares, Writes, Publishes, Disks
<1>11. CASE Save(p)
  BY <1>11 DEF Save, Spares, Writes, Publishes, Disks
<1>12. CASE Link(p)
  BY <1>12 DEF Link, Spares, Writes, Publishes, Disks, CommandTaken
<1>13. CASE WriteLoaders(p)
  BY <1>13 DEF WriteLoaders, Spares, Writes, Publishes, Disks
<1>14. CASE RecordBlock(p)
  BY <1>14 DEF RecordBlock, Spares, Writes, Publishes, Disks
<1>15. CASE WriteBlock(p)
  BY <1>15 DEF WriteBlock, Spares, Writes, Publishes, Disks
<1> QED
  BY <1>1, <1>2, <1>3, <1>4, <1>5, <1>6, <1>7, <1>8, <1>9, <1>10, <1>11, <1>12, <1>13, <1>14,
     <1>15 DEF Installing

LEMMA RemovingSpares ==
  ASSUME IInv, disk \in Disks, NEW p \in Procs, Removing(p)
  PROVE  Spares(p)
<1>1. CASE Load(p)
  BY <1>1 DEF Load, Spares, Writes, Publishes, Disks
<1>2. CASE proc[p].op \in {"uninstall", "purge"} /\ TakeLease(p, "lease", "stop")
  BY <1>2 DEF TakeLease, Spares, Writes, Publishes, Disks
<1>3. CASE proc[p].op \in {"uninstall", "purge"} /\ StopService(p, "agents")
  BY <1>3 DEF StopService, Spares, Writes, Publishes, Disks
<1>4. CASE Unregister(p)
  BY <1>4 DEF Unregister, Spares, Writes, Publishes, Disks, Recorded, RunsCLI
<1>5. CASE Forget(p)
  BY <1>5 DEF Forget, Spares, Writes, Publishes, Disks
<1>6. CASE Recover(p, "files", "unshell")
  BY <1>6 DEF Recover, Spares, Writes, Publishes, Disks, Recovered, Moved
<1>7. CASE RemoveBlock(p)
  BY <1>7 DEF RemoveBlock, Spares, Writes, Publishes, Disks
<1>8. CASE RemoveCommand(p)
  BY <1>8 DEF RemoveCommand, Spares, Writes, Publishes, Disks
<1>9. CASE CleanLegacy(p)
  BY <1>9, CleanedLate DEF CleanLegacy, Spares, Writes, Publishes, Disks
<1>10. CASE Tombstone(p)
  BY <1>10 DEF Tombstone, Spares, Writes, Publishes, Disks
<1>11. CASE DeleteKey(p)
  BY <1>11 DEF DeleteKey, Spares, Writes, Publishes, Disks
<1>12. CASE RemoveBinary(p)
  BY <1>12 DEF RemoveBinary, Spares, Writes, Publishes, Disks
<1>13. CASE Erase(p)
  BY <1>13 DEF Erase, Spares, Writes, Publishes, Disks
<1>14. CASE Record(p)
  BY <1>14 DEF Record, Spares, Writes, Publishes, Disks
<1>15. CASE UnlinkLock(p)
  BY <1>15 DEF UnlinkLock, Spares, Writes, Publishes, Disks
<1>16. CASE RemoveRoot(p)
  BY <1>16 DEF RemoveRoot, Spares, Writes, Publishes, Disks
<1> QED
  BY <1>1, <1>2, <1>3, <1>4, <1>5, <1>6, <1>7, <1>8, <1>9, <1>10, <1>11, <1>12, <1>13, <1>14,
     <1>15, <1>16 DEF Removing

LEMMA StartingSpares ==
  ASSUME IInv, disk \in Disks, NEW p \in Procs, Starting(p)
  PROVE  Spares(p)
<1>1. CASE proc[p].op = "start" /\ OpenStore(p)
  BY <1>1 DEF OpenStore, Spares, Writes, Publishes, Disks
<1>2. CASE proc[p].op = "start" /\ TakeLease(p, "lease", "launch")
  BY <1>2 DEF TakeLease, Spares, Writes, Publishes, Disks
<1>3. CASE Launch(p)
  BY <1>3 DEF Launch, Spares, Writes, Publishes, Disks
<1>4. CASE Enable(p)
  BY <1>4 DEF Enable, Spares, Writes, Publishes, Disks
<1>5. CASE Reopen(p)
  BY <1>5 DEF Reopen, Spares, Writes, Publishes, Disks
<1>6. CASE TakeLease(p, "register", "ensure")
  BY <1>6 DEF TakeLease, Spares, Writes, Publishes, Disks
<1>7. CASE Inspect(p)
  BY <1>7 DEF Inspect, Spares, Writes, Publishes, Disks, State
<1>8. CASE Add(p)
  BY <1>8 DEF Add, Spares, Writes, Publishes, Disks, RunsCLI
<1>9. CASE Own(p)
  BY <1>9 DEF Own, Spares, Writes, Publishes, Disks
<1> QED
  BY <1>1, <1>2, <1>3, <1>4, <1>5, <1>6, <1>7, <1>8, <1>9 DEF Starting

LEMMA StepSpares ==
  ASSUME IInv, NEW p \in Procs, Step(p)
  PROVE  Spares(p)
<1>1. disk \in Disks
  BY Given
<1>2. CASE Begin(p) \/ TakeLock(p) \/ Finish(p) \/ Stops(p)
  BY <1>2 DEF Begin, TakeLock, Finish, Stops, Spares
<1>3. CASE OpenLock(p)
  BY <1>1, <1>3 DEF OpenLock, Spares, Disks
<1> QED
  BY <1>1, <1>2, <1>3, InstallingSpares, RemovingSpares, StartingSpares DEF Step

LEMMA UserSpares ==
  ASSUME IInv, EditCommand \/ EditStartup \/ EditAgent \/ SaveCredential
  PROVE  /\ disk'.bin = disk.bin
         /\ disk.startup = "backup" => disk'.startup # "lost"
         /\ disk'.command # disk.command \/ disk'.entry # disk.entry => spent'.edits > spent.edits
<1>1. disk \in Disks /\ spent \in Spendings
  BY Types DEF IInv
<1>2. CASE EditCommand \/ EditStartup \/ EditAgent
  <2>1. spent' = [spent EXCEPT !.edits = @ + 1] /\ spent.edits \in Int
    BY <1>1, <1>2, BoundsAssumption DEF EditCommand, EditStartup, EditAgent, Edits, Spendings
  <2>2. spent'.edits > spent.edits
    BY <1>1, <2>1 DEF Spendings
  <2> QED
    BY <1>1, <1>2, <2>2 DEF EditCommand, EditStartup, EditAgent, Edits, Disks
<1>3. CASE SaveCredential
  BY <1>1, <1>3 DEF SaveCredential, Disks
<1> QED
  BY <1>2, <1>3

\* Controller.Uninstall removes the executable when nothing needs it any more.
THEOREM ExecutableLastThm == Spec => ExecutableLast
<1> DEFINE Last == disk.bin # 0 /\ disk'.bin = 0 =>
             /\ ~disk.service /\ disk.record = "none" /\ disk.command # "ours"
             /\ disk.identity.purging => disk.key = 0
<1>1. ASSUME IInv, [Next]_vars PROVE [Last]_vars
  <2> SUFFICES ASSUME disk.bin # 0, disk'.bin = 0
               PROVE  /\ ~disk.service /\ disk.record = "none" /\ disk.command # "ours"
                      /\ disk.identity.purging => disk.key = 0
    OBVIOUS
  <2>1. PICK p \in Procs : Step(p)
    BY <1>1, UserSpares DEF Next, vars
  <2>2. Rename(p) \/ RemoveBinary(p)
    BY <1>1, <2>1, StepSpares DEF Spares
  <2>3. disk \in Disks /\ Control(p) /\ Progress(p) /\ Account
    BY <1>1, Given
  <2>4. ~Rename(p)
    <3> SUFFICES ASSUME Rename(p) PROVE FALSE
      OBVIOUS
    <3>1. disk'.bin = proc[p].version
      BY <2>3 DEF Rename, Writes, Disks
    <3>2. proc[p].version # 0
      BY <1>1, <2>3, Whose DEF Rename, At, Control, Place
    <3> QED
      BY <3>1, <3>2
  <2>5. At(p, "unlink") /\ proc[p].op \in Removers
    BY <1>1, <2>2, <2>4, Whose DEF RemoveBinary, At
  <2> QED
    BY <2>3, <2>5 DEF At, Removers, Progress, Removed, PastStop, PastCommand, InLease
<1> QED
  BY <1>1, InstallationInvariant, PTL DEF Spec, ExecutableLast

\* Controller.Uninstall and Engine.Install leave the user's command and edited agent
\* entry, and no step deletes a startup file that exists only as a backup.
THEOREM UserContentKeptThm == Spec => UserContentKept
<1> DEFINE Kind ==
      /\ disk.startup = "backup" => disk'.startup # "lost"
      /\ disk.command = "other" /\ disk'.command # "other" => spent'.edits > spent.edits
      /\ disk.entry = "edited" /\ disk'.entry # "edited" => spent'.edits > spent.edits
<1>1. ASSUME IInv, [Next]_vars PROVE [Kind]_vars
  <2>1. CASE \E p \in Procs : Step(p)
    BY <1>1, <2>1, StepSpares DEF Spares
  <2>2. CASE EditCommand \/ EditStartup \/ EditAgent \/ SaveCredential
    BY <1>1, <2>2, UserSpares
  <2> QED
    BY <1>1, <2>1, <2>2 DEF Next
<1> QED
  BY <1>1, InstallationInvariant, PTL DEF Spec, UserContentKept

=============================================================================
