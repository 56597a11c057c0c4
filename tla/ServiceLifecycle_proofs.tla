---------------------- MODULE ServiceLifecycle_proofs ----------------------
(***************************************************************************)
(* What starting, stopping and uninstalling the background service         *)
(* guarantees for any number of installations, controllers and launches,   *)
(* whoever dies at whichever step: a job is recorded as long as it exists, *)
(* whoever serves can be reached under its socket names, and "stopped" is  *)
(* true when it is reported.                                               *)
(*                                                                         *)
(* A controller unlinks by name and reports from what it looked at some    *)
(* steps before, so none of these is inductive alone.  The strengthening   *)
(* says that the lifecycle lease of a root has one holder (OneHolder),     *)
(* that from the removal of the job to the next launch the holder's root   *)
(* has no job (NoJob), hence no process that starts, and once the          *)
(* management socket is found stale none that serves (Swept), and that a   *)
(* process that opened the runtime directory of a root is the one the root *)
(* recorded (Owns), so that no other launch touches its names.             *)
(***************************************************************************)
EXTENDS ServiceLifecycle, TLAPS

\* The lifecycle lease of a root has one holder.
OneHolder ==
  \A c, d \in Controllers :
    c # d /\ RootOf[c] = RootOf[d] => ~(HoldsLifecycle(c) /\ HoldsLifecycle(d))

\* From the removal of a job to the next launch the root has none.
SweepPcs == {"unlink-m", "probe-s", "unlink-s", "unmark", "rmdir"}
NoJobPcs == SweepPcs \union
  {"clear", "probe-m", "undefine", "forget", "stopped", "uninstalled",
   "mkdir", "mark", "save", "define", "bootstrap"}
NoJob(c) == ctl[c].pc \in NoJobPcs => ~JobOf(RootOf[c])

\* Where a controller is with a goal that the code sets on the way.
GoalAt(c) ==
  /\ ctl[c].pc \in {"lease", "inspect", "bootout", "wait"} => ctl[c].goal \notin {"make", "final"}
  /\ ctl[c].pc \in {"clear", "unmark", "rmdir", "undefine", "forget"} => ctl[c].goal # "make"
  /\ ctl[c].pc = "forget" => ctl[c].goal # "final"

\* What the holder knows of its root's record and definition.
Recorded(c) ==
  LET r == RootOf[c] IN
  /\ ctl[c].pc \in {"mkdir", "mark", "save", "stopped", "uninstalled"} => record[r] = None
  /\ ctl[c].goal \in {"make", "final"} /\ ctl[c].pc \in SweepPcs \union {"clear", "probe-m", "undefine"}
       => record[r] = None
  /\ ctl[c].pc \in {"define", "bootstrap"} => record[r] = ctl[c].rec
  /\ ctl[c].pc = "bootstrap" => def[r] = ctl[c].rec
  /\ ctl[c].pc = "forget" => def[r] = None

\* What it knows of its root's runtime directory.
DirAt(c) ==
  LET r == RootOf[c] IN
  /\ ctl[c].pc \in {"undefine", "forget", "uninstalled"} => dir[r] = NoDir
  /\ ctl[c].pc = "mark" => dir[r].id # None

\* A process whose management socket is bound and not closed.
Bound(n) == proc[n].pc \in {"bound", "listening", "serving"}

\* Once the management socket is found stale, nobody of the root has one.
Swept(c) ==
  ctl[c].pc \in SweepPcs => \A n \in Nonces : Bound(n) => proc[n].root # RootOf[c]

\* What a root has on disk.
OnDisk(r) ==
  /\ def[r] \in {None, record[r]}
  /\ dir[r].marked => dir[r].id # None
  /\ dir[r].id = None => names[r] = NoSockets

\* A process that starts is the job; it has no session, nor yet a directory.
Launched(n) ==
  /\ proc[n].pc \in StartupPcs => job = n
  /\ proc[n].pc \notin {"serving", "draining"} => proc[n].session = "off"
  /\ proc[n].pc \in {"none", "launched", "recorded", "checked"} => proc[n].dir = None

\* A process that opened the root's directory is the one the root recorded.
Owns(n) ==
  LET r == proc[n].root IN
  proc[n].dir # None /\ proc[n].dir = dir[r].id => record[r] = n

\* The names are those of the process that serves.
Named(n) ==
  LET r == proc[n].root IN
  /\ proc[n].pc = "opened" \/ Bound(n) => ValidDir(n)
  /\ Bound(n) => names[r]["m"] = n
  /\ proc[n].pc = "serving" /\ proc[n].session \in {"bound", "listening"} => names[r]["s"] = n
  /\ proc[n].session = "listening" => proc[n].pc = "serving"

\* The inductive invariant.
IInv ==
  /\ TypeOK /\ OneHolder /\ JobRecorded
  /\ \A c \in Controllers : NoJob(c) /\ GoalAt(c) /\ Recorded(c) /\ DirAt(c) /\ Swept(c)
  /\ \A r \in Roots : OnDisk(r)
  /\ \A n \in Nonces : Launched(n) /\ Owns(n) /\ Named(n)

----------------------------------------------------------------------------
(* The first state, and the types *)

\* The first state: nothing is recorded, nothing runs.
LEMMA InitInv == Init => IInv
<1> SUFFICES ASSUME Init PROVE IInv
  OBVIOUS
<1> USE NoneAssumption DEF NoneAssumption, Init, IdleController, NoProcess, NoDir, NoSockets
<1>1. TypeOK
  BY DEF TypeOK, ControllerPcs, Goals, Ops, ProcessPcs, StartupPcs
<1>2. OneHolder /\ JobRecorded
  BY DEF OneHolder, JobRecorded, HoldsLifecycle
<1>3. ASSUME NEW c \in Controllers
      PROVE  NoJob(c) /\ GoalAt(c) /\ Recorded(c) /\ DirAt(c) /\ Swept(c)
  BY DEF NoJob, GoalAt, Recorded, DirAt, Swept, NoJobPcs, SweepPcs
<1>4. ASSUME NEW r \in Roots PROVE OnDisk(r)
  BY DEF OnDisk
<1>5. ASSUME NEW n \in Nonces PROVE Launched(n) /\ Owns(n) /\ Named(n)
  BY DEF Launched, Owns, Named, Bound, StartupPcs
<1> QED
  BY <1>1, <1>2, <1>3, <1>4, <1>5 DEF IInv

\* What the controllers, the processes and a root's directory are made of.
ControllerType == [pc : ControllerPcs, goal : Goals, rec : Nonces \union {None}]
ProcessType == [ pc : ProcessPcs, root : Roots, dir : Dirs \union {None},
                 session : {"off", "bound", "listening", "closed", "swept"} ]
DirType == [id : Dirs \union {None}, marked : BOOLEAN]

LEMMA Names ==
    /\ {"idle", "lease", "inspect", "bootout", "wait", "clear", "probe-m", "unlink-m", "probe-s",
        "unlink-s", "unmark", "rmdir", "undefine", "forget", "stopped", "uninstalled", "mkdir",
        "mark", "save", "define", "bootstrap", "ready"} \subseteq ControllerPcs
    /\ Ops \subseteq Goals /\ {"start", "stop", "uninstall", "make", "failed", "final"} \subseteq Goals
    /\ {"none", "launched", "recorded", "checked", "opened", "bound", "listening", "serving",
        "draining"} \subseteq ProcessPcs
    /\ IdleController \in ControllerType /\ NoDir \in DirType
    /\ NoSockets \in [Sockets -> Nonces \union {None}]
  BY DEF ControllerPcs, Goals, Ops, ProcessPcs, StartupPcs, IdleController, ControllerType, NoDir, DirType, NoSockets

\* The updates of a controller.
LEMMA ControllerUpdates ==
    ASSUME ctl \in [Controllers -> ControllerType], NEW c \in Controllers,
           NEW p \in ControllerPcs, NEW g \in Goals, NEW n \in Nonces \union {None}
    PROVE  /\ [ctl EXCEPT ![c].pc = p] \in [Controllers -> ControllerType]
           /\ [ctl EXCEPT ![c].pc = p, ![c].goal = g] \in [Controllers -> ControllerType]
           /\ [ctl EXCEPT ![c].pc = p, ![c].rec = n] \in [Controllers -> ControllerType]
           /\ [ctl EXCEPT ![c].pc = p, ![c].goal = g, ![c].rec = n] \in [Controllers -> ControllerType]
           /\ [ctl EXCEPT ![c] = IdleController] \in [Controllers -> ControllerType]
  BY Names DEF ControllerType

\* Every step keeps the types of the controllers ...
LEMMA ControllerTypeStep ==
    ASSUME ctl \in [Controllers -> ControllerType], record \in [Roots -> Nonces \union {None}],
           RootOf \in [Controllers -> Roots], \A c \in Controllers : GoalAt(c), [Next]_vars
    PROVE  ctl' \in [Controllers -> ControllerType]
<1> DEFINE Typed == ctl' \in [Controllers -> ControllerType]
<1>21. ASSUME NEW c \in Controllers, NEW p \in ControllerPcs, NEW g \in Goals,
              ctl' = [ctl EXCEPT ![c].pc = p, ![c].goal = g]
       PROVE  Typed
  BY <1>21, ControllerUpdates
<1>1. ASSUME NEW c \in Controllers, NEW p \in ControllerPcs, Goto(c, p) PROVE Typed
  BY <1>1, Names, ControllerUpdates DEF Goto
<1>2. ASSUME NEW c \in Controllers, ctl' = [ctl EXCEPT ![c] = IdleController] PROVE Typed
  BY <1>2, Names, ControllerUpdates
<1>3. ASSUME NEW c \in Controllers, CleanUp(c) PROVE Typed
  BY <1>3, Names, ControllerUpdates DEF CleanUp
<1>4. ASSUME NEW c \in Controllers, NEW op \in Ops, Begin(c, op) PROVE Typed
  BY <1>4, Names, ControllerUpdates DEF Begin
<1>5. ASSUME NEW c \in Controllers, Abandon(c) \/ Return(c) PROVE Typed
  BY <1>2, <1>5 DEF Abandon, Return
<1>6. ASSUME NEW c \in Controllers, ReadRecord(c) PROVE Typed
  <2>1. CASE record[RootOf[c]] # None /\ ctl' = [ctl EXCEPT ![c].pc = "inspect", ![c].rec = record[RootOf[c]]]
    BY <2>1, Names, ControllerUpdates
  <2>2. CASE Goto(c, "mkdir") \/ Goto(c, "stopped")
    BY <1>1, <2>2, Names
  <2>3. CASE ctl' = [ctl EXCEPT ![c].pc = "clear", ![c].goal = "final"]
    BY <2>3, Names, ControllerUpdates
  <2> QED
    BY <1>6, <2>1, <2>2, <2>3 DEF ReadRecord
<1>7. ASSUME NEW c \in Controllers, Inspect(c) PROVE Typed
  BY <1>1, <1>7, Names DEF Inspect
<1>8. ASSUME NEW c \in Controllers, AwaitRemoval(c) \/ OpenToClear(c) \/ Bootout(c) PROVE Typed
  BY <1>1, <1>8, Names DEF AwaitRemoval, OpenToClear, Bootout
<1>9. ASSUME NEW c \in Controllers, NEW f \in Sockets, Probe(c, f) PROVE Typed
  BY <1>1, <1>9, Names DEF Probe, Sockets, Unlinking, AfterSocket
<1>10. ASSUME NEW c \in Controllers, NEW f \in Sockets, UnlinkStale(c, f) PROVE Typed
  BY <1>1, <1>10, Names DEF UnlinkStale, Sockets, AfterSocket
<1>11. ASSUME NEW c \in Controllers, Unmark(c) \/ Rmdir(c) \/ Undefine(c) PROVE Typed
  BY <1>1, <1>11, Names DEF Unmark, Rmdir, Undefine
<1>12. ASSUME NEW c \in Controllers, Forget(c) PROVE Typed
  <2>1. ctl[c].goal \in {"start", "stop", "uninstall", "failed"}
    BY <1>12 DEF GoalAt, Forget, ControllerType, Goals, Ops
  <2>2. \E p \in ControllerPcs, g \in Goals : ctl' = [ctl EXCEPT ![c].pc = p, ![c].goal = g]
    BY <1>12, <2>1, Names DEF Forget
  <2> QED
    BY <1>21, <2>2
<1>13. ASSUME NEW c \in Controllers, MakeRuntime(c) PROVE Typed
  <2>1. (CHOOSE n \in FreshNonces : TRUE) \in Nonces
    BY <1>13 DEF MakeRuntime, FreshNonces
  <2>2. \E p \in ControllerPcs, n \in Nonces :
          ctl' = [ctl EXCEPT ![c].pc = p, ![c].goal = "make", ![c].rec = n]
    BY <1>13, <2>1, Names DEF MakeRuntime
  <2> QED
    <3>1. PICK p \in ControllerPcs, n \in Nonces :
            ctl' = [ctl EXCEPT ![c].pc = p, ![c].goal = "make", ![c].rec = n]
      BY <2>2
    <3>2. "make" \in Goals /\ n \in Nonces \union {None}
      BY Names
    <3> QED
      BY <3>1, <3>2, ControllerUpdates
<1>14. ASSUME NEW c \in Controllers, MarkRuntime(c) \/ SaveRecord(c) \/ Define(c) PROVE Typed
  BY <1>1, <1>14, Names DEF MarkRuntime, SaveRecord, Define
<1>15. ASSUME NEW c \in Controllers, Bootstrap(c) PROVE Typed
  BY <1>1, <1>3, <1>15, Names DEF Bootstrap
<1>16. ASSUME NEW c \in Controllers, AwaitReady(c) PROVE Typed
  BY <1>2, <1>3, <1>16 DEF AwaitReady
<1>17. ASSUME NEW n \in Nonces, Serve(n) PROVE ctl' = ctl
  BY <1>17 DEF Serve, CheckRecord, CheckJob, OpenToServe, Bind, Listen, Protect, EnableSession, SessionListens,
       EnableCancelled, SessionEnds, SweepSession, Drain, Finish, Die
<1>18. ASSUME LoseJob \/ UNCHANGED vars PROVE Typed
  BY <1>18 DEF LoseJob, vars
<1> HIDE DEF Typed
<1>19. ctl' = ctl => Typed
  BY DEF Typed
<1>20. ASSUME NEW c \in Controllers, StopLocked(c) PROVE Typed
  BY <1>7, <1>8, <1>9, <1>10, <1>11, <1>12, <1>20 DEF StopLocked
<1>22. ASSUME NEW c \in Controllers, Start(c) PROVE Typed
  BY <1>13, <1>14, <1>15, <1>16, <1>22 DEF Start
<1>23. Typed
  BY <1>4, <1>5, <1>6, <1>17, <1>18, <1>19, <1>20, <1>22 DEF Next
<1> QED
  BY <1>23 DEF Typed

\* ... of the processes ...
LEMMA ProcessUpdates ==
    ASSUME proc \in [Nonces -> ProcessType], NEW n \in Nonces, NEW p \in ProcessPcs,
           NEW d \in Dirs \union {None}, NEW s \in {"off", "bound", "listening", "closed", "swept"}
    PROVE  /\ [proc EXCEPT ![n].pc = p] \in [Nonces -> ProcessType]
           /\ [proc EXCEPT ![n].pc = p, ![n].dir = d] \in [Nonces -> ProcessType]
           /\ [proc EXCEPT ![n].session = s] \in [Nonces -> ProcessType]
           /\ \A q \in ProcessType : [proc EXCEPT ![n] = q] \in [Nonces -> ProcessType]
  BY DEF ProcessType

LEMMA ProcessForms ==
    /\ \A q \in ProcessType : Drained(q) \in ProcessType
    /\ \A r \in Roots : NoProcess(r) \in ProcessType
    /\ \A r \in Roots : [NoProcess(r) EXCEPT !.pc = "launched"] \in ProcessType
<1>1. ASSUME NEW q \in ProcessType PROVE Drained(q) \in ProcessType
  BY Names DEF Drained, ProcessType
<1>2. ASSUME NEW r \in Roots PROVE NoProcess(r) \in ProcessType
  BY Names DEF NoProcess, ProcessType
<1>3. ASSUME NEW r \in Roots PROVE [NoProcess(r) EXCEPT !.pc = "launched"] \in ProcessType
  BY Names DEF NoProcess, ProcessType
<1> QED
  BY <1>1, <1>2, <1>3

LEMMA ProcessTypeStep ==
    ASSUME proc \in [Nonces -> ProcessType], job \in Nonces \union {None},
           dir \in [Roots -> DirType], ctl \in [Controllers -> ControllerType], [Next]_vars
    PROVE  proc' \in [Nonces -> ProcessType]
<1> DEFINE Typed == proc' \in [Nonces -> ProcessType]
<1>1. ASSUME NEW n \in Nonces, NEW q \in ProcessType, proc' = [proc EXCEPT ![n] = q] PROVE Typed
  BY <1>1, ProcessUpdates, Names
<1>2. ASSUME NEW n \in Nonces, NEW p \in ProcessPcs, NEW q \in ProcessPcs, Advance(n, q, p) PROVE Typed
  BY <1>2, ProcessUpdates DEF Advance
<1>3. ASSUME NEW n \in Nonces, NEW s \in {"off", "bound", "listening", "closed", "swept"},
             proc' = [proc EXCEPT ![n].session = s]
      PROVE  Typed
  BY <1>3, ProcessUpdates, Names
<1>4. ASSUME NEW n \in Nonces, Gone(n) PROVE Typed
  BY <1>1, <1>4, ProcessForms DEF Gone, ProcessType
<1>5. ASSUME NEW n \in Nonces, proc' = [proc EXCEPT ![n] = Drained(@)] PROVE Typed
  BY <1>1, <1>5, ProcessForms
<1>6. ASSUME NEW c \in Controllers, Bootout(c) PROVE Typed
  BY <1>5, <1>6, NoneAssumption DEF Bootout
<1>7. ASSUME NEW c \in Controllers, Bootstrap(c) PROVE Typed
  <2>1. ctl[c].rec \in Nonces \union {None} /\ RootOf[c] \in Roots
    BY ControllersAssumption DEF ControllerType
  <2>2. [NoProcess(RootOf[c]) EXCEPT !.pc = "launched"] \in ProcessType
    BY <2>1, ProcessForms
  <2>3. CASE proc' = proc
    BY <2>3
  <2>4. CASE proc' = [proc EXCEPT ![ctl[c].rec] = [NoProcess(RootOf[c]) EXCEPT !.pc = "launched"]]
    <3>1. CASE ctl[c].rec \in Nonces
      BY <1>1, <2>2, <2>4, <3>1
    <3>2. CASE ctl[c].rec \notin Nonces
      BY <2>4, <3>2
    <3> QED
      BY <3>1, <3>2
  <2> QED
    BY <1>7, <2>3, <2>4 DEF Bootstrap
<1>8. ASSUME NEW c \in Controllers, Start(c) PROVE Typed
  <2>1. Bootstrap(c) \/ proc' = proc
    BY <1>8 DEF Start, MakeRuntime, MarkRuntime, SaveRecord, Define, AwaitReady
  <2> QED
    BY <1>7, <2>1
<1>9. ASSUME NEW c \in Controllers, StopLocked(c) PROVE Typed
  <2>1. Bootout(c) \/ proc' = proc
    BY <1>9 DEF StopLocked, Inspect, AwaitRemoval, OpenToClear, Probe, UnlinkStale, Unmark, Rmdir, Undefine, Forget
  <2> QED
    BY <1>6, <2>1
<1>10. ASSUME NEW n \in Nonces, Drain(n) PROVE Typed
  BY <1>5, <1>10 DEF Drain
<1>11. ASSUME NEW n \in Nonces, CheckRecord(n) \/ CheckJob(n) \/ Bind(n) \/ Listen(n) \/ Protect(n) PROVE Typed
  BY <1>2, <1>11, Names DEF CheckRecord, CheckJob, Bind, Listen, Protect
<1>12. ASSUME NEW n \in Nonces, OpenToServe(n) PROVE Typed
  <2>1. dir[proc[n].root].id \in Dirs \union {None}
    BY DEF ProcessType, DirType
  <2> QED
    BY <1>12, <2>1, ProcessUpdates, Names DEF OpenToServe
<1>13. ASSUME NEW n \in Nonces, EnableSession(n) \/ SessionEnds(n) \/ EnableCancelled(n) \/ SweepSession(n)
       PROVE  Typed
  BY <1>3, <1>13 DEF EnableSession, SessionEnds, EnableCancelled, SweepSession
<1>14. ASSUME NEW n \in Nonces, SessionListens(n) PROVE Typed
  <2>1. \E s \in {"listening", "closed"} : proc' = [proc EXCEPT ![n].session = s]
    BY <1>14 DEF SessionListens
  <2> QED
    BY <1>3, <2>1
<1>15. ASSUME NEW n \in Nonces, Finish(n) \/ Die(n) PROVE Typed
  BY <1>4, <1>15 DEF Finish, Die
<1>16. ASSUME NEW n \in Nonces, Serve(n) PROVE Typed
  BY <1>10, <1>11, <1>12, <1>13, <1>14, <1>15, <1>16 DEF Serve
<1>17. ASSUME NEW c \in Controllers, (\E op \in Ops : Begin(c, op)) \/ ReadRecord(c) \/ Return(c) \/ Abandon(c)
       PROVE  Typed
  BY <1>17 DEF Begin, ReadRecord, Return, Abandon
<1>18. ASSUME LoseJob \/ UNCHANGED vars PROVE Typed
  BY <1>18 DEF LoseJob, vars
<1> HIDE DEF Typed
<1>19. Typed
  BY <1>8, <1>9, <1>16, <1>17, <1>18 DEF Next
<1> QED
  BY <1>19 DEF Typed

----------------------------------------------------------------------------
(* Who writes what *)

\* Which steps write the disk, the job and the processes.
Writers ==
  /\ record' = record \/ \E c \in Controllers : SaveRecord(c) \/ Forget(c)
  /\ def' = def \/ \E c \in Controllers : Define(c) \/ Undefine(c)
  /\ dir' = dir \/ \E c \in Controllers : MakeRuntime(c) \/ MarkRuntime(c) \/ Unmark(c) \/ Rmdir(c)
  /\ \/ names' = names
     \/ \E c \in Controllers, f \in Sockets : UnlinkStale(c, f)
     \/ \E n \in Nonces : Bind(n) \/ EnableSession(n) \/ EnableCancelled(n) \/ SweepSession(n) \/ Finish(n)
  /\ \/ job' = job
     \/ \E c \in Controllers : Bootout(c) \/ Bootstrap(c)
     \/ \E n \in Nonces : Finish(n) \/ Die(n)
     \/ LoseJob
  /\ \/ proc' = proc
     \/ \E c \in Controllers : Bootout(c) \/ Bootstrap(c)
     \/ \E n \in Nonces : Serve(n)

\* A step of the controller c.
Acts(c) ==
  \/ \E op \in Ops : Begin(c, op)
  \/ ReadRecord(c) \/ StopLocked(c) \/ Start(c)
  \/ Return(c) \/ Abandon(c)

LEMMA StepWriters == [Next]_vars => Writers
<1> USE DEF rootVars
<1>1. ASSUME NEW c \in Controllers, (\E op \in Ops : Begin(c, op)) \/ ReadRecord(c) \/ Return(c) \/ Abandon(c)
      PROVE  Writers
  BY <1>1 DEF Writers, Begin, ReadRecord, Return, Abandon
<1>2. ASSUME NEW c \in Controllers, Start(c) PROVE Writers
  <2>1. CASE MakeRuntime(c) \/ MarkRuntime(c)
    BY <2>1 DEF Writers, MakeRuntime, MarkRuntime
  <2>2. CASE SaveRecord(c)
    BY <2>2 DEF Writers, SaveRecord
  <2>3. CASE Define(c)
    BY <2>3 DEF Writers, Define
  <2>4. CASE Bootstrap(c)
    BY <2>4 DEF Writers, Bootstrap
  <2>5. CASE AwaitReady(c)
    BY <2>5 DEF Writers, AwaitReady
  <2> QED
    BY <1>2, <2>1, <2>2, <2>3, <2>4, <2>5 DEF Start
<1>3. ASSUME NEW c \in Controllers, StopLocked(c) PROVE Writers
  <2>1. CASE Inspect(c) \/ AwaitRemoval(c) \/ OpenToClear(c)
    BY <2>1 DEF Writers, Inspect, AwaitRemoval, OpenToClear
  <2>2. CASE Bootout(c)
    BY <2>2 DEF Writers, Bootout
  <2>3. ASSUME NEW f \in Sockets, Probe(c, f) \/ UnlinkStale(c, f) PROVE Writers
    BY <2>3 DEF Writers, Probe, UnlinkStale
  <2>4. CASE Unmark(c) \/ Rmdir(c)
    BY <2>4 DEF Writers, Unmark, Rmdir
  <2>5. CASE Undefine(c)
    BY <2>5 DEF Writers, Undefine
  <2>6. CASE Forget(c)
    BY <2>6 DEF Writers, Forget
  <2> QED
    BY <1>3, <2>1, <2>2, <2>3, <2>4, <2>5, <2>6 DEF StopLocked
<1>4. ASSUME NEW n \in Nonces, Serve(n) PROVE Writers
  <2>1. /\ record' = record /\ def' = def /\ dir' = dir
        /\ names' = names \/ Bind(n) \/ EnableSession(n) \/ EnableCancelled(n) \/ SweepSession(n) \/ Finish(n)
        /\ job' = job \/ Finish(n) \/ Die(n)
    BY <1>4 DEF Serve, CheckRecord, CheckJob, OpenToServe, Bind, Listen, Protect, EnableSession, SessionListens,
       EnableCancelled, SessionEnds, SweepSession, Drain, Finish, Die
  <2> QED
    BY <1>4, <2>1 DEF Writers
<1>5. ASSUME LoseJob \/ UNCHANGED vars PROVE Writers
  BY <1>5 DEF Writers, LoseJob, vars
<1> QED
  BY <1>1, <1>2, <1>3, <1>4, <1>5 DEF Next

\* A step of a process or of the manager leaves the controllers alone.
LEMMA Actors == [Next]_vars => ctl' = ctl \/ \E c \in Controllers : Acts(c)
<1>1. ASSUME NEW n \in Nonces, Serve(n) PROVE ctl' = ctl
  BY <1>1 DEF Serve, CheckRecord, CheckJob, OpenToServe, Bind, Listen, Protect, EnableSession, SessionListens,
     EnableCancelled, SessionEnds, SweepSession, Drain, Finish, Die
<1>2. ASSUME LoseJob \/ UNCHANGED vars PROVE ctl' = ctl
  BY <1>2 DEF LoseJob, vars
<1> QED
  BY <1>1, <1>2 DEF Next, Acts

\* ... and of everything.
LEMMA TypeStep ==
    ASSUME TypeOK, \A c \in Controllers : GoalAt(c), [Next]_vars
    PROVE  TypeOK'
<1>1. /\ ctl \in [Controllers -> ControllerType] /\ proc \in [Nonces -> ProcessType]
      /\ record \in [Roots -> Nonces \union {None}] /\ def \in [Roots -> Nonces \union {None}]
      /\ dir \in [Roots -> DirType] /\ names \in [Roots -> [Sockets -> Nonces \union {None}]]
      /\ job \in Nonces \union {None} /\ RootOf \in [Controllers -> Roots]
  BY ControllersAssumption DEF TypeOK, ControllerType, ProcessType, DirType
<1>2. Writers
  BY StepWriters
<1>3. ctl' \in [Controllers -> ControllerType] /\ proc' \in [Nonces -> ProcessType]
  BY <1>1, ControllerTypeStep, ProcessTypeStep
<1>4. \A c \in Controllers : ctl[c].rec \in Nonces \union {None} /\ RootOf[c] \in Roots
  BY <1>1 DEF ControllerType
<1>5. record' \in [Roots -> Nonces \union {None}]
  BY <1>1, <1>2, <1>4 DEF Writers, SaveRecord, Forget
<1>6. def' \in [Roots -> Nonces \union {None}]
  BY <1>1, <1>2, <1>4 DEF Writers, Define, Undefine
<1>7. dir' \in [Roots -> DirType]
  <2>1. ASSUME NEW c \in Controllers, MakeRuntime(c) PROVE dir' \in [Roots -> DirType]
    <3>1. FreshDirs # {} => (CHOOSE d \in FreshDirs : TRUE) \in Dirs
      BY DEF FreshDirs
    <3>2. FreshDirs # {} => [id |-> CHOOSE d \in FreshDirs : TRUE, marked |-> FALSE] \in DirType
      BY <3>1 DEF DirType
    <3> QED
      BY <1>1, <1>4, <2>1, <3>2 DEF MakeRuntime
  <2>2. ASSUME NEW c \in Controllers, MarkRuntime(c) PROVE dir' \in [Roots -> DirType]
    BY <1>1, <1>4, <2>2 DEF MarkRuntime, DirType
  <2>3. ASSUME NEW c \in Controllers, Unmark(c) PROVE dir' \in [Roots -> DirType]
    BY <1>1, <1>4, <2>3 DEF Unmark, DirType
  <2>4. ASSUME NEW c \in Controllers, Rmdir(c) PROVE dir' \in [Roots -> DirType]
    BY <1>1, <1>4, <2>4, Names DEF Rmdir
  <2> QED
    BY <1>1, <1>2, <2>1, <2>2, <2>3, <2>4 DEF Writers
<1>8. names' \in [Roots -> [Sockets -> Nonces \union {None}]]
  <2>1. ASSUME NEW r \in Roots, NEW f \in Sockets, NEW n \in Nonces \union {None}
        PROVE  [names EXCEPT ![r][f] = n] \in [Roots -> [Sockets -> Nonces \union {None}]]
    BY <1>1
  <2>2. ASSUME NEW n \in Nonces, NEW f \in Sockets, RemoveName(n, f)
        PROVE  names' \in [Roots -> [Sockets -> Nonces \union {None}]]
    <3>1. proc[n].root \in Roots
      BY <1>1 DEF ProcessType
    <3>2. [names EXCEPT ![proc[n].root][f] = None] \in [Roots -> [Sockets -> Nonces \union {None}]]
      BY <2>1, <3>1
    <3>3. CASE ValidDir(n)
      BY <2>2, <3>2, <3>3 DEF RemoveName
    <3>4. CASE ~ValidDir(n)
      BY <1>1, <2>2, <3>4 DEF RemoveName
    <3> QED
      BY <3>3, <3>4
  <2>3. "m" \in Sockets /\ "s" \in Sockets
    BY DEF Sockets
  <2>4. ASSUME NEW c \in Controllers, NEW f \in Sockets, UnlinkStale(c, f)
        PROVE  names' \in [Roots -> [Sockets -> Nonces \union {None}]]
    BY <1>4, <2>1, <2>4 DEF UnlinkStale
  <2>5. ASSUME NEW n \in Nonces, Bind(n) \/ EnableSession(n)
        PROVE  names' \in [Roots -> [Sockets -> Nonces \union {None}]]
    <3>1. proc[n].root \in Roots /\ n \in Nonces \union {None}
      BY <1>1 DEF ProcessType
    <3>2. \A f \in Sockets :
            [names EXCEPT ![proc[n].root][f] = n] \in [Roots -> [Sockets -> Nonces \union {None}]]
      BY <2>1, <3>1
    <3>3. CASE Bind(n)
      BY <2>3, <3>2, <3>3 DEF Bind
    <3>4. CASE EnableSession(n)
      BY <2>3, <3>2, <3>4 DEF EnableSession
    <3> QED
      BY <2>5, <3>3, <3>4
  <2>6. ASSUME NEW n \in Nonces, EnableCancelled(n) \/ SweepSession(n) \/ Finish(n)
        PROVE  names' \in [Roots -> [Sockets -> Nonces \union {None}]]
    BY <2>2, <2>3, <2>6 DEF EnableCancelled, SweepSession, Finish
  <2> QED
    BY <1>1, <1>2, <2>4, <2>5, <2>6 DEF Writers
<1>9. job' \in Nonces \union {None}
  <2>1. ASSUME NEW c \in Controllers, Bootout(c) \/ Bootstrap(c) PROVE job' \in Nonces \union {None}
    BY <1>1, <1>4, <2>1 DEF Bootout, Bootstrap
  <2>2. ASSUME NEW n \in Nonces, Finish(n) \/ Die(n) PROVE job' \in Nonces \union {None}
    BY <1>1, <2>2 DEF Finish, Die, Gone
  <2>3. ASSUME LoseJob PROVE job' \in Nonces \union {None}
    BY <2>3 DEF LoseJob
  <2> QED
    BY <1>1, <1>2, <2>1, <2>2, <2>3 DEF Writers
<1> QED
  BY <1>3, <1>5, <1>6, <1>7, <1>8, <1>9 DEF TypeOK, ControllerType, ProcessType, DirType

----------------------------------------------------------------------------
(* What a step does *)

\* The manager launches the job that c recorded.
Launch(c) ==
  /\ ctl[c].pc = "bootstrap" /\ ctl'[c].pc = "ready"
  /\ job = None /\ job' = ctl[c].rec
  /\ proc' = [proc EXCEPT ![ctl[c].rec] = [NoProcess(RootOf[c]) EXCEPT !.pc = "launched"]]
  /\ UNCHANGED rootVars

\* The process n ends, or is told to.
Ends(n) ==
  \/ proc[n].pc # "none" /\ proc'[n] = NoProcess(proc[n].root)
  \/ proc[n].pc = "serving" /\ proc'[n] = Drained(proc[n])

\* The process n goes on.
GoesOn(n) ==
  \/ CheckRecord(n) \/ CheckJob(n) \/ OpenToServe(n) \/ Bind(n) \/ Listen(n) \/ Protect(n)
  \/ EnableSession(n) \/ SessionListens(n) \/ EnableCancelled(n) \/ SessionEnds(n)
  \/ SweepSession(n)

LEMMA Fields ==
    ASSUME TypeOK
    PROVE  /\ \A c \in Controllers : /\ ctl[c] \in ControllerType /\ ctl[c].rec \in Nonces \union {None}
                                     /\ RootOf[c] \in Roots
           /\ \A n \in Nonces : /\ proc[n] \in ProcessType /\ proc[n].root \in Roots
                                /\ proc[n].dir \in Dirs \union {None} /\ proc[n].pc \in ProcessPcs
           /\ DOMAIN ctl = Controllers /\ DOMAIN proc = Nonces
           /\ DOMAIN record = Roots /\ DOMAIN def = Roots /\ DOMAIN dir = Roots /\ DOMAIN names = Roots
           /\ \A r \in Roots : DOMAIN names[r] = Sockets
           /\ ctl \in [Controllers -> ControllerType] /\ proc \in [Nonces -> ProcessType]
  BY ControllersAssumption DEF TypeOK, ControllerType, ProcessType

\* A controller acts alone.
LEMMA Alone ==
    ASSUME TypeOK, NEW c \in Controllers, Acts(c), NEW d \in Controllers, d # c
    PROVE  ctl'[d] = ctl[d]
<1> USE Fields DEF Goto
<1>1. ASSUME StopLocked(c) PROVE ctl'[d] = ctl[d]
  <2>1. ASSUME NEW p, Goto(c, p) PROVE ctl'[d] = ctl[d]
    BY <2>1
  <2>2. CASE Forget(c)
    BY <2>2 DEF Forget
  <2> HIDE DEF Goto
  <2>3. Forget(c) \/ \E p : Goto(c, p)
    BY <1>1 DEF StopLocked, Inspect, Bootout, AwaitRemoval, OpenToClear, Probe, UnlinkStale, Unmark, Rmdir, Undefine
  <2> QED
    BY <2>1, <2>2, <2>3
<1>2. ASSUME Start(c) PROVE ctl'[d] = ctl[d]
  <2>1. CASE MakeRuntime(c)
    BY <2>1 DEF MakeRuntime
  <2>2. CASE Bootstrap(c) \/ AwaitReady(c)
    BY <2>2 DEF Bootstrap, AwaitReady, CleanUp
  <2>3. CASE MarkRuntime(c) \/ SaveRecord(c) \/ Define(c)
    BY <2>3 DEF MarkRuntime, SaveRecord, Define
  <2> QED
    BY <1>2, <2>1, <2>2, <2>3 DEF Start
<1>3. ASSUME NEW op \in Ops, Begin(c, op) PROVE ctl'[d] = ctl[d]
  BY <1>3 DEF Begin
<1>4. ASSUME ReadRecord(c) PROVE ctl'[d] = ctl[d]
  BY <1>4 DEF ReadRecord
<1>5. ASSUME Return(c) \/ Abandon(c) PROVE ctl'[d] = ctl[d]
  BY <1>5 DEF Return, Abandon
<1> QED
  BY <1>1, <1>2, <1>3, <1>4, <1>5 DEF Acts

\* Bootstrap launches the job or nothing happens to the job and the processes.
LEMMA BootstrapEffect ==
    ASSUME TypeOK, NEW c \in Controllers, Bootstrap(c)
    PROVE  Launch(c) \/ (job' = job /\ proc' = proc)
<1>1. CASE job' = job /\ proc' = proc
  BY <1>1
<1>2. CASE job = None /\ Goto(c, "ready")
  <2>1. ctl'[c].pc = "ready"
    BY <1>2, Fields DEF Goto, ControllerType
  <2>2. CASE Launch(c)
    BY <2>2
  <2> QED
    BY <1>1, <1>2, <2>1 DEF Bootstrap, Launch, CleanUp
<1> QED
  BY <1>1, <1>2 DEF Bootstrap

\* The job is kept, forgotten, or launched.
LEMMA JobEffect ==
    ASSUME TypeOK, [Next]_vars
    PROVE  job' \in {job, None} \/ \E c \in Controllers : Launch(c)
<1>1. ASSUME NEW c \in Controllers, Bootout(c) PROVE job' \in {job, None}
  BY <1>1 DEF Bootout
<1>2. ASSUME NEW n \in Nonces, Finish(n) \/ Die(n) PROVE job' \in {job, None}
  BY <1>2 DEF Finish, Die, Gone
<1> QED
  BY <1>1, <1>2, StepWriters, BootstrapEffect DEF Writers, LoseJob

\* What a step may do to a process.
LEMMA ProcessEffect ==
    ASSUME TypeOK, [Next]_vars, NEW n \in Nonces
    PROVE  \/ proc'[n] = proc[n]
           \/ Ends(n)
           \/ \E c \in Controllers : Launch(c) /\ ctl[c].rec = n
           \/ GoesOn(n)
<1> USE Fields
<1>1. ASSUME NEW c \in Controllers, Bootout(c) PROVE proc'[n] = proc[n] \/ Ends(n)
  BY <1>1 DEF Bootout, Ends
<1>2. ASSUME NEW c \in Controllers, Launch(c) PROVE proc'[n] = proc[n] \/ ctl[c].rec = n
  BY <1>2 DEF Launch
<1>3. ASSUME NEW m \in Nonces, Serve(m) PROVE proc'[n] = proc[n] \/ Ends(n) \/ GoesOn(n)
  <2>1. CASE m = n
    <3>1. CASE Finish(n) \/ Die(n)
      BY <3>1 DEF Finish, Die, Gone, Ends, Alive
    <3>2. CASE Drain(n)
      BY <3>2 DEF Drain, Ends
    <3> QED
      BY <1>3, <2>1, <3>1, <3>2 DEF Serve, GoesOn
  <2>2. CASE m # n
    <3>1. CASE Finish(m) \/ Die(m) \/ Drain(m) \/ SessionEnds(m) \/ SweepSession(m) \/ EnableCancelled(m)
      BY <2>2, <3>1 DEF Finish, Die, Gone, Drain, SessionEnds, SweepSession, EnableCancelled
    <3>2. CASE CheckRecord(m) \/ CheckJob(m) \/ OpenToServe(m) \/ Bind(m) \/ Listen(m) \/ Protect(m)
      BY <2>2, <3>2 DEF CheckRecord, CheckJob, OpenToServe, Bind, Listen, Protect, Advance
    <3>3. CASE EnableSession(m) \/ SessionListens(m)
      BY <2>2, <3>3 DEF EnableSession, SessionListens
    <3> QED
      BY <1>3, <3>1, <3>2, <3>3 DEF Serve
  <2> QED
    BY <2>1, <2>2
<1> QED
  BY <1>1, <1>2, <1>3, StepWriters, BootstrapEffect DEF Writers

\* What becomes of a process that goes on: one of pc, directory and session changes.
LEMMA GoesOnEffect ==
    ASSUME TypeOK, NEW n \in Nonces, GoesOn(n)
    PROVE  /\ proc'[n].root = proc[n].root /\ ctl' = ctl /\ job' = job
           /\ record' = record /\ def' = def /\ dir' = dir
           /\ proc'[n].dir # proc[n].dir => OpenToServe(n)
           /\ proc'[n].pc # proc[n].pc =>
                \/ proc[n].pc = "launched" /\ proc'[n].pc = "recorded"
                \/ proc[n].pc = "recorded" /\ proc'[n].pc = "checked"
                \/ OpenToServe(n) /\ proc'[n].pc = "opened"
                \/ Bind(n) /\ proc[n].pc = "opened" /\ proc'[n].pc = "bound"
                \/ proc[n].pc = "bound" /\ proc'[n].pc = "listening"
                \/ proc[n].pc = "listening" /\ proc'[n].pc = "serving"
           /\ proc'[n].session # proc[n].session =>
                /\ proc'[n].pc = proc[n].pc
                /\ \/ EnableSession(n) /\ proc'[n].session = "bound"
                   \/ proc[n].session = "bound" /\ proc'[n].session \in {"off", "closed"}
                   \/ proc[n].session = "bound" /\ proc[n].pc = "serving" /\ proc'[n].session = "listening"
                   \/ proc[n].session \in {"listening", "closed"} /\ proc'[n].session \in {"closed", "swept"}
<1> USE Fields DEF ProcessType, rootVars
<1>1. CASE CheckRecord(n) \/ CheckJob(n)
  BY <1>1 DEF CheckRecord, CheckJob, Advance
<1>2. CASE OpenToServe(n)
  BY <1>2 DEF OpenToServe
<1>3. CASE Bind(n)
  BY <1>3 DEF Bind, Advance
<1>4. CASE Listen(n) \/ Protect(n)
  BY <1>4 DEF Listen, Protect, Advance
<1>5. CASE EnableSession(n)
  BY <1>5 DEF EnableSession
<1>6. CASE SessionListens(n) \/ SessionEnds(n)
  BY <1>6 DEF SessionListens, SessionEnds
<1>7. CASE EnableCancelled(n) \/ SweepSession(n)
  BY <1>7 DEF EnableCancelled, SweepSession
<1> QED
  BY <1>1, <1>2, <1>3, <1>4, <1>5, <1>6, <1>7 DEF GoesOn

\* A process that ends keeps its root, and nothing of it is open or listens.
LEMMA EndsEffect ==
    ASSUME TypeOK, NEW n \in Nonces, Ends(n)
    PROVE  /\ proc'[n].root = proc[n].root
           /\ proc'[n].pc \in {"none", "draining"}
           /\ proc'[n].pc = "none" => proc'[n].dir = None /\ proc'[n].session = "off"
           /\ proc'[n].pc = "draining" => proc[n].pc = "serving" /\ proc'[n].dir = proc[n].dir
           /\ proc'[n].session # "listening"
<1>1. CASE proc'[n] = NoProcess(proc[n].root)
  BY <1>1, NoneAssumption DEF NoProcess
<1>2. CASE proc[n].pc = "serving" /\ proc'[n] = Drained(proc[n])
  <2>1. proc[n] \in ProcessType
    BY Fields
  <2> QED
    BY <1>2, <2>1 DEF Drained, ProcessType
<1> QED
  BY <1>1, <1>2 DEF Ends

\* Who changes what a root has on disk: a controller of that root.
LEMMA DiskEffect ==
    ASSUME TypeOK, [Next]_vars, NEW r \in Roots
    PROVE  /\ record'[r] # record[r] => \E c \in Controllers : RootOf[c] = r /\ (SaveRecord(c) \/ Forget(c))
           /\ def'[r] # def[r] => \E c \in Controllers : RootOf[c] = r /\ (Define(c) \/ Undefine(c))
           /\ dir'[r] # dir[r] =>
                \E c \in Controllers :
                  RootOf[c] = r /\ (MakeRuntime(c) \/ MarkRuntime(c) \/ Unmark(c) \/ Rmdir(c))
<1> USE Fields
<1>1. ASSUME NEW c \in Controllers, RootOf[c] # r
      PROVE  /\ SaveRecord(c) \/ Forget(c) => record'[r] = record[r]
             /\ Define(c) \/ Undefine(c) => def'[r] = def[r]
             /\ MakeRuntime(c) \/ MarkRuntime(c) \/ Unmark(c) \/ Rmdir(c) => dir'[r] = dir[r]
  BY <1>1 DEF SaveRecord, Forget, Define, Undefine, MakeRuntime, MarkRuntime, Unmark, Rmdir
<1> QED
  BY <1>1, StepWriters DEF Writers

\* Who changes a socket name of a root: a controller of that root that unlinks
\* it, a process that binds it, or one that removes it from the directory it opened.
LEMMA NamesEffect ==
    ASSUME TypeOK, [Next]_vars, NEW r \in Roots, NEW f \in Sockets
    PROVE  \/ names'[r][f] = names[r][f]
           \/ names'[r][f] = None /\ \E c \in Controllers : RootOf[c] = r /\ UnlinkStale(c, f)
           \/ \E n \in Nonces :
                /\ proc[n].root = r /\ names[r][f] = None /\ names'[r][f] = n
                /\ (f = "m" /\ Bind(n)) \/ (f = "s" /\ EnableSession(n))
           \/ \E n \in Nonces :
                /\ proc[n].root = r /\ ValidDir(n) /\ names'[r][f] = None
                /\ (f = "m" /\ Finish(n)) \/ (f = "s" /\ (EnableCancelled(n) \/ SweepSession(n)))
<1> USE Fields DEF Sockets
<1>1. ASSUME NEW c \in Controllers, NEW g \in Sockets, UnlinkStale(c, g)
      PROVE  names'[r][f] = names[r][f] \/ (g = f /\ RootOf[c] = r /\ names'[r][f] = None)
  BY <1>1 DEF UnlinkStale
<1>2. ASSUME NEW n \in Nonces, NEW g \in Sockets, RemoveName(n, g)
      PROVE  names'[r][f] = names[r][f] \/ (g = f /\ proc[n].root = r /\ ValidDir(n) /\ names'[r][f] = None)
  BY <1>2 DEF RemoveName
<1>3. ASSUME NEW n \in Nonces, Bind(n)
      PROVE  names'[r][f] = names[r][f]
             \/ (f = "m" /\ proc[n].root = r /\ names[r][f] = None /\ names'[r][f] = n)
  BY <1>3 DEF Bind
<1>4. ASSUME NEW n \in Nonces, EnableSession(n)
      PROVE  names'[r][f] = names[r][f]
             \/ (f = "s" /\ proc[n].root = r /\ names[r][f] = None /\ names'[r][f] = n)
  BY <1>4 DEF EnableSession
<1>5. ASSUME NEW n \in Nonces
      PROVE  /\ EnableCancelled(n) \/ SweepSession(n) => RemoveName(n, "s")
             /\ Finish(n) => RemoveName(n, "m")
  BY DEF EnableCancelled, SweepSession, Finish
<1>6. CASE \E c \in Controllers, g \in Sockets : UnlinkStale(c, g)
  BY <1>1, <1>6
<1>7. CASE \E n \in Nonces : Bind(n) \/ EnableSession(n)
  BY <1>3, <1>4, <1>7
<1>8. CASE \E n \in Nonces : EnableCancelled(n) \/ SweepSession(n) \/ Finish(n)
  <2>1. PICK n \in Nonces : EnableCancelled(n) \/ SweepSession(n) \/ Finish(n)
    BY <1>8
  <2>2. CASE Finish(n)
    BY <1>2, <1>5, <2>2
  <2>3. CASE EnableCancelled(n) \/ SweepSession(n)
    BY <1>2, <1>5, <2>3
  <2> QED
    BY <2>1, <2>2, <2>3
<1> QED
  BY <1>6, <1>7, <1>8, StepWriters DEF Writers

\* A process changes its root only when its name is used for another launch.
LEMMA RootEffect ==
    ASSUME TypeOK, [Next]_vars, NEW n \in Nonces
    PROVE  proc'[n].root = proc[n].root \/ \E c \in Controllers : Launch(c) /\ ctl[c].rec = n
  BY ProcessEffect, EndsEffect, GoesOnEffect

\* What a launch makes.
LEMMA LaunchEffect ==
    ASSUME TypeOK, NEW c \in Controllers, Launch(c), NEW n \in Nonces, ctl[c].rec = n
    PROVE  /\ proc'[n].pc = "launched" /\ proc'[n].root = RootOf[c]
           /\ proc'[n].dir = None /\ proc'[n].session = "off"
  BY Fields DEF Launch, NoProcess

\* A job of a root that had none was launched by a controller of that root.
LEMMA JobOfEffect ==
    ASSUME TypeOK, [Next]_vars, NEW r, ~JobOf(r), JobOf(r)'
    PROVE  \E c \in Controllers : Launch(c) /\ RootOf[c] = r
<1>1. CASE job' \in {job, None}
  <2>1. job' = job /\ job # None /\ job \in Nonces
    BY <1>1 DEF JobOf, TypeOK
  <2>2. proc'[job].root # proc[job].root
    BY <2>1 DEF JobOf
  <2>3. ~\E c \in Controllers : Launch(c)
    BY <2>1 DEF Launch
  <2> QED
    BY <2>1, <2>2, <2>3, RootEffect
<1>2. ASSUME NEW c \in Controllers, Launch(c) PROVE RootOf[c] = r
  <2>1. job' = ctl[c].rec /\ job' # None
    BY <1>2 DEF Launch, JobOf
  <2>2. ctl[c].rec \in Nonces
    BY <2>1, Fields
  <2> QED
    BY <1>2, <2>1, <2>2, LaunchEffect DEF JobOf
<1> QED
  BY <1>1, <1>2, JobEffect

----------------------------------------------------------------------------
(* The lease, and what its holder relies on *)

\* Every step that writes the disk, or launches, is of a lease holder, and moves it.
LEMMA HoldersWrite ==
    ASSUME TypeOK, NEW c \in Controllers, GoalAt(c),
           \/ SaveRecord(c) \/ Forget(c) \/ Define(c) \/ Undefine(c)
           \/ MakeRuntime(c) \/ MarkRuntime(c) \/ Unmark(c) \/ Rmdir(c) \/ Launch(c)
    PROVE  HoldsLifecycle(c) /\ ctl'[c].pc # ctl[c].pc
<1> USE Fields DEF HoldsLifecycle, Goto, ControllerType
<1>1. CASE SaveRecord(c) \/ Define(c) \/ MarkRuntime(c) \/ Unmark(c) \/ Rmdir(c)
  BY <1>1 DEF SaveRecord, Define, MarkRuntime, Unmark, Rmdir
<1>2. CASE Undefine(c)
  BY <1>2 DEF Undefine
<1>3. CASE Forget(c)
  <2>1. ctl'[c].pc = CASE ctl[c].goal = "start" -> "mkdir"
                       [] ctl[c].goal = "uninstall" -> "clear"
                       [] ctl[c].goal \in {"stop", "failed"} -> "stopped"
    BY <1>3 DEF Forget
  <2>2. ctl[c].pc = "forget" /\ ctl[c].goal \in {"start", "stop", "uninstall", "failed"}
    BY <1>3 DEF Forget, GoalAt, Goals, Ops
  <2> QED
    BY <2>1, <2>2
<1>4. CASE MakeRuntime(c)
  BY <1>4 DEF MakeRuntime
<1>5. CASE Launch(c)
  BY <1>5 DEF Launch
<1> QED
  BY <1>1, <1>2, <1>3, <1>4, <1>5

\* Its root is as the holder of the lease left it, whoever else takes a step; a
\* root that had no job has none.
LEMMA HolderKeeps ==
    ASSUME TypeOK, OneHolder, \A d \in Controllers : GoalAt(d), [Next]_vars,
           NEW c \in Controllers, HoldsLifecycle(c), ctl'[c].pc = ctl[c].pc
    PROVE  LET r == RootOf[c] IN
           /\ record'[r] = record[r] /\ def'[r] = def[r] /\ dir'[r] = dir[r]
           /\ ~JobOf(r) => ~JobOf(r)'
<1>1. \A d \in Controllers : RootOf[d] = RootOf[c] /\ d # c => ~HoldsLifecycle(d)
  BY DEF OneHolder
<1>2. \A d \in Controllers :
        \/ SaveRecord(d) \/ Forget(d) \/ Define(d) \/ Undefine(d)
        \/ MakeRuntime(d) \/ MarkRuntime(d) \/ Unmark(d) \/ Rmdir(d) \/ Launch(d)
        => RootOf[d] # RootOf[c]
  BY <1>1, HoldersWrite
<1>3. RootOf[c] \in Roots
  BY Fields
<1> QED
  BY <1>2, <1>3, DiskEffect, JobOfEffect

\* What a step of a controller is called for below: it gets to the pc p.
LEMMA HolderStep ==
    ASSUME TypeOK, NEW c \in Controllers, Acts(c), HoldsLifecycle(c)'
    PROVE  HoldsLifecycle(c) \/ (ctl[c].pc = "lease" /\ LifecycleFree(RootOf[c]))
<1> USE Fields DEF HoldsLifecycle, Goto, ControllerType
<1>1. ASSUME NEW op \in Ops, Begin(c, op) PROVE FALSE
  BY <1>1 DEF Begin
<1>2. CASE ReadRecord(c)
  BY <1>2 DEF ReadRecord
<1>3. CASE StopLocked(c)
  BY <1>3 DEF StopLocked, Inspect, Bootout, AwaitRemoval, OpenToClear, Probe, UnlinkStale, Unmark, Rmdir,
              Undefine, Forget, Probing, Unlinking, Sockets
<1>4. CASE Start(c)
  BY <1>4 DEF Start, MakeRuntime, MarkRuntime, SaveRecord, Define, Bootstrap, AwaitReady
<1>5. CASE Return(c) \/ Abandon(c)
  BY <1>5 DEF Return, Abandon, IdleController
<1> QED
  BY <1>1, <1>2, <1>3, <1>4, <1>5 DEF Acts

\* The lease has one holder.
LEMMA OneHolderStep ==
    ASSUME TypeOK, OneHolder, [Next]_vars
    PROVE  OneHolder'
<1>1. ASSUME NEW c \in Controllers, NEW d \in Controllers, c # d, RootOf[c] = RootOf[d], Acts(c),
             HoldsLifecycle(c)', HoldsLifecycle(d)'
      PROVE  FALSE
  <2>1. HoldsLifecycle(d)
    BY <1>1, Alone DEF HoldsLifecycle
  <2>2. HoldsLifecycle(c) \/ LifecycleFree(RootOf[c])
    BY <1>1, HolderStep
  <2> QED
    BY <1>1, <2>1, <2>2 DEF OneHolder, LifecycleFree
<1>2. ASSUME NEW e \in Controllers, Acts(e), NEW c \in Controllers, NEW d \in Controllers, c # d, RootOf[c] = RootOf[d]
      PROVE  ~(HoldsLifecycle(c)' /\ HoldsLifecycle(d)')
  <2>1. CASE e = c \/ e = d
    BY <1>1, <1>2, <2>1
  <2>2. CASE e # c /\ e # d
    BY <1>2, <2>2, Alone DEF OneHolder, HoldsLifecycle
  <2> QED
    BY <2>1, <2>2
<1>3. CASE ctl' = ctl
  BY <1>3 DEF OneHolder, HoldsLifecycle
<1> QED
  BY <1>2, <1>3, Actors DEF OneHolder

\* The job stays recorded: nobody clears the record or the definition of a root
\* that has one.
LEMMA JobRecordedStep ==
    ASSUME IInv, [Next]_vars
    PROVE  JobRecorded'
<1>0. TypeOK /\ JobRecorded /\ \A c \in Controllers : NoJob(c) /\ GoalAt(c) /\ Recorded(c)
  BY DEF IInv
<1>1. ASSUME NEW c \in Controllers, Launch(c) PROVE JobRecorded'
  <2>1. ctl[c].pc = "bootstrap" /\ record' = record /\ def' = def /\ job' = ctl[c].rec
    BY <1>1 DEF Launch, rootVars
  <2>2. record[RootOf[c]] = ctl[c].rec /\ def[RootOf[c]] = ctl[c].rec
    BY <1>0, <2>1 DEF Recorded
  <2>3. CASE ctl[c].rec \in Nonces
    BY <1>0, <1>1, <2>1, <2>2, <2>3, LaunchEffect DEF JobRecorded
  <2>4. CASE ctl[c].rec = None
    BY <2>1, <2>4 DEF JobRecorded
  <2> QED
    BY <1>0, <2>3, <2>4, Fields
<1>2. ASSUME job' \in {job, None}, ~\E c \in Controllers : Launch(c), job' # None PROVE JobRecorded'
  <2> DEFINE r == proc[job].root
  <2>1. job' = job /\ job # None /\ job \in Nonces
    BY <1>0, <1>2 DEF TypeOK
  <2>2. proc'[job].root = r /\ r \in Roots
    BY <1>0, <1>2, <2>1, RootEffect, Fields
  <2>3. JobOf(r)
    BY <2>1 DEF JobOf
  <2>4. ASSUME NEW c \in Controllers, RootOf[c] = r, SaveRecord(c) \/ Forget(c) \/ Define(c) \/ Undefine(c) PROVE FALSE
    <3>1. ctl[c].pc \in NoJobPcs
      BY <2>4 DEF SaveRecord, Forget, Define, Undefine, NoJobPcs
    <3> QED
      BY <1>0, <2>3, <2>4, <3>1 DEF NoJob
  <2>5. record'[r] = record[r] /\ def'[r] = def[r]
    BY <1>0, <2>2, <2>4, DiskEffect
  <2> QED
    BY <1>0, <2>1, <2>2, <2>5 DEF JobRecorded
<1>3. CASE job' = None
  BY <1>3 DEF JobRecorded
<1> QED
  BY <1>0, <1>1, <1>2, <1>3, JobEffect

\* What the invariant says of a controller.
Knows(c) == NoJob(c) /\ GoalAt(c) /\ Recorded(c) /\ DirAt(c) /\ Swept(c)

\* Of a controller at these points it says next to nothing.
LEMMA Quiet ==
    ASSUME NEW c \in Controllers,
           \/ ctl'[c].pc \in {"idle", "ready"}
           \/ ctl'[c].pc \in {"lease", "inspect", "bootout", "wait"} /\ ctl'[c].goal \notin {"make", "final"}
    PROVE  Knows(c)'
  BY DEF Knows, NoJob, GoalAt, Recorded, DirAt, Swept, NoJobPcs, SweepPcs

\* Goto, field by field.
LEMMA GotoFields ==
    ASSUME TypeOK, NEW c \in Controllers, NEW p, Goto(c, p)
    PROVE  ctl'[c].pc = p /\ ctl'[c].goal = ctl[c].goal /\ ctl'[c].rec = ctl[c].rec
  BY Fields DEF Goto, ControllerType

\* An operation begins, reads the record, or ends.
LEMMA BeginKnows ==
    ASSUME IInv, NEW c \in Controllers,
           (\E op \in Ops : Begin(c, op)) \/ ReadRecord(c) \/ Return(c) \/ Abandon(c)
    PROVE  Knows(c)'
<1>0. TypeOK /\ JobRecorded /\ Knows(c) /\ RootOf[c] \in Roots
  BY Fields DEF IInv, Knows
<1>1. ASSUME NEW op \in Ops, Begin(c, op) PROVE Knows(c)'
  <2>1. ctl'[c].pc = "lease" /\ ctl'[c].goal = op
    BY <1>0, <1>1, Fields DEF Begin, ControllerType
  <2> QED
    BY <2>1, Quiet DEF Ops
<1>2. CASE Return(c) \/ Abandon(c)
  <2>1. ctl'[c] = IdleController
    BY <1>0, <1>2, Fields DEF Return, Abandon
  <2> QED
    BY <2>1, Quiet DEF IdleController
<1>3. CASE ReadRecord(c)
  <2> DEFINE r == RootOf[c]
  <2>0. ctl[c].pc = "lease" /\ ctl[c].goal \notin {"make", "final"}
    BY <1>0, <1>3 DEF ReadRecord, Knows, GoalAt
  <2>1. record' = record /\ def' = def /\ dir' = dir /\ names' = names /\ job' = job /\ proc' = proc
    BY <1>3 DEF ReadRecord, rootVars
  <2>2. CASE ctl' = [ctl EXCEPT ![c].pc = "inspect", ![c].rec = record[r]]
    <3>1. ctl'[c].pc = "inspect" /\ ctl'[c].goal = ctl[c].goal
      BY <1>0, <2>2, Fields DEF ControllerType
    <3> QED
      BY <2>0, <3>1, Quiet
  <2>3. CASE record[r] = None /\ job = None /\ Goto(c, "mkdir")
    <3>1. ctl'[c].pc = "mkdir"
      BY <1>0, <2>3, GotoFields
    <3> QED
      BY <2>1, <2>3, <3>1 DEF Knows, NoJob, GoalAt, Recorded, DirAt, Swept, NoJobPcs, SweepPcs, JobOf
  <2>4. CASE record[r] = None /\ (job = None \/ Foreign(r)) /\ Goto(c, "stopped")
    <3>1. ctl'[c].pc = "stopped"
      BY <1>0, <2>4, GotoFields
    <3> QED
      BY <2>1, <2>4, <3>1 DEF Knows, NoJob, GoalAt, Recorded, DirAt, Swept, NoJobPcs, SweepPcs, JobOf, Foreign
  <2>5. CASE record[r] = None /\ ctl' = [ctl EXCEPT ![c].pc = "clear", ![c].goal = "final"]
    <3>1. ctl'[c].pc = "clear" /\ ctl'[c].goal = "final"
      BY <1>0, <2>5, Fields DEF ControllerType
    <3>2. ~JobOf(r)
      BY <1>0, <2>5 DEF JobRecorded, JobOf
    <3> QED
      BY <2>1, <2>5, <3>1, <3>2 DEF Knows, NoJob, GoalAt, Recorded, DirAt, Swept, NoJobPcs, SweepPcs, JobOf
  <2> QED
    BY <1>3, <2>2, <2>3, <2>4, <2>5 DEF ReadRecord
<1> QED
  BY <1>1, <1>2, <1>3

\* Whoever's socket is bound and not stale has a job or accepts.
LEMMA StaleMeansNobody ==
    ASSUME IInv, NEW r \in Roots, ~JobOf(r), names[r]["m"] = None \/ ~Accepts(r, "m"),
           NEW n \in Nonces, Bound(n)
    PROVE  proc[n].root # r
<1> SUFFICES ASSUME proc[n].root = r PROVE FALSE
  OBVIOUS
<1>1. Launched(n) /\ Named(n) /\ n # None
  BY NoneAssumption DEF IInv
<1>2. names[r]["m"] = n
  BY <1>1 DEF Named
<1>3. proc[n].pc = "bound"
  BY <1>1, <1>2 DEF Accepts, Bound
<1>4. job = n
  BY <1>1, <1>3 DEF Launched, StartupPcs
<1> QED
  BY <1>1, <1>4 DEF JobOf

\* stopLocked keeps what its controller knows.
LEMMA StopKnows ==
    ASSUME IInv, NEW c \in Controllers, StopLocked(c)
    PROVE  Knows(c)'
<1> DEFINE r == RootOf[c]
<1>0. TypeOK /\ JobRecorded /\ Knows(c) /\ OnDisk(r) /\ r \in Roots /\ ctl[c] \in ControllerType
  BY Fields DEF IInv, Knows
<1>1. ASSUME NEW p, Goto(c, p)
      PROVE  ctl'[c].pc = p /\ ctl'[c].goal = ctl[c].goal /\ ctl'[c].rec = ctl[c].rec
  BY <1>0, <1>1, GotoFields
<1> HIDE DEF r
<1> USE <1>0
<1>2. CASE Inspect(c)
  <2>1. CASE Goto(c, "bootout")
    BY <1>1, <1>2, <2>1, Quiet DEF Inspect, Knows, GoalAt
  <2>2. CASE Goto(c, "clear") /\ (job = None \/ Foreign(r))
    BY <1>1, <1>2, <2>2 DEF r, Inspect, rootVars, Knows, NoJob, GoalAt, Recorded, DirAt, Swept, NoJobPcs, SweepPcs,
                            JobOf, Foreign
  <2> QED
    BY <1>2, <2>1, <2>2 DEF Inspect, r
<1>3. CASE Bootout(c)
  BY <1>1, <1>3, Quiet DEF Bootout, Knows, GoalAt
<1>4. CASE AwaitRemoval(c)
  BY <1>1, <1>4 DEF AwaitRemoval, rootVars, Knows, NoJob, GoalAt, Recorded, DirAt, Swept, NoJobPcs, SweepPcs, JobOf
<1>5. CASE OpenToClear(c)
  <2>0. /\ ctl[c].pc = "clear" /\ record' = record /\ def' = def /\ dir' = dir /\ job' = job /\ proc' = proc
        /\ ~JobOf(r) /\ ctl[c].goal # "make" /\ (ctl[c].goal = "final" => record[r] = None)
    BY <1>5 DEF OpenToClear, rootVars, Knows, NoJob, GoalAt, Recorded, NoJobPcs, r
  <2>1. CASE Goto(c, "probe-m")
    BY <1>1, <2>0, <2>1 DEF r, Knows, NoJob, GoalAt, Recorded, DirAt, Swept, NoJobPcs, SweepPcs, JobOf
  <2>2. CASE dir[r].id = None /\ Goto(c, "undefine")
    <3>1. dir[r] = NoDir
      <4>1. dir[r] \in DirType
        BY DEF TypeOK, DirType
      <4> QED
        BY <2>2, <4>1 DEF OnDisk, NoDir, DirType
    <3> QED
      BY <1>1, <2>0, <2>2, <3>1 DEF r, Knows, NoJob, GoalAt, Recorded, DirAt, Swept, NoJobPcs, SweepPcs, JobOf
  <2> QED
    BY <1>5, <2>1, <2>2 DEF OpenToClear, r
<1>6. ASSUME NEW f \in Sockets, Probe(c, f) PROVE Knows(c)'
  <2>0. /\ record' = record /\ def' = def /\ dir' = dir /\ job' = job /\ proc' = proc
        /\ ctl[c].pc = Probing[f] /\ ctl[c].pc \in {"probe-m", "probe-s"}
        /\ f = "m" <=> ctl[c].pc = "probe-m"
    BY <1>6 DEF Probe, rootVars, Sockets, Probing
  <2>1. /\ ~JobOf(r) /\ (ctl[c].goal \in {"make", "final"} => record[r] = None)
    BY <2>0 DEF Knows, NoJob, Recorded, NoJobPcs, SweepPcs, r
  <2>2. \A n \in Nonces : Bound(n) => proc[n].root # r
    <3>1. CASE f = "m"
      <4>1. names[r]["m"] = None \/ ~Accepts(r, "m")
        BY <1>6, <3>1 DEF Probe, r
      <4> QED
        BY <2>1, <4>1, StaleMeansNobody
    <3>2. CASE f = "s"
      BY <2>0, <3>2 DEF Knows, Swept, SweepPcs, r
    <3> QED
      BY <3>1, <3>2 DEF Sockets
  <2>3. \/ ctl'[c].pc \in {"unlink-m", "unlink-s", "probe-s"}
        \/ ctl'[c].pc = "save" /\ ctl[c].goal = "make"
        \/ ctl'[c].pc = "unmark" /\ ctl[c].goal # "make"
    BY <1>1, <1>6 DEF Probe, AfterSocket, Unlinking, Sockets
  <2>4. ctl'[c].goal = ctl[c].goal
    BY <1>1, <1>6 DEF Probe
  <2> QED
    BY <2>0, <2>1, <2>2, <2>3, <2>4
       DEF r, Knows, NoJob, GoalAt, Recorded, DirAt, Swept, NoJobPcs, SweepPcs, JobOf, Bound
<1>7. ASSUME NEW f \in Sockets, UnlinkStale(c, f) PROVE Knows(c)'
  <2>0. /\ record' = record /\ def' = def /\ dir' = dir /\ job' = job /\ proc' = proc
        /\ ctl[c].pc \in {"unlink-m", "unlink-s"}
    BY <1>7 DEF UnlinkStale, Sockets, Unlinking
  <2>1. /\ ~JobOf(r) /\ (ctl[c].goal \in {"make", "final"} => record[r] = None)
        /\ \A n \in Nonces : Bound(n) => proc[n].root # r
    BY <2>0 DEF Knows, NoJob, Recorded, Swept, NoJobPcs, SweepPcs, r
  <2>3. \/ ctl'[c].pc = "probe-s"
        \/ ctl'[c].pc = "save" /\ ctl[c].goal = "make"
        \/ ctl'[c].pc = "unmark" /\ ctl[c].goal # "make"
    BY <1>1, <1>7 DEF UnlinkStale, AfterSocket, Sockets
  <2>4. ctl'[c].goal = ctl[c].goal
    BY <1>1, <1>7 DEF UnlinkStale
  <2> QED
    BY <2>0, <2>1, <2>3, <2>4
       DEF r, Knows, NoJob, GoalAt, Recorded, DirAt, Swept, NoJobPcs, SweepPcs, JobOf, Bound
<1>8. CASE Unmark(c) \/ Rmdir(c)
  <2>0. /\ record' = record /\ def' = def /\ job' = job /\ proc' = proc
        /\ \/ ctl[c].pc = "unmark" /\ ctl'[c].pc = "rmdir"
           \/ ctl[c].pc = "rmdir" /\ ctl'[c].pc = "undefine" /\ dir'[r] = NoDir
        /\ ctl'[c].goal = ctl[c].goal
    BY <1>1, <1>8, Fields DEF Unmark, Rmdir, r
  <2>1. /\ ~JobOf(r) /\ (ctl[c].goal \in {"make", "final"} => record[r] = None) /\ ctl[c].goal # "make"
        /\ \A n \in Nonces : Bound(n) => proc[n].root # r
    BY <2>0 DEF Knows, NoJob, Recorded, GoalAt, Swept, NoJobPcs, SweepPcs, r
  <2> QED
    BY <2>0, <2>1 DEF r, Knows, NoJob, GoalAt, Recorded, DirAt, Swept, NoJobPcs, SweepPcs, JobOf, Bound
<1>9. CASE Undefine(c)
  <2>0. /\ record' = record /\ dir' = dir /\ job' = job /\ proc' = proc /\ def'[r] = None
        /\ ctl[c].pc = "undefine" /\ ctl'[c].goal = ctl[c].goal
        /\ \/ ctl[c].goal = "final" /\ ctl'[c].pc = "uninstalled"
           \/ ctl[c].goal # "final" /\ ctl'[c].pc = "forget"
    BY <1>1, <1>9, Fields DEF Undefine, r
  <2>1. /\ ~JobOf(r) /\ (ctl[c].goal = "final" => record[r] = None) /\ ctl[c].goal # "make" /\ dir[r] = NoDir
    BY <2>0 DEF Knows, NoJob, Recorded, GoalAt, DirAt, NoJobPcs, SweepPcs, r
  <2> QED
    BY <2>0, <2>1 DEF r, Knows, NoJob, GoalAt, Recorded, DirAt, Swept, NoJobPcs, SweepPcs, JobOf
<1>10. CASE Forget(c)
  <2>0. /\ dir' = dir /\ job' = job /\ proc' = proc /\ def' = def /\ record'[r] = None
        /\ ctl[c].pc = "forget" /\ ctl[c].goal \in {"start", "stop", "uninstall", "failed"}
    BY <1>10, Fields DEF Forget, Knows, GoalAt, ControllerType, Goals, Ops, r
  <2>1. ~JobOf(r)
    BY <2>0 DEF Knows, NoJob, NoJobPcs, r
  <2>2. \/ ctl'[c].pc \in {"mkdir", "stopped"}
        \/ ctl'[c].pc = "clear" /\ ctl'[c].goal = "final"
    BY <1>10, <2>0, Fields DEF Forget, ControllerType
  <2> QED
    BY <2>0, <2>1, <2>2 DEF r, Knows, NoJob, GoalAt, Recorded, DirAt, Swept, NoJobPcs, SweepPcs, JobOf
<1> QED
  BY <1>2, <1>3, <1>4, <1>5, <1>6, <1>7, <1>8, <1>9, <1>10 DEF StopLocked

\* So does a start.
LEMMA StartKnows ==
    ASSUME IInv, NEW c \in Controllers, Start(c)
    PROVE  Knows(c)'
<1> DEFINE r == RootOf[c]
<1>0. TypeOK /\ Knows(c) /\ OnDisk(r) /\ r \in Roots /\ ctl[c] \in ControllerType
  BY Fields DEF IInv, Knows
<1>1. ASSUME NEW p, Goto(c, p)
      PROVE  ctl'[c].pc = p /\ ctl'[c].goal = ctl[c].goal /\ ctl'[c].rec = ctl[c].rec
  BY <1>0, <1>1, GotoFields
<1>2. ASSUME CleanUp(c) \/ ctl' = [ctl EXCEPT ![c] = IdleController] PROVE Knows(c)'
  <2>1. \/ ctl'[c].pc = "inspect" /\ ctl'[c].goal = "failed"
        \/ ctl'[c].pc = "idle"
    BY <1>0, <1>2, Fields DEF CleanUp, IdleController, ControllerType
  <2> QED
    BY <2>1, Quiet
<1> HIDE DEF r
<1> USE <1>0
<1>3. CASE MakeRuntime(c)
  <2>0. /\ record' = record /\ def' = def /\ job' = job /\ proc' = proc
        /\ ctl[c].pc = "mkdir" /\ ctl'[c].goal = "make"
        /\ ctl'[c].pc = IF dir[r].marked THEN "probe-m" ELSE "mark"
    BY <1>3, Fields DEF MakeRuntime, ControllerType, r
  <2>1. ~JobOf(r) /\ record[r] = None
    BY <2>0 DEF Knows, NoJob, Recorded, NoJobPcs, r
  <2>2. ctl'[c].pc = "mark" => dir'[r].id # None
    <3>1. SUFFICES ASSUME ctl'[c].pc = "mark" PROVE dir'[r].id # None
      OBVIOUS
    <3>2. FreshDirs # {} /\ dir'[r].id = CHOOSE d \in FreshDirs : TRUE
      BY <1>3, <2>0, <3>1, Fields DEF MakeRuntime, r
    <3>3. dir'[r].id \in FreshDirs
      BY <3>2
    <3> QED
      BY <3>3, NoneAssumption DEF NoneAssumption, FreshDirs
  <2> QED
    BY <2>0, <2>1, <2>2 DEF r, Knows, NoJob, GoalAt, Recorded, DirAt, Swept, NoJobPcs, SweepPcs, JobOf
<1>4. CASE MarkRuntime(c)
  <2>0. /\ record' = record /\ def' = def /\ job' = job /\ proc' = proc
        /\ ctl[c].pc = "mark" /\ ctl'[c].pc = "probe-m"
    BY <1>1, <1>4 DEF MarkRuntime
  <2>1. ~JobOf(r) /\ record[r] = None
    BY <2>0 DEF Knows, NoJob, Recorded, NoJobPcs, r
  <2> QED
    BY <2>0, <2>1 DEF r, Knows, NoJob, GoalAt, Recorded, DirAt, Swept, NoJobPcs, SweepPcs, JobOf
<1>5. CASE SaveRecord(c)
  <2>0. /\ def' = def /\ job' = job /\ proc' = proc /\ record'[r] = ctl[c].rec
        /\ ctl[c].pc = "save" /\ ctl'[c].pc = "define" /\ ctl'[c].rec = ctl[c].rec
    BY <1>1, <1>5, Fields DEF SaveRecord, r
  <2>1. ~JobOf(r)
    BY <2>0 DEF Knows, NoJob, NoJobPcs, r
  <2> QED
    BY <2>0, <2>1 DEF r, Knows, NoJob, GoalAt, Recorded, DirAt, Swept, NoJobPcs, SweepPcs, JobOf
<1>6. CASE Define(c)
  <2>0. /\ record' = record /\ job' = job /\ proc' = proc /\ def'[r] = ctl[c].rec
        /\ ctl[c].pc = "define" /\ ctl'[c].pc = "bootstrap" /\ ctl'[c].rec = ctl[c].rec
    BY <1>1, <1>6, Fields DEF Define, r
  <2>1. ~JobOf(r) /\ record[r] = ctl[c].rec
    BY <2>0 DEF Knows, NoJob, Recorded, NoJobPcs, r
  <2> QED
    BY <2>0, <2>1 DEF r, Knows, NoJob, GoalAt, Recorded, DirAt, Swept, NoJobPcs, SweepPcs, JobOf
<1>7. CASE Bootstrap(c)
  <2>1. CASE Goto(c, "ready")
    BY <1>1, <2>1, Quiet
  <2> QED
    BY <1>2, <1>7, <2>1 DEF Bootstrap
<1>8. CASE AwaitReady(c)
  BY <1>2, <1>8 DEF AwaitReady
<1> QED
  BY <1>3, <1>4, <1>5, <1>6, <1>7, <1>8 DEF Start

\* A management socket is newly bound only by the job of the root.
LEMMA BoundEffect ==
    ASSUME IInv, [Next]_vars, NEW n \in Nonces, Bound(n)'
    PROVE  proc'[n].root = proc[n].root /\ (Bound(n) \/ JobOf(proc[n].root))
<1>0. TypeOK /\ Launched(n) /\ n # None
  BY NoneAssumption DEF IInv
<1>1. ASSUME NEW c \in Controllers, Launch(c), ctl[c].rec = n PROVE FALSE
  BY <1>0, <1>1, LaunchEffect DEF Bound
<1>2. ~Ends(n)
  BY <1>0, EndsEffect DEF Bound
<1>3. CASE proc'[n] = proc[n]
  BY <1>3 DEF Bound
<1>4. CASE GoesOn(n)
  <2>1. proc'[n].root = proc[n].root
    BY <1>0, <1>4, GoesOnEffect
  <2>2. Bound(n) \/ proc[n].pc = "opened"
    BY <1>0, <1>4, GoesOnEffect DEF Bound
  <2>3. proc[n].pc = "opened" => JobOf(proc[n].root)
    BY <1>0 DEF Launched, StartupPcs, JobOf
  <2> QED
    BY <2>1, <2>2, <2>3
<1> QED
  BY <1>0, <1>1, <1>2, <1>3, <1>4, ProcessEffect

\* What a controller knows stays true while others take steps: of its root, by
\* the lease; of the manager's job, because no other launches one of this root.
LEMMA StaysKnown ==
    ASSUME IInv, [Next]_vars, NEW c \in Controllers, ctl'[c] = ctl[c]
    PROVE  Knows(c)'
<1> DEFINE r == RootOf[c]
<1>0. /\ TypeOK /\ OneHolder /\ Knows(c) /\ r \in Roots /\ \A d \in Controllers : GoalAt(d)
  BY Fields DEF IInv, Knows
<1>1. CASE ~HoldsLifecycle(c)
  BY <1>0, <1>1 DEF Knows, HoldsLifecycle, NoJob, GoalAt, Recorded, DirAt, Swept, NoJobPcs, SweepPcs
<1>2. CASE HoldsLifecycle(c)
  <2>1. /\ record'[r] = record[r] /\ def'[r] = def[r] /\ dir'[r] = dir[r]
        /\ ~JobOf(r) => ~JobOf(r)'
    BY <1>0, <1>2, HolderKeeps
  <2>2. ASSUME ctl[c].pc \in SweepPcs, NEW n \in Nonces, Bound(n)' PROVE proc'[n].root # r
    <3>1. ~JobOf(r) /\ (Bound(n) => proc[n].root # r)
      BY <1>0, <2>2 DEF Knows, NoJob, Swept, NoJobPcs
    <3> QED
      BY <2>2, <3>1, BoundEffect
  <2> HIDE DEF r
  <2>3. NoJob(c)' /\ GoalAt(c)'
    BY <1>0, <2>1 DEF r, Knows, NoJob, GoalAt
  <2>4. Recorded(c)' /\ DirAt(c)'
    BY <1>0, <2>1 DEF r, Knows, Recorded, DirAt
  <2>5. Swept(c)'
    BY <2>2 DEF Swept, r
  <2> QED
    BY <2>3, <2>4, <2>5 DEF Knows
<1> QED
  BY <1>1, <1>2

LEMMA KnowsStep ==
    ASSUME IInv, [Next]_vars, NEW c \in Controllers
    PROVE  Knows(c)'
<1>1. ASSUME NEW e \in Controllers, Acts(e) PROVE Knows(c)'
  <2>1. CASE e = c
    BY <1>1, <2>1, BeginKnows, StopKnows, StartKnows DEF Acts
  <2>2. CASE e # c
    BY <1>1, <2>2, Alone, StaysKnown DEF IInv
  <2> QED
    BY <2>1, <2>2
<1> QED
  BY <1>1, Actors, StaysKnown

----------------------------------------------------------------------------
(* What a root has on disk *)

\* A definition names the launch the record names, a marker is in a directory,
\* and sockets have names only in one.
LEMMA OnDiskStep ==
    ASSUME IInv, [Next]_vars, NEW r \in Roots
    PROVE  OnDisk(r)'
<1>0. TypeOK /\ OnDisk(r) /\ None \notin Dirs
  BY NoneAssumption DEF IInv, NoneAssumption
<1>1. def'[r] \in {None, record'[r]}
  <2>1. ASSUME NEW c \in Controllers, RootOf[c] = r, SaveRecord(c) PROVE def'[r] \in {None, record'[r]}
    <3>1. record[r] = None /\ def' = def
      BY <2>1 DEF SaveRecord, IInv, Recorded
    <3> QED
      BY <1>0, <3>1 DEF OnDisk
  <2>2. ASSUME NEW c \in Controllers, RootOf[c] = r, Forget(c) PROVE def'[r] \in {None, record'[r]}
    <3>1. def[r] = None /\ def' = def
      BY <2>2 DEF Forget, IInv, Recorded
    <3> QED
      BY <3>1
  <2>3. ASSUME NEW c \in Controllers, RootOf[c] = r, Define(c) PROVE def'[r] \in {None, record'[r]}
    <3>1. record[r] = ctl[c].rec /\ record' = record
      BY <2>3 DEF Define, IInv, Recorded
    <3>2. def'[r] = ctl[c].rec
      BY <1>0, <2>3, Fields DEF Define
    <3> QED
      BY <3>1, <3>2
  <2>4. ASSUME NEW c \in Controllers, RootOf[c] = r, Undefine(c) PROVE def'[r] \in {None, record'[r]}
    BY <1>0, <2>4, Fields DEF Undefine
  <2>5. CASE record'[r] = record[r] /\ def'[r] = def[r]
    BY <1>0, <2>5 DEF OnDisk
  <2> QED
    BY <1>0, <2>1, <2>2, <2>3, <2>4, <2>5, DiskEffect
<1>2. dir'[r].marked => dir'[r].id # None
  <2>1. ASSUME NEW c \in Controllers, RootOf[c] = r, MakeRuntime(c), dir'[r] # dir[r] PROVE ~dir'[r].marked
    BY <1>0, <2>1, Fields DEF MakeRuntime
  <2>2. ASSUME NEW c \in Controllers, RootOf[c] = r, MarkRuntime(c) PROVE dir'[r].id # None
    <3>1. dir[r].id # None
      BY <2>2 DEF MarkRuntime, IInv, DirAt
    <3>2. dir[r] \in DirType
      BY <1>0 DEF TypeOK, DirType
    <3> QED
      BY <1>0, <2>2, <3>1, <3>2, Fields DEF MarkRuntime, DirType
  <2>3. ASSUME NEW c \in Controllers, RootOf[c] = r, Unmark(c) \/ Rmdir(c) PROVE ~dir'[r].marked
    <3>1. dir[r] \in DirType
      BY <1>0 DEF TypeOK, DirType
    <3> QED
      BY <1>0, <2>3, <3>1, Fields DEF Unmark, Rmdir, NoDir, DirType
  <2>4. CASE dir'[r] = dir[r]
    BY <1>0, <2>4 DEF OnDisk
  <2> QED
    BY <1>0, <2>1, <2>2, <2>3, <2>4, DiskEffect
<1>3. ASSUME dir'[r].id = None PROVE names'[r] = NoSockets
  <2>1. dir[r].id = None => names[r] = NoSockets
    BY <1>0 DEF OnDisk
  <2>2. names[r] = NoSockets
    <3>1. ASSUME NEW c \in Controllers, RootOf[c] = r, MakeRuntime(c), dir'[r] # dir[r] PROVE FALSE
      <4>1. FreshDirs # {} /\ dir'[r].id = CHOOSE d \in FreshDirs : TRUE
        BY <1>0, <3>1, Fields DEF MakeRuntime
      <4>2. (CHOOSE d \in FreshDirs : TRUE) \in Dirs
        BY <4>1 DEF FreshDirs
      <4> QED
        BY <1>0, <1>3, <4>1, <4>2
    <3>2. ASSUME NEW c \in Controllers, RootOf[c] = r, MarkRuntime(c) \/ Unmark(c) PROVE dir'[r].id = dir[r].id
      <4>1. dir[r] \in DirType
        BY <1>0 DEF TypeOK, DirType
      <4> QED
        BY <1>0, <3>2, <4>1, Fields DEF MarkRuntime, Unmark, DirType
    <3>3. ASSUME NEW c \in Controllers, RootOf[c] = r, Rmdir(c) PROVE names[r] = NoSockets
      BY <3>3 DEF Rmdir
    <3> QED
      BY <1>0, <1>3, <2>1, <3>1, <3>2, <3>3, DiskEffect
  <2>3. ASSUME NEW n \in Nonces, proc[n].root = r, Bind(n) \/ EnableSession(n) PROVE FALSE
    <3>1. dir' = dir /\ dir[r].id # None
      BY <1>0, <2>3 DEF Bind, EnableSession, ValidDir, OnDisk
    <3> QED
      BY <1>3, <3>1
  <2>4. ASSUME NEW f \in Sockets PROVE names'[r][f] = None
    <3>1. names[r][f] = None
      BY <2>2 DEF NoSockets
    <3> QED
      BY <1>0, <2>3, <3>1, NamesEffect
  <2>5. names'[r] \in [Sockets -> Nonces \union {None}]
    <3>1. TypeOK'
      BY TypeStep DEF IInv
    <3> QED
      BY <3>1 DEF TypeOK
  <2> QED
    BY <2>4, <2>5 DEF NoSockets
<1> QED
  BY <1>1, <1>2, <1>3 DEF OnDisk

----------------------------------------------------------------------------
(* What a process relies on *)

\* A process that starts is the job.
LEMMA LaunchedStep ==
    ASSUME IInv, [Next]_vars, NEW n \in Nonces
    PROVE  Launched(n)'
<1>0. TypeOK /\ Launched(n) /\ Named(n) /\ proc[n] \in ProcessType /\ n # None
  BY Fields, NoneAssumption DEF IInv, NoneAssumption
<1>1. CASE proc'[n] = proc[n]
  <2>1. ASSUME proc[n].pc \in StartupPcs PROVE job' = n
    <3>1. job = n
      BY <1>0, <2>1 DEF Launched
    <3>2. ASSUME NEW c \in Controllers, Bootout(c) PROVE job' = job
      BY <2>1, <3>1, <3>2 DEF Bootout, Alive, StartupPcs
    <3>3. ASSUME NEW c \in Controllers, Bootstrap(c) PROVE job' = job
      BY <1>0, <3>1, <3>3, BootstrapEffect DEF Launch
    <3>4. ASSUME NEW m \in Nonces, Finish(m) \/ Die(m) PROVE job' = job
      <4>1. CASE m = n
        <5>1. proc'[n] = NoProcess(proc[n].root)
          BY <3>4, <4>1, Fields, <1>0 DEF Finish, Die, Gone
        <5> QED
          BY <1>1, <2>1, <5>1 DEF NoProcess, StartupPcs
      <4>2. CASE m # n
        BY <3>1, <3>4, <4>2 DEF Finish, Die, Gone
      <4> QED
        BY <4>1, <4>2
    <3>5. ASSUME LoseJob PROVE FALSE
      BY <2>1, <3>1, <3>5 DEF LoseJob, StartupPcs
    <3> QED
      BY <3>1, <3>2, <3>3, <3>4, <3>5, StepWriters DEF Writers
  <2> QED
    BY <1>0, <1>1, <2>1 DEF Launched
<1>2. CASE Ends(n)
  BY <1>0, <1>2, EndsEffect DEF Launched, StartupPcs
<1>3. ASSUME NEW c \in Controllers, Launch(c), ctl[c].rec = n PROVE Launched(n)'
  <2>1. job' = n
    BY <1>3 DEF Launch
  <2> QED
    BY <1>0, <1>3, <2>1, LaunchEffect DEF Launched, StartupPcs
<1>4. CASE GoesOn(n)
  <2>1. proc'[n].pc \in StartupPcs => job' = n
    BY <1>0, <1>4, GoesOnEffect DEF Launched, StartupPcs, OpenToServe
  <2>2. proc'[n].pc \notin {"serving", "draining"} => proc'[n].session = "off"
    <3>1. CASE proc'[n].session = proc[n].session
      <4>1. proc[n].pc = "serving" => proc'[n].pc = "serving"
        BY <1>0, <1>4, GoesOnEffect DEF OpenToServe
      <4>2. proc[n].pc = "draining" => proc'[n].pc = "draining"
        BY <1>0, <1>4, GoesOnEffect DEF OpenToServe
      <4> QED
        BY <1>0, <3>1, <4>1, <4>2 DEF Launched
    <3>2. CASE proc'[n].session # proc[n].session
      BY <1>0, <1>4, <3>2, GoesOnEffect DEF Launched, EnableSession
    <3> QED
      BY <3>1, <3>2
  <2>3. proc'[n].pc \in {"none", "launched", "recorded", "checked"} => proc'[n].dir = None
    <3>1. OpenToServe(n) => proc'[n].pc = "opened"
      BY <1>0, Fields DEF OpenToServe
    <3>2. proc'[n].pc \in {"none", "launched", "recorded", "checked"} =>
            proc[n].pc \in {"none", "launched", "recorded", "checked"}
      BY <1>0, <1>4, <3>1, GoesOnEffect
    <3> QED
      BY <1>0, <1>4, <3>1, <3>2, GoesOnEffect DEF Launched
  <2> QED
    BY <2>1, <2>2, <2>3 DEF Launched
<1> QED
  BY <1>0, <1>1, <1>2, <1>3, <1>4, ProcessEffect

\* No other process opens the directory of a root than the one it recorded.
LEMMA OwnsStep ==
    ASSUME IInv, [Next]_vars, NEW n \in Nonces
    PROVE  Owns(n)'
<1> DEFINE r == proc[n].root
<1>0. /\ TypeOK /\ JobRecorded /\ Launched(n) /\ Owns(n) /\ r \in Roots /\ n # None
  BY Fields, NoneAssumption DEF IInv, NoneAssumption
<1>1. SUFFICES ASSUME proc'[n].dir # None, proc'[n].dir = dir'[proc'[n].root].id PROVE record'[proc'[n].root] = n
  BY DEF Owns
<1>2. ASSUME NEW c \in Controllers, Launch(c), ctl[c].rec = n PROVE FALSE
  BY <1>0, <1>1, <1>2, LaunchEffect
<1>3. proc'[n].root = r
  BY <1>0, <1>2, RootEffect
<1>4. CASE OpenToServe(n)
  <2>1. record' = record /\ job = n
    BY <1>0, <1>4 DEF OpenToServe, Launched, StartupPcs, rootVars
  <2> QED
    BY <1>0, <1>3, <2>1 DEF JobRecorded
<1>5. CASE proc'[n].dir = proc[n].dir
  <2>1. dir'[r].id = dir[r].id
    <3>1. proc[n].dir = dir'[r].id /\ proc[n].dir # None
      BY <1>1, <1>3, <1>5
    <3>2. Alive(n)
      BY <1>0, <3>1 DEF Launched, Alive
    <3>3. ASSUME NEW c \in Controllers, RootOf[c] = r, MakeRuntime(c), dir'[r] # dir[r] PROVE FALSE
      <4>1. FreshDirs # {} /\ dir'[r].id = CHOOSE d \in FreshDirs : TRUE
        BY <1>0, <3>3, Fields DEF MakeRuntime
      <4>2. dir'[r].id \in FreshDirs
        BY <4>1
      <4> QED
        BY <3>1, <3>2, <4>2 DEF FreshDirs
    <3>4. ASSUME NEW c \in Controllers, RootOf[c] = r, MarkRuntime(c) \/ Unmark(c) PROVE dir'[r].id = dir[r].id
      <4>1. dir[r] \in DirType
        BY <1>0 DEF TypeOK, DirType
      <4> QED
        BY <1>0, <3>4, <4>1, Fields DEF MarkRuntime, Unmark, DirType
    <3>5. ASSUME NEW c \in Controllers, RootOf[c] = r, Rmdir(c) PROVE FALSE
      <4>1. dir'[r] = NoDir
        BY <1>0, <3>5, Fields DEF Rmdir
      <4> QED
        BY <3>1, <4>1 DEF NoDir
    <3> QED
      BY <1>0, <3>3, <3>4, <3>5, DiskEffect
  <2>2. record[r] = n
    BY <1>0, <1>1, <1>3, <1>5, <2>1 DEF Owns
  <2>3. ASSUME NEW c \in Controllers, RootOf[c] = r, SaveRecord(c) PROVE FALSE
    <3>1. record[r] = None
      BY <2>3 DEF SaveRecord, IInv, Recorded
    <3> QED
      BY <1>0, <2>2, <3>1
  <2>4. ASSUME NEW c \in Controllers, RootOf[c] = r, Forget(c) PROVE FALSE
    <3>1. dir[r] = NoDir
      BY <2>4 DEF Forget, IInv, DirAt
    <3> QED
      BY <1>1, <1>3, <1>5, <2>1, <3>1 DEF NoDir
  <2> QED
    BY <1>0, <1>3, <2>2, <2>3, <2>4, DiskEffect
<1>6. CASE Ends(n)
  BY <1>0, <1>1, <1>5, <1>6, EndsEffect
<1>7. CASE GoesOn(n)
  BY <1>0, <1>4, <1>5, <1>7, GoesOnEffect
<1> QED
  BY <1>0, <1>2, <1>5, <1>6, <1>7, ProcessEffect

\* The directory a process opened is another's only if it is that process.
LEMMA OneOwner ==
    ASSUME IInv, NEW n \in Nonces, NEW m \in Nonces, ValidDir(n), ValidDir(m), proc[m].root = proc[n].root
    PROVE  m = n
<1>1. Owns(n) /\ Owns(m) /\ OnDisk(proc[n].root)
  BY Fields DEF IInv
<1> QED
  BY <1>1 DEF Owns, OnDisk, ValidDir

\* Neither the directory nor the names go while somebody serves or is about to.
LEMMA NamedStep ==
    ASSUME IInv, [Next]_vars, NEW n \in Nonces
    PROVE  Named(n)'
<1> DEFINE r == proc[n].root
           Open == proc[n].pc = "opened" \/ Bound(n)
<1>0. /\ TypeOK /\ Launched(n) /\ Named(n) /\ proc[n] \in ProcessType /\ r \in Roots /\ n # None
      /\ OnDisk(r)
  BY Fields, NoneAssumption DEF IInv, NoneAssumption
<1>1. ASSUME NEW c \in Controllers, RootOf[c] = r, ctl[c].pc \in SweepPcs, Open PROVE FALSE
  <2>1. ~JobOf(r) /\ ~Bound(n)
    BY <1>1 DEF IInv, NoJob, Swept, NoJobPcs
  <2>2. job = n
    BY <1>0, <1>1, <2>1 DEF Launched, StartupPcs
  <2> QED
    BY <1>0, <2>1, <2>2 DEF JobOf
<1>2. ASSUME NEW c \in Controllers, Launch(c), ctl[c].rec = n PROVE Named(n)'
  BY <1>0, <1>2, LaunchEffect DEF Named, Bound
<1>3. CASE Ends(n)
  BY <1>0, <1>3, EndsEffect DEF Named, Bound
<1>4. CASE proc'[n] = proc[n] \/ GoesOn(n)
  <2>1. proc'[n].root = r
    BY <1>0, <1>4, GoesOnEffect
  <2>2. ASSUME (proc[n].pc = "opened" \/ Bound(n))' PROVE ValidDir(n)'
    <3>1. CASE OpenToServe(n)
      BY <1>0, <2>1, <3>1, Fields DEF OpenToServe, ValidDir, rootVars
    <3>2. CASE ~OpenToServe(n)
      <4>1. Open /\ proc'[n].dir = proc[n].dir
        BY <1>0, <1>4, <2>2, <3>2, GoesOnEffect DEF Bound
      <4>2. ValidDir(n) /\ dir[r].marked /\ dir[r].id # None
        BY <1>0, <4>1 DEF Named, ValidDir, OnDisk
      <4>3. ASSUME NEW c \in Controllers, RootOf[c] = r, MakeRuntime(c) PROVE dir'[r] = dir[r]
        BY <4>2, <4>3 DEF MakeRuntime
      <4>4. ASSUME NEW c \in Controllers, RootOf[c] = r, MarkRuntime(c)
            PROVE  dir'[r].marked /\ dir'[r].id = dir[r].id
        <5>1. dir[r] \in DirType
          BY <1>0 DEF TypeOK, DirType
        <5> QED
          BY <1>0, <4>4, <5>1, Fields DEF MarkRuntime, DirType
      <4>5. ASSUME NEW c \in Controllers, RootOf[c] = r, Unmark(c) \/ Rmdir(c) PROVE FALSE
        <5>1. ctl[c].pc \in SweepPcs
          BY <4>5 DEF Unmark, Rmdir, SweepPcs
        <5> QED
          BY <1>1, <4>1, <4>5, <5>1
      <4>6. dir'[r].marked /\ dir'[r].id = dir[r].id
        BY <1>0, <4>2, <4>3, <4>4, <4>5, DiskEffect
      <4> QED
        BY <2>1, <4>1, <4>2, <4>6 DEF ValidDir
    <3> QED
      BY <3>1, <3>2
  <2>3. ASSUME Bound(n)' PROVE names'[r]["m"] = n
    <3>1. CASE Bind(n)
      BY <1>0, <3>1, Fields DEF Bind, Sockets
    <3>2. CASE ~Bind(n)
      <4>1. Bound(n)
        BY <1>0, <1>4, <2>3, <3>2, GoesOnEffect DEF Bound, OpenToServe
      <4>2. names[r]["m"] = n /\ ValidDir(n) /\ "m" \in Sockets
        BY <1>0, <4>1 DEF Named, Sockets
      <4>3. ASSUME NEW c \in Controllers, RootOf[c] = r, UnlinkStale(c, "m") PROVE FALSE
        <5>1. ctl[c].pc \in SweepPcs
          BY <4>3 DEF UnlinkStale, Unlinking, SweepPcs
        <5> QED
          BY <1>1, <4>1, <4>3, <5>1
      <4>4. ASSUME NEW m \in Nonces, proc[m].root = r, ValidDir(m), Finish(m) PROVE FALSE
        <5>1. m = n
          BY <4>2, <4>4, OneOwner
        <5> QED
          BY <4>1, <4>4, <5>1 DEF Finish, Bound
      <4> QED
        BY <1>0, <4>2, <4>3, <4>4, NamesEffect
    <3> QED
      BY <3>1, <3>2
  <2>4. ASSUME proc'[n].pc = "serving", proc'[n].session \in {"bound", "listening"} PROVE names'[r]["s"] = n
    <3>1. CASE EnableSession(n)
      BY <1>0, <3>1, Fields DEF EnableSession, Sockets
    <3>2. CASE ~EnableSession(n)
      <4>1. proc[n].pc = "serving" /\ proc[n].session \in {"bound", "listening"}
        <5>1. proc[n].session \in {"bound", "listening"}
          BY <1>0, <1>4, <2>4, <3>2, GoesOnEffect
        <5>2. proc[n].pc \in {"serving", "draining"}
          BY <1>0, <5>1 DEF Launched
        <5> QED
          BY <1>0, <1>4, <2>4, <5>1, <5>2, GoesOnEffect DEF OpenToServe
      <4>2. names[r]["s"] = n /\ ValidDir(n) /\ "s" \in Sockets /\ Open
        BY <1>0, <4>1 DEF Named, Sockets, Bound
      <4>3. ASSUME NEW c \in Controllers, RootOf[c] = r, UnlinkStale(c, "s") PROVE FALSE
        <5>1. ctl[c].pc \in SweepPcs
          BY <4>3 DEF UnlinkStale, Unlinking, SweepPcs
        <5> QED
          BY <1>1, <4>2, <4>3, <5>1
      <4>4. ASSUME NEW m \in Nonces, proc[m].root = r, ValidDir(m), EnableCancelled(m) \/ SweepSession(m) PROVE FALSE
        <5>1. m = n
          BY <4>2, <4>4, OneOwner
        <5>2. proc'[n].session \in {"off", "swept"}
          BY <1>0, <4>4, <5>1, Fields DEF EnableCancelled, SweepSession, ProcessType
        <5> QED
          BY <2>4, <5>2
      <4> QED
        BY <1>0, <4>2, <4>3, <4>4, NamesEffect
    <3> QED
      BY <3>1, <3>2
  <2>5. ASSUME proc'[n].session = "listening" PROVE proc'[n].pc = "serving"
    <3>1. proc[n].pc = "serving"
      BY <1>0, <1>4, <2>5, GoesOnEffect DEF Named, EnableSession
    <3> QED
      BY <1>0, <1>4, <3>1, GoesOnEffect DEF OpenToServe
  <2> QED
    BY <2>1, <2>2, <2>3, <2>4, <2>5 DEF Named
<1> QED
  BY <1>0, <1>2, <1>3, <1>4, ProcessEffect

----------------------------------------------------------------------------
(* The theorems *)

\* IInv is inductive: it holds at first, and every step of every controller,
\* process and of the manager keeps it, a death at any point included.
THEOREM LifecycleInvariant == Spec => []IInv
<1>1. Init => IInv
  BY InitInv
<1>2. IInv /\ [Next]_vars => IInv'
  <2> SUFFICES ASSUME IInv, [Next]_vars PROVE IInv'
    OBVIOUS
  <2>1. TypeOK' /\ OneHolder'
    BY TypeStep, OneHolderStep DEF IInv
  <2>2. \A c \in Controllers : (NoJob(c) /\ GoalAt(c) /\ Recorded(c) /\ DirAt(c) /\ Swept(c))'
    BY KnowsStep DEF Knows
  <2>3. \A r \in Roots : OnDisk(r)'
    BY OnDiskStep
  <2>4. \A n \in Nonces : (Launched(n) /\ Owns(n) /\ Named(n))'
    BY LaunchedStep, OwnsStep, NamedStep
  <2> QED
    BY <2>1, <2>2, <2>3, <2>4, JobRecordedStep DEF IInv
<1> QED
  BY <1>1, <1>2, PTL DEF Spec

\* A job is recorded and defined, before it is launched and until it is gone:
\* owner and inspect can always tell whose it is.
THEOREM JobRecordedThm == Spec => []JobRecorded
<1>1. IInv => JobRecorded
  BY DEF IInv
<1> QED
  BY <1>1, LifecycleInvariant, PTL

\* removeStaleSocket, removeSocket and clearRuntime never unlink the socket of a
\* service that serves, although each acts on a name it looked at before.
THEOREM ServingReachableThm == Spec => []ServingReachable
<1>1. IInv => ServingReachable
  BY DEF IInv, ServingReachable, Named, Bound
<1> QED
  BY <1>1, LifecycleInvariant, PTL

\* When stop, a failed start or an uninstall reports that the service is gone,
\* it is: no job, nobody who serves, nothing left to clear.
THEOREM StoppedMeansStoppedThm == Spec => []StoppedMeansStopped
<1>1. IInv => StoppedMeansStopped
  <2> SUFFICES ASSUME IInv, NEW c \in Controllers, ctl[c].pc \in {"stopped", "uninstalled"}
               PROVE  LET r == RootOf[c] IN
                      /\ ~JobOf(r) /\ record[r] = None /\ def[r] = None
                      /\ \A n \in Nonces : proc[n].root = r => proc[n].pc \notin {"listening", "serving"}
                      /\ ctl[c].pc = "uninstalled" => ~dir[r].marked /\ names[r] = NoSockets
    BY DEF StoppedMeansStopped
  <2> DEFINE r == RootOf[c]
  <2>1. ~JobOf(r) /\ record[r] = None /\ OnDisk(r) /\ (ctl[c].pc = "uninstalled" => dir[r] = NoDir)
    BY Fields DEF IInv, NoJob, Recorded, DirAt, NoJobPcs
  <2>2. ASSUME NEW n \in Nonces, proc[n].root = r, Bound(n) PROVE FALSE
    <3>1. ValidDir(n) /\ Owns(n) /\ n # None
      BY <2>2, NoneAssumption DEF IInv, Named
    <3> QED
      BY <2>1, <2>2, <3>1 DEF ValidDir, Owns, OnDisk
  <2> QED
    BY <2>1, <2>2 DEF OnDisk, NoDir, Bound
<1> QED
  BY <1>1, LifecycleInvariant, PTL
=============================================================================
