---------------------------- MODULE ServiceLifecycle ----------------------------
(***************************************************************************)
(* The background service (internal/service: lifecycle.go, server.go,      *)
(* socket.go, cleanup.go) as controllers start, stop and uninstall it.     *)
(*                                                                         *)
(* One job per user, whichever installation ("root") it belongs to, runs   *)
(* under launchd or systemd.  A controller works under the lifecycle lease *)
(* of its root.  It records what it is about to launch, has the manager    *)
(* launch it, and clears the record, the job's definition and the sockets  *)
(* again when it stops it.  Controllers and services die at any step, and  *)
(* what they leave must never be taken for something else.                 *)
(*                                                                         *)
(* A launch is named by its nonce: the record and the definition of a root *)
(* hold one, a job and its process are one, and a socket belongs to one.   *)
(* A nonce or a directory that nothing refers to any more is used again.   *)
(* The manager is external: it launches a job at once or not at all, keeps *)
(* a job as long as its process lives, and may keep it afterwards (launchd *)
(* does, systemd does not).  It may forget the job of a serving process.   *)
(***************************************************************************)
EXTENDS Naturals, FiniteSets

CONSTANTS
  Roots,          \* installations of the user
  Controllers,    \* command line processes
  RootOf,         \* the root a controller works for
  Does,           \* the operations it performs
  Enabling,       \* roots whose services are asked to enable sessions
  Nonces,         \* names for launches
  None,           \* no launch, no directory
  Dirs            \* names for runtime directories

Ops == {"start", "stop", "uninstall"}
Sockets == {"m", "s"}      \* management and session

ASSUME ControllersAssumption ==
  RootOf \in [Controllers -> Roots] /\ Does \in [Controllers -> SUBSET Ops] /\ Enabling \subseteq Roots
ASSUME NoneAssumption == None \notin Nonces /\ None \notin Dirs

VARIABLES
  ctl,       \* controllers
  record,    \* service.json of each root: the nonce
  def,       \* the service definition of each root: the nonce in its arguments
  dir,       \* the runtime directory of each root, and whether it has its marker
  names,     \* the socket under each name in it: the launch that bound it
  job,       \* the job the manager has
  proc       \* service processes, by nonce

rootVars == <<record, def, dir, names>>
vars == <<ctl, record, def, dir, names, job, proc>>

-----------------------------------------------------------------------------
(* State *)

\* "goal" is what a controller does: it starts, stops or uninstalls; in a start
\* it makes a new launch or cleans up a "failed" one, and an uninstall clears
\* the runtime a second and "final" time.
IdleController == [pc |-> "idle", goal |-> "stop", rec |-> None]

\* The session listener: m.enabled is set when it first listens.
NoProcess(r) == [pc |-> "none", root |-> r, dir |-> None, session |-> "off"]

NoDir == [id |-> None, marked |-> FALSE]
NoSockets == [f \in Sockets |-> None]

ControllerPcs ==
  { "idle", "lease", "inspect", "bootout", "wait", "clear", "probe-m", "unlink-m",
    "probe-s", "unlink-s", "unmark", "rmdir", "undefine", "forget", "stopped", "uninstalled",
    "mkdir", "mark", "save", "define", "bootstrap", "ready" }
Goals == Ops \union {"make", "failed", "final"}
StartupPcs == {"launched", "recorded", "checked", "opened", "bound", "listening"}
ProcessPcs == {"none"} \union StartupPcs \union {"serving", "draining"}

TypeOK ==
  /\ ctl \in [Controllers -> [pc : ControllerPcs, goal : Goals, rec : Nonces \union {None}]]
  /\ record \in [Roots -> Nonces \union {None}]
  /\ def \in [Roots -> Nonces \union {None}]
  /\ dir \in [Roots -> [id : Dirs \union {None}, marked : BOOLEAN]]
  /\ names \in [Roots -> [Sockets -> Nonces \union {None}]]
  /\ job \in Nonces \union {None}
  /\ proc \in [Nonces -> [ pc : ProcessPcs, root : Roots, dir : Dirs \union {None},
                           session : {"off", "bound", "listening", "closed", "swept"} ]]

Init ==
  /\ ctl = [c \in Controllers |-> IdleController]
  /\ record = [r \in Roots |-> None]
  /\ def = [r \in Roots |-> None]
  /\ dir = [r \in Roots |-> NoDir]
  /\ names = [r \in Roots |-> NoSockets]
  /\ job = None
  /\ \E r \in Roots : proc = [n \in Nonces |-> NoProcess(r)]

Alive(n) == proc[n].pc # "none"
JobOf(r) == job # None /\ proc[job].root = r

\* inspect finds a job that matches the record: its root, its nonce among its
\* arguments, and the definition it was made from.
Matching(r, n) == job = n /\ n # None /\ proc[n].root = r /\ def[r] = n

\* owner: another root's job whose own record and definition vouch for it.
Foreign(r) ==
  /\ job # None /\ ~JobOf(r)
  /\ record[proc[job].root] = job /\ def[proc[job].root] = job

\* Both listeners of a serving process are closed.
Drained(p) ==
  [p EXCEPT !.pc = "draining", !.session = IF @ = "listening" THEN "closed" ELSE @]

\* A connection to the socket under the name f is accepted.
Accepts(r, f) ==
  LET n == names[r][f] IN
  /\ n # None
  /\ IF f = "m" THEN proc[n].pc \in {"listening", "serving"}
                ELSE proc[n].session = "listening"

HoldsLifecycle(c) == ctl[c].pc \notin {"idle", "lease"}
LifecycleFree(r) == \A c \in Controllers : RootOf[c] = r => ~HoldsLifecycle(c)

FreshNonces ==
  {n \in Nonces :
     /\ ~Alive(n) /\ job # n
     /\ \A r \in Roots : n \notin {record[r], def[r]} \union {names[r][f] : f \in Sockets}
     /\ \A c \in Controllers : ctl[c].rec # n}

FreshDirs ==
  {d \in Dirs : /\ \A r \in Roots : dir[r].id # d
                /\ \A n \in Nonces : Alive(n) => proc[n].dir # d}

Goto(c, pc) == ctl' = [ctl EXCEPT ![c].pc = pc]

-----------------------------------------------------------------------------
(* Controllers: beginning, and returning early *)

\* An operation is called.  A start that finds another root's job returns.
Begin(c, op) ==
  /\ ctl[c].pc = "idle" /\ op \in Does[c]
  /\ op = "start" => job = None \/ JobOf(RootOf[c])
  /\ ctl' = [ctl EXCEPT ![c].pc = "lease", ![c].goal = op]
  /\ UNCHANGED <<rootVars, job, proc>>

\* The operation returns an error that leaves everything as it is, a start
\* reuses a service it cannot or need not replace, or the controller dies.
Abandon(c) ==
  /\ ctl[c].pc # "idle"
  /\ ctl' = [ctl EXCEPT ![c] = IdleController]
  /\ UNCHANGED <<rootVars, job, proc>>

\* Under the lease the record is read.  A start goes on if no process of this
\* root is there; without a record nothing of a job may be there.
ReadRecord(c) ==
  LET r == RootOf[c]
      n == record[r]
      goal == ctl[c].goal
  IN
  /\ ctl[c].pc = "lease" /\ LifecycleFree(r)
  /\ \/ /\ n # None
        /\ goal = "start" => job = None \/ (Matching(r, n) /\ ~Alive(n))
        /\ ctl' = [ctl EXCEPT ![c].pc = "inspect", ![c].rec = n]
     \/ /\ n = None /\ goal = "start" /\ job = None
        /\ Goto(c, "mkdir")
     \/ /\ n = None /\ goal = "stop" /\ (job = None \/ Foreign(r))
        /\ Goto(c, "stopped")
     \/ /\ n = None /\ goal = "uninstall"
        /\ ctl' = [ctl EXCEPT ![c].pc = "clear", ![c].goal = "final"]
  /\ UNCHANGED <<rootVars, job, proc>>

-----------------------------------------------------------------------------
(* stopLocked *)

\* Mutant of Inspect: a job without a process counts as gone.
Inspect_DeadIsGone(c) ==
  LET r == RootOf[c] IN
  /\ ctl[c].pc = "inspect"
  /\ \/ job = None /\ Goto(c, "clear")
     \/ Foreign(r) /\ Goto(c, "clear")
     \/ Matching(r, ctl[c].rec) /\ Goto(c, IF Alive(job) THEN "bootout" ELSE "clear")
  /\ UNCHANGED <<rootVars, job, proc>>

\* The job is booted out if it is the recorded one; another root's verified
\* job means that ours is gone; anything else is a conflict (Abandon).
Inspect(c) ==
  LET r == RootOf[c] IN
  /\ ctl[c].pc = "inspect"
  /\ \/ job = None /\ Goto(c, "clear")
     \/ Foreign(r) /\ Goto(c, "clear")
     \/ Matching(r, ctl[c].rec) /\ Goto(c, "bootout")
  /\ UNCHANGED <<rootVars, job, proc>>

\* Bootout names the job by its label, the same for every root: a process that
\* serves is told to end (Drain, if it learns of it later), a dead job removed.
\* (On Linux the root is looked at once more before systemd stops the unit.)
Bootout(c) ==
  /\ ctl[c].pc = "bootout"
  /\ Goto(c, "wait")
  /\ \/ /\ job # None /\ proc[job].pc = "serving"
        /\ proc' = [proc EXCEPT ![job] = Drained(@)]
        /\ UNCHANGED job
     \/ /\ job # None /\ ~Alive(job)
        /\ job' = None
        /\ UNCHANGED proc
     \/ UNCHANGED <<job, proc>>
  /\ UNCHANGED rootVars

\* Mutant of AwaitRemoval: the runtime is cleared as soon as bootout returns.
AwaitRemoval_Impatient(c) ==
  /\ ctl[c].pc = "wait"
  /\ job = None \/ Matching(RootOf[c], ctl[c].rec)
  /\ Goto(c, "clear")
  /\ UNCHANGED <<rootVars, job, proc>>

\* The controller polls until the job is gone.
AwaitRemoval(c) ==
  /\ ctl[c].pc = "wait" /\ job = None
  /\ Goto(c, "clear")
  /\ UNCHANGED <<rootVars, job, proc>>

\* openRuntime for clearRuntime: without a directory there is nothing to clear;
\* one without its marker is refused (Abandon).
OpenToClear(c) ==
  LET d == dir[RootOf[c]] IN
  /\ ctl[c].pc = "clear"
  /\ \/ d.id = None /\ Goto(c, "undefine")
     \/ d.marked /\ Goto(c, "probe-m")
  /\ UNCHANGED <<rootVars, job, proc>>

Probing == [m |-> "probe-m", s |-> "probe-s"]
Unlinking == [m |-> "unlink-m", s |-> "unlink-s"]
AfterSocket(c, f) ==
  IF f = "m" THEN "probe-s" ELSE IF ctl[c].goal = "make" THEN "save" ELSE "unmark"

\* Mutant of Probe: a socket without a job is stale.
Probe_JobOnly(c, f) ==
  LET r == RootOf[c] IN
  /\ ctl[c].pc = Probing[f]
  /\ \/ names[r][f] = None /\ Goto(c, AfterSocket(c, f))
     \/ names[r][f] # None /\ ~JobOf(r) /\ Goto(c, Unlinking[f])
  /\ UNCHANGED <<rootVars, job, proc>>

\* removeStaleSocket: only a refused connection shows that a socket is stale;
\* one that is accepted is a conflict (Abandon).
Probe(c, f) ==
  LET r == RootOf[c] IN
  /\ ctl[c].pc = Probing[f]
  /\ \/ names[r][f] = None /\ Goto(c, AfterSocket(c, f))
     \/ names[r][f] # None /\ ~Accepts(r, f) /\ Goto(c, Unlinking[f])
  /\ UNCHANGED <<rootVars, job, proc>>

\* The name is unlinked, whatever it stands for by now.
UnlinkStale(c, f) ==
  /\ ctl[c].pc = Unlinking[f]
  /\ names' = [names EXCEPT ![RootOf[c]][f] = None]
  /\ Goto(c, AfterSocket(c, f))
  /\ UNCHANGED <<record, def, dir, job, proc>>

\* The marker goes only from a directory without other entries.  (Entries of
\* somebody else, which keep the directory, are not modelled.)
Unmark(c) ==
  LET r == RootOf[c] IN
  /\ ctl[c].pc = "unmark" /\ names[r] = NoSockets
  /\ dir' = [dir EXCEPT ![r].marked = FALSE]
  /\ Goto(c, "rmdir")
  /\ UNCHANGED <<record, def, names, job, proc>>

Rmdir(c) ==
  LET r == RootOf[c] IN
  /\ ctl[c].pc = "rmdir" /\ names[r] = NoSockets
  /\ dir' = [dir EXCEPT ![r] = NoDir]
  /\ Goto(c, "undefine")
  /\ UNCHANGED <<record, def, names, job, proc>>

\* The definition is removed.  Uninstall clears the runtime once more, requires
\* its marker to be gone, and removes the definition again.
Undefine(c) ==
  LET r == RootOf[c]
      final == ctl[c].goal = "final"
  IN
  /\ ctl[c].pc = "undefine"
  /\ final => ~dir[r].marked
  /\ def' = [def EXCEPT ![r] = None]
  /\ Goto(c, IF final THEN "uninstalled" ELSE "forget")
  /\ UNCHANGED <<record, dir, names, job, proc>>

\* The record is removed last, and stopLocked returns to its caller.
Forget(c) ==
  LET goal == ctl[c].goal IN
  /\ ctl[c].pc = "forget"
  /\ record' = [record EXCEPT ![RootOf[c]] = None]
  /\ ctl' = [ctl EXCEPT
       ![c].pc = CASE goal = "start" -> "mkdir"
                   [] goal = "uninstall" -> "clear"
                   [] goal \in {"stop", "failed"} -> "stopped",
       ![c].goal = IF goal = "uninstall" THEN "final" ELSE @]
  /\ UNCHANGED <<def, dir, names, job, proc>>

Return(c) ==
  /\ ctl[c].pc \in {"stopped", "uninstalled"}
  /\ ctl' = [ctl EXCEPT ![c] = IdleController]
  /\ UNCHANGED <<rootVars, job, proc>>

StopLocked(c) ==
  \/ Inspect(c) \/ Bootout(c) \/ AwaitRemoval(c) \/ OpenToClear(c)
  \/ \E f \in Sockets : Probe(c, f) \/ UnlinkStale(c, f)
  \/ Unmark(c) \/ Rmdir(c) \/ Undefine(c) \/ Forget(c)

-----------------------------------------------------------------------------
(* EnsureManagement *)

\* A nonce is drawn and the runtime directory is opened, or made without its
\* marker; one that is there without its marker is refused (Abandon).
MakeRuntime(c) ==
  LET r == RootOf[c] IN
  /\ ctl[c].pc = "mkdir" /\ FreshNonces # {}
  /\ \/ /\ dir[r].marked
        /\ UNCHANGED dir
     \/ /\ dir[r].id = None /\ FreshDirs # {}
        /\ dir' = [dir EXCEPT ![r] = [id |-> CHOOSE d \in FreshDirs : TRUE, marked |-> FALSE]]
  /\ ctl' = [ctl EXCEPT ![c].pc = IF dir[r].marked THEN "probe-m" ELSE "mark",
                        ![c].goal = "make",
                        ![c].rec = CHOOSE n \in FreshNonces : TRUE]
  /\ UNCHANGED <<record, def, names, job, proc>>

MarkRuntime(c) ==
  /\ ctl[c].pc = "mark"
  /\ dir' = [dir EXCEPT ![RootOf[c]].marked = TRUE]
  /\ Goto(c, "probe-m")
  /\ UNCHANGED <<record, def, names, job, proc>>

\* The record is published before the definition, and both before the launch.
SaveRecord(c) ==
  /\ ctl[c].pc = "save"
  /\ record' = [record EXCEPT ![RootOf[c]] = ctl[c].rec]
  /\ Goto(c, "define")
  /\ UNCHANGED <<def, dir, names, job, proc>>

Define(c) ==
  /\ ctl[c].pc = "define"
  /\ def' = [def EXCEPT ![RootOf[c]] = ctl[c].rec]
  /\ Goto(c, "bootstrap")
  /\ UNCHANGED <<record, dir, names, job, proc>>

CleanUp(c) == ctl' = [ctl EXCEPT ![c].pc = "inspect", ![c].goal = "failed"]

\* The manager launches the job, unless it has one; a refusal is cleaned up.
Bootstrap(c) ==
  /\ ctl[c].pc = "bootstrap"
  /\ \/ /\ job = None
        /\ job' = ctl[c].rec
        /\ proc' = [proc EXCEPT ![ctl[c].rec] = [NoProcess(RootOf[c]) EXCEPT !.pc = "launched"]]
        /\ Goto(c, "ready")
     \/ /\ CleanUp(c)
        /\ UNCHANGED <<job, proc>>
  /\ UNCHANGED rootVars

\* The job serves: the start is over.  Until then it may fail, be cancelled or
\* time out, and is cleaned up.
AwaitReady(c) ==
  LET r == RootOf[c]
      n == ctl[c].rec
  IN
  /\ ctl[c].pc = "ready"
  /\ \/ /\ Matching(r, n) /\ names[r]["m"] = n /\ proc[n].pc = "serving"
        /\ ctl' = [ctl EXCEPT ![c] = IdleController]
     \/ CleanUp(c)
  /\ UNCHANGED <<rootVars, job, proc>>

Start(c) ==
  \/ MakeRuntime(c) \/ MarkRuntime(c) \/ SaveRecord(c) \/ Define(c)
  \/ Bootstrap(c) \/ AwaitReady(c)

-----------------------------------------------------------------------------
(* The service process: serve and serveListener *)

Advance(n, from, to) ==
  /\ proc[n].pc = from
  /\ proc' = [proc EXCEPT ![n].pc = to]

\* The durable record must name this launch ...
CheckRecord(n) ==
  /\ record[proc[n].root] = n
  /\ Advance(n, "launched", "recorded")
  /\ UNCHANGED <<ctl, rootVars, job>>

\* ... and so must the manager's job.
CheckJob(n) ==
  /\ job = n
  /\ Advance(n, "recorded", "checked")
  /\ UNCHANGED <<ctl, rootVars, job>>

\* The manager is initialized, the runtime directory opened, no socket is there.
OpenToServe(n) ==
  LET r == proc[n].root IN
  /\ proc[n].pc = "checked" /\ dir[r].marked /\ names[r]["m"] = None
  /\ proc' = [proc EXCEPT ![n].pc = "opened", ![n].dir = dir[r].id]
  /\ UNCHANGED <<ctl, rootVars, job>>

\* ListenUnix binds the name first; until it listens, connections are refused.
Bind(n) ==
  LET r == proc[n].root IN
  /\ dir[r].id # None /\ names[r]["m"] = None
  /\ Advance(n, "opened", "bound")
  /\ names' = [names EXCEPT ![r]["m"] = n]
  /\ UNCHANGED <<ctl, record, def, dir, job>>

Listen(n) ==
  /\ Advance(n, "bound", "listening")
  /\ UNCHANGED <<ctl, rootVars, job>>

\* runtimeDir.valid, for the directory a process opened.
ValidDir(n) == LET r == proc[n].root IN dir[r].marked /\ dir[r].id = proc[n].dir

\* protectSocket and checkSocket look at the name, not at the socket.
Protect(n) ==
  /\ ValidDir(n) /\ names[proc[n].root]["m"] # None
  /\ Advance(n, "listening", "serving")
  /\ UNCHANGED <<ctl, rootVars, job>>

\* The enable request of a start, under enableMu, binds the session's name.
EnableSession(n) ==
  LET r == proc[n].root IN
  /\ r \in Enabling /\ proc[n].pc = "serving" /\ proc[n].session = "off"
  /\ ValidDir(n) /\ names[r]["s"] = None
  /\ names' = [names EXCEPT ![r]["s"] = n]
  /\ proc' = [proc EXCEPT ![n].session = "bound"]
  /\ UNCHANGED <<ctl, record, def, dir, job>>

\* It listens; when the context has ended meanwhile, its goroutine closes it.
SessionListens(n) ==
  /\ proc[n].session = "bound" /\ ValidDir(n) /\ names[proc[n].root]["s"] # None
  /\ proc' = [proc EXCEPT ![n].session =
                IF proc[n].pc = "serving" THEN "listening" ELSE "closed"]
  /\ UNCHANGED <<ctl, rootVars, job>>

\* AcceptUnix fails on the session listener: it is closed, and the name removed.
SessionEnds(n) ==
  /\ proc[n].pc = "serving" /\ proc[n].session = "listening"
  /\ proc' = [proc EXCEPT ![n].session = "closed"]
  /\ UNCHANGED <<ctl, rootVars, job>>

\* removeSocket: the name is removed if the directory is still the one opened.
RemoveName(n, f) ==
  names' = IF ValidDir(n) THEN [names EXCEPT ![proc[n].root][f] = None] ELSE names

\* The request is cancelled before the session is enabled.
EnableCancelled(n) ==
  /\ proc[n].session = "bound"
  /\ RemoveName(n, "s")
  /\ proc' = [proc EXCEPT ![n].session = "off"]
  /\ UNCHANGED <<ctl, record, def, dir, job>>

SweepSession(n) ==
  /\ proc[n].session = "closed"
  /\ RemoveName(n, "s")
  /\ proc' = [proc EXCEPT ![n].session = "swept"]
  /\ UNCHANGED <<ctl, record, def, dir, job>>

\* The context ends, or AcceptUnix fails on the management listener: listeners
\* close, and requests that run are waited for.
Drain(n) ==
  /\ proc[n].pc = "serving"
  /\ proc' = [proc EXCEPT ![n] = Drained(@)]
  /\ UNCHANGED <<ctl, rootVars, job>>

Gone(n) ==
  /\ proc' = [proc EXCEPT ![n] = NoProcess(proc[n].root)]
  /\ job' \in IF job = n THEN {n, None} ELSE {job}

\* The session goroutine has ended; the management socket is removed last.
Finish(n) ==
  /\ proc[n].pc = "draining" /\ proc[n].session \in {"off", "swept"}
  /\ RemoveName(n, "m")
  /\ Gone(n)
  /\ UNCHANGED <<ctl, record, def, dir>>

\* The process is killed, or its startup fails.
Die(n) ==
  /\ Alive(n)
  /\ Gone(n)
  /\ UNCHANGED <<ctl, rootVars>>

\* The manager's metadata of a serving process is lost: it becomes an orphan.
LoseJob ==
  /\ job # None /\ proc[job].pc = "serving"
  /\ job' = None
  /\ UNCHANGED <<ctl, rootVars, proc>>

Serve(n) ==
  \/ CheckRecord(n) \/ CheckJob(n) \/ OpenToServe(n) \/ Bind(n) \/ Listen(n) \/ Protect(n)
  \/ EnableSession(n) \/ SessionListens(n) \/ EnableCancelled(n) \/ SessionEnds(n)
  \/ SweepSession(n) \/ Drain(n) \/ Finish(n) \/ Die(n)

-----------------------------------------------------------------------------

Next ==
  \/ \E c \in Controllers :
       \/ \E op \in Ops : Begin(c, op)
       \/ ReadRecord(c) \/ StopLocked(c) \/ Start(c)
       \/ Return(c) \/ Abandon(c)
  \/ \E n \in Nonces : Serve(n)
  \/ LoseJob

Spec == Init /\ [][Next]_vars

-----------------------------------------------------------------------------
(* Properties *)

\* socket.go:145: a live listener must not be unlinked by start or stop, nor by
\* another service that ends late.  Whoever serves can be reached under its
\* names, be it the manager's job or an orphan.
ServingReachable ==
  \A n \in Nonces :
    /\ proc[n].pc = "serving" => ValidDir(n) /\ names[proc[n].root]["m"] = n
    /\ proc[n].session = "listening" => names[proc[n].root]["s"] = n

\* A job is recorded before it is launched and until it is gone, whatever dies
\* in between: a later stop, or the other root's start, can verify its owner.
JobRecorded ==
  job # None => record[proc[job].root] = job /\ def[proc[job].root] = job

\* "stopped" is true when it is reported, also by a failed start: this root has
\* no job, nobody serves, and nothing is left that a start would have to clear.
\* After an uninstall no marker and no socket of its runtime directory is left
\* either, which is what cleanup checks (cleanup.go:101).
StoppedMeansStopped ==
  \A c \in Controllers :
    LET r == RootOf[c] IN
    ctl[c].pc \in {"stopped", "uninstalled"} =>
      /\ ~JobOf(r) /\ record[r] = None /\ def[r] = None
      /\ \A n \in Nonces : proc[n].root = r => proc[n].pc \notin {"listening", "serving"}
      /\ ctl[c].pc = "uninstalled" => ~dir[r].marked /\ names[r] = NoSockets

\* DESIGN 13.7: after an interruption anywhere, rerunning completes the cleanup.
\* Not so: a runtime directory left without its marker is refused by start, stop
\* and uninstall alike.
RuntimeRecognized ==
  \A c \in Controllers :
    LET d == dir[RootOf[c]] IN
    ctl[c].pc \in {"clear", "mkdir"} => d.id = None \/ d.marked
=============================================================================
