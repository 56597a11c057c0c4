------------------------------ MODULE RwQueue ------------------------------
(***************************************************************************)
(* rwQueue (internal/config/locks.go): the reader-writer queue that the    *)
(* goroutines of one process pass before they compete for the lock files.  *)
(*                                                                         *)
(* The queue has no list of waiters.  A waiter captures the channel        *)
(* q.changed under q.mu, drops the mutex and sleeps until the channel is   *)
(* closed or its context ends; signal closes the channel, which wakes      *)
(* every sleeper, and installs a fresh one.  Each critical section of q.mu *)
(* is one action.  "parked" is a goroutine asleep on the current channel,  *)
(* "woken" one whose channel was closed and which has not yet locked q.mu  *)
(* again.                                                                  *)
(***************************************************************************)
EXTENDS Integers, FiniteSets

CONSTANT Goroutines

ASSUME GoroutinesAssumption == IsFiniteSet(Goroutines)

VARIABLES
    readers,     \* rwQueue.readers
    writer,      \* rwQueue.writer
    waiting,     \* rwQueue.waiting: writers inside acquire and not granted
    at,          \* what each goroutine is doing
    mode,        \* the write argument of its acquire
    cancelled    \* whether the context of its acquire has ended

queueVars == <<readers, writer, waiting, at, mode, cancelled>>

Modes == {"read", "write"}
Waiting(g) == at[g] \in {"parked", "woken"}
Holding(g, m) == at[g] = "held" /\ mode[g] = m

QueueInit ==
    /\ readers = 0
    /\ writer = FALSE
    /\ waiting = 0
    /\ at = [g \in Goroutines |-> "idle"]
    /\ mode = [g \in Goroutines |-> "read"]
    /\ cancelled = [g \in Goroutines |-> FALSE]

----------------------------------------------------------------------------

\* Mutant of Signalled: wakes a single sleeper, as a send on q.changed would.
Signalled_WakesOne(p) ==
    LET asleep == {h \in Goroutines : p[h] = "parked"}
    IN  IF asleep = {} THEN p ELSE [p EXCEPT ![CHOOSE h \in asleep : TRUE] = "woken"]

\* signal closes q.changed: everyone asleep on it wakes.
Signalled(p) == [h \in Goroutines |-> IF p[h] = "parked" THEN "woken" ELSE p[h]]

\* Mutant of Admissible: a reader does not let the waiting writers go first.
Admissible_ReaderBarges(m, w) == ~writer /\ (m = "read" \/ readers = 0)

\* Mutant of Admissible: a reader looks at the waiting writers only.
Admissible_ReaderIgnoresHolder(m, w) ==
    \/ m = "write" /\ ~writer /\ readers = 0
    \/ m = "read" /\ w = 0

\* The admission test of acquire, with w writers waiting.
Admissible(m, w) ==
    /\ ~writer
    /\ \/ m = "write" /\ readers = 0
       \/ m = "read" /\ w = 0

\* Mutant of GiveUp: the cancel path takes back a count no reader added.
GiveUp_AnyMode(g, m, w) ==
    /\ waiting' = w - 1
    /\ at' = Signalled([at EXCEPT ![g] = "idle"])
    /\ UNCHANGED <<readers, writer>>

\* Mutant of GiveUp: a writer that gives up does not signal.
GiveUp_Silent(g, m, w) ==
    /\ waiting' = IF m = "write" THEN w - 1 ELSE w
    /\ at' = [at EXCEPT ![g] = "idle"]
    /\ UNCHANGED <<readers, writer>>

\* One turn of the loop of acquire under q.mu, in a state where w writers
\* wait (the goroutine itself included when it writes).
GiveUp(g, m, w) ==
    /\ IF m = "write"
         THEN /\ waiting' = w - 1
              /\ at' = Signalled([at EXCEPT ![g] = "idle"])
         ELSE /\ waiting' = w
              /\ at' = [at EXCEPT ![g] = "idle"]
    /\ UNCHANGED <<readers, writer>>

Grant(g, m, w) ==
    /\ Admissible(m, w)
    /\ IF m = "write"
         THEN waiting' = w - 1 /\ writer' = TRUE /\ UNCHANGED readers
         ELSE waiting' = w /\ readers' = readers + 1 /\ UNCHANGED writer
    /\ at' = [at EXCEPT ![g] = "held"]

Park(g, m, w) ==
    /\ ~Admissible(m, w)
    /\ waiting' = w
    /\ at' = [at EXCEPT ![g] = "parked"]
    /\ UNCHANGED <<readers, writer>>

Turn(g, m, w, c) ==
    \/ c /\ GiveUp(g, m, w)
    \/ ~c /\ (Grant(g, m, w) \/ Park(g, m, w))

----------------------------------------------------------------------------

\* acquire up to the first time it drops q.mu; the context may have ended.
Arrive(g, m, c) ==
    /\ at[g] = "idle"
    /\ mode' = [mode EXCEPT ![g] = m]
    /\ cancelled' = [cancelled EXCEPT ![g] = c]
    /\ Turn(g, m, IF m = "write" THEN waiting + 1 ELSE waiting, c)

\* Mutant of Retry: the sleeper waits for the channel alone.
Retry_ChannelOnly(g) ==
    /\ at[g] = "woken"
    /\ Turn(g, mode[g], waiting, cancelled[g])
    /\ UNCHANGED <<mode, cancelled>>

\* The sleeper saw its channel closed or its context end, and locked q.mu.
Retry(g) ==
    /\ at[g] = "woken" \/ (at[g] = "parked" /\ cancelled[g])
    /\ Turn(g, mode[g], waiting, cancelled[g])
    /\ UNCHANGED <<mode, cancelled>>

\* The release function acquire returned (sync.Once: its first call).
ReleaseQueue(g) ==
    /\ at[g] = "held"
    /\ IF mode[g] = "write"
         THEN writer' = FALSE /\ UNCHANGED readers
         ELSE readers' = readers - 1 /\ UNCHANGED writer
    /\ at' = Signalled([at EXCEPT ![g] = "idle"])
    /\ UNCHANGED <<waiting, mode, cancelled>>

\* The context of a waiting acquire ends.
Cancel(g) ==
    /\ Waiting(g) /\ ~cancelled[g]
    /\ cancelled' = [cancelled EXCEPT ![g] = TRUE]
    /\ UNCHANGED <<readers, writer, waiting, at, mode>>

QueueNext == \E g \in Goroutines :
    \/ \E m \in Modes, c \in BOOLEAN : Arrive(g, m, c)
    \/ Retry(g)
    \/ ReleaseQueue(g)
    \/ Cancel(g)

QueueSpec == QueueInit /\ [][QueueNext]_queueVars

\* A goroutine that can run does.  Nobody is obliged to arrive or to cancel,
\* and Release is not fair: a holder may work as long as it likes.
FairQueue == QueueSpec /\ \A g \in Goroutines : WF_queueVars(Retry(g))

----------------------------------------------------------------------------
(* Properties *)

QueueTypeOK ==
    /\ readers \in Nat /\ waiting \in Nat /\ writer \in BOOLEAN
    /\ at \in [Goroutines -> {"idle", "parked", "woken", "held"}]
    /\ mode \in [Goroutines -> Modes]
    /\ cancelled \in [Goroutines -> BOOLEAN]

Readers == {g \in Goroutines : Holding(g, "read")}
Writers == {g \in Goroutines : Holding(g, "write")}
WaitingWriters == {g \in Goroutines : Waiting(g) /\ mode[g] = "write"}

\* The three fields of the queue agree with what the goroutines hold and wait
\* for: a missed decrement on the cancel path, or a double one, would block
\* every reader for ever or admit one beside a writer.
CountsExact ==
    /\ readers = Cardinality(Readers)
    /\ waiting = Cardinality(WaitingWriters)
    /\ writer <=> Writers # {}

\* A writer excludes everybody else in the process.
Exclusion ==
    \A g, h \in Goroutines : Holding(g, "write") /\ at[h] = "held" => g = h

\* Nobody sleeps on the current channel while the queue would admit it: every
\* change that admits someone is followed by signal.
NoLostWakeup ==
    \A g \in Goroutines : at[g] = "parked" => ~Admissible(mode[g], waiting)

\* locks.go:15: newly arriving goroutines do not starve a waiting writer.  As
\* long as a writer waits, the readers it waits for only become fewer.
WriterNotOvertaken ==
    [][waiting > 0 => Readers' \subseteq Readers]_queueVars

\* A cancelled acquire returns, even if the holders keep the lock for ever.
CancelReturns ==
    \A g \in Goroutines : (Waiting(g) /\ cancelled[g]) ~> ~Waiting(g)

\* Once the holders in its way are gone, a waiter is served.  When nobody holds
\* the queue, one of the waiting writers gets in or all of them give up; when
\* no writer holds or awaits it, a waiting reader gets in, gives up, or meets a
\* writer that arrived since.
Served ==
    /\ (waiting > 0 /\ readers = 0 /\ ~writer) ~> (writer \/ waiting = 0)
    /\ \A g \in Goroutines :
         (Waiting(g) /\ mode[g] = "read" /\ waiting = 0 /\ ~writer)
            ~> (~Waiting(g) \/ waiting > 0 \/ writer)

\* The queue implements the abstract lock: in a process, a writer excludes
\* everybody else, and nobody is let in while one holds the queue.
Lock == INSTANCE ReaderWriter
        WITH Actors <- Goroutines, shared <- Readers, exclusive <- Writers

Implements == Lock!Spec
=============================================================================
