----------------------------- MODULE McpSession -----------------------------
(***************************************************************************)
(* One MCP session (internal/mcp): the guard between an agent's socket and *)
(* the SDK server, and the bridge process that relays the agent's stdio.   *)
(*                                                                         *)
(* One goroutine of the SDK calls guard.Read; every accepted call runs in  *)
(* a goroutine of its own that ends in guard.Write.  g.mu protects the     *)
(* pending table, g.writeMu orders the answers on the socket.  A request   *)
(* is named by the number of its line, so that two requests that reuse one *)
(* identifier stay apart; the program itself has the identifier only.      *)
(* The agent may send any line at any time, and stop reading the answers   *)
(* at any time: then the output relay is stuck in a write to stdout, the   *)
(* socket fills, and whoever writes to it keeps writeMu.  No write has a   *)
(* deadline.                                                               *)
(***************************************************************************)
EXTENDS Integers, Sequences, FiniteSets

CONSTANTS
    Ids,                    \* request identifiers the agent uses
    Methods,                \* methods it calls: "work" stands for tools/call and
                            \* what else a ready session allows, "" for an empty one
    MaxConcurrentRequests,  \* maxConcurrentRequests (16)
    MaxLines                \* bound: lines the agent sends

ASSUME LimitsAssumption ==
    /\ Ids \subseteq Nat \ {0}
    /\ MaxConcurrentRequests \in Nat \ {0}
    /\ MaxLines \in Nat

VARIABLES
    lines,       \* lines read so far
    reader,      \* the goroutine in guard.Read and the line it rejects: "refusing"
                 \* is inside the write, with writeMu
    pending,     \* guard.pending: the line that holds an identifier, 0 for none
    calls,       \* the calls given to the SDK and how far each has come
    handshake,   \* initializing, initSent and ready of the guard
    writeMu,     \* the line whose answer holds guard.writeMu, 0 for none
    wire,        \* the answers written to the open socket, in order
    relayed,     \* how many of them the output relay has read
    open,        \* the socket is open (the context of the session lives)
    served,      \* Serve has returned
    bridge       \* the two relays of Bridge and what it returned: the output relay
                 \* is "writing" from its read of the socket until stdout has all

guardVars == <<lines, reader, pending, calls, handshake, writeMu, wire>>
vars == <<lines, reader, pending, calls, handshake, writeMu, wire, relayed, open, served, bridge>>

Lines == 1..MaxLines

NoHandshake == [initializing |-> FALSE, initSent |-> FALSE, ready |-> FALSE]
NoCall == [id |-> 0, method |-> "", state |-> "none", cancelled |-> FALSE, ok |-> FALSE]
Done == [NoCall EXCEPT !.state = "done"]
Unfinished(n) == calls[n].state \in {"running", "found", "retired"}

Init ==
    /\ lines = 0
    /\ reader = [at |-> "reading", id |-> 0, method |-> ""]
    /\ pending = [i \in Ids |-> 0]
    /\ calls = [n \in Lines |-> NoCall]
    /\ handshake = NoHandshake
    /\ writeMu = 0
    /\ wire = <<>>
    /\ relayed = 0
    /\ open = TRUE
    /\ served = FALSE
    /\ bridge = [input |-> "copying", output |-> "copying", first |-> "none",
                 closed |-> FALSE, cancelled |-> FALSE, result |-> "none"]

----------------------------------------------------------------------------
(* guard.Read: each action takes one line of the agent. *)

\* The identifiers are interchangeable: they are numbered in the order in
\* which the agent first uses them.
Used == {calls[n].id : n \in Lines} \cup {wire[k].id : k \in DOMAIN wire} \cup {reader.id}
AgentUses(i) == \A j \in Ids : j < i => j \in Used

TakesLine ==
    /\ open /\ reader.at = "reading" /\ lines < MaxLines
    /\ lines' = lines + 1
    /\ UNCHANGED <<writeMu, wire, relayed, open, served, bridge>>

\* A line that is not a frame is refused without an identifier (0).
Refuses(i, m) == reader' = [at |-> "rejecting", id |-> i, method |-> m]

ReadGarbage ==
    /\ TakesLine
    /\ Refuses(0, "")
    /\ UNCHANGED <<pending, calls, handshake>>

ReadInitialized ==
    /\ TakesLine
    /\ handshake.initSent /\ ~handshake.ready
    /\ handshake' = [handshake EXCEPT !.ready = TRUE]
    /\ UNCHANGED <<reader, pending, calls>>

\* Only a call that is pending and not yet cancelled is cancelled; the SDK
\* ends the context of the call.
ReadCancelled(i) ==
    /\ TakesLine
    /\ handshake.ready
    /\ pending[i] # 0
    /\ ~calls[pending[i]].cancelled
    /\ calls' = [calls EXCEPT ![pending[i]].cancelled = TRUE]
    /\ UNCHANGED <<reader, pending, handshake>>

\* The identifier of a call in flight: the line is dropped.
Duplicate(i, m) == m # "" /\ pending[i] # 0

\* Mutant of Refused: the limit counts the calls already there once too many.
Refused_OneMore(m, inFlight) ==
    \/ m \in {"", "server/discover"}
    \/ m = "initialize" /\ (handshake.initSent \/ handshake.initializing)
    \/ m \notin {"initialize", "ping"} /\ ~handshake.ready
    \/ inFlight > MaxConcurrentRequests

\* Mutant of Refused: work is allowed once initialize has been received.
Refused_WorkEarly(m, inFlight) ==
    \/ m \in {"", "server/discover"}
    \/ m = "initialize" /\ (handshake.initSent \/ handshake.initializing)
    \/ m \notin {"initialize", "ping"} /\ ~handshake.ready /\ ~handshake.initializing
    \/ inFlight >= MaxConcurrentRequests

\* The checks of a call, with inFlight requests pending.
Refused(m, inFlight) ==
    \/ m \in {"", "server/discover"}
    \/ m = "initialize" /\ (handshake.initSent \/ handshake.initializing)
    \/ m \notin {"initialize", "ping"} /\ ~handshake.ready
    \/ inFlight >= MaxConcurrentRequests

InFlight == Cardinality({i \in Ids : pending[i] # 0})

ReadDuplicate(i, m) ==
    /\ AgentUses(i)
    /\ Duplicate(i, m)
    /\ TakesLine
    /\ UNCHANGED <<reader, pending, calls, handshake>>

ReadRefused(i, m) ==
    /\ AgentUses(i)
    /\ ~Duplicate(i, m)
    /\ Refused(m, InFlight)
    /\ TakesLine
    /\ Refuses(i, m)
    /\ UNCHANGED <<pending, calls, handshake>>

\* The request joins the table and goes to the SDK, which runs it at once.
ReadCall(i, m) ==
    /\ AgentUses(i)
    /\ ~Duplicate(i, m)
    /\ ~Refused(m, InFlight)
    /\ TakesLine
    /\ pending' = [pending EXCEPT ![i] = lines + 1]
    /\ calls' = [calls EXCEPT ![lines + 1] =
                    [id |-> i, method |-> m, state |-> "running",
                     cancelled |-> FALSE, ok |-> FALSE]]
    /\ handshake' = IF m = "initialize"
                    THEN [handshake EXCEPT !.initializing = TRUE] ELSE handshake
    /\ UNCHANGED reader

----------------------------------------------------------------------------
(* guard.send and guard.Write *)

Answer(n, i, m, ok) == [line |-> n, id |-> i, method |-> m, ok |-> ok]

\* send takes writeMu for the refusal of the line just read.
Reject ==
    /\ reader.at = "rejecting" /\ writeMu = 0
    /\ reader' = [reader EXCEPT !.at = "refusing"]
    /\ writeMu' = lines
    /\ UNCHANGED <<lines, pending, calls, handshake, wire, relayed, open, served, bridge>>

\* The refusal is written, or the session is over: then Read returns and the
\* SDK reads no more.
EmitRefusal ==
    /\ reader.at = "refusing"
    /\ \/ /\ open
          /\ wire' = Append(wire, Answer(lines, reader.id, reader.method, FALSE))
          /\ reader' = [at |-> "reading", id |-> 0, method |-> ""]
       \/ /\ ~open
          /\ reader' = [at |-> "stopped", id |-> 0, method |-> ""]
          /\ UNCHANGED wire
    /\ writeMu' = 0
    /\ UNCHANGED <<lines, pending, calls, handshake, relayed, open, served, bridge>>

StopReading ==
    /\ ~open /\ reader.at = "reading"
    /\ reader' = [reader EXCEPT !.at = "stopped"]
    /\ UNCHANGED <<lines, pending, calls, handshake, writeMu, wire, relayed, open, served, bridge>>

\* Mutant of TakesWriteMu: the answers are not ordered.
TakesWriteMu_Unlocked(n) == UNCHANGED writeMu

TakesWriteMu(n) == writeMu = 0 /\ writeMu' = n

\* A call has its result: it takes writeMu and looks its identifier up.  No
\* answer is written for an identifier that is not pending.
FindPending(n, ok) ==
    /\ calls[n].state = "running"
    /\ ok \/ calls[n].method = "initialize"
    /\ IF pending[calls[n].id] = 0
       THEN writeMu = 0 /\ calls' = [calls EXCEPT ![n] = Done] /\ UNCHANGED writeMu
       ELSE TakesWriteMu(n) /\ calls' = [calls EXCEPT ![n].state = "found", ![n].ok = ok]
    /\ UNCHANGED <<lines, reader, pending, handshake, wire, relayed, open, served, bridge>>

\* initialize has been answered.
Concluded(h, ok) == [h EXCEPT !.initializing = FALSE, !.initSent = ok]

\* Under g.mu the entry goes, still inside writeMu: from here on the
\* identifier is free, but whatever takes it answers after this call.
Retire(n) ==
    /\ calls[n].state = "found"
    /\ pending' = [pending EXCEPT ![calls[n].id] = 0]
    /\ handshake' = IF open /\ calls[n].method = "initialize"
                    THEN Concluded(handshake, calls[n].ok) ELSE handshake
    /\ calls' = [calls EXCEPT ![n].state = "retired"]
    /\ UNCHANGED <<lines, reader, writeMu, wire, relayed, open, served, bridge>>

\* Mutant of Released: the mutex is given up after a result, not after a failure.
Released_ResultOnly(n) == IF calls[n].ok THEN 0 ELSE n

Released(n) == 0

\* The write ends: the socket has taken the answer, or it is closed.
Emit(n) ==
    /\ calls[n].state = "retired"
    /\ wire' = IF open
               THEN Append(wire, Answer(n, calls[n].id, calls[n].method, calls[n].ok))
               ELSE wire
    /\ calls' = [calls EXCEPT ![n] = Done]
    /\ writeMu' = Released(n)
    /\ UNCHANGED <<lines, reader, pending, handshake, relayed, open, served, bridge>>

----------------------------------------------------------------------------
(* The end of a session: the service stops it, a write fails, or the       *)
(* bridge closes its end.  What was written and how far the handshake came *)
(* is forgotten: nobody reads the socket any more.                         *)

Shut == open' = FALSE /\ wire' = <<>> /\ relayed' = 0 /\ handshake' = NoHandshake
guardRest == <<lines, reader, pending, calls, writeMu>>

Close ==
    /\ open
    /\ Shut
    /\ UNCHANGED <<guardRest, served, bridge>>

\* Serve returns once the reader has stopped and the handlers are done.
ServeReturns ==
    /\ ~served /\ reader.at = "stopped"
    /\ \A n \in Lines : ~Unfinished(n)
    /\ served' = TRUE
    /\ UNCHANGED <<guardVars, relayed, open, bridge>>

----------------------------------------------------------------------------
(* Bridge: a relay from stdin to the socket and one from the socket to     *)
(* stdout.  The first of the two to end makes it close both streams and    *)
(* the socket.                                                             *)

FirstEnds(side, how) ==
    /\ ~bridge.closed
    /\ bridge' = [bridge EXCEPT ![side] = how, !.first = side, !.closed = TRUE]
    /\ Shut
    /\ UNCHANGED <<guardRest, served>>

\* The output relay reads answers from the socket and writes them to stdout.
\* What the socket still held when the service closed it counts as read before.
RelayTakes ==
    /\ open /\ bridge.output = "copying" /\ relayed < Len(wire)
    /\ relayed' = Len(wire)
    /\ bridge' = [bridge EXCEPT !.output = "writing"]
    /\ UNCHANGED <<guardVars, open, served>>

\* The agent reads what the relay has written; it may never do so.
AgentReads ==
    /\ ~bridge.closed /\ bridge.output = "writing"
    /\ bridge' = [bridge EXCEPT !.output = "copying"]
    /\ UNCHANGED <<guardVars, relayed, open, served>>

\* The agent ends its input, or closes the pipe the relay is writing to.
StdinEnds == FirstEnds("input", "eof")
StdoutFails == bridge.output = "writing" /\ FirstEnds("output", "error")

\* The service has closed the socket: the output relay sees that in its next
\* read, so not while it is writing; the other relay if it has something to
\* write.
SocketEnds == ~open /\ bridge.output = "copying" /\ FirstEnds("output", "eof")
SocketRefuses == ~open /\ FirstEnds("input", "error")

\* The context of the bridge ends.
CancelBridge ==
    /\ ~bridge.closed
    /\ bridge' = [bridge EXCEPT !.closed = TRUE, !.cancelled = TRUE]
    /\ Shut
    /\ UNCHANGED <<guardRest, served>>

\* Mutant of Interrupts: stdout is the inherited, blocking descriptor, and closing
\* it does not end a write.
Interrupts_Blocking(side) == bridge[side] # "writing"

\* closeAll ends the reads and the writes of both relays, also a write to a
\* pipe that nobody reads: stdout is a nonblocking duplicate (pollableOutput).
Interrupts(side) == side \in {"input", "output"}

Copying(side) == bridge[side] \in {"copying", "writing"}

Interrupted(side) ==
    /\ bridge.closed /\ Copying(side)
    /\ Interrupts(side)
    /\ bridge' = [bridge EXCEPT ![side] = "error"]
    /\ UNCHANGED <<guardVars, relayed, open, served>>

BridgeReturns ==
    /\ bridge.closed /\ bridge.result = "none"
    /\ ~Copying("input") /\ ~Copying("output")
    /\ bridge' = [bridge EXCEPT !.result =
                    CASE bridge.cancelled -> "cancelled"
                      [] ~bridge.cancelled /\ bridge.first = "input" /\ bridge.input = "eof" -> "nil"
                      [] OTHER -> "errProtocol"]
    /\ UNCHANGED <<guardVars, relayed, open, served>>

----------------------------------------------------------------------------

Guard ==
    \/ ReadGarbage \/ ReadInitialized
    \/ \E i \in Ids : ReadCancelled(i)
    \/ \E i \in Ids, m \in Methods : ReadDuplicate(i, m) \/ ReadRefused(i, m) \/ ReadCall(i, m)

Answering ==
    \/ Reject \/ EmitRefusal
    \/ \E n \in Lines, ok \in BOOLEAN : FindPending(n, ok)
    \/ \E n \in Lines : Retire(n) \/ Emit(n)

Ending ==
    \/ Close \/ StopReading \/ ServeReturns

Relaying ==
    \/ RelayTakes \/ AgentReads
    \/ StdinEnds \/ StdoutFails \/ SocketEnds \/ SocketRefuses
    \/ \E side \in {"input", "output"} : Interrupted(side)
    \/ CancelBridge \/ BridgeReturns

Next == Guard \/ Answering \/ Ending \/ Relaying

\* Bytes written to the socket have where to go: the output relay reads it, or
\* it is closed and the write fails.  While the relay is stuck in stdout, a
\* write may end by the room that is left in the socket, or not at all.
Drains == bridge.output = "copying" \/ ~open

\* The program's own steps.  A handler ends: its work has deadlines or a
\* context that the end of the session cancels.  The lines are bounded, so
\* weak fairness is enough for a goroutine to get writeMu, and for a write to
\* end if the agent always reads again.  Nothing is assumed of the agent, which
\* may never read again, or of the service that closes sessions.
Fairness ==
    /\ WF_vars(Reject \/ StopReading \/ (Drains /\ EmitRefusal)) /\ WF_vars(ServeReturns)
    /\ \A n \in Lines :
         WF_vars((\E ok \in BOOLEAN : FindPending(n, ok)) \/ Retire(n) \/ (Drains /\ Emit(n)))
    /\ WF_vars(RelayTakes) /\ WF_vars(SocketEnds)
    /\ WF_vars(BridgeReturns \/ \E side \in {"input", "output"} : Interrupted(side))

Spec == Init /\ [][Next]_vars /\ Fairness

----------------------------------------------------------------------------
(* Properties *)

TypeOK ==
    /\ lines \in 0..MaxLines
    /\ reader \in [at : {"reading", "rejecting", "refusing", "stopped"}, id : Ids \cup {0}, method : Methods \cup {""}]
    /\ pending \in [Ids -> 0..MaxLines]
    /\ calls \in [Lines -> [id : Ids \cup {0}, method : Methods \cup {""},
                            state : {"none", "running", "found", "retired", "done"},
                            cancelled : BOOLEAN, ok : BOOLEAN]]
    /\ handshake \in [initializing : BOOLEAN, initSent : BOOLEAN, ready : BOOLEAN]
    /\ writeMu \in 0..MaxLines
    /\ wire \in Seq([line : Lines, id : Ids \cup {0}, method : Methods \cup {""}, ok : BOOLEAN])
    /\ relayed \in 0..Len(wire)
    /\ open \in BOOLEAN /\ served \in BOOLEAN
    /\ bridge \in [input : {"copying", "eof", "error"}, output : {"copying", "writing", "eof", "error"},
                   first : {"none", "input", "output"}, closed : BOOLEAN,
                   cancelled : BOOLEAN,
                   result : {"none", "nil", "cancelled", "errProtocol"}]

\* The answers to one identifier come in the order of its requests and one
\* per request, however the identifier is reused: neither a dropped
\* duplicate, nor a refusal, nor a request that takes an identifier between
\* the retirement and the answer of the one before it disturbs this
\* (guard.Read, guard.Write: "writes and request retirement share one
\* ordering").  Calls with an empty method are left out: Read refuses them
\* before it looks for a duplicate.  And the answers of work follow the one
\* successful answer to initialize, even when the agent announces that it is
\* initialized before that answer has been written; a failed initialize can
\* be tried again.
OneAnswerEachInOrder ==
    /\ \A j, k \in DOMAIN wire :
         (j < k /\ wire[j].id = wire[k].id /\ wire[j].id # 0
                /\ wire[j].method # "" /\ wire[k].method # "")
             => wire[j].line < wire[k].line
    /\ \A k \in DOMAIN wire :
         wire[k].ok /\ wire[k].method # "ping" =>
             LET inits == {j \in 1..k : wire[j].method = "initialize" /\ wire[j].ok}
             IN  Cardinality(inits) = 1

\* The guard's table is what the SDK is running: an identifier is taken
\* exactly while its request is unanswered, so a session never runs more than
\* maxConcurrentRequests requests, and none the guard has forgotten.
TableMatchesWork ==
    /\ \A n \in Lines :
         calls[n].state \in {"running", "found"} <=> (n \in {pending[i] : i \in Ids} \ {0})
    /\ \A i \in Ids : pending[i] # 0 => calls[pending[i]].id = i
    /\ Cardinality({n \in Lines : calls[n].state \in {"running", "found"}}) <= MaxConcurrentRequests

\* The agent reads its answers again whenever it has stopped.
AgentKeepsReading == []<>(bridge.output # "writing")

Answered(n) == \E k \in DOMAIN wire : wire[k].line = n

\* Every request the guard accepts is answered while the session is open, if
\* the agent keeps reading: it waits for the write mutex behind other answers,
\* refusals among them, and never for the agent's next line.  (The lines are
\* bounded and an answer stays: that there is always a later time without an
\* unanswered call is that each call is answered.)
EveryCallAnswered ==
    AgentKeepsReading =>
        []<>(~open \/ \A n \in Lines : calls[n].state # "none" => Answered(n))

\* The end of a session ends everything.  Serve returns once its socket is
\* closed, by whichever end, although answers are blocked in writes to an
\* agent that does not read.  The bridge returns once it has closed its streams,
\* for the end of stdin, a broken stdout or its context, although a relay
\* is blocked in a read of stdin or in a write to an unread stdout.  When the
\* service closes the socket, the bridge returns if the agent keeps reading:
\* the end of the socket does not reach a relay that is stuck in stdout.
\* (A closed socket, a closed bridge and both returns are for good.)
SessionEnds ==
    /\ []<>(open \/ served)
    /\ []<>(~bridge.closed \/ bridge.result # "none")
    /\ AgentKeepsReading => []<>(open \/ bridge.result # "none")
=============================================================================
