-------------------------- MODULE KeyringExchange --------------------------
(***************************************************************************)
(* One management request whose keyset operation asks the command line for *)
(* the password of the keyring (service/keyring.go), over the operations   *)
(* of SecretService: the request's own one, Edit, asks over the connection *)
(* of the request; the others ask at their own terminals.                  *)
(*                                                                         *)
(* The service side is the handler (the keyset operation, the checks that  *)
(* report a result each, the final reply) and a goroutine that reads       *)
(* answers; the client side is a goroutine that reads frames and the loop  *)
(* that acts on them.  The connection delivers in order what was written   *)
(* before an end closed it.                                                *)
(***************************************************************************)
EXTENDS SecretService, Sequences

CONSTANTS
  Edit,       \* the operation of this request
  Targets,    \* the checks of a test request; none for a mutation
  Rivals,     \* goals the other callers may have
  MaxEvents   \* bound: faults, and steps of the other programs of the session

ASSUME EditAssumption == Edit \in Callers

VARIABLES
  x,       \* the service side: [phase, result, next, pending, parked, ended,
           \*   reader, left]
  cl,      \* the client side: [pc, id, seen, ask, error, stopped, reported,
           \*   outcome, want]
  down,    \* frames on their way to the client
  up,      \* answers on their way to the service
  events   \* how many of those there were

exchange == <<x, cl, down, up>>
vars == <<store, bus, s, exchange, events>>

\* Challenges one exchange can make.
MaxChallenges == 8

None == "none"

ExchangeInit ==
  /\ Init
  /\ \E goals \in [Callers -> Goals], accts \in [Callers -> Accounts] :
       /\ goals[Edit] \in {"load", "create"}
       /\ \A c \in Callers \ {Edit} : goals[c] \in Rivals
       /\ s = [c \in Callers |-> Session(goals[c], accts[c])]
  /\ cl \in [pc : {"reading"}, id : {0}, seen : {{}}, ask : {NoOne},
             error : {None}, stopped : {FALSE}, reported : {{}},
             outcome : {None}, want : {{}, Targets}]
  /\ x = [phase |-> "keyring", result |-> None, next |-> 0, pending |-> 0,
          parked |-> NoOne, ended |-> FALSE, reader |-> TRUE,
          left |-> cl.want]
  /\ down = <<>> /\ up = <<>> /\ events = 0

Open == x.phase # "closed"
Connected == cl.pc # "closed"

Event == events < MaxEvents /\ events' = events + 1

-----------------------------------------------------------------------------
\* The service side.

\* The prompt of the operation: a fresh ID is pending and its challenge goes
\* out, unless the exchange is over or has asked too often.
MayAsk == Open /\ ~x.ended

SendsChallenge ==
  /\ At(Edit, "ask") /\ HasTerminal(Edit)
  /\ IF MayAsk /\ x.next < MaxChallenges /\ Connected
     THEN /\ x' = [x EXCEPT !.next = @ + 1, !.pending = x.next + 1]
          /\ down' = Append(down, [is |-> "challenge", id |-> x.next + 1,
                                   ask |-> s[Edit].ask,
                                   attempt |-> s[Edit].attempt])
          /\ Go(Edit, "waits") /\ UNCHANGED bus
     ELSE /\ Return(Edit, IF MayAsk /\ Connected THEN "unavailable"
                          ELSE "cancelled", NoOne)
          /\ x' = [x EXCEPT !.ended = @ \/ ~Connected]
          /\ UNCHANGED down
  /\ UNCHANGED <<store, cl, up, events>>

\* The reader accepts one answer to the pending challenge and then holds it
\* for the prompt; anything else ends the exchange.
Accepts(a) == x.pending # 0 /\ a.id = x.pending

ServerReads ==
  /\ x.reader /\ Open /\ x.parked = NoOne /\ up # <<>>
  /\ up' = Tail(up)
  /\ x' = IF Accepts(Head(up))
          THEN [x EXCEPT !.pending = 0, !.parked = Head(up).answer]
          ELSE [x EXCEPT !.pending = 0, !.ended = TRUE, !.reader = FALSE]
  /\ UNCHANGED <<store, bus, s, cl, down, events>>

\* At the end of the stream, or when the operation ends while an answer is
\* held, the reader returns; the former cancels the operation.
ReaderEnds ==
  /\ x.reader
  /\ \/ x.parked = NoOne /\ (~Open \/ (up = <<>> /\ ~Connected))
     \/ x.parked # NoOne /\ x.ended
  /\ x' = [x EXCEPT !.reader = FALSE, !.ended = TRUE, !.parked = NoOne]
  /\ UNCHANGED <<store, bus, s, cl, down, up, events>>

\* The rendezvous of the reader and the prompt.
TakesAnswer ==
  /\ At(Edit, "waits") /\ x.parked # NoOne
  /\ Resumes(Edit, x.parked)
  /\ x' = [x EXCEPT !.parked = NoOne]
  /\ UNCHANGED <<cl, down, up, events>>

\* Mutant of PromptEnds: a prompt nobody answered in time counts as an
\* attempt with a wrong password.
PromptEnds_AsksAgain(c) == AsksAgain(c)

\* PreparationTimeout, or the end of the operation, ends the prompt and with
\* it the keyset operation.
PromptEnds(c) == Return(c, "deadline", NoOne)

PromptExpires ==
  /\ At(Edit, "waits")
  /\ IF x.ended THEN UNCHANGED events ELSE Event
  /\ PromptEnds(Edit)
  /\ UNCHANGED <<store, exchange>>

\* The handler has what the operation returned; if the request has ended it
\* leaves the operation behind (providerCall).  A cancelled unlock ends a test,
\* any other one is reported by the checks.
KeyringReturns ==
  /\ x.phase = "keyring"
  /\ At(Edit, "ended") \/ x.ended
  /\ LET result == IF x.ended THEN "cancelled" ELSE s[Edit].result
     IN x' = [x EXCEPT !.phase = "checks", !.result = result,
                       !.left = IF result = "cancelled" THEN {} ELSE @]
  /\ UNCHANGED <<store, bus, s, cl, down, up, events>>

\* A check is done and its result written, in any order; one that cannot be
\* written cancels the operation.
Report(t) ==
  /\ x.phase = "checks" /\ t \in x.left /\ ~x.ended
  /\ IF Connected
     THEN /\ down' = Append(down, [is |-> "result", of |-> t])
          /\ x' = [x EXCEPT !.left = @ \ {t}]
     ELSE x' = [x EXCEPT !.ended = TRUE] /\ UNCHANGED down
  /\ UNCHANGED <<store, bus, s, cl, up, events>>

\* A cancelled batch reports nothing more.
BatchEnds ==
  /\ x.phase = "checks" /\ x.left # {} /\ x.ended
  /\ x' = [x EXCEPT !.left = {}, !.result = "cancelled"]
  /\ UNCHANGED <<store, bus, s, cl, down, up, events>>

\* Mutant of ChecksReturned: the reply does not wait for the checks.
ChecksReturned_NotAwaited == x.left \subseteq Targets

\* wg.Wait: every check has returned.
ChecksReturned == x.left = {}

\* The final reply; the operation is cancelled and the connection closed.
SendsReply ==
  /\ x.phase = "checks" /\ ChecksReturned
  /\ down' = IF ~Connected THEN <<>>
             ELSE Append(down, [is |-> "reply",
                                error |-> IF cl.want # {} /\ x.result # "cancelled"
                                          THEN "ok" ELSE x.result])
  /\ x' = [x EXCEPT !.phase = "closed", !.ended = TRUE]
  /\ up' = <<>>
  /\ UNCHANGED <<store, bus, s, cl, events>>

\* The service shuts down and the request's context ends.
ServiceStops ==
  /\ Open /\ ~x.ended /\ Event
  /\ x' = [x EXCEPT !.ended = TRUE]
  /\ UNCHANGED <<store, bus, s, cl, down, up>>

\* The service dies; what it wrote can still be read.
ServiceDies ==
  /\ Open /\ Event
  /\ x' = [x EXCEPT !.phase = "closed", !.ended = TRUE, !.reader = FALSE,
                    !.parked = NoOne]
  /\ up' = <<>>
  /\ IF Running(Edit) THEN Fails(Edit) ELSE UNCHANGED <<store, bus, s>>
  /\ UNCHANGED <<cl, down>>

-----------------------------------------------------------------------------
\* The client side.

\* The client returns; its connection closes and its reader ends.
ClientReturns(outcome) ==
  cl' = [cl EXCEPT !.pc = "closed", !.outcome = outcome, !.ask = NoOne,
                   !.id = 0, !.seen = {}, !.error = None, !.stopped = FALSE]

\* A reply ends the exchange; the error of a prompt goes before the reply's.
ReceivesReply(f) ==
  ClientReturns(IF cl.error # None THEN cl.error ELSE f.error)

\* A result must be asked for and not repeated.
ReceivesResult(f) ==
  IF f.of \in cl.want \ cl.reported
  THEN cl' = [cl EXCEPT !.reported = @ \cup {f.of}]
  ELSE ClientReturns("state")

ReceivesChallenge(f) ==
  IF f.id \in cl.seen \/ Cardinality(cl.seen) >= MaxChallenges
  THEN ClientReturns("state")
  ELSE cl' = [cl EXCEPT !.pc = "asking", !.id = f.id, !.seen = @ \cup {f.id},
                        !.ask = [kind |-> f.ask, attempt |-> f.attempt]]

ClientReads ==
  /\ cl.pc = "reading" /\ down # <<>>
  /\ LET f == Head(down)
     IN CASE f.is = "reply"     -> ReceivesReply(f)
          [] f.is = "result"    -> ReceivesResult(f)
          [] f.is = "challenge" -> ReceivesChallenge(f)
  /\ down' = IF Connected' THEN Tail(down) ELSE <<>>
  /\ UNCHANGED <<store, bus, s, x, up, events>>

\* All frames are read and no reply was among them.
ClientEnds ==
  /\ cl.pc = "reading" /\ down = <<>> /\ ~Open
  /\ ClientReturns("unavailable")
  /\ UNCHANGED <<store, bus, s, x, down, up, events>>

\* The reading goroutine sees the reply or the end of the stream, at most one
\* frame ahead of the loop, and takes the prompt away from the user.
PromptWithdrawn ==
  /\ cl.pc = "asking" /\ ~cl.stopped
  /\ \/ down = <<>> /\ ~Open
     \/ Len(down) = 1 /\ (Head(down).is = "reply" \/ ~Open)
  /\ cl' = [cl EXCEPT !.stopped = TRUE]
  /\ UNCHANGED <<store, bus, s, x, down, up, events>>

Typed == [kind : {cl.ask.kind}, attempt : {cl.ask.attempt}, right : BOOLEAN]

\* An empty password is an attempt of an unlock, and gives a creation up.
Given(a) == IF a = Empty /\ cl.ask.kind = "create" THEN Cancelled ELSE a

ErrorOf(a) ==
  IF cl.stopped \/ a \in Typed \/ Given(a) = Empty THEN None
  ELSE IF a = Empty THEN "password" ELSE "cancelled"

\* The user answers, or the prompt was withdrawn.  An answer that cannot be
\* written is dropped: the loop goes on to the final frames if it knows that
\* the exchange is over, and gives up if it does not.
ClientAnswers ==
  /\ cl.pc = "asking"
  /\ \E a \in IF cl.stopped THEN {Cancelled} ELSE Typed \cup {Empty, Cancelled} :
       IF Open
       THEN /\ up' = Append(up, [id |-> cl.id, answer |-> Given(a)])
            /\ cl' = [cl EXCEPT !.pc = "reading", !.ask = NoOne,
                                !.error = ErrorOf(a)]
       ELSE /\ \/ cl' = [cl EXCEPT !.pc = "reading", !.ask = NoOne,
                                   !.error = ErrorOf(a)]
               \/ ~cl.stopped /\ ClientReturns("unavailable")
            /\ UNCHANGED up
  /\ UNCHANGED <<store, bus, s, x, down, events>>

\* The user interrupts the command.
Interrupts ==
  /\ Connected /\ Event
  /\ ClientReturns("interrupted") /\ down' = <<>>
  /\ UNCHANGED <<store, bus, s, x, up>>

-----------------------------------------------------------------------------
\* An operation works while its context lives; the request's one also needs
\* the exchange.
Works(c) ==
  /\ c = Edit => ~x.ended
  /\ Operates(c)
  /\ UNCHANGED <<exchange, events>>

\* An operation whose request has ended can only give up.
GivesUp(c) ==
  /\ IF c = Edit /\ x.ended THEN UNCHANGED events ELSE Event
  /\ Fails(c) /\ UNCHANGED exchange

\* The other callers ask at their own terminal.
AnswersHere(c) ==
  /\ c # Edit /\ At(c, "ask") /\ HasTerminal(c)
  /\ \E a \in Answers(c) : Resumes(c, a)
  /\ UNCHANGED <<exchange, events>>

Environment ==
  /\ Event
  /\ ForeignDefault \/ UserLocks \/ ProviderRestarts
  /\ UNCHANGED exchange

Server ==
  \/ SendsChallenge \/ ServerReads \/ ReaderEnds \/ TakesAnswer
  \/ PromptExpires \/ KeyringReturns \/ BatchEnds \/ SendsReply \/ ServiceStops
  \/ ServiceDies
  \/ \E t \in Targets : Report(t)

Client ==
  \/ ClientReads \/ ClientEnds \/ PromptWithdrawn \/ ClientAnswers \/ Interrupts

Next ==
  \/ Server \/ Client \/ Environment
  \/ \E c \in Callers : Works(c) \/ GivesUp(c) \/ AnswersHere(c)

Spec == ExchangeInit /\ [][Next]_vars

-----------------------------------------------------------------------------
TypeOK ==
  /\ SecretTypeOK
  /\ x.phase \in {"keyring", "checks", "closed"} /\ x.next \in 0..MaxChallenges
  /\ x.left \subseteq Targets /\ cl.reported \subseteq Targets
  /\ events \in 0..MaxEvents

\* management.go:449 and keyring.go:134: a command that is told its test
\* succeeded has been given the result of every target, and one that is told
\* that its edit succeeded has a keyset behind it.
SuccessIsWhole ==
  cl.outcome = "ok" =>
    /\ cl.reported = cl.want
    /\ cl.want = {} => s[Edit].result = "ok" /\ s[Edit].item # NoOne
=============================================================================
