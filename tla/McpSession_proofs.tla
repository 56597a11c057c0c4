------------------------- MODULE McpSession_proofs -------------------------
(***************************************************************************)
(* What the guard of an MCP session guarantees for any number of requests, *)
(* identifiers and methods and any limit: its table is what the SDK runs,  *)
(* and the answers come in the order of the requests.                      *)
(*                                                                         *)
(* An entry leaves the table before its answer is written, so the table    *)
(* alone does not order the answers.  It is the write mutex that does: who *)
(* has left the table still has the mutex (Mutex), and whoever takes the   *)
(* identifier meanwhile bears a later line (Ordered).                      *)
(***************************************************************************)
EXTENDS McpSession, FiniteSetTheorems, SequenceTheorems, TLAPS

Live == {n \in Lines : calls[n].state \in {"running", "found"}}
Taken == {i \in Ids : pending[i] # 0}

\* An identifier is taken by the one live call that bears it; calls are made
\* in the order of their lines.
Table ==
  /\ \A i \in Taken : pending[i] \in Live /\ calls[pending[i]].id = i
  /\ \A n \in Live : calls[n].id \in Ids /\ pending[calls[n].id] = n
  /\ \A n \in Lines : n > lines => calls[n] = NoCall
Counted ==
  /\ IsFiniteSet(Taken) /\ IsFiniteSet(Live)
  /\ Cardinality(Taken) = Cardinality(Live) /\ Cardinality(Live) <= MaxConcurrentRequests

\* Who is about to answer has the write mutex.
Mutex == \A n \in Lines : calls[n].state \in {"found", "retired"} => writeMu = n

\* The line that is refused is the last one, has not been answered, and does
\* not bear the identifier of a live call; its answer too is written under the
\* write mutex.
Refusing == reader.at \in {"rejecting", "refusing"} =>
  /\ reader.at = "refusing" => writeMu = lines
  /\ lines \in Lines /\ calls[lines].state = "none"
  /\ \A k \in DOMAIN wire : wire[k].line < lines
  /\ reader.id # 0 /\ reader.method # "" => pending[reader.id] = 0

\* The answers to an identifier are ordered, and precede those to come.
Ordered ==
  /\ \A k \in DOMAIN wire : wire[k].line <= lines
  /\ \A j, k \in DOMAIN wire :
       j < k /\ wire[j].id = wire[k].id /\ wire[j].id # 0 /\ wire[j].method # "" /\ wire[k].method # ""
       => wire[j].line < wire[k].line
  /\ \A k \in DOMAIN wire, n \in Lines :
       Unfinished(n) /\ wire[k].id = calls[n].id /\ wire[k].method # "" => wire[k].line < n
  /\ \A m, n \in Lines :
       calls[m].state = "retired" /\ Unfinished(n) /\ m # n /\ calls[m].id = calls[n].id => m < n

\* Of the successful answers to initialize there is one, on the wire or about
\* to be, if and only if initSent; before it there is at most one attempt,
\* and no other call but ping.
Initialized == {k \in DOMAIN wire : wire[k].method = "initialize" /\ wire[k].ok}
Attempt(n) == calls[n].method = "initialize" /\ calls[n].state \in {"running", "found"}
Success(n) == calls[n].method = "initialize" /\ calls[n].state = "retired" /\ calls[n].ok

Greeted == open =>
  /\ \A n \in Lines : Attempt(n) => handshake.initializing /\ ~handshake.initSent
  /\ \A m, n \in Lines : Attempt(m) /\ Attempt(n) => m = n
  /\ \A n \in Lines : Success(n) => handshake.initSent /\ Initialized = {}
  /\ handshake.initSent => (\E n \in Lines : Success(n)) \/ Initialized # {}
  /\ ~handshake.initSent => Initialized = {}
  /\ handshake.ready => handshake.initSent
  /\ \A n \in Lines :
       Unfinished(n) /\ calls[n].method \notin {"initialize", "ping"} => handshake.initSent
  /\ \A j, k \in Initialized : j = k
  /\ \A k \in DOMAIN wire :
       wire[k].ok /\ wire[k].method # "ping" => \E j \in Initialized : j <= k

Closed == ~open => wire = <<>>

----------------------------------------------------------------------------
(* Types *)

Answers == [line : Lines, id : Ids \cup {0}, method : Methods \cup {""}, ok : BOOLEAN]

GuardOK ==
  /\ lines \in 0..MaxLines
  /\ reader \in [at : {"reading", "rejecting", "refusing", "stopped"}, id : Ids \cup {0}, method : Methods \cup {""}]
  /\ pending \in [Ids -> 0..MaxLines]
  /\ writeMu \in 0..MaxLines
CallsOK ==
  calls \in [Lines -> [id : Ids \cup {0}, method : Methods \cup {""},
                       state : {"none", "running", "found", "retired", "done"},
                       cancelled : BOOLEAN, ok : BOOLEAN]]
HandshakeOK == handshake \in [initializing : BOOLEAN, initSent : BOOLEAN, ready : BOOLEAN]
EndsOK ==
  /\ open \in BOOLEAN /\ served \in BOOLEAN
  /\ bridge \in [input : {"copying", "eof", "error"}, output : {"copying", "writing", "eof", "error"},
                 first : {"none", "input", "output"}, closed : BOOLEAN,
                 cancelled : BOOLEAN,
                 result : {"none", "nil", "cancelled", "errProtocol"}]

Typed == GuardOK /\ CallsOK /\ HandshakeOK /\ wire \in Seq(Answers) /\ EndsOK

\* The inductive invariant.
IInv ==
  Typed /\ Table /\ Counted /\ Mutex /\ Refusing /\ Ordered /\ Greeted /\ Closed

LEMMA Empty == <<>> \in Seq(Answers) /\ DOMAIN <<>> = {}
  BY EmptySeq

LEMMA InitInv == Init => IInv
<1> SUFFICES ASSUME Init PROVE IInv
  OBVIOUS
<1>1. Typed
  <2>1. GuardOK
    <3>1. 0 \in 0..MaxLines
      BY LimitsAssumption
    <3>2. pending \in [Ids -> 0..MaxLines]
      BY <3>1 DEF Init
    <3>3. reader.id \in Ids \cup {0} /\ reader.method \in Methods \cup {""}
      BY DEF Init
    <3> QED
      BY <3>1, <3>2, <3>3 DEF Init, GuardOK
  <2>2. CallsOK
    BY DEF Init, CallsOK, NoCall
  <2>3. HandshakeOK /\ EndsOK
    BY DEF Init, HandshakeOK, EndsOK, NoHandshake
  <2> QED
    BY <2>1, <2>2, <2>3, Empty DEF Init, Typed
<1>2. Live = {} /\ Taken = {}
  BY DEF Init, Live, Taken, NoCall
<1>3. Table
  BY <1>2 DEF Init, Table
<1>4. Counted
  BY <1>2, FS_EmptySet, LimitsAssumption DEF Counted
<1>5. DOMAIN wire = {} /\ \A n \in Lines : calls[n].state = "none"
  BY Empty DEF Init, NoCall
<1>6. Mutex /\ Refusing /\ Ordered
  BY <1>5 DEF Init, Mutex, Refusing, Ordered, Unfinished
<1>7. Greeted /\ Closed
  <2>1. Initialized = {}
    BY <1>5 DEF Initialized
  <2> QED
    BY <1>5, <2>1 DEF Init, Greeted, Closed, Attempt, Success, Unfinished, NoHandshake
<1> QED
  BY <1>1, <1>3, <1>4, <1>6, <1>7 DEF IInv

----------------------------------------------------------------------------
(* Steps that end something *)

LEMMA QuietKeeps ==
    ASSUME IInv, UNCHANGED guardVars, open' = open, EndsOK'
    PROVE  IInv'
<1>1. Typed'
  BY DEF IInv, Typed, GuardOK, CallsOK, HandshakeOK, guardVars
<1>2. Table' /\ Counted' /\ Mutex' /\ Refusing'
  BY DEF IInv, Table, Counted, Mutex, Refusing, Live, Taken, guardVars
<1>3. Ordered' /\ Closed'
  BY DEF IInv, Ordered, Closed, Unfinished, guardVars
<1>4. Greeted'
  <2>1. \A n \in Lines : /\ Attempt(n)' = Attempt(n) /\ Success(n)' = Success(n)
                        /\ Unfinished(n)' = Unfinished(n)
    BY DEF Attempt, Success, Unfinished, guardVars
  <2>2. Initialized' = Initialized
    BY DEF Initialized, guardVars
  <2> QED
    BY <2>1, <2>2 DEF IInv, Greeted, guardVars
<1> QED
  BY <1>1, <1>2, <1>3, <1>4 DEF IInv

\* The socket is gone: nothing is on the wire, and the handshake is over.
LEMMA ShutKeeps ==
    ASSUME IInv, Shut, UNCHANGED guardRest, EndsOK'
    PROVE  IInv'
<1>1. DOMAIN wire' = {} /\ wire' \in Seq(Answers)
  BY Empty DEF Shut
<1>2. Typed'
  <2>1. HandshakeOK'
    BY DEF Shut, NoHandshake, HandshakeOK
  <2> QED
    BY <1>1, <2>1 DEF IInv, Typed, GuardOK, CallsOK, guardRest
<1>3. Table' /\ Counted' /\ Mutex'
  BY DEF IInv, Table, Counted, Mutex, Live, Taken, guardRest
<1>4. Refusing'
  BY <1>1 DEF IInv, Refusing, guardRest
<1>5. Ordered'
  BY <1>1 DEF IInv, Ordered, Unfinished, guardRest
<1>6. Greeted' /\ Closed'
  BY DEF Greeted, Closed, Shut
<1> QED
  BY <1>2, <1>3, <1>4, <1>5, <1>6 DEF IInv

LEMMA StopReadingKeeps ==
    ASSUME IInv, StopReading
    PROVE  IInv'
<1>1. Typed' /\ reader'.at = "stopped"
  <2>1. reader' = [reader EXCEPT !.at = "stopped"]
        /\ UNCHANGED <<lines, pending, calls, handshake, writeMu, wire, relayed, open, served, bridge>>
    BY DEF StopReading
  <2>2. GuardOK' /\ reader'.at = "stopped"
    BY <2>1 DEF IInv, Typed, GuardOK
  <2>3. CallsOK'
    BY <2>1 DEF IInv, Typed, CallsOK
  <2>4. HandshakeOK'
    BY <2>1 DEF IInv, Typed, HandshakeOK
  <2>5. EndsOK'
    BY <2>1 DEF IInv, Typed, EndsOK
  <2> QED
    BY <2>1, <2>2, <2>3, <2>4, <2>5 DEF IInv, Typed
<1>2. Table' /\ Counted' /\ Mutex' /\ Refusing'
  BY <1>1 DEF IInv, Table, Counted, Mutex, Refusing, Live, Taken, StopReading
<1>3. Ordered' /\ Greeted' /\ Closed'
  BY DEF IInv, Ordered, Greeted, Closed, Attempt, Success, Initialized, Unfinished, StopReading
<1> QED
  BY <1>1, <1>2, <1>3 DEF IInv

\* The two relays, and the end of Serve.
LEMMA EndingKeeps ==
    ASSUME IInv, Relaying \/ Close \/ ServeReturns
    PROVE  IInv'
<1>0. EndsOK
  BY DEF IInv, Typed
<1>1. CASE Close
  <2>1. EndsOK'
    BY <1>0, <1>1 DEF EndsOK, Close, Shut
  <2> QED
    BY <1>1, <2>1, ShutKeeps DEF Close
<1>2. CASE ServeReturns
  <2>1. EndsOK'
    BY <1>0, <1>2 DEF EndsOK, ServeReturns
  <2> QED
    BY <1>2, <2>1, QuietKeeps DEF ServeReturns
<1>3. ASSUME NEW side \in {"input", "output"}, NEW how \in {"eof", "error"}, FirstEnds(side, how)
      PROVE  IInv'
  <2>1. EndsOK'
    <3>1. CASE side = "input"
      BY <1>0, <1>3, <3>1 DEF EndsOK, FirstEnds, Shut
    <3>2. CASE side = "output"
      BY <1>0, <1>3, <3>2 DEF EndsOK, FirstEnds, Shut
    <3> QED
      BY <3>1, <3>2
  <2> QED
    BY <1>3, <2>1, ShutKeeps DEF FirstEnds
<1>4. CASE CancelBridge
  <2>1. EndsOK'
    BY <1>0, <1>4 DEF EndsOK, CancelBridge, Shut
  <2> QED
    BY <1>4, <2>1, ShutKeeps DEF CancelBridge
<1>5. ASSUME NEW side \in {"input", "output"}, Interrupted(side)
      PROVE  IInv'
  <2>1. EndsOK'
    <3>1. CASE side = "input"
      BY <1>0, <1>5, <3>1 DEF EndsOK, Interrupted
    <3>2. CASE side = "output"
      BY <1>0, <1>5, <3>2 DEF EndsOK, Interrupted
    <3> QED
      BY <3>1, <3>2
  <2> QED
    BY <1>5, <2>1, QuietKeeps DEF Interrupted
<1>6. CASE BridgeReturns
  <2>1. EndsOK'
    BY <1>0, <1>6 DEF EndsOK, BridgeReturns
  <2> QED
    BY <1>6, <2>1, QuietKeeps DEF BridgeReturns
<1>7. CASE RelayTakes \/ AgentReads
  <2>1. EndsOK'
    BY <1>0, <1>7 DEF EndsOK, RelayTakes, AgentReads
  <2> QED
    BY <1>7, <2>1, QuietKeeps DEF RelayTakes, AgentReads
<1> QED
  BY <1>1, <1>2, <1>3, <1>4, <1>5, <1>6, <1>7 DEF Relaying, StdinEnds, StdoutFails, SocketEnds, SocketRefuses

----------------------------------------------------------------------------
(* Reading a line *)

\* What the leaves below need of the state.
LEMMA Bounds ==
    ASSUME IInv
    PROVE  /\ MaxLines \in Nat /\ Lines = 1..MaxLines /\ 0 \notin Ids
           /\ lines \in Nat /\ lines <= MaxLines
<1>1. MaxLines \in Nat /\ 0 \notin Ids
  BY LimitsAssumption
<1>2. lines \in 0..MaxLines
  BY DEF IInv, Typed, GuardOK
<1> QED
  BY <1>1, <1>2 DEF Lines

LEMMA OneMore ==
    ASSUME IInv, NEW n \in Lines
    PROVE  n > lines + 1 => n > lines
<1>1. n \in Nat /\ lines \in Nat
  BY Bounds
<1> QED
  BY <1>1

LEMMA OnWire ==
    ASSUME IInv
    PROVE  /\ DOMAIN wire = 1..Len(wire) /\ Len(wire) \in Nat
           /\ \A k \in DOMAIN wire : /\ wire[k] \in Answers /\ wire[k].line \in Lines
                                     /\ wire[k].line \in Nat
                                     /\ wire[k].line <= lines
                                     /\ wire[k].line < lines + 1 /\ wire[k].line <= lines + 1
<1>1. wire \in Seq(Answers)
  BY DEF IInv, Typed
<1>2. DOMAIN wire = 1..Len(wire) /\ Len(wire) \in Nat
  BY <1>1, LenProperties
<1>3. ASSUME NEW k \in DOMAIN wire
      PROVE  /\ wire[k] \in Answers /\ wire[k].line \in Lines /\ wire[k].line \in Nat
             /\ wire[k].line <= lines
             /\ wire[k].line < lines + 1 /\ wire[k].line <= lines + 1
  <2>1. wire[k] \in Answers
    BY <1>1, <1>2, <1>3, ElementOfSeq
  <2>2. wire[k].line \in Lines
    BY <2>1 DEF Answers
  <2>3. wire[k].line <= lines
    BY <1>3 DEF IInv, Ordered
  <2>4. lines \in Nat /\ Lines = 1..MaxLines /\ MaxLines \in Nat
    BY Bounds
  <2> HIDE <1>1, <1>2
  <2> QED
    BY <2>1, <2>2, <2>3, <2>4
<1> QED
  BY <1>2, <1>3

LEMMA Shapes ==
    ASSUME IInv
    PROVE  /\ DOMAIN calls = Lines /\ DOMAIN pending = Ids
           /\ \A n \in Lines : /\ DOMAIN calls[n] = DOMAIN NoCall
                               /\ calls[n].id \in Ids \cup {0}
                               /\ calls[n].ok \in BOOLEAN
                               /\ calls[n].state \in {"none", "running", "found", "retired", "done"}
           /\ \A n \in Lines : Unfinished(n) => n <= lines
<1>1. DOMAIN calls = Lines /\ DOMAIN pending = Ids
  BY DEF IInv, Typed, GuardOK, CallsOK
<1>2. \A n \in Lines : /\ DOMAIN calls[n] = DOMAIN NoCall
                       /\ calls[n].id \in Ids \cup {0}
                       /\ calls[n].ok \in BOOLEAN
                       /\ calls[n].state \in {"none", "running", "found", "retired", "done"}
  BY DEF IInv, Typed, CallsOK, NoCall
<1>3. ASSUME NEW n \in Lines, Unfinished(n) PROVE n <= lines
  <2>1. n \in Nat /\ lines \in Nat
    BY Bounds
  <2>2. ~(n > lines)
    <3>1. NoCall.state = "none" /\ calls[n].state # "none"
      BY <1>3 DEF Unfinished, NoCall
    <3>2. calls[n] # NoCall
      BY <3>1
    <3> QED
      BY <3>2 DEF IInv, Table
  <2> QED
    BY <2>1, <2>2
<1> QED
  BY <1>1, <1>2, <1>3

LEMMA LineTaken ==
    ASSUME IInv, TakesLine
    PROVE  /\ lines' = lines + 1 /\ lines + 1 \in Lines /\ calls[lines + 1] = NoCall
           /\ open /\ open' = open /\ reader.at = "reading"
           /\ writeMu' = writeMu /\ wire' = wire /\ EndsOK'
           /\ lines' \in 0..MaxLines
<1>1. /\ lines' = lines + 1 /\ open /\ open' = open /\ reader.at = "reading"
      /\ writeMu' = writeMu /\ wire' = wire /\ served' = served /\ bridge' = bridge
      /\ lines < MaxLines
  BY DEF TakesLine
<1>2. EndsOK'
  BY <1>1 DEF IInv, Typed, EndsOK
<1>3. lines + 1 \in Lines /\ lines' \in 0..MaxLines
  BY <1>1, Bounds
<1>4. calls[lines + 1] = NoCall
  BY <1>3, Bounds DEF IInv, Table
<1> QED
  BY <1>1, <1>2, <1>3, <1>4

\* A line that makes no call.
LEMMA LineKeeps ==
    ASSUME IInv, TakesLine, calls' = calls, pending' = pending, HandshakeOK', Greeted',
           \/ reader' = reader
           \/ \E i \in Ids \cup {0}, m \in Methods \cup {""} :
                Refuses(i, m) /\ (i # 0 /\ m # "" => pending[i] = 0)
    PROVE  IInv'
<1>1. /\ lines' = lines + 1 /\ lines + 1 \in Lines /\ calls[lines + 1] = NoCall
      /\ open /\ open' = open /\ reader.at = "reading"
      /\ writeMu' = writeMu /\ wire' = wire /\ EndsOK' /\ lines' \in 0..MaxLines
  BY LineTaken
<1>2. Typed'
  <2>1. reader' \in [at : {"reading", "rejecting", "refusing", "stopped"}, id : Ids \cup {0}, method : Methods \cup {""}]
    <3>1. reader \in [at : {"reading", "rejecting", "refusing", "stopped"}, id : Ids \cup {0}, method : Methods \cup {""}]
      BY DEF IInv, Typed, GuardOK
    <3>2. ASSUME NEW i \in Ids \cup {0}, NEW m \in Methods \cup {""}, Refuses(i, m)
          PROVE  reader' \in [at : {"reading", "rejecting", "refusing", "stopped"},
                              id : Ids \cup {0}, method : Methods \cup {""}]
      BY <3>2 DEF Refuses
    <3> QED
      BY <3>1, <3>2
  <2>2. GuardOK'
    BY <1>1, <2>1 DEF IInv, Typed, GuardOK
  <2>3. CallsOK' /\ wire' \in Seq(Answers)
    BY <1>1 DEF IInv, Typed, CallsOK
  <2> QED
    BY <1>1, <2>2, <2>3 DEF Typed
<1>3. Table' /\ Counted' /\ Mutex'
  <2>1. Live' = Live /\ Taken' = Taken
    BY DEF Live, Taken
  <2>2. \A n \in Lines : n > lines + 1 => n > lines
    BY OneMore
  <2>3. \A n \in Lines : n > lines' => calls'[n] = NoCall
    BY <1>1, <2>2 DEF IInv, Table
  <2>4. Table'
    BY <1>1, <2>1, <2>3 DEF IInv, Table
  <2> QED
    BY <1>1, <2>1, <2>4 DEF IInv, Counted, Mutex
<1>4. Refusing'
  <2> SUFFICES ASSUME reader'.at \in {"rejecting", "refusing"}
               PROVE  /\ reader'.at = "refusing" => writeMu' = lines'
                      /\ lines' \in Lines /\ calls'[lines'].state = "none"
                      /\ \A k \in DOMAIN wire' : wire'[k].line < lines'
                      /\ reader'.id # 0 /\ reader'.method # "" => pending'[reader'.id] = 0
    BY DEF Refusing
  <2>1. PICK i \in Ids \cup {0}, m \in Methods \cup {""} : Refuses(i, m) /\ (i # 0 /\ m # "" => pending[i] = 0)
    BY <1>1
  <2>2. reader'.id = i /\ reader'.method = m /\ reader'.at = "rejecting"
    BY <2>1 DEF Refuses
  <2>3. \A k \in DOMAIN wire : wire[k].line < lines + 1
    BY OnWire
  <2>4. \A k \in DOMAIN wire' : wire'[k].line < lines'
    BY <1>1, <2>3
  <2>5. lines' \in Lines /\ calls'[lines'].state = "none"
    <3>1. NoCall.state = "none"
      BY DEF NoCall
    <3>2. lines' \in Lines /\ calls'[lines'] = NoCall
      BY <1>1
    <3> QED
      BY <3>1, <3>2
  <2>6. reader'.id # 0 /\ reader'.method # "" => pending'[reader'.id] = 0
    BY <2>1, <2>2
  <2> QED
    BY <2>2, <2>4, <2>5, <2>6
<1>5. Ordered'
  <2>1. \A k \in DOMAIN wire : wire[k].line <= lines + 1
    BY OnWire
  <2> QED
    BY <1>1, <2>1 DEF IInv, Ordered, Unfinished
<1>6. Closed'
  BY <1>1 DEF Closed
<1> QED
  BY <1>2, <1>3, <1>4, <1>5, <1>6 DEF IInv

LEMMA PlainLineKeeps ==
    ASSUME IInv,
           \/ ReadGarbage \/ ReadInitialized
           \/ \E i \in Ids, m \in Methods : ReadDuplicate(i, m) \/ ReadRefused(i, m)
    PROVE  IInv'
<1>1. ASSUME handshake' = handshake, calls' = calls, TakesLine
      PROVE  HandshakeOK' /\ Greeted'
  <2>1. open' = open /\ wire' = wire
    BY <1>1, LineTaken
  <2> QED
    BY <1>1, <2>1 DEF IInv, Typed, HandshakeOK, Greeted, Attempt, Success, Initialized, Unfinished
<1>2. CASE ReadGarbage
  BY <1>1, <1>2, LineKeeps DEF ReadGarbage
<1>3. ASSUME NEW i \in Ids, NEW m \in Methods, ReadDuplicate(i, m) PROVE IInv'
  BY <1>1, <1>3, LineKeeps DEF ReadDuplicate
<1>4. ASSUME NEW i \in Ids, NEW m \in Methods, ReadRefused(i, m) PROVE IInv'
  BY <1>1, <1>4, LineKeeps DEF ReadRefused, Duplicate
<1>5. CASE ReadInitialized
  <2>1. /\ TakesLine /\ handshake.initSent /\ handshake' = [handshake EXCEPT !.ready = TRUE]
        /\ UNCHANGED <<reader, pending, calls>>
    BY <1>5 DEF ReadInitialized
  <2>2. HandshakeOK' /\ handshake'.initSent = handshake.initSent /\ handshake'.initializing = handshake.initializing
    BY <2>1 DEF IInv, Typed, HandshakeOK
  <2>3. open' = open /\ wire' = wire
    BY <2>1, LineTaken
  <2>4. Greeted'
    BY <2>1, <2>2, <2>3 DEF IInv, Greeted, Attempt, Success, Initialized, Unfinished
  <2> QED
    BY <2>1, <2>2, <2>4, LineKeeps
<1> QED
  BY <1>2, <1>3, <1>4, <1>5

\* The context of a live call ends.
LEMMA CancelledKeeps ==
    ASSUME IInv, NEW i \in Ids, ReadCancelled(i)
    PROVE  IInv'
<1>1. PICK c \in Lines : /\ c = pending[i] /\ calls[c].state \in {"running", "found"}
                         /\ calls' = [calls EXCEPT ![c].cancelled = TRUE]
                         /\ TakesLine /\ UNCHANGED <<reader, pending, handshake>>
  BY DEF ReadCancelled, IInv, Table, Taken, Live
<1>2. /\ lines' = lines + 1 /\ lines + 1 \in Lines /\ calls[lines + 1] = NoCall
      /\ open /\ open' = open /\ reader.at = "reading"
      /\ writeMu' = writeMu /\ wire' = wire /\ EndsOK' /\ lines' \in 0..MaxLines
  BY <1>1, LineTaken
<1>3. /\ \A n \in Lines \ {c} : calls'[n] = calls[n]
      /\ \A n \in Lines : /\ calls'[n].id = calls[n].id /\ calls'[n].method = calls[n].method
                          /\ calls'[n].state = calls[n].state /\ calls'[n].ok = calls[n].ok
  BY <1>1, Shapes DEF NoCall
<1>4. Typed'
  <2>1. GuardOK'
    BY <1>1, <1>2 DEF IInv, Typed, GuardOK
  <2>2. CallsOK'
    <3>1. calls \in [Lines -> [id : Ids \cup {0}, method : Methods \cup {""},
                              state : {"none", "running", "found", "retired", "done"},
                              cancelled : BOOLEAN, ok : BOOLEAN]]
      BY DEF IInv, Typed, CallsOK
    <3>2. [calls[c] EXCEPT !.cancelled = TRUE]
            \in [id : Ids \cup {0}, method : Methods \cup {""},
                 state : {"none", "running", "found", "retired", "done"},
                 cancelled : BOOLEAN, ok : BOOLEAN]
      BY <3>1
    <3>3. calls' = [calls EXCEPT ![c] = [calls[c] EXCEPT !.cancelled = TRUE]]
      BY <1>1
    <3> HIDE <1>1
    <3> QED
      BY <3>1, <3>2, <3>3 DEF CallsOK
  <2>3. HandshakeOK'
    BY <1>1 DEF IInv, Typed, HandshakeOK
  <2> QED
    BY <1>2, <2>1, <2>2, <2>3 DEF IInv, Typed
<1>5. Live' = Live /\ Taken' = Taken /\ c <= lines
  BY <1>1, <1>3, Shapes DEF Live, Taken, Unfinished
<1>6. Table'
  <2>1. \A n \in Lines : n > lines + 1 => calls'[n] = NoCall
    BY <1>3, <1>5, Bounds DEF IInv, Table
  <2> QED
    BY <1>1, <1>2, <1>3, <1>5, <2>1 DEF IInv, Table, Live
<1>7. Counted' /\ Mutex' /\ Refusing' /\ Closed'
  BY <1>1, <1>2, <1>3, <1>5 DEF IInv, Counted, Mutex, Refusing, Closed
<1>8. Ordered'
  <2>1. \A k \in DOMAIN wire : wire[k].line <= lines + 1
    BY OnWire
  <2>2. Ordered /\ \A n \in Lines : (Unfinished(n))' = Unfinished(n)
    BY <1>3 DEF IInv, Unfinished
  <2>3. \A k \in DOMAIN wire' : wire'[k].line <= lines'
    BY <1>2, <2>1
  <2>4. \A j, k \in DOMAIN wire' :
          j < k /\ wire'[j].id = wire'[k].id /\ wire'[j].id # 0
                /\ wire'[j].method # "" /\ wire'[k].method # ""
          => wire'[j].line < wire'[k].line
    BY <1>2, <2>2 DEF Ordered
  <2>5. \A k \in DOMAIN wire', n \in Lines :
          (Unfinished(n))' /\ wire'[k].id = calls'[n].id /\ wire'[k].method # "" => wire'[k].line < n
    <3>1. \A k \in DOMAIN wire, n \in Lines :
            Unfinished(n) /\ wire[k].id = calls[n].id /\ wire[k].method # "" => wire[k].line < n
      BY <2>2 DEF Ordered
    <3>2. wire' = wire /\ \A n \in Lines : (Unfinished(n))' = Unfinished(n) /\ calls'[n].id = calls[n].id
      BY <1>2, <1>3, <2>2
    <3> QED
      BY <3>1, <3>2
  <2>6. \A m, n \in Lines :
          calls'[m].state = "retired" /\ (Unfinished(n))' /\ m # n /\ calls'[m].id = calls'[n].id => m < n
    <3>1. \A m, n \in Lines :
            calls[m].state = "retired" /\ Unfinished(n) /\ m # n /\ calls[m].id = calls[n].id => m < n
      BY <2>2 DEF Ordered
    <3>2. \A n \in Lines : /\ (Unfinished(n))' = Unfinished(n)
                          /\ calls'[n].id = calls[n].id /\ calls'[n].state = calls[n].state
      BY <1>3, <2>2
    <3> QED
      BY <3>1, <3>2
  <2> QED
    BY <2>3, <2>4, <2>5, <2>6 DEF Ordered
<1>9. Greeted'
  BY <1>1, <1>2, <1>3 DEF IInv, Greeted, Attempt, Success, Initialized, Unfinished
<1> QED
  BY <1>4, <1>6, <1>7, <1>8, <1>9 DEF IInv

\* A new call: its identifier was free, its line is the last.
LEMMA Admitted ==
    ASSUME IInv, NEW i \in Ids, NEW m \in Methods, ReadCall(i, m)
    PROVE  \E n \in Lines :
             /\ n = lines + 1 /\ lines' = n /\ lines' \in 0..MaxLines /\ calls[n] = NoCall
             /\ i # 0 /\ pending[i] = 0 /\ pending'[i] = n
             /\ \A j \in Ids \ {i} : pending'[j] = pending[j]
             /\ \A c \in Lines \ {n} : calls'[c] = calls[c]
             /\ calls'[n].id = i /\ calls'[n].method = m /\ calls'[n].state = "running"
             /\ calls'[n].ok = FALSE
             /\ Cardinality(Taken) < MaxConcurrentRequests
             /\ open /\ open' = open /\ reader.at = "reading" /\ reader' = reader
             /\ writeMu' = writeMu /\ wire' = wire
             /\ GuardOK' /\ CallsOK' /\ EndsOK'
             /\ m = "initialize" => ~handshake.initSent /\ ~handshake.initializing
             /\ m \notin {"initialize", "ping"} => handshake.ready
             /\ m = "initialize" => handshake' = [handshake EXCEPT !.initializing = TRUE]
             /\ m # "initialize" => handshake' = handshake
<1>1. /\ ~Duplicate(i, m) /\ ~Refused(m, InFlight) /\ TakesLine /\ reader' = reader
      /\ pending' = [pending EXCEPT ![i] = lines + 1]
      /\ calls' = [calls EXCEPT ![lines + 1] = [id |-> i, method |-> m, state |-> "running",
                                               cancelled |-> FALSE, ok |-> FALSE]]
      /\ handshake' = IF m = "initialize"
                      THEN [handshake EXCEPT !.initializing = TRUE] ELSE handshake
  BY DEF ReadCall
<1>2. /\ lines' = lines + 1 /\ lines + 1 \in Lines /\ calls[lines + 1] = NoCall
      /\ open /\ open' = open /\ reader.at = "reading"
      /\ writeMu' = writeMu /\ wire' = wire /\ EndsOK' /\ lines' \in 0..MaxLines
  BY <1>1, LineTaken
<1>3. PICK n \in Lines : n = lines + 1
  BY <1>2
<1>4. /\ m # "" /\ pending[i] = 0
      /\ m = "initialize" => ~handshake.initSent /\ ~handshake.initializing
      /\ m \notin {"initialize", "ping"} => handshake.ready
  BY <1>1 DEF Refused, Duplicate
<1>5. Cardinality(Taken) < MaxConcurrentRequests
  <2>1. ~(Cardinality(Taken) >= MaxConcurrentRequests)
    BY <1>1 DEF Refused, InFlight, Taken
  <2>2. Cardinality(Taken) \in Nat /\ MaxConcurrentRequests \in Nat
    BY FS_CardinalityType, LimitsAssumption DEF IInv, Counted
  <2> QED
    BY <2>1, <2>2
<1>6. /\ pending'[i] = n /\ \A j \in Ids \ {i} : pending'[j] = pending[j]
      /\ \A c \in Lines \ {n} : calls'[c] = calls[c]
      /\ calls'[n] = [id |-> i, method |-> m, state |-> "running", cancelled |-> FALSE, ok |-> FALSE]
  BY <1>1, <1>3, Shapes
<1>7. calls'[n].id = i /\ calls'[n].method = m /\ calls'[n].state = "running" /\ calls'[n].ok = FALSE
  BY <1>6
<1>8. GuardOK'
  <2>1. GuardOK /\ n \in 0..MaxLines
    BY <1>2, <1>3 DEF IInv, Typed
  <2> QED
    BY <1>1, <1>2, <1>3, <2>1 DEF GuardOK
<1>9. CallsOK'
  <2>1. CallsOK
    BY DEF IInv, Typed
  <2> QED
    BY <1>1, <1>3, <2>1 DEF CallsOK
<1>10. i # 0
  BY Bounds
<1>11. /\ m = "initialize" => handshake' = [handshake EXCEPT !.initializing = TRUE]
       /\ m # "initialize" => handshake' = handshake
  BY <1>1
<1> HIDE <1>1
<1> QED
  BY <1>1, <1>2, <1>3, <1>4, <1>5, <1>6, <1>7, <1>8, <1>9, <1>10, <1>11

LEMMA ReadCallKeeps ==
    ASSUME IInv, NEW i \in Ids, NEW m \in Methods, ReadCall(i, m)
    PROVE  IInv'
<1>1. PICK n \in Lines :
        /\ n = lines + 1 /\ lines' = n /\ lines' \in 0..MaxLines /\ calls[n] = NoCall
        /\ i # 0 /\ pending[i] = 0 /\ pending'[i] = n
        /\ \A j \in Ids \ {i} : pending'[j] = pending[j]
        /\ \A c \in Lines \ {n} : calls'[c] = calls[c]
        /\ calls'[n].id = i /\ calls'[n].method = m /\ calls'[n].state = "running"
        /\ calls'[n].ok = FALSE
        /\ Cardinality(Taken) < MaxConcurrentRequests
        /\ open /\ open' = open /\ reader.at = "reading" /\ reader' = reader
        /\ writeMu' = writeMu /\ wire' = wire
        /\ GuardOK' /\ CallsOK' /\ EndsOK'
        /\ m = "initialize" => ~handshake.initSent /\ ~handshake.initializing
        /\ m \notin {"initialize", "ping"} => handshake.ready
        /\ m = "initialize" => handshake' = [handshake EXCEPT !.initializing = TRUE]
        /\ m # "initialize" => handshake' = handshake
  BY Admitted
<1>2. calls[n].state = "none" /\ ~Unfinished(n) /\ n \notin Live /\ i \notin Taken /\ n # 0
  <2>1. n # 0
    BY Bounds
  <2>2. NoCall.state = "none"
    BY DEF NoCall
  <2>3. calls[n].state = "none" /\ pending[i] = 0
    BY <1>1, <2>2
  <2> QED
    BY <2>1, <2>3 DEF Unfinished, Live, Taken
<1>3. \A c \in Lines \ {n} : (Unfinished(c))' = Unfinished(c) /\ (Attempt(c))' = Attempt(c)
                             /\ (Success(c))' = Success(c)
  BY <1>1 DEF Unfinished, Attempt, Success
<1>4. Live' = Live \cup {n} /\ Taken' = Taken \cup {i}
  <2>1. \A c \in Lines : c \in Live' <=> c \in Live \/ c = n
    BY <1>1 DEF Live
  <2>2. \A j \in Ids : j \in Taken' <=> j \in Taken \/ j = i
    BY <1>1, <1>2 DEF Taken
  <2>3. Live \subseteq Lines /\ Live' \subseteq Lines /\ Taken \subseteq Ids /\ Taken' \subseteq Ids
    BY DEF Live, Taken
  <2> QED
    BY <2>1, <2>2, <2>3
<1>5. HandshakeOK' /\ handshake'.initSent = handshake.initSent /\ handshake'.ready = handshake.ready
      /\ (m = "initialize" => handshake'.initializing)
      /\ (m # "initialize" => handshake'.initializing = handshake.initializing)
  BY <1>1 DEF IInv, Typed, HandshakeOK
<1>6. Typed'
  <2>1. (wire \in Seq(Answers))'
    BY <1>1 DEF IInv, Typed
  <2> QED
    BY <1>1, <1>5, <2>1 DEF Typed
<1>7. Table'
  <2>1. \A j \in Taken' : pending'[j] \in Live' /\ calls'[pending'[j]].id = j
    <3>1. ASSUME NEW j \in Taken PROVE pending'[j] \in Live' /\ calls'[pending'[j]].id = j
      <4>1. j # i /\ j \in Ids /\ pending[j] \in Live /\ calls[pending[j]].id = j
        BY <3>1, <1>2 DEF IInv, Table, Taken
      <4>2. pending[j] # n /\ pending[j] \in Lines /\ pending'[j] = pending[j]
        BY <4>1, <1>1, <1>2 DEF Live
      <4> QED
        BY <4>1, <4>2, <1>1, <1>4
    <3> QED
      BY <3>1, <1>1, <1>4
  <2>2. \A c \in Live' : calls'[c].id \in Ids /\ pending'[calls'[c].id] = c
    <3>1. ASSUME NEW c \in Live PROVE calls'[c].id \in Ids /\ pending'[calls'[c].id] = c
      <4>1. c # n /\ c \in Lines /\ calls[c].id \in Ids /\ pending[calls[c].id] = c
        BY <3>1, <1>2 DEF IInv, Table, Live
      <4>2. calls[c].id # i
        BY <4>1, <1>1, Bounds
      <4> QED
        BY <4>1, <4>2, <1>1
    <3> QED
      BY <3>1, <1>1, <1>4
  <2>3. \A c \in Lines : c > lines' => calls'[c] = NoCall
    <3>1. \A c \in Lines : c > lines + 1 => c > lines /\ c # n
      BY <1>1, Bounds
    <3> QED
      BY <3>1, <1>1 DEF IInv, Table
  <2> QED
    BY <2>1, <2>2, <2>3 DEF Table
<1>8. Counted'
  <2>1. /\ IsFiniteSet(Taken) /\ IsFiniteSet(Live) /\ Cardinality(Taken) = Cardinality(Live)
    BY DEF IInv, Counted
  <2>2. IsFiniteSet(Taken') /\ Cardinality(Taken') = Cardinality(Taken) + 1
    BY <2>1, <1>2, <1>4, FS_AddElement
  <2>3. IsFiniteSet(Live') /\ Cardinality(Live') = Cardinality(Live) + 1
    BY <2>1, <1>2, <1>4, FS_AddElement
  <2>4. Cardinality(Taken) \in Nat /\ MaxConcurrentRequests \in Nat
    BY <2>1, FS_CardinalityType, LimitsAssumption
  <2>5. Cardinality(Taken) + 1 <= MaxConcurrentRequests
    BY <2>4, <1>1
  <2> QED
    BY <2>1, <2>2, <2>3, <2>5 DEF Counted
<1>9. Mutex' /\ Refusing' /\ Closed'
  <2>1. \A c \in Lines : calls'[c].state \in {"found", "retired"} => calls[c].state \in {"found", "retired"}
    BY <1>1
  <2> QED
    BY <2>1, <1>1 DEF IInv, Mutex, Refusing, Closed
<1>10. Ordered'
  <2>1. /\ \A k \in DOMAIN wire' : wire'[k].line <= lines'
        /\ \A k \in DOMAIN wire : wire[k].line < n
    BY <1>1, OnWire
  <2>2. \A j, k \in DOMAIN wire' :
          j < k /\ wire'[j].id = wire'[k].id /\ wire'[j].id # 0
                /\ wire'[j].method # "" /\ wire'[k].method # ""
          => wire'[j].line < wire'[k].line
    BY <1>1 DEF IInv, Ordered
  <2>3. ASSUME NEW k \in DOMAIN wire', NEW c \in Lines, (Unfinished(c))',
               wire'[k].id = calls'[c].id, wire'[k].method # ""
        PROVE  wire'[k].line < c
    <3>1. CASE c = n
      BY <1>1, <2>1, <3>1
    <3>2. CASE c # n
      <4>1. Unfinished(c) /\ calls'[c] = calls[c] /\ wire' = wire
        BY <1>1, <1>3, <2>3, <3>2
      <4> QED
        BY <2>3, <4>1 DEF IInv, Ordered
    <3> QED
      BY <3>1, <3>2
  <2>4. ASSUME NEW b \in Lines, NEW c \in Lines, calls'[b].state = "retired", (Unfinished(c))',
               b # c, calls'[b].id = calls'[c].id
        PROVE  b < c
    <3>1. b # n /\ calls'[b] = calls[b] /\ Unfinished(b)
      BY <1>1, <2>4 DEF Unfinished
    <3>2. CASE c = n
      <4>1. b <= lines
        BY <3>1, Shapes
      <4> QED
        BY <4>1, <3>2, <1>1, Bounds
    <3>3. CASE c # n
      <4>1. Unfinished(c) /\ calls'[c] = calls[c]
        BY <1>1, <1>3, <2>4, <3>3
      <4> QED
        BY <2>4, <3>1, <4>1 DEF IInv, Ordered
    <3> QED
      BY <3>2, <3>3
  <2> QED
    BY <2>1, <2>2, <2>3, <2>4 DEF Ordered
<1>11. Greeted'
  <2>1. Greeted /\ open /\ open'
    BY <1>1 DEF IInv
  <2>2. Initialized' = Initialized
    BY <1>1 DEF Initialized
  <2>3. (Unfinished(n))' /\ ~(Success(n))' /\ ((Attempt(n))' <=> m = "initialize")
    BY <1>1 DEF Unfinished, Success, Attempt
  <2>4. ~Success(n) /\ ~Attempt(n)
    BY <1>2 DEF Success, Attempt
  <2>5. m = "initialize" => \A c \in Lines : ~Attempt(c)
    BY <1>1, <2>1 DEF Greeted
  <2>6. /\ \A c \in Lines : (Attempt(c))' => handshake'.initializing /\ ~handshake'.initSent
        /\ \A b, c \in Lines : (Attempt(b))' /\ (Attempt(c))' => b = c
    BY <1>1, <1>3, <1>5, <2>1, <2>3, <2>5 DEF Greeted
  <2>7. /\ \A c \in Lines : (Success(c))' => handshake'.initSent /\ Initialized' = {}
        /\ handshake'.initSent => (\E c \in Lines : (Success(c))') \/ Initialized' # {}
        /\ ~handshake'.initSent => Initialized' = {}
        /\ handshake'.ready => handshake'.initSent
    BY <1>3, <1>5, <2>1, <2>2, <2>3, <2>4 DEF Greeted
  <2>8. \A c \in Lines :
          (Unfinished(c))' /\ calls'[c].method \notin {"initialize", "ping"} => handshake'.initSent
    BY <1>1, <1>3, <1>5, <2>1 DEF Greeted
  <2>9. /\ \A j, k \in Initialized' : j = k
        /\ \A k \in DOMAIN wire' :
             wire'[k].ok /\ wire'[k].method # "ping" => \E j \in Initialized' : j <= k
    BY <1>1, <2>1, <2>2 DEF Greeted
  <2> QED
    BY <2>6, <2>7, <2>8, <2>9 DEF Greeted
<1> QED
  BY <1>6, <1>7, <1>8, <1>9, <1>10, <1>11 DEF IInv

LEMMA Appended ==
    ASSUME IInv, NEW a \in Answers, wire' = Append(wire, a)
    PROVE  \E last \in Nat :
             /\ last \notin DOMAIN wire /\ DOMAIN wire' = DOMAIN wire \cup {last}
             /\ \A k \in DOMAIN wire : k < last /\ k \in Nat /\ wire'[k] = wire[k]
             /\ wire'[last] = a /\ wire' \in Seq(Answers)
<1>1. wire \in Seq(Answers)
  BY DEF IInv, Typed
<1>2. /\ wire' \in Seq(Answers) /\ Len(wire') = Len(wire) + 1
      /\ \A k \in 1..Len(wire) : wire'[k] = wire[k]
      /\ wire'[Len(wire) + 1] = a
  BY <1>1, AppendProperties
<1>3. /\ DOMAIN wire = 1..Len(wire) /\ Len(wire) \in Nat /\ DOMAIN wire' = 1..Len(wire')
  BY <1>1, <1>2, LenProperties
<1>4. /\ Len(wire) + 1 \in Nat /\ Len(wire) + 1 \notin DOMAIN wire
      /\ DOMAIN wire' = DOMAIN wire \cup {Len(wire) + 1}
      /\ \A k \in DOMAIN wire : k < Len(wire) + 1 /\ k \in Nat
  BY <1>2, <1>3
<1> QED
  BY <1>2, <1>3, <1>4

----------------------------------------------------------------------------
(* Answering *)

\* The reader gets the write mutex, which no call has then.
LEMMA RejectKeeps ==
    ASSUME IInv, Reject
    PROVE  IInv'
<1>1. /\ reader.at = "rejecting" /\ writeMu = 0 /\ writeMu' = lines
      /\ reader' = [reader EXCEPT !.at = "refusing"]
      /\ UNCHANGED <<lines, pending, calls, handshake, wire, open, served, bridge>>
  BY DEF Reject
<1>2. Typed'
  <2>1. GuardOK' /\ CallsOK'
    BY <1>1 DEF IInv, Typed, GuardOK, CallsOK
  <2>2. HandshakeOK' /\ EndsOK' /\ (wire \in Seq(Answers))'
    BY <1>1 DEF IInv, Typed, HandshakeOK, EndsOK
  <2> QED
    BY <2>1, <2>2 DEF Typed
<1>3. Refusing'
  <2>1. /\ lines \in Lines /\ calls[lines].state = "none"
        /\ \A k \in DOMAIN wire : wire[k].line < lines
        /\ reader.id # 0 /\ reader.method # "" => pending[reader.id] = 0
    BY <1>1 DEF IInv, Refusing
  <2>2. reader'.id = reader.id /\ reader'.method = reader.method
    BY <1>1 DEF IInv, Typed, GuardOK
  <2> QED
    BY <1>1, <2>1, <2>2 DEF Refusing
<1>4. Mutex'
  <2>1. \A n \in Lines : n # 0
    BY Bounds
  <2> QED
    BY <1>1, <2>1 DEF IInv, Mutex
<1>5. Table' /\ Counted'
  BY <1>1 DEF IInv, Table, Counted, Live, Taken
<1>6. Ordered' /\ Greeted' /\ Closed'
  <2>1. Ordered' /\ Closed'
    BY <1>1 DEF IInv, Ordered, Closed, Unfinished
  <2>2. \A n \in Lines : /\ Attempt(n)' = Attempt(n) /\ Success(n)' = Success(n)
                        /\ Unfinished(n)' = Unfinished(n)
    BY <1>1 DEF Attempt, Success, Unfinished
  <2>3. Initialized' = Initialized
    BY <1>1 DEF Initialized
  <2>4. Greeted'
    BY <1>1, <2>2, <2>3 DEF IInv, Greeted
  <2> QED
    BY <2>1, <2>4
<1> QED
  BY <1>2, <1>3, <1>4, <1>5, <1>6 DEF IInv

\* The refusal of the line just read: nothing else has the write mutex.
LEMMA EmitRefusalKeeps ==
    ASSUME IInv, EmitRefusal
    PROVE  IInv'
<1>1. /\ reader.at = "refusing" /\ writeMu' = 0
      /\ \/ /\ open
            /\ wire' = Append(wire, [line |-> lines, id |-> reader.id, method |-> reader.method, ok |-> FALSE])
            /\ reader' = [at |-> "reading", id |-> 0, method |-> ""]
         \/ /\ ~open /\ wire' = wire
            /\ reader' = [at |-> "stopped", id |-> 0, method |-> ""]
      /\ UNCHANGED <<lines, pending, calls, handshake, open, served, bridge>>
  BY DEF EmitRefusal, Answer
<1>2. GuardOK' /\ reader'.at \notin {"rejecting", "refusing"}
  <2>1. GuardOK
    BY DEF IInv, Typed
  <2>2. reader' \in [at : {"reading", "rejecting", "refusing", "stopped"}, id : Ids \cup {0}, method : Methods \cup {""}]
        /\ reader'.at \notin {"rejecting", "refusing"}
    <3>1. CASE reader' = [at |-> "reading", id |-> 0, method |-> ""]
      BY <3>1
    <3>2. CASE reader' = [at |-> "stopped", id |-> 0, method |-> ""]
      BY <3>2
    <3>3. \/ reader' = [at |-> "reading", id |-> 0, method |-> ""]
          \/ reader' = [at |-> "stopped", id |-> 0, method |-> ""]
      BY <1>1
    <3> HIDE <1>1
    <3> QED
      BY <3>1, <3>2, <3>3
  <2>3. 0 \in 0..MaxLines
    BY Bounds
  <2> QED
    BY <1>1, <2>1, <2>2, <2>3 DEF GuardOK
<1>3. CallsOK' /\ HandshakeOK' /\ EndsOK'
  <2>1. CallsOK /\ HandshakeOK /\ EndsOK
    BY DEF IInv, Typed
  <2>2. UNCHANGED <<calls, handshake, open, served, bridge>>
    BY <1>1
  <2>3. CallsOK'
    BY <2>1, <2>2 DEF CallsOK
  <2>4. HandshakeOK'
    BY <2>1, <2>2 DEF HandshakeOK
  <2>5. EndsOK'
    BY <2>1, <2>2 DEF EndsOK
  <2> QED
    BY <2>3, <2>4, <2>5
<1>0. \A n \in Lines : calls[n].state \notin {"found", "retired"}
  <2>1. writeMu = lines /\ calls[lines].state = "none"
    BY <1>1 DEF IInv, Refusing
  <2> QED
    BY <2>1 DEF IInv, Mutex
<1>4. Table' /\ Counted' /\ Mutex' /\ Refusing'
  <2>1. Table' /\ Counted'
    BY <1>1 DEF IInv, Table, Counted, Live, Taken
  <2> QED
    BY <1>0, <1>1, <1>2, <2>1 DEF Mutex, Refusing
<1>5. CASE ~open
  <2>1. wire' = wire
    BY <1>1, <1>5
  <2>2. Typed'
    BY <1>2, <1>3, <2>1 DEF IInv, Typed
  <2>3. Ordered' /\ Greeted' /\ Closed'
    BY <1>1, <1>5, <2>1 DEF IInv, Ordered, Greeted, Closed, Unfinished
  <2> QED
    BY <1>4, <2>2, <2>3 DEF IInv
<1>6. CASE open
  <2>1. PICK a \in Answers : /\ a = [line |-> lines, id |-> reader.id,
                                     method |-> reader.method, ok |-> FALSE]
                             /\ a.line = lines /\ a.id = reader.id /\ a.method = reader.method
                             /\ a.ok = FALSE
    <3>1. lines \in Lines /\ reader.id \in Ids \cup {0} /\ reader.method \in Methods \cup {""}
      <4>1. GuardOK /\ lines \in Lines
        BY <1>1 DEF IInv, Typed, Refusing
      <4> QED
        BY <4>1 DEF GuardOK
    <3> DEFINE new == [line |-> lines, id |-> reader.id, method |-> reader.method, ok |-> FALSE]
    <3>2. new \in Answers
      BY <3>1 DEF Answers
    <3>3. new.line = lines /\ new.id = reader.id /\ new.method = reader.method /\ new.ok = FALSE
      OBVIOUS
    <3> WITNESS new \in Answers
    <3> QED
      BY <3>3
  <2>2. wire' = Append(wire, a) /\ open'
    BY <1>1, <1>6, <2>1
  <2>3. PICK last \in Nat : /\ last \notin DOMAIN wire /\ DOMAIN wire' = DOMAIN wire \cup {last}
                            /\ \A k \in DOMAIN wire : k < last /\ k \in Nat /\ wire'[k] = wire[k]
                            /\ wire'[last] = a /\ wire' \in Seq(Answers)
    BY <2>2, Appended
  <2>4. Typed'
    BY <1>2, <1>3, <2>3 DEF Typed
  <2>5. Ordered'
    <3>1. \A n \in Lines : (Unfinished(n))' = Unfinished(n)
      BY <1>1 DEF Unfinished
    <3>2. \A k \in DOMAIN wire : wire[k].line < lines
      BY <1>1 DEF IInv, Refusing
    <3>3. \A k \in DOMAIN wire' : wire'[k].line <= lines'
      <4>1. \A k \in DOMAIN wire : wire[k].line <= lines
        BY DEF IInv, Ordered
      <4>2. a.line <= lines /\ lines' = lines
        <5>1. lines \in Nat /\ lines' = lines /\ a.line = lines
          BY <1>1, <2>1, Bounds
        <5> HIDE <1>1, <2>1
        <5> QED
          BY <5>1
      <4> QED
        BY <2>3, <4>1, <4>2
    <3>4. ASSUME NEW j \in DOMAIN wire', NEW k \in DOMAIN wire', j < k,
                 wire'[j].id = wire'[k].id, wire'[j].id # 0,
                 wire'[j].method # "", wire'[k].method # ""
          PROVE  wire'[j].line < wire'[k].line
      <4>1. j # last
        <5>1. k \in DOMAIN wire => k < last /\ k \in Nat
          BY <2>3
        <5>2. k \in DOMAIN wire \/ k = last
          BY <2>3
        <5>3. j < k
          BY <3>4
        <5> HIDE <2>3, <3>4
        <5>4. CASE k = last
          BY <5>3, <5>4
        <5> QED
          BY <5>1, <5>2, <5>3, <5>4
      <4>2. j \in DOMAIN wire /\ wire'[j] = wire[j]
        BY <4>1, <2>3
      <4>3. CASE k = last
        BY <4>2, <4>3, <2>1, <2>3, <3>2
      <4>4. CASE k # last
        <5>1. k \in DOMAIN wire /\ wire'[k] = wire[k]
          BY <4>4, <2>3
        <5> QED
          BY <3>4, <4>2, <5>1 DEF IInv, Ordered
      <4> QED
        BY <4>3, <4>4
    <3>5. ASSUME NEW k \in DOMAIN wire', NEW n \in Lines, (Unfinished(n))',
                 wire'[k].id = calls'[n].id, wire'[k].method # ""
          PROVE  wire'[k].line < n
      <4>1. Unfinished(n) /\ calls'[n] = calls[n]
        BY <1>1, <3>1, <3>5
      <4>2. CASE k = last
        <5>1. /\ reader.id = calls[n].id /\ reader.method # ""
          BY <2>1, <2>3, <3>5, <4>1, <4>2
        <5>2. calls[n].state \in {"running", "found"}
          BY <1>0, <4>1 DEF Unfinished
        <5>3. calls[n].id \in Ids /\ pending[calls[n].id] = n /\ n # 0 /\ 0 \notin Ids
          BY <5>2, Bounds DEF IInv, Table, Live
        <5> QED
          BY <1>1, <5>1, <5>3 DEF IInv, Refusing
      <4>3. CASE k # last
        <5>1. k \in DOMAIN wire /\ wire'[k] = wire[k]
          BY <4>3, <2>3
        <5> QED
          BY <3>5, <4>1, <5>1 DEF IInv, Ordered
      <4> QED
        BY <4>2, <4>3
    <3>6. \A m, n \in Lines :
            calls'[m].state = "retired" /\ (Unfinished(n))' /\ m # n /\ calls'[m].id = calls'[n].id => m < n
      BY <1>1, <3>1 DEF IInv, Ordered
    <3> QED
      BY <3>3, <3>4, <3>5, <3>6 DEF Ordered
  <2>6. Greeted'
    <3>1. Initialized' = Initialized
      BY <2>1, <2>3 DEF Initialized
    <3>2. \A k \in DOMAIN wire' : wire'[k].ok => k \in DOMAIN wire /\ wire'[k] = wire[k]
      BY <2>1, <2>3
    <3>3. \A n \in Lines : /\ (Unfinished(n))' = Unfinished(n) /\ (Attempt(n))' = Attempt(n)
                           /\ (Success(n))' = Success(n) /\ calls'[n] = calls[n]
      BY <1>1 DEF Unfinished, Attempt, Success
    <3>4. Greeted /\ open /\ handshake' = handshake
      BY <1>1, <1>6 DEF IInv
    <3> HIDE <1>1, <2>1, <2>3
    <3> QED
      BY <3>1, <3>2, <3>3, <3>4 DEF Greeted
  <2>7. Closed'
    BY <2>2 DEF Closed
  <2> QED
    BY <1>4, <2>4, <2>5, <2>6, <2>7 DEF IInv
<1> QED
  BY <1>5, <1>6

\* A running call is in the table, so it always takes the mutex.
LEMMA FindPendingKeeps ==
    ASSUME IInv, NEW n \in Lines, NEW ok \in BOOLEAN, FindPending(n, ok)
    PROVE  IInv'
<1>1. calls[n].state = "running" /\ n \in Live /\ Unfinished(n) /\ n # 0 /\ n <= lines
  <2>1. calls[n].state = "running"
    BY DEF FindPending
  <2>2. n # 0
    BY Bounds
  <2>3. n \in Live /\ Unfinished(n)
    BY <2>1 DEF Live, Unfinished
  <2> QED
    BY <2>1, <2>2, <2>3, Shapes
<1>2. pending[calls[n].id] # 0
  BY <1>1 DEF IInv, Table
<1>3. /\ writeMu = 0 /\ writeMu' = n
      /\ calls' = [calls EXCEPT ![n].state = "found", ![n].ok = ok]
      /\ UNCHANGED <<lines, reader, pending, handshake, wire, relayed, open, served, bridge>>
  BY <1>2 DEF FindPending, TakesWriteMu
<1>4. /\ \A c \in Lines \ {n} : calls'[c] = calls[c]
      /\ calls'[n].state = "found" /\ calls'[n].id = calls[n].id
      /\ calls'[n].method = calls[n].method
  <2>1. "state" \in DOMAIN calls[n] /\ "ok" \in DOMAIN calls[n]
    BY Shapes DEF NoCall
  <2> QED
    BY <1>3, <2>1, Shapes
<1>5. CallsOK'
  <2>1. calls \in [Lines -> [id : Ids \cup {0}, method : Methods \cup {""},
                             state : {"none", "running", "found", "retired", "done"},
                             cancelled : BOOLEAN, ok : BOOLEAN]]
    BY DEF IInv, Typed, CallsOK
  <2>2. [calls[n] EXCEPT !.state = "found", !.ok = ok]
          \in [id : Ids \cup {0}, method : Methods \cup {""},
               state : {"none", "running", "found", "retired", "done"},
               cancelled : BOOLEAN, ok : BOOLEAN]
    BY <2>1
  <2>3. calls' = [calls EXCEPT ![n] = [calls[n] EXCEPT !.state = "found", !.ok = ok]]
    BY <1>3
  <2> HIDE <1>3
  <2> QED
    BY <2>1, <2>2, <2>3 DEF CallsOK
<1>6. Typed'
  <2>1. GuardOK'
    <3>1. GuardOK /\ n \in 0..MaxLines
      BY Bounds DEF IInv, Typed
    <3> QED
      BY <1>3, <3>1 DEF GuardOK
  <2>2. HandshakeOK' /\ (wire \in Seq(Answers))'
    BY <1>3 DEF IInv, Typed, HandshakeOK
  <2>3. EndsOK'
    BY <1>3 DEF IInv, Typed, EndsOK
  <2> QED
    BY <1>5, <2>1, <2>2, <2>3 DEF Typed
<1>7. Live' = Live /\ Taken' = Taken
  BY <1>1, <1>3, <1>4 DEF Live, Taken
<1>8. Table'
  <2>1. \A c \in Lines : c > lines => calls'[c] = NoCall
    <3>1. \A c \in Lines : c > lines => c # n
      BY <1>1, Bounds
    <3> QED
      BY <1>4, <3>1 DEF IInv, Table
  <2>2. \A c \in Lines : calls'[c].id = calls[c].id
    BY <1>4
  <2>3. \A j \in Taken : pending[j] \in Live /\ pending[j] \in Lines /\ calls[pending[j]].id = j
    BY DEF IInv, Table, Live
  <2>4. \A c \in Live : c \in Lines /\ calls[c].id \in Ids /\ pending[calls[c].id] = c
    BY DEF IInv, Table, Live
  <2>5. lines' = lines /\ pending' = pending
    BY <1>3
  <2>6. \A j \in Taken' : pending'[j] \in Live' /\ calls'[pending'[j]].id = j
    BY <1>7, <2>2, <2>3, <2>5
  <2>7. \A c \in Live' : calls'[c].id \in Ids /\ pending'[calls'[c].id] = c
    BY <1>7, <2>2, <2>4, <2>5
  <2> QED
    BY <2>1, <2>5, <2>6, <2>7 DEF Table
<1>9. \A c \in Lines : c # n => calls[c].state \notin {"found", "retired"}
  <2>1. \A c \in Lines : c # 0
    BY Bounds
  <2> QED
    BY <1>3, <2>1 DEF IInv, Mutex
<1>10. Counted' /\ Mutex' /\ Refusing' /\ Closed'
  <2>1. reader.at # "refusing"
    <3>1. 0 \notin Lines
      BY Bounds
    <3> QED
      BY <1>3, <3>1 DEF IInv, Refusing
  <2>2. \A c \in Lines : calls[c].state = "none" => calls'[c].state = "none"
    BY <1>1, <1>4
  <2>3. Refusing'
    BY <1>3, <2>1, <2>2 DEF IInv, Refusing
  <2> QED
    BY <1>1, <1>3, <1>4, <1>7, <1>9, <2>3 DEF IInv, Counted, Mutex, Closed
<1>11. \A c \in Lines : /\ (Unfinished(c))' = Unfinished(c) /\ (Attempt(c))' = Attempt(c)
                        /\ (Success(c))' = Success(c)
                        /\ calls'[c].id = calls[c].id /\ calls'[c].method = calls[c].method
                        /\ (calls'[c].state = "retired" <=> calls[c].state = "retired")
  BY <1>1, <1>4 DEF Unfinished, Attempt, Success
<1>12. Ordered'
  <2>1. Ordered /\ wire' = wire /\ lines' = lines
    BY <1>3 DEF IInv
  <2>2. \A k \in DOMAIN wire, c \in Lines :
          (Unfinished(c))' /\ wire[k].id = calls'[c].id /\ wire[k].method # "" => wire[k].line < c
    BY <1>11, <2>1 DEF Ordered
  <2>3. \A b, c \in Lines :
          calls'[b].state = "retired" /\ (Unfinished(c))' /\ b # c /\ calls'[b].id = calls'[c].id => b < c
    <3>1. \A b, c \in Lines :
            calls[b].state = "retired" /\ Unfinished(c) /\ b # c /\ calls[b].id = calls[c].id => b < c
      BY <2>1 DEF Ordered
    <3>2. \A c \in Lines : /\ (Unfinished(c))' = Unfinished(c) /\ calls'[c].id = calls[c].id
                           /\ (calls'[c].state = "retired" <=> calls[c].state = "retired")
      BY <1>11
    <3> QED
      BY <3>1, <3>2
  <2> QED
    BY <2>1, <2>2, <2>3 DEF Ordered
<1>13. Greeted'
  <2>1. Greeted /\ handshake' = handshake /\ wire' = wire /\ open' = open
    BY <1>3 DEF IInv
  <2>2. Initialized' = Initialized
    BY <2>1 DEF Initialized
  <2> QED
    BY <1>11, <2>1, <2>2 DEF Greeted
<1> QED
  BY <1>6, <1>8, <1>10, <1>12, <1>13 DEF IInv

\* The entry of the call goes while the call still has the mutex.
LEMMA RetireKeeps ==
    ASSUME IInv, NEW n \in Lines, Retire(n)
    PROVE  IInv'
<1>1. /\ calls[n].state = "found"
      /\ pending' = [pending EXCEPT ![calls[n].id] = 0]
      /\ handshake' = IF open /\ calls[n].method = "initialize"
                      THEN Concluded(handshake, calls[n].ok) ELSE handshake
      /\ calls' = [calls EXCEPT ![n].state = "retired"]
      /\ UNCHANGED <<lines, reader, writeMu, wire, relayed, open, served, bridge>>
  BY DEF Retire
<1>2. n \in Live /\ Unfinished(n) /\ n # 0 /\ n <= lines
  <2>1. n # 0
    BY Bounds
  <2>2. n \in Live /\ Unfinished(n)
    BY <1>1 DEF Live, Unfinished
  <2> QED
    BY <2>1, <2>2, Shapes
<1>3. PICK i \in Ids : i = calls[n].id /\ pending[i] = n
  BY <1>2 DEF IInv, Table
<1>4. /\ \A c \in Lines \ {n} : calls'[c] = calls[c]
      /\ calls'[n].state = "retired" /\ calls'[n].id = calls[n].id
      /\ calls'[n].method = calls[n].method /\ calls'[n].ok = calls[n].ok
      /\ pending'[i] = 0 /\ \A j \in Ids \ {i} : pending'[j] = pending[j]
  <2>1. "state" \in DOMAIN calls[n]
    BY Shapes DEF NoCall
  <2> QED
    BY <1>1, <1>3, <2>1, Shapes
<1>5. CallsOK'
  <2>1. calls \in [Lines -> [id : Ids \cup {0}, method : Methods \cup {""},
                             state : {"none", "running", "found", "retired", "done"},
                             cancelled : BOOLEAN, ok : BOOLEAN]]
    BY DEF IInv, Typed, CallsOK
  <2>2. [calls[n] EXCEPT !.state = "retired"]
          \in [id : Ids \cup {0}, method : Methods \cup {""},
               state : {"none", "running", "found", "retired", "done"},
               cancelled : BOOLEAN, ok : BOOLEAN]
    BY <2>1
  <2>3. calls' = [calls EXCEPT ![n] = [calls[n] EXCEPT !.state = "retired"]]
    BY <1>1
  <2> HIDE <1>1
  <2> QED
    BY <2>1, <2>2, <2>3 DEF CallsOK
<1>6. Typed'
  <2>1. GuardOK'
    <3>1. GuardOK /\ 0 \in 0..MaxLines
      BY Bounds DEF IInv, Typed
    <3>2. pending' \in [Ids -> 0..MaxLines]
      BY <1>1, <3>1 DEF GuardOK
    <3> QED
      BY <1>1, <3>1, <3>2 DEF GuardOK
  <2>2. HandshakeOK'
    <3>1. HandshakeOK /\ calls[n].ok \in BOOLEAN
      BY Shapes DEF IInv, Typed
    <3> QED
      BY <1>1, <3>1 DEF HandshakeOK, Concluded
  <2>3. EndsOK' /\ (wire \in Seq(Answers))'
    BY <1>1 DEF IInv, Typed, EndsOK
  <2> QED
    BY <1>5, <2>1, <2>2, <2>3 DEF Typed
<1>7. Live' = Live \ {n} /\ Taken' = Taken \ {i} /\ i \in Taken
  <2>1. \A c \in Lines : c \in Live' <=> c \in Live /\ c # n
    BY <1>4 DEF Live
  <2>2. \A j \in Ids : j \in Taken' <=> j \in Taken /\ j # i
    BY <1>3, <1>4 DEF Taken
  <2>3. Live \subseteq Lines /\ Live' \subseteq Lines /\ Taken \subseteq Ids /\ Taken' \subseteq Ids
    BY DEF Live, Taken
  <2>4. i \in Taken
    BY <1>2, <1>3 DEF Taken
  <2> QED
    BY <2>1, <2>2, <2>3, <2>4
<1>8. Table'
  <2>1. ASSUME NEW j \in Taken' PROVE pending'[j] \in Live' /\ calls'[pending'[j]].id = j
    <3>1. j \in Taken /\ j # i /\ j \in Ids /\ pending'[j] = pending[j]
      BY <2>1, <1>4, <1>7 DEF Taken
    <3>2. pending[j] \in Live /\ calls[pending[j]].id = j
      BY <3>1 DEF IInv, Table
    <3>3. pending[j] # n /\ pending[j] \in Lines
      BY <3>1, <3>2, <1>3 DEF Live
    <3> QED
      BY <3>1, <3>2, <3>3, <1>4, <1>7
  <2>2. ASSUME NEW c \in Live' PROVE calls'[c].id \in Ids /\ pending'[calls'[c].id] = c
    <3>1. c \in Live /\ c # n /\ c \in Lines /\ calls'[c] = calls[c]
      BY <2>2, <1>4, <1>7 DEF Live
    <3>2. calls[c].id \in Ids /\ pending[calls[c].id] = c
      BY <3>1 DEF IInv, Table
    <3>3. calls[c].id # i
      BY <3>1, <3>2, <1>3
    <3> QED
      BY <3>1, <3>2, <3>3, <1>4
  <2>3. \A c \in Lines : c > lines => calls'[c] = NoCall
    <3>1. \A c \in Lines : c > lines => c # n
      BY <1>2, Bounds
    <3> QED
      BY <1>4, <3>1 DEF IInv, Table
  <2> QED
    BY <1>1, <2>1, <2>2, <2>3 DEF Table
<1>9. Counted'
  <2>1. /\ IsFiniteSet(Taken) /\ IsFiniteSet(Live) /\ Cardinality(Taken) = Cardinality(Live)
        /\ Cardinality(Live) <= MaxConcurrentRequests
    BY DEF IInv, Counted
  <2>2. IsFiniteSet(Taken') /\ Cardinality(Taken') = Cardinality(Taken) - 1
    BY <2>1, <1>7, FS_RemoveElement
  <2>3. IsFiniteSet(Live') /\ Cardinality(Live') = Cardinality(Live) - 1
    BY <2>1, <1>2, <1>7, FS_RemoveElement
  <2>4. Cardinality(Live) \in Nat /\ MaxConcurrentRequests \in Nat
    BY <2>1, FS_CardinalityType, LimitsAssumption
  <2>5. Cardinality(Live) - 1 <= MaxConcurrentRequests
    BY <2>1, <2>4
  <2> QED
    BY <2>1, <2>2, <2>3, <2>5 DEF Counted
<1>10. writeMu = n /\ \A c \in Lines : c # n => calls[c].state \notin {"found", "retired"}
  BY <1>1 DEF IInv, Mutex
<1>11. Mutex' /\ Closed'
  BY <1>1, <1>4, <1>10 DEF IInv, Mutex, Closed
<1>12. Refusing'
  <2> SUFFICES ASSUME reader'.at \in {"rejecting", "refusing"}
               PROVE  /\ reader'.at = "refusing" => writeMu' = lines'
                      /\ lines' \in Lines /\ calls'[lines'].state = "none"
                      /\ \A k \in DOMAIN wire' : wire'[k].line < lines'
                      /\ reader'.id # 0 /\ reader'.method # "" => pending'[reader'.id] = 0
    BY DEF Refusing
  <2>1. /\ reader.at = "refusing" => writeMu = lines
        /\ lines \in Lines /\ calls[lines].state = "none"
        /\ \A k \in DOMAIN wire : wire[k].line < lines
        /\ reader.id # 0 /\ reader.method # "" => pending[reader.id] = 0
    BY <1>1 DEF IInv, Refusing
  <2>2. lines # n
    BY <2>1, <1>1
  <2>3. reader.id \in Ids \cup {0}
    BY DEF IInv, Typed, GuardOK
  <2>4. reader.id # 0 /\ reader.method # "" => pending'[reader.id] = 0
    BY <2>1, <2>3, <1>4
  <2> QED
    BY <1>1, <1>4, <2>1, <2>2, <2>4
<1>13. \A c \in Lines : (Unfinished(c))' = Unfinished(c)
                        /\ calls'[c].id = calls[c].id /\ calls'[c].method = calls[c].method
  BY <1>2, <1>4 DEF Unfinished
<1>14. Ordered'
  <2>1. \A c \in Lines : Unfinished(c) /\ calls[c].id = i => c = n
    <3>1. ASSUME NEW c \in Lines, Unfinished(c), calls[c].id = i, c # n PROVE FALSE
      <4>1. c \in Live
        BY <3>1, <1>10 DEF Unfinished, Live
      <4> QED
        BY <3>1, <4>1, <1>3 DEF IInv, Table
    <3> QED
      BY <3>1
  <2>2. \A b, c \in Lines :
          calls'[b].state = "retired" /\ (Unfinished(c))' /\ b # c /\ calls'[b].id = calls'[c].id => b < c
    <3>1. \A b \in Lines : calls'[b].state = "retired" => b = n
      BY <1>4, <1>10
    <3> QED
      BY <1>3, <1>13, <2>1, <3>1
  <2>3. Ordered /\ wire' = wire /\ lines' = lines
    BY <1>1 DEF IInv
  <2>4. \A k \in DOMAIN wire, c \in Lines :
          (Unfinished(c))' /\ wire[k].id = calls'[c].id /\ wire[k].method # "" => wire[k].line < c
    BY <1>13, <2>3 DEF Ordered
  <2> QED
    BY <2>2, <2>3, <2>4 DEF Ordered
<1>15. Greeted'
  <2> SUFFICES ASSUME open PROVE Greeted'
    BY <1>1 DEF Greeted
  <2>1. Greeted /\ Initialized' = Initialized /\ wire' = wire /\ open' = open
    BY <1>1 DEF IInv, Initialized
  <2>2. \A c \in Lines \ {n} : /\ (Attempt(c))' = Attempt(c) /\ ~Success(c) /\ ~(Success(c))'
    BY <1>4, <1>10 DEF Attempt, Success
  <2>3. ~(Attempt(n))' /\ ~Success(n)
        /\ ((Success(n))' <=> calls[n].method = "initialize" /\ calls[n].ok)
    BY <1>1, <1>4 DEF Attempt, Success
  <2>4. CASE calls[n].method = "initialize"
    <3>1. Attempt(n)
      BY <1>1, <2>4 DEF Attempt
    <3>2. /\ ~handshake.initSent /\ Initialized = {} /\ ~handshake.ready
          /\ \A c \in Lines : Attempt(c) => c = n
          /\ \A c \in Lines : ~(Unfinished(c) /\ calls[c].method \notin {"initialize", "ping"})
      BY <2>1, <3>1 DEF Greeted
    <3>3. /\ handshake'.initSent = calls[n].ok /\ handshake'.ready = handshake.ready
      BY <1>1, <2>4 DEF IInv, Typed, HandshakeOK, Concluded
    <3>4. \A c \in Lines : ~(Attempt(c))'
      BY <2>2, <2>3, <3>2
    <3>5. \A c \in Lines : (Success(c))' => c = n /\ calls[n].ok
      BY <2>2, <2>3
    <3>6. handshake'.initSent => (Success(n))'
      BY <2>3, <2>4, <3>3
    <3>7. \A k \in DOMAIN wire' :
            wire'[k].ok /\ wire'[k].method # "ping" => \E j \in Initialized' : j <= k
      BY <2>1 DEF Greeted
    <3> HIDE <1>1
    <3> QED
      BY <1>13, <2>1, <3>2, <3>3, <3>4, <3>5, <3>6, <3>7 DEF Greeted
  <2>5. CASE calls[n].method # "initialize"
    <3>1. handshake' = handshake
      BY <1>1, <2>5
    <3>2. ~Attempt(n) /\ ~(Attempt(n))' /\ ~Success(n) /\ ~(Success(n))'
      BY <2>3, <2>5 DEF Attempt
    <3>3. \A c \in Lines : ((Attempt(c))' <=> Attempt(c)) /\ ((Success(c))' <=> Success(c))
      BY <2>2, <3>2
    <3> HIDE <1>1
    <3> QED
      BY <1>13, <2>1, <3>1, <3>3 DEF Greeted
  <2> QED
    BY <2>4, <2>5
<1> QED
  BY <1>6, <1>8, <1>9, <1>11, <1>12, <1>14, <1>15 DEF IInv

\* The answer goes out, and the mutex is free.
LEMMA EmitKeeps ==
    ASSUME IInv, NEW n \in Lines, Emit(n)
    PROVE  IInv'
<1>1. /\ calls[n].state = "retired"
      /\ wire' = IF open
                 THEN Append(wire, [line |-> n, id |-> calls[n].id,
                                    method |-> calls[n].method, ok |-> calls[n].ok])
                 ELSE wire
      /\ calls' = [calls EXCEPT ![n] = Done]
      /\ writeMu' = 0
      /\ UNCHANGED <<lines, reader, pending, handshake, open, served, bridge>>
  BY DEF Emit, Released, Answer
<1>2. n \notin Live /\ Unfinished(n) /\ n <= lines /\ n \in Nat /\ lines \in Nat
  <2>1. n \notin Live /\ Unfinished(n)
    BY <1>1 DEF Live, Unfinished
  <2> QED
    BY <2>1, Shapes, Bounds
<1>3. Done.state = "done"
  BY DEF Done, NoCall
<1>4. /\ \A c \in Lines \ {n} : calls'[c] = calls[c]
      /\ calls'[n].state = "done"
  BY <1>1, <1>3, Shapes
<1>5. \A c \in Lines : c # n => calls[c].state \notin {"found", "retired"}
  BY <1>1 DEF IInv, Mutex
<1>6. /\ ~(Unfinished(n))'
      /\ \A c \in Lines \ {n} : (Unfinished(c))' = Unfinished(c)
  BY <1>4 DEF Unfinished
<1>7. Live' = Live /\ Taken' = Taken
  BY <1>1, <1>2, <1>4 DEF Live, Taken
<1>8. Table' /\ Counted'
  <2>1. \A c \in Lines : c > lines => calls'[c] = NoCall
    <3>1. \A c \in Lines : c > lines => c # n
      BY <1>2, Bounds
    <3> QED
      BY <1>4, <3>1 DEF IInv, Table
  <2>2. lines' = lines /\ pending' = pending
    BY <1>1
  <2>3. \A c \in Live : c \in Lines /\ calls'[c] = calls[c]
    BY <1>2, <1>4 DEF Live
  <2>4. \A j \in Taken' : pending'[j] \in Live' /\ calls'[pending'[j]].id = j
    BY <1>7, <2>2, <2>3 DEF IInv, Table
  <2>5. \A c \in Live' : calls'[c].id \in Ids /\ pending'[calls'[c].id] = c
    BY <1>7, <2>2, <2>3 DEF IInv, Table
  <2> QED
    BY <1>7, <2>1, <2>2, <2>4, <2>5 DEF IInv, Table, Counted
<1>9. Mutex'
  BY <1>4, <1>5 DEF Mutex
<1>0. reader.at # "refusing"
  <2>1. calls[n].state = "retired" /\ writeMu = n
    BY <1>1 DEF IInv, Mutex
  <2>2. reader.at = "refusing" => writeMu = lines /\ calls[lines].state = "none"
    BY DEF IInv, Refusing
  <2> QED
    BY <2>1, <2>2
<1>10. GuardOK' /\ CallsOK' /\ HandshakeOK' /\ EndsOK'
  <2>1. GuardOK /\ CallsOK /\ HandshakeOK /\ EndsOK
    BY DEF IInv, Typed
  <2>2. GuardOK'
    <3>1. 0 \in 0..MaxLines
      BY Bounds
    <3> QED
      BY <1>1, <2>1, <3>1 DEF GuardOK
  <2>3. CallsOK'
    BY <1>1, <2>1 DEF CallsOK, Done, NoCall
  <2>4. HandshakeOK' /\ EndsOK'
    BY <1>1, <2>1 DEF HandshakeOK, EndsOK
  <2> QED
    BY <2>2, <2>3, <2>4
<1>11. \A c \in Lines : /\ ((Attempt(c))' <=> Attempt(c)) /\ ~(Success(c))'
                        /\ (c # n => ~Success(c))
  BY <1>1, <1>4, <1>5 DEF Attempt, Success
<1>12. \A b, c \in Lines :
         calls'[b].state = "retired" /\ (Unfinished(c))' /\ b # c /\ calls'[b].id = calls'[c].id => b < c
  BY <1>4, <1>5
<1>13. CASE ~open
  <2>1. wire' = wire /\ ~open' /\ lines' = lines /\ reader' = reader /\ pending' = pending
    BY <1>1, <1>13
  <2>2. Typed'
    BY <1>10, <2>1 DEF IInv, Typed
  <2>3. Refusing'
    <3>1. reader.at = "rejecting" => lines # n
      BY <1>1 DEF IInv, Refusing
    <3> QED
      BY <1>0, <2>1, <1>4, <3>1 DEF IInv, Refusing
  <2>4. Greeted' /\ Closed'
    BY <1>13, <2>1 DEF IInv, Greeted, Closed
  <2>5. Ordered'
    <3>1. \A k \in DOMAIN wire, c \in Lines :
            (Unfinished(c))' /\ wire[k].id = calls'[c].id /\ wire[k].method # "" => wire[k].line < c
      BY <1>4, <1>6 DEF IInv, Ordered
    <3> QED
      BY <2>1, <1>12, <3>1 DEF IInv, Ordered
  <2> QED
    BY <1>8, <1>9, <2>2, <2>3, <2>4, <2>5 DEF IInv
<1>14. CASE open
  <2>1. PICK a \in Answers : /\ wire' = Append(wire, a)
                             /\ a.line = n /\ a.id = calls[n].id /\ a.method = calls[n].method
                             /\ a.ok = calls[n].ok
    <3> DEFINE new == [line |-> n, id |-> calls[n].id, method |-> calls[n].method, ok |-> calls[n].ok]
    <3>1. CallsOK
      BY DEF IInv, Typed
    <3>2. new \in Answers
      BY <3>1 DEF CallsOK, Answers
    <3>3. wire' = Append(wire, new)
      BY <1>1, <1>14
    <3> WITNESS new \in Answers
    <3> QED
      BY <3>3
  <2>2. PICK last \in Nat : /\ last \notin DOMAIN wire /\ DOMAIN wire' = DOMAIN wire \cup {last}
                            /\ \A k \in DOMAIN wire : k < last /\ k \in Nat /\ wire'[k] = wire[k]
                            /\ wire'[last] = a /\ wire' \in Seq(Answers)
    BY <2>1, Appended
  <2>3. lines' = lines /\ reader' = reader /\ pending' = pending /\ open' /\ handshake' = handshake
    BY <1>1, <1>14
  <2>4. Typed' /\ Closed'
    BY <1>10, <2>2, <2>3 DEF Typed, Closed
  <2>5. Refusing'
    <3> SUFFICES ASSUME reader.at = "rejecting"
                 PROVE  /\ lines \in Lines /\ calls'[lines].state = "none"
                        /\ \A k \in DOMAIN wire' : wire'[k].line < lines
                        /\ reader.id # 0 /\ reader.method # "" => pending[reader.id] = 0
      BY <1>0, <2>3 DEF Refusing
    <3>1. /\ lines \in Lines /\ calls[lines].state = "none"
          /\ \A k \in DOMAIN wire : wire[k].line < lines
          /\ reader.id # 0 /\ reader.method # "" => pending[reader.id] = 0
      BY DEF IInv, Refusing
    <3>2. lines # n /\ calls'[lines] = calls[lines]
      BY <3>1, <1>1, <1>4
    <3>3. n < lines
      BY <3>2, <1>2
    <3>4. \A k \in DOMAIN wire' : wire'[k].line < lines
      BY <2>1, <2>2, <3>1, <3>3
    <3> QED
      BY <3>1, <3>2, <3>4
  <2>6. Ordered'
    <3>1. \A k \in DOMAIN wire' : wire'[k].line <= lines'
      <4>1. \A k \in DOMAIN wire : wire[k].line <= lines
        BY DEF IInv, Ordered
      <4> QED
        BY <1>2, <2>1, <2>2, <2>3, <4>1
    <3>2. ASSUME NEW j \in DOMAIN wire', NEW k \in DOMAIN wire', j < k,
                 wire'[j].id = wire'[k].id, wire'[j].id # 0,
                 wire'[j].method # "", wire'[k].method # ""
          PROVE  wire'[j].line < wire'[k].line
      <4>1. j # last
        <5>1. k \in DOMAIN wire => k < last /\ k \in Nat
          BY <2>2
        <5>2. k \in DOMAIN wire \/ k = last
          BY <2>2
        <5>3. j < k
          BY <3>2
        <5> HIDE <2>2, <3>2
        <5>4. CASE k = last
          BY <5>3, <5>4
        <5> QED
          BY <5>1, <5>2, <5>3, <5>4
      <4>2. j \in DOMAIN wire /\ wire'[j] = wire[j]
        BY <4>1, <2>2
      <4>3. CASE k = last
        <5>1. wire[j].id = calls[n].id /\ wire[j].method # ""
          BY <2>1, <2>2, <3>2, <4>2, <4>3
        <5>2. wire[j].line < n
          BY <1>2, <4>2, <5>1 DEF IInv, Ordered
        <5> QED
          BY <2>1, <2>2, <4>2, <4>3, <5>2
      <4>4. CASE k # last
        <5>1. k \in DOMAIN wire /\ wire'[k] = wire[k]
          BY <4>4, <2>2
        <5> QED
          BY <3>2, <4>2, <5>1 DEF IInv, Ordered
      <4> QED
        BY <4>3, <4>4
    <3>3. ASSUME NEW k \in DOMAIN wire', NEW c \in Lines, (Unfinished(c))',
                 wire'[k].id = calls'[c].id, wire'[k].method # ""
          PROVE  wire'[k].line < c
      <4>1. c # n /\ Unfinished(c) /\ calls'[c] = calls[c]
        BY <1>4, <1>6, <3>3
      <4>2. CASE k = last
        <5>1. calls[n].id = calls[c].id
          BY <2>1, <2>2, <3>3, <4>1, <4>2
        <5>2. n < c
          BY <1>1, <4>1, <5>1 DEF IInv, Ordered
        <5> QED
          BY <2>1, <2>2, <4>2, <5>2
      <4>3. CASE k # last
        <5>1. k \in DOMAIN wire /\ wire'[k] = wire[k]
          BY <4>3, <2>2
        <5> QED
          BY <3>3, <4>1, <5>1 DEF IInv, Ordered
      <4> QED
        BY <4>2, <4>3
    <3> QED
      BY <3>1, <3>2, <3>3, <1>12 DEF Ordered
  <2>7. Greeted'
    <3>1. Greeted /\ open
      BY <1>14 DEF IInv
    <3>2. CASE Success(n)
      <4>1. calls[n].method = "initialize" /\ calls[n].ok /\ handshake.initSent /\ Initialized = {}
        BY <3>1, <3>2 DEF Greeted, Success
      <4>2. Initialized' = {last}
        <5>1. \A k \in DOMAIN wire : ~(wire'[k].method = "initialize" /\ wire'[k].ok)
          BY <2>2, <4>1 DEF Initialized
        <5>2. wire'[last].method = "initialize" /\ wire'[last].ok
          BY <2>1, <2>2, <4>1
        <5> QED
          BY <2>2, <5>1, <5>2 DEF Initialized
      <4>3. \A k \in DOMAIN wire' :
              wire'[k].ok /\ wire'[k].method # "ping" => \E j \in Initialized' : j <= k
        <5>1. \A k \in DOMAIN wire : ~(wire[k].ok /\ wire[k].method # "ping")
          BY <3>1, <4>1 DEF Greeted
        <5>2. \A k \in DOMAIN wire' : wire'[k].ok /\ wire'[k].method # "ping" => k = last
          BY <2>2, <5>1
        <5>3. last <= last
          BY <2>2
        <5> QED
          BY <4>2, <5>2, <5>3
      <4>4. \A c \in Lines : (Attempt(c))' => FALSE
        BY <1>11, <3>1, <4>1 DEF Greeted
      <4>5. \A c \in Lines : ~(Success(c))'
        BY <1>11
      <4> QED
        BY <2>3, <4>1, <4>2, <4>3, <4>4, <4>5 DEF Greeted
    <3>3. CASE ~Success(n)
      <4>1. \A c \in Lines : ~Success(c) /\ ~(Success(c))' /\ ((Attempt(c))' <=> Attempt(c))
        BY <1>11, <3>3
      <4>2. ~(a.method = "initialize" /\ a.ok)
        BY <1>1, <2>1, <3>3 DEF Success
      <4>3. Initialized' = Initialized
        BY <2>2, <4>2 DEF Initialized
      <4>4. ASSUME NEW k \in DOMAIN wire', wire'[k].ok, wire'[k].method # "ping"
            PROVE  \E j \in Initialized' : j <= k
        <5>1. CASE k \in DOMAIN wire
          BY <2>2, <3>1, <4>3, <4>4, <5>1 DEF Greeted
        <5>2. CASE k = last
          <6>1. a.ok /\ a.method # "ping" /\ a.method # "initialize"
            BY <2>2, <4>2, <4>4, <5>2
          <6>2. handshake.initSent
            BY <1>2, <2>1, <3>1, <6>1 DEF Greeted
          <6>3. Initialized # {}
            BY <3>1, <4>1, <6>2 DEF Greeted
          <6>4. \A j \in Initialized : j <= last
            BY <2>2 DEF Initialized
          <6> QED
            BY <4>3, <5>2, <6>3, <6>4
        <5> QED
          BY <2>2, <5>1, <5>2
      <4>5. \A c \in Lines :
              (Unfinished(c))' /\ calls'[c].method \notin {"initialize", "ping"} => handshake'.initSent
        BY <1>4, <1>6, <2>3, <3>1 DEF Greeted
      <4> QED
        BY <2>3, <3>1, <4>1, <4>3, <4>4, <4>5 DEF Greeted
    <3> QED
      BY <3>2, <3>3
  <2> QED
    BY <1>8, <1>9, <2>4, <2>5, <2>6, <2>7 DEF IInv
<1> QED
  BY <1>13, <1>14

----------------------------------------------------------------------------
(* Theorems *)

LEMMA NextInv == IInv /\ [Next]_vars => IInv'
<1> SUFFICES ASSUME IInv, [Next]_vars PROVE IInv'
  OBVIOUS
<1>1. CASE Guard
  <2>1. ASSUME NEW i \in Ids, NEW m \in Methods, ReadDuplicate(i, m) \/ ReadRefused(i, m)
        PROVE  IInv'
    BY <2>1, PlainLineKeeps
  <2>2. ASSUME NEW i \in Ids, NEW m \in Methods, ReadCall(i, m)
        PROVE  IInv'
    BY <2>2, ReadCallKeeps
  <2>3. ASSUME NEW i \in Ids, ReadCancelled(i)
        PROVE  IInv'
    BY <2>3, CancelledKeeps
  <2>4. CASE ReadGarbage \/ ReadInitialized
    BY <2>4, PlainLineKeeps
  <2> QED
    BY <1>1, <2>1, <2>2, <2>3, <2>4 DEF Guard
<1>2. CASE Answering
  BY <1>2, RejectKeeps, EmitRefusalKeeps, FindPendingKeeps, RetireKeeps, EmitKeeps DEF Answering
<1>3. CASE Ending
  BY <1>3, EndingKeeps, StopReadingKeeps DEF Ending
<1>4. CASE Relaying
  BY <1>4, EndingKeeps
<1>5. CASE UNCHANGED vars
  <2>1. UNCHANGED guardVars /\ open' = open /\ EndsOK'
    BY <1>5 DEF vars, guardVars, IInv, Typed, EndsOK
  <2> QED
    BY <2>1, QuietKeeps
<1> QED
  BY <1>1, <1>2, <1>3, <1>4, <1>5 DEF Next

\* Whatever lines the agent sends and however the answers interleave
\* (guard.Read, guard.send), a session stays in IInv.
THEOREM McpInvariant == Spec => []IInv
<1> QED
  BY InitInv, NextInv, PTL DEF Spec

\* guard.pending holds exactly the requests the SDK is running, each under its
\* own identifier, and never more than maxConcurrentRequests of them.
THEOREM TableMatchesWorkThm == Spec => []TableMatchesWork
<1>1. IInv => TableMatchesWork
  <2> SUFFICES ASSUME IInv PROVE TableMatchesWork
    OBVIOUS
  <2>1. /\ \A i \in Taken : pending[i] \in Live /\ calls[pending[i]].id = i
        /\ \A n \in Live : calls[n].id \in Ids /\ pending[calls[n].id] = n
    BY DEF IInv, Table
  <2>2. ASSUME NEW n \in Lines
        PROVE  n \in Live <=> n \in {pending[i] : i \in Ids} \ {0}
    <3>1. n # 0
      BY Bounds
    <3>2. n \in Live => n \in {pending[i] : i \in Ids} \ {0}
      BY <2>1, <3>1
    <3>3. n \in {pending[i] : i \in Ids} \ {0} => n \in Live
      BY <2>1 DEF Taken
    <3> QED
      BY <3>2, <3>3
  <2>3. Cardinality({n \in Lines : calls[n].state \in {"running", "found"}}) <= MaxConcurrentRequests
    BY DEF IInv, Counted, Live
  <2>4. \A n \in Lines : calls[n].state \in {"running", "found"} <=> n \in Live
    BY DEF Live
  <2>5. \A i \in Ids : pending[i] # 0 => calls[pending[i]].id = i
    BY <2>1 DEF Taken
  <2> QED
    BY <2>2, <2>3, <2>4, <2>5 DEF TableMatchesWork
<1> QED
  BY <1>1, McpInvariant, PTL

\* The answers under one identifier go out in the order of its requests, and
\* no work is answered but after the one successful initialize.
THEOREM OneAnswerEachInOrderThm == Spec => []OneAnswerEachInOrder
<1>1. IInv => OneAnswerEachInOrder
  <2> SUFFICES ASSUME IInv PROVE OneAnswerEachInOrder
    OBVIOUS
  <2>1. \A j, k \in DOMAIN wire :
          (j < k /\ wire[j].id = wire[k].id /\ wire[j].id # 0
                 /\ wire[j].method # "" /\ wire[k].method # "")
            => wire[j].line < wire[k].line
    BY DEF IInv, Ordered
  <2>2. ASSUME NEW k \in DOMAIN wire, wire[k].ok, wire[k].method # "ping"
        PROVE  Cardinality({j \in 1..k : wire[j].method = "initialize" /\ wire[j].ok}) = 1
    <3>1. DOMAIN wire = 1..Len(wire) /\ Len(wire) \in Nat
      BY OnWire
    <3>2. 1..k \subseteq DOMAIN wire /\ \A j \in DOMAIN wire : j <= k => j \in 1..k
      BY <3>1
    <3>3. open
      BY <3>1, Empty DEF IInv, Closed
    <3>4. PICK j \in Initialized : j <= k
      BY <2>2, <3>3 DEF IInv, Greeted
    <3>5. \A i \in Initialized : i = j
      BY <3>3 DEF IInv, Greeted
    <3>6. {i \in 1..k : wire[i].method = "initialize" /\ wire[i].ok} = {j}
      BY <3>2, <3>4, <3>5 DEF Initialized
    <3> QED
      BY <3>6, FS_Singleton
  <2> QED
    BY <2>1, <2>2 DEF OneAnswerEachInOrder
<1> QED
  BY <1>1, McpInvariant, PTL
=============================================================================
