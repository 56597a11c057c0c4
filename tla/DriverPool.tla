------------------------------ MODULE DriverPool ------------------------------
(***************************************************************************)
(* The PostgreSQL driver's connection pools                                *)
(* (src/internal/database/postgres/driver.go).  The driver keeps one pool  *)
(* per profile, made on demand and thrown away when the profile's access   *)
(* fingerprint changes, when it is invalidated, when it has been unused    *)
(* for five minutes, or to make room for another.  A pool's first physical *)
(* connection is audited; openers that arrive meanwhile share that audit;  *)
(* the approval lasts while a physical connection survives.                *)
(*                                                                         *)
(* An operation is one call of runNormalized after its admission.  Every   *)
(* region the driver runs under its mutex is one action; dialling, the     *)
(* audit, the operation's own work and closing a socket happen outside it. *)
(* A context may end at any time, so each wait has an outcome for that.    *)
(* What the model leaves out: cursors and their epoch, and the contents of *)
(* queries.  Pools and connections are drawn from finite sets; a pool or a *)
(* connection nothing refers to any more is reused as a fresh one.         *)
(***************************************************************************)
EXTENDS Naturals, FiniteSets, SequencesExt

CONSTANTS
  Operations,     \* callers of the driver
  Accesses,       \* [profile |-> _, print |-> _]: what a caller may ask for
  Pools,          \* names for pool objects
  Conns,          \* names for physical connections
  NoConn,         \* an operation holds no connection
  Slots,          \* maxConnectionsPerProfile, 8 in the code
  PoolLimit       \* pools the driver keeps, 16 in the code

ASSUME DriverAssumption ==
  /\ Slots \in Nat \ {0}
  /\ PoolLimit \in Nat \ {0}
  /\ NoConn \notin Conns

VARIABLES
  pool,       \* pool objects
  conn,       \* physical connections: state, profile and the pool that dialled them
  op,         \* operations
  doomed,     \* idle connections of retired pools, in the hand of a closer
  closed,     \* Driver.closed
  vouched     \* history: connections an audit of their pool still covers

vars == <<pool, conn, op, doomed, closed, vouched>>

-----------------------------------------------------------------------------
(* State *)

NoAccess == [profile |-> "none", print |-> "none"]
AnyPool == CHOOSE q \in Pools : TRUE

\* "current" is membership in Driver.pools.  "moved": the generation is no
\* longer the one the audit in progress captured, its only use.
NoPool ==
  [ current |-> FALSE, access |-> NoAccess, slots |-> 0, idle |-> <<>>,
    users |-> 0, armed |-> FALSE, fired |-> FALSE, live |-> {},
    approved |-> FALSE, moved |-> FALSE, validating |-> FALSE ]

NoConnection == [state |-> "gone", pool |-> AnyPool, profile |-> "none"]

NoOperation ==
  [ pc |-> "out", pool |-> AnyPool, conn |-> NoConn, slot |-> FALSE, verdict |-> "none",
    profile |-> "none" ]

PoolType ==
  [ current : BOOLEAN, access : Accesses \union {NoAccess},
    slots : 0 .. Slots, idle : BoundedSeq(Conns, Slots),
    users : 0 .. Cardinality(Operations), armed : BOOLEAN, fired : BOOLEAN,
    live : SUBSET Conns, approved : BOOLEAN, moved : BOOLEAN,
    validating : BOOLEAN ]

Stages == { "out", "slot", "pop", "dial", "approve", "waiting", "audit",
            "using", "discard", "drop", "return", "close", "free" }

TypeOK ==
  /\ DOMAIN pool = Pools /\ \A q \in Pools : pool[q] \in PoolType
  /\ conn \in [Conns -> [ state : {"open", "closing", "gone"}, pool : Pools,
                         profile : {"none"} \union {a.profile : a \in Accesses} ]]
  /\ op \in [Operations -> [ pc : Stages, pool : Pools,
                             conn : Conns \union {NoConn}, slot : BOOLEAN,
                             verdict : {"none", "ok", "failed"},
                             profile : {"none"} \union {a.profile : a \in Accesses} ]]
  /\ doomed \subseteq Conns
  /\ closed \in BOOLEAN
  /\ vouched \subseteq Conns

Init ==
  /\ pool = [q \in Pools |-> NoPool]
  /\ conn = [c \in Conns |-> NoConnection]
  /\ op = [o \in Operations |-> NoOperation]
  /\ doomed = {}
  /\ closed = FALSE
  /\ vouched = {}

-----------------------------------------------------------------------------
(* Pools and connections *)

\* Driver.pools: the pool the driver would find under a profile's id.
Current(q) == pool[q].current
CurrentPools == {q \in Pools : Current(q)}

Open(c) == conn[c].state = "open"        \* not IsClosed()
Gone(c) == conn[c].state = "gone"        \* CleanupDone() has fired

\* Operations that hold a reference to pool q.
OperationsOf(q) == {o \in Operations : op[o].pc # "out" /\ op[o].pool = q}

\* A pool object that nothing refers to, so its name may stand for a new one.
Unused(q) ==
  /\ ~Current(q) /\ ~pool[q].fired /\ OperationsOf(q) = {}
  /\ \A c \in Conns : conn[c].pool = q => Gone(c)

\* A connection that nothing refers to.
Undialled(c) ==
  /\ Gone(c)
  /\ c \notin doomed
  /\ \A o \in Operations : op[o].conn # c
  /\ \A q \in Pools : ~Unused(q) => c \notin pool[q].live \union Range(pool[q].idle)

\* forgetClosed: drop connections whose sockets are gone; the approval goes
\* with the last of them.
ForgetClosed(p) ==
  LET live == {c \in p.live : ~Gone(c)}
      lost == live = {} /\ p.approved
  IN  [p EXCEPT !.live = live,
                !.approved = @ /\ ~lost,
                !.moved = @ \/ (lost /\ p.validating)]

\* retireLocked: the pool leaves the map and its context is cancelled.
Retired(p) ==
  [p EXCEPT !.current = FALSE, !.access = NoAccess, !.approved = FALSE,
            !.moved = p.validating, !.armed = FALSE, !.idle = <<>>]

\* Retire the pools of R; whoever does so closes their idle connections.
RetireAll(R) ==
  /\ pool' = [q \in Pools |-> IF q \in R THEN Retired(pool[q]) ELSE pool[q]]
  /\ doomed' = doomed \union UNION {Range(pool[q].idle) : q \in R}

\* pgconn.Close: a connection already closing is left to its own cleanup.
ClosedConn(c) == IF Open(c) THEN [conn EXCEPT ![c] = NoConnection] ELSE conn

-----------------------------------------------------------------------------
(* checkout *)

\* An operation joins pool q: it counts as a user and stops the idle timer.
Joined(p) == [p EXCEPT !.users = @ + 1, !.armed = FALSE]

Enter(o, a, q) ==
  op' = [op EXCEPT ![o] = [NoOperation EXCEPT !.pc = "slot", !.pool = q,
                                              !.profile = a.profile]]

\* The profile's pool has the caller's fingerprint.
CheckoutShared(o, a) ==
  /\ op[o].pc = "out" /\ ~closed
  /\ \E q \in CurrentPools :
       /\ pool[q].access = a
       /\ pool' = [pool EXCEPT ![q] = Joined(@)]
       /\ Enter(o, a, q)
  /\ UNCHANGED <<conn, doomed, closed, vouched>>

\* No pool, or one with another fingerprint, which is retired; at the limit a
\* pool without users makes room, and without one the call is refused.
CheckoutNew(o, a) ==
  /\ op[o].pc = "out" /\ ~closed
  /\ LET stale == {q \in CurrentPools : pool[q].access.profile = a.profile}
         full == Cardinality(CurrentPools \ stale) >= PoolLimit
     IN  /\ \A q \in stale : pool[q].access # a
         /\ \E victims \in SUBSET (CurrentPools \ stale), new \in Pools :
              /\ Cardinality(victims) = IF full THEN 1 ELSE 0
              /\ \A q \in victims : pool[q].users = 0
              /\ Unused(new)
              /\ new = CHOOSE q \in Pools : Unused(q)
              /\ pool' = [q \in Pools |->
                   IF q = new
                     THEN Joined([NoPool EXCEPT !.current = TRUE, !.access = a])
                   ELSE IF q \in stale \union victims
                     THEN Retired(pool[q]) ELSE pool[q]]
              /\ doomed' = doomed \union
                   UNION {Range(pool[q].idle) : q \in stale \union victims}
              /\ Enter(o, a, new)
  /\ UNCHANGED <<conn, closed, vouched>>

\* One of the two ready cases of the select on p.slots and op.Done().
AcquireSlot(o) ==
  LET q == op[o].pool IN
  /\ op[o].pc = "slot"
  /\ pool[q].slots < Slots
  /\ pool' = [pool EXCEPT ![q].slots = @ + 1]
  /\ op' = [op EXCEPT ![o].slot = TRUE, ![o].pc = "pop"]
  /\ UNCHANGED <<conn, doomed, closed, vouched>>

\* The operation's context ends first: release(false) without a connection.
AbandonSlot(o) ==
  /\ op[o].pc = "slot"
  /\ op' = [op EXCEPT ![o].pc = "return"]
  /\ UNCHANGED <<pool, conn, doomed, closed, vouched>>

\* Take the most recent idle connection that is not closed; else dial.
PopIdle(o) ==
  LET q == op[o].pool
      p == ForgetClosed(pool[q])
      k == SelectLastInSeq(p.idle, Open)
      skipped == Range(SubSeq(p.idle, k + 1, Len(p.idle)))
      rest == [p EXCEPT !.idle = SubSeq(@, 1, k - 1), !.live = @ \ skipped]
  IN
  /\ op[o].pc = "pop"
  /\ pool' = [pool EXCEPT ![q] = IF skipped = {} THEN rest ELSE ForgetClosed(rest)]
  /\ op' = [op EXCEPT ![o].pc = IF k = 0 THEN "dial" ELSE "approve",
                      ![o].conn = IF k = 0 THEN NoConn ELSE p.idle[k]]
  /\ UNCHANGED <<conn, doomed, closed, vouched>>

\* pgx.ConnectConfig succeeds.
Dial(o) ==
  /\ op[o].pc = "dial"
  /\ \E c \in Conns :
       /\ Undialled(c)
       /\ c = CHOOSE d \in Conns : Undialled(d)
       /\ conn' = [conn EXCEPT ![c] = [ state |-> "open", pool |-> op[o].pool,
                                        profile |-> op[o].profile ]]
       /\ op' = [op EXCEPT ![o].pc = "approve", ![o].conn = c]
  /\ UNCHANGED <<pool, doomed, closed, vouched>>

\* Configuration, network or authentication failure, or the context ended.
DialFails(o) ==
  /\ op[o].pc = "dial"
  /\ op' = [op EXCEPT ![o].pc = "return"]
  /\ UNCHANGED <<pool, conn, doomed, closed, vouched>>

-----------------------------------------------------------------------------
(* approvePool *)

\* Connections of pool q that an audit covers and whose socket is not gone.
Survivors(q) == {c \in vouched : conn[c].pool = q /\ ~Gone(c)}

\* Mutant: the approval is used before closed connections are forgotten.
Approve_Stale(o) ==
  LET q == op[o].pool
      c == op[o].conn
      p == [pool[q] EXCEPT !.live = @ \union {c}]
      next == IF p.approved THEN "using"
              ELSE IF p.validating THEN "waiting" ELSE "audit"
  IN
  /\ op[o].pc = "approve"
  /\ pool' = [pool EXCEPT ![q] = [p EXCEPT !.validating = @ \/ next = "audit"]]
  /\ op' = [op EXCEPT ![o].pc = next]
  /\ vouched' = IF Survivors(q) = {} THEN vouched \ {c}
                ELSE IF p.approved THEN vouched \union {c} ELSE vouched
  /\ UNCHANGED <<conn, doomed, closed>>

\* The first region: register the connection, then use the approval, wait for
\* the audit in progress, or start one.
Approve(o) ==
  LET q == op[o].pool
      c == op[o].conn
      p == [ForgetClosed(pool[q]) EXCEPT !.live = @ \union {c}]
      next == IF p.approved THEN "using"
              ELSE IF p.validating THEN "waiting" ELSE "audit"
  IN
  /\ op[o].pc = "approve"
  /\ pool' = [pool EXCEPT ![q] = [p EXCEPT !.validating = @ \/ next = "audit"]]
  /\ op' = [op EXCEPT ![o].pc = next]
  /\ vouched' = IF Survivors(q) = {} THEN vouched \ {c}
                ELSE IF p.approved THEN vouched \union {c} ELSE vouched
  /\ UNCHANGED <<conn, doomed, closed>>

\* Mutant: a failed audit returns without closing the waiters' channel.
AuditEnds_FailsSilently(o, good) ==
  LET q == op[o].pool
      p == ForgetClosed(pool[q])
      ok == good /\ Current(q) /\ ~p.moved /\ Open(op[o].conn)
  IN
  /\ op[o].pc = "audit"
  /\ pool' = [pool EXCEPT ![q] =
       [p EXCEPT !.approved = ok, !.validating = FALSE, !.moved = FALSE]]
  /\ op' = [r \in Operations |->
       IF r = o THEN [op[o] EXCEPT !.pc = IF ok THEN "using" ELSE "discard"]
       ELSE IF ok /\ op[r].pc = "waiting" /\ op[r].pool = q /\ op[r].verdict = "none"
         THEN [op[r] EXCEPT !.verdict = "ok"]
       ELSE op[r]]
  /\ vouched' = IF ok THEN vouched \union p.live ELSE vouched
  /\ UNCHANGED <<conn, doomed, closed>>

\* The second region: publish the verdict of validateAccountConnection, unless
\* the pool or the connection was lost meanwhile, and wake the waiters.
AuditEnds(o, good) ==
  LET q == op[o].pool
      c == op[o].conn
      p == ForgetClosed(pool[q])
      ok == /\ good
            /\ Current(q)
            /\ ~p.moved
            /\ Open(c)
  IN
  /\ op[o].pc = "audit"
  /\ pool' = [pool EXCEPT ![q] =
       [p EXCEPT !.approved = ok, !.validating = FALSE, !.moved = FALSE]]
  /\ op' = [r \in Operations |->
       IF r = o THEN [op[o] EXCEPT !.pc = IF ok THEN "using" ELSE "discard"]
       ELSE IF op[r].pc = "waiting" /\ op[r].pool = q /\ op[r].verdict = "none"
         THEN [op[r] EXCEPT !.verdict = IF ok THEN "ok" ELSE "failed"]
       ELSE op[r]]
  /\ vouched' = IF ok THEN vouched \union p.live ELSE vouched
  /\ UNCHANGED <<conn, doomed, closed>>

\* pending.done is closed: the waiter returns pending.err.
Wake(o) ==
  /\ op[o].pc = "waiting" /\ op[o].verdict # "none"
  /\ op' = [op EXCEPT ![o].pc = IF op[o].verdict = "ok" THEN "using" ELSE "discard",
                      ![o].verdict = "none"]
  /\ UNCHANGED <<pool, conn, doomed, closed, vouched>>

\* The waiter's context ends first.
AbandonWait(o) ==
  /\ op[o].pc = "waiting"
  /\ op' = [op EXCEPT ![o].pc = "discard", ![o].verdict = "none"]
  /\ UNCHANGED <<pool, conn, doomed, closed, vouched>>

-----------------------------------------------------------------------------
(* The operation, and release *)

\* A socket error or the end of the context closes the connection at once;
\* its socket is cleaned up later.
Break(o) ==
  /\ op[o].pc \in {"audit", "using"}
  /\ Open(op[o].conn)
  /\ conn' = [conn EXCEPT ![op[o].conn].state = "closing"]
  /\ UNCHANGED <<pool, op, doomed, closed, vouched>>

Cleanup(c) ==
  /\ conn[c].state = "closing"
  /\ conn' = [conn EXCEPT ![c] = NoConnection]
  /\ vouched' = vouched \ {c}
  /\ UNCHANGED <<pool, op, doomed, closed>>

\* Rollback and DISCARD ALL have run: release(healthy).
EndWork(o, healthy) ==
  /\ op[o].pc = "using"
  /\ op' = [op EXCEPT ![o].pc =
                IF healthy /\ Open(op[o].conn) THEN "return" ELSE "discard"]
  /\ UNCHANGED <<pool, conn, doomed, closed, vouched>>

\* A discarded connection stops retaining the approval before its socket closes.
Discard(o) ==
  LET q == op[o].pool
      p == [pool[q] EXCEPT !.live = @ \ {op[o].conn}]
  IN
  /\ op[o].pc = "discard"
  /\ pool' = [pool EXCEPT ![q] = ForgetClosed(p)]
  /\ op' = [op EXCEPT ![o].pc = "drop"]
  /\ vouched' = vouched \ {op[o].conn}
  /\ UNCHANGED <<conn, doomed, closed>>

\* closeConn of a discarded connection, or of one with no pool to return to.
CloseConn(o) ==
  /\ op[o].pc \in {"drop", "close"}
  /\ conn' = ClosedConn(op[o].conn)
  /\ vouched' = vouched \ {op[o].conn}
  /\ op' = [op EXCEPT ![o].conn = NoConn,
                      ![o].pc = IF @ = "drop" THEN "return" ELSE "free"]
  /\ UNCHANGED <<pool, doomed, closed>>

\* Mutant: a connection goes back to its pool though the pool is retired.
Return_ToRetired(o) ==
  LET q == op[o].pool
      c == op[o].conn
      p == ForgetClosed(pool[q])
  IN
  /\ op[o].pc = "return"
  /\ pool' = [pool EXCEPT ![q] =
       [p EXCEPT !.idle = IF c # NoConn THEN Append(@, c) ELSE @,
                 !.users = @ - 1,
                 !.armed = @ \/ (p.users = 1 /\ Current(q))]]
  /\ op' = [op EXCEPT ![o].conn = NoConn, ![o].pc = "free"]
  /\ UNCHANGED <<conn, doomed, closed, vouched>>

\* Mutant: the timer is armed only by an operation that hands a connection back.
Return_TimerWithConnection(o) ==
  LET q == op[o].pool
      c == op[o].conn
      p == ForgetClosed(pool[q])
      keep == c # NoConn /\ Current(q) /\ ~closed
  IN
  /\ op[o].pc = "return"
  /\ pool' = [pool EXCEPT ![q] =
       [p EXCEPT !.idle = IF keep THEN Append(@, c) ELSE @,
                 !.users = @ - 1,
                 !.armed = @ \/ (keep /\ p.users = 1)]]
  /\ op' = [op EXCEPT ![o].conn = IF keep THEN NoConn ELSE c,
                      ![o].pc = IF keep \/ c = NoConn THEN "free" ELSE "close"]
  /\ UNCHANGED <<conn, doomed, closed, vouched>>

\* The last region: hand the connection back, leave the pool, and arm the idle
\* timer when nobody else uses it.
Return(o) ==
  LET q == op[o].pool
      c == op[o].conn
      p == ForgetClosed(pool[q])
      keep == c # NoConn /\ Current(q) /\ ~closed
  IN
  /\ op[o].pc = "return"
  /\ pool' = [pool EXCEPT ![q] =
       [p EXCEPT !.idle = IF keep THEN Append(@, c) ELSE @,
                 !.users = @ - 1,
                 !.armed = @ \/ (p.users = 1 /\ Current(q))]]
  /\ op' = [op EXCEPT ![o].conn = IF keep THEN NoConn ELSE c,
                      ![o].pc = IF keep \/ c = NoConn THEN "free" ELSE "close"]
  /\ UNCHANGED <<conn, doomed, closed, vouched>>

\* Mutant: an operation that gave up waiting gives a slot back too.
FreeSlot_NeverTaken(o) ==
  LET q == op[o].pool IN
  /\ op[o].pc = "free"
  /\ pool' = [pool EXCEPT ![q].slots = IF @ = 0 THEN 0 ELSE @ - 1]
  /\ op' = [op EXCEPT ![o] = NoOperation]
  /\ UNCHANGED <<conn, doomed, closed, vouched>>

\* A slot is given back last, by an operation that took one.  (The last one to
\* leave a retired pool drops the object, and with it what "live" remembers.)
FreeSlot(o) ==
  LET q == op[o].pool IN
  /\ op[o].pc = "free"
  /\ pool' = [pool EXCEPT ![q].slots = IF op[o].slot THEN @ - 1 ELSE @,
                          ![q].live = IF Current(q) \/ OperationsOf(q) # {o} THEN @ ELSE {}]
  /\ op' = [op EXCEPT ![o] = NoOperation]
  /\ UNCHANGED <<conn, doomed, closed, vouched>>

-----------------------------------------------------------------------------
(* Idle timers, invalidation and shutdown *)

\* The five minutes are over; the callback now waits for the mutex.
TimerFires(q) ==
  /\ pool[q].armed
  /\ pool' = [pool EXCEPT ![q].armed = FALSE, ![q].fired = TRUE]
  /\ UNCHANGED <<conn, op, doomed, closed, vouched>>

\* Mutant: the callback does not look at the users again.
EvictIdle_Blind(q) ==
  /\ pool[q].fired
  /\ pool' = [pool EXCEPT ![q] = IF Current(q) THEN [Retired(@) EXCEPT !.fired = FALSE]
                                 ELSE [@ EXCEPT !.fired = FALSE]]
  /\ doomed' = doomed \union (IF Current(q) THEN Range(pool[q].idle) ELSE {})
  /\ UNCHANGED <<conn, op, closed, vouched>>

\* The callback retires the pool if it is still current and unused.
EvictIdle(q) ==
  LET p == [pool[q] EXCEPT !.fired = FALSE]
      evict == Current(q) /\ p.users = 0
  IN
  /\ pool[q].fired
  /\ pool' = [pool EXCEPT ![q] = IF evict THEN Retired(p) ELSE p]
  /\ doomed' = doomed \union (IF evict THEN Range(p.idle) ELSE {})
  /\ UNCHANGED <<conn, op, closed, vouched>>

\* Invalidate: a profile changed.
Invalidate(profile) ==
  /\ \E q \in CurrentPools : pool[q].access.profile = profile
  /\ RetireAll({q \in CurrentPools : pool[q].access.profile = profile})
  /\ UNCHANGED <<conn, op, closed, vouched>>

Close ==
  /\ ~closed
  /\ closed' = TRUE
  /\ RetireAll(CurrentPools)
  /\ UNCHANGED <<conn, op, vouched>>

\* closePool: whoever retired a pool closes its idle connections.
CloseDoomed(c) ==
  /\ c \in doomed
  /\ conn' = ClosedConn(c)
  /\ doomed' = doomed \ {c}
  /\ vouched' = vouched \ {c}
  /\ UNCHANGED <<pool, op, closed>>

-----------------------------------------------------------------------------
(* Specification *)

Step(o) ==
  \/ \E a \in Accesses : CheckoutShared(o, a) \/ CheckoutNew(o, a)
  \/ AcquireSlot(o) \/ AbandonSlot(o) \/ PopIdle(o) \/ Dial(o) \/ DialFails(o)
  \/ Approve(o) \/ Wake(o) \/ AbandonWait(o) \/ Break(o)
  \/ Discard(o) \/ CloseConn(o) \/ Return(o) \/ FreeSlot(o)
  \/ \E good \in BOOLEAN : AuditEnds(o, good)
  \/ \E healthy \in BOOLEAN : EndWork(o, healthy)

Next ==
  \/ \E o \in Operations : Step(o)
  \/ \E c \in Conns : Cleanup(c) \/ CloseDoomed(c)
  \/ \E q \in Pools : TimerFires(q) \/ EvictIdle(q)
  \/ \E a \in Accesses : Invalidate(a.profile)
  \/ Close

\* The server answers the audit or its connection breaks, and a goroutine whose
\* channel is ready runs.
Fairness ==
  \A o \in Operations :
    WF_vars(Wake(o) \/ \E good \in BOOLEAN : AuditEnds(o, good))

Spec == Init /\ [][Next]_vars /\ Fairness

-----------------------------------------------------------------------------
(* Properties *)

\* A query runs only on a connection that an audit of its pool covers: the
\* connection was audited, opened while an audited one's socket survived, or
\* registered while the audit ran (approvePool, forgetClosed).
VouchedBeforeUse ==
  \A o \in Operations :
    op[o].pc = "using" /\ Open(op[o].conn) => op[o].conn \in vouched

\* A physical connection always has someone who will close or reuse it: the
\* operation that holds it, a current pool, or the closer of a retired one.
EveryConnectionOwned ==
  \A c \in Conns : Open(c) =>
    \/ \E o \in Operations : op[o].conn = c
    \/ \E q \in CurrentPools : c \in Range(pool[q].idle)
    \/ c \in doomed

\* A pool in use never has more open connections than slots, whoever dials while
\* others return theirs, and no connection is shared, or idle while in use.
\* (The connections of a retired pool are closed beside its replacement's.)
ConnectionsBounded ==
  /\ \A q \in CurrentPools : Cardinality({c \in Conns : Open(c) /\ conn[c].pool = q}) <= Slots
  /\ \A o \in Operations, c \in Conns : op[o].conn = c =>
       /\ \A r \in Operations \ {o} : op[r].conn # c
       /\ \A q \in Pools : ~Unused(q) => c \notin Range(pool[q].idle)

\* A pool nobody uses has a timer running or a callback about to look at it,
\* so its idle connections cannot outlive the five minutes unnoticed.
UnusedPoolsExpire ==
  \A q \in CurrentPools : pool[q].users = 0 => pool[q].armed \/ pool[q].fired

\* An idle timer, or a request for another profile that needs room, never
\* retires a pool under an operation that has not left it: the count of users
\* and the re-check in the timer's callback stay right in every order.
EvictionSparesWork ==
  [][ \A q \in CurrentPools : \A o \in OperationsOf(q) :
        ~pool'[q].current /\ op[o].pc \notin {"close", "free"}
        => /\ pool'[q].fired = pool[q].fired
           /\ \A r \in Operations : op[r].pc = "out" /\ op'[r].pc # "out"
                => pool'[op'[r].pool].access.profile = pool[q].access.profile ]_vars

\* An opener that waits for another's audit is woken when that audit ends,
\* whatever its outcome, without counting on its own deadline.
WaitersWoken ==
  \A o \in Operations : op[o].pc = "waiting" ~> op[o].pc # "waiting"
=============================================================================
