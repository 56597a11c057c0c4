------------------------- MODULE DriverPool_proofs -------------------------
(***************************************************************************)
(* What the driver's pools guarantee for any number of callers, profiles,  *)
(* pools and connections: an unused pool has a timer, and neither a timer  *)
(* nor a request for another profile retires a pool under an operation.    *)
(*                                                                         *)
(* The driver decides both from "users", a counter that checkout raises    *)
(* and release lowers in different regions under its mutex.  What makes it *)
(* right is that it counts exactly the operations between these two        *)
(* (UsersCounted), also in a pool retired meanwhile and in a new pool that *)
(* stands under the same profile.                                          *)
(*                                                                         *)
(* The second half is about connections: none is lost or shared, a current *)
(* pool has no more of them open than slots, and none runs a query that no *)
(* audit covers.  Its invariant, CInv, gives each connection one place (an *)
(* operation, the idle ones of one pool, or a closer), counts slots by the *)
(* operations that have one, and says what a pool's "live" remembers.      *)
(***************************************************************************)
EXTENDS DriverPool, FiniteSetTheorems, SequenceTheorems, WellFoundedInduction, TLAPS

\* Those who use the pool q: the operations that joined it and have not left.
Left == {"out", "close", "free"}
UsersOf(q) == {o \in Operations : op[o].pc \notin Left /\ op[o].pool = q}

\* The fields of pools and operations that matter here.
PoolShaped(p) ==
  /\ DOMAIN p = DOMAIN NoPool
  /\ p.users \in Nat /\ p.armed \in BOOLEAN /\ p.fired \in BOOLEAN /\ p.current \in BOOLEAN

Shaped ==
  /\ DOMAIN pool = Pools /\ \A q \in Pools : PoolShaped(pool[q])
  /\ DOMAIN op = Operations
  /\ \A o \in Operations : /\ DOMAIN op[o] = DOMAIN NoOperation
                           /\ op[o].pc # "out" => op[o].pool \in Pools

\* "users" is their number.
UsersCounted ==
  \A q \in Pools : IsFiniteSet(UsersOf(q)) /\ pool[q].users = Cardinality(UsersOf(q))

\* The inductive invariant.
IInv == Shaped /\ UsersCounted /\ UnusedPoolsExpire

\* The first state: no pool, nobody in one.
LEMMA InitInv == Init => IInv
<1> SUFFICES ASSUME Init PROVE IInv
  OBVIOUS
<1>1. Shaped
  BY DEF Init, Shaped, PoolShaped, NoPool, NoOperation
<1>2. UsersCounted
  <2>1. ASSUME NEW q \in Pools PROVE UsersOf(q) = {} /\ pool[q].users = 0
    BY DEF Init, UsersOf, Left, NoPool, NoOperation
  <2> QED
    BY <2>1, FS_EmptySet DEF UsersCounted
<1>3. UnusedPoolsExpire
  BY DEF Init, UnusedPoolsExpire, CurrentPools, Current, NoPool
<1> QED
  BY <1>1, <1>2, <1>3 DEF IInv

----------------------------------------------------------------------------
(* What a step does to a pool and to an operation *)

\* The pool p2 is p but for its slots, connections and approval.
Keeps(p, p2) ==
  /\ DOMAIN p2 = DOMAIN p
  /\ p2.users = p.users /\ p2.armed = p.armed /\ p2.fired = p.fired
  /\ p2.current = p.current /\ p2.access = p.access

LEMMA KeepsFacts ==
    ASSUME NEW p, DOMAIN p = DOMAIN NoPool, NEW x, NEW y, NEW z
    PROVE  /\ Keeps(p, ForgetClosed(p))
           /\ Keeps(p, [p EXCEPT !.slots = x]) /\ Keeps(p, [p EXCEPT !.live = x])
           /\ Keeps(p, [p EXCEPT !.slots = x, !.live = y])
           /\ Keeps(p, [p EXCEPT !.idle = x, !.live = y])
           /\ Keeps(p, [p EXCEPT !.validating = x])
           /\ Keeps(p, [p EXCEPT !.approved = x, !.validating = y, !.moved = z])
  BY DEF Keeps, ForgetClosed, NoPool

LEMMA KeepsTwice ==
    ASSUME NEW p, NEW p2, NEW p3, Keeps(p, p2), Keeps(p2, p3)
    PROVE  Keeps(p, p3)
  BY DEF Keeps

\* The operation o stays in its pool, or stays out of all.
Stays(o) ==
  /\ DOMAIN op'[o] = DOMAIN NoOperation
  /\ op'[o].pc \in Left <=> op[o].pc \in Left
  /\ op[o].pc = "out" => op'[o].pc = "out"
  /\ op'[o].pc # "out" => op'[o].pool = op[o].pool

\* A step that neither joins nor leaves a pool, nor retires one.
Ordinary ==
  /\ DOMAIN pool' = Pools /\ DOMAIN op' = Operations
  /\ \A q \in Pools : Keeps(pool[q], pool'[q])
  /\ \A o \in Operations : Stays(o)

LEMMA OrdinaryPools ==
    ASSUME Shaped, NEW q \in Pools, NEW p, Keeps(pool[q], p), pool' = [pool EXCEPT ![q] = p]
    PROVE  DOMAIN pool' = Pools /\ \A r \in Pools : Keeps(pool[r], pool'[r])
  BY DEF Shaped, PoolShaped, Keeps

LEMMA SamePools ==
    ASSUME Shaped, pool' = pool
    PROVE  DOMAIN pool' = Pools /\ \A r \in Pools : Keeps(pool[r], pool'[r])
  BY DEF Shaped, PoolShaped, Keeps

LEMMA SameOperations ==
    ASSUME Shaped, op' = op
    PROVE  DOMAIN op' = Operations /\ \A o \in Operations : Stays(o)
  BY DEF Shaped, Stays

\* One operation moves on.
LEMMA MovesOn ==
    ASSUME Shaped, NEW o \in Operations, op[o].pc # "out", NEW r, op' = [op EXCEPT ![o] = r],
           DOMAIN r = DOMAIN NoOperation, r.pool = op[o].pool, r.pc \in Left <=> op[o].pc \in Left
    PROVE  DOMAIN op' = Operations /\ \A s \in Operations : Stays(s)
  BY DEF Shaped, Stays

\* The steps of an operation between checkout and release.
LEMMA OrdinarySteps ==
    ASSUME Shaped, NEW o \in Operations,
           \/ AcquireSlot(o) \/ AbandonSlot(o) \/ PopIdle(o) \/ Dial(o) \/ DialFails(o)
           \/ Approve(o) \/ Wake(o) \/ AbandonWait(o) \/ Break(o)
           \/ Discard(o) \/ CloseConn(o) \/ FreeSlot(o)
           \/ \E good \in BOOLEAN : AuditEnds(o, good)
           \/ \E healthy \in BOOLEAN : EndWork(o, healthy)
    PROVE  Ordinary
<1> DEFINE q == op[o].pool
<1>0. /\ op[o].pc # "out" => q \in Pools /\ DOMAIN pool[q] = DOMAIN NoPool
      /\ DOMAIN op[o] = DOMAIN NoOperation /\ DOMAIN op = Operations /\ DOMAIN pool = Pools
  BY DEF Shaped, PoolShaped
<1> HIDE DEF q
<1>1. CASE AbandonSlot(o) \/ DialFails(o)
  BY <1>0, <1>1, SamePools DEF AbandonSlot, DialFails, Ordinary, Stays, Shaped, NoOperation, Left
<1>2. CASE Wake(o) \/ AbandonWait(o)
  BY <1>0, <1>2, SamePools DEF Wake, AbandonWait, Ordinary, Stays, Shaped, NoOperation, Left
<1>3. CASE \E healthy \in BOOLEAN : EndWork(o, healthy)
  BY <1>0, <1>3, SamePools DEF EndWork, Ordinary, Stays, Shaped, NoOperation, Left
<1>4. CASE Break(o)
  BY <1>4, SamePools, SameOperations DEF Break, Ordinary
<1>5. CASE Dial(o)
  <2>1. pool' = pool /\ op[o].pc = "dial"
    BY <1>5 DEF Dial
  <2>2. PICK c : op' = [op EXCEPT ![o].pc = "approve", ![o].conn = c]
    BY <1>5 DEF Dial
  <2>3. DOMAIN op' = Operations /\ \A s \in Operations : Stays(s)
    BY <1>0, <2>1, <2>2 DEF Stays, Shaped, NoOperation, Left
  <2> QED
    BY <2>1, <2>3, SamePools DEF Ordinary
<1>6. CASE CloseConn(o)
  <2>1. DOMAIN op' = Operations /\ \A s \in Operations : Stays(s)
    <3>1. CASE op[o].pc = "drop"
      BY <1>0, <1>6, <3>1 DEF CloseConn, Stays, Shaped, NoOperation, Left
    <3>2. CASE op[o].pc = "close"
      BY <1>0, <1>6, <3>2 DEF CloseConn, Stays, Shaped, NoOperation, Left
    <3> QED
      BY <1>6, <3>1, <3>2 DEF CloseConn
  <2> QED
    BY <1>6, <2>1, SamePools DEF CloseConn, Ordinary
<1>7. CASE AcquireSlot(o)
  <2>1. DOMAIN op' = Operations /\ \A s \in Operations : Stays(s)
    BY <1>0, <1>7 DEF AcquireSlot, Stays, Shaped, NoOperation, Left
  <2>2. op[o].pc # "out"
    BY <1>7 DEF AcquireSlot
  <2>3. PICK x : pool' = [pool EXCEPT ![q] = [pool[q] EXCEPT !.slots = x]]
    BY <1>0, <1>7, <2>2 DEF AcquireSlot, q
  <2>4. Keeps(pool[q], [pool[q] EXCEPT !.slots = x])
    BY <1>0, <2>2, KeepsFacts
  <2> QED
    BY <1>0, <2>1, <2>2, <2>3, <2>4, OrdinaryPools DEF Ordinary
<1>8. CASE FreeSlot(o)
  <2>1. DOMAIN op' = Operations /\ \A s \in Operations : Stays(s)
    BY <1>0, <1>8 DEF FreeSlot, Stays, Shaped, NoOperation, Left
  <2>2. op[o].pc # "out"
    BY <1>8 DEF FreeSlot
  <2>3. PICK x, y : pool' = [pool EXCEPT ![q] = [pool[q] EXCEPT !.slots = x, !.live = y]]
    BY <1>0, <1>8, <2>2 DEF FreeSlot, q
  <2>4. Keeps(pool[q], [pool[q] EXCEPT !.slots = x, !.live = y])
    BY <1>0, <2>2, KeepsFacts
  <2> QED
    BY <1>0, <2>1, <2>2, <2>3, <2>4, OrdinaryPools DEF Ordinary
<1>9. CASE PopIdle(o)
  <2>1. DOMAIN op' = Operations /\ \A s \in Operations : Stays(s)
    BY <1>0, <1>9 DEF PopIdle, Stays, Shaped, NoOperation, Left
  <2>2. op[o].pc # "out"
    BY <1>9 DEF PopIdle
  <2>3. \E x, y, p : /\ p = [ForgetClosed(pool[q]) EXCEPT !.idle = x, !.live = y]
                     /\ \/ pool' = [pool EXCEPT ![q] = p]
                        \/ pool' = [pool EXCEPT ![q] = ForgetClosed(p)]
    BY <1>0, <1>9, <2>2 DEF PopIdle, q
  <2>4. PICK x, y, p : /\ p = [ForgetClosed(pool[q]) EXCEPT !.idle = x, !.live = y]
                       /\ \/ pool' = [pool EXCEPT ![q] = p]
                          \/ pool' = [pool EXCEPT ![q] = ForgetClosed(p)]
    BY <2>3
  <2>5. Keeps(pool[q], ForgetClosed(pool[q]))
    BY <1>0, <2>2, KeepsFacts
  <2>6. Keeps(ForgetClosed(pool[q]), p)
    BY <1>0, <2>2, <2>4, <2>5, KeepsFacts DEF Keeps
  <2>7. Keeps(pool[q], p)
    BY <2>5, <2>6, KeepsTwice
  <2>8. Keeps(pool[q], ForgetClosed(p))
    BY <1>0, <2>2, <2>7, KeepsFacts, KeepsTwice DEF Keeps
  <2> QED
    BY <1>0, <2>1, <2>2, <2>4, <2>7, <2>8, OrdinaryPools DEF Ordinary
<1>10. CASE Approve(o)
  <2>1. DOMAIN op' = Operations /\ \A s \in Operations : Stays(s)
    BY <1>0, <1>10 DEF Approve, Stays, Shaped, NoOperation, Left
  <2>2. op[o].pc # "out"
    BY <1>10 DEF Approve
  <2>3. PICK x, y : pool' = [pool EXCEPT ![q] = [[ForgetClosed(pool[q]) EXCEPT !.live = x] EXCEPT !.validating = y]]
    BY <1>0, <1>10, <2>2 DEF Approve, q
  <2>4. Keeps(pool[q], ForgetClosed(pool[q]))
    BY <1>0, <2>2, KeepsFacts
  <2>5. Keeps(pool[q], [ForgetClosed(pool[q]) EXCEPT !.live = x])
    BY <1>0, <2>2, <2>4, KeepsFacts, KeepsTwice DEF Keeps
  <2>6. Keeps(pool[q], [[ForgetClosed(pool[q]) EXCEPT !.live = x] EXCEPT !.validating = y])
    BY <1>0, <2>2, <2>5, KeepsFacts, KeepsTwice DEF Keeps
  <2> QED
    BY <1>0, <2>1, <2>2, <2>3, <2>6, OrdinaryPools DEF Ordinary
<1>11. ASSUME NEW good \in BOOLEAN, AuditEnds(o, good) PROVE Ordinary
  <2>1. DOMAIN op' = Operations /\ \A s \in Operations : Stays(s)
    BY <1>0, <1>11 DEF AuditEnds, Stays, Shaped, NoOperation, Left
  <2>2. op[o].pc # "out"
    BY <1>11 DEF AuditEnds
  <2>3. PICK x, y, z :
          pool' = [pool EXCEPT ![q] = [ForgetClosed(pool[q]) EXCEPT !.approved = x, !.validating = y, !.moved = z]]
    BY <1>0, <1>11, <2>2 DEF AuditEnds, q
  <2>4. Keeps(pool[q], ForgetClosed(pool[q]))
    BY <1>0, <2>2, KeepsFacts
  <2>5. Keeps(pool[q], [ForgetClosed(pool[q]) EXCEPT !.approved = x, !.validating = y, !.moved = z])
    BY <1>0, <2>2, <2>4, KeepsFacts, KeepsTwice DEF Keeps
  <2> QED
    BY <1>0, <2>1, <2>2, <2>3, <2>5, OrdinaryPools DEF Ordinary
<1>12. CASE Discard(o)
  <2>1. DOMAIN op' = Operations /\ \A s \in Operations : Stays(s)
    BY <1>0, <1>12 DEF Discard, Stays, Shaped, NoOperation, Left
  <2>2. op[o].pc # "out"
    BY <1>12 DEF Discard
  <2>3. PICK x : pool' = [pool EXCEPT ![q] = ForgetClosed([pool[q] EXCEPT !.live = x])]
    BY <1>0, <1>12, <2>2 DEF Discard, q
  <2>4. Keeps(pool[q], [pool[q] EXCEPT !.live = x])
    BY <1>0, <2>2, KeepsFacts
  <2>5. Keeps(pool[q], ForgetClosed([pool[q] EXCEPT !.live = x]))
    BY <1>0, <2>2, <2>4, KeepsFacts, KeepsTwice DEF Keeps
  <2> QED
    BY <1>0, <2>1, <2>2, <2>3, <2>5, OrdinaryPools DEF Ordinary
<1> QED
  BY <1>1, <1>2, <1>3, <1>4, <1>5, <1>6, <1>7, <1>8, <1>9, <1>10, <1>11, <1>12

----------------------------------------------------------------------------
(* Who joins, leaves and retires *)

\* An ordinary step keeps the invariant.
LEMMA OrdinaryKeeps ==
    ASSUME IInv, Ordinary
    PROVE  IInv'
<1>1. Shaped'
  BY DEF IInv, Shaped, Ordinary, Keeps, Stays, PoolShaped
<1>2. ASSUME NEW q \in Pools PROVE UsersOf(q)' = UsersOf(q)
  BY DEF Ordinary, Stays, UsersOf, Left
<1>3. UsersCounted'
  BY <1>2 DEF IInv, UsersCounted, Ordinary, Keeps
<1>4. UnusedPoolsExpire'
  BY DEF IInv, UnusedPoolsExpire, CurrentPools, Current, Ordinary, Keeps
<1> QED
  BY <1>1, <1>3, <1>4 DEF IInv

\* The pools of R are retired, and one of them may be unused and its timer done.
Retires(R) ==
  /\ DOMAIN pool' = Pools
  /\ \A q \in Pools :
       /\ PoolShaped(pool'[q]) /\ pool'[q].users = pool[q].users
       /\ pool'[q].current <=> pool[q].current /\ q \notin R
       /\ pool[q].armed /\ q \notin R => pool'[q].armed \/ pool'[q].fired
       /\ pool[q].fired /\ ~pool'[q].fired /\ pool'[q].current => pool'[q].users # 0
  /\ op' = op

LEMMA RetiresKeeps ==
    ASSUME IInv, NEW R, Retires(R)
    PROVE  IInv'
<1>1. Shaped'
  BY DEF IInv, Shaped, Retires
<1>2. UsersCounted'
  BY DEF IInv, UsersCounted, UsersOf, Retires
<1>3. UnusedPoolsExpire'
  BY DEF IInv, Shaped, UnusedPoolsExpire, CurrentPools, Current, Retires
<1> QED
  BY <1>1, <1>2, <1>3 DEF IInv

LEMMA RetiredFacts ==
    ASSUME NEW p, PoolShaped(p)
    PROVE  /\ PoolShaped(Retired(p)) /\ Retired(p).users = p.users /\ Retired(p).fired = p.fired
           /\ ~Retired(p).current
  BY DEF PoolShaped, Retired, NoPool

\* Timers, invalidation and shutdown retire pools and move no operation.
LEMMA RetireSteps ==
    ASSUME IInv,
           \/ \E q \in Pools : TimerFires(q) \/ EvictIdle(q)
           \/ \E a \in Accesses : Invalidate(a.profile)
           \/ Close
    PROVE  \E R \in SUBSET Pools : Retires(R)
<1>0. DOMAIN pool = Pools /\ \A q \in Pools : PoolShaped(pool[q])
  BY DEF IInv, Shaped
<1>1. ASSUME NEW R \in SUBSET Pools, RetireAll(R), op' = op PROVE Retires(R)
  BY <1>0, <1>1, RetiredFacts DEF RetireAll, Retires, PoolShaped
<1>2. ASSUME NEW q \in Pools, TimerFires(q) PROVE Retires({})
  BY <1>0, <1>2 DEF TimerFires, Retires, PoolShaped, NoPool
<1>3. ASSUME NEW q \in Pools, EvictIdle(q) PROVE \E R \in SUBSET Pools : Retires(R)
  <2> DEFINE p == [pool[q] EXCEPT !.fired = FALSE]
  <2>1. /\ PoolShaped(p) /\ p.users = pool[q].users /\ p.armed = pool[q].armed
        /\ p.current = pool[q].current /\ ~p.fired
    BY <1>0 DEF PoolShaped, NoPool
  <2> HIDE DEF p
  <2>2. CASE Current(q) /\ p.users = 0
    <3>1. pool' = [pool EXCEPT ![q] = Retired(p)] /\ op' = op
      BY <1>3, <2>2 DEF EvictIdle, p
    <3>2. Retires({q})
      BY <1>0, <2>1, <3>1, RetiredFacts DEF Retires, PoolShaped
    <3> QED
      BY <3>2
  <2>3. CASE ~(Current(q) /\ p.users = 0)
    <3>1. pool' = [pool EXCEPT ![q] = p] /\ op' = op
      BY <1>3, <2>3 DEF EvictIdle, p
    <3>2. Retires({})
      BY <1>0, <2>1, <2>3, <3>1 DEF Retires, PoolShaped, Current
    <3> QED
      BY <3>2
  <2> QED
    BY <2>2, <2>3
<1>4. ASSUME NEW a \in Accesses, Invalidate(a.profile) PROVE \E R \in SUBSET Pools : Retires(R)
  <2>1. {q \in CurrentPools : pool[q].access.profile = a.profile} \in SUBSET Pools
    BY DEF CurrentPools
  <2> QED
    BY <1>1, <1>4, <2>1 DEF Invalidate
<1>5. ASSUME Close PROVE \E R \in SUBSET Pools : Retires(R)
  <2>1. CurrentPools \in SUBSET Pools
    BY DEF CurrentPools
  <2> QED
    BY <1>1, <1>5, <2>1 DEF Close
<1> QED
  BY <1>2, <1>3, <1>4, <1>5

\* A new user of the pool q, whose timer stops.
LEMMA OneMore ==
    ASSUME IInv, NEW o \in Operations, NEW q \in Pools, op[o].pc = "out",
           op'[o].pc = "slot", op'[o].pool = q, \A r \in Operations \ {o} : op'[r] = op[r]
    PROVE  /\ UsersOf(q)' = UsersOf(q) \union {o} /\ o \notin UsersOf(q)
           /\ IsFiniteSet(UsersOf(q)') /\ Cardinality(UsersOf(q)') = Cardinality(UsersOf(q)) + 1
           /\ \A r \in Pools \ {q} : UsersOf(r)' = UsersOf(r)
<1>1. UsersOf(q)' = UsersOf(q) \union {o} /\ o \notin UsersOf(q)
  BY DEF UsersOf, Left
<1>2. \A r \in Pools \ {q} : UsersOf(r)' = UsersOf(r)
  BY DEF UsersOf, Left
<1>3. IsFiniteSet(UsersOf(q))
  BY DEF IInv, UsersCounted
<1> QED
  BY <1>1, <1>2, <1>3, FS_AddElement

\* What Enter does to an operation.
LEMMA EnterEffect ==
    ASSUME Shaped, NEW o \in Operations, NEW a, NEW q, Enter(o, a, q)
    PROVE  /\ op'[o].pc = "slot" /\ op'[o].pool = q /\ \A r \in Operations \ {o} : op'[r] = op[r]
           /\ DOMAIN op' = Operations /\ DOMAIN op'[o] = DOMAIN NoOperation
  BY DEF Enter, Shaped, NoOperation

LEMMA JoinedFacts ==
    ASSUME NEW p, PoolShaped(p)
    PROVE  /\ PoolShaped(Joined(p)) /\ Joined(p).users = p.users + 1 /\ Joined(p).users # 0
           /\ Joined(p).current = p.current
  BY DEF PoolShaped, Joined, NoPool

\* An operation joins its profile's pool.
LEMMA CheckoutSharedKeeps ==
    ASSUME IInv, NEW o \in Operations, NEW a \in Accesses, CheckoutShared(o, a)
    PROVE  IInv'
<1>1. PICK q \in CurrentPools : pool' = [pool EXCEPT ![q] = Joined(@)] /\ Enter(o, a, q)
  BY DEF CheckoutShared
<1>2. q \in Pools /\ op[o].pc = "out" /\ Shaped /\ DOMAIN pool = Pools /\ \A r \in Pools : PoolShaped(pool[r])
  BY DEF CheckoutShared, CurrentPools, IInv, Shaped
<1>3. pool'[q] = Joined(pool[q]) /\ DOMAIN pool' = Pools /\ \A r \in Pools \ {q} : pool'[r] = pool[r]
  BY <1>1, <1>2
<1>4. /\ op'[o].pc = "slot" /\ op'[o].pool = q /\ \A r \in Operations \ {o} : op'[r] = op[r]
      /\ DOMAIN op' = Operations /\ DOMAIN op'[o] = DOMAIN NoOperation
  BY <1>1, <1>2, EnterEffect
<1>5. Shaped'
  BY <1>2, <1>3, <1>4, JoinedFacts DEF Shaped
<1>6. UsersCounted'
  BY <1>2, <1>3, <1>4, OneMore, JoinedFacts DEF IInv, UsersCounted
<1>7. UnusedPoolsExpire'
  BY <1>2, <1>3, JoinedFacts DEF IInv, UnusedPoolsExpire, CurrentPools, Current
<1> QED
  BY <1>5, <1>6, <1>7 DEF IInv

\* What CheckoutNew does to the pools: "new" is a new one with one user; those of
\* another access of its profile, and the victims, which nobody uses, are retired.
Stale(a) == {q \in CurrentPools : pool[q].access.profile = a.profile}

MakesPool(o, a, new, victims) ==
  /\ Unused(new) /\ Enter(o, a, new) /\ op[o].pc = "out"
  /\ \A q \in victims : pool[q].users = 0
  /\ DOMAIN pool' = Pools
  /\ pool'[new] = Joined([NoPool EXCEPT !.current = TRUE, !.access = a])
  /\ \A q \in Pools \ {new} :
       pool'[q] = IF q \in Stale(a) \union victims THEN Retired(pool[q]) ELSE pool[q]

LEMMA CheckoutNewEffect ==
    ASSUME IInv, NEW o \in Operations, NEW a \in Accesses, CheckoutNew(o, a)
    PROVE  \E new \in Pools, victims \in SUBSET CurrentPools : MakesPool(o, a, new, victims)
<1>1. PICK victims \in SUBSET (CurrentPools \ Stale(a)), new \in Pools :
        /\ \A q \in victims : pool[q].users = 0
        /\ Unused(new) /\ Enter(o, a, new)
        /\ pool' = [q \in Pools |->
             IF q = new
               THEN Joined([NoPool EXCEPT !.current = TRUE, !.access = a])
             ELSE IF q \in Stale(a) \union victims
               THEN Retired(pool[q]) ELSE pool[q]]
  BY DEF CheckoutNew, Stale
<1>2. victims \in SUBSET CurrentPools /\ op[o].pc = "out"
  BY DEF CheckoutNew
<1>3. /\ DOMAIN pool' = Pools
      /\ pool'[new] = Joined([NoPool EXCEPT !.current = TRUE, !.access = a])
      /\ \A q \in Pools \ {new} :
           pool'[q] = IF q \in Stale(a) \union victims THEN Retired(pool[q]) ELSE pool[q]
  BY <1>1
<1>4. MakesPool(o, a, new, victims)
  BY <1>1, <1>2, <1>3 DEF MakesPool
<1> QED
  BY <1>2, <1>4

\* An operation makes a pool; its name stood for nothing anybody uses.
LEMMA CheckoutNewKeeps ==
    ASSUME IInv, NEW o \in Operations, NEW a \in Accesses, CheckoutNew(o, a)
    PROVE  IInv'
<1>0. PICK new \in Pools, victims \in SUBSET CurrentPools : MakesPool(o, a, new, victims)
  BY CheckoutNewEffect
<1>1. /\ Unused(new) /\ Enter(o, a, new) /\ op[o].pc = "out"
      /\ DOMAIN pool' = Pools
      /\ pool'[new] = Joined([NoPool EXCEPT !.current = TRUE, !.access = a])
      /\ \A q \in Pools \ {new} :
           pool'[q] = IF q \in Stale(a) \union victims THEN Retired(pool[q]) ELSE pool[q]
  BY <1>0 DEF MakesPool
<1>2. Shaped /\ DOMAIN pool = Pools /\ \A r \in Pools : PoolShaped(pool[r])
  BY DEF IInv, Shaped
<1>3. /\ PoolShaped(pool'[new]) /\ pool'[new].users = 1
  <2> DEFINE p == [NoPool EXCEPT !.current = TRUE, !.access = a]
  <2>1. PoolShaped(p) /\ p.users = 0
    BY DEF PoolShaped, NoPool
  <2>2. pool'[new] = Joined(p)
    BY <1>1
  <2> HIDE DEF p
  <2> QED
    BY <2>1, <2>2, JoinedFacts
<1>4. /\ op'[o].pc = "slot" /\ op'[o].pool = new /\ \A r \in Operations \ {o} : op'[r] = op[r]
      /\ DOMAIN op' = Operations /\ DOMAIN op'[o] = DOMAIN NoOperation
  BY <1>1, <1>2, EnterEffect
<1>5. \A q \in Pools \ {new} :
        PoolShaped(pool'[q]) /\ pool'[q].users = pool[q].users /\ (pool'[q].current => pool'[q] = pool[q])
  BY <1>1, <1>2, RetiredFacts
<1>6. Shaped'
  BY <1>1, <1>2, <1>3, <1>4, <1>5 DEF Shaped
<1>7. UsersCounted'
  <2>1. UsersOf(new) = {}
    BY <1>1 DEF Unused, OperationsOf, UsersOf, Left
  <2>2. Cardinality(UsersOf(new)) = 0
    BY <2>1, FS_EmptySet
  <2>3. IsFiniteSet(UsersOf(new)') /\ Cardinality(UsersOf(new)') = 1
    BY <1>1, <1>4, <2>2, OneMore
  <2>4. \A r \in Pools \ {new} : UsersOf(r)' = UsersOf(r)
    BY <1>1, <1>4, OneMore
  <2> QED
    BY <1>3, <1>5, <2>3, <2>4 DEF IInv, UsersCounted
<1>8. UnusedPoolsExpire'
  BY <1>1, <1>3, <1>5 DEF IInv, UnusedPoolsExpire, CurrentPools, Current
<1> QED
  BY <1>6, <1>7, <1>8 DEF IInv

\* An operation leaves its pool, and the last one arms the timer.
LEMMA ReturnKeeps ==
    ASSUME IInv, NEW o \in Operations, Return(o)
    PROVE  IInv'
<1>0. PICK q \in Pools : q = op[o].pool /\ op[o].pc = "return"
  BY DEF Return, IInv, Shaped
<1>1. q = op[o].pool /\ op[o].pc = "return" /\ Shaped /\ DOMAIN pool = Pools /\ PoolShaped(pool[q])
  BY <1>0 DEF IInv, Shaped
<1>2. /\ op'[o].pc \in {"free", "close"} /\ op'[o].pool = q /\ \A r \in Operations \ {o} : op'[r] = op[r]
      /\ DOMAIN op' = Operations /\ DOMAIN op'[o] = DOMAIN NoOperation
  BY <1>1 DEF Return, Shaped, NoOperation
<1>3. /\ o \in UsersOf(q) /\ UsersOf(q)' = UsersOf(q) \ {o}
      /\ \A r \in Pools \ {q} : UsersOf(r)' = UsersOf(r)
  BY <1>1, <1>2 DEF UsersOf, Left
<1>4. IsFiniteSet(UsersOf(q)) /\ pool[q].users = Cardinality(UsersOf(q))
  BY <1>1 DEF IInv, UsersCounted
<1>5. IsFiniteSet(UsersOf(q)') /\ Cardinality(UsersOf(q)') = pool[q].users - 1 /\ pool[q].users # 0
  <2>1. IsFiniteSet(UsersOf(q)') /\ Cardinality(UsersOf(q)') = Cardinality(UsersOf(q)) - 1
    BY <1>3, <1>4, FS_RemoveElement
  <2>2. Cardinality(UsersOf(q)) # 0
    BY <1>3, <1>4, FS_EmptySet
  <2> QED
    BY <1>4, <2>1, <2>2
<1>6. PICK x, y :
        /\ pool' = [pool EXCEPT ![q] = [ForgetClosed(pool[q]) EXCEPT !.idle = x, !.users = @ - 1, !.armed = @ \/ y]]
        /\ y <=> ForgetClosed(pool[q]).users = 1 /\ Current(q)
  BY <1>1 DEF Return
<1>7. DOMAIN ForgetClosed(pool[q]) = DOMAIN NoPool /\ ForgetClosed(pool[q]).users = pool[q].users
      /\ ForgetClosed(pool[q]).armed = pool[q].armed /\ ForgetClosed(pool[q]).fired = pool[q].fired
      /\ ForgetClosed(pool[q]).current = pool[q].current
  BY <1>1, KeepsFacts DEF PoolShaped, Keeps
<1>8. /\ DOMAIN pool' = Pools /\ \A r \in Pools \ {q} : pool'[r] = pool[r]
      /\ DOMAIN pool'[q] = DOMAIN NoPool
      /\ pool'[q].users = pool[q].users - 1 /\ pool'[q].fired = pool[q].fired
      /\ pool'[q].current = pool[q].current
      /\ pool'[q].armed = (pool[q].armed \/ y)
  BY <1>1, <1>6, <1>7 DEF NoPool
<1>9. pool[q].users \in Nat /\ pool'[q].users \in Nat
  BY <1>1, <1>5, <1>8 DEF PoolShaped
<1>10. Shaped'
  BY <1>1, <1>2, <1>8, <1>9 DEF Shaped, PoolShaped
<1>11. UsersCounted'
  <2>1. ASSUME NEW r \in Pools \ {q}
        PROVE  IsFiniteSet(UsersOf(r)') /\ pool'[r].users = Cardinality(UsersOf(r)')
    BY <1>3, <1>8 DEF IInv, UsersCounted
  <2>2. IsFiniteSet(UsersOf(q)') /\ pool'[q].users = Cardinality(UsersOf(q)')
    BY <1>5, <1>8
  <2>3. ASSUME NEW r \in Pools
        PROVE  IsFiniteSet(UsersOf(r)') /\ pool'[r].users = Cardinality(UsersOf(r)')
    <3>1. CASE r = q
      BY <2>2, <3>1 DEF UsersOf
    <3>2. CASE r # q
      BY <2>1, <3>2
    <3> QED
      BY <3>1, <3>2
  <2> QED
    BY <2>3 DEF UsersCounted
<1>12. pool'[q].users = 0 /\ pool'[q].current => pool'[q].armed
  <2>1. pool'[q].users = 0 => pool[q].users = 1
    BY <1>8, <1>9
  <2> QED
    BY <1>6, <1>7, <1>8, <2>1 DEF Current
<1>13. UnusedPoolsExpire'
  BY <1>8, <1>12 DEF IInv, UnusedPoolsExpire, CurrentPools, Current
<1> QED
  BY <1>10, <1>11, <1>13 DEF IInv

\* The steps of connections, and none at all.
LEMMA OtherSteps ==
    ASSUME IInv, (\E c \in Conns : Cleanup(c) \/ CloseDoomed(c)) \/ UNCHANGED vars
    PROVE  IInv'
<1>1. pool' = pool /\ op' = op
  BY DEF Cleanup, CloseDoomed, vars
<1> QED
  BY <1>1, SamePools, SameOperations, OrdinaryKeeps DEF IInv, Ordinary

----------------------------------------------------------------------------
(* The theorems *)

\* IInv is inductive: "users" counts those who joined a pool and have not left,
\* whoever retires or replaces the pool meanwhile.
THEOREM PoolInvariant == Spec => []IInv
<1>1. Init => IInv
  BY InitInv
<1>2. IInv /\ [Next]_vars => IInv'
  <2> SUFFICES ASSUME IInv, [Next]_vars PROVE IInv'
    OBVIOUS
  <2>1. ASSUME NEW o \in Operations, Step(o) PROVE IInv'
    <3>1. CASE \E a \in Accesses : CheckoutShared(o, a) \/ CheckoutNew(o, a)
      BY <3>1, CheckoutSharedKeeps, CheckoutNewKeeps
    <3>2. CASE Return(o)
      BY <3>2, ReturnKeeps
    <3>3. CASE ~Return(o) /\ ~\E a \in Accesses : CheckoutShared(o, a) \/ CheckoutNew(o, a)
      <4>1. Ordinary
        BY <2>1, <3>3, OrdinarySteps DEF Step, IInv
      <4> QED
        BY <4>1, OrdinaryKeeps
    <3> QED
      BY <3>1, <3>2, <3>3
  <2>2. CASE (\E c \in Conns : Cleanup(c) \/ CloseDoomed(c)) \/ UNCHANGED vars
    BY <2>2, OtherSteps
  <2>3. CASE \/ \E q \in Pools : TimerFires(q) \/ EvictIdle(q)
             \/ \E a \in Accesses : Invalidate(a.profile)
             \/ Close
    BY <2>3, RetireSteps, RetiresKeeps
  <2> QED
    BY <2>1, <2>2, <2>3 DEF Next
<1> QED
  BY <1>1, <1>2, PTL DEF Spec

\* release arms the timer exactly when the last user leaves, and checkout stops
\* it: a pool nobody uses always has one, or a callback about to look at it.
THEOREM UnusedPoolsExpireThm == Spec => []UnusedPoolsExpire
<1>1. IInv => UnusedPoolsExpire
  BY DEF IInv
<1> QED
  BY <1>1, PoolInvariant, PTL

\* Neither the timer's callback nor the eviction at the limit of checkout retires
\* a pool while an operation is in it, although both read only a counter.
THEOREM EvictionSparesWorkThm == Spec => EvictionSparesWork
<1> DEFINE Spares ==
      \A q \in CurrentPools : \A o \in OperationsOf(q) :
        ~pool'[q].current /\ op[o].pc \notin {"close", "free"}
        => /\ pool'[q].fired = pool[q].fired
           /\ \A r \in Operations : op[r].pc = "out" /\ op'[r].pc # "out"
                => pool'[op'[r].pool].access.profile = pool[q].access.profile
<1>1. ASSUME IInv, [Next]_vars PROVE [Spares]_vars
  <2> SUFFICES ASSUME NEW q \in CurrentPools, NEW o \in OperationsOf(q),
                      ~pool'[q].current, op[o].pc \notin {"close", "free"}
               PROVE  /\ pool'[q].fired = pool[q].fired
                      /\ \A r \in Operations : op[r].pc = "out" /\ op'[r].pc # "out"
                           => pool'[op'[r].pool].access.profile = pool[q].access.profile
    OBVIOUS
  <2>0. /\ q \in Pools /\ pool[q].current /\ o \in UsersOf(q) /\ Shaped /\ PoolShaped(pool[q])
        /\ DOMAIN pool = Pools
    BY <1>1 DEF CurrentPools, Current, OperationsOf, UsersOf, Left, IInv, Shaped
  <2>1. pool[q].users # 0
    BY <1>1, <2>0, FS_EmptySet DEF IInv, UsersCounted
  <2>2. ASSUME Ordinary PROVE FALSE
    BY <2>0, <2>2 DEF Ordinary, Keeps
  <2>3. ASSUME NEW e \in Operations, NEW a \in Accesses, CheckoutShared(e, a) PROVE FALSE
    <3>1. PICK s \in CurrentPools : pool' = [pool EXCEPT ![s] = Joined(@)]
      BY <2>3 DEF CheckoutShared
    <3>2. PoolShaped(pool[s])
      BY <1>1 DEF IInv, Shaped, CurrentPools
    <3> QED
      BY <2>0, <3>1, <3>2, JoinedFacts
  <2>4. ASSUME NEW e \in Operations, Return(e) PROVE FALSE
    <3>1. PICK x, y, z : pool' = [pool EXCEPT ![op[e].pool] =
                           [ForgetClosed(pool[op[e].pool]) EXCEPT !.idle = x, !.users = y, !.armed = z]]
      BY <2>4 DEF Return
    <3>2. Keeps(pool[op[e].pool], ForgetClosed(pool[op[e].pool])) /\ DOMAIN pool[op[e].pool] = DOMAIN NoPool
      BY <1>1, <2>4, KeepsFacts DEF IInv, Shaped, PoolShaped, Return
    <3> QED
      BY <2>0, <3>1, <3>2 DEF Keeps, NoPool
  <2>5. ASSUME NEW c \in Conns, Cleanup(c) \/ CloseDoomed(c) PROVE FALSE
    BY <2>0, <2>5 DEF Cleanup, CloseDoomed
  <2>6. CASE UNCHANGED vars
    BY <2>0, <2>6 DEF vars
  <2>7. ASSUME NEW s \in Pools, TimerFires(s) PROVE FALSE
    BY <2>0, <2>7 DEF TimerFires, PoolShaped, NoPool
  <2>8. ASSUME NEW s \in Pools, EvictIdle(s) PROVE FALSE
    <3>1. s = q => pool'[q] = [pool[q] EXCEPT !.fired = FALSE]
      BY <2>0, <2>1, <2>8 DEF EvictIdle, Current, PoolShaped, NoPool
    <3>2. s # q => pool'[q] = pool[q]
      BY <2>0, <2>8 DEF EvictIdle
    <3> QED
      BY <2>0, <3>1, <3>2 DEF PoolShaped, NoPool
  <2>9. ASSUME NEW R, RetireAll(R), op' = op
        PROVE  /\ pool'[q].fired = pool[q].fired
               /\ \A r \in Operations : op[r].pc = "out" /\ op'[r].pc # "out"
                    => pool'[op'[r].pool].access.profile = pool[q].access.profile
    BY <2>0, <2>9, RetiredFacts DEF RetireAll
  <2>10. ASSUME NEW e \in Operations, NEW a \in Accesses, CheckoutNew(e, a)
         PROVE  /\ pool'[q].fired = pool[q].fired
                /\ \A r \in Operations : op[r].pc = "out" /\ op'[r].pc # "out"
                     => pool'[op'[r].pool].access.profile = pool[q].access.profile
    <3>0. PICK new \in Pools, victims \in SUBSET CurrentPools : MakesPool(e, a, new, victims)
      BY <1>1, <2>10, CheckoutNewEffect
    <3>1. /\ Unused(new) /\ Enter(e, a, new) /\ op[e].pc = "out"
          /\ \A s \in victims : pool[s].users = 0
          /\ DOMAIN pool' = Pools
          /\ pool'[new] = Joined([NoPool EXCEPT !.current = TRUE, !.access = a])
          /\ \A s \in Pools \ {new} :
               pool'[s] = IF s \in Stale(a) \union victims THEN Retired(pool[s]) ELSE pool[s]
      BY <3>0 DEF MakesPool
    <3>2. q # new
      BY <2>0, <3>1 DEF Unused, Current
    <3>3. q \notin victims
      BY <2>1, <3>1
    <3>4. q \in Stale(a)
      BY <2>0, <3>1, <3>2, <3>3
    <3>5. pool[q].access.profile = a.profile /\ pool'[q] = Retired(pool[q])
      BY <2>0, <3>1, <3>2, <3>4 DEF Stale
    <3>6. pool'[new].access = a
      BY <3>1 DEF Joined, NoPool
    <3>7. op'[e].pool = new /\ \A r \in Operations \ {e} : op'[r] = op[r]
      BY <2>0, <3>1, EnterEffect
    <3> QED
      BY <2>0, <3>5, <3>6, <3>7, RetiredFacts
  <2>11. ASSUME NEW e \in Operations, Step(e)
         PROVE  /\ pool'[q].fired = pool[q].fired
                /\ \A r \in Operations : op[r].pc = "out" /\ op'[r].pc # "out"
                     => pool'[op'[r].pool].access.profile = pool[q].access.profile
    <3>1. CASE Return(e) \/ \E a \in Accesses : CheckoutShared(e, a) \/ CheckoutNew(e, a)
      BY <2>3, <2>4, <2>10, <3>1
    <3>2. CASE ~Return(e) /\ ~\E a \in Accesses : CheckoutShared(e, a) \/ CheckoutNew(e, a)
      BY <2>0, <2>2, <2>11, <3>2, OrdinarySteps DEF Step
    <3> QED
      BY <3>1, <3>2
  <2>12. CASE (\E a \in Accesses : Invalidate(a.profile)) \/ Close
    BY <2>9, <2>12 DEF Invalidate, Close
  <2> QED
    BY <1>1, <2>5, <2>6, <2>7, <2>8, <2>11, <2>12 DEF Next
<1> QED
  BY <1>1, PoolInvariant, PTL DEF Spec, EvictionSparesWork

----------------------------------------------------------------------------
(* Connections *)

\* Where an operation holds no connection, where it holds one, and where a
\* slot is its own.
Empty == {"out", "slot", "pop", "dial", "free"}
Holding == {"approve", "waiting", "audit", "using", "discard", "drop", "close"}
Holds(o) == op[o].conn # NoConn

Idle(q) == Range(pool[q].idle)

ConnShaped ==
  /\ DOMAIN conn = Conns
  /\ \A c \in Conns : /\ DOMAIN conn[c] = DOMAIN NoConnection
                      /\ conn[c].state \in {"open", "closing", "gone"}
  /\ \A q \in Pools : /\ pool[q].idle \in Seq(Conns)
                      /\ pool[q].live \subseteq Conns
                      /\ pool[q].approved \in BOOLEAN
  /\ doomed \subseteq Conns
  /\ \A o \in Operations : /\ op[o].conn \in Conns \union {NoConn}
                           /\ op[o].slot \in BOOLEAN
                           /\ op[o].pc \in Empty \union Holding \union {"return"}

\* What an operation has is what its stage says.
Staged(o) ==
  /\ op[o].pc \in Empty => ~Holds(o)
  /\ op[o].pc \in Holding => Holds(o)
  /\ op[o].pc \in {"pop", "dial"} \/ Holds(o) => op[o].slot
  /\ op[o].pc \in {"out", "slot"} => ~op[o].slot
  /\ op[o].verdict # "none" => op[o].pc = "waiting"

\* A connection has one place at most: an operation, a place among the idle
\* ones of a pool, or a closer.
OnePlace ==
  /\ \A o, r \in Operations : Holds(o) /\ o # r => op[r].conn # op[o].conn
  /\ \A o \in Operations : Holds(o) => op[o].conn \notin doomed /\ \A q \in Pools : op[o].conn \notin Idle(q)
  /\ \A q, r \in Pools : q # r => Idle(q) \cap Idle(r) = {}
  /\ \A q \in Pools : Idle(q) \cap doomed = {}
  /\ \A q \in Pools : \A i, j \in DOMAIN pool[q].idle : i # j => pool[q].idle[i] # pool[q].idle[j]

\* It belongs to the pool where it is, and to no current one if it is doomed.
Belongs ==
  /\ \A o \in Operations : Holds(o) /\ ~Gone(op[o].conn) => conn[op[o].conn].pool = op[o].pool
  /\ \A q \in Pools : \A c \in Idle(q) : ~Gone(c) => conn[c].pool = q
  /\ \A c \in doomed, q \in CurrentPools : ~Gone(c) => conn[c].pool # q

\* What is not in the map has no idle connections and no approval.
RetiredBare ==
  /\ \A q \in Pools : ~Current(q) => pool[q].idle = <<>> /\ ~pool[q].approved
  /\ closed => CurrentPools = {}
  /\ \A o \in Operations : op[o].pc = "close" => ~Current(op[o].pool)

\* Those who have a slot of the pool q, and those who have, or may dial, a
\* connection of it.
SlotsOf(q) == {o \in Operations : op[o].slot /\ op[o].pool = q}
Busy(o) == op[o].pc = "dial" \/ Holds(o)
BusyOf(q) == {o \in Operations : Busy(o) /\ op[o].pool = q}

\* "slots" counts the first; the idle connections and the second fit in.
Fits(q) ==
  /\ IsFiniteSet(SlotsOf(q)) /\ pool[q].slots = Cardinality(SlotsOf(q)) /\ pool[q].slots <= Slots
  /\ IsFiniteSet(Idle(q)) /\ Cardinality(Idle(q)) + Cardinality(BusyOf(q)) <= Slots

Capacity == \A q \in Pools : Fits(q)

\* Pools that an operation may still reach.
Alive(q) == Current(q) \/ OperationsOf(q) # {}

\* The operation o has the connection c of the pool q.
Has(o, c, q) == op[o].conn = c /\ op[o].pool = q
Audited(o) == op[o].pc \in {"waiting", "audit"}
Uses(o) == op[o].pc = "using" \/ op[o].verdict = "ok"

\* What a pool remembers is its own; it remembers the connections that await
\* its audit, and not one that is being dropped.
Registered ==
  /\ \A q \in Pools : Alive(q) => \A c \in pool[q].live : ~Gone(c) => conn[c].pool = q
  /\ \A o \in Operations, c \in Conns, q \in Pools : Has(o, c, q) =>
       /\ Audited(o) /\ ~Gone(c) => c \in pool[q].live
       /\ op[o].pc = "drop" => c \notin pool[q].live

\* An approval stands for every connection that its pool remembers.
Vouched ==
  /\ \A q \in Pools : pool[q].approved => \A c \in pool[q].live : ~Gone(c) => c \in vouched
  /\ \A o \in Operations, c \in Conns : op[o].conn = c /\ Uses(o) /\ Open(c) => c \in vouched

Custody == ConnShaped /\ (\A o \in Operations : Staged(o)) /\ OnePlace /\ Belongs /\ RetiredBare /\ EveryConnectionOwned

\* The invariant of the connections, beside IInv.
CInv == Custody /\ Capacity /\ Registered /\ Vouched

----------------------------------------------------------------------------
(* Views of the steps *)

\* The operation o, and only it, moves on in its pool.
OpView(o, pc, c, s, v) ==
  /\ op'[o].pc = pc /\ op'[o].conn = c /\ op'[o].slot = s /\ op'[o].verdict = v
  /\ op'[o].pool = op[o].pool
  /\ \A r \in Operations \ {o} : op'[r] = op[r]

\* forgetClosed leaves the places of a pool alone.
LEMMA ForgetView ==
    ASSUME NEW p, DOMAIN p = DOMAIN NoPool, p.approved \in BOOLEAN
    PROVE  LET f == ForgetClosed(p)
           IN  /\ DOMAIN f = DOMAIN NoPool
               /\ f.idle = p.idle /\ f.slots = p.slots /\ f.current = p.current
               /\ f.users = p.users /\ f.fired = p.fired /\ f.armed = p.armed
               /\ f.live = {c \in p.live : ~Gone(c)}
               /\ f.approved \in BOOLEAN
               /\ f.approved <=> p.approved /\ f.live # {}
<1> DEFINE live == {c \in p.live : ~Gone(c)}
           lost == live = {} /\ p.approved
           moved == p.moved \/ (lost /\ p.validating)
<1>1. ForgetClosed(p) = [p EXCEPT !.live = live, !.approved = @ /\ ~lost, !.moved = @ \/ (lost /\ p.validating)]
  BY DEF ForgetClosed
<1>2. /\ ForgetClosed(p).live = live /\ ForgetClosed(p).approved = (p.approved /\ ~lost)
      /\ DOMAIN ForgetClosed(p) = DOMAIN NoPool
      /\ ForgetClosed(p).idle = p.idle /\ ForgetClosed(p).slots = p.slots /\ ForgetClosed(p).current = p.current
      /\ ForgetClosed(p).users = p.users /\ ForgetClosed(p).fired = p.fired /\ ForgetClosed(p).armed = p.armed
  <2> HIDE DEF live, lost
  <2> QED
    BY <1>1 DEF NoPool
<1> QED
  BY <1>2

\* The place of the last element that is open, 0 if there is none.
LEMMA LastOpen ==
    ASSUME NEW s \in Seq(Conns), NEW k, k = SelectLastInSeq(s, Open)
    PROVE  /\ k \in 0..Len(s)
           /\ k # 0 => Open(s[k])
           /\ \A j \in k+1..Len(s) : ~Open(s[j])
<1> DEFINE I == {i \in 1..Len(s) : Open(s[i])}
<1>0. Len(s) \in Nat
  BY LenProperties
<1>1. k = IF I # {} THEN CHOOSE x \in I : \A y \in I : x >= y ELSE 0
  BY DEF SelectLastInSeq, Max
<1>2. CASE I = {}
  BY <1>0, <1>1, <1>2
<1>3. CASE I # {}
  <2> DEFINE T == {n \in Nat : Len(s) - n \in I}
  <2>1. T \subseteq Nat /\ T # {}
    <3>1. PICK i \in I : TRUE
      BY <1>3
    <3>2. Len(s) - i \in Nat /\ Len(s) - (Len(s) - i) = i
      BY <1>0
    <3> QED
      BY <3>1, <3>2
  <2>2. PICK n \in T : \A m \in T : ~(<<m, n>> \in OpToRel(<, Nat))
    BY <2>1, NatLessThanWellFounded, WFMin
  <2>3. \A m \in T : ~(m < n)
    BY <2>1, <2>2 DEF OpToRel
  <2>4. \A y \in I : Len(s) - n >= y
    <3> TAKE y \in I
    <3>1. Len(s) - y \in Nat /\ Len(s) - (Len(s) - y) = y
      BY <1>0
    <3>2. ~(Len(s) - y < n)
      BY <2>3, <3>1
    <3> QED
      BY <1>0, <3>1, <3>2
  <2>5. \E x \in I : \A y \in I : x >= y
    BY <2>4
  <2>6. k \in I /\ \A y \in I : k >= y
    BY <1>1, <1>3, <2>5
  <2>7. k \in 1..Len(s) /\ Open(s[k])
    BY <2>6
  <2>8. ASSUME NEW j \in k+1..Len(s) PROVE ~Open(s[j])
    <3>1. j \in 1..Len(s) /\ ~(k >= j)
      BY <1>0, <2>7
    <3> QED
      BY <2>6, <3>1
  <2>9. k \in 0..Len(s)
    BY <1>0, <2>7
  <2> HIDE DEF I
  <2> QED
    BY <2>7, <2>8, <2>9
<1> QED
  BY <1>2, <1>3

\* The elements of a part of a sequence.
LEMMA PartOf ==
    ASSUME NEW s \in Seq(Conns), NEW m \in Nat \ {0}, NEW n \in Int, n <= Len(s)
    PROVE  /\ SubSeq(s, m, n) \in Seq(Conns)
           /\ DOMAIN SubSeq(s, m, n) = 1..(n - m + 1)
           /\ \A i \in 1..(n - m + 1) : SubSeq(s, m, n)[i] = s[m + i - 1] /\ m + i - 1 \in m..n
           /\ Range(SubSeq(s, m, n)) = {s[j] : j \in m..n}
           /\ m..n \subseteq DOMAIN s
<1>1. Len(s) \in Nat /\ DOMAIN s = 1..Len(s) /\ \A i \in 1..Len(s) : s[i] \in Conns
  BY LenProperties, ElementOfSeq
<1>2. m..n \subseteq 1..Len(s)
  BY <1>1
<1>3. \A i \in m..n : s[i] \in Conns
  BY <1>1, <1>2
<1>4. /\ SubSeq(s, m, n) \in Seq(Conns) /\ Len(SubSeq(s, m, n)) = IF m <= n THEN n - m + 1 ELSE 0
      /\ \A i \in 1..(n - m + 1) : SubSeq(s, m, n)[i] = s[m + i - 1]
  BY <1>3, SubSeqProperties
<1>5. DOMAIN SubSeq(s, m, n) = 1..Len(SubSeq(s, m, n))
  BY <1>4, LenProperties
<1>6. DOMAIN SubSeq(s, m, n) = 1..(n - m + 1)
  <2>1. CASE m <= n
    BY <1>4, <1>5, <2>1
  <2>2. CASE ~(m <= n)
    BY <1>4, <1>5, <2>2
  <2> QED
    BY <2>1, <2>2
<1>7. \A i \in 1..(n - m + 1) : m + i - 1 \in m..n
  OBVIOUS
<1>8. \A j \in m..n : j - m + 1 \in 1..(n - m + 1) /\ m + (j - m + 1) - 1 = j
  OBVIOUS
<1>9. Range(SubSeq(s, m, n)) = {s[j] : j \in m..n}
  <2>1. \A x \in Range(SubSeq(s, m, n)) : x \in {s[j] : j \in m..n}
    BY <1>4, <1>6, <1>7 DEF Range
  <2>2. ASSUME NEW j \in m..n PROVE s[j] \in Range(SubSeq(s, m, n))
    <3>1. SubSeq(s, m, n)[j - m + 1] = s[j] /\ j - m + 1 \in DOMAIN SubSeq(s, m, n)
      BY <1>4, <1>6, <1>8
    <3> QED
      BY <3>1 DEF Range
  <2> QED
    BY <2>1, <2>2
<1> QED
  BY <1>1, <1>2, <1>4, <1>6, <1>7, <1>9

LEMMA Fields ==
    ASSUME IInv, ConnShaped
    PROVE  /\ DOMAIN pool = Pools /\ DOMAIN op = Operations /\ DOMAIN conn = Conns
           /\ \A q \in Pools : /\ DOMAIN pool[q] = DOMAIN NoPool /\ pool[q].approved \in BOOLEAN
                               /\ pool[q].idle \in Seq(Conns) /\ pool[q].live \subseteq Conns
           /\ \A o \in Operations : /\ DOMAIN op[o] = DOMAIN NoOperation
                                    /\ op[o].pc # "out" => op[o].pool \in Pools
  BY DEF IInv, Shaped, PoolShaped, ConnShaped

\* The pool q differs from before as stated, and no other pool does.
Others(q) == \A r \in Pools \ {q} : pool'[r] = pool[r]
\* A pool keeps its idle connections, its place in the map and its slots.
SamePlaces(q) ==
  pool'[q].idle = pool[q].idle /\ pool'[q].current = pool[q].current /\ pool'[q].slots = pool[q].slots
\* forgetClosed has run in the pool q.
Forgotten(q) ==
  /\ pool'[q].live = {c \in pool[q].live : ~Gone(c)}
  /\ pool'[q].approved => pool[q].approved /\ pool'[q].live # {}

\* Steps that move an operation on and nothing else.
LEMMA PlainView ==
    ASSUME IInv, ConnShaped, NEW o \in Operations,
           \/ AbandonSlot(o) \/ DialFails(o) \/ Wake(o) \/ AbandonWait(o)
           \/ \E healthy \in BOOLEAN : EndWork(o, healthy)
    PROVE  /\ UNCHANGED <<pool, conn, doomed, closed, vouched>>
           /\ \E pc, v : /\ OpView(o, pc, op[o].conn, op[o].slot, v)
                         /\ \/ op[o].pc = "slot" /\ pc = "return" /\ v = op[o].verdict
                            \/ op[o].pc = "dial" /\ pc = "return" /\ v = op[o].verdict
                            \/ op[o].pc = "waiting" /\ pc = "using" /\ v = "none" /\ op[o].verdict = "ok"
                            \/ op[o].pc = "waiting" /\ pc = "discard" /\ v = "none"
                            \/ op[o].pc = "using" /\ pc \in {"return", "discard"} /\ v = op[o].verdict
<1>0. DOMAIN op = Operations /\ DOMAIN op[o] = DOMAIN NoOperation
  BY Fields
<1>1. CASE AbandonSlot(o)
  BY <1>0, <1>1 DEF AbandonSlot, OpView, NoOperation
<1>2. CASE DialFails(o)
  BY <1>0, <1>2 DEF DialFails, OpView, NoOperation
<1>3. CASE Wake(o)
  BY <1>0, <1>3 DEF Wake, OpView, NoOperation
<1>4. CASE AbandonWait(o)
  BY <1>0, <1>4 DEF AbandonWait, OpView, NoOperation
<1>5. CASE \E healthy \in BOOLEAN : EndWork(o, healthy)
  BY <1>0, <1>5 DEF EndWork, OpView, NoOperation
<1> QED
  BY <1>1, <1>2, <1>3, <1>4, <1>5

LEMMA AcquireSlotView ==
    ASSUME IInv, ConnShaped, NEW o \in Operations, AcquireSlot(o), NEW q \in Pools, q = op[o].pool
    PROVE  /\ UNCHANGED <<conn, doomed, closed, vouched>>
           /\ op[o].pc = "slot" /\ OpView(o, "pop", op[o].conn, TRUE, op[o].verdict)
           /\ Others(q) /\ pool[q].slots < Slots /\ pool'[q].slots = pool[q].slots + 1
           /\ pool'[q].idle = pool[q].idle /\ pool'[q].current = pool[q].current
           /\ pool'[q].live = pool[q].live /\ pool'[q].approved = pool[q].approved
<1>0. /\ DOMAIN op = Operations /\ DOMAIN op[o] = DOMAIN NoOperation
      /\ DOMAIN pool = Pools /\ DOMAIN pool[q] = DOMAIN NoPool
  BY Fields
<1>1. op[o].pc = "slot" /\ OpView(o, "pop", op[o].conn, TRUE, op[o].verdict)
  BY <1>0 DEF AcquireSlot, OpView, NoOperation
<1>2. pool' = [pool EXCEPT ![q].slots = @ + 1] /\ pool[q].slots < Slots
      /\ UNCHANGED <<conn, doomed, closed, vouched>>
  BY DEF AcquireSlot
<1> QED
  BY <1>0, <1>1, <1>2 DEF Others, NoPool

LEMMA FreeSlotView ==
    ASSUME IInv, ConnShaped, NEW o \in Operations, FreeSlot(o), NEW q \in Pools, q = op[o].pool
    PROVE  /\ UNCHANGED <<conn, doomed, closed, vouched>>
           /\ op[o].pc = "free" /\ op'[o] = NoOperation /\ \A r \in Operations \ {o} : op'[r] = op[r]
           /\ Others(q) /\ pool'[q].slots = IF op[o].slot THEN pool[q].slots - 1 ELSE pool[q].slots
           /\ pool'[q].idle = pool[q].idle /\ pool'[q].current = pool[q].current
           /\ pool'[q].approved = pool[q].approved
           /\ pool'[q].live = pool[q].live \/ (pool'[q].live = {} /\ ~Current(q) /\ OperationsOf(q) = {o})
<1>0. /\ DOMAIN op = Operations /\ DOMAIN op[o] = DOMAIN NoOperation
      /\ DOMAIN pool = Pools /\ DOMAIN pool[q] = DOMAIN NoPool
  BY Fields
<1>1. op[o].pc = "free" /\ op'[o] = NoOperation /\ \A r \in Operations \ {o} : op'[r] = op[r]
  BY <1>0 DEF FreeSlot
<1>2. /\ pool' = [pool EXCEPT ![q].slots = IF op[o].slot THEN @ - 1 ELSE @,
                              ![q].live = IF Current(q) \/ OperationsOf(q) # {o} THEN @ ELSE {}]
      /\ UNCHANGED <<conn, doomed, closed, vouched>>
  BY DEF FreeSlot
<1>3. PICK x, y : /\ pool' = [pool EXCEPT ![q].slots = x, ![q].live = y]
                  /\ x = IF op[o].slot THEN pool[q].slots - 1 ELSE pool[q].slots
                  /\ y = pool[q].live \/ (y = {} /\ ~Current(q) /\ OperationsOf(q) = {o})
  BY <1>0, <1>2
<1> QED
  BY <1>0, <1>1, <1>2, <1>3 DEF Others, NoPool

\* The first region of approvePool.
LEMMA ApproveView ==
    ASSUME IInv, ConnShaped, NEW o \in Operations, Approve(o), NEW q \in Pools, q = op[o].pool
    PROVE  /\ UNCHANGED <<conn, doomed, closed>> /\ op[o].pc = "approve"
           /\ Others(q) /\ SamePlaces(q)
           /\ pool'[q].live = {c \in pool[q].live : ~Gone(c)} \union {op[o].conn}
           /\ pool'[q].approved \in BOOLEAN
           /\ pool'[q].approved <=> pool[q].approved /\ \E c \in pool[q].live : ~Gone(c)
           /\ \E pc : /\ OpView(o, pc, op[o].conn, op[o].slot, op[o].verdict)
                      /\ pc \in {"using", "waiting", "audit"} /\ (pc = "using" => pool'[q].approved)
           /\ vouched' = IF Survivors(q) = {} THEN vouched \ {op[o].conn}
                         ELSE IF pool'[q].approved THEN vouched \union {op[o].conn} ELSE vouched
<1>0. /\ DOMAIN op = Operations /\ DOMAIN op[o] = DOMAIN NoOperation
      /\ DOMAIN pool = Pools /\ DOMAIN pool[q] = DOMAIN NoPool /\ pool[q].approved \in BOOLEAN
  BY Fields
<1> DEFINE f == ForgetClosed(pool[q])
           p == [f EXCEPT !.live = @ \union {op[o].conn}]
           next == IF p.approved THEN "using" ELSE IF p.validating THEN "waiting" ELSE "audit"
<1>1. /\ op[o].pc = "approve"
      /\ pool' = [pool EXCEPT ![q] = [p EXCEPT !.validating = @ \/ next = "audit"]]
      /\ op' = [op EXCEPT ![o].pc = next]
      /\ vouched' = IF Survivors(q) = {} THEN vouched \ {op[o].conn}
                    ELSE IF p.approved THEN vouched \union {op[o].conn} ELSE vouched
      /\ UNCHANGED <<conn, doomed, closed>>
  BY DEF Approve
<1>2. /\ DOMAIN f = DOMAIN NoPool
      /\ f.idle = pool[q].idle /\ f.slots = pool[q].slots /\ f.current = pool[q].current
      /\ f.live = {c \in pool[q].live : ~Gone(c)}
      /\ f.approved \in BOOLEAN
      /\ f.approved <=> pool[q].approved /\ f.live # {}
  BY <1>0, ForgetView
<1> HIDE DEF f
<1>3. /\ DOMAIN p = DOMAIN NoPool
      /\ p.idle = f.idle /\ p.slots = f.slots /\ p.current = f.current /\ p.approved = f.approved
      /\ p.live = f.live \union {op[o].conn}
  BY <1>2 DEF NoPool
<1> HIDE DEF p
<1>4. next \in {"using", "waiting", "audit"} /\ (next = "using" => p.approved)
  OBVIOUS
<1> HIDE DEF next
<1>5. PICK x : pool' = [pool EXCEPT ![q] = [p EXCEPT !.validating = x]]
  BY <1>1
<1>6. /\ pool'[q].idle = p.idle /\ pool'[q].slots = p.slots /\ pool'[q].current = p.current
      /\ pool'[q].approved = p.approved /\ pool'[q].live = p.live /\ Others(q)
  BY <1>0, <1>3, <1>5 DEF NoPool, Others
<1>7. OpView(o, next, op[o].conn, op[o].slot, op[o].verdict)
  BY <1>0, <1>1 DEF OpView, NoOperation
<1> QED
  BY <1>1, <1>2, <1>3, <1>4, <1>6, <1>7 DEF SamePlaces

\* The second region.
LEMMA AuditEndsView ==
    ASSUME IInv, ConnShaped, NEW o \in Operations, NEW good \in BOOLEAN, AuditEnds(o, good),
           NEW q \in Pools, q = op[o].pool
    PROVE  /\ UNCHANGED <<conn, doomed, closed>> /\ op[o].pc = "audit"
           /\ Others(q) /\ SamePlaces(q)
           /\ pool'[q].live = {c \in pool[q].live : ~Gone(c)}
           /\ pool'[q].approved \in BOOLEAN /\ (pool'[q].approved => Current(q))
           /\ vouched' = IF pool'[q].approved THEN vouched \union pool'[q].live ELSE vouched
           /\ op'[o].pc = IF pool'[q].approved THEN "using" ELSE "discard"
           /\ op'[o].verdict = op[o].verdict
           /\ \A r \in Operations : /\ op'[r].conn = op[r].conn /\ op'[r].slot = op[r].slot
                                    /\ op'[r].pool = op[r].pool
           /\ \A r \in Operations \ {o} :
                /\ op'[r].pc = op[r].pc
                /\ \/ op'[r].verdict = op[r].verdict
                   \/ /\ op[r].pc = "waiting" /\ op[r].pool = q
                      /\ (op'[r].verdict = "ok" => pool'[q].approved)
<1>0. /\ DOMAIN op = Operations /\ \A r \in Operations : DOMAIN op[r] = DOMAIN NoOperation
      /\ DOMAIN pool = Pools /\ DOMAIN pool[q] = DOMAIN NoPool /\ pool[q].approved \in BOOLEAN
  BY Fields
<1> DEFINE f == ForgetClosed(pool[q])
           ok == good /\ Current(q) /\ ~f.moved /\ Open(op[o].conn)
<1>1. /\ op[o].pc = "audit"
      /\ pool' = [pool EXCEPT ![q] = [f EXCEPT !.approved = ok, !.validating = FALSE, !.moved = FALSE]]
      /\ op' = [r \in Operations |->
           IF r = o THEN [op[o] EXCEPT !.pc = IF ok THEN "using" ELSE "discard"]
           ELSE IF op[r].pc = "waiting" /\ op[r].pool = q /\ op[r].verdict = "none"
             THEN [op[r] EXCEPT !.verdict = IF ok THEN "ok" ELSE "failed"]
           ELSE op[r]]
      /\ vouched' = IF ok THEN vouched \union f.live ELSE vouched
      /\ UNCHANGED <<conn, doomed, closed>>
  BY DEF AuditEnds
<1>2. /\ DOMAIN f = DOMAIN NoPool
      /\ f.idle = pool[q].idle /\ f.slots = pool[q].slots /\ f.current = pool[q].current
      /\ f.live = {c \in pool[q].live : ~Gone(c)}
  BY <1>0, ForgetView
<1>3. ok \in BOOLEAN /\ (ok => Current(q))
  OBVIOUS
<1> HIDE DEF f, ok
<1>4. /\ pool'[q].idle = f.idle /\ pool'[q].slots = f.slots /\ pool'[q].current = f.current
      /\ pool'[q].approved = ok /\ pool'[q].live = f.live /\ Others(q)
  BY <1>0, <1>1, <1>2 DEF NoPool, Others
<1>5. /\ op'[o].pc = IF ok THEN "using" ELSE "discard"
      /\ op'[o].verdict = op[o].verdict
      /\ \A r \in Operations : /\ op'[r].conn = op[r].conn /\ op'[r].slot = op[r].slot
                               /\ op'[r].pool = op[r].pool
  BY <1>0, <1>1 DEF NoOperation
<1>6. \A r \in Operations \ {o} :
        /\ op'[r].pc = op[r].pc
        /\ \/ op'[r].verdict = op[r].verdict
           \/ op[r].pc = "waiting" /\ op[r].pool = q /\ (op'[r].verdict = "ok" => ok)
  BY <1>0, <1>1 DEF NoOperation
<1> QED
  BY <1>1, <1>2, <1>3, <1>4, <1>5, <1>6 DEF SamePlaces

\* The operation o takes the k-th idle connection of its pool q, the last that
\* is open, and drops those after it; k is 0 when none is.
Pops(o, q, k) ==
  /\ k # 0 => Open(pool[q].idle[k])
  /\ \A j \in k+1..Len(pool[q].idle) : ~Open(pool[q].idle[j])
  /\ pool'[q].idle = SubSeq(pool[q].idle, 1, k - 1)
  /\ pool'[q].live = {c \in pool[q].live : ~Gone(c)}
                       \ Range(SubSeq(pool[q].idle, k + 1, Len(pool[q].idle)))
  /\ OpView(o, IF k = 0 THEN "dial" ELSE "approve",
            IF k = 0 THEN NoConn ELSE pool[q].idle[k], op[o].slot, op[o].verdict)

LEMMA PopIdleView ==
    ASSUME IInv, ConnShaped, NEW o \in Operations, PopIdle(o), NEW q \in Pools, q = op[o].pool
    PROVE  /\ UNCHANGED <<conn, doomed, closed, vouched>> /\ op[o].pc = "pop"
           /\ Others(q) /\ pool'[q].current = pool[q].current /\ pool'[q].slots = pool[q].slots
           /\ pool'[q].approved \in BOOLEAN /\ (pool'[q].approved => pool[q].approved)
           /\ \E k \in 0..Len(pool[q].idle) : Pops(o, q, k)
<1>0. /\ DOMAIN op = Operations /\ DOMAIN op[o] = DOMAIN NoOperation
      /\ DOMAIN pool = Pools /\ DOMAIN pool[q] = DOMAIN NoPool /\ pool[q].approved \in BOOLEAN
      /\ pool[q].idle \in Seq(Conns)
  BY Fields
<1> DEFINE f == ForgetClosed(pool[q])
           k == SelectLastInSeq(f.idle, Open)
           skipped == Range(SubSeq(f.idle, k + 1, Len(f.idle)))
           rest == [f EXCEPT !.idle = SubSeq(@, 1, k - 1), !.live = @ \ skipped]
<1>1. /\ op[o].pc = "pop"
      /\ pool' = [pool EXCEPT ![q] = IF skipped = {} THEN rest ELSE ForgetClosed(rest)]
      /\ op' = [op EXCEPT ![o].pc = IF k = 0 THEN "dial" ELSE "approve",
                          ![o].conn = IF k = 0 THEN NoConn ELSE f.idle[k]]
      /\ UNCHANGED <<conn, doomed, closed, vouched>>
  BY DEF PopIdle
<1>2. /\ DOMAIN f = DOMAIN NoPool
      /\ f.idle = pool[q].idle /\ f.slots = pool[q].slots /\ f.current = pool[q].current
      /\ f.live = {c \in pool[q].live : ~Gone(c)}
      /\ f.approved \in BOOLEAN
      /\ f.approved <=> pool[q].approved /\ f.live # {}
  BY <1>0, ForgetView
<1> HIDE DEF f
<1>3. /\ k \in 0..Len(f.idle)
      /\ k # 0 => Open(f.idle[k])
      /\ \A j \in k+1..Len(f.idle) : ~Open(f.idle[j])
  BY <1>0, <1>2, LastOpen
<1> HIDE DEF k, skipped
<1>4. /\ DOMAIN rest = DOMAIN NoPool
      /\ rest.idle = SubSeq(f.idle, 1, k - 1) /\ rest.slots = f.slots /\ rest.current = f.current
      /\ rest.approved = f.approved /\ rest.live = f.live \ skipped
  BY <1>2 DEF NoPool
<1> HIDE DEF rest
<1>5. LET g == ForgetClosed(rest)
      IN  /\ g.idle = rest.idle /\ g.slots = rest.slots /\ g.current = rest.current
          /\ g.live = {c \in rest.live : ~Gone(c)}
          /\ g.approved \in BOOLEAN /\ (g.approved => rest.approved)
  BY <1>2, <1>4, ForgetView
<1>6. {c \in rest.live : ~Gone(c)} = rest.live
  BY <1>2, <1>4
<1>7. /\ pool'[q].idle = rest.idle /\ pool'[q].slots = rest.slots /\ pool'[q].current = rest.current
      /\ pool'[q].approved \in BOOLEAN /\ (pool'[q].approved => rest.approved)
      /\ pool'[q].live = rest.live /\ Others(q)
  <2>1. CASE skipped = {}
    BY <1>0, <1>1, <1>2, <1>4, <2>1 DEF Others
  <2>2. CASE skipped # {}
    BY <1>0, <1>1, <1>5, <1>6, <2>2 DEF Others
  <2> QED
    BY <2>1, <2>2
<1>8. OpView(o, IF k = 0 THEN "dial" ELSE "approve", IF k = 0 THEN NoConn ELSE f.idle[k],
             op[o].slot, op[o].verdict)
  BY <1>0, <1>1 DEF OpView, NoOperation
<1>9. pool'[q].live = {c \in pool[q].live : ~Gone(c)} \ Range(SubSeq(f.idle, k + 1, Len(f.idle)))
  BY <1>2, <1>4, <1>7 DEF skipped
<1> QED
  BY <1>1, <1>2, <1>3, <1>4, <1>7, <1>8, <1>9 DEF Pops

LEMMA DialView ==
    ASSUME IInv, ConnShaped, NEW o \in Operations, Dial(o)
    PROVE  /\ UNCHANGED <<pool, doomed, closed, vouched>> /\ op[o].pc = "dial"
           /\ \E c \in Conns : /\ Undialled(c) /\ OpView(o, "approve", c, op[o].slot, op[o].verdict)
                               /\ conn'[c].pool = op[o].pool /\ conn'[c].state = "open"
                               /\ DOMAIN conn'[c] = DOMAIN NoConnection
                               /\ DOMAIN conn' = Conns
                               /\ \A d \in Conns \ {c} : conn'[d] = conn[d]
<1>0. DOMAIN op = Operations /\ DOMAIN op[o] = DOMAIN NoOperation /\ DOMAIN conn = Conns
  BY Fields
<1>1. PICK c \in Conns : /\ Undialled(c)
                         /\ conn' = [conn EXCEPT ![c] = [ state |-> "open", pool |-> op[o].pool,
                                                          profile |-> op[o].profile ]]
                         /\ op' = [op EXCEPT ![o].pc = "approve", ![o].conn = c]
  BY DEF Dial
<1>2. OpView(o, "approve", c, op[o].slot, op[o].verdict)
  BY <1>0, <1>1 DEF OpView, NoOperation
<1>3. /\ conn'[c].pool = op[o].pool /\ conn'[c].state = "open"
      /\ DOMAIN conn'[c] = DOMAIN NoConnection /\ DOMAIN conn' = Conns
      /\ \A d \in Conns \ {c} : conn'[d] = conn[d]
  BY <1>0, <1>1 DEF NoConnection
<1> QED
  BY <1>1, <1>2, <1>3 DEF Dial

\* One connection, and only it, comes nearer to its end.
Fades(c) ==
  /\ DOMAIN conn' = Conns /\ \A d \in Conns \ {c} : conn'[d] = conn[d]
  /\ DOMAIN conn'[c] = DOMAIN NoConnection /\ conn'[c].state \in {"open", "closing", "gone"}
  /\ ~(Open(c))' /\ ((~Gone(c))' => ~Gone(c) /\ conn'[c].pool = conn[c].pool)

LEMMA ClosedView ==
    ASSUME IInv, ConnShaped, NEW c \in Conns, conn' = ClosedConn(c)
    PROVE  Fades(c)
<1>0. DOMAIN conn = Conns /\ DOMAIN conn[c] = DOMAIN NoConnection /\ conn[c].state \in {"open", "closing", "gone"}
  BY DEF ConnShaped
<1>1. CASE Open(c)
  BY <1>0, <1>1 DEF ClosedConn, Fades, Open, Gone, NoConnection
<1>2. CASE ~Open(c)
  BY <1>0, <1>2 DEF ClosedConn, Fades, Open, Gone
<1> QED
  BY <1>1, <1>2

\* A socket breaks, or is cleaned up.
LEMMA FadingView ==
    ASSUME IInv, ConnShaped, \A o \in Operations : Staged(o),
           \/ \E o \in Operations : Break(o)
           \/ \E c \in Conns : Cleanup(c)
    PROVE  /\ UNCHANGED <<pool, op, doomed, closed>>
           /\ \E c \in Conns : Fades(c) /\ (vouched' = vouched \/ (vouched' = vouched \ {c} /\ (Gone(c))'))
<1>0. DOMAIN conn = Conns /\ \A c \in Conns : DOMAIN conn[c] = DOMAIN NoConnection
  BY DEF ConnShaped
<1>1. ASSUME NEW o \in Operations, Break(o)
      PROVE  /\ UNCHANGED <<pool, op, doomed, closed, vouched>>
             /\ \E c \in Conns : Fades(c)
  <2>1. op[o].conn \in Conns
    BY <1>1 DEF Break, Staged, Holding, Holds, ConnShaped
  <2>2. PICK c \in Conns : c = op[o].conn
    BY <2>1
  <2>3. Open(c) /\ conn' = [conn EXCEPT ![c].state = "closing"] /\ UNCHANGED <<pool, op, doomed, closed, vouched>>
    BY <1>1, <2>2 DEF Break
  <2>4. Fades(c)
    BY <1>0, <2>3 DEF Fades, Open, Gone, NoConnection
  <2> QED
    BY <2>3, <2>4
<1>2. ASSUME NEW c \in Conns, Cleanup(c)
      PROVE  UNCHANGED <<pool, op, doomed, closed>> /\ Fades(c) /\ vouched' = vouched \ {c} /\ (Gone(c))'
  BY <1>0, <1>2 DEF Cleanup, Fades, Open, Gone, NoConnection
<1> QED
  BY <1>1, <1>2

LEMMA CloseConnView ==
    ASSUME IInv, ConnShaped, NEW o \in Operations, Staged(o), CloseConn(o)
    PROVE  /\ UNCHANGED <<pool, doomed, closed>> /\ op[o].pc \in {"drop", "close"}
           /\ op[o].conn \in Conns /\ Fades(op[o].conn)
           /\ vouched' = vouched \ {op[o].conn}
           /\ OpView(o, IF op[o].pc = "drop" THEN "return" ELSE "free", NoConn, op[o].slot, op[o].verdict)
<1>0. DOMAIN op = Operations /\ DOMAIN op[o] = DOMAIN NoOperation
  BY Fields
<1>1. /\ op[o].pc \in {"drop", "close"} /\ conn' = ClosedConn(op[o].conn)
      /\ vouched' = vouched \ {op[o].conn}
      /\ op' = [op EXCEPT ![o].conn = NoConn, ![o].pc = IF @ = "drop" THEN "return" ELSE "free"]
      /\ UNCHANGED <<pool, doomed, closed>>
  BY DEF CloseConn
<1>2. op[o].conn \in Conns
  BY <1>1 DEF Staged, Holding, Holds, ConnShaped
<1>3. Fades(op[o].conn)
  <2>1. PICK c \in Conns : c = op[o].conn
    BY <1>2
  <2>2. Fades(c)
    BY <1>1, <2>1, ClosedView
  <2>3. \A d \in Conns : d = c <=> d = op[o].conn
    BY <2>1
  <2> QED
    BY <2>1, <2>2
<1>4. OpView(o, IF op[o].pc = "drop" THEN "return" ELSE "free", NoConn, op[o].slot, op[o].verdict)
  <2>1. CASE op[o].pc = "drop"
    BY <1>0, <1>1, <2>1 DEF OpView, NoOperation
  <2>2. CASE op[o].pc = "close"
    BY <1>0, <1>1, <2>2 DEF OpView, NoOperation
  <2> QED
    BY <1>1, <2>1, <2>2
<1> QED
  BY <1>1, <1>2, <1>3, <1>4

LEMMA CloseDoomedView ==
    ASSUME IInv, ConnShaped, NEW c \in Conns, CloseDoomed(c)
    PROVE  /\ UNCHANGED <<pool, op, closed>> /\ c \in doomed /\ doomed' = doomed \ {c}
           /\ vouched' = vouched \ {c} /\ Fades(c)
<1>1. /\ c \in doomed /\ conn' = ClosedConn(c) /\ doomed' = doomed \ {c} /\ vouched' = vouched \ {c}
      /\ UNCHANGED <<pool, op, closed>>
  BY DEF CloseDoomed
<1> QED
  BY <1>1, ClosedView

LEMMA DiscardView ==
    ASSUME IInv, ConnShaped, NEW o \in Operations, Discard(o), NEW q \in Pools, q = op[o].pool
    PROVE  /\ UNCHANGED <<conn, doomed, closed>> /\ op[o].pc = "discard"
           /\ Others(q) /\ SamePlaces(q)
           /\ pool'[q].live = {c \in pool[q].live \ {op[o].conn} : ~Gone(c)}
           /\ pool'[q].approved \in BOOLEAN /\ (pool'[q].approved => pool[q].approved)
           /\ vouched' = vouched \ {op[o].conn}
           /\ OpView(o, "drop", op[o].conn, op[o].slot, op[o].verdict)
<1>0. /\ DOMAIN op = Operations /\ DOMAIN op[o] = DOMAIN NoOperation
      /\ DOMAIN pool = Pools /\ DOMAIN pool[q] = DOMAIN NoPool /\ pool[q].approved \in BOOLEAN
  BY Fields
<1> DEFINE p == [pool[q] EXCEPT !.live = @ \ {op[o].conn}]
<1>1. /\ op[o].pc = "discard" /\ pool' = [pool EXCEPT ![q] = ForgetClosed(p)]
      /\ op' = [op EXCEPT ![o].pc = "drop"] /\ vouched' = vouched \ {op[o].conn}
      /\ UNCHANGED <<conn, doomed, closed>>
  BY DEF Discard
<1>2. /\ DOMAIN p = DOMAIN NoPool /\ p.approved = pool[q].approved
      /\ p.idle = pool[q].idle /\ p.slots = pool[q].slots /\ p.current = pool[q].current
      /\ p.live = pool[q].live \ {op[o].conn}
  BY <1>0 DEF NoPool
<1> HIDE DEF p
<1>3. LET f == ForgetClosed(p)
      IN  /\ f.idle = p.idle /\ f.slots = p.slots /\ f.current = p.current
          /\ f.live = {c \in p.live : ~Gone(c)}
          /\ f.approved \in BOOLEAN /\ (f.approved => p.approved)
  BY <1>0, <1>2, ForgetView
<1>4. pool'[q] = ForgetClosed(p) /\ Others(q)
  BY <1>0, <1>1 DEF Others
<1>5. OpView(o, "drop", op[o].conn, op[o].slot, op[o].verdict)
  BY <1>0, <1>1 DEF OpView, NoOperation
<1> QED
  BY <1>1, <1>2, <1>3, <1>4, <1>5 DEF SamePlaces

\* release: the connection goes to the idle ones of a current pool, or stays.
LEMMA ReturnView ==
    ASSUME IInv, ConnShaped, NEW o \in Operations, Return(o), NEW q \in Pools, q = op[o].pool
    PROVE  /\ UNCHANGED <<conn, doomed, closed, vouched>> /\ op[o].pc = "return"
           /\ Others(q) /\ pool'[q].current = pool[q].current /\ pool'[q].slots = pool[q].slots
           /\ pool'[q].live = {c \in pool[q].live : ~Gone(c)}
           /\ pool'[q].approved \in BOOLEAN /\ (pool'[q].approved => pool[q].approved)
           /\ \/ /\ op[o].conn # NoConn /\ Current(q) /\ ~closed
                 /\ pool'[q].idle = Append(pool[q].idle, op[o].conn)
                 /\ OpView(o, "free", NoConn, op[o].slot, op[o].verdict)
              \/ /\ op[o].conn = NoConn /\ pool'[q].idle = pool[q].idle
                 /\ OpView(o, "free", NoConn, op[o].slot, op[o].verdict)
              \/ /\ op[o].conn # NoConn /\ (~Current(q) \/ closed) /\ pool'[q].idle = pool[q].idle
                 /\ OpView(o, "close", op[o].conn, op[o].slot, op[o].verdict)
<1>0. /\ DOMAIN op = Operations /\ DOMAIN op[o] = DOMAIN NoOperation
      /\ DOMAIN pool = Pools /\ DOMAIN pool[q] = DOMAIN NoPool /\ pool[q].approved \in BOOLEAN
  BY Fields
<1> DEFINE f == ForgetClosed(pool[q])
           keep == op[o].conn # NoConn /\ Current(q) /\ ~closed
<1>1. /\ op[o].pc = "return"
      /\ pool' = [pool EXCEPT ![q] =
           [f EXCEPT !.idle = IF keep THEN Append(@, op[o].conn) ELSE @,
                     !.users = @ - 1,
                     !.armed = @ \/ (f.users = 1 /\ Current(q))]]
      /\ op' = [op EXCEPT ![o].conn = IF keep THEN NoConn ELSE op[o].conn,
                          ![o].pc = IF keep \/ op[o].conn = NoConn THEN "free" ELSE "close"]
      /\ UNCHANGED <<conn, doomed, closed, vouched>>
  BY DEF Return
<1>2. /\ DOMAIN f = DOMAIN NoPool
      /\ f.idle = pool[q].idle /\ f.slots = pool[q].slots /\ f.current = pool[q].current
      /\ f.live = {c \in pool[q].live : ~Gone(c)}
      /\ f.approved \in BOOLEAN /\ (f.approved => pool[q].approved)
  BY <1>0, ForgetView
<1> HIDE DEF f
<1>3. PICK x, y, z : /\ pool' = [pool EXCEPT ![q] = [f EXCEPT !.idle = x, !.users = y, !.armed = z]]
                     /\ x = IF keep THEN Append(f.idle, op[o].conn) ELSE f.idle
  BY <1>0, <1>1, <1>2
<1>4. /\ pool'[q].idle = x /\ pool'[q].slots = f.slots /\ pool'[q].current = f.current
      /\ pool'[q].approved = f.approved /\ pool'[q].live = f.live /\ Others(q)
  BY <1>0, <1>2, <1>3 DEF NoPool, Others
<1>5. CASE keep
  <2>1. OpView(o, "free", NoConn, op[o].slot, op[o].verdict)
    BY <1>0, <1>1, <1>5 DEF OpView, NoOperation
  <2> QED
    BY <1>1, <1>2, <1>3, <1>4, <1>5, <2>1
<1>6. CASE ~keep /\ op[o].conn = NoConn
  <2>1. OpView(o, "free", NoConn, op[o].slot, op[o].verdict)
    BY <1>0, <1>1, <1>6 DEF OpView, NoOperation
  <2> QED
    BY <1>1, <1>2, <1>3, <1>4, <1>6, <2>1
<1>7. CASE ~keep /\ op[o].conn # NoConn
  <2>1. OpView(o, "close", op[o].conn, op[o].slot, op[o].verdict)
    BY <1>0, <1>1, <1>7 DEF OpView, NoOperation
  <2> QED
    BY <1>1, <1>2, <1>3, <1>4, <1>7, <2>1
<1> QED
  BY <1>5, <1>6, <1>7

\* What a pool is to its connections.
SamePool(q) ==
  SamePlaces(q) /\ pool'[q].live = pool[q].live /\ pool'[q].approved = pool[q].approved

\* The pools of R go, those of N (one at most) come, and R's idle connections
\* are somebody's to close.
Replaces(R, N) ==
  /\ R \subseteq CurrentPools /\ N \subseteq Pools
  /\ \A q \in R : /\ pool'[q].idle = <<>> /\ ~pool'[q].current /\ pool'[q].approved = FALSE
                  /\ pool'[q].slots = pool[q].slots /\ pool'[q].live = pool[q].live
  /\ \A q \in N : /\ Unused(q) /\ pool'[q].current /\ pool'[q].approved = FALSE
                  /\ pool'[q].idle = <<>> /\ pool'[q].slots = 0 /\ pool'[q].live = {}
  /\ \A q \in Pools \ (R \union N) : SamePool(q)
  /\ doomed' = doomed \union UNION {Idle(q) : q \in R}
  /\ UNCHANGED <<conn, vouched>>

LEMMA RetiredView ==
    ASSUME NEW p, DOMAIN p = DOMAIN NoPool
    PROVE  /\ Retired(p).idle = <<>> /\ ~Retired(p).current /\ Retired(p).approved = FALSE
           /\ Retired(p).slots = p.slots /\ Retired(p).live = p.live
  BY DEF Retired, NoPool

LEMMA RetireAllView ==
    ASSUME IInv, ConnShaped, NEW R, R \subseteq CurrentPools, RetireAll(R), UNCHANGED <<conn, vouched>>
    PROVE  Replaces(R, {})
<1>0. /\ DOMAIN pool = Pools /\ \A q \in Pools : DOMAIN pool[q] = DOMAIN NoPool
      /\ R \subseteq Pools
  BY Fields DEF CurrentPools
<1>1. \A q \in R : pool'[q] = Retired(pool[q])
  BY <1>0 DEF RetireAll
<1>2. \A q \in Pools \ R : pool'[q] = pool[q]
  BY <1>0 DEF RetireAll
<1>3. doomed' = doomed \union UNION {Idle(q) : q \in R}
  BY DEF RetireAll, Idle
<1>4. \A q \in R : /\ pool'[q].idle = <<>> /\ ~pool'[q].current /\ pool'[q].approved = FALSE
                   /\ pool'[q].slots = pool[q].slots /\ pool'[q].live = pool[q].live
  <2> TAKE q \in R
  <2>1. DOMAIN pool[q] = DOMAIN NoPool /\ pool'[q] = Retired(pool[q])
    BY <1>0, <1>1
  <2> QED
    BY <2>1, RetiredView
<1>5. \A q \in Pools \ (R \union {}) : SamePool(q)
  BY <1>2 DEF SamePool, SamePlaces
<1> QED
  BY <1>3, <1>4, <1>5 DEF Replaces

\* Timers, invalidation and shutdown.
LEMMA RetiringView ==
    ASSUME IInv, ConnShaped,
           \/ \E q \in Pools : TimerFires(q) \/ EvictIdle(q)
           \/ \E a \in Accesses : Invalidate(a.profile)
           \/ Close
    PROVE  /\ op' = op
           /\ \E R : Replaces(R, {}) /\ (closed' = closed \/ R = CurrentPools)
<1>0. DOMAIN pool = Pools /\ \A q \in Pools : DOMAIN pool[q] = DOMAIN NoPool
  BY Fields
<1>1. ASSUME NEW q \in Pools, TimerFires(q) PROVE Replaces({}, {}) /\ UNCHANGED <<op, closed>>
  BY <1>0, <1>1 DEF TimerFires, Replaces, SamePool, SamePlaces, NoPool
<1>2. ASSUME NEW q \in Pools, EvictIdle(q)
      PROVE  UNCHANGED <<op, closed>> /\ \E R : Replaces(R, {})
  <2> DEFINE p == [pool[q] EXCEPT !.fired = FALSE]
  <2>1. /\ DOMAIN p = DOMAIN NoPool /\ p.idle = pool[q].idle /\ p.current = pool[q].current
        /\ p.slots = pool[q].slots /\ p.live = pool[q].live /\ p.approved = pool[q].approved
    BY <1>0 DEF NoPool
  <2> HIDE DEF p
  <2>2. CASE Current(q) /\ p.users = 0
    <3>1. /\ pool' = [pool EXCEPT ![q] = Retired(p)] /\ doomed' = doomed \union Range(p.idle)
          /\ UNCHANGED <<conn, op, closed, vouched>>
      BY <1>2, <2>2 DEF EvictIdle, p
    <3>2. UNION {Idle(r) : r \in {q}} = Range(p.idle)
      BY <2>1 DEF Idle
    <3>3. Replaces({q}, {})
      BY <1>0, <2>1, <2>2, <3>1, <3>2, RetiredView DEF Replaces, CurrentPools, SamePool, SamePlaces
    <3> QED
      BY <3>1, <3>3
  <2>3. CASE ~(Current(q) /\ p.users = 0)
    <3>1. pool' = [pool EXCEPT ![q] = p] /\ UNCHANGED <<conn, op, closed, vouched>> /\ doomed' = doomed
      BY <1>2, <2>3 DEF EvictIdle, p
    <3>2. Replaces({}, {})
      BY <1>0, <2>1, <3>1 DEF Replaces, SamePool, SamePlaces
    <3> QED
      BY <3>1, <3>2
  <2> QED
    BY <2>2, <2>3
<1>3. ASSUME NEW a \in Accesses, Invalidate(a.profile)
      PROVE  UNCHANGED <<op, closed>> /\ \E R : Replaces(R, {})
  <2>1. {q \in CurrentPools : pool[q].access.profile = a.profile} \subseteq CurrentPools
    OBVIOUS
  <2> QED
    BY <1>3, <2>1, RetireAllView DEF Invalidate
<1>4. CASE Close
  BY <1>4, RetireAllView DEF Close
<1> QED
  BY <1>1, <1>2, <1>3, <1>4

\* checkout
LEMMA EnterView ==
    ASSUME IInv, ConnShaped, NEW o \in Operations, NEW a, NEW q, Enter(o, a, q)
    PROVE  /\ op'[o].pc = "slot" /\ op'[o].pool = q /\ op'[o].conn = NoConn /\ op'[o].slot = FALSE
           /\ op'[o].verdict = "none"
           /\ \A r \in Operations \ {o} : op'[r] = op[r]
  BY Fields DEF Enter, NoOperation

LEMMA JoinedView ==
    ASSUME NEW p, DOMAIN p = DOMAIN NoPool
    PROVE  /\ Joined(p).idle = p.idle /\ Joined(p).current = p.current /\ Joined(p).slots = p.slots
           /\ Joined(p).live = p.live /\ Joined(p).approved = p.approved
  BY DEF Joined, NoPool

LEMMA CheckoutView ==
    ASSUME IInv, ConnShaped, NEW o \in Operations, NEW a \in Accesses, CheckoutShared(o, a) \/ CheckoutNew(o, a)
    PROVE  /\ op[o].pc = "out" /\ ~closed /\ closed' = closed
           /\ \E q \in Pools : \E R, N :
                /\ Replaces(R, N)
                /\ (N = {} /\ Current(q) /\ q \notin R) \/ N = {q}
                /\ op'[o].pc = "slot" /\ op'[o].pool = q /\ op'[o].conn = NoConn /\ op'[o].slot = FALSE
                /\ op'[o].verdict = "none"
                /\ \A r \in Operations \ {o} : op'[r] = op[r]
<1>0. DOMAIN pool = Pools /\ \A q \in Pools : DOMAIN pool[q] = DOMAIN NoPool
  BY Fields
<1>1. CASE CheckoutShared(o, a)
  <2>1. PICK q \in CurrentPools : pool' = [pool EXCEPT ![q] = Joined(@)] /\ Enter(o, a, q)
    BY <1>1 DEF CheckoutShared
  <2>2. UNCHANGED <<conn, doomed, closed, vouched>> /\ op[o].pc = "out" /\ ~closed
    BY <1>1 DEF CheckoutShared
  <2>3. q \in Pools /\ Current(q)
    BY DEF CurrentPools
  <2>4. SamePool(q) /\ \A r \in Pools \ {q} : SamePool(r)
    BY <1>0, <2>1, <2>3, JoinedView DEF SamePool, SamePlaces
  <2>5. Replaces({}, {})
    BY <2>2, <2>4 DEF Replaces
  <2> QED
    BY <2>1, <2>2, <2>3, <2>5, EnterView
<1>2. CASE CheckoutNew(o, a)
  <2>1. PICK new \in Pools, victims \in SUBSET CurrentPools :
          MakesPool(o, a, new, victims) /\ doomed' = doomed \union UNION {Idle(q) : q \in Stale(a) \union victims}
    <3>1. PICK victims \in SUBSET (CurrentPools \ Stale(a)), new \in Pools :
            /\ \A q \in victims : pool[q].users = 0
            /\ Unused(new) /\ Enter(o, a, new)
            /\ pool' = [q \in Pools |->
                 IF q = new
                   THEN Joined([NoPool EXCEPT !.current = TRUE, !.access = a])
                 ELSE IF q \in Stale(a) \union victims
                   THEN Retired(pool[q]) ELSE pool[q]]
            /\ doomed' = doomed \union UNION {Range(pool[q].idle) : q \in Stale(a) \union victims}
      BY <1>2 DEF CheckoutNew, Stale
    <3>2. victims \in SUBSET CurrentPools /\ op[o].pc = "out"
      BY <1>2 DEF CheckoutNew
    <3>3. /\ DOMAIN pool' = Pools
          /\ pool'[new] = Joined([NoPool EXCEPT !.current = TRUE, !.access = a])
          /\ \A q \in Pools \ {new} :
               pool'[q] = IF q \in Stale(a) \union victims THEN Retired(pool[q]) ELSE pool[q]
      BY <3>1
    <3>4. MakesPool(o, a, new, victims)
      BY <3>1, <3>2, <3>3 DEF MakesPool
    <3>5. doomed' = doomed \union UNION {Idle(q) : q \in Stale(a) \union victims}
      BY <3>1 DEF Idle
    <3> QED
      BY <3>2, <3>4, <3>5
  <2>2. UNCHANGED <<conn, closed, vouched>> /\ op[o].pc = "out" /\ ~closed
    BY <1>2 DEF CheckoutNew
  <2> DEFINE R == Stale(a) \union victims
  <2>3. R \subseteq CurrentPools /\ new \notin R /\ Unused(new) /\ R \subseteq Pools
    BY <2>1 DEF Stale, MakesPool, Unused, CurrentPools
  <2>4. \A q \in R : pool'[q] = Retired(pool[q])
    BY <2>1, <2>3 DEF MakesPool
  <2>5. \A q \in Pools \ (R \union {new}) : pool'[q] = pool[q]
    BY <2>1 DEF MakesPool
  <2>6. /\ pool'[new].current /\ pool'[new].approved = FALSE /\ pool'[new].idle = <<>>
        /\ pool'[new].slots = 0 /\ pool'[new].live = {}
    <3> DEFINE p == [NoPool EXCEPT !.current = TRUE, !.access = a]
    <3>1. /\ DOMAIN p = DOMAIN NoPool /\ p.idle = <<>> /\ p.current /\ p.slots = 0 /\ p.live = {}
          /\ p.approved = FALSE
      BY DEF NoPool
    <3>2. pool'[new] = Joined(p)
      BY <2>1 DEF MakesPool
    <3> HIDE DEF p
    <3> QED
      BY <3>1, <3>2, JoinedView
  <2>7. doomed' = doomed \union UNION {Idle(q) : q \in R}
    BY <2>1
  <2> HIDE DEF R
  <2>8. Replaces(R, {new})
    <3>1. \A q \in R : /\ pool'[q].idle = <<>> /\ ~pool'[q].current /\ pool'[q].approved = FALSE
                       /\ pool'[q].slots = pool[q].slots /\ pool'[q].live = pool[q].live
      <4> TAKE q \in R
      <4>1. DOMAIN pool[q] = DOMAIN NoPool /\ pool'[q] = Retired(pool[q])
        BY <1>0, <2>3, <2>4
      <4> QED
        BY <4>1, RetiredView
    <3>2. \A q \in Pools \ (R \union {new}) : SamePool(q)
      BY <2>5 DEF SamePool, SamePlaces
    <3> QED
      BY <2>2, <2>3, <2>6, <2>7, <3>1, <3>2 DEF Replaces
  <2>9. Enter(o, a, new)
    BY <2>1 DEF MakesPool
  <2> QED
    BY <2>2, <2>8, <2>9, EnterView
<1> QED
  BY <1>1, <1>2


----------------------------------------------------------------------------
(* Steps that leave every connection in its place *)

\* A connection comes nearer to its end, or stays as it is.
Older(c) ==
  /\ (Open(c))' => Open(c)
  /\ (~Gone(c))' => ~Gone(c) /\ conn'[c].pool = conn[c].pool

\* An operation keeps its connection, or lets go of one that is closed.
Keeper(o) ==
  /\ op'[o].conn # op[o].conn => op'[o].conn = NoConn /\ \A c \in Conns : op[o].conn = c => ~(Open(c))'
  /\ op'[o].pool # op[o].pool => op'[o].pc = "out"
  /\ op'[o].pc = "close" => op[o].pc = "close" \/ ~Current(op[o].pool)

Calm ==
  /\ ConnShaped' /\ closed' = closed
  /\ \A q \in Pools : /\ pool'[q].idle = pool[q].idle /\ pool'[q].current = pool[q].current
                      /\ pool'[q].approved => pool[q].approved \/ Current(q)
  /\ \A o \in Operations : Keeper(o) /\ (Staged(o))'
  /\ \A c \in Conns : Older(c)
  /\ doomed' \subseteq doomed /\ \A c \in doomed \ doomed' : ~(Open(c))'

LEMMA IdleConns ==
    ASSUME ConnShaped
    PROVE  \A q \in Pools : Idle(q) \subseteq Conns
<1> TAKE q \in Pools
<1>1. pool[q].idle \in Seq(Conns)
  BY DEF ConnShaped
<1>2. \A i \in DOMAIN pool[q].idle : pool[q].idle[i] \in Conns
  BY <1>1, LenProperties, ElementOfSeq
<1> QED
  BY <1>2 DEF Idle, Range

LEMMA CalmStep ==
    ASSUME IInv, Custody, Calm
    PROVE  Custody'
<1>1. \A o \in Operations : (Holds(o))' => Holds(o) /\ op'[o].conn = op[o].conn
  BY DEF Calm, Keeper, Holds
<1>2. \A q \in Pools : (Idle(q))' = Idle(q) /\ (Current(q))' = Current(q)
  BY DEF Calm, Idle, Current
<1>3. CurrentPools' = CurrentPools
  BY <1>2 DEF CurrentPools
<1>4. \A o \in Operations : Holds(o) => op[o].conn \in Conns
  BY DEF Custody, ConnShaped, Holds
<1>5. OnePlace'
  <2>1. \A o, r \in Operations : (Holds(o))' /\ o # r => op'[r].conn # op'[o].conn
    BY <1>1, <1>4 DEF Custody, OnePlace, Calm, Keeper, Holds
  <2>2. \A o \in Operations : (Holds(o))' => op'[o].conn \notin doomed' /\ \A q \in Pools : op'[o].conn \notin (Idle(q))'
    BY <1>1, <1>2 DEF Custody, OnePlace, Calm
  <2>3. \A q \in Pools : (Idle(q))' \cap doomed' = {}
    BY <1>2 DEF Custody, OnePlace, Calm
  <2>4. \A q \in Pools : pool'[q].idle = pool[q].idle
    BY DEF Calm
  <2> QED
    BY <1>2, <2>1, <2>2, <2>3, <2>4 DEF Custody, OnePlace
<1>6. Belongs'
  <2>1. ASSUME NEW o \in Operations, (Holds(o))', NEW c \in Conns, c = op'[o].conn, (~Gone(c))'
        PROVE  conn'[c].pool = op'[o].pool
    <3>1. Holds(o) /\ op[o].conn = c /\ ~Gone(c) /\ conn'[c].pool = conn[c].pool
      BY <1>1, <2>1 DEF Calm, Older
    <3>2. op'[o].pool = op[o].pool
      <4>1. op'[o].pc # "out"
        BY <2>1 DEF Calm, Staged, Empty
      <4> QED
        BY <4>1 DEF Calm, Keeper
    <3> QED
      BY <3>1, <3>2 DEF Custody, Belongs
  <2>2. ASSUME NEW q \in Pools, NEW c \in (Idle(q))', (~Gone(c))'
        PROVE  conn'[c].pool = q
    <3>1. c \in Idle(q) /\ c \in Conns
      BY <1>2, <2>2, IdleConns DEF Custody
    <3> QED
      BY <2>2, <3>1 DEF Calm, Older, Custody, Belongs
  <2>3. ASSUME NEW c \in doomed', NEW q \in CurrentPools', (~Gone(c))'
        PROVE  conn'[c].pool # q
    <3>1. c \in doomed /\ c \in Conns /\ q \in CurrentPools
      BY <1>3, <2>3 DEF Calm, Custody, ConnShaped
    <3> QED
      BY <2>3, <3>1 DEF Calm, Older, Custody, Belongs
  <2>4. ASSUME NEW o \in Operations, (Holds(o))' PROVE \E c \in Conns : c = op'[o].conn
    BY <1>1, <1>4, <2>4
  <2>5. \A o \in Operations : (Holds(o))' /\ (~Gone(op[o].conn))' => (conn[op[o].conn].pool = op[o].pool)'
    BY <2>1, <2>4 DEF Gone
  <2> QED
    BY <2>2, <2>3, <2>5 DEF Belongs
<1>7. RetiredBare'
  <2>1. \A q \in Pools : (~Current(q))' => pool'[q].idle = <<>> /\ ~pool'[q].approved
    BY <1>2 DEF Calm, Custody, RetiredBare
  <2>2. closed' => CurrentPools' = {}
    BY <1>3 DEF Calm, Custody, RetiredBare
  <2>3. ASSUME NEW o \in Operations, op'[o].pc = "close" PROVE ~(Current(op[o].pool))'
    <3>1. ~Current(op[o].pool) /\ op'[o].pool = op[o].pool
      BY <2>3 DEF Calm, Keeper, Custody, RetiredBare
    <3>2. op'[o].pool \in Pools
      <4>1. op[o].pc # "out"
        BY <2>3, <1>1 DEF Calm, Custody, Staged, Empty, Holding
      <4> QED
        BY <3>1, <4>1, Fields DEF Custody
    <3> QED
      BY <1>2, <3>1, <3>2 DEF Current
  <2> QED
    BY <2>1, <2>2, <2>3 DEF RetiredBare
<1>8. EveryConnectionOwned'
  <2> SUFFICES ASSUME NEW c \in Conns, (Open(c))'
               PROVE  \/ \E o \in Operations : op'[o].conn = c
                      \/ \E q \in CurrentPools' : c \in (Idle(q))'
                      \/ c \in doomed'
    BY DEF EveryConnectionOwned, Idle
  <2>1. Open(c)
    BY DEF Calm, Older
  <2>2. \/ \E o \in Operations : op[o].conn = c
        \/ \E q \in CurrentPools : c \in Idle(q)
        \/ c \in doomed
    BY <2>1 DEF Custody, EveryConnectionOwned, Idle
  <2>3. ASSUME NEW o \in Operations, op[o].conn = c PROVE op'[o].conn = c
    BY <2>3 DEF Calm, Keeper
  <2>4. ASSUME NEW q \in CurrentPools, c \in Idle(q) PROVE q \in CurrentPools' /\ c \in (Idle(q))'
    BY <1>2, <1>3, <2>4 DEF CurrentPools
  <2>5. c \in doomed => c \in doomed'
    BY DEF Calm
  <2> QED
    BY <2>2, <2>3, <2>4, <2>5
<1>9. ConnShaped' /\ \A o \in Operations : (Staged(o))'
  BY DEF Calm
<1> QED
  BY <1>5, <1>6, <1>7, <1>8, <1>9 DEF Custody

\* The parts of ConnShaped.
ConnsFit == DOMAIN conn = Conns /\ \A c \in Conns : /\ DOMAIN conn[c] = DOMAIN NoConnection
                                                   /\ conn[c].state \in {"open", "closing", "gone"}
PoolsFit == \A q \in Pools : pool[q].idle \in Seq(Conns) /\ pool[q].live \subseteq Conns /\ pool[q].approved \in BOOLEAN
OpsFit ==
  \A o \in Operations : /\ op[o].conn \in Conns \union {NoConn} /\ op[o].slot \in BOOLEAN
                        /\ op[o].pc \in Empty \union Holding \union {"return"}
                        /\ Staged(o)

LEMMA Fit ==
  /\ ConnShaped /\ (\A o \in Operations : Staged(o)) => ConnsFit /\ PoolsFit /\ OpsFit
  /\ (ConnsFit /\ PoolsFit /\ OpsFit /\ doomed \subseteq Conns)' => ConnShaped' /\ \A o \in Operations : (Staged(o))'
  BY DEF ConnShaped, ConnsFit, PoolsFit, OpsFit

LEMMA OpMoves ==
    ASSUME OpsFit, NEW o \in Operations, NEW pc, NEW c \in Conns \union {NoConn}, NEW s \in BOOLEAN, NEW v,
           OpView(o, pc, c, s, v),
           \/ pc \in Empty \ {"out", "slot"} /\ c = NoConn
           \/ pc \in Holding /\ c # NoConn
           \/ pc = "return",
           pc \in {"pop", "dial"} \/ c # NoConn => s,
           v # "none" => pc = "waiting"
    PROVE  OpsFit'
<1>1. ASSUME NEW r \in Operations, r # o
      PROVE  /\ op'[r].conn \in Conns \union {NoConn} /\ op'[r].slot \in BOOLEAN
             /\ op'[r].pc \in Empty \union Holding \union {"return"}
             /\ (Staged(r))'
  <2>1. op'[r] = op[r]
    BY <1>1 DEF OpView
  <2> QED
    BY <2>1 DEF OpsFit, Staged, Holds
<1>2. /\ op'[o].conn \in Conns \union {NoConn} /\ op'[o].slot \in BOOLEAN
      /\ op'[o].pc \in Empty \union Holding \union {"return"}
  BY DEF OpView
<1>3. (Staged(o))'
  BY DEF OpView, Staged, Holds, Empty, Holding
<1> QED
  BY <1>1, <1>2, <1>3 DEF OpsFit

LEMMA PoolMoves ==
    ASSUME PoolsFit, NEW q \in Pools, Others(q), pool'[q].idle \in Seq(Conns),
           pool'[q].live \subseteq Conns, pool'[q].approved \in BOOLEAN
    PROVE  PoolsFit'
  BY DEF PoolsFit, Others

LEMMA ConnFades ==
    ASSUME ConnsFit, NEW c \in Conns, Fades(c)
    PROVE  ConnsFit' /\ (\A d \in Conns : Older(d)) /\ ~(Open(c))'
<1>1. ConnsFit'
  BY DEF ConnsFit, Fades
<1>2. \A d \in Conns : Older(d)
  BY DEF Fades, Older, Open, Gone
<1> QED
  BY <1>1, <1>2 DEF Fades

\* No slot is taken or given back, and nobody comes to a connection.
Quiet ==
  /\ \A q \in Pools : pool'[q].idle = pool[q].idle /\ pool'[q].slots = pool[q].slots
  /\ \A o \in Operations : /\ op'[o].slot = op[o].slot
                           /\ (Busy(o))' => Busy(o)
                           /\ op[o].slot \/ Busy(o) => op'[o].pool = op[o].pool

LEMMA QuietMove ==
    ASSUME NEW o \in Operations, NEW pc, NEW c, NEW v, OpView(o, pc, c, op[o].slot, v),
           pc = "dial" \/ c # NoConn => Busy(o)
    PROVE  \A r \in Operations : /\ op'[r].slot = op[r].slot
                                 /\ (Busy(r))' => Busy(r)
                                 /\ op'[r].pool = op[r].pool
  BY DEF OpView, Busy, Holds

LEMMA SameKeepers ==
    ASSUME NEW o \in Operations, NEW pc, NEW s, NEW v, OpView(o, pc, op[o].conn, s, v),
           pc = "close" => op[o].pc = "close" \/ ~Current(op[o].pool)
    PROVE  \A r \in Operations : Keeper(r)
  BY DEF OpView, Keeper

LEMMA SameConns ==
    ASSUME conn' = conn
    PROVE  \A c \in Conns : Older(c)
  BY DEF Older, Open, Gone

LEMMA SamePoolsFit ==
    ASSUME PoolsFit, pool' = pool
    PROVE  PoolsFit'
  BY DEF PoolsFit

LEMMA SameConnsFit ==
    ASSUME ConnsFit, conn' = conn
    PROVE  ConnsFit'
  BY DEF ConnsFit

LEMMA PoolOf ==
    ASSUME IInv, Custody, NEW o \in Operations, op[o].pc # "out"
    PROVE  \E q \in Pools : q = op[o].pool
  BY Fields DEF Custody

LEMMA PlainCalm ==
    ASSUME IInv, Custody, NEW o \in Operations,
           \/ AbandonSlot(o) \/ DialFails(o) \/ Wake(o) \/ AbandonWait(o)
           \/ \E healthy \in BOOLEAN : EndWork(o, healthy)
    PROVE  Calm /\ Quiet
<1>0. ConnsFit /\ PoolsFit /\ OpsFit /\ doomed \subseteq Conns
  BY Fit DEF Custody, ConnShaped
<1>1. /\ UNCHANGED <<pool, conn, doomed, closed, vouched>>
      /\ \E pc, v : /\ OpView(o, pc, op[o].conn, op[o].slot, v)
                    /\ \/ op[o].pc = "slot" /\ pc = "return" /\ v = op[o].verdict
                       \/ op[o].pc = "dial" /\ pc = "return" /\ v = op[o].verdict
                       \/ op[o].pc = "waiting" /\ pc = "using" /\ v = "none" /\ op[o].verdict = "ok"
                       \/ op[o].pc = "waiting" /\ pc = "discard" /\ v = "none"
                       \/ op[o].pc = "using" /\ pc \in {"return", "discard"} /\ v = op[o].verdict
  BY PlainView DEF Custody
<1>2. PICK pc, v : /\ OpView(o, pc, op[o].conn, op[o].slot, v)
                   /\ \/ op[o].pc = "slot" /\ pc = "return" /\ v = op[o].verdict
                      \/ op[o].pc = "dial" /\ pc = "return" /\ v = op[o].verdict
                      \/ op[o].pc = "waiting" /\ pc = "using" /\ v = "none" /\ op[o].verdict = "ok"
                      \/ op[o].pc = "waiting" /\ pc = "discard" /\ v = "none"
                      \/ op[o].pc = "using" /\ pc \in {"return", "discard"} /\ v = op[o].verdict
  BY <1>1
<1>3. op[o].conn \in Conns \union {NoConn} /\ op[o].slot \in BOOLEAN /\ Staged(o)
  BY <1>0 DEF OpsFit
<1>4. /\ pc = "return" \/ (pc \in Holding /\ op[o].conn # NoConn)
      /\ op[o].conn # NoConn => op[o].slot
      /\ v = "none"
      /\ pc \notin {"close", "dial", "pop"}
  BY <1>2, <1>3 DEF Staged, Holding, Holds
<1>5. OpsFit'
  BY <1>0, <1>2, <1>3, <1>4, OpMoves
<1>6. \A r \in Operations : Keeper(r)
  BY <1>2, <1>4, SameKeepers
<1>7. \A r \in Operations : op'[r].slot = op[r].slot /\ ((Busy(r))' => Busy(r)) /\ op'[r].pool = op[r].pool
  BY <1>2, <1>4, QuietMove DEF Busy, Holds
<1>8. Calm
  BY <1>0, <1>1, <1>5, <1>6, Fit, SameConns, SamePoolsFit, SameConnsFit DEF Calm
<1> QED
  BY <1>1, <1>7, <1>8 DEF Quiet

LEMMA FadingCalm ==
    ASSUME IInv, Custody,
           \/ \E o \in Operations : Break(o)
           \/ \E c \in Conns : Cleanup(c)
    PROVE  Calm /\ Quiet
<1>0. ConnsFit /\ PoolsFit /\ OpsFit /\ doomed \subseteq Conns
  BY Fit DEF Custody, ConnShaped
<1>1. UNCHANGED <<pool, op, doomed, closed>> /\ \E c \in Conns : Fades(c)
  BY FadingView DEF Custody
<1>2. OpsFit'
  BY <1>0, <1>1 DEF OpsFit, Staged, Holds
<1>3. \A r \in Operations : Keeper(r)
  BY <1>1 DEF Keeper
<1>4. Calm
  BY <1>0, <1>1, <1>2, <1>3, Fit, ConnFades, SamePoolsFit DEF Calm
<1> QED
  BY <1>1, <1>4 DEF Quiet, Busy, Holds

LEMMA CloseDoomedCalm ==
    ASSUME IInv, Custody, NEW c \in Conns, CloseDoomed(c)
    PROVE  Calm /\ Quiet
<1>0. ConnsFit /\ PoolsFit /\ OpsFit /\ doomed \subseteq Conns
  BY Fit DEF Custody, ConnShaped
<1>1. UNCHANGED <<pool, op, closed>> /\ doomed' = doomed \ {c} /\ Fades(c)
  BY CloseDoomedView DEF Custody
<1>2. OpsFit'
  BY <1>0, <1>1 DEF OpsFit, Staged, Holds
<1>3. \A r \in Operations : Keeper(r)
  BY <1>1 DEF Keeper
<1>4. ConnsFit' /\ (\A d \in Conns : Older(d)) /\ ~(Open(c))'
  BY <1>0, <1>1, ConnFades
<1>5. Calm
  BY <1>0, <1>1, <1>2, <1>3, <1>4, Fit, SamePoolsFit DEF Calm
<1> QED
  BY <1>1, <1>5 DEF Quiet, Busy, Holds

LEMMA AcquireSlotCalm ==
    ASSUME IInv, Custody, NEW o \in Operations, AcquireSlot(o)
    PROVE  Calm
<1>0. ConnsFit /\ PoolsFit /\ OpsFit /\ doomed \subseteq Conns
  BY Fit DEF Custody, ConnShaped
<1>1. PICK q \in Pools : q = op[o].pool
  BY PoolOf DEF AcquireSlot
<1>2. /\ UNCHANGED <<conn, doomed, closed, vouched>>
      /\ op[o].pc = "slot" /\ OpView(o, "pop", op[o].conn, TRUE, op[o].verdict)
      /\ Others(q) /\ pool'[q].idle = pool[q].idle /\ pool'[q].current = pool[q].current
      /\ pool'[q].live = pool[q].live /\ pool'[q].approved = pool[q].approved
  BY <1>1, AcquireSlotView DEF Custody
<1>3. op[o].conn = NoConn /\ op[o].verdict = "none"
  BY <1>0, <1>2 DEF OpsFit, Staged, Empty, Holds
<1>4. OpsFit'
  BY <1>0, <1>2, <1>3, OpMoves DEF Empty
<1>5. PoolsFit'
  BY <1>0, <1>2, PoolMoves DEF PoolsFit
<1>6. \A r \in Operations : Keeper(r)
  BY <1>2, SameKeepers
<1> QED
  BY <1>0, <1>2, <1>4, <1>5, <1>6, Fit, SameConns, SameConnsFit DEF Calm, Others

LEMMA FreeSlotCalm ==
    ASSUME IInv, Custody, NEW o \in Operations, FreeSlot(o)
    PROVE  Calm
<1>0. ConnsFit /\ PoolsFit /\ OpsFit /\ doomed \subseteq Conns
  BY Fit DEF Custody, ConnShaped
<1>1. PICK q \in Pools : q = op[o].pool
  BY PoolOf DEF FreeSlot
<1>2. /\ UNCHANGED <<conn, doomed, closed, vouched>>
      /\ op[o].pc = "free" /\ op'[o] = NoOperation /\ \A r \in Operations \ {o} : op'[r] = op[r]
      /\ Others(q) /\ pool'[q].idle = pool[q].idle /\ pool'[q].current = pool[q].current
      /\ pool'[q].approved = pool[q].approved
      /\ pool'[q].live = pool[q].live \/ pool'[q].live = {}
  BY <1>1, FreeSlotView DEF Custody
<1>3. op[o].conn = NoConn
  BY <1>0, <1>2 DEF OpsFit, Staged, Empty, Holds
<1>4. OpsFit'
  <2>1. /\ op'[o].conn \in Conns \union {NoConn} /\ op'[o].slot \in BOOLEAN
        /\ op'[o].pc \in Empty \union Holding \union {"return"}
        /\ (Staged(o))'
    BY <1>2 DEF Staged, Holds, Empty, Holding, NoOperation
  <2>2. \A r \in Operations \ {o} :
           /\ op'[r].conn \in Conns \union {NoConn} /\ op'[r].slot \in BOOLEAN
           /\ op'[r].pc \in Empty \union Holding \union {"return"}
           /\ (Staged(r))'
    BY <1>0, <1>2 DEF OpsFit, Staged, Holds
  <2> QED
    BY <2>1, <2>2 DEF OpsFit
<1>5. PoolsFit'
  <2>1. /\ pool'[q].idle \in Seq(Conns) /\ pool'[q].live \subseteq Conns /\ pool'[q].approved \in BOOLEAN
    BY <1>0, <1>2 DEF PoolsFit
  <2> QED
    BY <1>0, <1>2, <2>1, PoolMoves
<1>6. \A r \in Operations : Keeper(r)
  BY <1>2, <1>3 DEF Keeper, NoOperation
<1> QED
  BY <1>0, <1>2, <1>4, <1>5, <1>6, Fit, SameConns, SameConnsFit DEF Calm, Others

LEMMA ApproveCalm ==
    ASSUME IInv, Custody, NEW o \in Operations, Approve(o)
    PROVE  Calm /\ Quiet
<1>0. ConnsFit /\ PoolsFit /\ OpsFit /\ doomed \subseteq Conns
  BY Fit DEF Custody, ConnShaped
<1>1. PICK q \in Pools : q = op[o].pool
  BY PoolOf DEF Approve
<1>2. /\ UNCHANGED <<conn, doomed, closed>> /\ op[o].pc = "approve"
      /\ Others(q) /\ SamePlaces(q)
      /\ pool'[q].live = {c \in pool[q].live : ~Gone(c)} \union {op[o].conn}
      /\ pool'[q].approved \in BOOLEAN
      /\ pool'[q].approved => pool[q].approved
      /\ \E pc : /\ OpView(o, pc, op[o].conn, op[o].slot, op[o].verdict)
                 /\ pc \in {"using", "waiting", "audit"}
  BY <1>1, ApproveView DEF Custody
<1>3. PICK pc \in {"using", "waiting", "audit"} : OpView(o, pc, op[o].conn, op[o].slot, op[o].verdict)
  BY <1>2
<1>4. op[o].conn \in Conns /\ op[o].conn # NoConn /\ op[o].verdict = "none" /\ op[o].slot /\ op[o].slot \in BOOLEAN
  BY <1>0, <1>2 DEF OpsFit, Staged, Holding, Holds
<1>5. OpsFit'
  BY <1>0, <1>3, <1>4, OpMoves DEF Holding
<1>6. PoolsFit'
  BY <1>0, <1>2, <1>4, PoolMoves DEF PoolsFit, SamePlaces
<1>7. \A r \in Operations : Keeper(r)
  BY <1>3, SameKeepers
<1>8. \A r \in Operations : op'[r].slot = op[r].slot /\ ((Busy(r))' => Busy(r)) /\ op'[r].pool = op[r].pool
  BY <1>3, <1>4, QuietMove DEF Busy, Holds
<1>9. \A r \in Pools : /\ pool'[r].idle = pool[r].idle /\ pool'[r].current = pool[r].current
                       /\ pool'[r].slots = pool[r].slots
                       /\ pool'[r].approved => pool[r].approved \/ Current(r)
  BY <1>2 DEF Others, SamePlaces
<1>10. Calm
  BY <1>0, <1>2, <1>5, <1>6, <1>7, <1>9, Fit, SameConns, SameConnsFit DEF Calm
<1> QED
  BY <1>8, <1>9, <1>10 DEF Quiet

LEMMA DiscardCalm ==
    ASSUME IInv, Custody, NEW o \in Operations, Discard(o)
    PROVE  Calm /\ Quiet
<1>0. ConnsFit /\ PoolsFit /\ OpsFit /\ doomed \subseteq Conns
  BY Fit DEF Custody, ConnShaped
<1>1. PICK q \in Pools : q = op[o].pool
  BY PoolOf DEF Discard
<1>2. /\ UNCHANGED <<conn, doomed, closed>> /\ op[o].pc = "discard"
      /\ Others(q) /\ SamePlaces(q)
      /\ pool'[q].live = {c \in pool[q].live \ {op[o].conn} : ~Gone(c)}
      /\ pool'[q].approved \in BOOLEAN /\ (pool'[q].approved => pool[q].approved)
      /\ OpView(o, "drop", op[o].conn, op[o].slot, op[o].verdict)
  BY <1>1, DiscardView DEF Custody
<1>4. op[o].conn \in Conns /\ op[o].conn # NoConn /\ op[o].verdict = "none" /\ op[o].slot /\ op[o].slot \in BOOLEAN
  BY <1>0, <1>2 DEF OpsFit, Staged, Holding, Holds
<1>5. OpsFit'
  BY <1>0, <1>2, <1>4, OpMoves DEF Holding
<1>6. PoolsFit'
  BY <1>0, <1>2, <1>4, PoolMoves DEF PoolsFit, SamePlaces
<1>7. \A r \in Operations : Keeper(r)
  BY <1>2, SameKeepers
<1>8. \A r \in Operations : op'[r].slot = op[r].slot /\ ((Busy(r))' => Busy(r)) /\ op'[r].pool = op[r].pool
  BY <1>2, <1>4, QuietMove DEF Busy, Holds
<1>9. \A r \in Pools : /\ pool'[r].idle = pool[r].idle /\ pool'[r].current = pool[r].current
                       /\ pool'[r].slots = pool[r].slots
                       /\ pool'[r].approved => pool[r].approved \/ Current(r)
  BY <1>2 DEF Others, SamePlaces
<1>10. Calm
  BY <1>0, <1>2, <1>5, <1>6, <1>7, <1>9, Fit, SameConns, SameConnsFit DEF Calm
<1> QED
  BY <1>8, <1>9, <1>10 DEF Quiet

LEMMA CloseConnCalm ==
    ASSUME IInv, Custody, NEW o \in Operations, CloseConn(o)
    PROVE  Calm /\ Quiet
<1>0. ConnsFit /\ PoolsFit /\ OpsFit /\ doomed \subseteq Conns
  BY Fit DEF Custody, ConnShaped
<1>1. /\ UNCHANGED <<pool, doomed, closed>> /\ op[o].pc \in {"drop", "close"}
      /\ op[o].conn \in Conns /\ Fades(op[o].conn)
      /\ OpView(o, IF op[o].pc = "drop" THEN "return" ELSE "free", NoConn, op[o].slot, op[o].verdict)
  BY CloseConnView DEF Custody
<1>2. PICK pc \in {"return", "free"} : OpView(o, pc, NoConn, op[o].slot, op[o].verdict)
  BY <1>1
<1>3. PICK c \in Conns : c = op[o].conn /\ Fades(c)
  BY <1>1
<1>4. op[o].conn # NoConn /\ op[o].verdict = "none" /\ op[o].slot \in BOOLEAN
  BY <1>0, <1>1 DEF OpsFit, Staged, Holding, Holds
<1>5. OpsFit'
  BY <1>0, <1>2, <1>4, OpMoves DEF Empty
<1>6. ConnsFit' /\ (\A d \in Conns : Older(d)) /\ ~(Open(c))'
  BY <1>0, <1>3, ConnFades
<1>7. \A r \in Operations : Keeper(r)
  BY <1>2, <1>3, <1>6 DEF OpView, Keeper
<1>8. \A r \in Operations : op'[r].slot = op[r].slot /\ ((Busy(r))' => Busy(r)) /\ op'[r].pool = op[r].pool
  BY <1>2, <1>4, QuietMove
<1>9. Calm
  BY <1>0, <1>1, <1>5, <1>6, <1>7, Fit, SamePoolsFit DEF Calm
<1> QED
  BY <1>1, <1>8, <1>9 DEF Quiet

LEMMA AuditEndsCalm ==
    ASSUME IInv, Custody, NEW o \in Operations, NEW good \in BOOLEAN, AuditEnds(o, good)
    PROVE  Calm /\ Quiet
<1>0. ConnsFit /\ PoolsFit /\ OpsFit /\ doomed \subseteq Conns
  BY Fit DEF Custody, ConnShaped
<1>1. PICK q \in Pools : q = op[o].pool
  BY PoolOf DEF AuditEnds
<1>2. /\ UNCHANGED <<conn, doomed, closed>> /\ op[o].pc = "audit"
      /\ Others(q) /\ SamePlaces(q)
      /\ pool'[q].live = {c \in pool[q].live : ~Gone(c)}
      /\ pool'[q].approved \in BOOLEAN /\ (pool'[q].approved => Current(q))
      /\ op'[o].pc \in {"using", "discard"} /\ op'[o].verdict = op[o].verdict
      /\ \A r \in Operations : /\ op'[r].conn = op[r].conn /\ op'[r].slot = op[r].slot
                               /\ op'[r].pool = op[r].pool
      /\ \A r \in Operations \ {o} :
           /\ op'[r].pc = op[r].pc
           /\ op'[r].verdict = op[r].verdict \/ op[r].pc = "waiting"
  BY <1>1, AuditEndsView DEF Custody
<1>3. op[o].verdict = "none" /\ Holds(o)
  BY <1>0, <1>2 DEF OpsFit, Staged, Holding
<1>4. ASSUME NEW r \in Operations
      PROVE  /\ op'[r].conn \in Conns \union {NoConn} /\ op'[r].slot \in BOOLEAN
             /\ op'[r].pc \in Empty \union Holding \union {"return"}
             /\ (Staged(r))'
  <2>1. CASE r = o
    BY <1>0, <1>2, <1>3, <2>1 DEF OpsFit, Staged, Holds, Empty, Holding
  <2>2. CASE r # o
    BY <1>0, <1>2, <2>2 DEF OpsFit, Staged, Holds
  <2> QED
    BY <2>1, <2>2
<1>5. OpsFit'
  BY <1>4 DEF OpsFit
<1>6. PoolsFit'
  BY <1>0, <1>2, PoolMoves DEF PoolsFit, SamePlaces
<1>7. \A r \in Operations : Keeper(r)
  BY <1>2 DEF Keeper
<1>8. \A r \in Operations : op'[r].slot = op[r].slot /\ ((Busy(r))' => Busy(r)) /\ op'[r].pool = op[r].pool
  BY <1>2 DEF Busy, Holds
<1>9. \A r \in Pools : /\ pool'[r].idle = pool[r].idle /\ pool'[r].current = pool[r].current
                       /\ pool'[r].slots = pool[r].slots
                       /\ pool'[r].approved => pool[r].approved \/ Current(r)
  BY <1>2 DEF Others, SamePlaces
<1>10. Calm
  BY <1>0, <1>2, <1>5, <1>6, <1>7, <1>9, Fit, SameConns, SameConnsFit DEF Calm
<1> QED
  BY <1>8, <1>9, <1>10 DEF Quiet

\* release with nothing to hand back, or with no pool to take it.
LEMMA ReturnCalm ==
    ASSUME IInv, Custody, NEW o \in Operations, Return(o), NEW q \in Pools, q = op[o].pool,
           op[o].conn = NoConn \/ ~Current(q) \/ closed
    PROVE  Calm /\ Quiet
<1>0. ConnsFit /\ PoolsFit /\ OpsFit /\ doomed \subseteq Conns
  BY Fit DEF Custody, ConnShaped
<1>1. ~closed \/ ~Current(q)
  BY DEF Custody, RetiredBare, CurrentPools
<1>2. /\ UNCHANGED <<conn, doomed, closed>> /\ op[o].pc = "return"
      /\ Others(q) /\ SamePlaces(q)
      /\ pool'[q].live = {c \in pool[q].live : ~Gone(c)}
      /\ pool'[q].approved \in BOOLEAN /\ (pool'[q].approved => pool[q].approved)
      /\ \/ op[o].conn = NoConn /\ OpView(o, "free", op[o].conn, op[o].slot, op[o].verdict)
         \/ /\ op[o].conn # NoConn /\ ~Current(q)
            /\ OpView(o, "close", op[o].conn, op[o].slot, op[o].verdict)
  BY <1>1, ReturnView DEF Custody, SamePlaces
<1>3. PICK pc : /\ OpView(o, pc, op[o].conn, op[o].slot, op[o].verdict)
                /\ (pc = "free" /\ op[o].conn = NoConn) \/ (pc = "close" /\ op[o].conn # NoConn /\ ~Current(q))
  BY <1>2
<1>4. /\ op[o].conn \in Conns \union {NoConn} /\ op[o].verdict = "none" /\ op[o].slot \in BOOLEAN
      /\ op[o].conn # NoConn => op[o].slot
  BY <1>0, <1>2 DEF OpsFit, Staged, Holds
<1>5. OpsFit'
  <2>1. CASE pc = "free" /\ op[o].conn = NoConn
    BY <1>0, <1>3, <1>4, <2>1, OpMoves DEF Empty
  <2>2. CASE pc = "close" /\ op[o].conn # NoConn
    BY <1>0, <1>3, <1>4, <2>2, OpMoves DEF Holding
  <2> QED
    BY <1>3, <2>1, <2>2
<1>6. PoolsFit'
  BY <1>0, <1>2, <1>4, PoolMoves DEF PoolsFit, SamePlaces
<1>7. \A r \in Operations : Keeper(r)
  BY <1>3, SameKeepers
<1>8. \A r \in Operations : op'[r].slot = op[r].slot /\ ((Busy(r))' => Busy(r)) /\ op'[r].pool = op[r].pool
  BY <1>3, <1>4, QuietMove DEF Busy, Holds
<1>9. \A r \in Pools : /\ pool'[r].idle = pool[r].idle /\ pool'[r].current = pool[r].current
                       /\ pool'[r].slots = pool[r].slots
                       /\ pool'[r].approved => pool[r].approved \/ Current(r)
  BY <1>2 DEF Others, SamePlaces
<1>10. Calm
  BY <1>0, <1>2, <1>5, <1>6, <1>7, <1>9, Fit, SameConns, SameConnsFit DEF Calm
<1> QED
  BY <1>8, <1>9, <1>10 DEF Quiet

LEMMA StutterCalm ==
    ASSUME IInv, Custody, UNCHANGED vars
    PROVE  Calm /\ Quiet
<1>0. ConnsFit /\ PoolsFit /\ OpsFit /\ doomed \subseteq Conns
  BY Fit DEF Custody, ConnShaped
<1>1. UNCHANGED <<pool, conn, op, doomed, closed, vouched>>
  BY DEF vars
<1>2. OpsFit'
  BY <1>0, <1>1 DEF OpsFit, Staged, Holds
<1>3. Calm
  BY <1>0, <1>1, <1>2, Fit, SameConns, SameConnsFit, SamePoolsFit DEF Calm, Keeper
<1> QED
  BY <1>1, <1>3 DEF Quiet, Busy, Holds

----------------------------------------------------------------------------
(* Steps that move a connection, or a pool *)

\* OnePlace and Belongs, part by part.
LEMMA PlaceFacts ==
    ASSUME Custody
    PROVE  /\ \A o, r \in Operations : Holds(o) /\ o # r => op[r].conn # op[o].conn
           /\ \A o \in Operations : Holds(o) => op[o].conn \notin doomed /\ \A q \in Pools : op[o].conn \notin Idle(q)
           /\ \A q, r \in Pools : q # r => Idle(q) \cap Idle(r) = {}
           /\ \A q \in Pools : Idle(q) \cap doomed = {}
           /\ \A q \in Pools : \A i, j \in DOMAIN pool[q].idle : i # j => pool[q].idle[i] # pool[q].idle[j]
           /\ \A q \in Pools : Idle(q) \subseteq Conns
           /\ \A o \in Operations : op[o].conn \in Conns \union {NoConn}
           /\ NoConn \notin Conns
           /\ \A q \in Pools : ~Current(q) => Idle(q) = {}
<1>1. \A q \in Pools : ~Current(q) => Idle(q) = {}
  <2>1. Range(<<>>) = {}
    BY DEF Range
  <2> QED
    BY <2>1 DEF Custody, RetiredBare, Idle
<1>2. /\ \A q \in Pools : Idle(q) \subseteq Conns
      /\ \A o \in Operations : op[o].conn \in Conns \union {NoConn}
  BY IdleConns DEF Custody, ConnShaped
<1>3. OnePlace
  BY DEF Custody
<1>4. /\ \A o, r \in Operations : Holds(o) /\ o # r => op[r].conn # op[o].conn
      /\ \A q, r \in Pools : q # r => Idle(q) \cap Idle(r) = {}
      /\ \A q \in Pools : Idle(q) \cap doomed = {}
      /\ \A q \in Pools : \A i, j \in DOMAIN pool[q].idle : i # j => pool[q].idle[i] # pool[q].idle[j]
  BY <1>3 DEF OnePlace
<1>5. \A o \in Operations : Holds(o) => op[o].conn \notin doomed /\ \A q \in Pools : op[o].conn \notin Idle(q)
  BY <1>3 DEF OnePlace
<1> QED
  BY <1>1, <1>2, <1>4, <1>5, DriverAssumption

LEMMA PopIdleCustody ==
    ASSUME IInv, Custody, NEW o \in Operations, PopIdle(o), NEW q \in Pools, q = op[o].pool
    PROVE  Custody'
<1>0. ConnsFit /\ PoolsFit /\ OpsFit /\ doomed \subseteq Conns
  BY Fit DEF Custody, ConnShaped
<1>1. /\ UNCHANGED <<conn, doomed, closed, vouched>> /\ op[o].pc = "pop"
      /\ Others(q) /\ pool'[q].current = pool[q].current
      /\ pool'[q].approved \in BOOLEAN /\ (pool'[q].approved => pool[q].approved)
      /\ \E k \in 0..Len(pool[q].idle) : Pops(o, q, k)
  BY PopIdleView DEF Custody
<1> DEFINE s == pool[q].idle
<1>2. PICK k \in 0..Len(s) :
           /\ k # 0 => Open(s[k])
           /\ \A j \in k+1..Len(s) : ~Open(s[j])
           /\ pool'[q].idle = SubSeq(s, 1, k - 1)
           /\ pool'[q].live = {c \in pool[q].live : ~Gone(c)} \ Range(SubSeq(s, k + 1, Len(s)))
           /\ OpView(o, IF k = 0 THEN "dial" ELSE "approve",
                     IF k = 0 THEN NoConn ELSE s[k], op[o].slot, op[o].verdict)
  BY <1>1 DEF Pops
<1>3. s \in Seq(Conns) /\ Len(s) \in Nat /\ DOMAIN s = 1..Len(s)
  BY <1>0, LenProperties DEF PoolsFit
<1>4. /\ SubSeq(s, 1, k - 1) \in Seq(Conns)
      /\ DOMAIN SubSeq(s, 1, k - 1) = 1..(k - 1)
      /\ \A i \in 1..(k - 1) : SubSeq(s, 1, k - 1)[i] = s[i]
      /\ Range(SubSeq(s, 1, k - 1)) = {s[j] : j \in 1..(k - 1)}
      /\ 1..(k - 1) \subseteq DOMAIN s
  <2>1. k - 1 \in Int /\ k - 1 <= Len(s) /\ (k - 1) - 1 + 1 = k - 1 /\ \A i \in Int : 1 + i - 1 = i
    BY <1>2, <1>3
  <2>2. 1 \in Nat \ {0}
    OBVIOUS
  <2>3. PICK n \in Int : n = k - 1
    BY <2>1
  <2>4. /\ SubSeq(s, 1, n) \in Seq(Conns)
        /\ DOMAIN SubSeq(s, 1, n) = 1..(n - 1 + 1)
        /\ \A i \in 1..(n - 1 + 1) : SubSeq(s, 1, n)[i] = s[1 + i - 1] /\ 1 + i - 1 \in 1..n
        /\ Range(SubSeq(s, 1, n)) = {s[j] : j \in 1..n}
        /\ 1..n \subseteq DOMAIN s
    BY <1>3, <2>1, <2>2, <2>3, PartOf
  <2>5. n - 1 + 1 = n /\ \A i \in 1..n : 1 + i - 1 = i
    OBVIOUS
  <2>6. \A i \in 1..n : SubSeq(s, 1, n)[i] = s[i]
    BY <2>4, <2>5
  <2> QED
    BY <2>3, <2>4, <2>5, <2>6
<1> HIDE DEF s
<1>5. Idle(q) = {s[j] : j \in DOMAIN s} /\ (Idle(q))' = {s[j] : j \in 1..(k - 1)}
  <2>1. Idle(q) = Range(s)
    BY DEF Idle, s
  <2>2. (Idle(q))' = Range(SubSeq(s, 1, k - 1))
    BY <1>2 DEF Idle
  <2>3. Range(s) = {s[j] : j \in DOMAIN s}
    BY DEF Range
  <2> QED
    BY <1>4, <2>1, <2>2, <2>3
<1>6. /\ \A r \in Pools \ {q} : (Idle(r))' = Idle(r) /\ pool'[r] = pool[r]
      /\ (Idle(q))' \subseteq Idle(q)
  BY <1>1, <1>4, <1>5 DEF Others, Idle
<1>7. op[o].conn = NoConn /\ op[o].verdict = "none" /\ op[o].slot
  BY <1>0, <1>1 DEF OpsFit, Staged, Empty, Holds
<1>8. k # 0 => /\ k \in DOMAIN s /\ s[k] \in Idle(q) /\ s[k] \notin (Idle(q))' /\ s[k] \in Conns /\ Open(s[k])
               /\ op'[o].conn = s[k]
  <2> SUFFICES ASSUME k # 0 PROVE /\ k \in DOMAIN s /\ s[k] \in Idle(q) /\ s[k] \notin (Idle(q))' /\ s[k] \in Conns
                                  /\ Open(s[k]) /\ op'[o].conn = s[k]
    OBVIOUS
  <2>1. k \in DOMAIN s /\ \A j \in 1..(k - 1) : j # k
    BY <1>2, <1>3
  <2>2. s[k] \in Idle(q) /\ s[k] \in Conns
    BY <1>5, <2>1, PlaceFacts
  <2>3. \A j \in 1..(k - 1) : s[j] # s[k]
    BY <1>4, <2>1, PlaceFacts DEF s
  <2> QED
    BY <1>2, <1>5, <2>1, <2>2, <2>3 DEF OpView
<1>9. /\ k = 0 => op'[o].conn = NoConn
      /\ op'[o].pool = q /\ op'[o].pc \in {"dial", "approve"}
      /\ \A r \in Operations \ {o} : op'[r] = op[r]
  BY <1>2 DEF OpView
<1>10. OpsFit'
  <2>1. CASE k = 0
    BY <1>0, <1>2, <1>7, <2>1, OpMoves DEF Empty
  <2>2. CASE k # 0
    BY <1>0, <1>2, <1>7, <1>8, <2>2, DriverAssumption, OpMoves DEF Holding
  <2> QED
    BY <2>1, <2>2
<1>11. PoolsFit'
  <2>1. pool'[q].idle \in Seq(Conns) /\ pool'[q].live \subseteq Conns
    BY <1>0, <1>2, <1>4 DEF PoolsFit
  <2> QED
    BY <1>0, <1>1, <2>1, PoolMoves
<1>12. ConnShaped' /\ \A r \in Operations : (Staged(r))'
  BY <1>0, <1>1, <1>10, <1>11, Fit, SameConnsFit
<1>13. OnePlace'
  <2>1. ASSUME NEW a \in Operations, NEW b \in Operations, (Holds(a))', a # b
        PROVE  op'[b].conn # op'[a].conn
    <3>1. CASE a = o
      <4>1. k # 0 /\ op'[a].conn = s[k] /\ op'[b].conn = op[b].conn
        BY <1>8, <1>9, <2>1, <3>1 DEF Holds
      <4> QED
        BY <1>8, <4>1, PlaceFacts DEF Holds
    <3>2. CASE b = o
      <4>1. op'[a].conn = op[a].conn /\ Holds(a)
        BY <1>9, <2>1, <3>2 DEF Holds
      <4> QED
        BY <1>8, <1>9, <3>2, <4>1, PlaceFacts DEF Holds
    <3>3. CASE a # o /\ b # o
      BY <1>9, <2>1, <3>3, PlaceFacts DEF Holds
    <3> QED
      BY <3>1, <3>2, <3>3
  <2>2. ASSUME NEW a \in Operations, (Holds(a))'
        PROVE  op'[a].conn \notin doomed' /\ \A r \in Pools : op'[a].conn \notin (Idle(r))'
    <3>1. CASE a = o
      <4>1. k # 0 /\ op'[a].conn = s[k]
        BY <1>8, <1>9, <2>2, <3>1 DEF Holds
      <4> QED
        BY <1>1, <1>6, <1>8, <4>1, PlaceFacts
    <3>2. CASE a # o
      <4>1. op'[a].conn = op[a].conn /\ Holds(a)
        BY <1>9, <2>2, <3>2 DEF Holds
      <4>2. op[a].conn \notin doomed /\ \A r \in Pools : op[a].conn \notin Idle(r)
        BY <4>1, PlaceFacts
      <4> QED
        BY <1>1, <1>6, <4>1, <4>2
    <3> QED
      BY <3>1, <3>2
  <2>3. \A r, t \in Pools : r # t => (Idle(r))' \cap (Idle(t))' = {}
    BY <1>6, PlaceFacts
  <2>4. \A r \in Pools : (Idle(r))' \cap doomed' = {}
    BY <1>1, <1>6, PlaceFacts
  <2>5. ASSUME NEW r \in Pools, NEW i \in DOMAIN pool'[r].idle, NEW j \in DOMAIN pool'[r].idle, i # j
        PROVE  pool'[r].idle[i] # pool'[r].idle[j]
    <3>1. CASE r = q
      <4>1. i \in 1..(k-1) /\ j \in 1..(k-1) /\ pool'[r].idle[i] = s[i] /\ pool'[r].idle[j] = s[j]
        BY <1>2, <1>4, <2>5, <3>1
      <4> QED
        BY <1>4, <2>5, <4>1, PlaceFacts DEF s
    <3>2. CASE r # q
      BY <1>6, <2>5, <3>2, PlaceFacts
    <3> QED
      BY <3>1, <3>2
  <2> QED
    BY <2>1, <2>2, <2>3, <2>4, <2>5 DEF OnePlace
<1>14. Belongs'
  <2>1. \A c : (Gone(c))' <=> Gone(c)
    BY <1>1 DEF Gone
  <2>2. ASSUME NEW a \in Operations, (Holds(a))', (~Gone(op[a].conn))' PROVE (conn[op[a].conn].pool = op[a].pool)'
    <3>1. CASE a = o
      <4>1. k # 0 /\ op'[a].conn = s[k] /\ op'[a].pool = q /\ ~Gone(s[k]) /\ s[k] \in Idle(q)
        BY <1>1, <1>8, <1>9, <2>2, <3>1 DEF Holds, Gone
      <4>2. conn[s[k]].pool = q
        BY <4>1 DEF Custody, Belongs
      <4> QED
        BY <1>1, <4>1, <4>2
    <3>2. CASE a # o
      BY <1>1, <1>9, <2>2, <3>2 DEF Holds, Gone, Custody, Belongs
    <3> QED
      BY <3>1, <3>2
  <2>3. \A r \in Pools : \A c \in (Idle(r))' : (~Gone(c))' => conn'[c].pool = r
    BY <1>1, <1>6, <2>1 DEF Custody, Belongs
  <2>4. CurrentPools' = CurrentPools
    BY <1>1 DEF CurrentPools, Current, Others
  <2>5. \A c \in doomed', r \in CurrentPools' : (~Gone(c))' => conn'[c].pool # r
    BY <1>1, <2>1, <2>4 DEF Custody, Belongs
  <2> QED
    BY <2>2, <2>3, <2>5 DEF Belongs
<1>15. RetiredBare'
  <2>1. \A r \in Pools : (Current(r))' <=> Current(r)
    BY <1>1 DEF Current, Others
  <2>2. ASSUME NEW r \in Pools, ~Current(r) PROVE pool'[r].idle = <<>> /\ ~pool'[r].approved
    <3>1. CASE r # q
      BY <1>6, <2>2, <3>1 DEF Custody, RetiredBare
    <3>2. CASE r = q
      <4>1. s = <<>> /\ ~pool[q].approved
        BY <2>2, <3>2 DEF Custody, RetiredBare, s
      <4>2. Len(SubSeq(s, 1, k - 1)) = 0
        BY <1>3, <1>4, <4>1, LenProperties
      <4>3. SubSeq(s, 1, k - 1) = <<>>
        BY <1>4, <4>2, EmptySeq
      <4> QED
        BY <1>1, <1>2, <3>2, <4>1, <4>3
    <3> QED
      BY <3>1, <3>2
  <2>3. CurrentPools' = CurrentPools
    BY <2>1 DEF CurrentPools
  <2>4. closed' => CurrentPools' = {}
    BY <1>1, <2>3 DEF Custody, RetiredBare
  <2>5. ASSUME NEW a \in Operations, op'[a].pc = "close" PROVE (~Current(op[a].pool))'
    <3>1. a # o /\ op'[a] = op[a]
      BY <1>9, <2>5
    <3>2. op[a].pool \in Pools /\ ~Current(op[a].pool)
      BY <2>5, <3>1, Fields DEF Custody, RetiredBare
    <3> QED
      BY <2>1, <3>1, <3>2 DEF Current
  <2> QED
    BY <2>1, <2>2, <2>4, <2>5 DEF RetiredBare
<1>16. EveryConnectionOwned'
  <2> SUFFICES ASSUME NEW c \in Conns, (Open(c))'
               PROVE  \/ \E a \in Operations : op'[a].conn = c
                      \/ \E r \in CurrentPools' : c \in (Idle(r))'
                      \/ c \in doomed'
    BY DEF EveryConnectionOwned, Idle
  <2>1. Open(c)
    BY <1>1 DEF Open
  <2>2. \/ \E a \in Operations : op[a].conn = c
        \/ \E r \in CurrentPools : c \in Idle(r)
        \/ c \in doomed
    BY <2>1 DEF Custody, EveryConnectionOwned, Idle
  <2>3. ASSUME NEW a \in Operations, op[a].conn = c PROVE op'[a].conn = c
    BY <1>7, <1>9, <2>3, DriverAssumption
  <2>4. CurrentPools' = CurrentPools
    BY <1>1 DEF CurrentPools, Current, Others
  <2>5. ASSUME NEW r \in CurrentPools, c \in Idle(r)
        PROVE  c \in (Idle(r))' \/ op'[o].conn = c
    <3>1. CASE r # q
      BY <1>6, <2>5, <3>1 DEF CurrentPools
    <3>2. CASE r = q
      <4>1. PICK j \in 1..Len(s) : c = s[j]
        BY <1>3, <1>5, <2>5, <3>2
      <4>2. j \in 1..(k - 1) \/ j = k \/ j \in (k+1)..Len(s)
        BY <1>2, <1>3
      <4>3. j \notin (k+1)..Len(s)
        BY <1>2, <2>1, <4>1
      <4>4. j = k => k # 0
        BY <1>2, <1>3
      <4> QED
        BY <1>5, <1>8, <3>2, <4>1, <4>2, <4>3, <4>4
    <3> QED
      BY <3>1, <3>2
  <2> QED
    BY <1>1, <2>2, <2>3, <2>4, <2>5
<1> QED
  BY <1>12, <1>13, <1>14, <1>15, <1>16 DEF Custody

\* Nothing that a pool remembers is without a reference: a pool that is not in
\* use and not current has no idle connections.
LEMMA UndialledFree ==
    ASSUME Custody, NEW c \in Conns, Undialled(c)
    PROVE  /\ Gone(c) /\ ~Open(c) /\ c \notin doomed
           /\ \A o \in Operations : op[o].conn # c
           /\ \A q \in Pools : c \notin Idle(q)
           /\ \A q \in Pools : Alive(q) => c \notin pool[q].live
<1>1. /\ Gone(c) /\ c \notin doomed
      /\ \A o \in Operations : op[o].conn # c
      /\ \A q \in Pools : ~Unused(q) => c \notin pool[q].live /\ c \notin Idle(q)
  BY DEF Undialled, Idle
<1>2. \A q \in Pools : Unused(q) => ~Current(q) /\ ~Alive(q)
  BY DEF Unused, Alive
<1> QED
  BY <1>1, <1>2, PlaceFacts DEF Open, Gone

LEMMA DialCustody ==
    ASSUME IInv, Custody, NEW o \in Operations, Dial(o), NEW q \in Pools, q = op[o].pool
    PROVE  Custody'
<1>0. ConnsFit /\ PoolsFit /\ OpsFit /\ doomed \subseteq Conns
  BY Fit DEF Custody, ConnShaped
<1>1. /\ UNCHANGED <<pool, doomed, closed, vouched>> /\ op[o].pc = "dial"
      /\ \E c \in Conns : /\ Undialled(c) /\ OpView(o, "approve", c, op[o].slot, op[o].verdict)
                          /\ conn'[c].pool = op[o].pool /\ conn'[c].state = "open"
                          /\ DOMAIN conn'[c] = DOMAIN NoConnection
                          /\ DOMAIN conn' = Conns
                          /\ \A d \in Conns \ {c} : conn'[d] = conn[d]
  BY DialView DEF Custody
<1>2. PICK c \in Conns : /\ Undialled(c) /\ OpView(o, "approve", c, op[o].slot, op[o].verdict)
                         /\ conn'[c].pool = op[o].pool /\ conn'[c].state = "open"
                         /\ DOMAIN conn'[c] = DOMAIN NoConnection
                         /\ DOMAIN conn' = Conns
                         /\ \A d \in Conns \ {c} : conn'[d] = conn[d]
  BY <1>1
<1>3. /\ c \notin doomed /\ \A r \in Operations : op[r].conn # c
      /\ \A r \in Pools : c \notin Idle(r)
  BY <1>2, UndialledFree
<1>4. op[o].conn = NoConn /\ op[o].verdict = "none" /\ op[o].slot /\ c # NoConn
  BY <1>0, <1>1, DriverAssumption DEF OpsFit, Staged, Empty, Holds
<1>5. OpsFit'
  BY <1>0, <1>2, <1>4, OpMoves DEF Holding
<1>6. ConnsFit'
  BY <1>0, <1>2 DEF ConnsFit
<1>7. ConnShaped' /\ \A r \in Operations : (Staged(r))'
  BY <1>0, <1>1, <1>5, <1>6, Fit, SamePoolsFit
<1>8. /\ op'[o].conn = c /\ op'[o].pool = q /\ op'[o].pc = "approve" /\ \A r \in Operations \ {o} : op'[r] = op[r]
      /\ \A r \in Pools : (Idle(r))' = Idle(r) /\ pool'[r] = pool[r] /\ ((Current(r))' <=> Current(r))
      /\ CurrentPools' = CurrentPools
  BY <1>1, <1>2 DEF OpView, Idle, Current, CurrentPools
<1>9. OnePlace'
  <2>1. ASSUME NEW a \in Operations, NEW b \in Operations, (Holds(a))', a # b
        PROVE  op'[b].conn # op'[a].conn
    BY <1>3, <1>8, <2>1, PlaceFacts DEF Holds
  <2>2. ASSUME NEW a \in Operations, (Holds(a))'
        PROVE  op'[a].conn \notin doomed' /\ \A r \in Pools : op'[a].conn \notin (Idle(r))'
    <3>1. CASE a = o
      BY <1>1, <1>3, <1>8, <3>1
    <3>2. CASE a # o
      BY <1>1, <1>8, <2>2, <3>2, PlaceFacts DEF Holds
    <3> QED
      BY <3>1, <3>2
  <2>3. \A r, t \in Pools : r # t => (Idle(r))' \cap (Idle(t))' = {}
    BY <1>8, PlaceFacts
  <2>4. \A r \in Pools : (Idle(r))' \cap doomed' = {}
    BY <1>1, <1>8, PlaceFacts
  <2>5. \A r \in Pools : \A i, j \in DOMAIN pool'[r].idle : i # j => pool'[r].idle[i] # pool'[r].idle[j]
    BY <1>8, PlaceFacts
  <2> QED
    BY <2>1, <2>2, <2>3, <2>4, <2>5 DEF OnePlace
<1>10. Belongs'
  <2>1. \A d \in Conns \ {c} : ((Gone(d))' <=> Gone(d)) /\ conn'[d].pool = conn[d].pool
    BY <1>2 DEF Gone
  <2>2. ASSUME NEW a \in Operations, (Holds(a))', (~Gone(op[a].conn))' PROVE (conn[op[a].conn].pool = op[a].pool)'
    <3>1. CASE a = o
      BY <1>2, <1>8, <3>1
    <3>2. CASE a # o
      <4>1. Holds(a) /\ op[a].conn \in Conns \ {c} /\ op'[a] = op[a]
        BY <1>3, <1>8, <2>2, <3>2, PlaceFacts DEF Holds
      <4>2. ~Gone(op[a].conn)
        BY <1>2, <2>2, <4>1 DEF Gone
      <4> QED
        BY <1>2, <4>1, <4>2 DEF Custody, Belongs
    <3> QED
      BY <3>1, <3>2
  <2>3. \A r \in Pools : \A d \in (Idle(r))' : (~Gone(d))' => conn'[d].pool = r
    BY <1>3, <1>8, <2>1, PlaceFacts DEF Custody, Belongs
  <2>4. \A d \in doomed', r \in CurrentPools' : (~Gone(d))' => conn'[d].pool # r
    BY <1>0, <1>1, <1>3, <1>8, <2>1 DEF Custody, Belongs
  <2> QED
    BY <2>2, <2>3, <2>4 DEF Belongs
<1>11. RetiredBare'
  <2>1. ASSUME NEW a \in Operations, op'[a].pc = "close" PROVE (~Current(op[a].pool))'
    <3>1. a # o /\ op'[a] = op[a]
      BY <1>8, <2>1
    <3>2. op[a].pool \in Pools /\ ~Current(op[a].pool)
      BY <2>1, <3>1, Fields DEF Custody, RetiredBare
    <3> QED
      BY <1>1, <3>1, <3>2 DEF Current
  <2> QED
    BY <1>1, <1>8, <2>1 DEF Custody, RetiredBare
<1>12. EveryConnectionOwned'
  <2> SUFFICES ASSUME NEW d \in Conns, (Open(d))'
               PROVE  \/ \E a \in Operations : op'[a].conn = d
                      \/ \E r \in CurrentPools' : d \in (Idle(r))'
                      \/ d \in doomed'
    BY DEF EveryConnectionOwned, Idle
  <2>1. CASE d = c
    BY <1>8, <2>1
  <2>2. CASE d # c
    <3>1. Open(d)
      BY <1>2, <2>2 DEF Open
    <3>2. \/ \E a \in Operations : op[a].conn = d
          \/ \E r \in CurrentPools : d \in Idle(r)
          \/ d \in doomed
      BY <3>1 DEF Custody, EveryConnectionOwned, Idle
    <3>3. ASSUME NEW a \in Operations, op[a].conn = d PROVE op'[a].conn = d
      BY <1>4, <1>8, <3>3, DriverAssumption
    <3>4. \A r \in CurrentPools : r \in Pools
      BY DEF CurrentPools
    <3> QED
      BY <1>1, <1>8, <3>2, <3>3, <3>4
  <2> QED
    BY <2>1, <2>2
<1> QED
  BY <1>7, <1>9, <1>10, <1>11, <1>12 DEF Custody

\* release hands the connection back to its pool.
LEMMA ReturnCustody ==
    ASSUME IInv, Custody, NEW o \in Operations, Return(o), NEW q \in Pools, q = op[o].pool,
           op[o].conn # NoConn, Current(q), ~closed
    PROVE  Custody'
<1>0. ConnsFit /\ PoolsFit /\ OpsFit /\ doomed \subseteq Conns
  BY Fit DEF Custody, ConnShaped
<1>1. /\ UNCHANGED <<conn, doomed, closed, vouched>> /\ op[o].pc = "return"
      /\ Others(q) /\ pool'[q].current = pool[q].current
      /\ pool'[q].live = {c \in pool[q].live : ~Gone(c)}
      /\ pool'[q].approved \in BOOLEAN /\ (pool'[q].approved => pool[q].approved)
      /\ pool'[q].idle = Append(pool[q].idle, op[o].conn)
      /\ OpView(o, "free", NoConn, op[o].slot, op[o].verdict)
  BY ReturnView DEF Custody
<1> DEFINE s == pool[q].idle
           c == op[o].conn
<1>2. s \in Seq(Conns) /\ Len(s) \in Nat /\ DOMAIN s = 1..Len(s) /\ c \in Conns /\ Holds(o)
  BY <1>0, LenProperties DEF PoolsFit, OpsFit, Holds
<1>3. /\ Append(s, c) \in Seq(Conns) /\ DOMAIN Append(s, c) = 1..(Len(s) + 1)
      /\ \A i \in 1..Len(s) : Append(s, c)[i] = s[i]
      /\ Append(s, c)[Len(s) + 1] = c
  <2> HIDE DEF s, c
  <2>1. /\ Append(s, c) \in Seq(Conns) /\ Len(Append(s, c)) = Len(s) + 1
        /\ \A i \in 1..Len(s) : Append(s, c)[i] = s[i]
        /\ Append(s, c)[Len(s) + 1] = c
    BY <1>2, AppendProperties
  <2>2. DOMAIN Append(s, c) = 1..Len(Append(s, c))
    BY <2>1, LenProperties
  <2> QED
    BY <2>1, <2>2
<1>4. pool'[q].idle = Append(s, c)
  BY <1>1
<1>5. (Idle(q))' = Idle(q) \union {c}
  <2>1. (Idle(q))' = {Append(s, c)[i] : i \in 1..(Len(s) + 1)} /\ Idle(q) = {s[i] : i \in 1..Len(s)}
    <3>1. (Idle(q))' = Range(pool'[q].idle) /\ Idle(q) = Range(s)
      BY DEF Idle
    <3> HIDE DEF s, c
    <3> QED
      BY <1>2, <1>3, <1>4, <3>1 DEF Range
  <2>2. \A n \in Nat : 1..(n + 1) = 1..n \union {n + 1}
    OBVIOUS
  <2> HIDE DEF s, c
  <2>3. 1..(Len(s) + 1) = 1..Len(s) \union {Len(s) + 1}
    BY <1>2, <2>2
  <2> QED
    BY <1>3, <2>1, <2>3
<1>6. \A r \in Pools \ {q} : (Idle(r))' = Idle(r) /\ pool'[r] = pool[r]
  BY <1>1 DEF Others, Idle
<1>7. /\ op'[o].conn = NoConn /\ op'[o].pool = q /\ op'[o].pc = "free" /\ \A r \in Operations \ {o} : op'[r] = op[r]
      /\ \A r \in Pools : (Current(r))' <=> Current(r)
      /\ CurrentPools' = CurrentPools /\ q \in CurrentPools /\ \A r \in CurrentPools : r \in Pools
  BY <1>1 DEF OpView, Current, CurrentPools, Others
<1>8. /\ c \notin doomed /\ (\A r \in Pools : c \notin Idle(r))
      /\ \A a \in Operations \ {o} : op[a].conn # c
  BY <1>2, PlaceFacts
<1>9. OpsFit'
  <2>1. op[o].verdict = "none" /\ op[o].slot \in BOOLEAN
    BY <1>0, <1>1 DEF OpsFit, Staged
  <2> QED
    BY <1>0, <1>1, <2>1, OpMoves DEF Empty
<1>10. PoolsFit'
  <2>1. pool'[q].idle \in Seq(Conns) /\ pool'[q].live \subseteq Conns
    BY <1>0, <1>1, <1>3 DEF PoolsFit
  <2> QED
    BY <1>0, <1>1, <2>1, PoolMoves
<1>11. ConnShaped' /\ \A r \in Operations : (Staged(r))'
  BY <1>0, <1>1, <1>9, <1>10, Fit, SameConnsFit
<1> HIDE DEF s, c
<1>12. OnePlace'
  <2>1. ASSUME NEW a \in Operations, NEW b \in Operations, (Holds(a))', a # b
        PROVE  op'[b].conn # op'[a].conn
    <3>1. a # o /\ Holds(a) /\ op'[a] = op[a]
      BY <1>7, <2>1 DEF Holds
    <3>2. op[b].conn # op[a].conn
      BY <2>1, <3>1, PlaceFacts
    <3> QED
      BY <1>7, <2>1, <3>1, <3>2 DEF Holds
  <2>2. ASSUME NEW a \in Operations, (Holds(a))'
        PROVE  op'[a].conn \notin doomed' /\ \A r \in Pools : op'[a].conn \notin (Idle(r))'
    <3>1. a # o /\ Holds(a) /\ op'[a] = op[a]
      BY <1>7, <2>2 DEF Holds
    <3>2. op[a].conn # c /\ op[a].conn \notin doomed /\ \A r \in Pools : op[a].conn \notin Idle(r)
      BY <1>8, <3>1, PlaceFacts
    <3> QED
      BY <1>1, <1>5, <1>6, <3>1, <3>2
  <2>3. \A r, t \in Pools : r # t => (Idle(r))' \cap (Idle(t))' = {}
    BY <1>5, <1>6, <1>8, PlaceFacts
  <2>4. \A r \in Pools : (Idle(r))' \cap doomed' = {}
    BY <1>1, <1>5, <1>6, <1>8, PlaceFacts
  <2>5. ASSUME NEW r \in Pools, NEW i \in DOMAIN pool'[r].idle, NEW j \in DOMAIN pool'[r].idle, i # j
        PROVE  pool'[r].idle[i] # pool'[r].idle[j]
    <3>1. CASE r = q
      <4>1. i \in 1..(Len(s) + 1) /\ j \in 1..(Len(s) + 1)
        BY <1>3, <1>4, <3>1
      <4>2. \A m \in 1..Len(s) : s[m] # c
        BY <1>2, <1>8 DEF Idle, Range, s
      <4>3. \A m, n \in 1..Len(s) : m # n => s[m] # s[n]
        BY <1>2, PlaceFacts DEF s
      <4>4. i \in 1..Len(s) \/ i = Len(s) + 1
        BY <1>2, <4>1
      <4>5. j \in 1..Len(s) \/ j = Len(s) + 1
        BY <1>2, <4>1
      <4> QED
        BY <1>3, <1>4, <2>5, <3>1, <4>2, <4>3, <4>4, <4>5
    <3>2. CASE r # q
      BY <1>6, <2>5, <3>2, PlaceFacts
    <3> QED
      BY <3>1, <3>2
  <2> QED
    BY <2>1, <2>2, <2>3, <2>4, <2>5 DEF OnePlace
<1>13. Belongs'
  <2>1. \A d : (Gone(d))' <=> Gone(d)
    BY <1>1 DEF Gone
  <2>2. ASSUME NEW a \in Operations, (Holds(a))', (~Gone(op[a].conn))' PROVE (conn[op[a].conn].pool = op[a].pool)'
    <3>1. a # o /\ Holds(a) /\ op'[a] = op[a]
      BY <1>7, <2>2 DEF Holds
    <3> QED
      BY <1>1, <2>2, <3>1 DEF Custody, Belongs, Gone
  <2>3. ~Gone(c) => conn[c].pool = q
    BY <1>2 DEF Custody, Belongs, c
  <2>4. \A r \in Pools : \A d \in (Idle(r))' : (~Gone(d))' => conn'[d].pool = r
    BY <1>1, <1>5, <1>6, <2>1, <2>3 DEF Custody, Belongs
  <2>5. \A d \in doomed', r \in CurrentPools' : (~Gone(d))' => conn'[d].pool # r
    BY <1>1, <1>7, <2>1 DEF Custody, Belongs
  <2> QED
    BY <2>2, <2>4, <2>5 DEF Belongs
<1>14. RetiredBare'
  <2>1. ASSUME NEW a \in Operations, op'[a].pc = "close" PROVE (~Current(op[a].pool))'
    <3>1. a # o /\ op'[a] = op[a]
      BY <1>7, <2>1
    <3>2. op[a].pool \in Pools /\ ~Current(op[a].pool)
      BY <2>1, <3>1, Fields DEF Custody, RetiredBare
    <3> QED
      BY <1>7, <3>1, <3>2 DEF Current
  <2>2. \A r \in Pools : (~Current(r))' => pool'[r].idle = <<>> /\ ~pool'[r].approved
    BY <1>6, <1>7 DEF Custody, RetiredBare
  <2> QED
    BY <1>1, <1>7, <2>1, <2>2 DEF RetiredBare
<1>15. EveryConnectionOwned'
  <2> SUFFICES ASSUME NEW d \in Conns, (Open(d))'
               PROVE  \/ \E a \in Operations : op'[a].conn = d
                      \/ \E r \in CurrentPools' : d \in (Idle(r))'
                      \/ d \in doomed'
    BY DEF EveryConnectionOwned, Idle
  <2>1. Open(d)
    BY <1>1 DEF Open
  <2>2. \/ \E a \in Operations : op[a].conn = d
        \/ \E r \in CurrentPools : d \in Idle(r)
        \/ d \in doomed
    BY <2>1 DEF Custody, EveryConnectionOwned, Idle
  <2>3. ASSUME NEW a \in Operations, op[a].conn = d PROVE op'[a].conn = d \/ d \in (Idle(q))'
    <3>1. CASE a = o
      BY <1>5, <2>3, <3>1 DEF c
    <3>2. CASE a # o
      BY <1>7, <2>3, <3>2
    <3> QED
      BY <3>1, <3>2
  <2>4. ASSUME NEW r \in CurrentPools, d \in Idle(r) PROVE d \in (Idle(r))'
    BY <1>5, <1>6, <1>7, <2>4
  <2> QED
    BY <1>1, <1>7, <2>2, <2>3, <2>4
<1> QED
  BY <1>11, <1>12, <1>13, <1>14, <1>15 DEF Custody

\* An operation stays as it is, or enters with nothing.
Stirs(o) ==
  \/ op'[o] = op[o]
  \/ /\ op[o].pc = "out" /\ op'[o].pc = "slot"
     /\ op'[o].conn = NoConn /\ op'[o].slot = FALSE /\ op'[o].verdict = "none"

\* Nobody makes a pool after Close, which retires all there are.
Shuts(R, N) == (closed' = closed /\ (closed => N = {})) \/ (R = CurrentPools /\ N = {})

\* Replaces, in terms of what the invariants are about.
LEMMA ReplacedPools ==
    ASSUME Custody, NEW R, NEW N, Replaces(R, N)
    PROVE  /\ \A q \in R \union N : q \in Pools /\ (Idle(q))' = {} /\ pool'[q].idle = <<>>
           /\ \A q \in Pools \ (R \union N) : (Idle(q))' = Idle(q) /\ ((Current(q))' <=> Current(q))
           /\ \A q \in R : q \notin N /\ Current(q) /\ ~(Current(q))'
           /\ \A q \in N : ~Current(q) /\ (Current(q))' /\ Idle(q) = {} /\ Unused(q)
           /\ \A q \in Pools : (Idle(q))' \subseteq Idle(q)
<1>1. Range(<<>>) = {}
  BY DEF Range
<1>2. \A q \in R \union N : q \in Pools /\ (Idle(q))' = {} /\ pool'[q].idle = <<>>
  BY <1>1 DEF Replaces, Idle, CurrentPools
<1>3. \A q \in Pools \ (R \union N) : (Idle(q))' = Idle(q) /\ ((Current(q))' <=> Current(q))
  BY DEF Replaces, Idle, SamePool, SamePlaces, Current
<1>4. \A q \in N : ~Current(q) /\ (Current(q))' /\ Idle(q) = {} /\ Unused(q)
  BY PlaceFacts DEF Replaces, Unused, Current
<1>5. \A q \in R : q \notin N /\ Current(q) /\ ~(Current(q))'
  BY <1>4 DEF Replaces, CurrentPools, Current
<1>6. \A q \in Pools : (Idle(q))' \subseteq Idle(q)
  BY <1>2, <1>3
<1> QED
  BY <1>2, <1>3, <1>4, <1>5, <1>6

LEMMA ReplacesCustody ==
    ASSUME IInv, Custody, NEW R, NEW N, Replaces(R, N), Shuts(R, N), \A o \in Operations : Stirs(o)
    PROVE  Custody'
<1>0. ConnsFit /\ PoolsFit /\ OpsFit /\ doomed \subseteq Conns
  BY Fit DEF Custody, ConnShaped
<1>1. UNCHANGED <<conn, vouched>> /\ doomed' = doomed \union UNION {Idle(q) : q \in R}
  BY DEF Replaces
<1>2. /\ \A q \in R \union N : q \in Pools /\ (Idle(q))' = {} /\ pool'[q].idle = <<>>
      /\ \A q \in Pools \ (R \union N) : (Idle(q))' = Idle(q) /\ ((Current(q))' <=> Current(q))
      /\ \A q \in R : q \notin N /\ Current(q) /\ ~(Current(q))'
      /\ \A q \in N : ~Current(q) /\ (Current(q))' /\ Idle(q) = {} /\ Unused(q)
      /\ \A q \in Pools : (Idle(q))' \subseteq Idle(q)
  BY ReplacedPools
<1>3. \A d \in doomed' : d \in doomed \/ \E r \in R : d \in Idle(r)
  BY <1>1
<1>4. \A a \in Operations : op'[a].conn = op[a].conn /\ ((Holds(a))' <=> Holds(a))
                            /\ (op'[a] = op[a] \/ ~(Holds(a))')
  BY <1>0 DEF OpsFit, Staged, Empty, Holds, Stirs
<1>5. OpsFit'
  <2> SUFFICES ASSUME NEW a \in Operations
               PROVE  /\ op'[a].conn \in Conns \union {NoConn} /\ op'[a].slot \in BOOLEAN
                      /\ op'[a].pc \in Empty \union Holding \union {"return"}
                      /\ (Staged(a))'
    BY DEF OpsFit
  <2>1. CASE op'[a] = op[a]
    BY <1>0, <2>1 DEF OpsFit, Staged, Holds
  <2>2. CASE op'[a] # op[a]
    BY <2>2 DEF Stirs, Staged, Holds, Empty, Holding
  <2> QED
    BY <2>1, <2>2
<1>6. PoolsFit'
  <2>1. ASSUME NEW q \in R \union N
        PROVE  pool'[q].idle \in Seq(Conns) /\ pool'[q].live \subseteq Conns /\ pool'[q].approved \in BOOLEAN
    <3>1. /\ pool'[q].idle = <<>> /\ pool'[q].approved \in BOOLEAN /\ q \in Pools
          /\ pool'[q].live = pool[q].live \/ pool'[q].live = {}
      BY <1>2 DEF Replaces
    <3>2. <<>> \in Seq(Conns)
      BY EmptySeq
    <3> QED
      BY <1>0, <3>1, <3>2 DEF PoolsFit
  <2>2. ASSUME NEW q \in Pools \ (R \union N)
        PROVE  pool'[q].idle \in Seq(Conns) /\ pool'[q].live \subseteq Conns /\ pool'[q].approved \in BOOLEAN
    BY <1>0 DEF PoolsFit, Replaces, SamePool, SamePlaces
  <2> QED
    BY <2>1, <2>2 DEF PoolsFit
<1>7. doomed' \subseteq Conns
  BY <1>0, <1>2, <1>3, PlaceFacts
<1>8. ConnShaped' /\ \A r \in Operations : (Staged(r))'
  BY <1>0, <1>1, <1>5, <1>6, <1>7, Fit, SameConnsFit
<1>9. OnePlace'
  <2>1. \A a, b \in Operations : (Holds(a))' /\ a # b => op'[b].conn # op'[a].conn
    BY <1>4, PlaceFacts
  <2>2. ASSUME NEW a \in Operations, (Holds(a))'
        PROVE  op'[a].conn \notin doomed' /\ \A r \in Pools : op'[a].conn \notin (Idle(r))'
    <3>1. Holds(a) /\ op'[a].conn = op[a].conn
      BY <1>4, <2>2
    <3>2. op[a].conn \notin doomed /\ \A r \in Pools : op[a].conn \notin Idle(r)
      BY <3>1, PlaceFacts
    <3> QED
      BY <1>2, <1>3, <3>1, <3>2
  <2>3. \A r, t \in Pools : r # t => (Idle(r))' \cap (Idle(t))' = {}
    BY <1>2, PlaceFacts
  <2>4. ASSUME NEW r \in Pools, NEW d \in (Idle(r))', d \in doomed' PROVE FALSE
    <3>1. r \notin R \union N /\ d \in Idle(r)
      BY <1>2, <2>4
    <3>2. d \notin doomed
      BY <3>1, PlaceFacts
    <3>3. PICK t \in R : d \in Idle(t)
      BY <1>3, <2>4, <3>2
    <3>4. t \in Pools /\ t # r
      BY <1>2, <3>1
    <3> QED
      BY <3>1, <3>3, <3>4, PlaceFacts
  <2>5. ASSUME NEW r \in Pools, NEW i \in DOMAIN pool'[r].idle, NEW j \in DOMAIN pool'[r].idle, i # j
        PROVE  pool'[r].idle[i] # pool'[r].idle[j]
    <3>1. CASE r \in R \union N
      <4>1. pool'[r].idle = <<>>
        BY <1>2, <3>1
      <4>2. DOMAIN <<>> = {}
        OBVIOUS
      <4> QED
        BY <2>5, <4>1, <4>2
    <3>2. CASE r \notin R \union N
      <4>1. pool'[r].idle = pool[r].idle
        BY <3>2 DEF Replaces, SamePool, SamePlaces
      <4> QED
        BY <2>5, <4>1, PlaceFacts
    <3> QED
      BY <3>1, <3>2
  <2> QED
    BY <2>1, <2>2, <2>3, <2>4, <2>5 DEF OnePlace
<1>10. Belongs'
  <2>1. \A d : (Gone(d))' <=> Gone(d)
    BY <1>1 DEF Gone
  <2>2. ASSUME NEW a \in Operations, (Holds(a))', (~Gone(op[a].conn))' PROVE (conn[op[a].conn].pool = op[a].pool)'
    <3>1. Holds(a) /\ op'[a] = op[a]
      BY <1>4, <2>2
    <3> QED
      BY <1>1, <2>2, <3>1 DEF Custody, Belongs, Gone
  <2>3. \A r \in Pools : \A d \in (Idle(r))' : (~Gone(d))' => conn'[d].pool = r
    BY <1>1, <1>2, <2>1 DEF Custody, Belongs
  <2>4. ASSUME NEW d \in doomed', NEW r \in CurrentPools', ~Gone(d)
        PROVE  conn[d].pool # r
    <3>0. r \in Pools /\ (Current(r))' /\ r \notin R /\ d \in Conns
      BY <1>2, <1>7 DEF CurrentPools
    <3>1. CASE r \in N
      BY <1>2, <2>4, <3>0, <3>1 DEF Unused
    <3>2. CASE r \notin N
      <4>1. r \in CurrentPools
        BY <1>2, <3>0, <3>2 DEF CurrentPools
      <4>2. CASE d \in doomed
        BY <2>4, <4>1, <4>2 DEF Custody, Belongs
      <4>3. CASE d \notin doomed
        <5>1. PICK t \in R : d \in Idle(t)
          BY <1>3, <4>3
        <5>2. t # r /\ t \in Pools
          BY <1>2, <3>0
        <5> QED
          BY <2>4, <5>1, <5>2 DEF Custody, Belongs
      <4> QED
        BY <4>2, <4>3
    <3> QED
      BY <3>1, <3>2
  <2> QED
    BY <1>1, <2>1, <2>2, <2>3, <2>4 DEF Belongs
<1>11. RetiredBare'
  <2>1. ASSUME NEW a \in Operations, op'[a].pc = "close" PROVE (~Current(op[a].pool))'
    <3>1. op'[a] = op[a]
      BY <2>1 DEF Stirs
    <3>2. op[a].pool \in Pools /\ ~Current(op[a].pool) /\ op[a].pc # "out"
      BY <2>1, <3>1, Fields DEF Custody, RetiredBare
    <3>3. PICK r \in Pools : r = op[a].pool
      BY <3>2
    <3>4. r \notin N
      BY <1>2, <3>2, <3>3 DEF Unused, OperationsOf
    <3>5. r \notin R
      BY <1>2, <3>2, <3>3
    <3>6. ~(Current(r))'
      BY <1>2, <3>2, <3>3, <3>4, <3>5
    <3> QED
      BY <3>1, <3>3, <3>6 DEF Current
  <2>2. ASSUME NEW r \in Pools, ~(Current(r))' PROVE pool'[r].idle = <<>> /\ ~pool'[r].approved
    <3>1. CASE r \in R \union N
      BY <1>2, <3>1 DEF Replaces
    <3>2. CASE r \notin R \union N
      BY <1>2, <2>2, <3>2 DEF Replaces, SamePool, SamePlaces, Custody, RetiredBare
    <3> QED
      BY <3>1, <3>2
  <2>3. ASSUME closed' PROVE CurrentPools' = {}
    <3>1. CASE R = CurrentPools /\ N = {}
      BY <1>2, <3>1 DEF CurrentPools
    <3>2. CASE closed' = closed /\ N = {}
      <4>1. CurrentPools = {}
        BY <2>3, <3>2 DEF Custody, RetiredBare
      <4> QED
        BY <1>2, <3>2, <4>1 DEF CurrentPools
    <3> QED
      BY <2>3, <3>1, <3>2 DEF Shuts
  <2> QED
    BY <2>1, <2>2, <2>3 DEF RetiredBare
<1>12. EveryConnectionOwned'
  <2> SUFFICES ASSUME NEW d \in Conns, (Open(d))'
               PROVE  \/ \E a \in Operations : op'[a].conn = d
                      \/ \E r \in CurrentPools' : d \in (Idle(r))'
                      \/ d \in doomed'
    BY DEF EveryConnectionOwned, Idle
  <2>1. Open(d)
    BY <1>1 DEF Open
  <2>2. \/ \E a \in Operations : op[a].conn = d
        \/ \E r \in CurrentPools : d \in Idle(r)
        \/ d \in doomed
    BY <2>1 DEF Custody, EveryConnectionOwned, Idle
  <2>3. ASSUME NEW r \in CurrentPools, d \in Idle(r)
        PROVE  (r \in CurrentPools' /\ d \in (Idle(r))') \/ d \in doomed'
    <3>1. CASE r \in R
      BY <1>1, <2>3, <3>1
    <3>2. CASE r \notin R
      BY <1>2, <2>3, <3>2 DEF CurrentPools
    <3> QED
      BY <3>1, <3>2
  <2> QED
    BY <1>1, <1>4, <2>2, <2>3
<1> QED
  BY <1>8, <1>9, <1>10, <1>11, <1>12 DEF Custody

LEMMA RetiringReplaces ==
    ASSUME IInv, Custody,
           \/ \E q \in Pools : TimerFires(q) \/ EvictIdle(q)
           \/ \E a \in Accesses : Invalidate(a.profile)
           \/ Close
    PROVE  op' = op /\ \E R : Replaces(R, {}) /\ Shuts(R, {})
  BY RetiringView DEF Custody, Shuts

LEMMA CheckoutReplaces ==
    ASSUME IInv, Custody, NEW o \in Operations, NEW a \in Accesses, CheckoutShared(o, a) \/ CheckoutNew(o, a)
    PROVE  /\ op[o].pc = "out"
           /\ \E q \in Pools : \E R, N :
                /\ Replaces(R, N) /\ Shuts(R, N) /\ ((N = {} /\ Current(q) /\ q \notin R) \/ N = {q})
                /\ op'[o].pc = "slot" /\ op'[o].pool = q /\ op'[o].conn = NoConn /\ op'[o].slot = FALSE
                /\ op'[o].verdict = "none"
                /\ \A r \in Operations \ {o} : op'[r] = op[r]
<1>1. /\ op[o].pc = "out" /\ ~closed /\ closed' = closed
      /\ \E q \in Pools : \E R, N :
           /\ Replaces(R, N)
           /\ ((N = {} /\ Current(q) /\ q \notin R) \/ N = {q})
           /\ op'[o].pc = "slot" /\ op'[o].pool = q /\ op'[o].conn = NoConn /\ op'[o].slot = FALSE
           /\ op'[o].verdict = "none"
           /\ \A r \in Operations \ {o} : op'[r] = op[r]
  BY CheckoutView DEF Custody
<1>2. \A R, N : Shuts(R, N)
  BY <1>1 DEF Shuts
<1> QED
  BY <1>1, <1>2

LEMMA CustodyReplacing ==
    ASSUME IInv, Custody,
           \/ \E o \in Operations, a \in Accesses : CheckoutShared(o, a) \/ CheckoutNew(o, a)
           \/ \E q \in Pools : TimerFires(q) \/ EvictIdle(q)
           \/ \E a \in Accesses : Invalidate(a.profile)
           \/ Close
    PROVE  Custody'
<1>1. ASSUME NEW o \in Operations, NEW a \in Accesses, CheckoutShared(o, a) \/ CheckoutNew(o, a)
      PROVE  Custody'
  <2>1. op[o].pc = "out"
    BY <1>1, CheckoutReplaces
  <2>2. PICK q \in Pools : \E R, N :
          /\ Replaces(R, N) /\ Shuts(R, N) /\ ((N = {} /\ Current(q) /\ q \notin R) \/ N = {q})
          /\ op'[o].pc = "slot" /\ op'[o].pool = q /\ op'[o].conn = NoConn /\ op'[o].slot = FALSE
          /\ op'[o].verdict = "none"
          /\ \A r \in Operations \ {o} : op'[r] = op[r]
    BY <1>1, CheckoutReplaces
  <2>3. PICK R, N :
          /\ Replaces(R, N) /\ Shuts(R, N)
          /\ op'[o].pc = "slot" /\ op'[o].conn = NoConn /\ op'[o].slot = FALSE
          /\ op'[o].verdict = "none"
          /\ \A r \in Operations \ {o} : op'[r] = op[r]
    BY <2>2
  <2>4. \A r \in Operations : Stirs(r)
    BY <2>1, <2>3 DEF Stirs
  <2> QED
    BY <2>3, <2>4, ReplacesCustody
<1>2. CASE \/ \E q \in Pools : TimerFires(q) \/ EvictIdle(q)
           \/ \E a \in Accesses : Invalidate(a.profile)
           \/ Close
  <2>1. PICK R : Replaces(R, {}) /\ Shuts(R, {})
    BY <1>2, RetiringReplaces
  <2>2. \A r \in Operations : Stirs(r)
    BY <1>2, RetiringReplaces DEF Stirs
  <2> QED
    BY <2>1, <2>2, ReplacesCustody
<1> QED
  BY <1>1, <1>2

----------------------------------------------------------------------------
(* Slots and connections of a pool *)

\* Who may dial, or has a connection, has a slot.
LEMMA BusyHasSlot ==
    ASSUME OpsFit
    PROVE  \A q \in Pools : BusyOf(q) \subseteq SlotsOf(q)
  BY DEF OpsFit, Staged, BusyOf, SlotsOf, Busy

LEMMA FitsNumbers ==
    ASSUME OpsFit, NEW q \in Pools, Fits(q)
    PROVE  /\ IsFiniteSet(BusyOf(q))
           /\ Cardinality(SlotsOf(q)) \in Nat /\ Cardinality(Idle(q)) \in Nat /\ Cardinality(BusyOf(q)) \in Nat
           /\ Slots \in Nat
<1>1. IsFiniteSet(BusyOf(q))
  BY BusyHasSlot, FS_Subset DEF Fits
<1> QED
  BY <1>1, FS_CardinalityType, DriverAssumption DEF Fits

LEMMA FitsKept ==
    ASSUME OpsFit, NEW q \in Pools, Fits(q),
           (SlotsOf(q))' = SlotsOf(q), pool'[q].slots = pool[q].slots,
           (Idle(q))' \subseteq Idle(q), (BusyOf(q))' \subseteq BusyOf(q)
    PROVE  (Fits(q))'
<1>0. /\ IsFiniteSet(BusyOf(q))
      /\ Cardinality(SlotsOf(q)) \in Nat /\ Cardinality(Idle(q)) \in Nat /\ Cardinality(BusyOf(q)) \in Nat
      /\ Slots \in Nat
  BY FitsNumbers
<1>1. /\ IsFiniteSet(SlotsOf(q)) /\ pool[q].slots = Cardinality(SlotsOf(q)) /\ pool[q].slots <= Slots
      /\ IsFiniteSet(Idle(q)) /\ Cardinality(Idle(q)) + Cardinality(BusyOf(q)) <= Slots
  BY DEF Fits
<1>2. /\ IsFiniteSet((Idle(q))') /\ Cardinality((Idle(q))') \in Nat /\ Cardinality((Idle(q))') <= Cardinality(Idle(q))
      /\ Cardinality((BusyOf(q))') \in Nat /\ Cardinality((BusyOf(q))') <= Cardinality(BusyOf(q))
  BY <1>0, <1>1, FS_Subset, FS_CardinalityType
<1>3. Cardinality((Idle(q))') + Cardinality((BusyOf(q))') <= Slots
  BY <1>0, <1>1, <1>2
<1> QED
  BY <1>1, <1>2, <1>3 DEF Fits

LEMMA QuietFits ==
    ASSUME OpsFit, Capacity, Quiet
    PROVE  Capacity'
<1> SUFFICES ASSUME NEW q \in Pools PROVE (Fits(q))'
  BY DEF Capacity
<1>1. /\ (SlotsOf(q))' = SlotsOf(q) /\ (BusyOf(q))' \subseteq BusyOf(q)
      /\ (Idle(q))' \subseteq Idle(q) /\ pool'[q].slots = pool[q].slots
  BY DEF Quiet, SlotsOf, BusyOf, Idle
<1> QED
  BY <1>1, FitsKept DEF Capacity

\* Whatever a step of one operation does in its pool, the others have theirs.
LEMMA OtherFits ==
    ASSUME OpsFit, Capacity, NEW o \in Operations, NEW q \in Pools, q = op[o].pool, Others(q),
           \A r \in Operations \ {o} : op'[r] = op[r],
           op'[o].slot \/ (Busy(o))' => op'[o].pool = q
    PROVE  \A r \in Pools \ {q} : (Fits(r))'
<1> SUFFICES ASSUME NEW r \in Pools \ {q} PROVE (Fits(r))'
  OBVIOUS
<1>1. (SlotsOf(r))' = SlotsOf(r)
  <2>1. \A a \in Operations : (op'[a].slot /\ op'[a].pool = r) <=> (op[a].slot /\ op[a].pool = r)
    OBVIOUS
  <2> QED
    BY <2>1 DEF SlotsOf
<1>2. (BusyOf(r))' \subseteq BusyOf(r)
  BY DEF BusyOf, Busy, Holds
<1>3. pool'[r].slots = pool[r].slots /\ (Idle(r))' = Idle(r)
  BY DEF Others, Idle
<1>4. r \in Pools /\ Fits(r)
  BY DEF Capacity
<1> QED
  BY <1>1, <1>2, <1>3, <1>4, FitsKept

LEMMA AcquireSlotFits ==
    ASSUME IInv, Custody, Capacity, NEW o \in Operations, AcquireSlot(o)
    PROVE  Capacity'
<1>0. OpsFit
  BY Fit DEF Custody
<1>1. PICK q \in Pools : q = op[o].pool
  BY PoolOf DEF AcquireSlot
<1>2. /\ op[o].pc = "slot" /\ OpView(o, "pop", op[o].conn, TRUE, op[o].verdict)
      /\ Others(q) /\ pool[q].slots < Slots /\ pool'[q].slots = pool[q].slots + 1
      /\ pool'[q].idle = pool[q].idle
  BY <1>1, AcquireSlotView DEF Custody
<1>3. op[o].conn = NoConn /\ ~op[o].slot
  BY <1>0, <1>2 DEF OpsFit, Staged, Empty, Holds
<1>4. /\ op'[o].pc = "pop" /\ op'[o].conn = NoConn /\ op'[o].slot /\ op'[o].pool = q
      /\ \A r \in Operations \ {o} : op'[r] = op[r]
  BY <1>1, <1>2, <1>3 DEF OpView
<1>5. (SlotsOf(q))' = SlotsOf(q) \union {o} /\ o \notin SlotsOf(q)
  BY <1>3, <1>4 DEF SlotsOf
<1>6. (BusyOf(q))' \subseteq BusyOf(q) /\ (Idle(q))' = Idle(q)
  BY <1>2, <1>4 DEF BusyOf, Busy, Holds, Idle
<1>7. (Fits(q))'
  <2>0. /\ IsFiniteSet(BusyOf(q))
        /\ Cardinality(SlotsOf(q)) \in Nat /\ Cardinality(Idle(q)) \in Nat /\ Cardinality(BusyOf(q)) \in Nat
        /\ Slots \in Nat
    BY <1>0, FitsNumbers DEF Capacity
  <2>1. /\ IsFiniteSet(SlotsOf(q)) /\ pool[q].slots = Cardinality(SlotsOf(q)) /\ pool[q].slots <= Slots
        /\ IsFiniteSet(Idle(q)) /\ Cardinality(Idle(q)) + Cardinality(BusyOf(q)) <= Slots
    BY DEF Fits, Capacity
  <2>2. IsFiniteSet((SlotsOf(q))') /\ Cardinality((SlotsOf(q))') = Cardinality(SlotsOf(q)) + 1
    BY <1>5, <2>1, FS_AddElement
  <2>3. Cardinality((BusyOf(q))') \in Nat /\ Cardinality((BusyOf(q))') <= Cardinality(BusyOf(q))
    BY <1>6, <2>0, FS_Subset, FS_CardinalityType
  <2>4. pool'[q].slots = Cardinality((SlotsOf(q))') /\ pool'[q].slots <= Slots
    BY <1>2, <2>0, <2>1, <2>2
  <2>5. Cardinality((Idle(q))') + Cardinality((BusyOf(q))') <= Slots
    BY <1>6, <2>0, <2>1, <2>3
  <2> QED
    BY <1>6, <2>1, <2>2, <2>4, <2>5 DEF Fits
<1>8. \A r \in Pools \ {q} : (Fits(r))'
  BY <1>0, <1>1, <1>2, <1>4, OtherFits
<1> QED
  BY <1>7, <1>8 DEF Capacity

LEMMA FreeSlotFits ==
    ASSUME IInv, Custody, Capacity, NEW o \in Operations, FreeSlot(o)
    PROVE  Capacity'
<1>0. OpsFit
  BY Fit DEF Custody
<1>1. PICK q \in Pools : q = op[o].pool
  BY PoolOf DEF FreeSlot
<1>2. /\ op[o].pc = "free" /\ op'[o] = NoOperation /\ \A r \in Operations \ {o} : op'[r] = op[r]
      /\ Others(q) /\ pool'[q].slots = IF op[o].slot THEN pool[q].slots - 1 ELSE pool[q].slots
      /\ pool'[q].idle = pool[q].idle
  BY <1>1, FreeSlotView DEF Custody
<1>3. ~op'[o].slot /\ op'[o].pc = "out" /\ op'[o].conn = NoConn
  BY <1>2 DEF NoOperation
<1>4. (SlotsOf(q))' = SlotsOf(q) \ {o} /\ (op[o].slot <=> o \in SlotsOf(q))
  BY <1>1, <1>2, <1>3 DEF SlotsOf
<1>5. (BusyOf(q))' \subseteq BusyOf(q) /\ (Idle(q))' = Idle(q)
  BY <1>2, <1>3 DEF BusyOf, Busy, Holds, Idle
<1>6. (Fits(q))'
  <2>1. CASE ~op[o].slot
    <3>1. (SlotsOf(q))' = SlotsOf(q) /\ pool'[q].slots = pool[q].slots
      BY <1>2, <1>4, <2>1
    <3> QED
      BY <1>0, <1>5, <3>1, FitsKept DEF Capacity
  <2>2. CASE op[o].slot
    <3>0. /\ IsFiniteSet(BusyOf(q))
          /\ Cardinality(SlotsOf(q)) \in Nat /\ Cardinality(Idle(q)) \in Nat /\ Cardinality(BusyOf(q)) \in Nat
          /\ Slots \in Nat
      BY <1>0, FitsNumbers DEF Capacity
    <3>1. /\ IsFiniteSet(SlotsOf(q)) /\ pool[q].slots = Cardinality(SlotsOf(q)) /\ pool[q].slots <= Slots
          /\ IsFiniteSet(Idle(q)) /\ Cardinality(Idle(q)) + Cardinality(BusyOf(q)) <= Slots
      BY DEF Fits, Capacity
    <3>2. IsFiniteSet((SlotsOf(q))') /\ Cardinality((SlotsOf(q))') = Cardinality(SlotsOf(q)) - 1
      BY <1>4, <2>2, <3>1, FS_RemoveElement
    <3>3. Cardinality((BusyOf(q))') \in Nat /\ Cardinality((BusyOf(q))') <= Cardinality(BusyOf(q))
      BY <1>5, <3>0, FS_Subset, FS_CardinalityType
    <3>4. pool'[q].slots = Cardinality((SlotsOf(q))') /\ pool'[q].slots <= Slots
      BY <1>2, <2>2, <3>0, <3>1, <3>2
    <3>5. Cardinality((Idle(q))') + Cardinality((BusyOf(q))') <= Slots
      BY <1>5, <3>0, <3>1, <3>3
    <3> QED
      BY <1>5, <3>1, <3>2, <3>4, <3>5 DEF Fits
  <2> QED
    BY <2>1, <2>2
<1>7. \A r \in Pools \ {q} : (Fits(r))'
  BY <1>0, <1>1, <1>2, <1>3, OtherFits DEF Busy, Holds
<1> QED
  BY <1>6, <1>7 DEF Capacity

LEMMA PopIdleFits ==
    ASSUME IInv, Custody, Capacity, NEW o \in Operations, PopIdle(o)
    PROVE  Capacity'
<1>0. OpsFit /\ PoolsFit
  BY Fit DEF Custody
<1>1. PICK q \in Pools : q = op[o].pool
  BY PoolOf DEF PopIdle
<1>2. /\ op[o].pc = "pop" /\ Others(q) /\ pool'[q].slots = pool[q].slots
      /\ \E k \in 0..Len(pool[q].idle) : Pops(o, q, k)
  BY <1>1, PopIdleView DEF Custody
<1>3. PICK k \in 0..Len(pool[q].idle) : Pops(o, q, k)
  BY <1>2
<1>4. op[o].conn = NoConn /\ op[o].slot
  BY <1>0, <1>2 DEF OpsFit, Staged, Empty, Holds
<1>5. /\ op'[o].slot = op[o].slot /\ op'[o].pool = q
      /\ \A r \in Operations \ {o} : op'[r] = op[r]
  BY <1>1, <1>3 DEF Pops, OpView
<1>6. (SlotsOf(q))' = SlotsOf(q)
  BY <1>1, <1>5 DEF SlotsOf
<1>7. (BusyOf(q))' \subseteq BusyOf(q) \union {o} /\ o \in SlotsOf(q)
  BY <1>1, <1>4, <1>5 DEF BusyOf, Busy, Holds, SlotsOf
<1>8. /\ IsFiniteSet(BusyOf(q))
      /\ Cardinality(SlotsOf(q)) \in Nat /\ Cardinality(Idle(q)) \in Nat /\ Cardinality(BusyOf(q)) \in Nat
      /\ Slots \in Nat
  BY <1>0, FitsNumbers DEF Capacity
<1>9. /\ IsFiniteSet(SlotsOf(q)) /\ pool[q].slots = Cardinality(SlotsOf(q)) /\ pool[q].slots <= Slots
      /\ IsFiniteSet(Idle(q)) /\ Cardinality(Idle(q)) + Cardinality(BusyOf(q)) <= Slots
  BY DEF Fits, Capacity
<1>10. pool[q].idle \in Seq(Conns) /\ Len(pool[q].idle) \in Nat /\ DOMAIN pool[q].idle = 1..Len(pool[q].idle)
  BY <1>0, LenProperties DEF PoolsFit
<1>11. (Idle(q))' = {pool[q].idle[j] : j \in 1..(k - 1)} /\ 1..(k - 1) \subseteq DOMAIN pool[q].idle
  <2>1. 1 \in Nat \ {0} /\ k - 1 \in Int /\ k - 1 <= Len(pool[q].idle)
    BY <1>10
  <2>2. PICK n \in Int : n = k - 1
    BY <2>1
  <2>3. Range(SubSeq(pool[q].idle, 1, n)) = {pool[q].idle[j] : j \in 1..n} /\ 1..n \subseteq DOMAIN pool[q].idle
    BY <1>10, <2>1, <2>2, PartOf
  <2> QED
    BY <1>3, <2>2, <2>3 DEF Idle, Pops
<1>12. IsFiniteSet((Idle(q))') /\ Cardinality((Idle(q))') + Cardinality((BusyOf(q))') <= Slots
  <2>1. CASE k = 0
    <3>1. (Idle(q))' = {}
      BY <1>11, <2>1
    <3>2. (BusyOf(q))' \subseteq SlotsOf(q)
      BY <1>0, <1>7, BusyHasSlot
    <3>3. Cardinality((BusyOf(q))') \in Nat /\ Cardinality((BusyOf(q))') <= Cardinality(SlotsOf(q))
      BY <1>9, <3>2, FS_Subset, FS_CardinalityType
    <3>4. IsFiniteSet({}) /\ Cardinality({}) = 0
      BY FS_EmptySet
    <3> QED
      BY <1>8, <1>9, <3>1, <3>3, <3>4
  <2>2. CASE k # 0
    <3> DEFINE c == pool[q].idle[k]
    <3>1. c \in Idle(q) /\ \A j \in 1..(k - 1) : pool[q].idle[j] # c
      <4>1. k \in DOMAIN pool[q].idle /\ \A j \in 1..(k - 1) : j # k
        BY <1>10, <2>2
      <4> QED
        BY <1>11, <4>1, PlaceFacts DEF Idle, Range
    <3>2. (Idle(q))' \subseteq Idle(q) \ {c}
      BY <1>11, <3>1 DEF Idle, Range
    <3> HIDE DEF c
    <3>3. IsFiniteSet(Idle(q) \ {c}) /\ Cardinality(Idle(q) \ {c}) = Cardinality(Idle(q)) - 1
      BY <1>9, <3>1, FS_RemoveElement
    <3>4. /\ IsFiniteSet((Idle(q))') /\ Cardinality((Idle(q))') \in Nat
          /\ Cardinality((Idle(q))') <= Cardinality(Idle(q)) - 1
      BY <3>2, <3>3, FS_Subset, FS_CardinalityType
    <3>5. /\ IsFiniteSet(BusyOf(q) \union {o}) /\ Cardinality(BusyOf(q) \union {o}) \in Nat
          /\ Cardinality(BusyOf(q) \union {o}) <= Cardinality(BusyOf(q)) + 1
      <4>1. o \notin BusyOf(q)
        BY <1>2, <1>4 DEF BusyOf, Busy, Holds
      <4>2. IsFiniteSet(BusyOf(q) \union {o}) /\ Cardinality(BusyOf(q) \union {o}) = Cardinality(BusyOf(q)) + 1
        BY <1>8, <4>1, FS_AddElement
      <4> QED
        BY <1>8, <4>2
    <3>6. /\ Cardinality((BusyOf(q))') \in Nat
          /\ Cardinality((BusyOf(q))') <= Cardinality(BusyOf(q)) + 1
      <4>1. Cardinality((BusyOf(q))') \in Nat /\ Cardinality((BusyOf(q))') <= Cardinality(BusyOf(q) \union {o})
        BY <1>7, <3>5, FS_Subset, FS_CardinalityType
      <4> QED
        BY <1>8, <3>5, <4>1
    <3> QED
      BY <1>8, <1>9, <3>4, <3>6
  <2> QED
    BY <2>1, <2>2
<1>13. (Fits(q))'
  BY <1>2, <1>6, <1>9, <1>12 DEF Fits
<1>14. \A r \in Pools \ {q} : (Fits(r))'
  BY <1>0, <1>1, <1>2, <1>5, OtherFits
<1> QED
  BY <1>13, <1>14 DEF Capacity

\* The dialler has its place already.
LEMMA DialFits ==
    ASSUME IInv, Custody, Capacity, NEW o \in Operations, Dial(o)
    PROVE  Capacity'
<1>0. OpsFit
  BY Fit DEF Custody
<1>1. /\ pool' = pool /\ op[o].pc = "dial"
      /\ \E c \in Conns : OpView(o, "approve", c, op[o].slot, op[o].verdict)
  BY DialView DEF Custody
<1>2. Quiet
  BY <1>1 DEF Quiet, OpView, Busy, Holds
<1> QED
  BY <1>0, <1>2, QuietFits

LEMMA ReturnFits ==
    ASSUME IInv, Custody, Capacity, NEW o \in Operations, Return(o), NEW q \in Pools, q = op[o].pool,
           op[o].conn # NoConn, Current(q), ~closed
    PROVE  Capacity'
<1>0. OpsFit /\ PoolsFit
  BY Fit DEF Custody
<1>1. /\ Others(q) /\ pool'[q].slots = pool[q].slots
      /\ pool'[q].idle = Append(pool[q].idle, op[o].conn)
      /\ OpView(o, "free", NoConn, op[o].slot, op[o].verdict)
  BY ReturnView DEF Custody
<1>2. /\ op'[o].pc = "free" /\ op'[o].conn = NoConn /\ op'[o].slot = op[o].slot /\ op'[o].pool = q
      /\ \A r \in Operations \ {o} : op'[r] = op[r]
  BY <1>1 DEF OpView
<1>3. (SlotsOf(q))' = SlotsOf(q)
  BY <1>2 DEF SlotsOf
<1>4. (BusyOf(q))' \subseteq BusyOf(q) \ {o} /\ o \in BusyOf(q)
  BY <1>2 DEF BusyOf, Busy, Holds
<1>5. (Idle(q))' = Idle(q) \union {op[o].conn}
  <2>1. PICK s \in Seq(Conns) : s = pool[q].idle
    BY <1>0 DEF PoolsFit
  <2>2. PICK c \in Conns : c = op[o].conn
    BY <1>0 DEF OpsFit
  <2>3. /\ Append(s, c) \in Seq(Conns) /\ Len(Append(s, c)) = Len(s) + 1
        /\ \A i \in 1..Len(s) : Append(s, c)[i] = s[i]
        /\ Append(s, c)[Len(s) + 1] = c
    BY AppendProperties
  <2>4. DOMAIN Append(s, c) = 1..(Len(s) + 1) /\ DOMAIN s = 1..Len(s) /\ Len(s) \in Nat
    BY <2>3, LenProperties
  <2>5. 1..(Len(s) + 1) = 1..Len(s) \union {Len(s) + 1}
    BY <2>4
  <2>6. Range(Append(s, c)) = Range(s) \union {c}
    BY <2>3, <2>4, <2>5 DEF Range
  <2> QED
    BY <1>1, <2>1, <2>2, <2>6 DEF Idle
<1>6. /\ IsFiniteSet(BusyOf(q))
      /\ Cardinality(SlotsOf(q)) \in Nat /\ Cardinality(Idle(q)) \in Nat /\ Cardinality(BusyOf(q)) \in Nat
      /\ Slots \in Nat
  BY <1>0, FitsNumbers DEF Capacity
<1>7. /\ IsFiniteSet(SlotsOf(q)) /\ pool[q].slots = Cardinality(SlotsOf(q)) /\ pool[q].slots <= Slots
      /\ IsFiniteSet(Idle(q)) /\ Cardinality(Idle(q)) + Cardinality(BusyOf(q)) <= Slots
  BY DEF Fits, Capacity
<1>8. /\ IsFiniteSet((Idle(q))') /\ Cardinality((Idle(q))') \in Nat
      /\ Cardinality((Idle(q))') <= Cardinality(Idle(q)) + 1
  <2>1. op[o].conn \notin Idle(q)
    BY PlaceFacts DEF Holds
  <2>2. /\ IsFiniteSet(Idle(q) \union {op[o].conn})
        /\ Cardinality(Idle(q) \union {op[o].conn}) = Cardinality(Idle(q)) + 1
    BY <1>7, <2>1, FS_AddElement
  <2> QED
    BY <1>5, <1>6, <2>2
<1>9. IsFiniteSet(BusyOf(q) \ {o}) /\ Cardinality(BusyOf(q) \ {o}) = Cardinality(BusyOf(q)) - 1
  BY <1>4, <1>6, FS_RemoveElement
<1>10. Cardinality((BusyOf(q))') \in Nat /\ Cardinality((BusyOf(q))') <= Cardinality(BusyOf(q)) - 1
  BY <1>4, <1>9, FS_Subset, FS_CardinalityType
<1>11. Cardinality((Idle(q))') + Cardinality((BusyOf(q))') <= Slots
  BY <1>6, <1>7, <1>8, <1>10
<1>12. (Fits(q))'
  BY <1>1, <1>3, <1>7, <1>8, <1>11 DEF Fits
<1>13. \A r \in Pools \ {q} : (Fits(r))'
  BY <1>0, <1>1, <1>2, OtherFits
<1> QED
  BY <1>12, <1>13 DEF Capacity

LEMMA ReplacesFits ==
    ASSUME IInv, Custody, Capacity, NEW R, NEW N, Replaces(R, N), \A o \in Operations : Stirs(o)
    PROVE  Capacity'
<1>0. OpsFit
  BY Fit DEF Custody
<1>1. /\ \A q \in R \union N : q \in Pools /\ (Idle(q))' = {}
      /\ \A q \in N : Unused(q)
      /\ \A q \in Pools : (Idle(q))' \subseteq Idle(q)
  BY ReplacedPools
<1>2. \A a \in Operations : /\ op'[a].slot = op[a].slot /\ ((Busy(a))' => Busy(a))
                            /\ op[a].slot \/ Busy(a) => op'[a] = op[a] /\ op[a].pc # "out"
  BY <1>0 DEF OpsFit, Staged, Empty, Busy, Holds, Stirs
<1> SUFFICES ASSUME NEW q \in Pools PROVE (Fits(q))'
  BY DEF Capacity
<1>3. (SlotsOf(q))' = SlotsOf(q) /\ (BusyOf(q))' \subseteq BusyOf(q)
  BY <1>2 DEF SlotsOf, BusyOf
<1>4. CASE q \notin N
  <2>1. pool'[q].slots = pool[q].slots
    BY <1>4 DEF Replaces, SamePool, SamePlaces
  <2> QED
    BY <1>0, <1>1, <1>3, <2>1, FitsKept DEF Capacity
<1>5. CASE q \in N
  <2>1. SlotsOf(q) = {}
    BY <1>1, <1>2, <1>5 DEF Unused, OperationsOf, SlotsOf
  <2>2. (SlotsOf(q))' = {} /\ (BusyOf(q))' = {} /\ (Idle(q))' = {} /\ pool'[q].slots = 0
    BY <1>0, <1>1, <1>3, <1>5, <2>1, BusyHasSlot DEF Replaces
  <2>3. IsFiniteSet({}) /\ Cardinality({}) = 0 /\ 0 + 0 <= Slots /\ 0 <= Slots
    BY FS_EmptySet, DriverAssumption
  <2> QED
    BY <2>2, <2>3 DEF Fits
<1> QED
  BY <1>4, <1>5

----------------------------------------------------------------------------
(* Approval *)

\* A step that gives no connection to a pool's memory, nor to an operation
\* that counts on an approval, and spoils none on which one stands.
Cautious ==
  /\ \A q \in Pools : /\ pool'[q].live \subseteq pool[q].live
                      /\ pool'[q].approved => pool[q].approved
                      /\ (Alive(q))' => Alive(q) \/ pool'[q].live = {}
  /\ \A c \in Conns : Older(c)
  /\ \A o \in Operations, c \in Conns, q \in Pools : (Has(o, c, q))' =>
       /\ (Audited(o) /\ ~Gone(c))' =>
            Audited(o) /\ Has(o, c, q) /\ (c \in pool[q].live => c \in pool'[q].live)
       /\ op'[o].pc = "drop" => (op[o].pc = "drop" /\ Has(o, c, q)) \/ c \notin pool'[q].live
  /\ \A o \in Operations, c \in Conns : op'[o].conn = c /\ (Uses(o) /\ Open(c))' =>
       Uses(o) /\ op[o].conn = c /\ (c \in vouched => c \in vouched')
  /\ \A q \in Pools : pool'[q].approved => \A c \in pool'[q].live :
       (~Gone(c))' /\ c \in vouched => c \in vouched'

LEMMA CautiousStep ==
    ASSUME Custody, Registered, Vouched, Cautious
    PROVE  Registered' /\ Vouched'
<1>0. \A q \in Pools : pool[q].live \subseteq Conns
  BY DEF Custody, ConnShaped
<1>1. \A q \in Pools : (Alive(q))' => \A c \in pool'[q].live : (~Gone(c))' => conn'[c].pool = q
  <2> SUFFICES ASSUME NEW q \in Pools, (Alive(q))', NEW c \in pool'[q].live, (~Gone(c))'
               PROVE  conn'[c].pool = q
    OBVIOUS
  <2>1. c \in pool[q].live /\ c \in Conns /\ Alive(q)
    BY <1>0 DEF Cautious
  <2>2. ~Gone(c) /\ conn'[c].pool = conn[c].pool
    BY <2>1 DEF Cautious, Older
  <2> QED
    BY <2>1, <2>2 DEF Registered
<1>2. ASSUME NEW o \in Operations, NEW c \in Conns, NEW q \in Pools, (Has(o, c, q))'
      PROVE  /\ (Audited(o) /\ ~Gone(c))' => c \in pool'[q].live
             /\ op'[o].pc = "drop" => c \notin pool'[q].live
  <2>1. ASSUME (Audited(o) /\ ~Gone(c))' PROVE c \in pool'[q].live
    <3>1. Audited(o) /\ Has(o, c, q) /\ (c \in pool[q].live => c \in pool'[q].live)
      BY <1>2, <2>1 DEF Cautious
    <3>2. ~Gone(c)
      BY <2>1 DEF Cautious, Older
    <3> QED
      BY <3>1, <3>2 DEF Registered
  <2>2. ASSUME op'[o].pc = "drop" PROVE c \notin pool'[q].live
    <3>1. (op[o].pc = "drop" /\ Has(o, c, q)) \/ c \notin pool'[q].live
      BY <1>2, <2>2 DEF Cautious
    <3>2. pool'[q].live \subseteq pool[q].live
      BY DEF Cautious
    <3> QED
      BY <3>1, <3>2 DEF Registered
  <2> QED
    BY <2>1, <2>2
<1>3. \A q \in Pools : pool'[q].approved => \A c \in pool'[q].live : (~Gone(c))' => c \in vouched'
  <2> SUFFICES ASSUME NEW q \in Pools, pool'[q].approved, NEW c \in pool'[q].live, (~Gone(c))'
               PROVE  c \in vouched'
    OBVIOUS
  <2>1. c \in pool[q].live /\ c \in Conns /\ pool[q].approved /\ (c \in vouched => c \in vouched')
    BY <1>0 DEF Cautious
  <2>2. ~Gone(c)
    BY <2>1 DEF Cautious, Older
  <2> QED
    BY <2>1, <2>2 DEF Vouched
<1>4. \A o \in Operations, c \in Conns : op'[o].conn = c /\ (Uses(o) /\ Open(c))' => c \in vouched'
  <2> SUFFICES ASSUME NEW o \in Operations, NEW c \in Conns, op'[o].conn = c, (Uses(o) /\ Open(c))'
               PROVE  c \in vouched'
    OBVIOUS
  <2>1. Uses(o) /\ op[o].conn = c /\ (c \in vouched => c \in vouched')
    BY DEF Cautious
  <2>2. Open(c)
    BY DEF Cautious, Older
  <2> QED
    BY <2>1, <2>2 DEF Vouched
<1>5. Registered'
  BY <1>1, <1>2 DEF Registered
<1>6. Vouched'
  BY <1>3, <1>4 DEF Vouched
<1> QED
  BY <1>5, <1>6

\* Who may reach which pool does not grow when nobody enters.
LEMMA AliveKept ==
    ASSUME \A q \in Pools : pool'[q].current => Current(q),
           \A o \in Operations : op'[o].pc # "out" => op[o].pc # "out" /\ op'[o].pool = op[o].pool
    PROVE  \A q \in Pools : (Alive(q))' => Alive(q)
<1> TAKE q \in Pools
<1>1. (OperationsOf(q))' \subseteq OperationsOf(q)
  BY DEF OperationsOf
<1> QED
  BY <1>1 DEF Alive, Current

LEMMA PlainCautious ==
    ASSUME IInv, Custody, NEW o \in Operations,
           \/ AbandonSlot(o) \/ DialFails(o) \/ Wake(o) \/ AbandonWait(o)
           \/ \E healthy \in BOOLEAN : EndWork(o, healthy)
    PROVE  Cautious
<1>1. /\ UNCHANGED <<pool, conn, doomed, closed, vouched>>
      /\ \E pc, v : /\ OpView(o, pc, op[o].conn, op[o].slot, v)
                    /\ \/ op[o].pc = "slot" /\ pc = "return" /\ v = op[o].verdict
                       \/ op[o].pc = "dial" /\ pc = "return" /\ v = op[o].verdict
                       \/ op[o].pc = "waiting" /\ pc = "using" /\ v = "none" /\ op[o].verdict = "ok"
                       \/ op[o].pc = "waiting" /\ pc = "discard" /\ v = "none"
                       \/ op[o].pc = "using" /\ pc \in {"return", "discard"} /\ v = op[o].verdict
  BY PlainView DEF Custody
<1>2. /\ op'[o].conn = op[o].conn /\ op'[o].pool = op[o].pool
      /\ op[o].pc # "out" /\ op'[o].pc \in {"return", "using", "discard"}
      /\ (Uses(o))' => Uses(o)
      /\ \A r \in Operations \ {o} : op'[r] = op[r]
  BY <1>1 DEF OpView, Uses
<1>3. \A q \in Pools : (Alive(q))' => Alive(q)
  BY <1>1, <1>2, AliveKept DEF Current
<1>4. \A c \in Conns : Older(c)
  BY <1>1, SameConns
<1>5. \A r \in Operations : /\ (Audited(r))' => Audited(r)
                            /\ op'[r].pc = "drop" => op[r].pc = "drop"
                            /\ (Uses(r))' => Uses(r)
                            /\ op'[r].conn = op[r].conn /\ op'[r].pool = op[r].pool
  BY <1>2 DEF Audited, Uses
<1> QED
  BY <1>1, <1>3, <1>4, <1>5 DEF Cautious, Has

LEMMA FadingCautious ==
    ASSUME IInv, Custody,
           \/ \E o \in Operations : Break(o)
           \/ \E c \in Conns : Cleanup(c)
    PROVE  Cautious
<1>0. ConnsFit
  BY Fit DEF Custody
<1>1. /\ UNCHANGED <<pool, op, doomed, closed>>
      /\ \E c \in Conns : Fades(c) /\ (vouched' = vouched \/ (vouched' = vouched \ {c} /\ (Gone(c))'))
  BY FadingView DEF Custody
<1>2. PICK c \in Conns : Fades(c) /\ (vouched' = vouched \/ (vouched' = vouched \ {c} /\ (Gone(c))'))
  BY <1>1
<1>3. (\A d \in Conns : Older(d)) /\ ~(Open(c))'
  BY <1>0, <1>2, ConnFades
<1>4. \A q \in Pools : (Alive(q))' => Alive(q)
  BY <1>1 DEF Alive, OperationsOf, Current
<1>5. \A d : d \in vouched /\ d \notin vouched' => d = c /\ (Gone(c))'
  BY <1>2
<1>6. \A r \in Operations : ((Audited(r))' <=> Audited(r)) /\ ((Uses(r))' <=> Uses(r))
  BY <1>1 DEF Audited, Uses
<1>7. \A r \in Operations, d \in Conns, q \in Pools : (Has(r, d, q))' <=> Has(r, d, q)
  BY <1>1 DEF Has
<1> QED
  BY <1>1, <1>3, <1>4, <1>5, <1>6, <1>7 DEF Cautious

LEMMA AcquireSlotCautious ==
    ASSUME IInv, Custody, NEW o \in Operations, AcquireSlot(o)
    PROVE  Cautious
<1>1. PICK q \in Pools : q = op[o].pool
  BY PoolOf DEF AcquireSlot
<1>2. /\ UNCHANGED <<conn, doomed, closed, vouched>>
      /\ op[o].pc = "slot" /\ OpView(o, "pop", op[o].conn, TRUE, op[o].verdict)
      /\ Others(q) /\ pool'[q].current = pool[q].current
      /\ pool'[q].live = pool[q].live /\ pool'[q].approved = pool[q].approved
  BY <1>1, AcquireSlotView DEF Custody
<1>3. /\ op'[o].conn = op[o].conn /\ op'[o].pool = op[o].pool /\ op'[o].pc = "pop"
      /\ op'[o].verdict = op[o].verdict
      /\ \A r \in Operations \ {o} : op'[r] = op[r]
  BY <1>2 DEF OpView
<1>4. \A r \in Pools : /\ pool'[r].live = pool[r].live /\ pool'[r].approved = pool[r].approved
                       /\ pool'[r].current = pool[r].current
  BY <1>2 DEF Others
<1>5. \A r \in Pools : (Alive(r))' => Alive(r)
  BY <1>2, <1>3, <1>4, AliveKept DEF Current
<1>6. \A c \in Conns : Older(c)
  BY <1>2, SameConns
<1>7. \A r \in Operations : /\ (Audited(r))' => Audited(r)
                            /\ op'[r].pc = "drop" => op[r].pc = "drop"
                            /\ (Uses(r))' => Uses(r)
                            /\ op'[r].conn = op[r].conn /\ op'[r].pool = op[r].pool
  BY <1>3 DEF Audited, Uses
<1> QED
  BY <1>2, <1>4, <1>5, <1>6, <1>7 DEF Cautious, Has

LEMMA FreeSlotCautious ==
    ASSUME IInv, Custody, NEW o \in Operations, FreeSlot(o)
    PROVE  Cautious
<1>1. PICK q \in Pools : q = op[o].pool
  BY PoolOf DEF FreeSlot
<1>2. /\ UNCHANGED <<conn, doomed, closed, vouched>>
      /\ op[o].pc = "free" /\ op'[o] = NoOperation /\ \A r \in Operations \ {o} : op'[r] = op[r]
      /\ Others(q) /\ pool'[q].current = pool[q].current /\ pool'[q].approved = pool[q].approved
      /\ pool'[q].live = pool[q].live \/ (pool'[q].live = {} /\ ~Current(q) /\ OperationsOf(q) = {o})
  BY <1>1, FreeSlotView DEF Custody
<1>3. \A r \in Pools : /\ pool'[r].live \subseteq pool[r].live /\ pool'[r].approved = pool[r].approved
                       /\ pool'[r].current = pool[r].current
  BY <1>2 DEF Others
<1>4. \A r \in Pools : (Alive(r))' => Alive(r)
  BY <1>2, <1>3, AliveKept DEF Current, NoOperation
<1>5. \A c \in Conns : Older(c)
  BY <1>2, SameConns
<1>6. /\ ~(Audited(o))' /\ op'[o].pc # "drop" /\ ~(Uses(o))'
  BY <1>2 DEF Audited, Uses, NoOperation
<1>7. ASSUME NEW r \in Operations, NEW c \in Conns, NEW t \in Pools, (Has(r, c, t))'
      PROVE  /\ (Audited(r))' => Audited(r) /\ Has(r, c, t) /\ (c \in pool[t].live => c \in pool'[t].live)
             /\ op'[r].pc = "drop" => op[r].pc = "drop" /\ Has(r, c, t)
  <2>1. CASE r = o
    BY <1>6, <2>1
  <2>2. CASE r # o
    <3>1. op'[r] = op[r]
      BY <1>2, <2>2
    <3>2. Has(r, c, t) /\ ((Audited(r))' <=> Audited(r))
      BY <1>7, <3>1 DEF Has, Audited
    <3>3. Audited(r) /\ t = q => r \in OperationsOf(q)
      BY <3>2 DEF Has, Audited, OperationsOf
    <3>4. Audited(r) => pool'[t].live = pool[t].live
      BY <1>2, <2>2, <3>3 DEF Others
    <3> QED
      BY <3>1, <3>2, <3>4
  <2> QED
    BY <2>1, <2>2
<1>8. \A r \in Operations : (Uses(r))' => Uses(r) /\ op'[r].conn = op[r].conn
  BY <1>2, <1>6 DEF Uses
<1> QED
  BY <1>2, <1>3, <1>4, <1>5, <1>7, <1>8 DEF Cautious

\* Idle connections that are skipped are nobody else's.
LEMMA PopIdleCautious ==
    ASSUME IInv, Custody, NEW o \in Operations, PopIdle(o)
    PROVE  Cautious
<1>0. OpsFit /\ PoolsFit
  BY Fit DEF Custody
<1>1. PICK q \in Pools : q = op[o].pool
  BY PoolOf DEF PopIdle
<1>2. /\ UNCHANGED <<conn, doomed, closed, vouched>> /\ op[o].pc = "pop"
      /\ Others(q) /\ pool'[q].current = pool[q].current
      /\ pool'[q].approved \in BOOLEAN /\ (pool'[q].approved => pool[q].approved)
      /\ \E k \in 0..Len(pool[q].idle) : Pops(o, q, k)
  BY <1>1, PopIdleView DEF Custody
<1>3. PICK k \in 0..Len(pool[q].idle) : Pops(o, q, k)
  BY <1>2
<1>4. op[o].verdict = "none"
  BY <1>0, <1>2 DEF OpsFit, Staged
<1>5. /\ op'[o].pc \in {"dial", "approve"} /\ op'[o].verdict = "none" /\ op'[o].pool = q
      /\ \A r \in Operations \ {o} : op'[r] = op[r]
  BY <1>1, <1>3, <1>4 DEF Pops, OpView
<1>6. ASSUME NEW c \in pool[q].live, ~Gone(c), c \notin Idle(q) PROVE c \in pool'[q].live
  <2> DEFINE s == pool[q].idle
             skipped == Range(SubSeq(s, k + 1, Len(s)))
  <2>1. pool'[q].live = {d \in pool[q].live : ~Gone(d)} \ skipped
    BY <1>3 DEF Pops
  <2>2. skipped \subseteq Idle(q)
    <3>1. s \in Seq(Conns) /\ Len(s) \in Nat /\ k + 1 \in Nat \ {0}
      BY <1>0, LenProperties DEF PoolsFit
    <3>2. PICK m \in Nat \ {0} : m = k + 1
      BY <3>1
    <3>3. PICK n \in Int : n = Len(s) /\ n <= Len(s)
      BY <3>1
    <3>4. Range(SubSeq(s, m, n)) = {s[j] : j \in m..n} /\ m..n \subseteq DOMAIN s
      BY <3>1, <3>3, PartOf
    <3> QED
      BY <3>2, <3>3, <3>4 DEF Idle, Range
  <2> HIDE DEF skipped
  <2> QED
    BY <1>6, <2>1, <2>2
<1>7. \A r \in Pools : /\ pool'[r].live \subseteq pool[r].live
                       /\ pool'[r].approved => pool[r].approved
                       /\ pool'[r].current = pool[r].current
  BY <1>2, <1>3 DEF Others, Pops
<1>8. \A r \in Pools : (Alive(r))' => Alive(r)
  BY <1>1, <1>2, <1>5, <1>7, AliveKept DEF Current
<1>9. \A c \in Conns : Older(c)
  BY <1>2, SameConns
<1>10. ~(Audited(o))' /\ op'[o].pc # "drop" /\ ~(Uses(o))'
  BY <1>5 DEF Audited, Uses
<1>11. ASSUME NEW r \in Operations, NEW c \in Conns, NEW t \in Pools, (Has(r, c, t))'
       PROVE  /\ (Audited(r) /\ ~Gone(c))' =>
                   Audited(r) /\ Has(r, c, t) /\ (c \in pool[t].live => c \in pool'[t].live)
              /\ op'[r].pc = "drop" => op[r].pc = "drop" /\ Has(r, c, t)
  <2>1. CASE r = o
    BY <1>10, <2>1
  <2>2. CASE r # o
    <3>1. op'[r] = op[r]
      BY <1>5, <2>2
    <3>2. Has(r, c, t) /\ ((Audited(r))' <=> Audited(r)) /\ ((Gone(c))' <=> Gone(c))
      BY <1>2, <1>11, <3>1 DEF Has, Audited, Gone
    <3>3. c \notin Idle(q)
      BY <3>2, PlaceFacts DEF Has, Holds
    <3>4. ~Gone(c) /\ c \in pool[t].live => c \in pool'[t].live
      <4>1. CASE t = q
        BY <1>6, <3>3, <4>1
      <4>2. CASE t # q
        BY <1>2, <4>2 DEF Others
      <4> QED
        BY <4>1, <4>2
    <3> QED
      BY <3>1, <3>2, <3>4
  <2> QED
    BY <2>1, <2>2
<1>12. \A r \in Operations : (Uses(r))' => Uses(r) /\ op'[r].conn = op[r].conn
  BY <1>5, <1>10 DEF Uses
<1> QED
  BY <1>2, <1>7, <1>8, <1>9, <1>11, <1>12 DEF Cautious

\* No approval stands on a connection that is being closed: it was taken out of
\* its pool's memory, or its pool is no longer current.
LEMMA CloseConnCautious ==
    ASSUME IInv, Custody, Registered, NEW o \in Operations, CloseConn(o)
    PROVE  Cautious
<1>0. ConnsFit /\ OpsFit
  BY Fit DEF Custody
<1>1. /\ UNCHANGED <<pool, doomed, closed>> /\ op[o].pc \in {"drop", "close"}
      /\ op[o].conn \in Conns /\ Fades(op[o].conn)
      /\ vouched' = vouched \ {op[o].conn}
      /\ OpView(o, IF op[o].pc = "drop" THEN "return" ELSE "free", NoConn, op[o].slot, op[o].verdict)
  BY CloseConnView DEF Custody
<1>2. PICK c \in Conns : c = op[o].conn /\ Fades(c)
  BY <1>1
<1>3. PICK q \in Pools : q = op[o].pool
  BY <1>1, PoolOf
<1>4. op[o].verdict = "none" /\ Holds(o)
  BY <1>0, <1>1, <1>2, DriverAssumption DEF OpsFit, Staged, Holds
<1>5. /\ op'[o].pc \in {"return", "free"} /\ op'[o].verdict = "none" /\ op'[o].pool = q
      /\ \A r \in Operations \ {o} : op'[r] = op[r]
  BY <1>1, <1>3, <1>4 DEF OpView
<1>6. (\A d \in Conns : Older(d)) /\ ~(Open(c))'
  BY <1>0, <1>2, ConnFades
<1>7. \A r \in Pools : (Alive(r))' => Alive(r)
  BY <1>1, <1>3, <1>5, AliveKept DEF Current
<1>8. ~(Audited(o))' /\ op'[o].pc # "drop" /\ ~(Uses(o))'
  BY <1>5 DEF Audited, Uses
<1>9. \A d : d \in vouched /\ d \notin vouched' => d = c
  BY <1>1, <1>2
<1>10. ASSUME NEW r \in Pools, pool[r].approved, c \in pool[r].live, ~Gone(c) PROVE FALSE
  <2>1. Current(r) /\ Alive(r)
    BY <1>10 DEF Custody, RetiredBare, Alive
  <2>2. conn[c].pool = r
    BY <1>10, <2>1 DEF Registered
  <2>3. conn[c].pool = q
    BY <1>2, <1>3, <1>4, <1>10 DEF Custody, Belongs
  <2>4. op[o].pc = "drop" => c \notin pool[q].live
    BY <1>2, <1>3 DEF Registered, Has
  <2>5. op[o].pc = "close" => ~Current(q)
    BY <1>3 DEF Custody, RetiredBare
  <2> QED
    BY <1>1, <1>10, <2>1, <2>2, <2>3, <2>4, <2>5
<1>11. \A r \in Pools : pool'[r].approved => \A d \in pool'[r].live : (~Gone(d))' /\ d \in vouched => d \in vouched'
  BY <1>1, <1>2, <1>6, <1>9, <1>10 DEF Older
<1>12. \A r \in Operations, d \in Conns : op'[r].conn = d /\ (Uses(r) /\ Open(d))' => Uses(r) /\ op[r].conn = d
  BY <1>5, <1>8 DEF Uses
<1>13. \A r \in Operations, d \in Conns : op'[r].conn = d /\ (Uses(r) /\ Open(d))' /\ d \in vouched => d \in vouched'
  BY <1>6, <1>9
<1>14. \A r \in Operations, d \in Conns, t \in Pools : (Has(r, d, t))' =>
         /\ (Audited(r))' => Audited(r) /\ Has(r, d, t)
         /\ op'[r].pc = "drop" => op[r].pc = "drop" /\ Has(r, d, t)
  BY <1>5, <1>8 DEF Audited, Has
<1> QED
  BY <1>1, <1>6, <1>7, <1>11, <1>12, <1>13, <1>14 DEF Cautious

LEMMA CloseDoomedCautious ==
    ASSUME IInv, Custody, Registered, NEW c \in Conns, CloseDoomed(c)
    PROVE  Cautious
<1>0. ConnsFit /\ OpsFit
  BY Fit DEF Custody
<1>1. /\ UNCHANGED <<pool, op, closed>> /\ c \in doomed /\ doomed' = doomed \ {c}
      /\ vouched' = vouched \ {c} /\ Fades(c)
  BY CloseDoomedView DEF Custody
<1>2. (\A d \in Conns : Older(d)) /\ ~(Open(c))'
  BY <1>0, <1>1, ConnFades
<1>3. \A q \in Pools : (Alive(q))' => Alive(q)
  BY <1>1 DEF Alive, OperationsOf, Current
<1>4. \A d : d \in vouched /\ d \notin vouched' => d = c
  BY <1>1
<1>5. ASSUME NEW r \in Pools, pool[r].approved, c \in pool[r].live, ~Gone(c) PROVE FALSE
  <2>1. Current(r) /\ Alive(r) /\ r \in CurrentPools
    BY <1>5 DEF Custody, RetiredBare, Alive, CurrentPools
  <2>2. conn[c].pool = r
    BY <1>5, <2>1 DEF Registered
  <2> QED
    BY <1>1, <1>5, <2>1, <2>2 DEF Custody, Belongs
<1>6. \A r \in Pools : pool'[r].approved => \A d \in pool'[r].live : (~Gone(d))' /\ d \in vouched => d \in vouched'
  BY <1>1, <1>2, <1>4, <1>5 DEF Older
<1>7. \A r \in Operations : ((Audited(r))' <=> Audited(r)) /\ ((Uses(r))' <=> Uses(r))
  BY <1>1 DEF Audited, Uses
<1>8. \A r \in Operations, d \in Conns, q \in Pools : (Has(r, d, q))' <=> Has(r, d, q)
  BY <1>1 DEF Has
<1> QED
  BY <1>1, <1>2, <1>3, <1>4, <1>6, <1>7, <1>8 DEF Cautious

LEMMA ReturnCautious ==
    ASSUME IInv, Custody, NEW o \in Operations, Return(o)
    PROVE  Cautious
<1>0. OpsFit
  BY Fit DEF Custody
<1>1. PICK q \in Pools : q = op[o].pool
  BY PoolOf DEF Return
<1>2. /\ UNCHANGED <<conn, doomed, closed, vouched>> /\ op[o].pc = "return"
      /\ Others(q) /\ pool'[q].current = pool[q].current
      /\ pool'[q].live = {c \in pool[q].live : ~Gone(c)}
      /\ (pool'[q].approved => pool[q].approved)
      /\ \/ OpView(o, "free", NoConn, op[o].slot, op[o].verdict)
         \/ OpView(o, "close", op[o].conn, op[o].slot, op[o].verdict)
  BY <1>1, ReturnView DEF Custody
<1>3. op[o].verdict = "none"
  BY <1>0, <1>2 DEF OpsFit, Staged
<1>4. /\ op'[o].pc \in {"free", "close"} /\ op'[o].verdict = "none" /\ op'[o].pool = q
      /\ \A r \in Operations \ {o} : op'[r] = op[r]
  BY <1>1, <1>2, <1>3 DEF OpView
<1>5. \A r \in Pools : /\ pool'[r].live \subseteq pool[r].live
                       /\ pool'[r].approved => pool[r].approved
                       /\ pool'[r].current = pool[r].current
                       /\ \A c \in pool[r].live : ~Gone(c) => c \in pool'[r].live
  BY <1>2 DEF Others
<1>6. \A r \in Pools : (Alive(r))' => Alive(r)
  BY <1>1, <1>2, <1>4, <1>5, AliveKept DEF Current
<1>7. (\A c \in Conns : Older(c)) /\ \A c \in Conns : (Gone(c))' <=> Gone(c)
  BY <1>2, SameConns DEF Gone
<1>8. ~(Audited(o))' /\ op'[o].pc # "drop" /\ ~(Uses(o))'
  BY <1>4 DEF Audited, Uses
<1>9. \A r \in Operations, c \in Conns, t \in Pools : (Has(r, c, t))' =>
        /\ (Audited(r))' => Audited(r) /\ Has(r, c, t)
        /\ op'[r].pc = "drop" => op[r].pc = "drop" /\ Has(r, c, t)
  BY <1>4, <1>8 DEF Has, Audited
<1>10. \A r \in Operations : (Uses(r))' => Uses(r) /\ op'[r].conn = op[r].conn
  BY <1>4, <1>8 DEF Uses
<1> QED
  BY <1>2, <1>5, <1>6, <1>7, <1>9, <1>10 DEF Cautious

LEMMA DiscardCautious ==
    ASSUME IInv, Custody, Registered, NEW o \in Operations, Discard(o)
    PROVE  Cautious
<1>0. OpsFit /\ ConnsFit
  BY Fit DEF Custody
<1>1. PICK q \in Pools : q = op[o].pool
  BY PoolOf DEF Discard
<1>2. /\ UNCHANGED <<conn, doomed, closed>> /\ op[o].pc = "discard"
      /\ Others(q) /\ SamePlaces(q)
      /\ pool'[q].live = {c \in pool[q].live \ {op[o].conn} : ~Gone(c)}
      /\ (pool'[q].approved => pool[q].approved)
      /\ vouched' = vouched \ {op[o].conn}
      /\ OpView(o, "drop", op[o].conn, op[o].slot, op[o].verdict)
  BY <1>1, DiscardView DEF Custody
<1>3. Holds(o) /\ op[o].conn \in Conns /\ op[o].verdict = "none"
  BY <1>0, <1>2, PlaceFacts DEF OpsFit, Staged, Holding, Holds
<1>4. PICK c \in Conns : c = op[o].conn
  BY <1>3
<1>5. /\ op'[o].pc = "drop" /\ op'[o].verdict = "none" /\ op'[o].pool = q /\ op'[o].conn = c
      /\ \A r \in Operations \ {o} : op'[r] = op[r]
  BY <1>1, <1>2, <1>3, <1>4 DEF OpView
<1>6. \A r \in Pools : /\ pool'[r].live \subseteq pool[r].live
                       /\ pool'[r].approved => pool[r].approved
                       /\ pool'[r].current = pool[r].current
                       /\ \A d \in pool[r].live : ~Gone(d) /\ d # c => d \in pool'[r].live
  BY <1>2, <1>4 DEF Others, SamePlaces
<1>7. \A r \in Pools : (Alive(r))' => Alive(r)
  BY <1>1, <1>2, <1>5, <1>6, AliveKept DEF Current
<1>8. (\A d \in Conns : Older(d)) /\ \A d \in Conns : (Gone(d))' <=> Gone(d)
  BY <1>2, SameConns DEF Gone
<1>9. ~(Audited(o))' /\ ~(Uses(o))' /\ c \notin pool'[q].live
  BY <1>2, <1>4, <1>5 DEF Audited, Uses
<1>10. \A r \in Operations \ {o} : op[r].conn # c
  BY <1>3, <1>4, PlaceFacts
<1>11. ASSUME NEW r \in Operations, NEW d \in Conns, NEW t \in Pools, (Has(r, d, t))'
       PROVE  /\ (Audited(r) /\ ~Gone(d))' =>
                   Audited(r) /\ Has(r, d, t) /\ (d \in pool[t].live => d \in pool'[t].live)
              /\ op'[r].pc = "drop" => (op[r].pc = "drop" /\ Has(r, d, t)) \/ d \notin pool'[t].live
  <2>1. CASE r = o
    BY <1>5, <1>9, <1>11, <2>1 DEF Has
  <2>2. CASE r # o
    <3>1. op'[r] = op[r] /\ d # c
      BY <1>5, <1>10, <1>11, <2>2 DEF Has
    <3>2. Has(r, d, t) /\ ((Audited(r))' <=> Audited(r))
      BY <1>11, <3>1 DEF Has, Audited
    <3> QED
      BY <1>6, <1>8, <3>1, <3>2
  <2> QED
    BY <2>1, <2>2
<1>12. \A r \in Operations : (Uses(r))' => Uses(r) /\ op'[r].conn = op[r].conn /\ op[r].conn # c
  BY <1>5, <1>9, <1>10 DEF Uses
<1>13. \A d : d \in vouched /\ d \notin vouched' => d = c
  BY <1>2, <1>4
<1>14. ASSUME NEW r \in Pools, pool'[r].approved, c \in pool'[r].live, ~Gone(c) PROVE FALSE
  <2>1. pool[r].approved /\ c \in pool[r].live /\ r # q
    BY <1>6, <1>9, <1>14
  <2>2. Alive(r)
    BY <2>1 DEF Custody, RetiredBare, Alive
  <2>3. conn[c].pool = r
    BY <1>14, <2>1, <2>2 DEF Registered
  <2>4. conn[c].pool = q
    BY <1>1, <1>3, <1>4, <1>14 DEF Custody, Belongs
  <2> QED
    BY <2>1, <2>3, <2>4
<1>15. \A r \in Pools : pool'[r].approved => \A d \in pool'[r].live : (~Gone(d))' /\ d \in vouched => d \in vouched'
  BY <1>4, <1>8, <1>13, <1>14
<1> QED
  BY <1>6, <1>7, <1>8, <1>11, <1>12, <1>13, <1>15 DEF Cautious

LEMMA StutterCautious ==
    ASSUME IInv, Custody, UNCHANGED vars
    PROVE  Cautious
<1>1. UNCHANGED <<pool, conn, op, doomed, closed, vouched>>
  BY DEF vars
<1>2. \A q \in Pools : (Alive(q))' => Alive(q)
  BY <1>1 DEF Alive, OperationsOf, Current
<1>3. \A c \in Conns : Older(c)
  BY <1>1, SameConns
<1>4. \A r \in Operations : ((Audited(r))' <=> Audited(r)) /\ ((Uses(r))' <=> Uses(r))
  BY <1>1 DEF Audited, Uses
<1>5. \A r \in Operations, d \in Conns, q \in Pools : (Has(r, d, q))' <=> Has(r, d, q)
  BY <1>1 DEF Has
<1> QED
  BY <1>1, <1>2, <1>3, <1>4, <1>5 DEF Cautious

\* A pool that comes remembers nothing, one that goes is approved no more.
LEMMA ReplacesCautious ==
    ASSUME IInv, Custody, NEW R, NEW N, Replaces(R, N), \A o \in Operations : Stirs(o),
           \A o \in Operations : op'[o] = op[o] \/ Alive(op'[o].pool) \/ op'[o].pool \in N
    PROVE  Cautious
<1>0. OpsFit
  BY Fit DEF Custody
<1>1. /\ \A q \in R : q \notin N /\ Current(q)
      /\ \A q \in N : Unused(q)
      /\ \A q \in Pools \ (R \union N) : (Current(q))' <=> Current(q)
  BY ReplacedPools
<1>2. UNCHANGED <<conn, vouched>>
  BY DEF Replaces
<1>3. \A q \in Pools : /\ pool'[q].live \subseteq pool[q].live
                       /\ pool'[q].approved => pool[q].approved
                       /\ q \in N => pool'[q].live = {}
                       /\ q \notin N => pool'[q].live = pool[q].live
  BY DEF Replaces, SamePool, SamePlaces
<1>4. ASSUME NEW q \in Pools, (Alive(q))' PROVE Alive(q) \/ pool'[q].live = {}
  <2> SUFFICES ASSUME q \notin N, ~Current(q) PROVE Alive(q)
    BY <1>3 DEF Alive
  <2>1. q \notin R /\ ~(Current(q))'
    BY <1>1
  <2>2. PICK o \in Operations : op'[o].pc # "out" /\ op'[o].pool = q
    BY <1>4, <2>1 DEF Alive, OperationsOf
  <2>3. op'[o] = op[o] => o \in OperationsOf(q)
    BY <2>2 DEF OperationsOf
  <2> QED
    BY <2>2, <2>3 DEF Alive
<1>5. \A c \in Conns : Older(c)
  BY <1>2, SameConns
<1>6. \A r \in Operations : (Audited(r))' \/ (Uses(r))' \/ op'[r].pc = "drop" => op'[r] = op[r] /\ op[r].pc # "out"
  <2> TAKE r \in Operations
  <2>1. CASE op'[r] = op[r]
    BY <1>0, <2>1 DEF Audited, Uses, OpsFit, Staged
  <2>2. CASE op'[r] # op[r]
    BY <2>2 DEF Stirs, Audited, Uses
  <2> QED
    BY <2>1, <2>2
<1>7. ASSUME NEW r \in Operations, NEW c \in Conns, NEW t \in Pools, (Has(r, c, t))',
             (Audited(r))' \/ op'[r].pc = "drop"
      PROVE  /\ (Audited(r))' => Audited(r)
             /\ Has(r, c, t) /\ op[r].pc = op'[r].pc /\ pool'[t].live = pool[t].live
  <2>1. op'[r] = op[r] /\ op[r].pc # "out"
    BY <1>6, <1>7
  <2>2. Has(r, c, t) /\ ((Audited(r))' => Audited(r))
    BY <1>7, <2>1 DEF Has, Audited
  <2>3. t \notin N
    BY <1>1, <2>1, <2>2 DEF Unused, OperationsOf, Has
  <2> QED
    BY <1>3, <2>1, <2>2, <2>3
<1>8. \A r \in Operations : (Uses(r))' => Uses(r) /\ op'[r].conn = op[r].conn
  BY <1>6 DEF Uses
<1> QED
  BY <1>2, <1>3, <1>4, <1>5, <1>7, <1>8 DEF Cautious

\* A new connection is in no memory yet.
LEMMA DialVouched ==
    ASSUME IInv, Custody, Registered, Vouched, NEW o \in Operations, Dial(o)
    PROVE  Registered' /\ Vouched'
<1>0. OpsFit /\ PoolsFit
  BY Fit DEF Custody
<1>1. /\ UNCHANGED <<pool, doomed, closed, vouched>> /\ op[o].pc = "dial"
      /\ \E c \in Conns : /\ Undialled(c) /\ OpView(o, "approve", c, op[o].slot, op[o].verdict)
                          /\ conn'[c].pool = op[o].pool /\ conn'[c].state = "open"
                          /\ DOMAIN conn'[c] = DOMAIN NoConnection
                          /\ DOMAIN conn' = Conns
                          /\ \A d \in Conns \ {c} : conn'[d] = conn[d]
  BY DialView DEF Custody
<1>2. PICK c \in Conns : /\ Undialled(c) /\ OpView(o, "approve", c, op[o].slot, op[o].verdict)
                         /\ \A d \in Conns \ {c} : conn'[d] = conn[d]
  BY <1>1
<1>3. /\ \A r \in Operations : op[r].conn # c
      /\ \A q \in Pools : Alive(q) => c \notin pool[q].live
  BY <1>2, UndialledFree
<1>4. op[o].verdict = "none"
  BY <1>0, <1>1 DEF OpsFit, Staged
<1>5. /\ op'[o].pc = "approve" /\ op'[o].verdict = "none" /\ op'[o].pool = op[o].pool /\ op'[o].conn = c
      /\ \A r \in Operations \ {o} : op'[r] = op[r]
  BY <1>2, <1>4 DEF OpView
<1>6. \A q \in Pools : (Alive(q))' => Alive(q)
  BY <1>1, <1>5, AliveKept DEF Current
<1>7. \A d \in Conns \ {c} : /\ ((Gone(d))' <=> Gone(d)) /\ ((Open(d))' <=> Open(d))
                             /\ conn'[d].pool = conn[d].pool
  BY <1>2 DEF Gone, Open
<1>8. ~(Audited(o))' /\ op'[o].pc # "drop" /\ ~(Uses(o))'
  BY <1>5 DEF Audited, Uses
<1>9. \A q \in Pools : (Alive(q))' => \A d \in pool'[q].live : (~Gone(d))' => conn'[d].pool = q
  <2> SUFFICES ASSUME NEW q \in Pools, (Alive(q))', NEW d \in pool'[q].live, (~Gone(d))'
               PROVE  conn'[d].pool = q
    OBVIOUS
  <2>1. Alive(q) /\ d \in pool[q].live /\ d \in Conns \ {c}
    BY <1>0, <1>1, <1>3, <1>6 DEF PoolsFit
  <2> QED
    BY <1>7, <2>1 DEF Registered
<1>10. ASSUME NEW r \in Operations, NEW d \in Conns, NEW q \in Pools, (Has(r, d, q))'
       PROVE  /\ (Audited(r) /\ ~Gone(d))' => d \in pool'[q].live
              /\ op'[r].pc = "drop" => d \notin pool'[q].live
  <2>1. CASE r = o
    BY <1>8, <2>1
  <2>2. CASE r # o
    <3>1. op'[r] = op[r] /\ d # c
      BY <1>3, <1>5, <1>10, <2>2 DEF Has
    <3>2. Has(r, d, q) /\ ((Audited(r))' <=> Audited(r)) /\ ((Gone(d))' <=> Gone(d))
      BY <1>7, <1>10, <3>1 DEF Has, Audited
    <3> QED
      BY <1>1, <3>1, <3>2 DEF Registered
  <2> QED
    BY <2>1, <2>2
<1>11. \A q \in Pools : pool'[q].approved => \A d \in pool'[q].live : (~Gone(d))' => d \in vouched'
  <2> SUFFICES ASSUME NEW q \in Pools, pool'[q].approved, NEW d \in pool'[q].live, (~Gone(d))'
               PROVE  d \in vouched'
    OBVIOUS
  <2>1. pool[q].approved /\ d \in pool[q].live /\ d \in Conns
    BY <1>0, <1>1 DEF PoolsFit
  <2>2. Alive(q)
    BY <2>1 DEF Custody, RetiredBare, Alive
  <2> QED
    BY <1>1, <1>3, <1>7, <2>1, <2>2 DEF Vouched
<1>12. ASSUME NEW r \in Operations, NEW d \in Conns, op'[r].conn = d, (Uses(r) /\ Open(d))' PROVE d \in vouched'
  <2>1. r # o
    BY <1>8, <1>12
  <2>2. op'[r] = op[r] /\ d # c
    BY <1>3, <1>5, <1>12, <2>1
  <2>3. Uses(r) /\ Open(d) /\ op[r].conn = d
    BY <1>7, <1>12, <2>2 DEF Uses
  <2> QED
    BY <1>1, <2>3 DEF Vouched
<1>13. Registered'
  BY <1>9, <1>10 DEF Registered
<1>14. Vouched'
  BY <1>11, <1>12 DEF Vouched
<1> QED
  BY <1>13, <1>14

\* The approval counts only while a connection that carries it survives, so
\* the audit of that one covers the connection that arrives.
LEMMA ApproveVouched ==
    ASSUME IInv, Custody, Registered, Vouched, NEW o \in Operations, Approve(o)
    PROVE  Registered' /\ Vouched'
<1>0. OpsFit /\ PoolsFit
  BY Fit DEF Custody
<1>1. PICK q \in Pools : q = op[o].pool
  BY PoolOf DEF Approve
<1>2. /\ UNCHANGED <<conn, doomed, closed>> /\ op[o].pc = "approve"
      /\ Others(q) /\ SamePlaces(q)
      /\ pool'[q].live = {c \in pool[q].live : ~Gone(c)} \union {op[o].conn}
      /\ pool'[q].approved \in BOOLEAN
      /\ pool'[q].approved <=> pool[q].approved /\ \E c \in pool[q].live : ~Gone(c)
      /\ \E pc : /\ OpView(o, pc, op[o].conn, op[o].slot, op[o].verdict)
                 /\ pc \in {"using", "waiting", "audit"} /\ (pc = "using" => pool'[q].approved)
      /\ vouched' = IF Survivors(q) = {} THEN vouched \ {op[o].conn}
                    ELSE IF pool'[q].approved THEN vouched \union {op[o].conn} ELSE vouched
  BY <1>1, ApproveView DEF Custody
<1>3. Holds(o) /\ op[o].conn \in Conns /\ op[o].verdict = "none"
  BY <1>0, <1>2, PlaceFacts DEF OpsFit, Staged, Holding, Holds
<1>4. PICK c \in Conns : c = op[o].conn
  BY <1>3
<1>5. /\ op'[o].pc \in {"using", "waiting", "audit"} /\ (op'[o].pc = "using" => pool'[q].approved)
      /\ op'[o].verdict = "none" /\ op'[o].pool = q /\ op'[o].conn = c
      /\ \A r \in Operations \ {o} : op'[r] = op[r]
  BY <1>1, <1>2, <1>3, <1>4 DEF OpView
<1>6. /\ \A r \in Pools \ {q} : pool'[r] = pool[r]
      /\ pool'[q].live = {d \in pool[q].live : ~Gone(d)} \union {c}
      /\ pool'[q].current = pool[q].current
  BY <1>2, <1>4 DEF Others, SamePlaces
<1>7. \A r \in Pools : (Alive(r))' => Alive(r)
  BY <1>1, <1>2, <1>5, <1>6, AliveKept DEF Current
<1>8. \A d : ((Gone(d))' <=> Gone(d)) /\ ((Open(d))' <=> Open(d)) /\ (Open(d) => ~Gone(d))
  BY <1>2 DEF Gone, Open
<1>9. \A r \in Operations \ {o} : op[r].conn # c
  BY <1>3, <1>4, PlaceFacts
<1>10. ~Gone(c) => conn[c].pool = q
  BY <1>1, <1>3, <1>4 DEF Custody, Belongs
<1>11. Alive(q)
  BY <1>1, <1>2 DEF Alive, OperationsOf
\* The first audited connection that survives.
<1>12. ASSUME pool'[q].approved PROVE pool[q].approved /\ vouched' = vouched \union {c}
  <2>1. PICK d \in pool[q].live : ~Gone(d)
    BY <1>2, <1>12
  <2>2. pool[q].approved /\ d \in vouched
    BY <1>2, <1>12, <2>1 DEF Vouched
  <2>3. conn[d].pool = q
    BY <1>11, <2>1 DEF Registered
  <2>4. d \in Survivors(q)
    BY <2>1, <2>2, <2>3 DEF Survivors
  <2> QED
    BY <1>2, <1>4, <1>12, <2>2, <2>4
<1>13. vouched \ {c} \subseteq vouched'
  BY <1>2, <1>4
<1>14. \A r \in Pools : (Alive(r))' => \A d \in pool'[r].live : (~Gone(d))' => conn'[d].pool = r
  <2> SUFFICES ASSUME NEW r \in Pools, (Alive(r))', NEW d \in pool'[r].live, (~Gone(d))'
               PROVE  conn'[d].pool = r
    OBVIOUS
  <2>1. Alive(r) /\ ~Gone(d) /\ conn' = conn
    BY <1>2, <1>7, <1>8
  <2>2. CASE d \in pool[r].live
    BY <2>1, <2>2 DEF Registered
  <2>3. CASE d \notin pool[r].live
    BY <1>6, <1>10, <2>1, <2>3
  <2> QED
    BY <2>2, <2>3
<1>15. ASSUME NEW r \in Operations, NEW d \in Conns, NEW t \in Pools, (Has(r, d, t))'
       PROVE  /\ (Audited(r) /\ ~Gone(d))' => d \in pool'[t].live
              /\ op'[r].pc = "drop" => d \notin pool'[t].live
  <2>1. CASE r = o
    BY <1>5, <1>6, <1>15, <2>1 DEF Has
  <2>2. CASE r # o
    <3>1. op'[r] = op[r] /\ d # c
      BY <1>5, <1>9, <1>15, <2>2 DEF Has
    <3>2. Has(r, d, t) /\ ((Audited(r))' <=> Audited(r)) /\ ((Gone(d))' <=> Gone(d))
      BY <1>8, <1>15, <3>1 DEF Has, Audited
    <3>3. ~Gone(d) => (d \in pool'[t].live <=> d \in pool[t].live)
      BY <1>6, <3>1
    <3>4. d \in pool'[t].live => d \in pool[t].live
      BY <1>6, <3>1
    <3> QED
      BY <3>1, <3>2, <3>3, <3>4 DEF Registered
  <2> QED
    BY <2>1, <2>2
<1>16. \A r \in Pools : pool'[r].approved => \A d \in pool'[r].live : (~Gone(d))' => d \in vouched'
  <2> SUFFICES ASSUME NEW r \in Pools, pool'[r].approved, NEW d \in pool'[r].live, (~Gone(d))'
               PROVE  d \in vouched'
    OBVIOUS
  <2>0. ~Gone(d)
    BY <1>8
  <2>1. CASE r = q
    <3>1. pool[q].approved /\ vouched' = vouched \union {c}
      BY <1>12, <2>1
    <3>2. d = c \/ d \in pool[q].live
      BY <1>6, <2>1
    <3> QED
      BY <2>0, <3>1, <3>2 DEF Vouched
  <2>2. CASE r # q
    <3>1. pool[r].approved /\ d \in pool[r].live
      BY <1>6, <2>2
    <3>2. Alive(r)
      BY <3>1 DEF Custody, RetiredBare, Alive
    <3>3. d # c
      BY <1>10, <2>0, <2>2, <3>1, <3>2 DEF Registered
    <3> QED
      BY <1>13, <2>0, <3>1, <3>3 DEF Vouched
  <2> QED
    BY <2>1, <2>2
<1>17. ASSUME NEW r \in Operations, NEW d \in Conns, op'[r].conn = d, (Uses(r) /\ Open(d))' PROVE d \in vouched'
  <2>1. CASE r = o
    <3>1. pool'[q].approved
      BY <1>5, <1>17, <2>1 DEF Uses
    <3> QED
      BY <1>5, <1>12, <1>17, <2>1, <3>1
  <2>2. CASE r # o
    <3>1. op'[r] = op[r] /\ d # c
      BY <1>5, <1>9, <1>17, <2>2
    <3>2. Uses(r) /\ Open(d) /\ op[r].conn = d
      BY <1>8, <1>17, <3>1 DEF Uses
    <3> QED
      BY <1>13, <3>1, <3>2 DEF Vouched
  <2> QED
    BY <2>1, <2>2
<1>18. Registered'
  BY <1>14, <1>15 DEF Registered
<1>19. Vouched'
  BY <1>16, <1>17 DEF Vouched
<1> QED
  BY <1>18, <1>19

\* The verdict covers the connections that its pool remembers now: those of the
\* auditor and of all who wait.
LEMMA AuditEndsVouched ==
    ASSUME IInv, Custody, Registered, Vouched, NEW o \in Operations, NEW good \in BOOLEAN, AuditEnds(o, good)
    PROVE  Registered' /\ Vouched'
<1>0. OpsFit /\ PoolsFit
  BY Fit DEF Custody
<1>1. PICK q \in Pools : q = op[o].pool
  BY PoolOf DEF AuditEnds
<1>2. /\ UNCHANGED <<conn, doomed, closed>> /\ op[o].pc = "audit"
      /\ Others(q) /\ SamePlaces(q)
      /\ pool'[q].live = {c \in pool[q].live : ~Gone(c)}
      /\ pool'[q].approved \in BOOLEAN /\ (pool'[q].approved => Current(q))
      /\ vouched' = IF pool'[q].approved THEN vouched \union pool'[q].live ELSE vouched
      /\ op'[o].pc = IF pool'[q].approved THEN "using" ELSE "discard"
      /\ op'[o].verdict = op[o].verdict
      /\ \A r \in Operations : /\ op'[r].conn = op[r].conn /\ op'[r].slot = op[r].slot
                               /\ op'[r].pool = op[r].pool
      /\ \A r \in Operations \ {o} :
           /\ op'[r].pc = op[r].pc
           /\ \/ op'[r].verdict = op[r].verdict
              \/ /\ op[r].pc = "waiting" /\ op[r].pool = q
                 /\ (op'[r].verdict = "ok" => pool'[q].approved)
  BY <1>1, AuditEndsView DEF Custody
<1>3. /\ \A r \in Pools \ {q} : pool'[r] = pool[r]
      /\ \A r \in Pools : /\ pool'[r].live \subseteq pool[r].live
                          /\ \A d \in pool[r].live : ~Gone(d) => d \in pool'[r].live
                          /\ pool'[r].current = pool[r].current
  BY <1>2 DEF Others, SamePlaces
<1>4. \A r \in Pools : (Alive(r))' => Alive(r)
  BY <1>2, <1>3, AliveKept DEF Current
<1>5. \A d : ((Gone(d))' <=> Gone(d)) /\ ((Open(d))' <=> Open(d)) /\ (Open(d) => ~Gone(d))
  BY <1>2 DEF Gone, Open
<1>6. vouched \subseteq vouched' /\ (pool'[q].approved => pool'[q].live \subseteq vouched')
  BY <1>2
<1>7. \A r \in Pools : (Alive(r))' => \A d \in pool'[r].live : (~Gone(d))' => conn'[d].pool = r
  BY <1>2, <1>3, <1>4, <1>5 DEF Registered
<1>8. ASSUME NEW r \in Operations, NEW d \in Conns, NEW t \in Pools, (Has(r, d, t))'
       PROVE  /\ (Audited(r) /\ ~Gone(d))' => d \in pool'[t].live
              /\ op'[r].pc = "drop" => d \notin pool'[t].live
  <2>1. Has(r, d, t)
    BY <1>2, <1>8 DEF Has
  <2>2. ((Audited(r))' => Audited(r)) /\ (op'[r].pc = "drop" => op[r].pc = "drop")
    <3>1. CASE r = o
      BY <1>2, <3>1 DEF Audited
    <3>2. CASE r # o
      BY <1>2, <3>2 DEF Audited
    <3> QED
      BY <3>1, <3>2
  <2> QED
    BY <1>3, <1>5, <2>1, <2>2 DEF Registered
<1>9. \A r \in Pools : pool'[r].approved => \A d \in pool'[r].live : (~Gone(d))' => d \in vouched'
  BY <1>3, <1>5, <1>6 DEF Vouched
<1>10. ASSUME NEW r \in Operations, NEW d \in Conns, op'[r].conn = d, (Uses(r) /\ Open(d))' PROVE d \in vouched'
  <2>1. op[r].conn = d /\ op'[r].pool = op[r].pool /\ Open(d) /\ ~Gone(d)
    BY <1>2, <1>5, <1>10
  <2>2. CASE Uses(r)
    BY <1>6, <2>1, <2>2 DEF Vouched
  <2>3. CASE ~Uses(r)
    <3>1. Audited(r) /\ op[r].pool = q /\ pool'[q].approved
      <4>1. CASE r = o
        BY <1>1, <1>2, <1>10, <2>3, <4>1 DEF Audited, Uses
      <4>2. CASE r # o
        BY <1>2, <1>10, <2>3, <4>2 DEF Audited, Uses
      <4> QED
        BY <4>1, <4>2
    <3>2. d \in pool[q].live
      BY <2>1, <3>1 DEF Registered, Has
    <3> QED
      BY <1>3, <1>6, <2>1, <3>1, <3>2
  <2> QED
    BY <2>2, <2>3
<1>11. Registered'
  BY <1>7, <1>8 DEF Registered
<1>12. Vouched'
  BY <1>9, <1>10 DEF Vouched
<1> QED
  BY <1>11, <1>12

----------------------------------------------------------------------------
(* The invariant of the connections *)

\* The first state: no connection, no slot taken.
LEMMA InitConnections == Init => CInv
<1> SUFFICES ASSUME Init PROVE CInv
  OBVIOUS
<1>1. /\ \A q \in Pools : /\ pool[q].idle = <<>> /\ pool[q].live = {} /\ pool[q].slots = 0
                          /\ pool[q].approved = FALSE /\ pool[q].current = FALSE
      /\ \A o \in Operations : /\ op[o].pc = "out" /\ op[o].conn = NoConn /\ op[o].slot = FALSE
                               /\ op[o].verdict = "none"
      /\ \A c \in Conns : conn[c] = NoConnection /\ Gone(c) /\ ~Open(c)
      /\ DOMAIN conn = Conns /\ doomed = {} /\ closed = FALSE
  BY DEF Init, NoPool, NoOperation, NoConnection, Gone, Open
<1>2. <<>> \in Seq(Conns) /\ Range(<<>>) = {}
  BY EmptySeq DEF Range
<1>3. \A q \in Pools : Idle(q) = {} /\ ~Current(q)
  BY <1>1, <1>2 DEF Idle, Current
<1>4. ConnShaped /\ \A o \in Operations : Staged(o)
  <2>1. \A o \in Operations : Staged(o)
    BY <1>1 DEF Staged, Holds, Empty, Holding
  <2>2. \A q \in Pools : pool[q].idle \in Seq(Conns) /\ pool[q].live \subseteq Conns /\ pool[q].approved \in BOOLEAN
    BY <1>1, <1>2
  <2>3. \A c \in Conns : DOMAIN conn[c] = DOMAIN NoConnection /\ conn[c].state \in {"open", "closing", "gone"}
    BY <1>1 DEF NoConnection
  <2>4. \A o \in Operations : /\ op[o].conn \in Conns \union {NoConn} /\ op[o].slot \in BOOLEAN
                              /\ op[o].pc \in Empty \union Holding \union {"return"}
    BY <1>1 DEF Empty
  <2> QED
    BY <1>1, <2>1, <2>2, <2>3, <2>4 DEF ConnShaped
<1>5. OnePlace
  <2>1. \A q \in Pools : DOMAIN pool[q].idle = {}
    BY <1>1
  <2> QED
    BY <1>1, <1>3, <2>1 DEF OnePlace, Holds
<1>6. Belongs /\ RetiredBare /\ EveryConnectionOwned
  BY <1>1, <1>3 DEF Belongs, RetiredBare, EveryConnectionOwned, Holds, CurrentPools
<1>7. Capacity
  <2> SUFFICES ASSUME NEW q \in Pools PROVE Fits(q)
    BY DEF Capacity
  <2>1. SlotsOf(q) = {} /\ BusyOf(q) = {} /\ Idle(q) = {} /\ pool[q].slots = 0
    BY <1>1, <1>3 DEF SlotsOf, BusyOf, Busy, Holds
  <2>2. IsFiniteSet({}) /\ Cardinality({}) = 0 /\ 0 + 0 <= Slots /\ 0 <= Slots
    BY FS_EmptySet, DriverAssumption
  <2> QED
    BY <2>1, <2>2 DEF Fits
<1>8. Registered /\ Vouched
  BY <1>1 DEF Registered, Vouched, Audited, Uses
<1> QED
  BY <1>4, <1>5, <1>6, <1>7, <1>8 DEF CInv, Custody

\* An operation enters a pool that is current, or new.
LEMMA CheckoutStirs ==
    ASSUME IInv, Custody, NEW o \in Operations, NEW a \in Accesses, CheckoutShared(o, a) \/ CheckoutNew(o, a)
    PROVE  \E R, N : /\ Replaces(R, N) /\ Shuts(R, N)
                     /\ \A r \in Operations : Stirs(r)
                     /\ \A r \in Operations : op'[r] = op[r] \/ Alive(op'[r].pool) \/ op'[r].pool \in N
<1>1. op[o].pc = "out"
  BY CheckoutReplaces
<1>2. PICK q \in Pools : \E R, N :
        /\ Replaces(R, N) /\ Shuts(R, N) /\ ((N = {} /\ Current(q) /\ q \notin R) \/ N = {q})
        /\ op'[o].pc = "slot" /\ op'[o].pool = q /\ op'[o].conn = NoConn /\ op'[o].slot = FALSE
        /\ op'[o].verdict = "none"
        /\ \A r \in Operations \ {o} : op'[r] = op[r]
  BY CheckoutReplaces
<1>3. PICK R, N :
        /\ Replaces(R, N) /\ Shuts(R, N) /\ ((N = {} /\ Current(q) /\ q \notin R) \/ N = {q})
        /\ op'[o].pc = "slot" /\ op'[o].pool = q /\ op'[o].conn = NoConn /\ op'[o].slot = FALSE
        /\ op'[o].verdict = "none"
        /\ \A r \in Operations \ {o} : op'[r] = op[r]
  BY <1>2
<1>4. \A r \in Operations : Stirs(r)
  BY <1>1, <1>3 DEF Stirs
<1>5. \A r \in Operations : op'[r] = op[r] \/ Alive(op'[r].pool) \/ op'[r].pool \in N
  BY <1>3 DEF Alive
<1> QED
  BY <1>3, <1>4, <1>5

\* Steps that replace pools.
LEMMA ReplacingStep ==
    ASSUME IInv, CInv,
           \/ \E o \in Operations, a \in Accesses : CheckoutShared(o, a) \/ CheckoutNew(o, a)
           \/ \E q \in Pools : TimerFires(q) \/ EvictIdle(q)
           \/ \E a \in Accesses : Invalidate(a.profile)
           \/ Close
    PROVE  CInv'
<1>0. Custody /\ Capacity /\ Registered /\ Vouched
  BY DEF CInv
<1>1. \E R, N : /\ Replaces(R, N) /\ Shuts(R, N)
                /\ \A r \in Operations : Stirs(r)
                /\ \A r \in Operations : op'[r] = op[r] \/ Alive(op'[r].pool) \/ op'[r].pool \in N
  <2>1. ASSUME NEW o \in Operations, NEW a \in Accesses, CheckoutShared(o, a) \/ CheckoutNew(o, a)
        PROVE  \E R, N : /\ Replaces(R, N) /\ Shuts(R, N)
                         /\ \A r \in Operations : Stirs(r)
                         /\ \A r \in Operations : op'[r] = op[r] \/ Alive(op'[r].pool) \/ op'[r].pool \in N
    BY <1>0, <2>1, CheckoutStirs
  <2>2. CASE \/ \E q \in Pools : TimerFires(q) \/ EvictIdle(q)
             \/ \E a \in Accesses : Invalidate(a.profile)
             \/ Close
    <3>1. op' = op /\ \E R : Replaces(R, {}) /\ Shuts(R, {})
      BY <1>0, <2>2, RetiringReplaces
    <3> QED
      BY <3>1 DEF Stirs
  <2> QED
    BY <2>1, <2>2
<1>2. PICK R, N : /\ Replaces(R, N) /\ Shuts(R, N)
                  /\ \A r \in Operations : Stirs(r)
                  /\ \A r \in Operations : op'[r] = op[r] \/ Alive(op'[r].pool) \/ op'[r].pool \in N
  BY <1>1
<1>3. Custody'
  BY <1>0, <1>2, ReplacesCustody
<1>4. Capacity'
  BY <1>0, <1>2, ReplacesFits
<1>5. Registered' /\ Vouched'
  BY <1>0, <1>2, ReplacesCautious, CautiousStep
<1> QED
  BY <1>3, <1>4, <1>5 DEF CInv

\* Steps that leave places and slots alone, and are cautious.
LEMMA QuietStep ==
    ASSUME IInv, CInv, Calm, Quiet, Cautious
    PROVE  CInv'
<1>0. Custody /\ Capacity /\ Registered /\ Vouched /\ OpsFit
  BY Fit DEF CInv, Custody
<1> QED
  BY <1>0, CalmStep, QuietFits, CautiousStep DEF CInv

LEMMA ConnectionStep ==
    ASSUME IInv, CInv, [Next]_vars
    PROVE  CInv'
<1>0. Custody /\ Capacity /\ Registered /\ Vouched /\ OpsFit
  BY Fit DEF CInv, Custody
<1>1. CASE UNCHANGED vars
  BY <1>0, <1>1, StutterCalm, StutterCautious, QuietStep
<1>2. CASE \E c \in Conns : Cleanup(c)
  BY <1>0, <1>2, FadingCalm, FadingCautious, QuietStep
<1>3. ASSUME NEW c \in Conns, CloseDoomed(c) PROVE CInv'
  BY <1>0, <1>3, CloseDoomedCalm, CloseDoomedCautious, QuietStep
<1>4. CASE \/ \E o \in Operations, a \in Accesses : CheckoutShared(o, a) \/ CheckoutNew(o, a)
           \/ \E q \in Pools : TimerFires(q) \/ EvictIdle(q)
           \/ \E a \in Accesses : Invalidate(a.profile)
           \/ Close
  BY <1>4, ReplacingStep
<1>5. ASSUME NEW o \in Operations,
             \/ AbandonSlot(o) \/ DialFails(o) \/ Wake(o) \/ AbandonWait(o)
             \/ \E healthy \in BOOLEAN : EndWork(o, healthy)
      PROVE  CInv'
  BY <1>0, <1>5, PlainCalm, PlainCautious, QuietStep
<1>6. ASSUME NEW o \in Operations, Break(o) PROVE CInv'
  BY <1>0, <1>6, FadingCalm, FadingCautious, QuietStep
<1>7. ASSUME NEW o \in Operations, Discard(o) PROVE CInv'
  BY <1>0, <1>7, DiscardCalm, DiscardCautious, QuietStep
<1>8. ASSUME NEW o \in Operations, CloseConn(o) PROVE CInv'
  BY <1>0, <1>8, CloseConnCalm, CloseConnCautious, QuietStep
<1>9. ASSUME NEW o \in Operations, AcquireSlot(o) PROVE CInv'
  BY <1>0, <1>9, AcquireSlotCalm, CalmStep, AcquireSlotFits, AcquireSlotCautious, CautiousStep DEF CInv
<1>10. ASSUME NEW o \in Operations, FreeSlot(o) PROVE CInv'
  BY <1>0, <1>10, FreeSlotCalm, CalmStep, FreeSlotFits, FreeSlotCautious, CautiousStep DEF CInv
<1>11. ASSUME NEW o \in Operations, PopIdle(o) PROVE CInv'
  <2>1. PICK q \in Pools : q = op[o].pool
    BY <1>0, <1>11, PoolOf DEF PopIdle
  <2> QED
    BY <1>0, <1>11, <2>1, PopIdleCustody, PopIdleFits, PopIdleCautious, CautiousStep DEF CInv
<1>12. ASSUME NEW o \in Operations, Dial(o) PROVE CInv'
  <2>1. PICK q \in Pools : q = op[o].pool
    BY <1>0, <1>12, PoolOf DEF Dial
  <2> QED
    BY <1>0, <1>12, <2>1, DialCustody, DialFits, DialVouched DEF CInv
<1>13. ASSUME NEW o \in Operations, Approve(o) PROVE CInv'
  BY <1>0, <1>13, ApproveCalm, CalmStep, QuietFits, ApproveVouched DEF CInv
<1>14. ASSUME NEW o \in Operations, NEW good \in BOOLEAN, AuditEnds(o, good) PROVE CInv'
  BY <1>0, <1>14, AuditEndsCalm, CalmStep, QuietFits, AuditEndsVouched DEF CInv
<1>15. ASSUME NEW o \in Operations, Return(o) PROVE CInv'
  <2>1. PICK q \in Pools : q = op[o].pool
    BY <1>0, <1>15, PoolOf DEF Return
  <2>2. CASE op[o].conn = NoConn \/ ~Current(q) \/ closed
    BY <1>0, <1>15, <2>1, <2>2, ReturnCalm, ReturnCautious, QuietStep
  <2>3. CASE op[o].conn # NoConn /\ Current(q) /\ ~closed
    BY <1>0, <1>15, <2>1, <2>3, ReturnCustody, ReturnFits, ReturnCautious, CautiousStep DEF CInv
  <2> QED
    BY <2>2, <2>3
<1>16. ASSUME NEW o \in Operations, Step(o) PROVE CInv'
  BY <1>4, <1>5, <1>6, <1>7, <1>8, <1>9, <1>10, <1>11, <1>12, <1>13, <1>14, <1>15, <1>16 DEF Step
<1> QED
  BY <1>1, <1>2, <1>3, <1>4, <1>16 DEF Next

\* The inductive invariant of the connections.
THEOREM ConnectionInvariant == Spec => []CInv
<1>1. Init => CInv
  BY InitConnections
<1>2. IInv /\ CInv /\ [Next]_vars => CInv'
  BY ConnectionStep
<1> QED
  BY <1>1, <1>2, PoolInvariant, PTL DEF Spec

\* A physical connection always has someone who will close or reuse it
\* (release, retireLocked and closePool): nothing leaks.
THEOREM EveryConnectionOwnedThm == Spec => []EveryConnectionOwned
<1>1. CInv => EveryConnectionOwned
  BY DEF CInv, Custody
<1> QED
  BY <1>1, ConnectionInvariant, PTL

\* The open connections of a current pool are among its idle ones and those of
\* the operations that hold a slot of it.
LEMMA OpenAccountedFor ==
    ASSUME CInv, NEW q \in CurrentPools
    PROVE  LET S == {c \in Conns : Open(c) /\ conn[c].pool = q}
           IN  IsFiniteSet(S) /\ Cardinality(S) <= Slots
<1> DEFINE S == {c \in Conns : Open(c) /\ conn[c].pool = q}
           T == {op[o].conn : o \in BusyOf(q)}
           f == [o \in BusyOf(q) |-> op[o].conn]
<1>0. Custody /\ OpsFit /\ q \in Pools /\ Fits(q)
  BY Fit DEF CInv, Custody, Capacity, CurrentPools
<1>1. S \subseteq Idle(q) \union T
  <2> SUFFICES ASSUME NEW c \in Conns, Open(c), conn[c].pool = q PROVE c \in Idle(q) \union T
    OBVIOUS
  <2>1. ~Gone(c)
    BY DEF Open, Gone
  <2>2. ASSUME NEW o \in Operations, op[o].conn = c PROVE c \in T
    <3>1. Holds(o)
      BY <2>2, DriverAssumption DEF Holds
    <3>2. op[o].pool = q
      BY <1>0, <2>1, <2>2, <3>1 DEF Custody, Belongs
    <3> QED
      BY <2>2, <3>1, <3>2 DEF BusyOf, Busy
  <2>3. ASSUME NEW r \in CurrentPools, c \in Idle(r) PROVE r = q
    BY <1>0, <2>1, <2>3 DEF Custody, Belongs, CurrentPools
  <2>4. c \notin doomed
    BY <1>0, <2>1 DEF Custody, Belongs
  <2>5. \/ \E o \in Operations : op[o].conn = c
        \/ \E r \in CurrentPools : c \in Idle(r)
        \/ c \in doomed
    BY <1>0 DEF Custody, EveryConnectionOwned, Idle
  <2> QED
    BY <2>2, <2>3, <2>4, <2>5
<1>2. /\ IsFiniteSet(BusyOf(q)) /\ Cardinality(BusyOf(q)) \in Nat /\ Cardinality(Idle(q)) \in Nat
      /\ Slots \in Nat
      /\ IsFiniteSet(Idle(q)) /\ Cardinality(Idle(q)) + Cardinality(BusyOf(q)) <= Slots
  BY <1>0, FitsNumbers DEF Fits
<1>3. f \in Surjection(BusyOf(q), T)
  BY DEF Surjection
<1> HIDE DEF S, T, f
<1>4. IsFiniteSet(T) /\ Cardinality(T) <= Cardinality(BusyOf(q)) /\ Cardinality(T) \in Nat
  BY <1>2, <1>3, FS_Surjection, FS_CardinalityType
<1>5. /\ IsFiniteSet(Idle(q) \union T)
      /\ Cardinality(Idle(q) \union T) <= Cardinality(Idle(q)) + Cardinality(T)
  <2>1. IsFiniteSet(Idle(q) \cap T)
    BY <1>2, FS_Subset
  <2>2. Cardinality(Idle(q) \cap T) \in Nat
    BY <2>1, FS_CardinalityType
  <2>3. /\ IsFiniteSet(Idle(q) \union T)
        /\ Cardinality(Idle(q) \union T) = Cardinality(Idle(q)) + Cardinality(T) - Cardinality(Idle(q) \cap T)
    BY <1>2, <1>4, FS_Union
  <2> QED
    BY <1>2, <1>4, <2>2, <2>3
<1>6. IsFiniteSet(S) /\ Cardinality(S) <= Cardinality(Idle(q) \union T) /\ Cardinality(S) \in Nat
  BY <1>1, <1>5, FS_Subset, FS_CardinalityType
<1>7. Cardinality(Idle(q) \union T) \in Nat
  BY <1>5, FS_CardinalityType
<1>8. Cardinality(S) <= Slots
  BY <1>2, <1>4, <1>5, <1>6, <1>7
<1> QED
  BY <1>6, <1>8 DEF S

\* A current pool has at most Slots open connections, and none is shared, or idle
\* while an operation has it (checkout, p.slots, release).
THEOREM ConnectionsBoundedThm == Spec => []ConnectionsBounded
<1>1. ASSUME CInv PROVE ConnectionsBounded
  <2>1. \A q \in CurrentPools : Cardinality({c \in Conns : Open(c) /\ conn[c].pool = q}) <= Slots
    BY <1>1, OpenAccountedFor
  <2>2. ASSUME NEW o \in Operations, NEW c \in Conns, op[o].conn = c
        PROVE  /\ \A r \in Operations \ {o} : op[r].conn # c
               /\ \A q \in Pools : ~Unused(q) => c \notin Range(pool[q].idle)
    <3>1. Holds(o)
      BY <2>2, DriverAssumption DEF Holds
    <3> QED
      BY <1>1, <2>2, <3>1, PlaceFacts DEF CInv, Idle
  <2> QED
    BY <2>1, <2>2 DEF ConnectionsBounded
<1> QED
  BY <1>1, ConnectionInvariant, PTL

\* No query runs on a connection that no audit of its pool covers (approvePool,
\* forgetClosed).
THEOREM VouchedBeforeUseThm == Spec => []VouchedBeforeUse
<1>1. ASSUME CInv PROVE VouchedBeforeUse
  <2> SUFFICES ASSUME NEW o \in Operations, op[o].pc = "using", Open(op[o].conn)
               PROVE  op[o].conn \in vouched
    BY DEF VouchedBeforeUse
  <2>1. op[o].conn \in Conns
    BY <1>1 DEF CInv, Custody, ConnShaped, Staged, Holding, Holds
  <2> QED
    BY <1>1, <2>1 DEF CInv, Vouched, Uses
<1> QED
  BY <1>1, ConnectionInvariant, PTL

=============================================================================
