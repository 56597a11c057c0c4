-------------------------- MODULE StateLocks_proofs --------------------------
(***************************************************************************)
(* What the locks of internal/config guarantee.                            *)
(*                                                                         *)
(* The queue (RwQueue), for every finite set of goroutines: its counters   *)
(* are exact, a writer excludes everybody else, no wake-up is lost, and it *)
(* implements ReaderWriter.  The inductive invariant joins the exactness   *)
(* of the counters with the exclusion: the admission test looks at the     *)
(* counters only, and they say who holds the queue only while they are     *)
(* exact.                                                                  *)
(*                                                                         *)
(* The leases (StateLocks), for any number of actors, processes and        *)
(* installations: they exclude each other although the lock files are      *)
(* unlinked and created again, no ordinary lease outlives the tombstone, a *)
(* purge is final, an established installation keeps its lock files, and   *)
(* those who wait never wait for one another.                              *)
(*                                                                         *)
(* None of these is inductive alone.  The strengthening says which flocks  *)
(* an actor holds at each point (PcLocks), that flocks on one inode are    *)
(* compatible (FlocksCompatible) and that a held flock is on the inode the *)
(* name stands for, until its holder itself unlinks the name               *)
(* (LockedNamed).  Two holders of one file then meet on one inode.         *)
(***************************************************************************)
EXTENDS StateLocks, RwQueue, FiniteSetTheorems, TLAPS

----------------------------------------------------------------------------
(* The queue *)

QueueInv == QueueTypeOK /\ CountsExact /\ Exclusion

\* The sets the counters stand for are finite.
LEMMA FiniteHolders ==
    /\ IsFiniteSet(Readers) /\ IsFiniteSet(Writers) /\ IsFiniteSet(WaitingWriters)
  BY GoroutinesAssumption, FS_Subset DEF Readers, Writers, WaitingWriters

\* One turn of the loop, by a goroutine that does not hold the queue, keeps
\* the counters exact: w counts the waiting writers, g among them if it writes.
LEMMA TurnCounts ==
    ASSUME QueueInv,
           NEW g \in Goroutines, NEW m \in Modes, NEW c \in BOOLEAN, NEW w \in Nat,
           at[g] # "held",
           g \in WaitingWriters => m = "write",
           m = "write" => w = Cardinality(WaitingWriters \ {g}) + 1,
           m = "read" => w = Cardinality(WaitingWriters),
           mode' = [mode EXCEPT ![g] = m],
           cancelled' \in [Goroutines -> BOOLEAN],
           Turn(g, m, w, c)
    PROVE  QueueInv'
  <1> DEFINE Others == WaitingWriters \ {g}
  <1>0. /\ QueueTypeOK /\ CountsExact /\ Exclusion /\ mode'[g] = m /\ at[g] \in {"idle", "parked", "woken"}
        /\ mode' \in [Goroutines -> Modes]
        /\ \A h \in Goroutines : h # g => mode'[h] = mode[h]
    BY DEF QueueInv, QueueTypeOK
  <1>1. IsFiniteSet(Others) /\ Cardinality(Others) \in Nat /\ g \notin Others
    BY FiniteHolders, FS_Subset, FS_CardinalityType
  <1>2. m = "read" => Others = WaitingWriters
    OBVIOUS
  <1>3. Cardinality(Others \cup {g}) = Cardinality(Others) + 1
    BY <1>1, FS_AddElement
  <1>k. PICK k \in Nat : k = Cardinality(Others)
    BY <1>1
  <1>w. (m = "write" => w = k + 1) /\ (m = "read" => w = k)
    BY <1>k, <1>2
  <1>4. CASE c /\ GiveUp(g, m, w)
    <2>1. /\ waiting' = Cardinality(Others) /\ UNCHANGED <<readers, writer>>
      BY <1>k, <1>w, <1>4 DEF GiveUp, Modes
    <2>2. /\ at' \in [Goroutines -> {"idle", "parked", "woken", "held"}]
          /\ at'[g] = "idle"
          /\ \A h \in Goroutines : h # g =>
               /\ at'[h] = "held" <=> at[h] = "held"
               /\ at'[h] \in {"parked", "woken"} <=> at[h] \in {"parked", "woken"}
      BY <1>0, <1>4 DEF GiveUp, Signalled, QueueTypeOK
    <2>3. WaitingWriters' = Others
      BY <1>0, <2>2 DEF WaitingWriters, Waiting
    <2>4. Readers' = Readers /\ Writers' = Writers
      BY <1>0, <2>2 DEF Readers, Writers, Holding
    <2>5. QueueTypeOK' /\ CountsExact'
      BY <1>0, <1>1, <2>1, <2>2, <2>3, <2>4 DEF QueueTypeOK, CountsExact
    <2>6. Exclusion'
      BY <1>0, <2>2 DEF Exclusion, Holding
    <2> QED BY <2>5, <2>6 DEF QueueInv
  <1>5. CASE ~c /\ Grant(g, m, w)
    <2>1. /\ at' \in [Goroutines -> {"idle", "parked", "woken", "held"}]
          /\ at'[g] = "held"
          /\ \A h \in Goroutines : h # g => at'[h] = at[h]
      BY <1>0, <1>5 DEF Grant, QueueTypeOK
    <2>2. WaitingWriters' = Others
      BY <1>0, <2>1 DEF WaitingWriters, Waiting
    <2>3. g \notin Readers /\ g \notin Writers
      BY <1>0 DEF Readers, Writers, Holding
    <2>4. waiting' = Cardinality(Others)
      BY <1>k, <1>w, <1>5 DEF Grant, Modes
    <2>5. CASE m = "write"
      <3>1. Readers' = Readers /\ Writers' = Writers \cup {g}
        BY <1>0, <2>1, <2>3, <2>5 DEF Readers, Writers, Holding
      <3>2. writer' = TRUE /\ readers' = readers
        BY <1>5, <2>5 DEF Grant
      <3>3. ~writer /\ readers = 0
        BY <1>5, <2>5 DEF Grant, Admissible
      <3>4. Readers = {} /\ Writers = {}
        BY <1>0, <3>3, FiniteHolders, FS_EmptySet DEF CountsExact
      <3>5. \A h \in Goroutines : at[h] # "held"
        BY <1>0, <3>4 DEF QueueTypeOK, Modes, Readers, Writers, Holding
      <3>6. Exclusion'
        BY <2>1, <3>5 DEF Exclusion, Holding
      <3>7. QueueTypeOK' /\ CountsExact'
        BY <1>0, <1>1, <2>1, <2>2, <2>4, <3>1, <3>2 DEF QueueTypeOK, CountsExact
      <3> QED BY <3>6, <3>7 DEF QueueInv
    <2>6. CASE m = "read"
      <3>1. Readers' = Readers \cup {g} /\ Writers' = Writers
        BY <1>0, <2>1, <2>3, <2>6 DEF Readers, Writers, Holding
      <3>2. Cardinality(Readers') = Cardinality(Readers) + 1
        BY <3>1, <2>3, FiniteHolders, FS_AddElement
      <3>3. writer' = writer /\ readers' = readers + 1
        BY <1>5, <2>6 DEF Grant
      <3>4. Writers' = {}
        BY <1>0, <1>5, <2>6, <3>1 DEF Grant, Admissible, CountsExact
      <3>5. Exclusion'
        BY <3>4 DEF Exclusion, Writers
      <3>6. QueueTypeOK' /\ CountsExact'
        BY <1>0, <1>1, <2>1, <2>2, <2>4, <3>1, <3>2, <3>3 DEF QueueTypeOK, CountsExact
      <3> QED BY <3>5, <3>6 DEF QueueInv
    <2> QED BY <2>5, <2>6 DEF Modes
  <1>6. CASE ~c /\ Park(g, m, w)
    <2>1. /\ at' \in [Goroutines -> {"idle", "parked", "woken", "held"}]
          /\ at'[g] = "parked"
          /\ \A h \in Goroutines : h # g => at'[h] = at[h]
      BY <1>0, <1>6 DEF Park, QueueTypeOK
    <2>2. WaitingWriters' = IF m = "write" THEN Others \cup {g} ELSE WaitingWriters
      BY <1>0, <1>2, <2>1 DEF WaitingWriters, Waiting, Modes
    <2>3. Readers' = Readers /\ Writers' = Writers
      BY <1>0, <2>1 DEF Readers, Writers, Holding
    <2>4. waiting' = Cardinality(WaitingWriters') /\ UNCHANGED <<readers, writer>>
      BY <1>1, <1>2, <1>3, <1>k, <1>w, <1>6, <2>2 DEF Park, Modes
    <2>5. waiting' \in Nat
      BY <1>6 DEF Park
    <2>6. QueueTypeOK' /\ CountsExact'
      BY <1>0, <2>1, <2>3, <2>4, <2>5 DEF QueueTypeOK, CountsExact
    <2>7. Exclusion'
      BY <1>0, <2>1 DEF Exclusion, Holding
    <2> QED BY <2>6, <2>7 DEF QueueInv
  <1> QED BY <1>4, <1>5, <1>6 DEF Turn

\* The empty lock satisfies the inductive invariant.
LEMMA QueueInitially == QueueInit => QueueInv
  <1> SUFFICES ASSUME QueueInit PROVE QueueInv
    OBVIOUS
  <1>1. QueueTypeOK
    BY DEF QueueInit, QueueTypeOK, Modes
  <1>2. Readers = {} /\ Writers = {} /\ WaitingWriters = {}
    BY DEF QueueInit, Readers, Writers, WaitingWriters, Holding, Waiting
  <1>3. CountsExact
    BY <1>2, FS_EmptySet DEF QueueInit, CountsExact
  <1>4. Exclusion
    BY DEF QueueInit, Exclusion, Holding
  <1> QED BY <1>1, <1>3, <1>4 DEF QueueInv

\* Every operation on the lock preserves the inductive invariant.
LEMMA QueueInductive == QueueInv /\ [QueueNext]_queueVars => QueueInv'
  <1> SUFFICES ASSUME QueueInv, [QueueNext]_queueVars PROVE QueueInv'
    OBVIOUS
  <1>0. QueueTypeOK /\ CountsExact /\ Exclusion
    BY DEF QueueInv
  <1>1. ASSUME NEW g \in Goroutines, NEW m \in Modes, NEW c \in BOOLEAN, Arrive(g, m, c)
        PROVE  QueueInv'
    <2>1. g \notin WaitingWriters /\ WaitingWriters \ {g} = WaitingWriters /\ at[g] # "held"
      BY <1>1 DEF Arrive, WaitingWriters, Waiting
    <2>2. cancelled' \in [Goroutines -> BOOLEAN] /\ mode' = [mode EXCEPT ![g] = m]
      BY <1>0, <1>1 DEF Arrive, QueueTypeOK
    <2> DEFINE w == IF m = "write" THEN waiting + 1 ELSE waiting
    <2>3. w \in Nat /\ waiting = Cardinality(WaitingWriters)
      BY <1>0 DEF QueueTypeOK, CountsExact
    <2>4. Turn(g, m, w, c)
      BY <1>1 DEF Arrive
    <2>5. m = "write" => w = Cardinality(WaitingWriters \ {g}) + 1
      BY <2>1, <2>3
    <2>6. m = "read" => w = Cardinality(WaitingWriters)
      BY <2>3
    <2> HIDE DEF w
    <2> QED BY <2>1, <2>2, <2>3, <2>4, <2>5, <2>6, TurnCounts
  <1>2. ASSUME NEW g \in Goroutines, Retry(g)
        PROVE  QueueInv'
    <2>1. Waiting(g) /\ at[g] # "held"
      BY <1>2 DEF Retry, Waiting
    <2>2. /\ mode[g] \in Modes /\ cancelled[g] \in BOOLEAN /\ waiting \in Nat
          /\ mode' = [mode EXCEPT ![g] = mode[g]]
          /\ cancelled' \in [Goroutines -> BOOLEAN]
      BY <1>0, <1>2 DEF Retry, QueueTypeOK
    <2>3. g \in WaitingWriters <=> mode[g] = "write"
      BY <2>1 DEF WaitingWriters
    <2>4. mode[g] = "write" => waiting = Cardinality(WaitingWriters \ {g}) + 1
      <3> SUFFICES ASSUME mode[g] = "write"
                   PROVE  waiting = Cardinality(WaitingWriters \ {g}) + 1
        OBVIOUS
      <3>1. waiting = Cardinality(WaitingWriters) /\ g \in WaitingWriters
        BY <1>0, <2>3 DEF CountsExact
      <3>2. Cardinality(WaitingWriters \ {g}) = Cardinality(WaitingWriters) - 1
        BY <3>1, FiniteHolders, FS_RemoveElement
      <3> QED BY <2>2, <3>1, <3>2
    <2>5. mode[g] = "read" => waiting = Cardinality(WaitingWriters)
      BY <1>0 DEF CountsExact
    <2>6. Turn(g, mode[g], waiting, cancelled[g])
      BY <1>2 DEF Retry
    <2> QED BY <2>1, <2>2, <2>3, <2>4, <2>5, <2>6, TurnCounts
  <1>3. ASSUME NEW g \in Goroutines, ReleaseQueue(g)
        PROVE  QueueInv'
    <2>1. /\ at' \in [Goroutines -> {"idle", "parked", "woken", "held"}]
          /\ at[g] = "held" /\ at'[g] = "idle"
          /\ \A h \in Goroutines : h # g =>
               /\ at'[h] = "held" <=> at[h] = "held"
               /\ at'[h] \in {"parked", "woken"} <=> at[h] \in {"parked", "woken"}
      BY <1>0, <1>3 DEF ReleaseQueue, Signalled, QueueTypeOK
    <2>2. mode' = mode /\ cancelled' = cancelled /\ waiting' = waiting
      BY <1>3 DEF ReleaseQueue
    <2>3. WaitingWriters' = WaitingWriters
      BY <2>1, <2>2 DEF WaitingWriters, Waiting
    <2>4. CASE mode[g] = "write"
      <3>1. Readers' = Readers /\ Writers' = Writers \ {g}
        BY <2>1, <2>2, <2>4 DEF Readers, Writers, Holding
      <3>2. Writers = {g} /\ g \in Writers
        BY <1>0, <2>1, <2>4 DEF Exclusion, Writers, Holding
      <3>3. writer' = FALSE /\ readers' = readers
        BY <1>3, <2>4 DEF ReleaseQueue
      <3> QED BY <1>0, <2>1, <2>2, <2>3, <3>1, <3>2, <3>3 DEF QueueInv, QueueTypeOK, CountsExact, Exclusion, Holding
    <2>5. CASE mode[g] = "read"
      <3>1. Readers' = Readers \ {g} /\ Writers' = Writers /\ g \in Readers
        BY <2>1, <2>2, <2>5 DEF Readers, Writers, Holding
      <3>2. readers' = readers - 1 /\ writer' = writer
        BY <1>3, <2>5 DEF ReleaseQueue
      <3>3. Cardinality(Readers') = Cardinality(Readers) - 1 /\ Cardinality(Readers') \in Nat
        BY <3>1, FiniteHolders, FS_RemoveElement, FS_CardinalityType, FS_Subset
      <3> QED BY <1>0, <2>1, <2>2, <2>3, <3>1, <3>2, <3>3 DEF QueueInv, QueueTypeOK, CountsExact, Exclusion, Holding
    <2> QED BY <1>0, <2>4, <2>5 DEF QueueTypeOK, Modes
  <1>4. ASSUME NEW g \in Goroutines, Cancel(g)
        PROVE  QueueInv'
    <2>1. Readers' = Readers /\ Writers' = Writers /\ WaitingWriters' = WaitingWriters
      BY <1>4 DEF Cancel, Readers, Writers, WaitingWriters, Holding, Waiting
    <2> QED BY <1>0, <1>4, <2>1 DEF Cancel, QueueInv, QueueTypeOK, CountsExact, Exclusion, Holding
  <1>5. CASE UNCHANGED queueVars
    <2>1. Readers' = Readers /\ Writers' = Writers /\ WaitingWriters' = WaitingWriters
      BY <1>5 DEF queueVars, Readers, Writers, WaitingWriters, Holding, Waiting
    <2> QED BY <1>0, <1>5, <2>1 DEF queueVars, QueueInv, QueueTypeOK, CountsExact, Exclusion, Holding
  <1> QED BY <1>1, <1>2, <1>3, <1>4, <1>5 DEF QueueNext

\* The queue's fields have their types and its counters are exact in every
\* reachable state.
THEOREM CountsExactThm == QueueSpec => [](QueueTypeOK /\ CountsExact)
  <1>1. QueueInv => QueueTypeOK /\ CountsExact
    BY DEF QueueInv
  <1> QED BY QueueInitially, QueueInductive, <1>1, PTL DEF QueueSpec

----------------------------------------------------------------------------
(* No lost wake-up *)

\* One turn keeps the sleepers honest: whoever is asleep afterwards could not
\* be admitted.  A turn by a writer may have counted it in on its way (w).
LEMMA TurnWakeups ==
    ASSUME QueueInv, NoLostWakeup,
           NEW g \in Goroutines, NEW m \in Modes, NEW c \in BOOLEAN, NEW w \in Nat,
           at[g] # "held",
           w = waiting \/ (m = "write" /\ w = waiting + 1),
           mode' = [mode EXCEPT ![g] = m],
           Turn(g, m, w, c)
    PROVE  NoLostWakeup'
  <1>0. /\ QueueTypeOK /\ mode'[g] = m /\ readers \in Nat /\ waiting \in Nat
        /\ \A h \in Goroutines : h # g => mode'[h] = mode[h]
    BY DEF QueueInv, QueueTypeOK
  <1> SUFFICES ASSUME NEW h \in Goroutines, at'[h] = "parked", Admissible(mode[h], waiting)'
               PROVE  FALSE
    BY DEF NoLostWakeup
  <1>1. CASE GiveUp(g, m, w)
    <2>1. CASE m = "write"
      BY <1>0, <1>1, <2>1 DEF GiveUp, Signalled, QueueTypeOK
    <2>2. CASE m = "read"
      <3>1. at[h] = "parked" /\ h # g /\ waiting' = waiting /\ UNCHANGED <<readers, writer>>
        BY <1>0, <1>1, <2>2 DEF GiveUp, QueueTypeOK
      <3>2. Admissible(mode[h], waiting)
        BY <1>0, <3>1 DEF Admissible
      <3> QED BY <3>1, <3>2 DEF NoLostWakeup
    <2> QED BY <2>1, <2>2 DEF Modes
  <1>2. CASE Grant(g, m, w)
    <2>1. h # g /\ at[h] = "parked" /\ mode'[h] = mode[h]
      BY <1>0, <1>2 DEF Grant, QueueTypeOK
    <2>2. m = "read"
      BY <1>2 DEF Grant, Admissible, Modes
    <2>3. /\ readers' = readers + 1 /\ writer' = writer /\ waiting' = waiting
          /\ ~writer /\ waiting = 0
      BY <1>2, <2>2 DEF Grant, Admissible
    <2>4. mode[h] = "read"
      BY <1>0, <2>1, <2>3 DEF Admissible
    <2>5. Admissible(mode[h], waiting)
      BY <2>3, <2>4 DEF Admissible
    <2> QED BY <2>1, <2>5 DEF NoLostWakeup
  <1>3. CASE Park(g, m, w)
    <2>1. waiting' = w /\ UNCHANGED <<readers, writer>> /\ ~Admissible(m, w)
      BY <1>3 DEF Park
    <2>2. CASE h = g
      BY <1>0, <2>1, <2>2 DEF Admissible
    <2>3. CASE h # g
      <3>1. at[h] = "parked" /\ mode'[h] = mode[h]
        BY <1>0, <1>3, <2>3 DEF Park, QueueTypeOK
      <3>2. Admissible(mode[h], waiting)
        BY <1>0, <2>1, <3>1 DEF Admissible
      <3> QED BY <3>1, <3>2 DEF NoLostWakeup
    <2> QED BY <2>2, <2>3
  <1> QED BY <1>1, <1>2, <1>3 DEF Turn

\* Nobody sleeps on q.changed while the queue would admit it, so no acquire
\* hangs beside a free queue.
THEOREM NoLostWakeupThm == QueueSpec => []NoLostWakeup
  <1>1. QueueInit => NoLostWakeup
    BY DEF QueueInit, NoLostWakeup
  <1>2. QueueInv /\ NoLostWakeup /\ [QueueNext]_queueVars => NoLostWakeup'
    <2> SUFFICES ASSUME QueueInv, NoLostWakeup, [QueueNext]_queueVars
                 PROVE  NoLostWakeup'
      OBVIOUS
    <2>0. QueueTypeOK
      BY DEF QueueInv
    <2>1. ASSUME NEW g \in Goroutines, NEW m \in Modes, NEW c \in BOOLEAN, Arrive(g, m, c)
          PROVE  NoLostWakeup'
      <3> DEFINE w == IF m = "write" THEN waiting + 1 ELSE waiting
      <3>1. w \in Nat /\ (w = waiting \/ (m = "write" /\ w = waiting + 1))
        BY <2>0 DEF QueueTypeOK
      <3>2. Turn(g, m, w, c) /\ at[g] # "held" /\ mode' = [mode EXCEPT ![g] = m]
        BY <2>1 DEF Arrive
      <3> HIDE DEF w
      <3> QED BY <3>1, <3>2, TurnWakeups
    <2>2. ASSUME NEW g \in Goroutines, Retry(g)
          PROVE  NoLostWakeup'
      <3>1. /\ mode[g] \in Modes /\ cancelled[g] \in BOOLEAN /\ waiting \in Nat
            /\ mode' = [mode EXCEPT ![g] = mode[g]]
            /\ at[g] # "held" /\ Turn(g, mode[g], waiting, cancelled[g])
        BY <2>0, <2>2 DEF Retry, QueueTypeOK
      <3> QED BY <3>1, TurnWakeups
    <2>3. ASSUME NEW g \in Goroutines, ReleaseQueue(g)
          PROVE  NoLostWakeup'
      BY <2>0, <2>3 DEF ReleaseQueue, Signalled, QueueTypeOK, NoLostWakeup
    <2>4. ASSUME NEW g \in Goroutines, Cancel(g)
          PROVE  NoLostWakeup'
      BY <2>4 DEF Cancel, NoLostWakeup, Admissible
    <2>5. CASE UNCHANGED queueVars
      BY <2>5 DEF queueVars, NoLostWakeup, Admissible
    <2> QED BY <2>1, <2>2, <2>3, <2>4, <2>5 DEF QueueNext
  <1> QED BY QueueInitially, QueueInductive, <1>1, <1>2, PTL DEF QueueSpec

----------------------------------------------------------------------------
(* Who holds the queue *)

\* What one turn does to the holders: nothing, or it lets g in, as a reader
\* when no writer holds or awaits the queue, as a writer when nobody holds it.
LEMMA TurnHolders ==
    ASSUME QueueInv,
           NEW g \in Goroutines, NEW m \in Modes, NEW c \in BOOLEAN, NEW w \in Nat,
           at[g] # "held",
           mode' = [mode EXCEPT ![g] = m],
           Turn(g, m, w, c)
    PROVE  \/ Readers' = Readers /\ Writers' = Writers
           \/ /\ w = 0 /\ m = "read" /\ g \notin Readers /\ Writers = {}
              /\ Readers' = Readers \cup {g} /\ Writers' = Writers
           \/ /\ Readers = {} /\ Writers = {}
              /\ Readers' = Readers /\ Writers' = {g}
  <1>0. QueueTypeOK /\ CountsExact
    BY DEF QueueInv
  <1>1. mode'[g] = m /\ \A h \in Goroutines : h # g => mode'[h] = mode[h]
    BY <1>0 DEF QueueTypeOK
  <1>2. g \notin Readers /\ g \notin Writers
    BY DEF Readers, Writers, Holding
  <1>3. CASE at'[g] # "held" /\ \A h \in Goroutines : h # g => (at'[h] = "held" <=> at[h] = "held")
    BY <1>1, <1>3 DEF Readers, Writers, Holding
  <1>4. CASE Grant(g, m, w)
    <2>1. at'[g] = "held" /\ \A h \in Goroutines : h # g => at'[h] = at[h]
      BY <1>0, <1>4 DEF Grant, QueueTypeOK
    <2>2. Writers = {}
      BY <1>0, <1>4 DEF Grant, Admissible, CountsExact
    <2>3. CASE m = "write"
      <3>1. Readers = {}
        BY <1>0, <1>4, <2>3, FiniteHolders, FS_EmptySet DEF Grant, Admissible, CountsExact
      <3>2. Readers' = Readers /\ Writers' = Writers \cup {g}
        BY <1>1, <1>2, <2>1, <2>3 DEF Readers, Writers, Holding
      <3> QED BY <2>2, <3>1, <3>2
    <2>4. CASE m = "read"
      <3>1. Readers' = Readers \cup {g} /\ Writers' = Writers
        BY <1>1, <1>2, <2>1, <2>4 DEF Readers, Writers, Holding
      <3>2. w = 0
        BY <1>4, <2>4 DEF Grant, Admissible
      <3> QED BY <1>2, <2>2, <2>4, <3>1, <3>2
    <2> QED BY <2>3, <2>4 DEF Modes
  <1>5. CASE GiveUp(g, m, w) \/ Park(g, m, w)
    <2>1. at'[g] # "held" /\ \A h \in Goroutines : h # g => (at'[h] = "held" <=> at[h] = "held")
      BY <1>0, <1>5 DEF GiveUp, Park, Signalled, QueueTypeOK
    <2> QED BY <1>3, <2>1
  <1> QED BY <1>4, <1>5 DEF Turn

\* The same for a step of the specification: besides a turn, a holder leaves.
LEMMA StepHolders ==
    ASSUME QueueInv, [QueueNext]_queueVars
    PROVE  \/ Readers' = Readers /\ Writers' = Writers
           \/ \E g \in Goroutines :
                /\ waiting = 0 /\ g \notin Readers /\ Writers = {}
                /\ Readers' = Readers \cup {g} /\ Writers' = Writers
           \/ \E g \in Goroutines :
                /\ Readers = {} /\ Writers = {}
                /\ Readers' = Readers /\ Writers' = {g}
           \/ \E g \in Readers \cup Writers :
                /\ Readers' = Readers \ {g} /\ Writers' = Writers \ {g}
  <1>0. QueueTypeOK
    BY DEF QueueInv
  <1>1. ASSUME NEW g \in Goroutines, NEW m \in Modes, NEW c \in BOOLEAN, Arrive(g, m, c)
        PROVE  \/ Readers' = Readers /\ Writers' = Writers
               \/ /\ waiting = 0 /\ g \notin Readers /\ Writers = {}
                  /\ Readers' = Readers \cup {g} /\ Writers' = Writers
               \/ /\ Readers = {} /\ Writers = {}
                  /\ Readers' = Readers /\ Writers' = {g}
    <2> DEFINE w == IF m = "write" THEN waiting + 1 ELSE waiting
    <2>1. w \in Nat /\ (m = "read" => w = waiting)
      BY <1>0 DEF QueueTypeOK
    <2>2. Turn(g, m, w, c) /\ at[g] # "held" /\ mode' = [mode EXCEPT ![g] = m]
      BY <1>1 DEF Arrive
    <2> HIDE DEF w
    <2> QED BY <2>1, <2>2, TurnHolders
  <1>2. ASSUME NEW g \in Goroutines, Retry(g)
        PROVE  \/ Readers' = Readers /\ Writers' = Writers
               \/ /\ waiting = 0 /\ g \notin Readers /\ Writers = {}
                  /\ Readers' = Readers \cup {g} /\ Writers' = Writers
               \/ /\ Readers = {} /\ Writers = {}
                  /\ Readers' = Readers /\ Writers' = {g}
    <2>1. /\ mode[g] \in Modes /\ cancelled[g] \in BOOLEAN /\ waiting \in Nat
          /\ mode' = [mode EXCEPT ![g] = mode[g]]
          /\ at[g] # "held" /\ Turn(g, mode[g], waiting, cancelled[g])
      BY <1>0, <1>2 DEF Retry, QueueTypeOK
    <2> QED BY <2>1, TurnHolders
  <1>3. ASSUME NEW g \in Goroutines, ReleaseQueue(g)
        PROVE  /\ g \in Readers \cup Writers
               /\ Readers' = Readers \ {g} /\ Writers' = Writers \ {g}
    <2>1. /\ at[g] = "held" /\ at'[g] = "idle" /\ mode' = mode
          /\ \A h \in Goroutines : h # g => (at'[h] = "held" <=> at[h] = "held")
      BY <1>0, <1>3 DEF ReleaseQueue, Signalled, QueueTypeOK
    <2>2. mode[g] \in Modes
      BY <1>0 DEF QueueTypeOK
    <2> QED BY <2>1, <2>2 DEF Readers, Writers, Holding, Modes
  <1>4. ASSUME NEW g \in Goroutines, Cancel(g)
        PROVE  Readers' = Readers /\ Writers' = Writers
    BY <1>4 DEF Cancel, Readers, Writers, Holding
  <1>5. CASE UNCHANGED queueVars
    BY <1>5 DEF queueVars, Readers, Writers, Holding
  <1> QED BY <1>1, <1>2, <1>3, <1>4, <1>5 DEF QueueNext

\* While a writer waits, the readers it waits for only become fewer: newly
\* arriving goroutines never starve it.
THEOREM WriterNotOvertakenThm == QueueSpec => WriterNotOvertaken
  <1>1. QueueInv /\ [QueueNext]_queueVars => [waiting > 0 => Readers' \subseteq Readers]_queueVars
    <2> SUFFICES ASSUME QueueInv, [QueueNext]_queueVars, waiting > 0
                 PROVE  Readers' \subseteq Readers
      OBVIOUS
    <2> QED BY StepHolders
  <1> QED BY QueueInitially, QueueInductive, <1>1, PTL DEF QueueSpec, WriterNotOvertaken

\* Every behaviour of the queue is one of the abstract reader-writer lock.
THEOREM ImplementsThm == QueueSpec => Implements
  <1>1. QueueInit => Lock!Init
    BY DEF QueueInit, Lock!Init, Readers, Writers, Holding
  <1>2. QueueInv /\ [QueueNext]_queueVars => [Lock!Next]_(Lock!vars)
    <2> SUFFICES ASSUME QueueInv, [QueueNext]_queueVars
                 PROVE  [Lock!Next]_(Lock!vars)
      OBVIOUS
    <2>1. CASE Readers' = Readers /\ Writers' = Writers
      BY <2>1 DEF Lock!vars
    <2>2. ASSUME NEW g \in Goroutines, g \notin Readers, Writers = {},
                 Readers' = Readers \cup {g}, Writers' = Writers
          PROVE  Lock!Next
      BY <2>2 DEF Lock!Next, Lock!AcquireShared
    <2>3. ASSUME NEW g \in Goroutines, Readers = {}, Writers = {},
                 Readers' = Readers, Writers' = {g}
          PROVE  Lock!Next
      BY <2>3 DEF Lock!Next, Lock!AcquireExclusive
    <2>4. ASSUME NEW g \in Readers \cup Writers,
                 Readers' = Readers \ {g}, Writers' = Writers \ {g}
          PROVE  Lock!Next
      <3>1. {g} \in SUBSET Goroutines /\ {g} \subseteq Readers \cup Writers
        BY DEF Readers, Writers
      <3>2. Lock!Leave({g})
        BY <2>4 DEF Lock!Leave
      <3> QED BY <3>1, <3>2 DEF Lock!Next
    <2> QED BY <2>1, <2>2, <2>3, <2>4, StepHolders
  <1> QED BY QueueInitially, QueueInductive, <1>1, <1>2, PTL DEF QueueSpec, Implements, Lock!Spec

----------------------------------------------------------------------------
(* The leases *)


\* The flocks that an actor holds below those of its state lease.
Base(a) == IF op[a] = "clean" THEN {"lifecycle"} ELSE {}

\* The operation an actor performs and the flocks it holds, at each point.
LocksAt(a) ==
    /\ pc[a] \in {"idle", "lifecycle-queue", "lifecycle-open", "lifecycle-flock"}
         => locked[a] = {}
    /\ pc[a] \in {"lifecycle-queue", "lifecycle-open", "lifecycle-flock"}
         => op[a] \in {"clean", "open"}
    /\ pc[a] \in {"lifecycle-check", "lifecycle"} \cup OpenPcs => locked[a] = {"lifecycle"}
    /\ pc[a] \in {"lifecycle-check", "lifecycle"} \cup PurgePcs => op[a] = "clean"
    /\ pc[a] \in OpenPcs => op[a] = "open"
    /\ pc[a] \in {"state-queue"} \cup StatePcs => op[a] # "open"
    /\ pc[a] \in {"state-queue", "gate-open", "gate-flock"} => locked[a] = Base(a)
    /\ pc[a] \in {"state-open", "state-flock"} => locked[a] = Base(a) \cup {"gate"}
    /\ pc[a] = "check" => locked[a] = Base(a) \cup {"gate", "state"}
    /\ pc[a] = "held" =>
         locked[a] = IF op[a] = "read" THEN {"state"} ELSE Base(a) \cup {"gate", "state"}
    /\ pc[a] \in PurgePcs => locked[a] = Files

PcLocks == \A a \in Actors : LocksAt(a)

\* The names a purging actor has unlinked: its flocks on them mean nothing.
Unlinked(a) ==
    {f \in Files :
        \/ f = "state" /\ pc[a] \in PurgePcs \ {"rm-state"}
        \/ f = "gate" /\ pc[a] \in {"rm-identity", "rm-lifecycle", "rm-receipt"}
        \/ f = "lifecycle" /\ pc[a] = "rm-receipt"}

LockedNamed ==
    \A a \in Actors : \A f \in locked[a] \ Unlinked(a) : fd[a][f] # 0 /\ dir[f] = fd[a][f]

FlocksCompatible ==
    \A a, b \in Actors : \A f \in Files :
        a # b /\ f \in locked[a] /\ f \in locked[b] /\ fd[a][f] = fd[b][f]
            => f = "state" /\ op[a] = "read" /\ op[b] = "read"

\* While names are unlinked the identity is a tombstone or gone.
PurgingIdentity ==
    /\ ident.id = 0 => ident = NoIdentity
    /\ \A a \in Actors :
         pc[a] \in PurgePcs \ {"rm-receipt"} => ident.id = 0 \/ ident.purging

\* What an initialization has established so far.
InitProgress ==
    \A a \in Actors :
        /\ pc[a] \in {"init-state", "init-established"} => dir["gate"] # 0
        /\ pc[a] = "init-established" => dir["state"] # 0
        /\ pc[a] = "init-identity" => receipt = 0
        /\ pc[a] \in {"init-gate", "init-state", "init-established"} => ident.id # 0

\* The lock file an actor polls is open.
PolledOpen ==
    \A a \in Actors : \A f \in Files : pc[a] = Flocking[f] => fd[a][f] # 0

\* A granted ordinary lease is on an identity that is there.
LeaseStore ==
    \A a \in Actors : pc[a] = "held" /\ op[a] # "clean" => store[a] # 0

IInv ==
    /\ TypeOK /\ PcLocks /\ LockedNamed /\ FlocksCompatible
    /\ PurgingIdentity /\ InitProgress /\ PolledOpen /\ LeaseStore
    /\ NoLeasePastTombstone /\ EstablishedHasLocks

----------------------------------------------------------------------------
(* Who can hold what together *)

\* Two flocks on the same name that is not unlinked are on one inode, so both
\* are those of readers: the lifecycle and the gate have a single holder.
LEMMA SameName ==
    ASSUME IInv,
           NEW a \in Actors, NEW b \in Actors, a # b, NEW f \in Files,
           f \in locked[a] \ Unlinked(a), f \in locked[b] \ Unlinked(b)
    PROVE  f = "state" /\ op[a] = "read" /\ op[b] = "read"
  BY DEF IInv, LockedNamed, FlocksCompatible

\* Every actor inside a lifecycle operation, until a purge unlinks the name,
\* is alone in it.
LEMMA LifecycleOnce ==
    ASSUME IInv,
           NEW a \in Actors, NEW b \in Actors,
           "lifecycle" \in locked[a], pc[a] # "rm-receipt",
           "lifecycle" \in locked[b], pc[b] # "rm-receipt"
    PROVE  a = b
  <1>1. "lifecycle" \notin Unlinked(a) /\ "lifecycle" \notin Unlinked(b)
    BY DEF Unlinked
  <1> QED BY <1>1, SameName DEF Files

\* A live exclusive lease is the only live lease.
LEMMA LiveExclusion ==
    ASSUME IInv,
           NEW a \in Actors, NEW b \in Actors, a # b,
           "state" \in locked[a], pc[a] \in {"check", "held", "rm-state"},
           "state" \in locked[b], pc[b] \in {"check", "held", "rm-state"}
    PROVE  op[a] = "read" /\ op[b] = "read"
  <1>1. "state" \notin Unlinked(a) /\ "state" \notin Unlinked(b)
    BY DEF Unlinked, PurgePcs
  <1> QED BY <1>1, SameName DEF Files

----------------------------------------------------------------------------
(* The flock part of the invariant is stable while locks are only dropped *)

\* A step that only gives flocks up keeps locked files named and flocks apart.
LEMMA LocksShrink ==
    ASSUME IInv, TypeOK',
           dir' = dir,
           \A b \in Actors :
             /\ locked'[b] \subseteq locked[b]
             /\ locked'[b] # {} => op'[b] = op[b]
             /\ \A f \in locked'[b] : fd'[b][f] = fd[b][f] /\ (f \in Unlinked(b) => f \in Unlinked(b)')
    PROVE  LockedNamed' /\ FlocksCompatible'
  <1>1. LockedNamed'
    BY DEF IInv, LockedNamed
  <1>2. FlocksCompatible'
    BY DEF IInv, FlocksCompatible
  <1> QED BY <1>1, <1>2

----------------------------------------------------------------------------
(* Types *)

\* A lock file is created with an inode that does not carry its name yet.
LEMMA NewInodeType ==
    ASSUME NEW f \in Files, FreeInodes(f) # {}
    PROVE  NewInode(f) \in Inodes /\ NewInode(f) # dir[f]
  BY DEF NewInode, FreeInodes

\* Giving everything up keeps the actors' variables well typed.
LEMMA LeaveTypes ==
    ASSUME TypeOK, NEW a \in Actors, Leave(a)
    PROVE  /\ pc' \in [Actors -> Pcs] /\ op' \in [Actors -> Ops]
           /\ create' \in [Actors -> BOOLEAN]
           /\ fd' \in [Actors -> [Files -> Inodes \cup {0}]]
           /\ locked' \in [Actors -> SUBSET Files]
  BY DEF Leave, TypeOK, Pcs, Ops, NoFile

\* So does giving up the nested lease only.
LEMMA LeaveStateTypes ==
    ASSUME TypeOK, NEW a \in Actors, LeaveState(a)
    PROVE  /\ pc' \in [Actors -> Pcs] /\ op' \in [Actors -> Ops]
           /\ create' \in [Actors -> BOOLEAN]
           /\ fd' \in [Actors -> [Files -> Inodes \cup {0}]]
           /\ locked' \in [Actors -> SUBSET Files]
  BY DEF LeaveState, TypeOK, Pcs, Ops, NoFile, Files, LifecyclePcs

\* A lock call that fails keeps the types.
LEMMA AbandonTypes ==
    ASSUME TypeOK, NEW a \in Actors, Abandon(a)
    PROVE  TypeOK'
  <1>1. store' \in [Actors -> Nat] /\ UNCHANGED diskVars
    BY DEF Abandon, TypeOK
  <1>2. CASE Leave(a)
    BY <1>1, <1>2, LeaveTypes DEF TypeOK, diskVars
  <1>3. CASE LeaveState(a)
    BY <1>1, <1>3, LeaveStateTypes DEF TypeOK, diskVars
  <1> QED BY <1>2, <1>3 DEF Abandon

\* What a lease reads as the identity is an identity record.
LEMMA IdentityType ==
    ASSUME TypeOK
    PROVE  Identity \in [id : Nat, purging : BOOLEAN, established : BOOLEAN]
  BY DEF Identity, TypeOK

\* Every step keeps the types.
LEMMA Types == TypeOK /\ [Next]_vars => TypeOK'
  <1> SUFFICES ASSUME TypeOK, [Next]_vars PROVE TypeOK'
    OBVIOUS
  <1> USE DEF diskVars, actorVars
  <1>1. ASSUME NEW a \in Actors, OpenExisting(a) \/ CloseStore(a)
        PROVE  TypeOK'
    BY <1>1 DEF OpenExisting, CloseStore, TypeOK
  <1>2. ASSUME NEW a \in Actors, NEW k \in {"read", "write"}, BeginOrdinary(a, k)
        PROVE  TypeOK'
    BY <1>2 DEF BeginOrdinary, TypeOK, Pcs, Ops
  <1>3. ASSUME NEW a \in Actors, BeginClean(a) \/ BeginOpen(a)
        PROVE  TypeOK'
    <2>1. CASE BeginOpen(a)
      BY <2>1 DEF BeginOpen, TypeOK, Pcs, Ops
    <2>2. CASE BeginClean(a)
      <3>1. Identity.id \in Nat
        BY IdentityType
      <3>2. store' \in [Actors -> Nat] /\ create' \in [Actors -> BOOLEAN]
        BY <2>2, <3>1 DEF BeginClean, TypeOK
      <3> QED BY <2>2, <3>2 DEF BeginClean, TypeOK, Pcs, Ops
    <2> QED BY <1>3, <2>1, <2>2
  <1>4. ASSUME NEW a \in Actors, EnterLifecycle(a) \/ EnterState(a)
        PROVE  TypeOK'
    BY <1>4 DEF EnterLifecycle, EnterState, TypeOK, Pcs, LifecyclePcs, StatePcs
  <1>5. ASSUME NEW a \in Actors, NEW f \in Files, OpenLockFile(a, f)
        PROVE  TypeOK'
    <2>1. dir' \in [Files -> Inodes \cup {0}]
      BY <1>5, NewInodeType DEF OpenLockFile, TypeOK
    <2>2. fd' \in [Actors -> [Files -> Inodes \cup {0}]]
      BY <1>5, <2>1 DEF OpenLockFile, TypeOK
    <2>3. pc' \in [Actors -> Pcs]
      BY <1>5 DEF OpenLockFile, TypeOK, Flocking, Files, Pcs, LifecyclePcs, StatePcs
    <2> QED BY <1>5, <2>1, <2>2, <2>3 DEF OpenLockFile, TypeOK
  <1>6. ASSUME NEW a \in Actors, NEW f \in Files, Flock(a, f)
        PROVE  TypeOK'
    <2>1. pc' \in [Actors -> Pcs]
      BY <1>6 DEF Flock, TypeOK, AfterFlock, Files, Pcs, LifecyclePcs, StatePcs, OpenPcs
    <2> QED BY <1>6, <2>1 DEF Flock, TypeOK
  <1>7. ASSUME NEW a \in Actors, HoldLifecycle(a) \/ BeginCleanup(a)
        PROVE  TypeOK'
    BY <1>7, IdentityType DEF HoldLifecycle, BeginCleanup, TypeOK, Pcs, LifecyclePcs
  <1>8. ASSUME NEW a \in Actors, GrantLease(a)
        PROVE  TypeOK'
    <2>1. pc' \in [Actors -> Pcs]
      BY <1>8 DEF GrantLease, TypeOK, Pcs, StatePcs
    <2>2. locked' \in [Actors -> SUBSET Files]
      BY <1>8 DEF GrantLease, TypeOK, Files
    <2>3. fd' \in [Actors -> [Files -> Inodes \cup {0}]]
      <3>1. [fd[a] EXCEPT !["gate"] = 0] \in [Files -> Inodes \cup {0}]
        BY DEF TypeOK
      <3> QED BY <1>8, <3>1 DEF GrantLease, TypeOK
    <2> QED BY <1>8, <2>1, <2>2, <2>3 DEF GrantLease, TypeOK
  <1>9. ASSUME NEW a \in Actors, Fail(a)
        PROVE  TypeOK'
    BY <1>9, AbandonTypes DEF Fail
  <1>10. ASSUME NEW a \in Actors, Release(a)
         PROVE  TypeOK'
    <2>1. store' \in [Actors -> Nat] /\ UNCHANGED diskVars
      BY <1>10 DEF Release, TypeOK
    <2>2. CASE Leave(a)
      BY <2>1, <2>2, LeaveTypes DEF TypeOK
    <2>3. CASE LeaveState(a)
      BY <2>1, <2>3, LeaveStateTypes DEF TypeOK
    <2> QED BY <1>10, <2>2, <2>3 DEF Release
  <1>11. ASSUME NEW a \in Actors, BeginPurge(a)
         PROVE  TypeOK'
    BY <1>11, IdentityType DEF BeginPurge, TypeOK
  <1>12. ASSUME NEW a \in Actors, BeginFinish(a)
         PROVE  TypeOK'
    BY <1>12 DEF BeginFinish, TypeOK, Pcs, PurgePcs
  <1>13. ASSUME NEW a \in Actors, FinishPurge(a)
         PROVE  TypeOK'
    <2>1. ASSUME NEW f \in Files, NEW from \in PurgePcs, NEW to \in PurgePcs,
                 RemoveLock(a, f, from, to)
          PROVE  TypeOK'
      BY <2>1 DEF RemoveLock, TypeOK, Pcs
    <2>2. CASE RemoveIdentity(a)
      BY <2>2 DEF RemoveIdentity, TypeOK, NoIdentity, Pcs, PurgePcs
    <2>3. CASE RemoveReceipt(a)
      BY <2>3, LeaveTypes DEF RemoveReceipt, TypeOK
    <2> QED BY <1>13, <2>1, <2>2, <2>3 DEF FinishPurge, PurgePcs, Files
  <1>14. ASSUME NEW a \in Actors, Open(a)
         PROVE  TypeOK'
    <2>1. CASE NoReceipt(a)
      BY <2>1 DEF NoReceipt, TypeOK, Pcs, OpenPcs
    <2>2. CASE OpenIdentity(a)
      <3>1. ident' \in [id : Nat, purging : BOOLEAN, established : BOOLEAN] /\ created' \in Nat
        <4>1. CASE ident.id # 0 /\ UNCHANGED <<ident, created>>
          BY <4>1 DEF TypeOK
        <4>2. CASE /\ created' = created + 1
                   /\ ident' = [id |-> created', purging |-> FALSE, established |-> FALSE]
          <5>1. created' \in Nat
            BY <4>2 DEF TypeOK
          <5> QED BY <4>2, <5>1
        <4> QED BY <2>2, <4>1, <4>2 DEF OpenIdentity
      <3> QED BY <2>2, <3>1 DEF OpenIdentity, TypeOK, Pcs, OpenPcs
    <2>3. ASSUME NEW f \in Files, NEW from \in OpenPcs, NEW to \in OpenPcs,
                 OpenStateLock(a, f, from, to)
          PROVE  TypeOK'
      <3>1. dir' \in [Files -> Inodes \cup {0}]
        BY <2>3, NewInodeType DEF OpenStateLock, TypeOK
      <3> QED BY <2>3, <3>1 DEF OpenStateLock, TypeOK, Pcs
    <2>4. CASE Establish(a)
      BY <2>4, LeaveTypes DEF Establish, TypeOK
    <2> QED BY <1>14, <2>1, <2>2, <2>3, <2>4 DEF Open, OpenPcs, Files
  <1>15. ASSUME NEW p \in Processes, Crash(p)
         PROVE  TypeOK'
    BY <1>15 DEF Crash, TypeOK, Pcs, Ops, NoFile
  <1>16. CASE UNCHANGED vars
    BY <1>16 DEF vars, TypeOK
  <1> QED BY <1>1, <1>2, <1>3, <1>4, <1>5, <1>6, <1>7, <1>8, <1>9, <1>10, <1>11, <1>12,
             <1>13, <1>14, <1>15, <1>16 DEF Next, Acquire

----------------------------------------------------------------------------
(* The inductive step *)

\* PcLocks speaks of each actor alone.
LEMMA OneActor ==
    ASSUME IInv, NEW a \in Actors, LocksAt(a)',
           \A b \in Actors \ {a} : pc'[b] = pc[b] /\ op'[b] = op[b] /\ locked'[b] = locked[b]
    PROVE  PcLocks'
  <1>1. \A b \in Actors \ {a} : LocksAt(b)'
    BY DEF IInv, PcLocks, LocksAt, Base
  <1> QED BY <1>1 DEF PcLocks

\* Where an actor is when it has just left, begun, or entered a queue or hold.
QuietPcs == {"idle", "lifecycle-queue", "lifecycle-open", "lifecycle", "state-queue", "gate-open"}

\* A step of one actor that touches nothing on disk, takes no flock and ends
\* at one of these places preserves the invariant, PcLocks aside.
LEMMA QuietStep ==
    ASSUME IInv, TypeOK', PcLocks', UNCHANGED diskVars,
           NEW a \in Actors,
           pc'[a] \in QuietPcs,
           locked'[a] \subseteq locked[a], locked'[a] \cap Unlinked(a) = {},
           locked'[a] # {} => op'[a] = op[a],
           \A f \in locked'[a] : fd'[a][f] = fd[a][f],
           \A b \in Actors \ {a} :
             /\ pc'[b] = pc[b] /\ op'[b] = op[b] /\ store'[b] = store[b]
             /\ locked'[b] = locked[b] /\ fd'[b] = fd[b]
    PROVE  IInv'
  <1>1. \A b \in Actors \ {a} : Unlinked(b)' = Unlinked(b)
    BY DEF Unlinked
  <1>2. LockedNamed' /\ FlocksCompatible'
    BY <1>1, LocksShrink DEF diskVars
  <1>3. PurgingIdentity' /\ InitProgress' /\ LeaseStore'
    BY DEF IInv, PurgingIdentity, InitProgress, LeaseStore, diskVars, QuietPcs, PurgePcs, NoIdentity
  <1>5. PolledOpen'
    BY DEF IInv, PolledOpen, QuietPcs, Flocking, Files
  <1>4. NoLeasePastTombstone' /\ EstablishedHasLocks'
    BY DEF IInv, NoLeasePastTombstone, EstablishedHasLocks, diskVars, QuietPcs
  <1> QED BY <1>2, <1>3, <1>4, <1>5 DEF IInv

\* Opening a Store, dropping it and asking for a lease change no lock and no file.
LEMMA Beginnings ==
    ASSUME IInv, TypeOK', NEW a \in Actors,
           \/ OpenExisting(a) \/ CloseStore(a)
           \/ \E k \in {"read", "write"} : BeginOrdinary(a, k)
           \/ BeginClean(a) \/ BeginOpen(a)
    PROVE  IInv'
  <1>1. /\ TypeOK /\ pc[a] = "idle" /\ locked' = locked /\ fd' = fd /\ UNCHANGED diskVars
        /\ pc'[a] \in {"idle", "lifecycle-queue", "state-queue"}
        /\ pc'[a] = "lifecycle-queue" => op'[a] \in {"clean", "open"}
        /\ pc'[a] = "state-queue" => op'[a] \in {"read", "write"}
        /\ \A b \in Actors \ {a} : pc'[b] = pc[b] /\ op'[b] = op[b] /\ store'[b] = store[b]
    BY DEF IInv, TypeOK, OpenExisting, CloseStore, BeginOrdinary, BeginClean, BeginOpen, diskVars
  <1>2. locked[a] = {}
    BY <1>1 DEF IInv, PcLocks, LocksAt
  <1>3. LocksAt(a)'
    BY <1>1, <1>2 DEF LocksAt, Base, LifecyclePcs, StatePcs, PurgePcs, OpenPcs
  <1>4. PcLocks'
    BY <1>1, <1>3, OneActor
  <1> QED BY <1>1, <1>2, <1>4, QuietStep DEF QuietPcs

\* Passing an rwQueue changes no lock and no file.
LEMMA Entrances ==
    ASSUME IInv, TypeOK', NEW a \in Actors,
           EnterLifecycle(a) \/ EnterState(a) \/ HoldLifecycle(a) \/ BeginCleanup(a)
    PROVE  IInv'
  <1>1. /\ TypeOK /\ locked' = locked /\ fd' = fd /\ op' = op /\ store' = store
        /\ UNCHANGED diskVars
        /\ \/ pc[a] = "lifecycle-queue" /\ pc'[a] = "lifecycle-open"
           \/ pc[a] = "state-queue" /\ pc'[a] = "gate-open"
           \/ pc[a] = "lifecycle-check" /\ pc'[a] = "lifecycle"
           \/ pc[a] = "lifecycle" /\ pc'[a] = "state-queue"
        /\ \A b \in Actors \ {a} : pc'[b] = pc[b]
    BY DEF IInv, TypeOK, EnterLifecycle, EnterState, HoldLifecycle, BeginCleanup, diskVars
  <1>2. PcLocks'
    <2>1. LocksAt(a)
      BY DEF IInv, PcLocks
    <2>2. LocksAt(a)'
      BY <1>1, <2>1 DEF LocksAt, Base, LifecyclePcs, StatePcs, PurgePcs, OpenPcs
    <2> QED BY <1>1, <2>2, OneActor
  <1>3. Unlinked(a) = {}
    BY <1>1 DEF Unlinked, PurgePcs
  <1> QED BY <1>1, <1>2, <1>3, QuietStep DEF QuietPcs

\* A failed or released lease takes its own flocks only.
LEMMA Departures ==
    ASSUME IInv, TypeOK', NEW a \in Actors, Fail(a) \/ Release(a)
    PROVE  IInv'
  <1>0. TypeOK /\ UNCHANGED diskVars
    BY DEF IInv, Fail, Release, Abandon, diskVars
  <1>1. CASE Leave(a)
    <2>1. /\ pc'[a] = "idle" /\ locked'[a] = {}
          /\ \A b \in Actors \ {a} :
               /\ pc'[b] = pc[b] /\ op'[b] = op[b]
               /\ locked'[b] = locked[b] /\ fd'[b] = fd[b]
      BY <1>0, <1>1 DEF Leave, TypeOK
    <2>2. \A b \in Actors \ {a} : store'[b] = store[b]
      BY <1>0 DEF Fail, Release, Abandon, TypeOK
    <2>3. PcLocks'
      <3>1. LocksAt(a)'
        BY <2>1 DEF LocksAt, Base, LifecyclePcs, StatePcs, PurgePcs, OpenPcs
      <3> QED BY <2>1, <3>1, OneActor
    <2> QED BY <1>0, <2>1, <2>2, <2>3, QuietStep DEF QuietPcs
  <1>2. CASE LeaveState(a) /\ op[a] = "clean" /\ pc[a] \in StatePcs \cup {"state-queue"}
    <2>1. /\ pc'[a] = "lifecycle" /\ locked'[a] = {"lifecycle"} /\ op' = op
          /\ fd'[a]["lifecycle"] = fd[a]["lifecycle"]
          /\ \A b \in Actors \ {a} :
               pc'[b] = pc[b] /\ locked'[b] = locked[b] /\ fd'[b] = fd[b]
      BY <1>0, <1>2 DEF LeaveState, TypeOK, NoFile, Files
    <2>2. store' = store
      BY <1>2 DEF Fail, Release, Abandon, StatePcs
    <2>3. PcLocks'
      <3>1. LocksAt(a)'
        BY <1>2, <2>1 DEF LocksAt, Base, LifecyclePcs, StatePcs, PurgePcs, OpenPcs
      <3> QED BY <2>1, <3>1, OneActor
    <2>4. "lifecycle" \in locked[a] /\ Unlinked(a) = {}
      BY <1>2 DEF IInv, PcLocks, LocksAt, Base, StatePcs, Unlinked, PurgePcs
    <2> QED BY <1>0, <2>1, <2>2, <2>3, <2>4, QuietStep DEF QuietPcs
  <1> QED BY <1>1, <1>2 DEF Fail, Release, Abandon, StatePcs

\* Creating a lock file disturbs nobody: no held flock is on an absent name.
LEMMA OpeningLock ==
    ASSUME IInv, TypeOK', NEW a \in Actors, NEW f \in Files, OpenLockFile(a, f)
    PROVE  IInv'
  <1>1. /\ TypeOK /\ op' = op /\ store' = store /\ locked' = locked
        /\ ident' = ident /\ receipt' = receipt
        /\ f \notin locked[a]
        /\ \A b \in Actors \ {a} : pc'[b] = pc[b] /\ fd'[b] = fd[b]
        /\ \A g \in Files : g # f => dir'[g] = dir[g] /\ fd'[a][g] = fd[a][g]
        /\ dir'[f] # 0 /\ (dir[f] # 0 => dir'[f] = dir[f])
    <2>1. TypeOK /\ op' = op /\ store' = store /\ locked' = locked /\ ident' = ident /\ receipt' = receipt
      BY DEF IInv, OpenLockFile
    <2>2. f \notin locked[a]
      <3>1. /\ f = "lifecycle" => pc[a] = "lifecycle-open"
            /\ f = "gate" => pc[a] = "gate-open"
            /\ f = "state" => pc[a] = "state-open"
        BY DEF OpenLockFile, Opening
      <3>2. /\ pc[a] = "lifecycle-open" => locked[a] = {}
            /\ pc[a] = "gate-open" => locked[a] = Base(a)
            /\ pc[a] = "state-open" => locked[a] = Base(a) \cup {"gate"}
        BY DEF IInv, PcLocks, LocksAt
      <3> QED BY <3>1, <3>2 DEF Base, Files
    <2>3. \A b \in Actors \ {a} : pc'[b] = pc[b] /\ fd'[b] = fd[b]
      BY <2>1 DEF OpenLockFile, TypeOK
    <2>4. \A g \in Files : g # f => dir'[g] = dir[g] /\ fd'[a][g] = fd[a][g]
      BY <2>1 DEF OpenLockFile, TypeOK
    <2>5. dir'[f] # 0 /\ (dir[f] # 0 => dir'[f] = dir[f])
      BY <2>1, NewInodeType, BoundsAssumption DEF OpenLockFile, TypeOK
    <2> QED BY <2>1, <2>2, <2>3, <2>4, <2>5
  <1>2. /\ \/ pc[a] = "lifecycle-open" /\ pc'[a] = "lifecycle-flock"
           \/ pc[a] = "gate-open" /\ pc'[a] = "gate-flock"
           \/ pc[a] = "state-open" /\ pc'[a] = "state-flock"
    BY <1>1 DEF OpenLockFile, Opening, Flocking, Files, TypeOK
  <1>3. PcLocks'
    <2>1. LocksAt(a)
      BY DEF IInv, PcLocks
    <2>2. LocksAt(a)'
      BY <1>1, <1>2, <2>1 DEF LocksAt, Base, LifecyclePcs, StatePcs, PurgePcs, OpenPcs
    <2> QED BY <1>1, <2>2, OneActor
  <1>4. \A b \in Actors : Unlinked(b)' = Unlinked(b)
    BY <1>1, <1>2 DEF Unlinked, PurgePcs
  <1>5. LockedNamed'
    <2> SUFFICES ASSUME NEW b \in Actors, NEW g \in locked[b] \ Unlinked(b)
                 PROVE  fd'[b][g] # 0 /\ dir'[g] = fd'[b][g]
      BY <1>1, <1>4 DEF LockedNamed
    <2>1. fd[b][g] # 0 /\ dir[g] = fd[b][g] /\ g \in Files
      BY <1>1 DEF IInv, LockedNamed, TypeOK
    <2>2. fd'[b][g] = fd[b][g]
      BY <1>1, <2>1
    <2> QED BY <1>1, <2>1, <2>2
  <1>6. FlocksCompatible'
    <2> SUFFICES ASSUME NEW b \in Actors, NEW c \in Actors, NEW g \in Files, b # c,
                        g \in locked[b], g \in locked[c], fd'[b][g] = fd'[c][g]
                 PROVE  g = "state" /\ op[b] = "read" /\ op[c] = "read"
      BY <1>1 DEF FlocksCompatible
    <2>1. fd'[b][g] = fd[b][g] /\ fd'[c][g] = fd[c][g]
      BY <1>1
    <2> QED BY <2>1 DEF IInv, FlocksCompatible
  <1>7. PurgingIdentity' /\ InitProgress' /\ LeaseStore'
    BY <1>1, <1>2 DEF IInv, PurgingIdentity, InitProgress, LeaseStore, PurgePcs, NoIdentity, Files
  <1>8. NoLeasePastTombstone' /\ EstablishedHasLocks'
    BY <1>1, <1>2 DEF IInv, NoLeasePastTombstone, EstablishedHasLocks
  <1>9. PolledOpen'
    <2> SUFFICES ASSUME NEW b \in Actors, NEW g \in Files, pc'[b] = Flocking[g]
                 PROVE  fd'[b][g] # 0
      BY DEF PolledOpen
    <2>1. CASE b = a
      <3>1. g = f
        BY <1>2, <2>1 DEF OpenLockFile, Opening, Flocking, Files
      <3> QED BY <1>1, <2>1, <3>1 DEF OpenLockFile, TypeOK
    <2>2. CASE b # a
      BY <1>1, <2>2 DEF IInv, PolledOpen
    <2> QED BY <2>1, <2>2
  <1> QED BY <1>3, <1>5, <1>6, <1>7, <1>8, <1>9 DEF IInv

\* The one step that takes a flock: it is compatible with those held on the
\* inode, and verifyLock found the name standing for that inode.
LEMMA Flocked ==
    ASSUME IInv, TypeOK', NEW a \in Actors, NEW f \in Files, Flock(a, f)
    PROVE  IInv'
  <1>1. /\ TypeOK /\ op' = op /\ store' = store /\ fd' = fd /\ UNCHANGED diskVars
        /\ locked' = [locked EXCEPT ![a] = @ \cup {f}]
        /\ FlockFree(a, f) /\ dir[f] = fd[a][f]
        /\ \A b \in Actors \ {a} : pc'[b] = pc[b] /\ locked'[b] = locked[b]
        /\ locked'[a] = locked[a] \cup {f}
    BY DEF IInv, Flock, Named, TypeOK, diskVars
  <1>2. \/ f = "lifecycle" /\ pc[a] = "lifecycle-flock" /\ pc'[a] = "lifecycle-check" /\ op[a] = "clean"
        \/ f = "lifecycle" /\ pc[a] = "lifecycle-flock" /\ pc'[a] = "init-receipt" /\ op[a] = "open"
        \/ f = "gate" /\ pc[a] = "gate-flock" /\ pc'[a] = "state-open"
        \/ f = "state" /\ pc[a] = "state-flock" /\ pc'[a] = "check"
    <2>1. pc[a] = "lifecycle-flock" => op[a] \in {"clean", "open"}
      BY DEF IInv, PcLocks, LocksAt
    <2> QED BY <1>1, <2>1 DEF Flock, Flocking, AfterFlock, Files, TypeOK
  <1>3. PcLocks'
    <2>1. LocksAt(a)
      BY DEF IInv, PcLocks
    <2>2. LocksAt(a)'
      BY <1>1, <1>2, <2>1 DEF LocksAt, Base, LifecyclePcs, StatePcs, PurgePcs, OpenPcs
    <2> QED BY <1>1, <2>2, OneActor
  <1>4. Unlinked(a) = {} /\ \A b \in Actors : Unlinked(b)' = Unlinked(b)
    BY <1>1, <1>2 DEF Unlinked, PurgePcs
  <1>5. fd[a][f] # 0
    BY DEF IInv, PolledOpen, Flock
  <1>6. LockedNamed'
    BY <1>1, <1>4, <1>5 DEF IInv, LockedNamed, diskVars
  <1>7. FlocksCompatible'
    BY <1>1 DEF IInv, FlocksCompatible, FlockFree, Exclusive
  <1>8. PurgingIdentity' /\ InitProgress' /\ LeaseStore'
    BY <1>1, <1>2 DEF IInv, PurgingIdentity, InitProgress, LeaseStore, PurgePcs, NoIdentity, diskVars
  <1>9. NoLeasePastTombstone' /\ EstablishedHasLocks'
    BY <1>1, <1>2 DEF IInv, NoLeasePastTombstone, EstablishedHasLocks, diskVars
  <1>10. PolledOpen'
    BY <1>1, <1>2 DEF IInv, PolledOpen, Flocking, Files
  <1> QED BY <1>3, <1>6, <1>7, <1>8, <1>9, <1>10 DEF IInv

\* A lease is granted on an identity that fits it, and nobody else can be
\* writing that identity.
LEMMA Granting ==
    ASSUME IInv, TypeOK', NEW a \in Actors, GrantLease(a)
    PROVE  IInv'
  <1>1. /\ TypeOK /\ op' = op /\ store' = store /\ UNCHANGED diskVars
        /\ pc[a] = "check" /\ pc'[a] = "held" /\ Checked(a)
        /\ \A b \in Actors \ {a} :
             pc'[b] = pc[b] /\ locked'[b] = locked[b] /\ fd'[b] = fd[b]
    BY DEF IInv, GrantLease, TypeOK, diskVars
  <1>2. LocksAt(a)
    BY DEF IInv, PcLocks
  <1>3. /\ locked'[a] = IF op[a] = "read" THEN {"state"} ELSE locked[a]
        /\ \A f \in locked'[a] : fd'[a][f] = fd[a][f]
        /\ locked'[a] \subseteq locked[a]
    <2>1. CASE op[a] = "read"
      <3>1. locked'[a] = {"state"} /\ fd'[a]["state"] = fd[a]["state"]
        BY <1>1, <2>1 DEF GrantLease, Exclusive, TypeOK, Files
      <3>2. "state" \in locked[a]
        BY <1>1, <1>2 DEF LocksAt
      <3> QED BY <2>1, <3>1, <3>2
    <2>2. CASE op[a] # "read"
      BY <1>1, <2>2 DEF GrantLease, Exclusive
    <2> QED BY <2>1, <2>2
  <1>4. PcLocks'
    <2>1. LocksAt(a)'
      BY <1>1, <1>2, <1>3 DEF LocksAt, Base, LifecyclePcs, StatePcs, PurgePcs, OpenPcs
    <2> QED BY <1>1, <2>1, OneActor
  <1>5. \A b \in Actors : Unlinked(b)' = Unlinked(b)
    BY <1>1 DEF Unlinked, PurgePcs
  <1>6. LockedNamed' /\ FlocksCompatible'
    BY <1>1, <1>3, <1>5, LocksShrink DEF diskVars
  <1>7. store[a] # 0 /\ (op[a] # "clean" => ident.id = store[a] /\ ident.established /\ ~ident.purging)
    <2>1. IdentityFits(a)
      BY <1>1 DEF Checked
    <2>2. op[a] # "clean" => ~Identity.purging /\ Identity.established
      BY <2>1 DEF IdentityFits
    <2>3. op[a] # "clean" => Identity = ident
      BY <2>2 DEF Identity
    <2> QED BY <2>1, <2>2, <2>3 DEF IdentityFits
  <1>8. PurgingIdentity' /\ InitProgress' /\ LeaseStore'
    BY <1>1, <1>7 DEF IInv, PurgingIdentity, InitProgress, LeaseStore, PurgePcs, NoIdentity, diskVars
  <1>9. NoLeasePastTombstone' /\ EstablishedHasLocks'
    BY <1>1, <1>7 DEF IInv, NoLeasePastTombstone, EstablishedHasLocks, diskVars
  <1>10. PolledOpen'
    BY <1>1 DEF IInv, PolledOpen, Flocking, Files
  <1> QED BY <1>4, <1>6, <1>8, <1>9, <1>10 DEF IInv

\* The tombstone is published under an exclusive lease: there is no ordinary
\* lease that it could surprise.
LEMMA Tombstone ==
    ASSUME IInv, TypeOK', NEW a \in Actors, BeginPurge(a)
    PROVE  IInv'
  <1>1. /\ UNCHANGED <<pc, op, store, create, fd, locked, dir, receipt>>
        /\ pc[a] = "held" /\ op[a] = "clean" /\ ident'.purging /\ ident'.id # 0
    <2>1. Identity.id # 0 /\ Identity \in [id : Nat, purging : BOOLEAN, established : BOOLEAN]
      BY IdentityType DEF IInv, BeginPurge, Checked, IdentityFits
    <2> QED BY <2>1 DEF BeginPurge, actorVars
  <1>2. "state" \in locked[a]
    BY <1>1 DEF IInv, PcLocks, LocksAt
  <1>3. \A b \in Actors : ~(pc[b] = "held" /\ op[b] \in {"read", "write"})
    <2> SUFFICES ASSUME NEW b \in Actors, pc[b] = "held", op[b] \in {"read", "write"}
                 PROVE  FALSE
      OBVIOUS
    <2>1. "state" \in locked[b]
      BY DEF IInv, PcLocks, LocksAt
    <2> QED BY <1>1, <1>2, <2>1, LiveExclusion
  <1>4. PcLocks'
    BY <1>1 DEF IInv, PcLocks, LocksAt, Base
  <1>7. LockedNamed' /\ FlocksCompatible'
    <2>1. \A b \in Actors : Unlinked(b)' = Unlinked(b)
      BY <1>1 DEF Unlinked
    <2> QED BY <1>1, <2>1, LocksShrink
  <1>5. PurgingIdentity' /\ InitProgress' /\ LeaseStore' /\ PolledOpen'
    BY <1>1 DEF IInv, PurgingIdentity, InitProgress, LeaseStore, PolledOpen
  <1>6. NoLeasePastTombstone' /\ EstablishedHasLocks'
    BY <1>1, <1>3 DEF NoLeasePastTombstone, EstablishedHasLocks
  <1> QED BY <1>4, <1>5, <1>6, <1>7 DEF IInv

\* No initialization is under way beside a purge: both need lifecycle.lock.
LEMMA NoOpenBeside ==
    ASSUME IInv, NEW a \in Actors, "lifecycle" \in locked[a], pc[a] # "rm-receipt",
           pc[a] \notin OpenPcs
    PROVE  \A b \in Actors : pc[b] \notin OpenPcs
  <1> SUFFICES ASSUME NEW b \in Actors, pc[b] \in OpenPcs
               PROVE  FALSE
    OBVIOUS
  <1>1. "lifecycle" \in locked[b] /\ pc[b] # "rm-receipt"
    BY DEF IInv, PcLocks, LocksAt, OpenPcs
  <1> QED BY <1>1, LifecycleOnce

\* A purge writes its receipt while it holds the three files.
LEMMA Receipt ==
    ASSUME IInv, TypeOK', NEW a \in Actors, BeginFinish(a)
    PROVE  IInv'
  <1>1. /\ TypeOK /\ UNCHANGED <<op, store, create, fd, locked, dir, ident>>
        /\ pc[a] = "held" /\ op[a] = "clean" /\ pc'[a] = "rm-state"
        /\ \A b \in Actors \ {a} : pc'[b] = pc[b]
    BY DEF IInv, BeginFinish, TypeOK
  <1>2. locked[a] = Files
    BY <1>1 DEF IInv, PcLocks, LocksAt, Base, Files
  <1>3. PcLocks'
    <2>1. LocksAt(a)'
      BY <1>1, <1>2 DEF LocksAt, Base, LifecyclePcs, StatePcs, PurgePcs, OpenPcs
    <2> QED BY <1>1, <2>1, OneActor
  <1>4. \A b \in Actors : Unlinked(b)' = Unlinked(b)
    BY <1>1 DEF Unlinked, PurgePcs
  <1>5. LockedNamed' /\ FlocksCompatible'
    BY <1>1, <1>4, LocksShrink
  <1>6. \A b \in Actors : pc[b] \notin OpenPcs
    BY <1>1, <1>2, NoOpenBeside DEF Files, OpenPcs
  <1>7. InitProgress' /\ LeaseStore' /\ PolledOpen'
    BY <1>1, <1>6 DEF IInv, InitProgress, LeaseStore, PolledOpen, OpenPcs, Flocking, Files
  <1>8. PurgingIdentity'
    <2>1. ident.id = 0 \/ ident.purging
      BY DEF BeginFinish, Identity
    <2> QED BY <1>1, <2>1 DEF IInv, PurgingIdentity, NoIdentity, PurgePcs
  <1>9. NoLeasePastTombstone' /\ EstablishedHasLocks'
    BY <1>1 DEF IInv, NoLeasePastTombstone, EstablishedHasLocks
  <1> QED BY <1>3, <1>5, <1>7, <1>8, <1>9 DEF IInv

\* FinishPurge unlinks a name while nobody else can hold the flock on it.
LEMMA Unlinking ==
    ASSUME IInv, TypeOK', NEW a \in Actors, NEW f \in Files,
           \/ f = "state" /\ RemoveLock(a, f, "rm-state", "rm-gate")
           \/ f = "gate" /\ RemoveLock(a, f, "rm-gate", "rm-identity")
           \/ f = "lifecycle" /\ RemoveLock(a, f, "rm-lifecycle", "rm-receipt")
    PROVE  IInv'
  <1>1. /\ TypeOK /\ UNCHANGED <<op, store, create, fd, locked, ident, receipt>>
        /\ dir'[f] = 0 /\ \A g \in Files \ {f} : dir'[g] = dir[g]
        /\ \A b \in Actors \ {a} : pc'[b] = pc[b]
    BY DEF IInv, RemoveLock, TypeOK
  <1>2. \/ f = "state" /\ pc[a] = "rm-state" /\ pc'[a] = "rm-gate"
        \/ f = "gate" /\ pc[a] = "rm-gate" /\ pc'[a] = "rm-identity"
        \/ f = "lifecycle" /\ pc[a] = "rm-lifecycle" /\ pc'[a] = "rm-receipt"
    BY <1>1 DEF RemoveLock, TypeOK
  <1>3. /\ pc[a] \in PurgePcs \ {"rm-receipt"} /\ locked[a] = Files /\ op[a] = "clean"
        /\ f \notin Unlinked(a) /\ Unlinked(a)' = Unlinked(a) \cup {f}
        /\ \A b \in Actors \ {a} : Unlinked(b)' = Unlinked(b)
    BY <1>1, <1>2 DEF IInv, PcLocks, LocksAt, PurgePcs, Unlinked, Files
  <1>4. PcLocks'
    <2>1. LocksAt(a)'
      BY <1>1, <1>2, <1>3 DEF LocksAt, Base, LifecyclePcs, StatePcs, PurgePcs, OpenPcs
    <2> QED BY <1>1, <2>1, OneActor
  <1>5. LockedNamed'
    <2> SUFFICES ASSUME NEW b \in Actors, NEW g \in locked[b] \ Unlinked(b)'
                 PROVE  fd[b][g] # 0 /\ dir'[g] = fd[b][g]
      BY <1>1 DEF LockedNamed
    <2>1. g \in Files /\ g \notin Unlinked(b)
      BY <1>1, <1>3 DEF TypeOK
    <2>2. g # f
      BY <1>3, <2>1, SameName
    <2> QED BY <1>1, <2>1, <2>2 DEF IInv, LockedNamed
  <1>6. FlocksCompatible'
    BY <1>1 DEF IInv, FlocksCompatible
  <1>7. \A b \in Actors : pc[b] \notin OpenPcs
    BY <1>3, NoOpenBeside DEF Files, OpenPcs, PurgePcs
  <1>8. PurgingIdentity' /\ LeaseStore'
    BY <1>1, <1>2 DEF IInv, PurgingIdentity, LeaseStore, PurgePcs, NoIdentity
  <1>9. InitProgress'
    BY <1>1, <1>2, <1>7 DEF InitProgress, OpenPcs
  <1>10. PolledOpen'
    BY <1>1, <1>2 DEF IInv, PolledOpen, Flocking, Files
  <1>11. NoLeasePastTombstone'
    BY <1>1, <1>2 DEF IInv, NoLeasePastTombstone
  <1>12. EstablishedHasLocks'
    <2>1. ident.purging \/ ~ident.established
      BY <1>3 DEF IInv, PurgingIdentity, NoIdentity
    <2> QED BY <1>1, <2>1 DEF EstablishedHasLocks
  <1> QED BY <1>4, <1>5, <1>6, <1>8, <1>9, <1>10, <1>11, <1>12 DEF IInv

\* The identity is removed when no ordinary lease can rest on it.
LEMMA IdentityRemoved ==
    ASSUME IInv, TypeOK', NEW a \in Actors, RemoveIdentity(a)
    PROVE  IInv'
  <1>1. /\ TypeOK /\ UNCHANGED <<op, store, create, fd, locked, dir, receipt>>
        /\ ident' = NoIdentity
        /\ pc[a] = "rm-identity" /\ pc'[a] = "rm-lifecycle"
        /\ \A b \in Actors \ {a} : pc'[b] = pc[b]
    BY DEF IInv, RemoveIdentity, TypeOK
  <1>2. locked[a] = Files
    BY <1>1 DEF IInv, PcLocks, LocksAt, PurgePcs
  <1>3. PcLocks'
    <2>0. LocksAt(a)
      BY DEF IInv, PcLocks
    <2>1. LocksAt(a)'
      BY <1>1, <2>0 DEF LocksAt, Base, LifecyclePcs, StatePcs, PurgePcs, OpenPcs
    <2> QED BY <1>1, <2>1, OneActor
  <1>4. \A b \in Actors : Unlinked(b)' = Unlinked(b)
    BY <1>1 DEF Unlinked, PurgePcs
  <1>5. LockedNamed' /\ FlocksCompatible'
    BY <1>1, <1>4, LocksShrink
  <1>6. \A b \in Actors : pc[b] \notin OpenPcs
    BY <1>1, <1>2, NoOpenBeside DEF Files, OpenPcs
  <1>7. InitProgress' /\ LeaseStore' /\ PolledOpen'
    BY <1>1, <1>6 DEF IInv, InitProgress, LeaseStore, PolledOpen, OpenPcs, Flocking, Files
  <1>8. PurgingIdentity' /\ EstablishedHasLocks'
    BY <1>1 DEF PurgingIdentity, EstablishedHasLocks, NoIdentity
  <1>9. NoLeasePastTombstone'
    <2> SUFFICES ASSUME NEW b \in Actors, pc'[b] = "held", op'[b] \in {"read", "write"}
                 PROVE  FALSE
      BY DEF NoLeasePastTombstone
    <2>1. pc[b] = "held" /\ op[b] \in {"read", "write"}
      BY <1>1
    <2>2. store[b] # 0 /\ ident.id = store[b] /\ ~ident.purging
      BY <2>1 DEF IInv, LeaseStore, NoLeasePastTombstone
    <2>3. ident.id = 0 \/ ident.purging
      BY <1>1 DEF IInv, PurgingIdentity, PurgePcs
    <2> QED BY <2>2, <2>3
  <1> QED BY <1>3, <1>5, <1>7, <1>8, <1>9 DEF IInv

\* The last step of a purge leaves a root without identity or receipt.
LEMMA ReceiptRemoved ==
    ASSUME IInv, TypeOK', NEW a \in Actors, RemoveReceipt(a)
    PROVE  IInv'
  <1>1. /\ TypeOK /\ UNCHANGED <<dir, ident>> /\ receipt' = 0
        /\ pc'[a] = "idle" /\ locked'[a] = {}
        /\ \A b \in Actors \ {a} :
             /\ pc'[b] = pc[b] /\ op'[b] = op[b] /\ store'[b] = store[b]
             /\ locked'[b] = locked[b] /\ fd'[b] = fd[b]
    BY DEF IInv, RemoveReceipt, Leave, TypeOK
  <1>2. PcLocks'
    <2>1. LocksAt(a)'
      BY <1>1 DEF LocksAt, Base, LifecyclePcs, StatePcs, PurgePcs, OpenPcs
    <2> QED BY <1>1, <2>1, OneActor
  <1>3. \A b \in Actors \ {a} : Unlinked(b)' = Unlinked(b)
    BY <1>1 DEF Unlinked
  <1>4. LockedNamed' /\ FlocksCompatible'
    BY <1>1, <1>3, LocksShrink
  <1>5. PurgingIdentity' /\ InitProgress' /\ LeaseStore'
    BY <1>1 DEF IInv, PurgingIdentity, InitProgress, LeaseStore, PurgePcs, NoIdentity
  <1>6. PolledOpen' /\ NoLeasePastTombstone' /\ EstablishedHasLocks'
    BY <1>1 DEF IInv, PolledOpen, NoLeasePastTombstone, EstablishedHasLocks, Flocking, Files
  <1> QED BY <1>2, <1>4, <1>5, <1>6 DEF IInv

\* Open checks the receipt and writes an identity under the lifecycle lock.
LEMMA Initializing ==
    ASSUME IInv, TypeOK', NEW a \in Actors, NoReceipt(a) \/ OpenIdentity(a)
    PROVE  IInv'
  <1>1. /\ TypeOK /\ UNCHANGED <<op, fd, locked, dir, receipt>>
        /\ \/ /\ pc[a] = "init-receipt" /\ pc'[a] = "init-identity" /\ receipt = 0
              /\ UNCHANGED <<store, ident>>
           \/ /\ pc[a] = "init-identity" /\ pc'[a] = "init-gate" /\ ident'.id # 0
              /\ \/ UNCHANGED ident
                 \/ ident.id = 0 /\ ~ident'.established
        /\ \A b \in Actors \ {a} : pc'[b] = pc[b] /\ store'[b] = store[b]
    <2>1. CASE NoReceipt(a)
      BY <2>1 DEF IInv, NoReceipt, TypeOK, diskVars
    <2>2. CASE OpenIdentity(a)
      <3>1. created + 1 # 0
        BY DEF IInv, TypeOK
      <3> QED BY <2>2, <3>1 DEF IInv, OpenIdentity, TypeOK
    <2> QED BY <2>1, <2>2
  <1>2. locked[a] = {"lifecycle"} /\ op[a] = "open" /\ pc[a] \in OpenPcs
    BY <1>1 DEF IInv, PcLocks, LocksAt, OpenPcs
  <1>3. PcLocks'
    <2>1. LocksAt(a)'
      BY <1>1, <1>2 DEF LocksAt, Base, LifecyclePcs, StatePcs, PurgePcs, OpenPcs
    <2> QED BY <1>1, <2>1, OneActor
  <1>4. \A b \in Actors : Unlinked(b)' = Unlinked(b)
    BY <1>1 DEF Unlinked, PurgePcs
  <1>5. LockedNamed' /\ FlocksCompatible'
    BY <1>1, <1>4, LocksShrink
  <1>6. \A b \in Actors : pc[b] \notin PurgePcs \ {"rm-receipt"}
    <2> SUFFICES ASSUME NEW b \in Actors, pc[b] \in PurgePcs \ {"rm-receipt"}
                 PROVE  FALSE
      OBVIOUS
    <2>1. "lifecycle" \in locked[b]
      BY DEF IInv, PcLocks, LocksAt, Files
    <2> QED BY <1>2, <2>1, LifecycleOnce DEF OpenPcs, PurgePcs
  <1>7. PurgingIdentity'
    <2>1. \A b \in Actors : pc'[b] \notin PurgePcs \ {"rm-receipt"}
      BY <1>1, <1>6 DEF PurgePcs
    <2>2. ident'.id = 0 => ident' = NoIdentity
      BY <1>1 DEF IInv, PurgingIdentity, NoIdentity
    <2> QED BY <2>1, <2>2 DEF PurgingIdentity
  <1>8. InitProgress'
    BY <1>1 DEF IInv, InitProgress
  <1>9. PolledOpen' /\ LeaseStore'
    BY <1>1 DEF IInv, PolledOpen, LeaseStore, Flocking, Files
  <1>10. NoLeasePastTombstone'
    <2> SUFFICES ASSUME NEW b \in Actors, pc'[b] = "held", op'[b] \in {"read", "write"}
                 PROVE  ident'.id = store'[b] /\ ident'.established /\ ~ident'.purging
      BY DEF NoLeasePastTombstone
    <2>1. b # a /\ pc[b] = "held" /\ op[b] \in {"read", "write"} /\ store'[b] = store[b]
      BY <1>1
    <2>2. store[b] # 0 /\ ident.id = store[b] /\ ident.established /\ ~ident.purging
      BY <2>1 DEF IInv, LeaseStore, NoLeasePastTombstone
    <2> QED BY <1>1, <2>1, <2>2
  <1>11. EstablishedHasLocks'
    BY <1>1 DEF IInv, EstablishedHasLocks
  <1> QED BY <1>3, <1>5, <1>7, <1>8, <1>9, <1>10, <1>11 DEF IInv

\* Open creates or opens the gate and state files under the lifecycle lock.
LEMMA OpeningStateLock ==
    ASSUME IInv, TypeOK', NEW a \in Actors, NEW f \in {"gate", "state"},
           \/ f = "gate" /\ OpenStateLock(a, f, "init-gate", "init-state")
           \/ f = "state" /\ OpenStateLock(a, f, "init-state", "init-established")
    PROVE  IInv'
  <1>1. /\ TypeOK /\ UNCHANGED <<op, store, fd, locked, ident, receipt>>
        /\ \/ f = "gate" /\ pc[a] = "init-gate" /\ pc'[a] = "init-state"
           \/ f = "state" /\ pc[a] = "init-state" /\ pc'[a] = "init-established"
        /\ \A b \in Actors \ {a} : pc'[b] = pc[b]
        /\ f \in Files
    BY DEF IInv, OpenStateLock, TypeOK, Files
  <1>2. dir'[f] # 0 /\ \A g \in Files : dir[g] # 0 => dir'[g] = dir[g]
    BY <1>1, NewInodeType, BoundsAssumption DEF OpenStateLock, TypeOK
  <1>3. PcLocks'
    <2>0. LocksAt(a)
      BY DEF IInv, PcLocks
    <2>1. LocksAt(a)'
      BY <1>1, <2>0 DEF LocksAt, Base, LifecyclePcs, StatePcs, PurgePcs, OpenPcs
    <2> QED BY <1>1, <2>1, OneActor
  <1>4. \A b \in Actors : Unlinked(b)' = Unlinked(b)
    BY <1>1 DEF Unlinked, PurgePcs
  <1>5. LockedNamed'
    <2> SUFFICES ASSUME NEW b \in Actors, NEW g \in locked[b] \ Unlinked(b)
                 PROVE  fd[b][g] # 0 /\ dir'[g] = fd[b][g]
      BY <1>1, <1>4 DEF LockedNamed
    <2>1. fd[b][g] # 0 /\ dir[g] = fd[b][g] /\ g \in Files
      BY <1>1 DEF IInv, LockedNamed, TypeOK
    <2> QED BY <1>2, <2>1
  <1>6. FlocksCompatible'
    BY <1>1 DEF IInv, FlocksCompatible
  <1>7. PurgingIdentity' /\ LeaseStore' /\ PolledOpen'
    BY <1>1 DEF IInv, PurgingIdentity, LeaseStore, PolledOpen, PurgePcs, NoIdentity, Flocking, Files
  <1>8. InitProgress'
    BY <1>1, <1>2 DEF IInv, InitProgress, Files
  <1>9. NoLeasePastTombstone' /\ EstablishedHasLocks'
    BY <1>1, <1>2 DEF IInv, NoLeasePastTombstone, EstablishedHasLocks
  <1> QED BY <1>3, <1>5, <1>6, <1>7, <1>8, <1>9 DEF IInv

\* Profiles are established when all three lock files are there.
LEMMA Establishing ==
    ASSUME IInv, TypeOK', NEW a \in Actors, Establish(a)
    PROVE  IInv'
  <1>1. /\ TypeOK /\ UNCHANGED <<store, dir, receipt>>
        /\ pc[a] = "init-established" /\ pc'[a] = "idle" /\ locked'[a] = {}
        /\ ident' = [ident EXCEPT !.established = ident.established \/ ~ident.purging]
        /\ \A b \in Actors \ {a} :
             /\ pc'[b] = pc[b] /\ op'[b] = op[b]
             /\ locked'[b] = locked[b] /\ fd'[b] = fd[b]
    BY DEF IInv, Establish, Leave, TypeOK
  <1>2. /\ ident'.id = ident.id /\ ident'.purging = ident.purging
        /\ ident.established => ident'.established
    BY <1>1 DEF TypeOK
  <1>3. PcLocks'
    <2>1. LocksAt(a)'
      BY <1>1 DEF LocksAt, Base, LifecyclePcs, StatePcs, PurgePcs, OpenPcs
    <2> QED BY <1>1, <2>1, OneActor
  <1>4. \A b \in Actors \ {a} : Unlinked(b)' = Unlinked(b)
    BY <1>1 DEF Unlinked
  <1>5. LockedNamed' /\ FlocksCompatible'
    BY <1>1, <1>4, LocksShrink
  <1>6. ident.id # 0
    BY <1>1 DEF IInv, InitProgress
  <1>7. PurgingIdentity' /\ InitProgress' /\ LeaseStore' /\ PolledOpen'
    BY <1>1, <1>2, <1>6 DEF IInv, PurgingIdentity, InitProgress, LeaseStore, PolledOpen,
                            PurgePcs, Flocking, Files
  <1>8. NoLeasePastTombstone'
    BY <1>1, <1>2 DEF IInv, NoLeasePastTombstone
  <1>9. EstablishedHasLocks'
    <2>1. "lifecycle" \in locked[a] \ Unlinked(a)
      BY <1>1 DEF IInv, PcLocks, LocksAt, OpenPcs, Unlinked
    <2>2. dir["lifecycle"] # 0
      BY <2>1 DEF IInv, LockedNamed
    <2>3. dir["gate"] # 0 /\ dir["state"] # 0
      BY <1>1 DEF IInv, InitProgress
    <2> QED BY <1>1, <2>2, <2>3 DEF EstablishedHasLocks, Files
  <1> QED BY <1>3, <1>5, <1>7, <1>8, <1>9 DEF IInv

\* A crash drops what the dead process held, wherever it was.
LEMMA Crashing ==
    ASSUME IInv, TypeOK', NEW p \in Processes, Crash(p)
    PROVE  IInv'
  <1> DEFINE dead == {a \in Actors : Proc[a] = p}
  <1>1. /\ TypeOK /\ UNCHANGED diskVars
        /\ \A b \in dead : pc'[b] = "idle" /\ locked'[b] = {}
        /\ \A b \in Actors \ dead :
             /\ pc'[b] = pc[b] /\ op'[b] = op[b] /\ store'[b] = store[b]
             /\ locked'[b] = locked[b] /\ fd'[b] = fd[b]
    BY DEF IInv, Crash
  <1> HIDE DEF dead
  <1>2. PcLocks'
    <2> SUFFICES ASSUME NEW b \in Actors PROVE LocksAt(b)'
      BY DEF PcLocks
    <2>1. CASE b \in dead
      BY <1>1, <2>1 DEF LocksAt, Base, LifecyclePcs, StatePcs, PurgePcs, OpenPcs
    <2>2. CASE b \notin dead
      BY <1>1, <2>2 DEF IInv, PcLocks, LocksAt, Base
    <2> QED BY <2>1, <2>2
  <1>3. \A b \in Actors \ dead : Unlinked(b)' = Unlinked(b)
    BY <1>1 DEF Unlinked
  <1>4. LockedNamed' /\ FlocksCompatible'
    <2>1. \A b \in Actors :
            /\ locked'[b] \subseteq locked[b]
            /\ locked'[b] # {} => op'[b] = op[b]
            /\ \A f \in locked'[b] :
                 fd'[b][f] = fd[b][f] /\ (f \in Unlinked(b) => f \in Unlinked(b)')
      BY <1>1, <1>3
    <2> QED BY <1>1, <2>1, LocksShrink DEF diskVars
  <1>5. PurgingIdentity' /\ InitProgress' /\ LeaseStore' /\ PolledOpen'
    <2> SUFFICES ASSUME NEW b \in Actors PROVE
          /\ ident'.id = 0 => ident' = NoIdentity
          /\ pc'[b] = "idle" \/ (pc'[b] = pc[b] /\ op'[b] = op[b] /\ store'[b] = store[b] /\ fd'[b] = fd[b])
      BY <1>1 DEF IInv, PurgingIdentity, InitProgress, LeaseStore, PolledOpen, PurgePcs,
                  Flocking, Files, diskVars, NoIdentity
    <2> QED BY <1>1 DEF IInv, PurgingIdentity, diskVars, NoIdentity
  <1>6. NoLeasePastTombstone' /\ EstablishedHasLocks'
    BY <1>1 DEF IInv, NoLeasePastTombstone, EstablishedHasLocks, diskVars
  <1> QED BY <1>2, <1>4, <1>5, <1>6 DEF IInv

----------------------------------------------------------------------------
(* The theorems *)

\* Every step preserves the inductive invariant: one case per operation.
LEMMA Inductive == IInv /\ [Next]_vars => IInv'
  <1> SUFFICES ASSUME IInv, [Next]_vars PROVE IInv'
    OBVIOUS
  <1>0. TypeOK'
    BY Types DEF IInv
  <1>1. CASE UNCHANGED vars
    BY <1>1 DEF vars, IInv, TypeOK, PcLocks, LocksAt, Base, LockedNamed, Unlinked,
                FlocksCompatible, PurgingIdentity, InitProgress, PolledOpen, LeaseStore,
                NoLeasePastTombstone, EstablishedHasLocks
  <1>2. ASSUME NEW p \in Processes, Crash(p) PROVE IInv'
    BY <1>0, <1>2, Crashing
  <1>3. ASSUME NEW a \in Actors,
               \/ OpenExisting(a) \/ CloseStore(a)
               \/ \E k \in {"read", "write"} : BeginOrdinary(a, k)
               \/ BeginClean(a) \/ BeginOpen(a)
        PROVE  IInv'
    BY <1>0, <1>3, Beginnings
  <1>4. ASSUME NEW a \in Actors, Acquire(a) \/ BeginCleanup(a) PROVE IInv'
    BY <1>0, <1>4, Entrances, OpeningLock, Flocked, Granting DEF Acquire
  <1>5. ASSUME NEW a \in Actors, Fail(a) \/ Release(a) PROVE IInv'
    BY <1>0, <1>5, Departures
  <1>6. ASSUME NEW a \in Actors, BeginPurge(a) \/ BeginFinish(a) PROVE IInv'
    BY <1>0, <1>6, Tombstone, Receipt
  <1>7. ASSUME NEW a \in Actors, FinishPurge(a) PROVE IInv'
    BY <1>0, <1>7, Unlinking, IdentityRemoved, ReceiptRemoved DEF FinishPurge, Files
  <1>8. ASSUME NEW a \in Actors, Open(a) PROVE IInv'
    BY <1>0, <1>8, Initializing, OpeningStateLock, Establishing DEF Open
  <1> QED BY <1>1, <1>2, <1>3, <1>4, <1>5, <1>6, <1>7, <1>8 DEF Next

\* An empty root satisfies the inductive invariant.
LEMMA Initial == Init => IInv
  BY DEF Init, IInv, TypeOK, PcLocks, LocksAt, Base, LockedNamed, Unlinked,
         FlocksCompatible, PurgingIdentity, InitProgress, PolledOpen, LeaseStore,
         NoLeasePastTombstone, EstablishedHasLocks, Pcs, Ops, NoFile, Files, NoIdentity,
         LifecyclePcs, StatePcs, PurgePcs, OpenPcs, Flocking

\* The inductive invariant holds in every reachable state.
LEMMA Invariant == Spec => []IInv
  BY Initial, Inductive, PTL DEF Spec

\* No ordinary lease is held on a tombstone, on another installation or on one
\* whose profiles are not established (locks.go BeginPurge, Lease.check).
THEOREM NoLeasePastTombstoneThm == Spec => []NoLeasePastTombstone
  <1>1. IInv => NoLeasePastTombstone
    BY DEF IInv
  <1> QED BY <1>1, Invariant, PTL

\* An established installation always has its three lock files (storage.go
\* Open, cleanup.go FinishPurge).
THEOREM EstablishedHasLocksThm == Spec => []EstablishedHasLocks
  <1>1. IInv => EstablishedHasLocks
    BY DEF IInv
  <1> QED BY <1>1, Invariant, PTL

\* A purged identity never returns to ordinary use, and no installation begins
\* beside a purge receipt (storage.go:207, cleanup.go FinishPurge).
THEOREM PurgeIsFinalThm == Spec => PurgeIsFinal
  <1> DEFINE A == /\ ident.purging /\ ident'.id # 0 => ident'.id = ident.id /\ ident'.purging
                  /\ ident.id = 0 /\ ident'.id # 0 /\ ~ident'.purging => receipt = 0
  <1>1. IInv /\ [Next]_vars => [A]_vars
    <2> SUFFICES ASSUME IInv, Next PROVE A
      OBVIOUS
    <2>0. ident.purging => ident.id # 0
      BY DEF IInv, PurgingIdentity, NoIdentity
    <2>1. CASE UNCHANGED ident
      BY <2>0, <2>1
    <2>2. ASSUME NEW a \in Actors, BeginPurge(a) PROVE A
      <3>1. /\ ident'.id = Identity.id /\ ident'.purging
            /\ Identity.id # 0
        BY <2>2, IdentityType DEF IInv, BeginPurge, Checked, IdentityFits
      <3>2. ident.purging => ident'.id = ident.id
        BY <2>0, <3>1 DEF Identity
      <3> QED BY <3>1, <3>2
    <2>3. ASSUME NEW a \in Actors, RemoveIdentity(a) PROVE A
      BY <2>3 DEF RemoveIdentity, NoIdentity
    <2>4. ASSUME NEW a \in Actors, OpenIdentity(a) PROVE A
      <3>1. receipt = 0
        BY <2>4 DEF IInv, InitProgress, OpenIdentity
      <3> QED BY <2>0, <2>4, <3>1 DEF OpenIdentity
    <2>5. ASSUME NEW a \in Actors, Establish(a) PROVE A
      BY <2>0, <2>5 DEF IInv, TypeOK, Establish
    <2> QED BY <2>1, <2>2, <2>3, <2>4, <2>5
         DEF Next, diskVars, OpenExisting, CloseStore, BeginOrdinary, BeginClean, BeginOpen,
             Acquire, EnterLifecycle, EnterState, OpenLockFile, Flock, HoldLifecycle, GrantLease,
             BeginCleanup, Fail, Abandon, Release, BeginFinish, FinishPurge, RemoveLock,
             RemoveReceipt, Open, NoReceipt, OpenStateLock, Crash
  <1> QED BY Invariant, <1>1, PTL DEF Spec, PurgeIsFinal

\* A lease that is granted meets no live lease it conflicts with, even one
\* whose lock files are already unlinked.
LEMMA GrantMeets ==
    ASSUME IInv, NEW a \in Actors, GrantLease(a)
    PROVE  /\ ~Live(a)
           /\ ExclusiveLeases = {}
           /\ op[a] # "read" => SharedLeases = {}
  <1>1. pc[a] = "check" /\ Checked(a) /\ op[a] \in {"read", "write", "clean"}
    BY DEF IInv, GrantLease, PcLocks, LocksAt, StatePcs, TypeOK, Ops
  <1>2. "state" \in locked[a] /\ (op[a] = "clean" => "lifecycle" \in locked[a])
    BY <1>1 DEF IInv, PcLocks, LocksAt, Base
  <1>3. ASSUME NEW b \in Actors, Live(b), op[a] # "read" \/ op[b] # "read"
        PROVE  FALSE
    <2>0. b # a /\ pc[b] \in {"held"} \cup (PurgePcs \ {"rm-receipt"})
      BY <1>1, <1>3 DEF Live, PurgePcs
    <2>1. CASE pc[b] = "held"
      <3>1. "state" \in locked[b]
        BY <2>1 DEF IInv, PcLocks, LocksAt
      <3> QED BY <1>1, <1>2, <1>3, <2>0, <2>1, <3>1, LiveExclusion
    <2>2. CASE pc[b] \in PurgePcs \ {"rm-receipt"}
      <3>1. "lifecycle" \in locked[b] /\ (ident.id = 0 \/ ident.purging)
        BY <2>2 DEF IInv, PcLocks, LocksAt, Files, PurgingIdentity
      <3>2. CASE op[a] = "clean"
        BY <1>1, <1>2, <2>0, <2>2, <3>1, <3>2, LifecycleOnce
      <3>3. CASE op[a] # "clean"
        <4>1. Identity.id # 0 /\ ~Identity.purging
          BY <1>1, <3>3 DEF Checked, IdentityFits
        <4> QED BY <3>1, <4>1 DEF Identity
      <3> QED BY <3>2, <3>3
    <2> QED BY <2>0, <2>1, <2>2
  <1> QED BY <1>1, <1>3 DEF Live, SharedLeases, ExclusiveLeases, PurgePcs

\* Every other step only ends leases.
LEMMA LeasesEnd ==
    ASSUME IInv, Next, \A a \in Actors : ~GrantLease(a)
    PROVE  \A b \in Actors : Live(b)' => Live(b) /\ op'[b] = op[b]
  <1>0. TypeOK
    BY DEF IInv
  <1>1. CASE UNCHANGED <<pc, op>>
    BY <1>1 DEF Live
  <1>2. ASSUME NEW a \in Actors,
               \A b \in Actors \ {a} : pc'[b] = pc[b] /\ op'[b] = op[b],
               \/ ~Live(a)'
               \/ Live(a) /\ op'[a] = op[a]
        PROVE  \A b \in Actors : Live(b)' => Live(b) /\ op'[b] = op[b]
    BY <1>2 DEF Live
  <1>3. ASSUME NEW p \in Processes, Crash(p)
        PROVE  \A b \in Actors : Live(b)' => Live(b) /\ op'[b] = op[b]
    BY <1>3 DEF Crash, Live, PurgePcs
  <1>4. ASSUME NEW a \in Actors,
               \/ OpenExisting(a) \/ CloseStore(a) \/ BeginPurge(a)
        PROVE  UNCHANGED <<pc, op>>
    BY <1>4 DEF OpenExisting, CloseStore, BeginPurge, actorVars
  <1>5. ASSUME NEW a \in Actors,
               \/ \E k \in {"read", "write"} : BeginOrdinary(a, k)
               \/ BeginClean(a) \/ BeginOpen(a)
               \/ EnterLifecycle(a) \/ EnterState(a) \/ HoldLifecycle(a) \/ BeginCleanup(a)
               \/ NoReceipt(a) \/ OpenIdentity(a)
               \/ OpenStateLock(a, "gate", "init-gate", "init-state")
               \/ OpenStateLock(a, "state", "init-state", "init-established")
        PROVE  ~Live(a)' /\ \A b \in Actors \ {a} : pc'[b] = pc[b] /\ op'[b] = op[b]
    BY <1>0, <1>5 DEF TypeOK, Live, PurgePcs, BeginOrdinary, BeginClean, BeginOpen, EnterLifecycle,
                      EnterState, HoldLifecycle, BeginCleanup, NoReceipt, OpenIdentity, OpenStateLock
  <1>6. ASSUME NEW a \in Actors, NEW f \in Files, OpenLockFile(a, f) \/ Flock(a, f)
        PROVE  ~Live(a)' /\ \A b \in Actors \ {a} : pc'[b] = pc[b] /\ op'[b] = op[b]
    BY <1>0, <1>6 DEF TypeOK, Live, PurgePcs, OpenLockFile, Flock, Flocking, AfterFlock, Files
  <1>7. ASSUME NEW a \in Actors,
               Fail(a) \/ Release(a) \/ RemoveReceipt(a) \/ Establish(a)
        PROVE  ~Live(a)' /\ \A b \in Actors \ {a} : pc'[b] = pc[b] /\ op'[b] = op[b]
    <2>1. Leave(a) \/ LeaveState(a)
      BY <1>7 DEF Fail, Abandon, Release, RemoveReceipt, Establish
    <2> QED BY <1>0, <2>1 DEF TypeOK, Leave, LeaveState, Live, PurgePcs
  <1>8. ASSUME NEW a \in Actors,
               \/ BeginFinish(a) \/ RemoveIdentity(a)
               \/ RemoveLock(a, "state", "rm-state", "rm-gate")
               \/ RemoveLock(a, "gate", "rm-gate", "rm-identity")
               \/ RemoveLock(a, "lifecycle", "rm-lifecycle", "rm-receipt")
        PROVE  /\ Live(a) /\ op'[a] = op[a]
               /\ \A b \in Actors \ {a} : pc'[b] = pc[b] /\ op'[b] = op[b]
    BY <1>0, <1>8 DEF TypeOK, Live, PurgePcs, BeginFinish, RemoveIdentity, RemoveLock
  <1> QED BY <1>1, <1>2, <1>3, <1>4, <1>5, <1>6, <1>7, <1>8
           DEF Next, Acquire, FinishPurge, Open

\* The leases of all processes together are one reader-writer lock (locks.go
\* acquire, lifecycle.go Lifecycle, cleanup.go CleanupLease).
THEOREM LeasesExcludeThm == Spec => LeasesExclude
  <1>1. Init => RW!Init
    BY DEF Init, RW!Init, SharedLeases, ExclusiveLeases, Live, PurgePcs
  <1>2. IInv /\ [Next]_vars => [RW!Next]_(RW!vars)
    <2> SUFFICES ASSUME IInv, [Next]_vars PROVE [RW!Next]_(RW!vars)
      OBVIOUS
    <2>1. CASE UNCHANGED vars
      BY <2>1 DEF vars, RW!vars, SharedLeases, ExclusiveLeases, Live
    <2>2. ASSUME NEW a \in Actors, GrantLease(a) PROVE RW!Next
      <3>1. /\ op' = op /\ Live(a)' /\ \A b \in Actors \ {a} : Live(b)' = Live(b)
        BY <2>2 DEF IInv, TypeOK, GrantLease, Live
      <3>2. CASE op[a] = "read"
        <4>1. /\ ExclusiveLeases = {} /\ ExclusiveLeases' = {}
              /\ a \notin SharedLeases /\ SharedLeases' = SharedLeases \cup {a}
          BY <2>2, <3>1, <3>2, GrantMeets DEF SharedLeases, ExclusiveLeases
        <4> QED BY <4>1 DEF RW!Next, RW!AcquireShared
      <3>3. CASE op[a] # "read"
        <4>1. /\ SharedLeases = {} /\ ExclusiveLeases = {}
              /\ SharedLeases' = {} /\ ExclusiveLeases' = {a}
          BY <2>2, <3>1, <3>3, GrantMeets DEF SharedLeases, ExclusiveLeases
        <4> QED BY <4>1 DEF RW!Next, RW!AcquireExclusive
      <3> QED BY <3>2, <3>3
    <2>3. ASSUME Next, \A a \in Actors : ~GrantLease(a) PROVE [RW!Next]_(RW!vars)
      <3> DEFINE S == {b \in Actors : Live(b) /\ ~Live(b)'}
      <3>1. \A b \in Actors : Live(b)' => Live(b) /\ op'[b] = op[b]
        BY <2>3, LeasesEnd
      <3>2. SharedLeases' = SharedLeases \ S /\ ExclusiveLeases' = ExclusiveLeases \ S
        BY <3>1 DEF SharedLeases, ExclusiveLeases
      <3>3. S \in SUBSET Actors /\ S \subseteq SharedLeases \cup ExclusiveLeases
        BY DEF SharedLeases, ExclusiveLeases
      <3> HIDE DEF S
      <3>4. CASE S = {}
        BY <3>2, <3>4 DEF RW!vars
      <3>5. CASE S # {}
        BY <3>2, <3>3, <3>5 DEF RW!Next, RW!Leave
      <3> QED BY <3>4, <3>5
    <2> QED BY <2>1, <2>2, <2>3
  <1> QED BY Invariant, <1>1, <1>2, PTL DEF Spec, LeasesExclude, RW!Spec

----------------------------------------------------------------------------
(* Nobody waits in a circle *)

\* Where an actor waits, and for what.
LEMMA WaitingAt ==
    ASSUME IInv, NEW a \in Actors, Blocked(a)
    PROVE  \/ pc[a] = "state-flock" /\ ~FlockFree(a, "state")
           \/ pc[a] = "gate-flock" /\ ~FlockFree(a, "gate")
           \/ pc[a] = "state-queue" /\ ~StateFree(a)
           \/ pc[a] = "lifecycle-flock" /\ ~FlockFree(a, "lifecycle")
           \/ pc[a] = "lifecycle-queue" /\ ~LifecycleFree(a)
  BY DEF Blocked, Flocking, Files

\* Where a flock of the state or of the gate is held.
LEMMA HeldAt ==
    ASSUME IInv, NEW a \in Actors
    PROVE  /\ "state" \in locked[a] => pc[a] \in {"check", "held"} \cup PurgePcs
           /\ "gate" \in locked[a] => pc[a] \in {"state-open", "state-flock", "check", "held"} \cup PurgePcs
  <1>1. LocksAt(a) /\ pc[a] \in Pcs
    BY DEF IInv, PcLocks, TypeOK
  <1>2. "state" \notin Base(a) /\ "gate" \notin Base(a)
    BY DEF Base
  <1>3. CASE pc[a] \in {"idle", "lifecycle-queue", "lifecycle-open", "lifecycle-flock"}
    BY <1>1, <1>3 DEF LocksAt
  <1>4. CASE pc[a] \in {"lifecycle-check", "lifecycle"} \cup OpenPcs
    BY <1>1, <1>4 DEF LocksAt
  <1>5. CASE pc[a] \in {"state-queue", "gate-open", "gate-flock"}
    BY <1>1, <1>2, <1>5 DEF LocksAt
  <1>6. CASE pc[a] \in {"state-open", "state-flock"}
    BY <1>1, <1>2, <1>6 DEF LocksAt
  <1>7. pc[a] \in {"idle", "lifecycle-queue", "lifecycle-open", "lifecycle-flock", "lifecycle-check",
                   "lifecycle", "state-queue", "gate-open", "gate-flock", "state-open", "state-flock",
                   "check", "held"} \cup OpenPcs \cup PurgePcs
    BY <1>1 DEF Pcs, LifecyclePcs, StatePcs
  <1> QED BY <1>3, <1>4, <1>5, <1>6, <1>7

\* The locks are taken in the order lifecycle, gate, state, each after the
\* queue of its process, so one of those who wait waits for one who does not
\* (lifecycle.go:19, locks.go:200).
THEOREM NoStandoffThm == Spec => []NoStandoff
  <1>1. IInv => NoStandoff
    <2> SUFFICES ASSUME IInv, NEW a \in Actors, Blocked(a),
                        \A b \in Actors : pc[b] # "idle" => Blocked(b)
                 PROVE  FALSE
      BY DEF NoStandoff
    <2>0. \A b \in Actors : LocksAt(b) /\ pc[b] \in Pcs
      BY DEF IInv, PcLocks, TypeOK
    <2>1. ASSUME NEW b \in Actors, pc[b] = "state-flock" PROVE FALSE
      <3>1. ~FlockFree(b, "state")
        BY <2>1, WaitingAt
      <3>2. PICK c \in Actors : "state" \in locked[c]
        BY <3>1 DEF FlockFree
      <3>3. pc[c] \in {"check", "held"} \cup PurgePcs
        BY <3>2, HeldAt
      <3> QED
        BY <3>3, WaitingAt DEF PurgePcs
    <2>2. ASSUME NEW b \in Actors, pc[b] = "gate-flock" PROVE FALSE
      <3>1. ~FlockFree(b, "gate")
        BY <2>2, WaitingAt
      <3>2. PICK c \in Actors : "gate" \in locked[c]
        BY <3>1 DEF FlockFree
      <3>3. pc[c] \in {"state-open", "state-flock", "check", "held"} \cup PurgePcs
        BY <3>2, HeldAt
      <3> QED
        BY <2>1, <3>3, WaitingAt DEF PurgePcs
    <2>3. ASSUME NEW b \in Actors, InState(b) PROVE FALSE
      BY <2>1, <2>2, <2>3, WaitingAt DEF InState, StatePcs, PurgePcs
    <2>4. ASSUME NEW b \in Actors, pc[b] = "state-queue" PROVE FALSE
      <3>1. ~StateFree(b)
        BY <2>4, WaitingAt
      <3>2. PICK c \in Peers(b) : ~Exclusive(b) /\ Exclusive(c) /\ pc[c] = "state-queue"
        BY <2>3, <3>1 DEF StateFree, Peers
      <3>3. c \in Actors /\ ~StateFree(c)
        BY <3>2, WaitingAt DEF Peers
      <3> QED
        BY <2>3, <3>2, <3>3 DEF StateFree, Peers
    <2>5. ASSUME NEW b \in Actors, pc[b] = "lifecycle-flock" PROVE FALSE
      <3>1. ~FlockFree(b, "lifecycle")
        BY <2>5, WaitingAt
      <3>2. PICK c \in Actors : "lifecycle" \in locked[c]
        BY <3>1 DEF FlockFree
      <3>3. pc[c] \notin {"idle", "lifecycle-queue", "lifecycle-flock"}
        BY <2>0, <3>2 DEF LocksAt
      <3>4. Blocked(c)
        BY <3>3
      <3>5. pc[c] \in {"state-flock", "gate-flock", "state-queue", "lifecycle-flock", "lifecycle-queue"}
        BY <3>4, WaitingAt
      <3> QED
        BY <2>1, <2>2, <2>4, <3>3, <3>5
    <2>6. ASSUME NEW b \in Actors, pc[b] = "lifecycle-queue" PROVE FALSE
      <3>1. ~LifecycleFree(b)
        BY <2>6, WaitingAt
      <3>2. PICK c \in Actors : InLifecycle(c)
        BY <3>1 DEF LifecycleFree, Peers
      <3>3. Blocked(c) /\ pc[c] # "lifecycle-queue"
        BY <3>2 DEF InLifecycle
      <3>4. pc[c] \in {"state-flock", "gate-flock", "state-queue", "lifecycle-flock"}
        BY <3>3, WaitingAt
      <3> QED
        BY <2>1, <2>2, <2>4, <2>5, <3>4
    <2> QED
      BY <2>1, <2>2, <2>4, <2>5, <2>6, WaitingAt
  <1> QED BY <1>1, Invariant, PTL
=============================================================================
