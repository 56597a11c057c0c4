------------------------- MODULE KeysetVault_proofs -------------------------
(***************************************************************************)
(* What the vault guarantees for any number of callers, connections,       *)
(* keysets and reservations: the OS store never holds a keyset the row     *)
(* does not name, a ready keyset is never replaced nor its accounting      *)
(* reset, nothing is encrypted unreserved, every credential can be read,   *)
(* and a purge leaves no keyset behind.                                    *)
(*                                                                         *)
(* The row, the item and a caller's copies of both are written by          *)
(* different transactions, so none of these is inductive alone.  The       *)
(* strengthening says that one caller is past the gate and one inside the  *)
(* write lease (Exclusive), that what the caller past the gate holds still *)
(* agrees with the row (MetaFits), that the one inside the write lease has *)
(* a reservation nobody has used (Encrypting), that an abandoned or        *)
(* awaited creation is of the keyset its caller saved (NativeServes), and  *)
(* that the uninstaller removes the database only while the service is     *)
(* down (Down), which is why no caller's copy outlives the row.            *)
(***************************************************************************)
EXTENDS KeysetVault, FiniteSetTheorems, TLAPS

\* What a caller does, and that it does it only while the service runs.
ClientAt(c) ==
    /\ pc[c] = "idle" => job[c] = NoJob /\ raw[c] = 0
    /\ pc[c] # "idle" => up /\ job[c] \in Jobs
    /\ pc[c] \in {"lifecycle", "generate", "create", "creating"} => Creates(c)
    /\ pc[c] = "write" => raw[c] = 0
    /\ pc[c] = "write" \/ Writing(c) => job[c].does \in {"save", "drop"}
    /\ pc[c] \in {"reserve", "encrypt"} => job[c].does = "save"
    /\ pc[c] = "publish" /\ job[c].does = "drop" => raw[c] = 0

\* Past the gate, a caller's copies agree with the row, and one about to generate
\* a keyset replaces none.
MetaFits(c) ==
    /\ pc[c] \in {"load", "generate", "create", "creating", "parse", "publish-key"} =>
         /\ meta[c].phase = keyset.phase /\ meta[c].key = keyset.key
         /\ keyset.phase # "ready" => meta[c] = keyset
    /\ pc[c] \in {"load", "create", "creating", "parse", "publish-key"} => keyset.phase # ""
    /\ pc[c] \in {"create", "creating"} => keyset.phase = "intent"
    /\ pc[c] = "generate" =>
         keyset.phase # "ready" /\ keyset.reserved = 0 /\ item = 0 /\ native = Idle
    /\ pc[c] \in {"create", "creating", "parse", "publish-key"} => raw[c] = keyset.key

\* One caller past the gate of Unlock, one inside the write lease of Apply.
Exclusive ==
    /\ \A c, d \in Clients : c # d => ~(Unlocking(c) /\ Unlocking(d))
    /\ \A c, d \in Clients : c # d => ~(Writing(c) /\ Writing(d))

\* A creation that is not abandoned is awaited by the caller whose keyset it makes.
NativeServes ==
    /\ native.key = 0 => native = Idle
    /\ native.by # Nobody =>
         native.by \in Clients /\ pc[native.by] = "creating" /\ raw[native.by] = native.key

\* The uninstaller gets to the keyset and the database only after the service ended.
Down ==
    /\ ~up => native = Idle
    /\ purging => ~up
    /\ upc \in {"purge", "delete", "forget"} => ~up
    /\ upc \in {"delete", "forget"} => purging
    /\ upc = "forget" => item = 0
    /\ ~db => purging /\ keyset = NoKeyset

\* The row names a keyset that was generated; a later one has encrypted nothing.
Numbered ==
    /\ keyset.phase = "" => keyset = NoKeyset
    /\ keyset.phase # "" => keyset.key \in 1..keys
    /\ keys <= MaxKeys
    /\ keyset.reserved <= MaxReservations
    /\ \A k \in 1..MaxKeys : k > keys => used[k] = 0

\* Between its reservation and its publication a caller uses the row's keyset,
\* and before it encrypts there is a reservation left for it.
Encrypting(c) ==
    /\ pc[c] = "encrypt" \/ (pc[c] = "publish" /\ job[c].does = "save") =>
         keyset.phase = "ready" /\ raw[c] = keyset.key
    /\ pc[c] = "encrypt" => used[keyset.key] < keyset.reserved

\* The connections with credentials.
Saved == {id \in Connections : bundle[id] # 0}

\* Each of them was encrypted by the row's keyset, and none without an encryption
\* of its own; the one about to be published has one too.
Counted ==
    /\ IsFiniteSet(Saved)
    /\ Saved # {} =>
         /\ keyset.phase = "ready"
         /\ \A id \in Saved : bundle[id] = keyset.key
         /\ Cardinality(Saved) <= used[keyset.key]
    /\ \A c \in Clients : pc[c] = "publish" /\ job[c].does = "save" =>
         Cardinality(Saved) < used[keyset.key]

\* The inductive invariant.
IInv ==
    /\ TypeOK
    /\ \A c \in Clients : ClientAt(c) /\ MetaFits(c) /\ Encrypting(c)
    /\ Exclusive /\ NativeServes /\ Down /\ Numbered /\ Counted
    /\ RetryFindsItem /\ PurgeLeavesNoKey /\ UsageReserved

\* The kinds of operation, and that a change names a connection.
LEMMA JobFacts ==
    ASSUME NEW j \in Jobs
    PROVE  /\ j.does \in {"open", "create", "save", "drop"}
           /\ j.does \in {"save", "drop"} => j.id \in Connections
           /\ j # NoJob
  BY DEF Jobs, NoJob

\* The fields of a row.
LEMMA KeysetFacts ==
    ASSUME NEW k \in Keysets
    PROVE  k.phase \in {"", "intent", "ready"} /\ k.key \in Nat /\ k.reserved \in Nat
  BY DEF Keysets

\* A row with another count is a row.
LEMMA ReservedFacts ==
    ASSUME NEW k \in Keysets, NEW n \in Nat
    PROVE  [k EXCEPT !.reserved = n] \in Keysets
  BY DEF Keysets

\* The first state: no keyset, no credential, no service.
LEMMA InitInv == Init => IInv
<1> SUFFICES ASSUME Init PROVE IInv
  OBVIOUS
<1> USE NobodyAssumption, BoundsAssumption DEF NobodyAssumption, BoundsAssumption, Init
<1>1. TypeOK
  BY DEF TypeOK, Pcs, Keysets, NoKeyset, Idle
<1>2. Counted
  <2>1. Saved = {}
    BY DEF Saved
  <2> QED
    BY <2>1, FS_EmptySet DEF Counted
<1>3. ASSUME NEW c \in Clients PROVE ClientAt(c) /\ MetaFits(c) /\ Encrypting(c)
  BY DEF ClientAt, MetaFits, Encrypting, Writing
<1>4. Exclusive /\ NativeServes /\ Down
  BY DEF Exclusive, NativeServes, Down, Unlocking, Writing, Idle
<1>5. Numbered /\ RetryFindsItem /\ PurgeLeavesNoKey /\ UsageReserved
  <2>1. Numbered
    <3>1. keyset.phase = "" /\ keyset = NoKeyset
      BY DEF NoKeyset
    <3>5. keyset.reserved = 0
      BY DEF NoKeyset
    <3>2. keyset.reserved <= MaxReservations
      <4>1. MaxReservations \in Nat
        OBVIOUS
      <4> HIDE DEF Init, BoundsAssumption
      <4> QED
        BY <3>5, <4>1
    <3>3. keys <= MaxKeys
      OBVIOUS
    <3>4. \A k \in 1..MaxKeys : used[k] = 0
      OBVIOUS
    <3> HIDE DEF Init
    <3> QED
      BY <3>1, <3>2, <3>3, <3>4 DEF Numbered
  <2>2. RetryFindsItem
    BY DEF RetryFindsItem, Idle
  <2>3. PurgeLeavesNoKey
    BY DEF PurgeLeavesNoKey
  <2>4. UsageReserved
    BY DEF UsageReserved
  <2> QED
    BY <2>1, <2>2, <2>3, <2>4
<1> QED
  BY <1>1, <1>2, <1>3, <1>4, <1>5 DEF IInv

\* Every step keeps the types.
LEMMA TypeStep == TypeOK /\ [Next]_vars => TypeOK'
<1> SUFFICES ASSUME TypeOK, [Next]_vars PROVE TypeOK'
  OBVIOUS
<1> USE NobodyAssumption, BoundsAssumption
        DEF NobodyAssumption, BoundsAssumption, TypeOK, clientVars, serviceVars, diskVars, countVars
<1>1. NoKeyset \in Keysets /\ NoJob.does = "none"
      /\ Idle \in [key : Nat, by : Clients \cup {Nobody}]
  BY DEF NoKeyset, NoJob, Keysets, Idle
<1>2. ASSUME NEW c \in Clients, Return(c)
      PROVE  /\ pc' \in [Clients -> Pcs] /\ job' \in [Clients -> Jobs \cup {NoJob}]
             /\ expected' \in [Clients -> Nat] /\ meta' \in [Clients -> Keysets]
             /\ raw' \in [Clients -> Nat]
  <2>1. pc' \in [Clients -> Pcs]
    BY <1>2 DEF Return, Pcs
  <2>2. job' \in [Clients -> Jobs \cup {NoJob}]
    BY <1>2 DEF Return
  <2>3. meta' \in [Clients -> Keysets]
    BY <1>1, <1>2 DEF Return
  <2>4. expected' \in [Clients -> Nat] /\ raw' \in [Clients -> Nat]
    BY <1>2 DEF Return
  <2> QED
    BY <2>1, <2>2, <2>3, <2>4
<1>3. ASSUME NEW c \in Clients, Unlocked(c)
      PROVE  /\ pc' \in [Clients -> Pcs] /\ job' \in [Clients -> Jobs \cup {NoJob}]
             /\ expected' \in [Clients -> Nat] /\ meta' \in [Clients -> Keysets]
             /\ raw' \in [Clients -> Nat]
  <2>1. CASE job[c].does = "save"
    <3>1. pc' \in [Clients -> Pcs]
      BY <1>3, <2>1 DEF Unlocked, Pcs
    <3>3. raw' \in [Clients -> Nat]
      BY <1>3, <2>1 DEF Unlocked
    <3>2. meta' \in [Clients -> Keysets]
      BY <1>1, <1>3, <2>1 DEF Unlocked
    <3> QED
      BY <1>3, <2>1, <3>1, <3>2, <3>3 DEF Unlocked
  <2>2. CASE job[c].does # "save"
    BY <1>2, <1>3, <2>2 DEF Unlocked
  <2> QED
    BY <2>1, <2>2
<1>4. ASSUME Exit
      PROVE  /\ pc' \in [Clients -> Pcs] /\ job' \in [Clients -> Jobs \cup {NoJob}]
             /\ expected' \in [Clients -> Nat] /\ meta' \in [Clients -> Keysets]
             /\ raw' \in [Clients -> Nat] /\ up' \in BOOLEAN /\ closed' \in BOOLEAN
             /\ primitive' \in Nat /\ item' \in Nat
             /\ native' \in [key : Nat, by : Clients \cup {Nobody}]
  BY <1>1, <1>4 DEF Exit, Pcs
<1>5. ASSUME NEW c \in Clients, NEW j \in Jobs, Begin(c, j) PROVE TypeOK'
  BY <1>5 DEF Begin, Pcs
<1>6. ASSUME NEW c \in Clients, Fail(c) PROVE TypeOK'
  BY <1>2, <1>6 DEF Fail
<1>7. ASSUME NEW c \in Clients, EnterGate(c) PROVE TypeOK'
  BY <1>3, <1>7 DEF EnterGate, Pcs
<1>8. ASSUME NEW c \in Clients, TakeLifecycle(c) PROVE TypeOK'
  BY <1>8 DEF TakeLifecycle, Pcs
<1>9. ASSUME NEW c \in Clients, ReadKeyset(c) PROVE TypeOK'
  BY <1>3, <1>9 DEF ReadKeyset, Pcs
<1>10. ASSUME NEW c \in Clients, Load(c) PROVE TypeOK'
  <2>1. pc' \in [Clients -> Pcs]
    BY <1>10 DEF Load, Pcs
  <2>2. raw' \in [Clients -> Nat]
    BY <1>10 DEF Load
  <2> QED
    BY <1>10, <2>1, <2>2 DEF Load
<1>11. ASSUME NEW c \in Clients, SaveIntent(c) PROVE TypeOK'
  <2>1. pc' \in [Clients -> Pcs] /\ keys' \in Nat
    BY <1>11 DEF SaveIntent, Pcs
  <2>2. raw' \in [Clients -> Nat]
    BY <1>11, <2>1 DEF SaveIntent
  <2>3. [phase |-> "intent", key |-> keys', reserved |-> 0] \in Keysets
    BY <2>1 DEF Keysets
  <2>4. meta' \in [Clients -> Keysets] /\ keyset' \in Keysets
    BY <1>11, <2>3 DEF SaveIntent
  <2> QED
    BY <1>11, <2>1, <2>2, <2>4 DEF SaveIntent
<1>12. ASSUME NEW c \in Clients, CallCreate(c) PROVE TypeOK'
  BY <1>12 DEF CallCreate, Pcs
<1>13. ASSUME NEW c \in Clients, MarkReady(c) PROVE TypeOK'
  <2>1. pc' \in [Clients -> Pcs]
    BY <1>13 DEF MarkReady, Pcs
  <2>2. [meta[c] EXCEPT !.phase = "ready"] \in Keysets
    BY DEF Keysets
  <2>3. meta' \in [Clients -> Keysets] /\ keyset' \in Keysets
    BY <1>13, <2>2 DEF MarkReady
  <2> QED
    BY <1>13, <2>1, <2>3 DEF MarkReady
<1>14. ASSUME NEW c \in Clients, PublishPrimitive(c) PROVE TypeOK'
  BY <1>3, <1>14 DEF PublishPrimitive
<1>15. ASSUME NEW c \in Clients, TakeWriteLease(c) PROVE TypeOK'
  BY <1>15 DEF TakeWriteLease, Pcs
<1>16. ASSUME NEW c \in Clients, Reserve(c) PROVE TypeOK'
  <2>1. pc' \in [Clients -> Pcs] /\ raw' \in [Clients -> Nat]
    BY <1>16 DEF Reserve, Pcs
  <2>2. keyset' \in Keysets
    <3>1. keyset.reserved \in Nat
      BY KeysetFacts
    <3>2. keyset.reserved + 1 \in Nat
      BY <3>1
    <3> QED
      BY <1>16, <3>2, ReservedFacts DEF Reserve
  <2> QED
    BY <1>16, <2>1, <2>2 DEF Reserve
<1>17. ASSUME NEW c \in Clients, Encrypt(c) PROVE TypeOK'
  <2>1. pc' \in [Clients -> Pcs]
    BY <1>17 DEF Encrypt, Pcs
  <2>2. used' \in [1..MaxKeys -> Nat]
    <3>1. used' = [used EXCEPT ![raw[c]] = @ + 1]
      BY <1>17 DEF Encrypt
    <3>2. used \in [1..MaxKeys -> Nat]
      OBVIOUS
    <3> HIDE DEF TypeOK
    <3>3. \A k \in 1..MaxKeys : used'[k] \in Nat
      BY <3>1, <3>2
    <3> QED
      BY <3>1, <3>2, <3>3
  <2> QED
    BY <1>17, <2>1, <2>2 DEF Encrypt
<1>18. ASSUME NEW c \in Clients, Publish(c) PROVE TypeOK'
  <2>1. bundle' \in [Connections -> Nat]
    BY <1>18 DEF Publish
  <2>2. revision' \in Nat
    BY <1>18 DEF Publish
  <2> QED
    BY <1>2, <1>18, <2>1, <2>2 DEF Publish
<1>19. CASE NativeCreate
  <2>1. native \in [key : Nat, by : Clients \cup {Nobody}] /\ item' \in Nat
    BY <1>19 DEF NativeCreate
  <2>2. CASE native.by = Nobody
    BY <1>1, <1>19, <2>1, <2>2 DEF NativeCreate
  <2>3. CASE native.by \in Clients
    BY <1>1, <1>2, <1>19, <2>1, <2>3 DEF NativeCreate, Pcs
  <2> QED
    BY <2>1, <2>2, <2>3
<1>20. CASE NativeRefuse \/ ItemLost
  BY <1>1, <1>20 DEF NativeRefuse, ItemLost
<1>26. CASE StartService
  BY <1>26 DEF StartService
<1>27. CASE Close
  BY <1>27 DEF Close
<1>21. CASE Crash
  BY <1>4, <1>21 DEF Crash
<1>22. CASE StopService
  BY <1>4, <1>22 DEF StopService
<1>23. CASE BeginUninstall \/ DeleteKey \/ FailUninstall
  BY <1>23 DEF BeginUninstall, DeleteKey, FailUninstall
<1>28. CASE BeginPurge
  BY <1>28 DEF BeginPurge
<1>24. CASE RemoveDatabase
  BY <1>1, <1>24 DEF RemoveDatabase
<1>25. CASE UNCHANGED vars
  BY <1>25 DEF vars
<1> QED
  BY <1>5, <1>6, <1>7, <1>8, <1>9, <1>10, <1>11, <1>12, <1>13, <1>14, <1>15, <1>16,
     <1>17, <1>18, <1>19, <1>20, <1>21, <1>22, <1>23, <1>24, <1>25, <1>26, <1>27, <1>28
     DEF Next, Unlock, Apply, Uninstall


----------------------------------------------------------------------------
(* Steps, client by client *)

Same(c) == pc'[c] = pc[c] /\ job'[c] = job[c] /\ meta'[c] = meta[c] /\ raw'[c] = raw[c]

\* The clients other than c stand still.
Only(c) == \A d \in Clients \ {c} : Same(d)

\* c has returned.
Left(c) == pc'[c] = "idle" /\ job'[c] = NoJob /\ raw'[c] = 0

\* An operation that returns leaves the others alone.
LEMMA Returned ==
    ASSUME TypeOK, NEW c \in Clients, Return(c)
    PROVE  Only(c) /\ Left(c)
  BY DEF TypeOK, Return, Only, Left, Same

\* After Unlock an Apply goes on, and any other operation has returned.
LEMMA UnlockedEffect ==
    ASSUME TypeOK, NEW c \in Clients, Unlocked(c)
    PROVE  /\ Only(c)
           /\ \/ Left(c)
              \/ pc'[c] = "write" /\ raw'[c] = 0 /\ job[c].does = "save" /\ job'[c] = job[c]
<1>1. CASE job[c].does = "save"
  BY <1>1 DEF TypeOK, Unlocked, Only, Same
<1>2. CASE job[c].does # "save"
  BY <1>2, Returned DEF Unlocked
<1> QED
  BY <1>1, <1>2

\* With the process every operation and every native call ends.
LEMMA Exited ==
    ASSUME TypeOK, Exit
    PROVE  /\ \A c \in Clients : Left(c)
           /\ ~up' /\ ~closed' /\ primitive' = 0 /\ native' = Idle
           /\ item' = item \/ (item = 0 /\ item' = native.key)
  BY DEF TypeOK, Exit, Left

\* Which steps write what.
Writers ==
    /\ keyset' = keyset \/ RemoveDatabase
         \/ \E c \in Clients : SaveIntent(c) \/ MarkReady(c) \/ Reserve(c)
    /\ keys' = keys \/ \E c \in Clients : SaveIntent(c)
    /\ used' = used \/ \E c \in Clients : Encrypt(c)
    /\ bundle' = bundle \/ RemoveDatabase \/ \E c \in Clients : Publish(c)
    /\ item' = item \/ NativeCreate \/ ItemLost \/ Exit \/ DeleteKey
    /\ native' = native \/ NativeCreate \/ NativeRefuse \/ Exit
         \/ \E c \in Clients : Fail(c) \/ CallCreate(c)
    /\ db' = db \/ RemoveDatabase
    /\ purging' = purging \/ BeginPurge
    /\ up' = up \/ StartService \/ Exit
    /\ upc' = upc \/ Uninstall
    /\ (closed' = closed /\ primitive' = primitive) \/ StartService \/ Close \/ Exit
         \/ \E c \in Clients : PublishPrimitive(c)

\* Every variable but those of the clients is written by the steps listed.
LEMMA StepWriters == [Next]_vars => Writers
<1> SUFFICES ASSUME [Next]_vars PROVE Writers
  OBVIOUS
<1> USE DEF clientVars, serviceVars, diskVars, countVars
<1>1. ASSUME NEW c \in Clients, NEW j \in Jobs, Begin(c, j) PROVE Writers
  BY <1>1 DEF Begin, Writers
<1>2. ASSUME NEW c \in Clients,
             EnterGate(c) \/ TakeLifecycle(c) \/ ReadKeyset(c) \/ Load(c) \/ TakeWriteLease(c)
      PROVE  Writers
  BY <1>2 DEF EnterGate, TakeLifecycle, ReadKeyset, Load, TakeWriteLease, Writers
<1>3. ASSUME NEW c \in Clients, SaveIntent(c) PROVE Writers
  BY <1>3 DEF SaveIntent, Writers
<1>4. ASSUME NEW c \in Clients, CallCreate(c) PROVE Writers
  BY <1>4 DEF CallCreate, Writers
<1>5. ASSUME NEW c \in Clients, MarkReady(c) PROVE Writers
  BY <1>5 DEF MarkReady, Writers
<1>6. ASSUME NEW c \in Clients, PublishPrimitive(c) PROVE Writers
  BY <1>6 DEF PublishPrimitive, Writers
<1>7. ASSUME NEW c \in Clients, Reserve(c) PROVE Writers
  BY <1>7 DEF Reserve, Writers
<1>8. ASSUME NEW c \in Clients, Encrypt(c) PROVE Writers
  BY <1>8 DEF Encrypt, Writers
<1>9. ASSUME NEW c \in Clients, Publish(c) PROVE Writers
  BY <1>9 DEF Publish, Writers
<1>10. ASSUME NEW c \in Clients, Fail(c) PROVE Writers
  BY <1>10 DEF Fail, Writers
<1>11. CASE NativeCreate \/ NativeRefuse \/ ItemLost
  BY <1>11 DEF NativeCreate, NativeRefuse, ItemLost, Writers
<1>12. CASE StartService \/ Close \/ Crash
  BY <1>12 DEF StartService, Close, Crash, Writers
<1>13. CASE Uninstall
  BY <1>13 DEF Uninstall, BeginUninstall, StopService, BeginPurge, DeleteKey, RemoveDatabase,
               FailUninstall, Writers
<1>14. CASE UNCHANGED vars
  BY <1>14 DEF vars, Writers
<1> QED
  BY <1>1, <1>2, <1>3, <1>4, <1>5, <1>6, <1>7, <1>8, <1>9, <1>10, <1>11, <1>12, <1>13, <1>14
     DEF Next, Unlock, Apply

\* The steps of c that leave it in the middle of its operation.
Moves(c) ==
    \/ \E j \in Jobs : Begin(c, j)
    \/ EnterGate(c) \/ TakeLifecycle(c) \/ ReadKeyset(c) \/ Load(c) \/ SaveIntent(c)
    \/ CallCreate(c) \/ MarkReady(c) \/ PublishPrimitive(c)
    \/ TakeWriteLease(c) \/ Reserve(c) \/ Encrypt(c)

\* The store answers c.
Answers(c) ==
    /\ NativeCreate /\ native.by = c
    /\ item' = native.key /\ pc'[c] = "parse"
    /\ job'[c] = job[c] /\ meta'[c] = meta[c] /\ raw'[c] = raw[c]

\* A move is the move of one client, and publishes nothing.
LEMMA MovesOnly ==
    ASSUME TypeOK, NEW c \in Clients, Moves(c)
    PROVE  Only(c) /\ UNCHANGED <<up, upc, db, purging, bundle>>
<1> USE DEF TypeOK, Only, Same, serviceVars, diskVars, countVars
<1>1. ASSUME NEW j \in Jobs, Begin(c, j) PROVE Only(c) /\ UNCHANGED <<up, upc, db, purging, bundle>>
  BY <1>1 DEF Begin
<1>2. CASE EnterGate(c)
  BY <1>2, UnlockedEffect DEF EnterGate
<1>3. CASE ReadKeyset(c)
  BY <1>3, UnlockedEffect DEF ReadKeyset
<1>4. CASE PublishPrimitive(c)
  BY <1>4, UnlockedEffect DEF PublishPrimitive
<1>5. CASE TakeLifecycle(c) \/ Load(c) \/ CallCreate(c) \/ TakeWriteLease(c) \/ Encrypt(c)
  BY <1>5 DEF TakeLifecycle, Load, CallCreate, TakeWriteLease, Encrypt
<1>6. CASE SaveIntent(c)
  BY <1>6 DEF SaveIntent
<1>7. CASE MarkReady(c)
  BY <1>7 DEF MarkReady
<1>8. CASE Reserve(c)
  BY <1>8 DEF Reserve
<1> QED
  BY <1>1, <1>2, <1>3, <1>4, <1>5, <1>6, <1>7, <1>8 DEF Moves

\* What one step does to one client.
LEMMA ClientMoves ==
    ASSUME TypeOK, NativeServes, [Next]_vars, NEW c \in Clients
    PROVE  Same(c) \/ Left(c) \/ Moves(c) \/ Answers(c)
<1> DEFINE Goal == Same(c) \/ Left(c) \/ Moves(c) \/ Answers(c)
<1> SUFFICES Goal
  OBVIOUS
<1>1. ASSUME NEW d \in Clients, Moves(d) PROVE Goal
  BY <1>1, MovesOnly DEF Only
<1>2. ASSUME NEW d \in Clients, Fail(d) \/ Publish(d) PROVE Goal
  BY <1>2, Returned DEF Fail, Publish, Only
<1>3. CASE NativeCreate
  <2>1. CASE native.by = Nobody
    BY <1>3, <2>1 DEF NativeCreate, clientVars, Same
  <2>2. CASE native.by # Nobody /\ item' = native.key
    <3>1. native.by \in Clients /\ pc' = [pc EXCEPT ![native.by] = "parse"]
      BY <1>3, <2>2 DEF NativeCreate, NativeServes
    <3>2. job' = job /\ meta' = meta /\ raw' = raw
      BY <1>3, <2>2 DEF NativeCreate
    <3> QED
      BY <1>3, <2>2, <3>1, <3>2 DEF TypeOK, Same, Answers
  <2>3. CASE native.by # Nobody /\ item' # native.key
    <3>1. native.by \in Clients /\ Return(native.by)
      BY <1>3, <2>3 DEF NativeCreate, NativeServes
    <3> QED
      BY <3>1, Returned DEF Only
  <2> QED
    BY <2>1, <2>2, <2>3
<1>4. CASE Crash \/ StopService
  BY <1>4, Exited DEF Crash, StopService
<1>5. CASE NativeRefuse \/ ItemLost \/ StartService \/ Close \/ BeginUninstall \/ BeginPurge
             \/ DeleteKey \/ RemoveDatabase \/ FailUninstall \/ UNCHANGED vars
  BY <1>5 DEF NativeRefuse, ItemLost, StartService, Close, BeginUninstall, BeginPurge, DeleteKey,
              RemoveDatabase, FailUninstall, vars, clientVars, Same
<1> QED
  BY <1>1, <1>2, <1>3, <1>4, <1>5 DEF Next, Unlock, Apply, Uninstall, Moves

----------------------------------------------------------------------------
(* Each part of the invariant is kept by every step *)

\* Nobody is in the middle of an operation unless the service runs.
LEMMA UpStays ==
    ASSUME IInv, [Next]_vars, NEW c \in Clients, up, ~Left(c)
    PROVE  up'
<1>1. Writers
  BY StepWriters
<1>2. CASE up' = up \/ StartService
  BY <1>2 DEF StartService
<1>3. CASE Exit
  BY <1>3, Exited DEF IInv
<1> QED
  BY <1>1, <1>2, <1>3 DEF Writers

\* A caller is where ClientAt has it after every step.
LEMMA ClientStep ==
    ASSUME IInv, [Next]_vars, NEW c \in Clients
    PROVE  ClientAt(c)'
<1>1. TypeOK /\ NativeServes /\ ClientAt(c) /\ pc[c] \in Pcs /\ job[c] \in Jobs \cup {NoJob}
  BY DEF IInv, TypeOK
<1>2. Same(c) \/ Left(c) \/ Moves(c) \/ Answers(c)
  BY <1>1, ClientMoves
<1>3. NoJob.does = "none"
  BY DEF NoJob
<1>4. CASE Left(c)
  BY <1>4 DEF Left, ClientAt, Writing
<1>5. pc[c] # "idle" /\ ~Left(c) => up'
  BY <1>1, UpStays DEF ClientAt
<1>6. CASE Same(c)
  BY <1>1, <1>4, <1>5, <1>6 DEF Same, ClientAt, Writing, Creates
<1>7. CASE Answers(c)
  <2>1. pc[c] = "creating"
    BY <1>1, <1>7, NobodyAssumption DEF NobodyAssumption, NativeServes, Answers
  <2> QED
    BY <1>1, <1>4, <1>5, <1>7, <2>1 DEF Answers, ClientAt, Writing, Creates
<1>8. CASE Moves(c)
  <2>1. up' = up
    BY <1>1, <1>8, MovesOnly
  <2> USE <1>1, <1>3, <2>1 DEF TypeOK, ClientAt, Writing, Creates
  <2>2. ASSUME NEW j \in Jobs, Begin(c, j) PROVE ClientAt(c)'
    <3>1. j.does \in {"open", "create", "save", "drop"}
      BY JobFacts
    <3> QED
      BY <2>2, <3>1 DEF Begin
  <2>3. ASSUME UNCHANGED up, pc[c] # "idle", Unlocked(c) PROVE ClientAt(c)'
    BY <1>4, <2>3, UnlockedEffect, JobFacts
  <2>4. CASE EnterGate(c)
    BY <2>3, <2>4 DEF EnterGate
  <2>5. CASE ReadKeyset(c)
    BY <2>3, <2>5 DEF ReadKeyset
  <2>6. CASE PublishPrimitive(c)
    BY <2>3, <2>6 DEF PublishPrimitive
  <2>7. CASE TakeLifecycle(c)
    BY <2>7 DEF TakeLifecycle
  <2>8. CASE Load(c)
    BY <2>8 DEF Load
  <2>9. CASE SaveIntent(c)
    BY <2>9 DEF SaveIntent
  <2>10. CASE CallCreate(c)
    BY <2>10 DEF CallCreate
  <2>11. CASE MarkReady(c)
    BY <2>11 DEF MarkReady
  <2>12. CASE TakeWriteLease(c)
    BY <2>12 DEF TakeWriteLease
  <2>13. CASE Reserve(c)
    BY <2>13 DEF Reserve
  <2>14. CASE Encrypt(c)
    BY <2>14 DEF Encrypt
  <2> QED
    BY <1>8, <2>2, <2>4, <2>5, <2>6, <2>7, <2>8, <2>9, <2>10, <2>11, <2>12, <2>13, <2>14
       DEF Moves
<1> QED
  BY <1>2, <1>4, <1>6, <1>7, <1>8

\* Nobody enters the gate or the write lease beside another.
LEMMA ExclusiveStep ==
    ASSUME IInv, [Next]_vars
    PROVE  Exclusive'
<1> SUFFICES ASSUME NEW c \in Clients, NEW d \in Clients, c # d
             PROVE  ~(Unlocking(c) /\ Unlocking(d))' /\ ~(Writing(c) /\ Writing(d))'
  BY DEF Exclusive
<1>1. TypeOK /\ NativeServes /\ Exclusive
  BY DEF IInv
\* Who is past the gate, or inside the write lease, was there or has just entered.
<1>2. ASSUME NEW e \in Clients, NEW f \in Clients, e # f
      PROVE  /\ Unlocking(e)' => Unlocking(e) \/ (EnterGate(e) /\ ~Unlocking(f) /\ Same(f))
             /\ Writing(e)' => Writing(e) \/ (TakeWriteLease(e) /\ ~Writing(f) /\ Same(f))
  <2>1. Same(e) \/ Left(e) \/ Moves(e) \/ Answers(e)
    BY <1>1, ClientMoves
  <2>2. CASE Same(e) \/ Left(e)
    BY <2>2 DEF Same, Left, Unlocking, Writing
  <2>3. CASE Answers(e)
    <3>1. pc[e] = "creating"
      BY <1>1, <2>3, NobodyAssumption DEF NobodyAssumption, NativeServes, Answers
    <3> QED
      BY <2>3, <3>1 DEF Answers, Unlocking, Writing
  <2>4. CASE Moves(e)
    <3>1. Only(e) /\ Same(f)
      BY <1>1, <1>2, <2>4, MovesOnly DEF Only
    <3> USE <1>1 DEF TypeOK, Unlocking, Writing
    <3>2. CASE EnterGate(e)
      <4>1. ~Unlocking(f)
        BY <1>2, <3>2 DEF EnterGate, GateFree
      <4>2. pc[e] = "gate" /\ (Unlocked(e) \/ pc'[e] \in {"lifecycle", "read"})
        BY <3>2 DEF EnterGate
      <4>3. ~Writing(e)'
        BY <4>2, UnlockedEffect DEF Left
      <4> QED
        BY <3>1, <3>2, <4>1, <4>3
    <3>3. CASE TakeWriteLease(e)
      <4>1. ~Writing(f)
        BY <3>3 DEF TakeWriteLease, Lease, NoWriter
      <4> QED
        BY <3>1, <3>3, <4>1 DEF TakeWriteLease
    <3>4. ASSUME NEW j \in Jobs, Begin(e, j) PROVE ~Unlocking(e)' /\ ~Writing(e)'
      BY <3>4 DEF Begin
    <3>5. CASE ReadKeyset(e) \/ PublishPrimitive(e)
      <4>1. pc[e] \in {"read", "publish-key"} /\ (Unlocked(e) \/ pc'[e] \in {"generate", "load"})
        BY <3>5 DEF ReadKeyset, PublishPrimitive
      <4> QED
        BY <4>1, UnlockedEffect DEF Left
    <3>6. CASE TakeLifecycle(e) \/ Load(e) \/ SaveIntent(e) \/ CallCreate(e) \/ MarkReady(e)
      BY <3>6 DEF TakeLifecycle, Load, SaveIntent, CallCreate, MarkReady
    <3>7. CASE Reserve(e) \/ Encrypt(e)
      BY <3>7 DEF Reserve, Encrypt
    <3> QED
      BY <2>4, <3>2, <3>3, <3>4, <3>5, <3>6, <3>7 DEF Moves
  <2> QED
    BY <2>1, <2>2, <2>3, <2>4
<1>3. ASSUME NEW e \in Clients, Same(e)
      PROVE  (Unlocking(e)' => Unlocking(e)) /\ (Writing(e)' => Writing(e))
  BY <1>3 DEF Same, Unlocking, Writing
<1> QED
  BY <1>1, <1>2, <1>3 DEF Exclusive

\* The database goes only while the service is down.
LEMMA RemovalFacts ==
    ASSUME IInv, RemoveDatabase
    PROVE  /\ ~up /\ \A c \in Clients : pc[c] = "idle" /\ pc'[c] = "idle"
           /\ ~db' /\ keyset' = NoKeyset /\ \A id \in Connections : bundle'[id] = 0
           /\ item' = item /\ native' = native /\ item = 0 /\ native = Idle
           /\ up' = up /\ purging /\ purging' = purging /\ keys' = keys /\ used' = used
           /\ job' = job /\ raw' = raw
<1>1. ~up /\ purging /\ item = 0 /\ native = Idle
  BY DEF IInv, Down, RemoveDatabase
<1>2. ASSUME NEW c \in Clients PROVE pc[c] = "idle"
  BY <1>1 DEF IInv, ClientAt
<1> QED
  BY <1>1, <1>2 DEF RemoveDatabase, clientVars, serviceVars, countVars

\* A caller of the store stays in its call until it or the store ends it.
LEMMA Waits ==
    ASSUME TypeOK, NativeServes, [Next]_vars, NEW c \in Clients, native.by = c
    PROVE  (Same(c) /\ native' = native) \/ native'.by = Nobody
<1> DEFINE Goal == (Same(c) /\ native' = native) \/ native'.by = Nobody
<1> SUFFICES Goal
  OBVIOUS
<1>1. c # Nobody /\ pc[c] = "creating" /\ native # Idle
  BY NobodyAssumption DEF NobodyAssumption, NativeServes, Idle
<1>2. ASSUME NEW d \in Clients, Moves(d) PROVE Goal
  <2>1. d # c /\ native' = native
    BY <1>1, <1>2 DEF Moves, Begin, EnterGate, TakeLifecycle, ReadKeyset, Load, SaveIntent,
       CallCreate, MarkReady, PublishPrimitive, TakeWriteLease, Reserve, Encrypt
  <2> QED
    BY <1>2, <2>1, MovesOnly DEF Only
<1>3. ASSUME NEW d \in Clients, Publish(d) PROVE Goal
  BY <1>1, <1>3, Returned DEF Publish, Only
<1>4. ASSUME NEW d \in Clients, Fail(d) PROVE Goal
  <2>1. native \in [key : Nat, by : Clients \cup {Nobody}]
    BY DEF TypeOK
  <2>2. CASE d = c
    BY <1>4, <2>1, <2>2 DEF Fail
  <2>3. CASE d # c
    <3>1. native' = native
      BY <1>4, <2>1, <2>3 DEF Fail
    <3> QED
      BY <1>4, <2>3, <3>1, Returned DEF Fail, Only
  <2> QED
    BY <2>2, <2>3
<1>5. CASE NativeCreate \/ NativeRefuse
  BY <1>5 DEF NativeCreate, NativeRefuse, Idle
<1>6. CASE Crash \/ StopService
  BY <1>6, Exited DEF Crash, StopService, Idle
<1>7. CASE ItemLost \/ StartService \/ Close \/ BeginUninstall \/ BeginPurge
             \/ DeleteKey \/ RemoveDatabase \/ FailUninstall \/ UNCHANGED vars
  BY <1>7 DEF ItemLost, StartService, Close, BeginUninstall, BeginPurge, DeleteKey,
              RemoveDatabase, FailUninstall, vars, clientVars, Same
<1> QED
  BY <1>2, <1>3, <1>4, <1>5, <1>6, <1>7 DEF Next, Unlock, Apply, Uninstall, Moves

\* An answer goes to the caller that waits for it.
LEMMA NativeStep ==
    ASSUME IInv, [Next]_vars
    PROVE  NativeServes'
<1>1. TypeOK /\ NativeServes /\ Writers /\ native \in [key : Nat, by : Clients \cup {Nobody}]
  BY StepWriters DEF IInv, TypeOK
<1>2. Idle.key = 0 /\ Idle.by = Nobody
  BY DEF Idle
<1> USE NobodyAssumption DEF NobodyAssumption
<1>3. CASE native.by # Nobody
  <2>1. native.by \in Clients /\ pc[native.by] = "creating" /\ raw[native.by] = native.key
    BY <1>1, <1>3 DEF NativeServes
  <2>2. (Same(native.by) /\ native' = native) \/ native'.by = Nobody
    BY <1>1, <2>1, Waits
  <2>3. native'.key = 0 => native' = Idle
    <3>1. CASE native' = native \/ native' = Idle
      BY <1>1, <3>1 DEF NativeServes
    <3>2. ASSUME NEW c \in Clients, Fail(c) PROVE native'.key # 0
      BY <1>1, <1>2, <1>3, <3>2 DEF Fail, NativeServes
    <3>3. ~(native = Idle)
      BY <1>2, <1>3
    <3> QED
      BY <1>1, <3>1, <3>2, <3>3, Exited
         DEF Writers, NativeCreate, NativeRefuse, CallCreate
  <2> QED
    BY <2>1, <2>2, <2>3 DEF NativeServes, Same
<1>4. CASE native.by = Nobody
  <2>1. CASE native' = native \/ native' = Idle
    BY <1>1, <1>2, <1>4, <2>1 DEF NativeServes
  <2>2. ASSUME NEW c \in Clients, CallCreate(c) PROVE NativeServes'
    <3>1. native'.key = raw[c] /\ native'.by = c /\ pc'[c] = "creating" /\ raw'[c] = raw[c]
      BY <1>1, <2>2 DEF CallCreate, TypeOK
    <3>2. raw[c] = keyset.key /\ keyset.key \in 1..keys /\ keys \in Nat
      BY <2>2 DEF CallCreate, IInv, MetaFits, Numbered, TypeOK
    <3>3. raw[c] # 0
      BY <3>2
    <3> QED
      BY <3>1, <3>3 DEF NativeServes
  <2>3. ASSUME NEW c \in Clients, Fail(c) PROVE native' = native
    BY <1>1, <1>4, <2>3 DEF Fail
  <2> QED
    BY <1>1, <2>1, <2>2, <2>3, Exited DEF Writers, NativeCreate, NativeRefuse
<1> QED
  BY <1>3, <1>4

\* The service does not come up under the uninstaller.
LEMMA DownStep ==
    ASSUME IInv, [Next]_vars
    PROVE  Down'
<1>1. TypeOK /\ NativeServes /\ Writers /\ Down
  BY StepWriters DEF IInv
<1>2. (~up => native = Idle)'
  <2>1. CASE up' = up
    <3>1. CASE up
      BY <2>1, <3>1
    <3>2. CASE ~up
      <4>1. native = Idle /\ \A c \in Clients : pc[c] = "idle"
        BY <3>2 DEF IInv, Down, ClientAt
      <4>2. native' = native \/ native' = Idle
        BY <1>1, <4>1, Exited DEF Writers, NativeCreate, NativeRefuse, Fail, CallCreate
      <4> QED
        BY <4>1, <4>2
    <3> QED
      BY <3>1, <3>2
  <2> QED
    BY <1>1, <2>1, Exited DEF Writers, StartService
<1>3. (purging => ~up)'
  BY <1>1, Exited DEF Writers, Down, StartService, BeginPurge, serviceVars
<1>4. (upc \in {"purge", "delete", "forget"} => ~up)'
  <2>1. CASE StopService
    BY <1>1, <2>1, Exited DEF StopService
  <2>2. CASE ~StopService
    BY <1>1, <2>2, Exited DEF Writers, Down, StartService, Uninstall, BeginUninstall, BeginPurge,
       DeleteKey, RemoveDatabase, FailUninstall, serviceVars
  <2> QED
    BY <2>1, <2>2
<1>5. (upc \in {"delete", "forget"} => purging)'
  BY <1>1 DEF Writers, Down, Uninstall, BeginUninstall, StopService, BeginPurge, DeleteKey,
     RemoveDatabase, FailUninstall, diskVars
<1>6. (upc = "forget" => item = 0)'
  <2>1. CASE BeginPurge
    <3>1. ~HasKeyset => item = 0
      BY DEF IInv, HasKeyset, RetryFindsItem, PurgeLeavesNoKey
    <3> QED
      BY <2>1, <3>1 DEF BeginPurge
  <2>2. CASE upc' = upc /\ upc = "forget"
    <3>1. item = 0 /\ native = Idle /\ Idle.key = 0
      BY <1>1, <2>2 DEF Down, Idle
    <3> QED
      BY <1>1, <3>1, Exited DEF Writers, NativeCreate, ItemLost, DeleteKey
  <2> QED
    BY <1>1, <2>1, <2>2 DEF Writers, Uninstall, BeginUninstall, StopService, DeleteKey,
       RemoveDatabase, FailUninstall
<1>7. (~db => purging /\ keyset = NoKeyset)'
  <2>1. CASE RemoveDatabase
    BY <2>1, RemovalFacts
  <2>2. CASE ~db
    <3>1. purging /\ ~up /\ keyset = NoKeyset
      BY <1>1, <2>2 DEF Down
    <3>2. \A c \in Clients : pc[c] = "idle"
      BY <3>1 DEF IInv, ClientAt
    <3>3. keyset' = keyset
      BY <1>1, <3>1, <3>2 DEF Writers, SaveIntent, MarkReady, Reserve, RemoveDatabase
    <3> QED
      BY <1>1, <3>1, <3>3 DEF Writers, BeginPurge
  <2> QED
    BY <1>1, <2>1, <2>2 DEF Writers
<1> QED
  BY <1>2, <1>3, <1>4, <1>5, <1>6, <1>7 DEF Down

----------------------------------------------------------------------------
(* What the steps that write the keyset row find and leave *)

\* A caller's database is there until it returns.
LEMMA UpHasDatabase ==
    ASSUME IInv, NEW c \in Clients, pc[c] # "idle"
    PROVE  up /\ db
  BY DEF IInv, ClientAt, Down

\* The types of the row and of the counts.
LEMMA Numbers ==
    ASSUME TypeOK
    PROVE  /\ keyset.phase \in {"", "intent", "ready"} /\ keyset.key \in Nat
           /\ keyset.reserved \in Nat /\ keys \in Nat
           /\ \A k \in 1..MaxKeys : used[k] \in Nat
           /\ MaxReservations \in Nat /\ MaxKeys \in Nat
  BY KeysetFacts, BoundsAssumption DEF BoundsAssumption, TypeOK

\* A keyset is made only where none is ready, nothing was encrypted, and the OS
\* store holds nothing and is about to hold nothing.
LEMMA IntentSaved ==
    ASSUME IInv, NEW c \in Clients, SaveIntent(c)
    PROVE  /\ keyset.phase # "ready" /\ keyset.reserved = 0 /\ item = 0 /\ native = Idle /\ db
           /\ keys' = keys + 1 /\ keys' <= MaxKeys
           /\ keyset'.phase = "intent" /\ keyset'.key = keys' /\ keyset'.reserved = 0
           /\ pc[c] = "generate" /\ pc'[c] = "create" /\ meta'[c] = keyset' /\ raw'[c] = keys'
           /\ NoWriter
           /\ UNCHANGED <<item, native, db, bundle, used, job, up, upc, purging>>
<1>1. pc[c] = "generate" /\ MetaFits(c)
  BY DEF SaveIntent, IInv
<1>2. keyset.phase # "ready" /\ keyset.reserved = 0 /\ item = 0 /\ native = Idle
  BY <1>1 DEF MetaFits
<1>3. keys' = keys + 1 /\ keys' <= MaxKeys
  <2>1. keys \in Nat /\ MaxKeys \in Nat
    BY Numbers DEF IInv
  <2> QED
    BY <2>1 DEF SaveIntent
<1>4. meta'[c] = [phase |-> "intent", key |-> keys', reserved |-> 0] /\ keyset' = meta'[c]
      /\ raw'[c] = keys' /\ pc'[c] = "create"
  BY DEF IInv, TypeOK, SaveIntent
<1> QED
  BY <1>1, <1>2, <1>3, <1>4 DEF SaveIntent, Lease, serviceVars

\* A row becomes ready as it is; a ready one is left alone.
LEMMA ReadyMarked ==
    ASSUME IInv, NEW c \in Clients, MarkReady(c)
    PROVE  /\ keyset.phase \in {"intent", "ready"}
           /\ keyset.phase = "ready" => keyset' = keyset
           /\ keyset'.phase = "ready" /\ keyset'.key = keyset.key
           /\ keyset'.reserved = keyset.reserved
           /\ pc[c] = "parse" /\ pc'[c] = "publish-key" /\ raw'[c] = keyset.key
           /\ meta'[c].phase = "ready" /\ meta'[c].key = keyset.key
           /\ UNCHANGED <<item, native, db, bundle, used, keys, job, up, upc, purging>>
<1>1. pc[c] = "parse" /\ MetaFits(c)
  BY DEF MarkReady, IInv
<1>2. /\ keyset.phase # "" /\ raw[c] = keyset.key
      /\ meta[c].phase = keyset.phase /\ meta[c].key = keyset.key
      /\ keyset.phase # "ready" => meta[c] = keyset
  BY <1>1 DEF MetaFits
<1>3. keyset.phase \in {"intent", "ready"} /\ keyset \in Keysets /\ meta[c] \in Keysets
  BY <1>2, Numbers DEF IInv, TypeOK
<1>4. pc'[c] = "publish-key" /\ raw'[c] = raw[c]
  BY DEF IInv, TypeOK, MarkReady
<1>5. CASE keyset.phase = "ready"
  <2>1. meta' = meta /\ keyset' = keyset
    BY <1>2, <1>5 DEF MarkReady
  <2> QED
    BY <1>1, <1>2, <1>4, <1>5, <2>1 DEF MarkReady, serviceVars, countVars
<1>6. CASE keyset.phase = "intent"
  <2>1. meta'[c] = [keyset EXCEPT !.phase = "ready"] /\ keyset' = meta'[c]
    BY <1>2, <1>6 DEF MarkReady, IInv, TypeOK
  <2>2. keyset'.phase = "ready" /\ keyset'.key = keyset.key /\ keyset'.reserved = keyset.reserved
    BY <1>3, <2>1 DEF Keysets
  <2> QED
    BY <1>1, <1>2, <1>4, <1>6, <2>1, <2>2 DEF MarkReady, serviceVars, countVars
<1> QED
  BY <1>3, <1>5, <1>6

\* A reservation is one more of a ready row, below the limit.
LEMMA ReserveEffect ==
    ASSUME IInv, NEW c \in Clients, Reserve(c)
    PROVE  /\ keyset.phase = "ready" /\ keyset.reserved < MaxReservations
           /\ keyset.key \in 1..MaxKeys
           /\ keyset'.phase = "ready" /\ keyset'.key = keyset.key
           /\ keyset'.reserved = keyset.reserved + 1
           /\ pc[c] = "reserve" /\ pc'[c] = "encrypt" /\ raw'[c] = keyset.key
           /\ job[c].does = "save"
           /\ bundle[job[c].id] \in {0, keyset.key}
           /\ UNCHANGED <<item, native, db, bundle, used, keys, job, up, upc, purging>>
<1>1. keyset \in Keysets /\ keyset.phase = "ready" /\ primitive = keyset.key
  BY DEF Reserve, CipherFits, IInv, TypeOK
<1>2. keyset' = [keyset EXCEPT !.reserved = @ + 1]
  BY DEF Reserve
<1>3. keyset'.phase = "ready" /\ keyset'.key = keyset.key /\ keyset'.reserved = keyset.reserved + 1
  BY <1>1, <1>2 DEF Keysets
<1>4. keyset.key \in 1..MaxKeys
  BY <1>1, Numbers DEF IInv, Numbered
<1>5. pc[c] = "reserve" /\ pc'[c] = "encrypt" /\ raw'[c] = keyset.key /\ job[c].does = "save"
  BY <1>1 DEF Reserve, IInv, TypeOK, ClientAt
<1> QED
  BY <1>1, <1>3, <1>4, <1>5 DEF Reserve, serviceVars, countVars

\* An encryption uses the row's keyset and a reservation that was left.
LEMMA EncryptEffect ==
    ASSUME IInv, NEW c \in Clients, Encrypt(c)
    PROVE  /\ keyset.phase = "ready" /\ raw[c] = keyset.key /\ keyset.key \in 1..MaxKeys
           /\ used[keyset.key] < keyset.reserved
           /\ used'[keyset.key] = used[keyset.key] + 1
           /\ \A k \in (1..MaxKeys) \ {keyset.key} : used'[k] = used[k]
           /\ pc[c] = "encrypt" /\ pc'[c] = "publish" /\ raw'[c] = raw[c]
           /\ job[c].does = "save"
           /\ UNCHANGED <<item, native, db, bundle, keyset, keys, job, up, upc, purging>>
<1>1. pc[c] = "encrypt" /\ Encrypting(c) /\ ClientAt(c)
  BY DEF Encrypt, IInv
<1>2. keyset.phase = "ready" /\ raw[c] = keyset.key /\ used[keyset.key] < keyset.reserved
      /\ job[c].does = "save"
  BY <1>1 DEF Encrypting, ClientAt
<1>3. keyset.key \in 1..MaxKeys
  BY <1>2, Numbers DEF IInv, Numbered
<1>4. used' = [used EXCEPT ![keyset.key] = @ + 1] /\ used \in [1..MaxKeys -> Nat]
  BY <1>2 DEF Encrypt, IInv, TypeOK
<1>5. pc'[c] = "publish" /\ raw'[c] = raw[c]
  BY DEF Encrypt, IInv, TypeOK
<1> QED
  BY <1>1, <1>2, <1>3, <1>4, <1>5 DEF Encrypt, serviceVars, diskVars

----------------------------------------------------------------------------
(* The parts of the invariant about the keyset row *)

\* The row's number and count stay in bounds.
LEMMA NumberedStep ==
    ASSUME IInv, [Next]_vars
    PROVE  Numbered'
<1>1. Writers /\ TypeOK /\ Numbered
  BY StepWriters DEF IInv
<1>2. keyset.reserved \in Nat /\ MaxReservations \in Nat
  BY <1>1, Numbers
<1>3. keys \in Nat /\ MaxKeys \in Nat /\ keyset.key \in Nat
  BY <1>1, Numbers
<1>10. MaxReservations >= 0
  BY <1>2
<1>11. keyset.phase # "" => keyset.key <= keys
  <2>1. \A n \in 1..keys : n <= keys
    BY <1>3
  <2> QED
    BY <1>1, <2>1 DEF Numbered
<1>4. ASSUME NEW c \in Clients, SaveIntent(c) PROVE Numbered'
  <2>1. keys' = keys + 1 /\ keys' <= MaxKeys /\ keyset'.key = keys'
        /\ keyset'.phase = "intent" /\ keyset'.reserved = 0 /\ used' = used
    BY <1>3, <1>4, IntentSaved
  <2>2. keyset'.key \in 1..keys'
    BY <1>3, <2>1
  <2>3. keyset'.reserved <= MaxReservations
    BY <1>10, <2>1
  <2>4. \A k \in 1..MaxKeys : k > keys' => k > keys
    BY <1>3, <2>1
  <2> QED
    BY <1>1, <2>1, <2>2, <2>3, <2>4 DEF Numbered
<1>5. ASSUME NEW c \in Clients, MarkReady(c) PROVE Numbered'
  <2>1. keys' = keys /\ used' = used /\ keyset'.phase = "ready" /\ keyset.phase # ""
        /\ keyset'.key = keyset.key /\ keyset'.reserved = keyset.reserved
    BY <1>5, ReadyMarked
  <2> QED
    BY <1>1, <2>1 DEF Numbered
<1>6. ASSUME NEW c \in Clients, Reserve(c) PROVE Numbered'
  <2>1. keys' = keys /\ used' = used /\ keyset'.phase = "ready" /\ keyset.phase = "ready"
        /\ keyset'.key = keyset.key
    BY <1>6, ReserveEffect
  <2>2. keyset.reserved < MaxReservations /\ keyset'.reserved = keyset.reserved + 1
    BY <1>6, ReserveEffect
  <2>3. keyset'.reserved <= MaxReservations
    BY <1>2, <2>2
  <2> QED
    BY <1>1, <2>1, <2>3 DEF Numbered
<1>7. ASSUME NEW c \in Clients, Encrypt(c) PROVE Numbered'
  <2>1. keyset' = keyset /\ keys' = keys /\ keyset.phase = "ready"
        /\ \A k \in (1..MaxKeys) \ {keyset.key} : used'[k] = used[k]
    BY <1>7, EncryptEffect
  <2>2. \A k \in 1..MaxKeys : k > keys => k # keyset.key
    BY <1>3, <1>11, <2>1
  <2> QED
    BY <1>1, <2>1, <2>2 DEF Numbered
<1>8. CASE RemoveDatabase
  <2>1. keyset' = NoKeyset /\ keys' = keys /\ used' = used
    BY <1>8, RemovalFacts
  <2>2. keyset'.phase = "" /\ keyset'.reserved = 0
    BY <2>1 DEF NoKeyset
  <2>3. keyset'.reserved <= MaxReservations
    BY <1>10, <2>2
  <2> QED
    BY <1>1, <2>1, <2>2, <2>3 DEF Numbered
<1>9. CASE keyset' = keyset /\ keys' = keys /\ used' = used
  BY <1>1, <1>9 DEF Numbered
<1> QED
  BY <1>1, <1>4, <1>5, <1>6, <1>7, <1>8, <1>9 DEF Writers

\* Every step keeps the item and the row together.
LEMMA RetryStep ==
    ASSUME IInv, [Next]_vars
    PROVE  RetryFindsItem'
<1>1. Writers /\ TypeOK /\ RetryFindsItem /\ NativeServes
  BY StepWriters DEF IInv
<1>2. Idle.key = 0
  BY DEF Idle
<1>3. ASSUME NEW c \in Clients, SaveIntent(c) PROVE RetryFindsItem'
  BY <1>2, <1>3, IntentSaved DEF RetryFindsItem
<1>4. ASSUME NEW c \in Clients, MarkReady(c) PROVE RetryFindsItem'
  BY <1>1, <1>4, ReadyMarked DEF RetryFindsItem
<1>5. ASSUME NEW c \in Clients, Reserve(c) PROVE RetryFindsItem'
  BY <1>1, <1>5, ReserveEffect DEF RetryFindsItem
<1>6. CASE RemoveDatabase
  BY <1>6, RemovalFacts DEF RetryFindsItem
<1>7. CASE keyset' = keyset /\ db' = db
  <2>1. item' \in {item, native.key, 0}
    BY <1>1, Exited DEF Writers, NativeCreate, ItemLost, DeleteKey
  <2>2. /\ native'.key \in {native.key, 0, keyset.key}
        /\ native'.key # native.key /\ native'.key # 0 => keyset.phase # ""
    <3>1. ASSUME NEW c \in Clients, Fail(c) PROVE native'.key = native.key
      BY <1>1, <3>1 DEF Fail, TypeOK
    <3>2. ASSUME NEW c \in Clients, CallCreate(c)
          PROVE  native'.key = keyset.key /\ keyset.phase = "intent"
      BY <3>2 DEF CallCreate, IInv, MetaFits
    <3> QED
      BY <1>1, <1>2, <3>1, <3>2, Exited DEF Writers, NativeCreate, NativeRefuse
  <2> QED
    BY <1>1, <1>7, <2>1, <2>2 DEF RetryFindsItem
<1> QED
  BY <1>1, <1>3, <1>4, <1>5, <1>6, <1>7 DEF Writers

\* Nothing brings a keyset back after the purge, or a primitive after Close.
LEMMA PurgeStep ==
    ASSUME IInv, [Next]_vars
    PROVE  PurgeLeavesNoKey'
<1>1. Writers /\ TypeOK /\ PurgeLeavesNoKey
  BY StepWriters DEF IInv
<1>2. Idle.key = 0 /\ Idle.by = Nobody
  BY DEF Idle
<1>3. (~db => item = 0 /\ native = Idle)'
  <2>1. CASE RemoveDatabase
    BY <2>1, RemovalFacts
  <2>2. CASE ~db
    <3>1. item = 0 /\ native = Idle
      BY <1>1, <2>2 DEF PurgeLeavesNoKey
    <3>2. \A c \in Clients : pc[c] = "idle"
      BY <2>2, UpHasDatabase
    <3>3. item' = 0
      BY <1>1, <1>2, <3>1, Exited DEF Writers, NativeCreate, ItemLost, DeleteKey
    <3>4. native' = Idle
      BY <1>1, <3>1, <3>2, Exited DEF Writers, NativeCreate, NativeRefuse, Fail, CallCreate
    <3> QED
      BY <3>3, <3>4
  <2> QED
    BY <1>1, <2>1, <2>2 DEF Writers
<1>4. (closed => primitive = 0)'
  BY <1>1, Exited DEF PurgeLeavesNoKey, Writers, StartService, Close, PublishPrimitive
<1> QED
  BY <1>3, <1>4 DEF PurgeLeavesNoKey

\* No step uses what was not reserved.
LEMMA UsageStep ==
    ASSUME IInv, [Next]_vars
    PROVE  UsageReserved'
<1>1. Writers /\ TypeOK /\ UsageReserved /\ Numbered
  BY StepWriters DEF IInv
<1>2. /\ keyset.reserved \in Nat /\ keys \in Nat /\ keyset.reserved <= MaxReservations
      /\ \A k \in 1..MaxKeys : used[k] \in Nat
      /\ MaxReservations \in Nat /\ MaxKeys \in Nat
  BY <1>1, Numbers DEF Numbered
<1>3. ASSUME NEW c \in Clients, SaveIntent(c) PROVE UsageReserved'
  BY <1>1, <1>2, <1>3, IntentSaved DEF UsageReserved
<1>4. ASSUME NEW c \in Clients, MarkReady(c) PROVE UsageReserved'
  BY <1>1, <1>4, ReadyMarked DEF UsageReserved
<1>5. ASSUME NEW c \in Clients, Reserve(c) PROVE UsageReserved'
  BY <1>1, <1>2, <1>5, ReserveEffect DEF UsageReserved
<1>6. ASSUME NEW c \in Clients, Encrypt(c) PROVE UsageReserved'
  BY <1>1, <1>2, <1>6, EncryptEffect DEF UsageReserved
<1>7. CASE RemoveDatabase
  BY <1>1, <1>7, RemovalFacts DEF UsageReserved
<1>8. CASE keyset' = keyset /\ used' = used
  BY <1>1, <1>8 DEF UsageReserved, Writers, RemoveDatabase
<1> QED
  BY <1>1, <1>3, <1>4, <1>5, <1>6, <1>7, <1>8 DEF Writers

----------------------------------------------------------------------------
(* What a client knows of the keyset stays true while it is past the gate *)

\* No step makes a caller's copies stale while it is past the gate.
LEMMA MetaStep ==
    ASSUME IInv, [Next]_vars, NEW c \in Clients
    PROVE  MetaFits(c)'
<1>1. TypeOK /\ NativeServes /\ Exclusive /\ Writers /\ MetaFits(c) /\ ClientAt(c)
  BY StepWriters DEF IInv
<1>2. Same(c) \/ Left(c) \/ Moves(c) \/ Answers(c)
  BY <1>1, ClientMoves
<1>3. CASE Left(c)
  BY <1>3 DEF Left, MetaFits
<1>4. CASE Same(c)
  <2>1. ASSUME NEW d \in Clients, SaveIntent(d) \/ MarkReady(d) \/ CallCreate(d), Unlocking(c)
        PROVE  FALSE
    <3>1. d # c
      BY <1>1, <1>4, <2>1 DEF SaveIntent, MarkReady, CallCreate, Same, TypeOK
    <3>2. Unlocking(d)
      BY <2>1 DEF SaveIntent, MarkReady, CallCreate, Unlocking
    <3> QED
      BY <1>1, <2>1, <3>1, <3>2 DEF Exclusive
  <2>2. CASE ~Unlocking(c)
    BY <1>4, <2>2 DEF Same, MetaFits, Unlocking
  <2>3. CASE Unlocking(c)
    <3>1. \/ keyset' = keyset
          \/ keyset.phase = "ready" /\ keyset'.phase = "ready" /\ keyset'.key = keyset.key
      BY <1>1, <2>1, <2>3, ReserveEffect, RemovalFacts DEF Writers, Unlocking
    <3>2. pc[c] = "generate" => item' = 0 /\ native' = Idle
      <4> SUFFICES ASSUME item = 0, native = Idle PROVE item' = 0 /\ native' = Idle
        BY <1>1 DEF MetaFits
      <4>1. Idle.key = 0 /\ Idle.by = Nobody /\ Idle = [key |-> 0, by |-> Nobody]
        BY DEF Idle
      <4>2. item' = 0
        BY <1>1, <4>1, Exited DEF Writers, NativeCreate, ItemLost, DeleteKey
      <4>3. ASSUME NEW d \in Clients, Fail(d) PROVE native' = Idle
        BY <4>1, <4>3 DEF Fail
      <4>4. native' = Idle
        BY <1>1, <2>1, <2>3, <4>3, Exited DEF Writers, NativeCreate, NativeRefuse
      <4> QED
        BY <4>2, <4>4
    <3> QED
      BY <1>1, <1>4, <3>1, <3>2 DEF Same, MetaFits
  <2> QED
    BY <2>2, <2>3
<1>5. CASE Answers(c)
  <2>1. pc[c] = "creating"
    BY <1>1, <1>5, NobodyAssumption DEF NobodyAssumption, NativeServes, Answers
  <2>2. keyset' = keyset
    BY <1>5 DEF Answers, NativeCreate, diskVars
  <2> QED
    BY <1>1, <1>5, <2>1, <2>2 DEF Answers, MetaFits
<1>6. CASE Moves(c)
  <2>1. pc[c] \in Pcs /\ db' = db
    BY <1>1, <1>6, MovesOnly DEF TypeOK
  <2> USE <1>1 DEF TypeOK
  <2>2. ASSUME NEW j \in Jobs, Begin(c, j) PROVE MetaFits(c)'
    BY <2>2 DEF Begin, MetaFits
  <2>3. ASSUME Unlocked(c) PROVE MetaFits(c)'
    BY <2>3, UnlockedEffect DEF Left, MetaFits
  <2>4. CASE EnterGate(c)
    BY <2>3, <2>4 DEF EnterGate, MetaFits
  <2>5. CASE TakeLifecycle(c) \/ TakeWriteLease(c) \/ Encrypt(c)
    BY <2>5 DEF TakeLifecycle, TakeWriteLease, Encrypt, MetaFits
  <2>6. CASE Reserve(c)
    BY <2>6, ReserveEffect DEF MetaFits
  <2>7. CASE PublishPrimitive(c)
    BY <2>3, <2>7 DEF PublishPrimitive
  <2>8. CASE ReadKeyset(c)
    <3>1. CASE Unlocked(c)
      BY <2>3, <3>1
    <3>2. CASE ~Unlocked(c)
      <4>1. /\ meta'[c] = keyset /\ db /\ pc'[c] = IF keyset.phase = "" THEN "generate" ELSE "load"
            /\ keyset' = keyset /\ item' = item /\ native' = native
        BY <2>8, <3>2 DEF ReadKeyset, Lease, diskVars
      <4>2. CASE keyset.phase = ""
        <5>1. keyset.reserved = 0
          <6>1. keyset = NoKeyset
            BY <4>2 DEF IInv, Numbered
          <6> QED
            BY <6>1 DEF NoKeyset
        <5>2. item = 0 /\ native.key = 0
          BY <4>1, <4>2 DEF IInv, RetryFindsItem
        <5>3. native = Idle
          BY <5>2 DEF NativeServes
        <5> QED
          BY <4>1, <4>2, <5>1, <5>2, <5>3 DEF MetaFits
      <4>3. CASE keyset.phase # ""
        BY <4>1, <4>3 DEF MetaFits
      <4> QED
        BY <4>2, <4>3
    <3> QED
      BY <3>1, <3>2
  <2>9. CASE Load(c)
    <3>1. keyset' = keyset /\ item' = item /\ native' = native /\ meta' = meta /\ native = Idle
      BY <2>9 DEF Load, diskVars
    <3>2. CASE pc'[c] = "parse"
      <4>1. raw'[c] = meta[c].key /\ pc[c] = "load"
        BY <2>9, <3>2 DEF Load
      <4> QED
        BY <3>1, <3>2, <4>1 DEF MetaFits
    <3>3. CASE pc'[c] = "generate"
      <4>1. pc[c] = "load" /\ item = 0 /\ meta[c].phase = "intent" /\ meta[c].reserved = 0
        BY <2>9, <3>3 DEF Load
      <4> QED
        BY <3>1, <3>3, <4>1 DEF MetaFits
    <3> QED
      BY <2>9, <3>2, <3>3 DEF Load
  <2>10. CASE SaveIntent(c)
    BY <2>10, IntentSaved DEF MetaFits
  <2>11. CASE CallCreate(c)
    <3>1. keyset' = keyset /\ meta' = meta /\ raw' = raw /\ pc[c] = "create" /\ pc'[c] = "creating"
      BY <2>11 DEF CallCreate, diskVars
    <3> QED
      BY <3>1 DEF MetaFits
  <2>12. CASE MarkReady(c)
    BY <2>12, ReadyMarked DEF MetaFits
  <2> QED
    BY <1>6, <2>2, <2>4, <2>5, <2>6, <2>7, <2>8, <2>9, <2>10, <2>11, <2>12 DEF Moves
<1> QED
  BY <1>2, <1>3, <1>4, <1>5, <1>6

\* Inside the write lease the row is ready, and one reservation is still unused.
LEMMA EncryptingStep ==
    ASSUME IInv, [Next]_vars, NEW c \in Clients
    PROVE  Encrypting(c)'
<1>1. TypeOK /\ NativeServes /\ Exclusive /\ Writers /\ Encrypting(c) /\ ClientAt(c)
  BY StepWriters DEF IInv
<1>2. Same(c) \/ Left(c) \/ Moves(c) \/ Answers(c)
  BY <1>1, ClientMoves
<1>3. CASE Left(c)
  BY <1>3 DEF Left, Encrypting
<1>4. CASE Answers(c)
  BY <1>4 DEF Answers, Encrypting
<1>5. CASE Same(c)
  <2>1. CASE ~Writing(c)
    BY <1>5, <2>1 DEF Same, Encrypting, Writing
  <2>2. CASE Writing(c)
    <3>1. ASSUME NEW d \in Clients, Reserve(d) \/ Encrypt(d) PROVE FALSE
      <4>1. d # c
        BY <1>1, <1>5, <3>1 DEF Reserve, Encrypt, Same, TypeOK
      <4> QED
        BY <1>1, <2>2, <3>1, <4>1 DEF Exclusive, Writing, Reserve, Encrypt
    <3>2. ~RemoveDatabase
      BY <2>2, RemovalFacts DEF Writing
    <3>3. ASSUME NEW d \in Clients, SaveIntent(d) PROVE FALSE
      BY <2>2, <3>3, IntentSaved DEF NoWriter
    <3>4. keyset.phase = "ready" => keyset' = keyset
      BY <1>1, <3>1, <3>2, <3>3, ReadyMarked DEF Writers
    <3>5. used' = used
      BY <1>1, <3>1 DEF Writers
    <3> QED
      BY <1>1, <1>5, <3>4, <3>5 DEF Same, Encrypting
  <2> QED
    BY <2>1, <2>2
<1>6. CASE Moves(c)
  <2> USE <1>1 DEF TypeOK
  <2>1. CASE Reserve(c)
    <3>1. /\ keyset'.phase = "ready" /\ keyset'.key = keyset.key /\ raw'[c] = keyset.key
          /\ pc'[c] = "encrypt" /\ keyset.key \in 1..MaxKeys
          /\ keyset'.reserved = keyset.reserved + 1 /\ used' = used /\ db
      BY <2>1, ReserveEffect, UpHasDatabase
    <3>2. used[keyset.key] \in Nat /\ keyset.reserved \in Nat
      BY <3>1, Numbers
    <3>3. used[keyset.key] > 0 => used[keyset.key] <= keyset.reserved
      BY <3>1 DEF IInv, UsageReserved
    <3>4. used[keyset.key] < keyset.reserved + 1
      BY <3>2, <3>3
    <3> QED
      BY <3>1, <3>4 DEF Encrypting
  <2>2. CASE Encrypt(c)
    BY <2>2, EncryptEffect DEF Encrypting
  <2>3. CASE TakeWriteLease(c)
    BY <2>3 DEF TakeWriteLease, Encrypting
  <2>4. ASSUME NEW j \in Jobs, Begin(c, j) PROVE Encrypting(c)'
    BY <2>4 DEF Begin, Encrypting
  <2>5. ASSUME Unlocked(c) PROVE Encrypting(c)'
    BY <2>5, UnlockedEffect DEF Left, Encrypting
  <2>6. CASE EnterGate(c)
    BY <2>5, <2>6 DEF EnterGate, Encrypting
  <2>7. CASE ReadKeyset(c)
    BY <2>5, <2>7 DEF ReadKeyset, Encrypting
  <2>8. CASE PublishPrimitive(c)
    BY <2>5, <2>8 DEF PublishPrimitive
  <2>9. CASE TakeLifecycle(c) \/ Load(c) \/ CallCreate(c)
    BY <2>9 DEF TakeLifecycle, Load, CallCreate, Encrypting
  <2>10. CASE SaveIntent(c)
    BY <2>10, IntentSaved DEF Encrypting
  <2>11. CASE MarkReady(c)
    BY <2>11, ReadyMarked DEF Encrypting
  <2> QED
    BY <1>6, <2>1, <2>2, <2>3, <2>4, <2>6, <2>7, <2>8, <2>9, <2>10, <2>11 DEF Moves
<1> QED
  BY <1>2, <1>3, <1>4, <1>5, <1>6

----------------------------------------------------------------------------
(* The credentials *)

\* A ready row stays ready with its keyset until the database goes.
LEMMA ReadyStays ==
    ASSUME IInv, [Next]_vars, keyset.phase = "ready", ~RemoveDatabase
    PROVE  /\ keyset'.phase = "ready" /\ keyset'.key = keyset.key
           /\ keyset'.reserved \in {keyset.reserved, keyset.reserved + 1}
<1>1. Writers
  BY StepWriters
<1>2. ASSUME NEW c \in Clients PROVE ~SaveIntent(c)
  BY IntentSaved
<1> QED
  BY <1>1, <1>2, ReadyMarked, ReserveEffect DEF Writers

\* No encryption is forgotten.
LEMMA UsedGrows ==
    ASSUME IInv, [Next]_vars, NEW k \in 1..MaxKeys
    PROVE  used'[k] >= used[k]
<1>1. Writers
  BY StepWriters
<1>2. used[k] \in Nat
  BY Numbers DEF IInv
<1>3. used'[k] = used[k] \/ used'[k] = used[k] + 1
  BY <1>1, EncryptEffect DEF Writers
<1> QED
  BY <1>2, <1>3

\* Every credential keeps its encryption.
LEMMA CountedStep ==
    ASSUME IInv, [Next]_vars
    PROVE  Counted'
<1>1. TypeOK /\ NativeServes /\ Exclusive /\ Writers /\ Counted
  BY StepWriters DEF IInv
<1>2. Cardinality(Saved) \in Nat /\ IsFiniteSet(Saved)
  BY <1>1, FS_CardinalityType DEF Counted
<1>3. ASSUME keyset.phase = "ready" PROVE keyset.key \in 1..MaxKeys
  BY <1>3, Numbers DEF IInv, Numbered
<1>4. CASE RemoveDatabase
  <2>1. Saved' = {}
    BY <1>4, RemovalFacts DEF Saved
  <2>2. \A c \in Clients : pc'[c] = "idle"
    BY <1>4, RemovalFacts
  <2> QED
    BY <2>1, <2>2, FS_EmptySet DEF Counted
<1>5. ASSUME NEW c \in Clients, Publish(c) PROVE Counted'
  <2> DEFINE id == job[c].id
  <2>1. /\ pc[c] = "publish" /\ Writing(c) /\ ClientAt(c) /\ Encrypting(c) /\ job[c] \in Jobs
        /\ bundle' = [bundle EXCEPT ![id] = raw[c]] /\ bundle \in [Connections -> Nat]
        /\ keyset' = keyset /\ used' = used
    BY <1>5 DEF Publish, IInv, TypeOK, ClientAt, Writing, countVars
  <2>2. job[c].does \in {"save", "drop"} /\ id \in Connections
    BY <2>1, JobFacts DEF ClientAt
  <2>3. ASSUME NEW d \in Clients PROVE pc'[d] # "publish"
    <3>1. CASE d = c
      BY <1>1, <1>5, <3>1, Returned DEF Publish, Left
    <3>2. CASE d # c
      <4>1. Same(d) /\ ~Writing(d)
        BY <1>1, <1>5, <2>1, <3>2, Returned DEF Publish, Only, Exclusive
      <4> QED
        BY <4>1 DEF Same, Writing
    <3> QED
      BY <3>1, <3>2
  <2>4. CASE job[c].does = "save"
    <3>1. keyset.phase = "ready" /\ raw[c] = keyset.key
      BY <2>1, <2>4 DEF Encrypting
    <3>2. Cardinality(Saved) < used[keyset.key]
      BY <1>1, <2>1, <2>4 DEF Counted
    <3>3. keyset.key \in 1..MaxKeys
      BY <1>3, <3>1
    <3>4. keyset.key # 0 /\ used[keyset.key] \in Nat
      <4>1. \A k \in 1..MaxKeys : used[k] \in Nat
        BY <1>1, Numbers
      <4>2. \A k \in 1..MaxKeys : k # 0
        BY BoundsAssumption DEF BoundsAssumption
      <4> QED
        BY <3>3, <4>1, <4>2
    <3>5. Saved' = Saved \cup {id}
      BY <2>1, <2>2, <3>1, <3>4 DEF Saved
    <3>6. IsFiniteSet(Saved') /\ Cardinality(Saved') \in {Cardinality(Saved), Cardinality(Saved) + 1}
      BY <1>2, <3>5, FS_AddElement
    <3>7. Cardinality(Saved') <= used[keyset.key]
      <4> QED
        BY <1>2, <3>2, <3>4, <3>6
    <3>8. \A i \in Saved' : bundle'[i] = keyset.key
      BY <1>1, <2>1, <2>2, <3>1 DEF Counted, Saved
    <3> QED
      BY <2>1, <2>3, <3>1, <3>6, <3>7, <3>8 DEF Counted
  <2>5. CASE job[c].does = "drop"
    <3>1. raw[c] = 0
      BY <2>1, <2>5 DEF ClientAt
    <3>2. Saved' = Saved \ {id}
      BY <2>1, <2>2, <3>1 DEF Saved
    <3>3. IsFiniteSet(Saved') /\ Cardinality(Saved') \in {Cardinality(Saved), Cardinality(Saved) - 1}
      BY <1>2, <3>2, FS_RemoveElement
    <3>4. \A i \in Saved' : i \in Saved /\ bundle'[i] = bundle[i]
      BY <2>1, <3>2 DEF Saved
    <3>5. ASSUME Saved # {} PROVE Cardinality(Saved') <= used[keyset.key]
      <4>1. keyset.phase = "ready" /\ Cardinality(Saved) <= used[keyset.key]
        BY <1>1, <3>5 DEF Counted
      <4>2. used[keyset.key] \in Nat
        BY <1>1, <1>3, <4>1, Numbers
      <4>3. Cardinality(Saved) <= used[keyset.key]
        BY <4>1
      <4> QED
        BY <1>2, <3>3, <4>2, <4>3
    <3> QED
      BY <1>1, <2>1, <2>3, <3>3, <3>4, <3>5 DEF Counted
  <2> QED
    BY <2>2, <2>4, <2>5
<1>6. CASE bundle' = bundle /\ ~RemoveDatabase
  <2>1. Saved' = Saved
    BY <1>6 DEF Saved
  <2>2. ASSUME Saved # {}
        PROVE  /\ keyset'.phase = "ready" /\ keyset'.key = keyset.key
               /\ Cardinality(Saved) <= used'[keyset.key]
               /\ \A id \in Saved : bundle[id] = keyset.key
    <3>1. keyset.phase = "ready" /\ \A id \in Saved : bundle[id] = keyset.key
      BY <1>1, <2>2 DEF Counted
    <3>2. Cardinality(Saved) <= used[keyset.key]
      BY <1>1, <2>2 DEF Counted
    <3>3. keyset.key \in 1..MaxKeys
      BY <1>3, <3>1
    <3>4. used[keyset.key] \in Nat /\ used'[keyset.key] \in Nat
      <4>1. TypeOK'
        BY <1>1, TypeStep
      <4> QED
        BY <1>1, <3>3, <4>1 DEF TypeOK
    <3>5. used'[keyset.key] >= used[keyset.key]
      BY <3>3, UsedGrows
    <3>6. Cardinality(Saved) <= used'[keyset.key]
      BY <1>2, <3>2, <3>4, <3>5
    <3> QED
      BY <1>6, <3>1, <3>6, ReadyStays
  <2>3. ASSUME NEW c \in Clients, pc'[c] = "publish", job'[c].does = "save"
        PROVE  Cardinality(Saved) < used'[keyset'.key]
    <3>1. Same(c) \/ Encrypt(c)
      <4>1. Same(c) \/ Left(c) \/ Moves(c) \/ Answers(c)
        BY <1>1, ClientMoves
      <4>2. ASSUME Moves(c) PROVE Encrypt(c)
        <5> USE <1>1, <2>3 DEF TypeOK
        <5>1. ~Unlocked(c)
          BY UnlockedEffect DEF Left
        <5>2. ~(\E j \in Jobs : Begin(c, j)) /\ ~EnterGate(c) /\ ~ReadKeyset(c) /\ ~PublishPrimitive(c)
          BY <5>1 DEF Begin, EnterGate, ReadKeyset, PublishPrimitive
        <5>3. ~TakeLifecycle(c) /\ ~Load(c) /\ ~CallCreate(c)
          BY DEF TakeLifecycle, Load, CallCreate
        <5>4. ~SaveIntent(c) /\ ~MarkReady(c) /\ ~Reserve(c)
          BY DEF SaveIntent, MarkReady, Reserve
        <5>5. ~TakeWriteLease(c)
          BY DEF TakeWriteLease
        <5> QED
          BY <4>2, <5>2, <5>3, <5>4, <5>5 DEF Moves
      <4> QED
        BY <2>3, <4>1, <4>2 DEF Left, Answers
    <3>2. keyset.phase = "ready"
      BY <1>1, <2>3, <3>1, EncryptEffect DEF Same, IInv, Encrypting
    <3>3. keyset'.key = keyset.key /\ keyset.key \in 1..MaxKeys
      BY <1>3, <1>6, <3>2, ReadyStays
    <3>4. used[keyset.key] \in Nat /\ used'[keyset.key] >= used[keyset.key]
      BY <1>1, <3>3, Numbers, UsedGrows
    <3>5. used'[keyset.key] \in Nat
      BY <1>1, <3>3, TypeStep DEF TypeOK
    <3>6. CASE Same(c)
      <4>1. Cardinality(Saved) < used[keyset.key]
        BY <1>1, <2>3, <3>6 DEF Same, Counted
      <4> QED
        BY <1>2, <3>3, <3>4, <3>5, <4>1
    <3>7. CASE Encrypt(c)
      <4>1. used'[keyset.key] = used[keyset.key] + 1
        BY <3>7, EncryptEffect
      <4>2. Cardinality(Saved) <= used[keyset.key]
        <5>1. CASE Saved = {}
          <6>1. Cardinality(Saved) = 0
            BY <5>1, FS_EmptySet
          <6> QED
            BY <3>4, <6>1
        <5>2. CASE Saved # {}
          BY <1>1, <5>2 DEF Counted
        <5> QED
          BY <5>1, <5>2
      <4> QED
        BY <1>2, <3>3, <3>4, <4>1, <4>2
    <3> QED
      BY <3>1, <3>6, <3>7
  <2>4. IsFiniteSet(Saved')
    BY <1>2, <2>1
  <2>5. Saved' # {} =>
          /\ keyset'.phase = "ready"
          /\ \A id \in Saved' : bundle'[id] = keyset'.key
          /\ Cardinality(Saved') <= used'[keyset'.key]
    BY <1>6, <2>1, <2>2
  <2>6. \A c \in Clients : pc'[c] = "publish" /\ job'[c].does = "save" =>
          Cardinality(Saved') < used'[keyset'.key]
    BY <2>1, <2>3
  <2> QED
    BY <2>4, <2>5, <2>6 DEF Counted
<1> QED
  BY <1>1, <1>4, <1>5, <1>6 DEF Writers

----------------------------------------------------------------------------
(* The theorems *)

\* IInv is inductive: it holds at the start and every step of the service, the
\* OS store and the uninstaller keeps it.
THEOREM KeysetInvariant == Spec => []IInv
<1>1. Init => IInv
  BY InitInv
<1>2. IInv /\ [Next]_vars => IInv'
  <2> SUFFICES ASSUME IInv, [Next]_vars PROVE IInv'
    OBVIOUS
  <2>1. TypeOK'
    BY TypeStep DEF IInv
  <2>2. \A c \in Clients : (ClientAt(c) /\ MetaFits(c) /\ Encrypting(c))'
    BY ClientStep, MetaStep, EncryptingStep
  <2> QED
    BY <2>1, <2>2, ExclusiveStep, NativeStep, DownStep, NumberedStep, CountedStep,
       RetryStep, PurgeStep, UsageStep DEF IInv
<1> QED
  BY <1>1, <1>2, PTL DEF Spec

\* Every variable keeps its type, whatever Unlock, Apply and the uninstaller do.
THEOREM TypeOKThm == Spec => []TypeOK
<1>1. IInv => TypeOK
  BY DEF IInv
<1> QED
  BY <1>1, KeysetInvariant, PTL

\* What Unlock relies on when it retries an intent: whatever the OS store has,
\* or is about to have, is what the row names.
THEOREM RetryFindsItemThm == Spec => []RetryFindsItem
<1>1. IInv => RetryFindsItem
  BY DEF IInv
<1> QED
  BY <1>1, KeysetInvariant, PTL

\* What PurgeLocked relies on when it forgets the row, and Close when it drops
\* the primitive: no keyset is left behind.
THEOREM PurgeLeavesNoKeyThm == Spec => []PurgeLeavesNoKey
<1>1. IInv => PurgeLeavesNoKey
  BY DEF IInv
<1> QED
  BY <1>1, KeysetInvariant, PTL

\* Lease.Reserve commits before AEAD.Encrypt runs, under one write lease: for any
\* number of callers, crashes and keysets nothing is encrypted unreserved.
THEOREM UsageReservedThm == Spec => []UsageReserved
<1>1. IInv => UsageReserved
  BY DEF IInv
<1> QED
  BY <1>1, KeysetInvariant, PTL

\* Apply publishes only bundles of the row's keyset, one reservation for each:
\* what Lease.Keyset checks when it loads the row never fails.
THEOREM CredentialsReadableThm == Spec => []CredentialsReadable
<1>1. IInv => CredentialsReadable
  <2> SUFFICES ASSUME IInv PROVE CredentialsReadable
    OBVIOUS
  <2>1. TypeOK /\ Counted /\ Down /\ UsageReserved /\ Numbered
    BY DEF IInv
  <2>2. keyset.reserved \in Nat /\ Cardinality(Saved) \in Nat
    BY <2>1, Numbers, FS_CardinalityType DEF Counted
  <2>3. Cardinality(Saved) <= keyset.reserved
    <3>1. CASE Saved = {}
      <4>1. Cardinality(Saved) = 0
        BY <3>1, FS_EmptySet
      <4> QED
        BY <2>2, <4>1
    <3>2. CASE Saved # {}
      <4>1. keyset.phase = "ready" /\ Cardinality(Saved) <= used[keyset.key]
        BY <2>1, <3>2 DEF Counted
      <4>2. Cardinality(Saved) <= used[keyset.key]
        BY <4>1
      <4>3. keyset.key \in 1..MaxKeys
        BY <2>1, <4>1, Numbers DEF Numbered
      <4>4. used[keyset.key] \in Nat
        BY <2>1, <4>3, Numbers
      <4>5. NoKeyset.phase = ""
        BY DEF NoKeyset
      <4>6. db
        BY <2>1, <4>1, <4>5 DEF Down
      <4>7. used[keyset.key] > 0 => used[keyset.key] <= keyset.reserved
        BY <2>1, <4>3, <4>6 DEF UsageReserved
      <4> QED
        BY <2>2, <4>2, <4>4, <4>7
    <3> QED
      BY <3>1, <3>2
  <2> QED
    BY <2>1, <2>3 DEF Counted, CredentialsReadable, Saved
<1> QED
  BY <1>1, KeysetInvariant, PTL

\* No interleaving of creations, crashes and abandoned calls makes Unlock
\* generate a second keyset over a ready one, or MarkReady reset its accounting.
THEOREM NeverReplacedThm == Spec => NeverReplaced
<1>1. IInv /\ [Next]_vars =>
        [keyset.phase = "ready" /\ db' =>
           /\ keyset'.phase = "ready" /\ keyset'.key = keyset.key
           /\ keyset'.reserved >= keyset.reserved]_vars
  <2> SUFFICES ASSUME IInv, [Next]_vars
               PROVE  keyset.phase = "ready" /\ db' =>
                        /\ keyset'.phase = "ready" /\ keyset'.key = keyset.key
                        /\ keyset'.reserved >= keyset.reserved
    OBVIOUS
  <2>1. keyset.reserved \in Nat
    BY Numbers DEF IInv
  <2>2. \A n \in {keyset.reserved, keyset.reserved + 1} : n >= keyset.reserved
    BY <2>1
  <2> QED
    BY <2>2, ReadyStays, RemovalFacts
<1> QED
  BY <1>1, KeysetInvariant, PTL DEF Spec, NeverReplaced
=============================================================================
