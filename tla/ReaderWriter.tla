---------------------------- MODULE ReaderWriter ----------------------------
(***************************************************************************)
(* The abstract reader-writer lock.  It is what one rwQueue promises to    *)
(* the goroutines of a process, and what the leases of an installation     *)
(* promise to all the processes that open it: any number of shared holders *)
(* or one exclusive holder.  Holders may leave several at a time, because  *)
(* a process that dies gives up all it held at once.                       *)
(***************************************************************************)
EXTENDS FiniteSets

CONSTANT Actors

VARIABLES shared,      \* actors that hold the lock for reading
          exclusive    \* actors that hold the lock for writing

vars == <<shared, exclusive>>

Init == shared = {} /\ exclusive = {}

AcquireShared(a) ==
    /\ exclusive = {}
    /\ a \notin shared
    /\ shared' = shared \cup {a}
    /\ UNCHANGED exclusive

AcquireExclusive(a) ==
    /\ shared = {} /\ exclusive = {}
    /\ exclusive' = {a}
    /\ UNCHANGED shared

\* The actors of S leave; S meets the holders, so this is never a stutter.
Leave(S) ==
    /\ S # {}
    /\ shared' = shared \ S
    /\ exclusive' = exclusive \ S

Next ==
    \/ \E a \in Actors : AcquireShared(a) \/ AcquireExclusive(a)
    \/ \E S \in SUBSET Actors : S \subseteq shared \cup exclusive /\ Leave(S)

Spec == Init /\ [][Next]_vars
=============================================================================
