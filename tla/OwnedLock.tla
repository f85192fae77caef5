----------------------------- MODULE OwnedLock -----------------------------
(***************************************************************************)
(* What the lock of a key promises: one owner at a time, that only its own *)
(* release or, once it is dead, an eviction takes away.  Once it is broken *)
(* nothing is promised.                                                    *)
(***************************************************************************)
CONSTANTS Procs, None

VARIABLES owner, dead, broken

Init == owner = None /\ dead = {} /\ ~broken

Acquire(p) == owner = None /\ p \notin dead /\ owner' = p /\ UNCHANGED dead
Release(p) == owner = p /\ p \notin dead /\ owner' = None /\ UNCHANGED dead
Evict == owner \in dead /\ owner' = None /\ UNCHANGED dead
Die(p) == p \notin dead /\ dead' = dead \cup {p} /\ UNCHANGED owner

Next == \/ broken'
        \/ ~broken' /\ ~broken /\ (Evict \/ \E p \in Procs : Acquire(p) \/ Release(p) \/ Die(p))

Spec == Init /\ [][Next]_<<owner, dead, broken>>
=============================================================================
