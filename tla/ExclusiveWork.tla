--------------------------- MODULE ExclusiveWork ---------------------------
(***************************************************************************)
(* What a Runner promises, without its fibers, deferreds and callbacks: a  *)
(* slot that holds at most one running piece of work and at most one that  *)
(* waits for it.  Finishing the running work starts the waiting one, and a *)
(* cancel empties the slot at once: what ran is being stopped, what waited *)
(* is over without ever having run.                                        *)
(***************************************************************************)
CONSTANTS Slots, Work, None

VARIABLES running,   \* slot -> its running work or None
          waiting,   \* slot -> its waiting work or None
          fate       \* work -> "new", "waiting", "running", "stopping", "over"

vars == <<running, waiting, fate>>

Init == /\ running = [r \in Slots |-> None]
        /\ waiting = [r \in Slots |-> None]
        /\ fate = [w \in Work |-> "new"]

Start(r, w) ==
    /\ running[r] = None /\ fate[w] = "new"
    /\ running' = [running EXCEPT ![r] = w]
    /\ fate' = [fate EXCEPT ![w] = "running"]
    /\ UNCHANGED waiting

Wait(r, w) ==
    /\ running[r] # None /\ waiting[r] = None /\ fate[w] = "new"
    /\ waiting' = [waiting EXCEPT ![r] = w]
    /\ fate' = [fate EXCEPT ![w] = "waiting"]
    /\ UNCHANGED running

Finish(r) ==
    /\ running[r] # None
    /\ running' = [running EXCEPT ![r] = waiting[r]]
    /\ waiting' = [waiting EXCEPT ![r] = None]
    /\ fate' = [w \in Work |-> IF w = running[r] THEN "over"
                               ELSE IF w = waiting[r] THEN "running"
                               ELSE fate[w]]

Cancel(r) ==
    /\ running[r] # None
    /\ running' = [running EXCEPT ![r] = None]
    /\ waiting' = [waiting EXCEPT ![r] = None]
    /\ fate' = [w \in Work |-> IF w = running[r] THEN "stopping"
                               ELSE IF w = waiting[r] THEN "over"
                               ELSE fate[w]]

Stopped(w) ==
    /\ fate[w] = "stopping"
    /\ fate' = [fate EXCEPT ![w] = "over"]
    /\ UNCHANGED <<running, waiting>>

Next == \/ \E r \in Slots : Finish(r) \/ Cancel(r)
        \/ \E r \in Slots, w \in Work : Start(r, w) \/ Wait(r, w)
        \/ \E w \in Work : Stopped(w)

Spec == Init /\ [][Next]_vars
=============================================================================
