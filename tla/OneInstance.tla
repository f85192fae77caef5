---------------------------- MODULE OneInstance ----------------------------
(***************************************************************************)
(* What the instance store promises, without its cache, its reloads and    *)
(* its disposers: the instances of a directory live one after another.     *)
(* One begins when none of the directory is left, it comes up or fails,    *)
(* and what is over does not begin again.  A caller is given an instance   *)
(* that has come up, and may let go of it at any time.                     *)
(***************************************************************************)
CONSTANTS Instances, Dirs, Callers, None

VARIABLES home,  \* instance -> the directory that it has begun in, or None
          fate,  \* instance -> "new", "booting", "up", "over", "failed"
          held   \* caller -> the instance that it works with, or None

vars == <<home, fate, held>>

Init == /\ home = [e \in Instances |-> None]
        /\ fate = [e \in Instances |-> "new"]
        /\ held = [c \in Callers |-> None]

Lives(e) == fate[e] \in {"booting", "up"}

Begin(d, e) ==
    /\ fate[e] = "new"
    /\ \A f \in Instances : home[f] = d => ~Lives(f)
    /\ home' = [home EXCEPT ![e] = d]
    /\ fate' = [fate EXCEPT ![e] = "booting"]

Goes(e, from, to) ==
    /\ fate[e] = from
    /\ fate' = [fate EXCEPT ![e] = to]
    /\ UNCHANGED home

Rest == UNCHANGED <<home, fate>>

LetGo(c) == held' = [held EXCEPT ![c] = None]
Kept == UNCHANGED held \/ \E c \in Callers : LetGo(c)

Hand(c, e) ==
    /\ held[c] = None
    /\ fate[e] \in {"up", "over"}
    /\ held' = [held EXCEPT ![c] = e]
    /\ Rest

Next == \/ \E e \in Instances, d \in Dirs : Begin(d, e) /\ Kept
        \/ \E e \in Instances : /\ \/ Goes(e, "booting", "up") \/ Goes(e, "booting", "failed")
                                   \/ Goes(e, "up", "over")
                                /\ Kept
        \/ Rest /\ Kept
        \/ \E c \in Callers, e \in Instances : Hand(c, e)

Spec == Init /\ [][Next]_vars
=============================================================================
