---------------------------- MODULE OneWriterLog ----------------------------
(***************************************************************************)
(* sync/README.md: one device writes a session's log, the others replay    *)
(* it.  Only a device that has everything appends; a device learns what    *)
(* another one has, in order.                                              *)
(***************************************************************************)
EXTENDS Naturals, Sequences

CONSTANTS Devices, Events

VARIABLE copy   \* device -> its copy of the log

Prefix(s, t) == Len(s) <= Len(t) /\ \A i \in 1..Len(s) : s[i] = t[i]

Init == copy = [d \in Devices |-> <<>>]

Write(d, e) ==
    /\ \A c \in Devices : Prefix(copy[c], copy[d])
    /\ copy' = [copy EXCEPT ![d] = Append(@, e)]

Learn(d, c) ==
    /\ Prefix(copy[d], copy[c])
    /\ \E n \in Len(copy[d])..Len(copy[c]) :
         copy' = [copy EXCEPT ![d] = SubSeq(copy[c], 1, n)]

Next == \/ \E d \in Devices, e \in Events : Write(d, e)
        \/ \E d, c \in Devices : Learn(d, c)

Spec == Init /\ [][Next]_copy
=============================================================================
