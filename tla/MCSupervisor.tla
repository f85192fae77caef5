---------------------------- MODULE MCSupervisor ----------------------------
(* A reader, a writer and a second reader; what may go wrong, one by one.  *)
EXTENDS Supervisor

CONSTANTS r1, r2, w

MCCouncil == <<w>>
Fine == [interrupts |-> FALSE, parts |-> FALSE, recovery |-> FALSE, council |-> FALSE]
MCFine == {Fine}
MCTroubles == {Fine, [Fine EXCEPT !.council = TRUE], [Fine EXCEPT !.recovery = TRUE],
               [Fine EXCEPT !.interrupts = TRUE, !.parts = TRUE]}
=============================================================================
