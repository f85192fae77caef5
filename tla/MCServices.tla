----------------------------- MODULE MCServices -----------------------------
(***************************************************************************)
(* The values of the constants of Services for one run.  What is told      *)
(* apart by nothing is named in the order of its use: only the behaviours  *)
(* in which a comes first are followed.                                    *)
(***************************************************************************)
EXTENDS Services, TLC

CONSTANTS a, b, safe, push, banned

MCHandlers == {<<a>>, <<a, b>>, <<b, a>>}

\* push is neither allowed nor denied, so the user is asked.
Ruleset == safe :> "allow" @@ push :> "ask" @@ banned :> "deny"

Input(ps, al, risk, deny) ==
    [patterns |-> ps, always |-> al, risk |-> risk, roleDeny |-> deny, projectWrite |-> FALSE]

\* The first is forced to be asked, the second is denied by its pattern and
\* the third by its role.
DeniedInputs == {Input({push}, {push, banned}, "high", FALSE),
                 Input({safe, banned}, {}, "medium", FALSE),
                 Input({push}, {push}, "low", TRUE)}

\* One initial state is enough for a component that does not move, and of two
\* callers one is followed.
MCInit ==
    /\ Init
    /\ focus # "answer" => ~break /\ ~summary
    /\ focus # "undo" => \A f \in DOMAIN files : files[f] = Absent
    /\ focus # "share" => ~row
    /\ who # b

AComesFirst ==
    /\ dir'[1] # b
    /\ part'[b] # "none" => part'[a] # "none"
    /\ terminal'[b] # "none" => terminal'[a] # "none"
    /\ (serves[a] = Nil /\ serves'[a] # Nil) => serves'[a] = a
    /\ (rpc[b] = "idle" /\ rpc'[b] # "idle") => rpc[a] # "idle"
    /\ \A o \in {<<a, b>>, <<b, Nil>>} :
        (doing[o[2]].at = "idle" /\ doing'[o[2]].at # "idle") => doing[o[1]].at # "idle"
    /\ (phase[b] = "idle" /\ phase'[b] # "idle") => phase[a] # "idle"

MCSpec == MCInit /\ [][Next /\ AComesFirst]_vars /\ Fairness
=============================================================================
