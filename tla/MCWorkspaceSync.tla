--------------------------- MODULE MCWorkspaceSync ---------------------------
(* WorkspaceSync with two remote workspaces. *)
EXTENDS WorkspaceSync, TLC

CONSTANTS wa, wb

MCWorkspaces2 == {wa, wb}

\* Sessions move from Main only, and anything may fail; or they move anywhere,
\* and nothing fails.
Outward == [oneWay |-> TRUE, fails |-> TRUE, answers |-> BOOLEAN]
Untroubled == [oneWay |-> FALSE, fails |-> FALSE, answers |-> {TRUE}]
MCEither == {Outward, Untroubled}
MCUntroubled == {Untroubled}
==============================================================================
