---------------------------- MODULE MCPermission ----------------------------
(* Permission on two sessions, three patterns and a few requests. *)
EXTENDS Permission, TLC

CONSTANTS s1, s2, safe, push, banned, r1

MCSessions == {s1, s2}
MCPatterns == {safe, push, banned}
MCOneReplier == {r1}

\* push is neither allowed nor denied, so the user is asked.
MCConfig == safe :> "allow" @@ push :> "ask" @@ banned :> "deny"

Input(ps, al, risk, deny, write) ==
    [patterns |-> ps, always |-> al, risk |-> risk, roleDeny |-> deny, projectWrite |-> write]

\* In auto-review mode the first is forced to be asked and the second allowed.
Forced == Input({push}, {push, banned}, "high", FALSE, FALSE)
Written == Input({safe, push}, {}, "medium", FALSE, TRUE)

MCInputs == {Forced, Written}

MCModes == {"default", "auto-review"}

\* Sessions are told apart by nothing.
SessionSymmetry == Permutations(MCSessions)
=============================================================================
