------------------------------ MODULE Account ------------------------------
(***************************************************************************)
(* account/account.ts and account/repo.ts: the tokens of one account.  Who *)
(* needs the access token reads the account's row and, when the token has  *)
(* nearly expired, has it refreshed.  The refreshes go through a cache in  *)
(* which concurrent callers join the one that is under way; nothing stays  *)
(* in it afterwards (timeToLive 0).  The server takes a refresh token once *)
(* and gives a pair of new tokens for it.                                  *)
(*                                                                         *)
(* A pair of tokens is the number under which the server issued it.        *)
(***************************************************************************)
EXTENDS Naturals

CONSTANTS
    Callers,   \* those that need a token: config, orgs, token
    MaxTokens, \* bound on the pairs of tokens that the server issues
    None

ConstantAssumption == MaxTokens \in Nat /\ None \notin Nat

VARIABLES
    row,       \* the account's row: its pair of tokens, or None
    fresh,     \* isTokenFresh of the row's access token
    issued,    \* pairs issued by the server so far
    caller,    \* "idle", "read" (the row has been read), "joined"
    lookup,    \* the refresh under way: "none", "start", "sent" or "answered"
    leader,    \* the caller whose fiber does it
    mine,      \* the refresh token that it has read and sends
    answer,    \* the pair that the server has given for it
    spent,     \* history: refresh tokens that the server has taken
    reused,    \* history: a refresh token was sent that had been taken before
    lost       \* history: an answer of the server was never stored

vars == <<row, fresh, issued, caller, lookup, leader, mine, answer, spent, reused, lost>>

Pairs == 1..MaxTokens

TypeOK ==
    /\ row \in Pairs \cup {None} /\ fresh \in BOOLEAN
    /\ issued \in 0..MaxTokens
    /\ caller \in [Callers -> {"idle", "read", "joined"}]
    /\ lookup \in {"none", "start", "sent", "answered"}
    /\ leader \in Callers \cup {None}
    /\ mine \in Pairs \cup {None} /\ answer \in Pairs \cup {None}
    /\ spent \subseteq Pairs /\ reused \in BOOLEAN /\ lost \in BOOLEAN

Init ==
    /\ row = None /\ fresh = FALSE /\ issued = 0
    /\ caller = [c \in Callers |-> "idle"]
    /\ lookup = "none" /\ leader = None /\ mine = None /\ answer = None
    /\ spent = {} /\ reused = FALSE /\ lost = FALSE

refreshing == <<lookup, leader, mine, answer>>
history == <<spent, reused, lost>>

----------------------------------------------------------------------------
\* poll, once the user has logged in: a new pair for a new or a known account.
PersistAccount ==
    /\ issued < MaxTokens
    /\ issued' = issued + 1
    /\ row' = issued + 1 /\ fresh' = TRUE
    /\ UNCHANGED <<caller, refreshing, history>>

Remove ==
    /\ row # None
    /\ row' = None /\ fresh' = FALSE
    /\ UNCHANGED <<issued, caller, refreshing, history>>

\* The token comes within five minutes of its end.
Expires ==
    /\ fresh
    /\ fresh' = FALSE
    /\ UNCHANGED <<row, issued, caller, refreshing, history>>

----------------------------------------------------------------------------
\* resolveAccess with the test of resolveToken: no account or a fresh token
\* ends the call, otherwise the cache is asked next.
ResolveAccess(c) ==
    /\ caller[c] = "idle"
    /\ row # None /\ ~fresh
    /\ caller' = [caller EXCEPT ![c] = "read"]
    /\ UNCHANGED <<row, fresh, issued, refreshing, history>>

\* A refresh that is under way is joined; it answers all of them.
JoinRefresh(c) ==
    /\ caller[c] = "read" /\ lookup # "none"
    /\ caller' = [caller EXCEPT ![c] = "joined"]
    /\ UNCHANGED <<row, fresh, issued, refreshing, history>>

\* Mutant of StartRefresh: the cache lets go of a refresh before it is stored.
StartRefreshEarly(c) ==
    /\ caller[c] = "read" /\ lookup \in {"none", "answered"}
    /\ caller' = [caller EXCEPT ![c] = "joined"]
    /\ lookup' = "start" /\ leader' = c
    /\ UNCHANGED <<row, fresh, issued, mine, answer, history>>

StartRefresh(c) ==
    /\ caller[c] = "read" /\ lookup = "none"
    /\ caller' = [caller EXCEPT ![c] = "joined"]
    /\ lookup' = "start" /\ leader' = c
    /\ UNCHANGED <<row, fresh, issued, mine, answer, history>>

\* Leader and joined callers return, with the token or with the error.
RefreshOver ==
    /\ lookup' = "none" /\ leader' = None /\ mine' = None /\ answer' = None
    /\ caller' = [c \in Callers |-> IF caller[c] = "joined" THEN "idle" ELSE caller[c]]

\* The row is read anew: it may have been removed or refreshed since.
NeedsRefresh == row # None /\ ~fresh

LookupEnds ==
    /\ lookup = "start" /\ ~NeedsRefresh
    /\ RefreshOver
    /\ UNCHANGED <<row, fresh, issued, history>>

\* refreshToken: the request for a new pair.
SendRefresh ==
    /\ lookup = "start" /\ NeedsRefresh
    /\ lookup' = "sent" /\ mine' = row
    /\ reused' = (reused \/ row \in spent)
    /\ UNCHANGED <<row, fresh, issued, caller, leader, answer, spent, lost>>

ServerAnswers ==
    /\ lookup = "sent" /\ mine \notin spent /\ issued < MaxTokens
    /\ spent' = spent \cup {mine}
    /\ issued' = issued + 1
    /\ lookup' = "answered" /\ answer' = issued + 1
    /\ UNCHANGED <<row, fresh, caller, leader, mine, reused, lost>>

\* The request does not reach the server, or the server refuses it.
RequestFails ==
    /\ lookup = "sent"
    /\ RefreshOver
    /\ UNCHANGED <<row, fresh, issued, history>>

\* persistToken changes the account's row if there is one; the new token may be
\* so short-lived that it counts as expired at once.
PersistToken ==
    /\ lookup = "answered"
    /\ row' = IF row = None THEN None ELSE answer
    /\ \E f \in BOOLEAN : fresh' = IF row = None THEN FALSE ELSE f
    /\ RefreshOver
    /\ UNCHANGED <<issued, history>>

\* The answer is lost on its way or cannot be decoded or stored, or the leader
\* is interrupted.
RefreshLost ==
    /\ lookup \in {"start", "sent", "answered"}
    /\ lost' = (lost \/ lookup = "answered")
    /\ RefreshOver
    /\ UNCHANGED <<row, fresh, issued, spent, reused>>

\* A joined caller goes away.
Leave(c) ==
    /\ caller[c] = "joined" /\ c # leader
    /\ caller' = [caller EXCEPT ![c] = "idle"]
    /\ UNCHANGED <<row, fresh, issued, refreshing, history>>

Next ==
    \/ PersistAccount \/ Remove \/ Expires
    \/ \E c \in Callers : ResolveAccess(c) \/ JoinRefresh(c) \/ StartRefresh(c) \/ Leave(c)
    \/ LookupEnds \/ SendRefresh \/ ServerAnswers \/ RequestFails \/ PersistToken \/ RefreshLost

Spec == Init /\ [][Next]_vars

----------------------------------------------------------------------------
\* A refresh token that the server has taken is not sent again, however the
\* calls of one process overlap with logins and removals, unless the server's
\* answer to it was lost (account/account.ts, refreshTokenCache).
RefreshUsedOnce == reused => lost
=============================================================================
