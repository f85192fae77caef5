--------------------------- MODULE WorkspaceSync ---------------------------
(***************************************************************************)
(* One session's event log on the control plane (Main) and on the remote   *)
(* workspaces: sync/index.ts (run, replay, replayAll, claim), the sync     *)
(* loop and sessionWarp of control-plane/workspace.ts, and the handlers    *)
(* history, replay and steal of the sync API.                              *)
(*                                                                         *)
(* The sequence number of an event is its place in the log.  An event that *)
(* moves the session names the workspace; the others are alike.  Main's    *)
(* session row is what the projector makes of its log, so where a request  *)
(* goes is read off that log.                                              *)
(***************************************************************************)
EXTENDS Integers, Sequences

CONSTANTS
    Workspaces, Main,
    BatchSize,   \* events per POST of a warp (10 in the code)
    MaxEvents,   \* bound: events ever written
    MaxWarps,    \* bound: warps ever started
    MaxDrops,    \* bound: connections ever lost
    QuietWarps,  \* nobody writes from a warp's start until Main knows its end
    Troubles     \* what may happen to warps, see Trouble

ASSUME BatchAssumption == BatchSize \in Nat \ {0}
ASSUME BoundsAssumption == MaxEvents \in Nat /\ MaxWarps \in Nat /\ MaxDrops \in Nat
ASSUME MainAssumption == Main \notin Workspaces

\* oneWay: only sessions that are on Main are moved; fails: a request of a
\* warp may fail; answers: whether a workspace answers the last history request.
Trouble == [oneWay : BOOLEAN, fails : BOOLEAN, answers : SUBSET BOOLEAN]
ASSUME TroublesAssumption == QuietWarps \in BOOLEAN /\ Troubles \subseteq Trouble

Devices == Workspaces \cup {Main}
Stay == "stay"
Events == [id : 1..MaxEvents, to : Devices \cup {Stay}]

\* The ids of workspaces are none of the words used here.
ASSUME NamesAssumption == Stay \notin Devices /\ "nobody" \notin Devices

VARIABLES
    log,     \* device -> its events, in order of their sequence numbers
    owner,   \* Main's event_sequence.owner_id ("nobody" before a claim)
    holder,  \* history: the device the last completed warp moved the session to
    active,  \* devices on which a loop runs for the session
    up,      \* workspace -> state of Main's sync loop for it
    stream,  \* workspace -> [seq, event] sent on the event stream, not yet read
    batch,   \* workspace -> the history response being replayed
    warp,    \* [at, to, rows]: the warp under way
    trouble, \* the one of Troubles this behaviour meets, chosen once
    events, warps, drops   \* counters of the bounds

syncVars == <<up, stream, batch>>
counters == <<events, warps, drops>>
vars == <<log, owner, holder, active, syncVars, warp, trouble, counters>>

NoWarp == [at |-> "idle", to |-> Main, rows |-> <<>>]

Init ==
    /\ log = [d \in Devices |-> <<>>]
    /\ owner = "nobody"
    /\ holder = Main
    /\ active = {}
    /\ up = [w \in Workspaces |-> "down"]
    /\ stream = [w \in Workspaces |-> <<>>]
    /\ batch = [w \in Workspaces |-> <<>>]
    /\ warp = NoWarp
    /\ trouble \in Troubles
    /\ events = 0 /\ warps = 0 /\ drops = 0

\* The session row: the workspace of the last event that moved it.
Moves(l) == {i \in DOMAIN l : l[i].to # Stay}
Where(l) == IF Moves(l) = {} THEN Main
            ELSE l[CHOOSE i \in Moves(l) : \A j \in Moves(l) : j <= i].to

----------------------------------------------------------------------------
\* Mutant of Run: nothing is sent before the stream is read.
RunUnsent(d, to) ==
    LET e == [id |-> events + 1, to |-> to] IN
    /\ events < MaxEvents
    /\ events' = events + 1
    /\ log' = [log EXCEPT ![d] = Append(@, e)]
    /\ stream' = IF d \in Workspaces /\ up[d] = "live"
                 THEN [stream EXCEPT ![d] = Append(@, [seq |-> Len(log[d]) + 1, event |-> e])]
                 ELSE stream

\* run: the next sequence number, the projection and the rows in one
\* transaction; then the event goes out on d's event stream.
Run(d, to) ==
    LET e == [id |-> events + 1, to |-> to] IN
    /\ events < MaxEvents
    /\ events' = events + 1
    /\ log' = [log EXCEPT ![d] = Append(@, e)]
    /\ stream' = IF d \in Workspaces /\ up[d] # "down"
                 THEN [stream EXCEPT ![d] = Append(@, [seq |-> Len(log[d]) + 1, event |-> e])]
                 ELSE stream

\* replay: what is known is ignored, so is what comes from another owner; a
\* gap is an error.  The callers on Main pass no ownerID.
Fits(l, m) == m.seq = Len(l) + 1

\* Mutant of Replay: what is known is replayed again.
ReplayAgain(l, owned, m) == IF m.seq > Len(l) + 1 \/ owned THEN l ELSE Append(l, m.event)

Replay(l, owned, m) == IF Fits(l, m) /\ ~owned THEN Append(l, m.event) ELSE l

\* Replaying several, each the successor of the one before: either the first
\* leaves a gap, or those that are not known yet are added.
ReplayAll(l, owned, ms) ==
    IF owned \/ ms = <<>> \/ ms[1].seq > Len(l) + 1 THEN l
    ELSE LET known == Len(l) + 1 - ms[1].seq
         IN  l \o [i \in 1..(Len(ms) - known) |-> ms[known + i].event]

Owned == owner # "nobody"

\* The rows of a log after the first n.
Rows(l, n) == [i \in 1..(Len(l) - n) |-> [seq |-> n + i, event |-> l[n + i]]]

----------------------------------------------------------------------------
\* Requests go where Main's row says; the loop there writes until it ends.
\* (isSyncing refuses some of them while the workspace is down: not told apart.)
Settled == warp = NoWarp /\ Where(log[Main]) = holder

Prompt ==
    /\ QuietWarps => Settled
    /\ active' = active \cup {Where(log[Main])}
    /\ UNCHANGED <<log, owner, holder, syncVars, warp, counters, trouble>>

Write(d) ==
    /\ d \in active
    /\ Run(d, Stay)
    /\ UNCHANGED <<owner, holder, active, up, batch, warp, warps, drops, trouble>>

Stop(d) ==
    /\ d \in active
    /\ active' = active \ {d}
    /\ UNCHANGED <<log, owner, holder, syncVars, warp, counters, trouble>>

----------------------------------------------------------------------------
\* syncWorkspaceLoop: the stream is opened first, then the history is asked
\* for and replayed, then the stream is read.
Connect(w) ==
    /\ up[w] = "down"
    /\ up' = [up EXCEPT ![w] = "connected"]
    /\ UNCHANGED <<log, owner, holder, active, stream, batch, warp, counters, trouble>>

\* The request names the sessions whose row says w, and what is known of
\* them; without a known number the whole log is the answer.
Asked(w) == Rows(log[w], IF Where(log[Main]) = w THEN Len(log[Main]) ELSE 0)

FetchHistory(w) ==
    /\ up[w] = "connected"
    /\ batch' = [batch EXCEPT ![w] = Asked(w)]
    /\ up' = [up EXCEPT ![w] = "history"]
    /\ UNCHANGED <<log, owner, holder, active, stream, warp, counters, trouble>>

ReplayHistory(w) ==
    /\ up[w] = "history"
    /\ log' = [log EXCEPT ![Main] = ReplayAll(@, Owned, batch[w])]
    /\ batch' = [batch EXCEPT ![w] = <<>>]
    /\ up' = [up EXCEPT ![w] = "live"]
    /\ UNCHANGED <<owner, holder, active, stream, warp, counters, trouble>>

\* Mutant of ReadStream: the event is dropped when it was read.
StreamUnread(w) ==
    /\ up[w] = "live" /\ stream[w] # <<>>
    /\ stream' = [stream EXCEPT ![w] = Tail(@)]
    /\ UNCHANGED <<log, owner, holder, active, up, batch, warp, counters, trouble>>

ReadStream(w) ==
    /\ up[w] = "live" /\ stream[w] # <<>>
    /\ log' = [log EXCEPT ![Main] = Replay(@, Owned, Head(stream[w]))]
    /\ stream' = [stream EXCEPT ![w] = Tail(@)]
    /\ UNCHANGED <<owner, holder, active, up, batch, warp, counters, trouble>>

\* The connection is lost, and what was under way with it.
Drop(w) ==
    /\ up[w] # "down" /\ drops < MaxDrops
    /\ drops' = drops + 1
    /\ up' = [up EXCEPT ![w] = "down"]
    /\ stream' = [stream EXCEPT ![w] = <<>>]
    /\ batch' = [batch EXCEPT ![w] = <<>>]
    /\ UNCHANGED <<log, owner, holder, active, warp, events, warps, trouble>>

----------------------------------------------------------------------------
\* sessionWarp: a last history from the workspace the session leaves, if it
\* answers, and the claim; then the log is posted and the target steals it.
WarpStart(to) ==
    /\ warp = NoWarp /\ warps < MaxWarps
    /\ QuietWarps => Settled /\ active = {}
    /\ trouble.oneWay => Where(log[Main]) = Main
    /\ to # Where(log[Main])
    /\ warps' = warps + 1
    /\ warp' = [at |-> IF Where(log[Main]) = Main THEN "move" ELSE "leave", to |-> to, rows |-> <<>>]
    /\ UNCHANGED <<log, owner, holder, active, syncVars, events, drops, trouble>>

\* Mutant of WarpLeave: the claim comes first.
ClaimFirst(answers) ==
    LET w == Where(log[Main]) IN
    /\ warp.at = "leave" /\ w \in Workspaces
    /\ log' = IF answers THEN [log EXCEPT ![Main] = ReplayAll(@, TRUE, Asked(w))] ELSE log
    /\ owner' = warp.to
    /\ warp' = [warp EXCEPT !.at = "move"]
    /\ UNCHANGED <<holder, active, syncVars, counters, trouble>>

WarpLeave(answers) ==
    LET w == Where(log[Main]) IN
    /\ warp.at = "leave" /\ w \in Workspaces
    /\ log' = IF answers THEN [log EXCEPT ![Main] = ReplayAll(@, Owned, Asked(w))] ELSE log
    /\ owner' = warp.to
    /\ warp' = [warp EXCEPT !.at = "move"]
    /\ UNCHANGED <<holder, active, syncVars, counters, trouble>>

\* Back to Main: an event of Main's own.
WarpHome ==
    /\ warp.at = "move" /\ warp.to = Main
    /\ Run(Main, Main)
    /\ holder' = Main
    /\ warp' = NoWarp
    /\ UNCHANGED <<owner, active, up, batch, warps, drops, trouble>>

\* Without rows there is nothing to move.
WarpRead ==
    /\ warp.at = "move" /\ warp.to # Main
    /\ warp' = IF log[Main] = <<>> THEN NoWarp
               ELSE [warp EXCEPT !.at = "post", !.rows = Rows(log[Main], 0)]
    /\ UNCHANGED <<log, owner, holder, active, syncVars, counters, trouble>>

Cut(s, n) == SubSeq(s, n + 1, Len(s))
First(s, n) == IF Len(s) <= n THEN s ELSE SubSeq(s, 1, n)

WarpPost ==
    /\ warp.at = "post" /\ warp.rows # <<>>
    /\ log' = [log EXCEPT ![warp.to] = ReplayAll(@, FALSE, First(warp.rows, BatchSize))]
    /\ warp' = [warp EXCEPT !.rows = Cut(@, BatchSize)]
    /\ UNCHANGED <<owner, holder, active, syncVars, counters, trouble>>

WarpSteal ==
    /\ warp.at = "post" /\ warp.rows = <<>>
    /\ Run(warp.to, warp.to)
    /\ holder' = warp.to
    /\ warp' = NoWarp
    /\ UNCHANGED <<owner, active, up, batch, warps, drops, trouble>>

\* A request of the warp fails.
WarpFail ==
    /\ trouble.fails
    /\ warp.at \in {"move", "post"} /\ warp.to # Main
    /\ warp' = NoWarp
    /\ UNCHANGED <<log, owner, holder, active, syncVars, counters, trouble>>

----------------------------------------------------------------------------
SyncLoop(w) == Connect(w) \/ FetchHistory(w) \/ ReplayHistory(w) \/ ReadStream(w)

WarpStep == (\E a \in trouble.answers : WarpLeave(a)) \/ WarpHome \/ WarpRead \/ WarpPost \/ WarpSteal

Next == \/ Prompt \/ WarpStep \/ WarpFail
        \/ \E d \in Devices : Write(d) \/ Stop(d) \/ WarpStart(d)
        \/ \E w \in Workspaces : SyncLoop(w) \/ Drop(w)

Spec == Init /\ [][Next]_vars

\* The loop reconnects after a delay, requests are answered, and from some
\* time on the connection stays.
FairSpec == Spec /\ \A w \in Workspaces : WF_vars(SyncLoop(w))
----------------------------------------------------------------------------
Messages == [seq : 1..MaxEvents, event : Events]

TypeOK ==
    /\ \A d \in Devices : \A i \in DOMAIN log[d] : log[d][i] \in Events
    /\ owner \in Devices \cup {"nobody"}
    /\ holder \in Devices /\ active \subseteq Devices
    /\ up \in [Workspaces -> {"down", "connected", "history", "live"}]
    /\ \A w \in Workspaces : \A i \in DOMAIN stream[w] : stream[w][i] \in Messages
    /\ \A w \in Workspaces : \A i \in DOMAIN batch[w] : batch[w][i] \in Messages
    /\ warp.at \in {"idle", "leave", "move", "post"} /\ warp.to \in Devices
    /\ trouble \in Troubles /\ events \in 0..MaxEvents
    /\ \A w \in Workspaces : (up[w] = "down" => stream[w] = <<>>) /\ (up[w] # "history" => batch[w] = <<>>)

\* README: "Because only one device is allowed to write": equal sequence
\* numbers mean equal events, on Main and on every workspace.
SameSeqSameEvent ==
    \A w \in Workspaces : \A i \in DOMAIN log[Main] \cap DOMAIN log[w] :
        log[Main][i] = log[w][i]

\* No event comes before the ones it follows: neither the stream nor a
\* history leaves a gap, so no replay fails and no event is skipped.
NoGaps ==
    \A w \in Workspaces :
        ~Owned /\ up[w] = "live" /\ stream[w] # <<>> => Head(stream[w]).seq <= Len(log[Main]) + 1

\* What Main and the workspaces hold and have sent agrees: both of the above,
\* with every variable in its type.
LogsAgree == TypeOK /\ SameSeqSameEvent /\ NoGaps

\* The devices implement a log with one writer.
Single == INSTANCE OneWriterLog WITH copy <- log

ImplementsOneWriterLog == Single!Spec

\* What the workspace that has the session has written reaches Main.
CatchesUp ==
    \A w \in Workspaces, n \in 1..MaxEvents :
        (trouble.oneWay /\ holder = w /\ Len(log[w]) >= n) ~> (holder # w \/ Len(log[Main]) >= n)

\* workspace.ts: a claim is made "so any future events coming from the old
\* workspace are ignored"; the ones of the new workspace are replayed.
MovedIsFollowed ==
    (/\ warp = NoWarp /\ active = {}
     /\ \A w \in Workspaces : up[w] = "live" /\ stream[w] = <<>>)
    => log[Main] = log[holder]

\* It is followed as long as only sessions of Main are moved.
MovedAwayIsFollowed == trouble.oneWay => MovedIsFollowed
=============================================================================
