----------------------------- MODULE ShareQueue -----------------------------
(***************************************************************************)
(* The share of one session: how its updates are collected and sent to the *)
(* server, and how the share is made and removed.                          *)
(*                                                                         *)
(* Source: packages/opencode/src/share/share-next.ts.                      *)
(*                                                                         *)
(* An update is its number; updates of the same item replace each other in *)
(* the queue, which is left out.  Sessions share no queue.                 *)
(***************************************************************************)
EXTENDS Naturals

CONSTANTS
    MaxUpdates,  \* bound: updates of the session
    MaxCalls,    \* bound: calls of create and remove
    None

ConstantAssumption ==
    /\ MaxUpdates \in Nat /\ MaxCalls \in Nat
    /\ \A q \in SUBSET (1..MaxUpdates) : q # None

Updates == 1..MaxUpdates

VARIABLES
    updates,   \* updates of the session so far
    row,       \* whether the database has the share
    shared,    \* s.shared: "unknown", "null" or "share"
    queue,     \* s.queue: the updates that wait, or None
    timers,    \* flushes that wait for their second
    accepted,  \* the updates that have been queued
    flights,   \* what the POSTs under way carry
    sent,      \* updates that a POST has brought to the server or lost
    dropped,   \* updates given up because the session was not shared
    creating,  \* creates that wait for the server
    reading,   \* full syncs that have read the session and not queued it: the last update they saw
    removing,  \* removes that wait for the server
    calls      \* creates and removes so far

mapVars == <<row, shared, queue, timers>>
serverVars == <<flights, sent>>
callVars == <<creating, reading, removing, calls>>
vars == <<updates, accepted, dropped, mapVars, serverVars, callVars>>

TypeOK ==
    /\ updates \in 0..MaxUpdates
    /\ row \in BOOLEAN /\ shared \in {"unknown", "null", "share"}
    /\ queue \in (SUBSET Updates) \cup {None}
    /\ timers \in Nat
    /\ flights \subseteq SUBSET Updates
    /\ accepted \subseteq Updates /\ sent \subseteq Updates /\ dropped \subseteq Updates
    /\ creating \in 0..MaxCalls /\ removing \in 0..MaxCalls /\ calls \in 0..MaxCalls
    /\ reading \subseteq 0..MaxUpdates

Init ==
    /\ updates = 0
    /\ row \in BOOLEAN
    /\ shared = "unknown"
    /\ queue = None
    /\ timers = 0
    /\ flights = {}
    /\ accepted = {} /\ sent = {} /\ dropped = {}
    /\ creating = 0 /\ reading = {} /\ removing = 0
    /\ calls = 0

----------------------------------------------------------------------------
\* getCached: the answer of the database is remembered, a negative one too.
Cached == IF shared # "unknown" THEN shared ELSE IF row THEN "share" ELSE "null"

Waiting == IF queue = None THEN {} ELSE queue

\* Mutant of Sync: what waits already is overwritten.
SyncOver(items) ==
    /\ shared' = Cached
    /\ IF Cached = "share"
       THEN /\ queue' = items
            /\ timers' = IF queue = None THEN timers + 1 ELSE timers
            /\ accepted' = accepted \cup items
       ELSE UNCHANGED <<queue, timers, accepted>>

\* sync: a queue that is there is flushed by whoever made it.
Sync(items) ==
    /\ shared' = Cached
    /\ IF Cached = "share"
       THEN /\ queue' = Waiting \cup items
            /\ timers' = IF queue = None THEN timers + 1 ELSE timers
            /\ accepted' = accepted \cup items
       ELSE UNCHANGED <<queue, timers, accepted>>

\* A watcher hears of an update of the session, a message or a part.
Update ==
    /\ updates < MaxUpdates
    /\ updates' = updates + 1
    /\ Sync({updates + 1})
    /\ UNCHANGED <<row, serverVars, dropped, callVars>>

\* flush, after its second: the queue is taken out before anything is awaited.
Flush ==
    /\ timers > 0
    /\ timers' = timers - 1
    /\ queue' = None
    /\ \/ /\ queue = None
          /\ UNCHANGED <<shared, flights, dropped>>
       \/ /\ queue # None
          /\ shared' = Cached
          /\ flights' = IF Cached = "share" THEN flights \cup {queue} ELSE flights
          /\ dropped' = IF Cached = "share" THEN dropped ELSE dropped \cup queue
    /\ UNCHANGED <<updates, accepted, row, sent, callVars>>

\* The POST comes back; a failure is logged and no more.
Posted(batch) ==
    /\ batch \in flights
    /\ flights' = flights \ {batch}
    /\ sent' = sent \cup batch
    /\ UNCHANGED <<updates, accepted, mapVars, dropped, callVars>>

----------------------------------------------------------------------------

Create ==
    /\ calls < MaxCalls
    /\ calls' = calls + 1
    /\ creating' = creating + 1
    /\ UNCHANGED <<updates, accepted, mapVars, serverVars, dropped, reading, removing>>

\* The server has made the share: the full sync is forked and reads the session.
Created ==
    /\ creating > 0
    /\ creating' = creating - 1
    /\ row' = TRUE
    /\ shared' = "share"
    /\ reading' = reading \cup {updates}
    /\ UNCHANGED <<updates, accepted, queue, timers, serverVars, dropped, removing, calls>>

CreateFails ==
    /\ creating > 0
    /\ creating' = creating - 1
    /\ UNCHANGED <<updates, accepted, mapVars, serverVars, dropped, reading, removing, calls>>

\* The models are known: what was read is queued, over what was queued since.
FullSync(n) ==
    /\ n \in reading
    /\ reading' = reading \ {n}
    /\ Sync(1..n)
    /\ UNCHANGED <<updates, row, serverVars, dropped, creating, removing, calls>>

FullSyncFails(n) ==
    /\ n \in reading
    /\ reading' = reading \ {n}
    /\ UNCHANGED <<updates, accepted, mapVars, serverVars, dropped, creating, removing, calls>>

\* The share's entries in the maps go.
Forget ==
    /\ shared' = "unknown"
    /\ queue' = None
    /\ dropped' = dropped \cup Waiting

Remove ==
    /\ calls < MaxCalls
    /\ calls' = calls + 1
    /\ \/ /\ Cached = "share"
          /\ shared' = "share"
          /\ removing' = removing + 1
          /\ UNCHANGED <<queue, dropped>>
       \/ /\ Cached = "null"
          /\ Forget
          /\ UNCHANGED removing
    /\ UNCHANGED <<updates, accepted, row, timers, serverVars, creating, reading>>

Removed ==
    /\ removing > 0
    /\ removing' = removing - 1
    /\ row' = FALSE
    /\ Forget
    /\ UNCHANGED <<updates, accepted, timers, serverVars, creating, reading, calls>>

RemoveFails ==
    /\ removing > 0
    /\ removing' = removing - 1
    /\ UNCHANGED <<updates, accepted, mapVars, serverVars, dropped, creating, reading, calls>>

----------------------------------------------------------------------------

Next ==
    \/ Update \/ Flush
    \/ \E batch \in flights : Posted(batch)
    \/ Create \/ Created \/ CreateFails
    \/ \E n \in reading : FullSync(n) \/ FullSyncFails(n)
    \/ Remove \/ Removed \/ RemoveFails

Spec == Init /\ [][Next]_vars

----------------------------------------------------------------------------
(* Properties.                                                             *)

\* An update that has been queued is waiting, on its way, sent,
\* or was given up with the share: none is forgotten between the taking of the
\* queue and the POST, and a queue never waits without a flush that will come.
NoUpdateForgotten ==
    /\ queue # None => timers > 0
    /\ accepted \subseteq Waiting \cup (UNION flights) \cup sent \cup dropped
=============================================================================
