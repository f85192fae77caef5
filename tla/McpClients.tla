----------------------------- MODULE McpClients -----------------------------
(***************************************************************************)
(* The MCP client of one server name: connecting, disconnecting, storing   *)
(* the client that an authorization has produced, and the tool list that   *)
(* follows the server's notifications.                                     *)
(*                                                                         *)
(* Source: packages/opencode/src/mcp/index.ts.                             *)
(*                                                                         *)
(* Names share no state.  A client is the number of the connection it      *)
(* was made for; a tool list is the client that it was read from.  The     *)
(* operations take no lock: any two of them overlap at their waits.        *)
(***************************************************************************)
EXTENDS Naturals

CONSTANTS
    Callers,     \* callers of connect, add, authenticate and disconnect
    MaxClients,  \* bound: connections made
    None

ConstantAssumption == MaxClients \in Nat /\ None \notin Nat

ClientIds == 1..MaxClients

VARIABLES
    stored,       \* s.clients[name], or None
    offered,      \* the client whose tools are in s.defs[name], or None
    reported,     \* s.status[name]
    connections,  \* connections made so far
    alive,        \* the clients that are not closed
    doing,        \* doing[c]: what caller c does
    watched,      \* clients whose notifications are listened to
    listing       \* clients whose tools are being listed after a notification

vars == <<stored, offered, reported, connections, alive, doing, watched, listing>>

Idle == [at |-> "idle", new |-> None]

TypeOK ==
    /\ stored \in ClientIds \cup {None} /\ offered \in ClientIds \cup {None}
    /\ reported \in {"none", "connected", "disabled", "failed"}
    /\ connections \in 0..MaxClients
    /\ alive \subseteq ClientIds
    /\ doing \in [Callers -> [at : {"idle", "create", "authorize", "store", "drop", "disconnect"},
                           new : ClientIds \cup {None}]]
    /\ watched \subseteq ClientIds /\ listing \subseteq ClientIds

Init ==
    /\ stored = None /\ offered = None
    /\ reported = "none"
    /\ connections = 0
    /\ alive = {}
    /\ doing = [c \in Callers |-> Idle]
    /\ watched = {} /\ listing = {}

----------------------------------------------------------------------------
\* closeClient: the tools go at once and the client is told to close; the caller
\* waits for that only if there is a client.
CloseBegins ==
    /\ offered' = None
    /\ alive' = alive \ {stored}

Go(c, at, n) == doing' = [doing EXCEPT ![c] = [at |-> at, new |-> n]]

\* storeClient, after the old client has been closed.
Store(n) ==
    /\ reported' = "connected"
    /\ stored' = n
    /\ watched' = watched \cup {n}

\* connect and add; the configuration may say that the server is disabled.
Connect(c) ==
    /\ doing[c].at = "idle"
    /\ Go(c, "create", None)
    /\ UNCHANGED <<stored, offered, reported, connections, alive, watched, listing>>

\* authenticate, when the server lets the new client in at once.
Authenticate(c) ==
    /\ doing[c].at = "idle"
    /\ Go(c, "authorize", None)
    /\ UNCHANGED <<stored, offered, reported, connections, alive, watched, listing>>

\* The new client is connected and its tools are listed.
Connected(c) ==
    /\ doing[c].at \in {"create", "authorize"}
    /\ connections < MaxClients
    /\ connections' = connections + 1
    /\ LET n == connections + 1 IN
        \/ /\ stored = None
           /\ Store(n)
           /\ offered' = n
           /\ alive' = alive \cup {n}
           /\ Go(c, "idle", None)
        \/ /\ stored # None
           /\ offered' = None
           /\ alive' = (alive \ {stored}) \cup {n}
           /\ reported' = IF doing[c].at = "create" THEN "connected" ELSE reported
           /\ Go(c, "store", n)
           /\ UNCHANGED <<stored, watched>>
    /\ UNCHANGED listing

\* The old client is closed: the new one takes its place.
Stored(c) ==
    /\ doing[c].at = "store"
    /\ Store(doing[c].new)
    /\ offered' = doing[c].new
    /\ Go(c, "idle", None)
    /\ UNCHANGED <<connections, alive, listing>>

\* No connection, no tools, or a disabled server: the old client goes.
ConnectFails(c, why) ==
    /\ doing[c].at = "create"
    /\ reported' = why
    /\ CloseBegins
    /\ Go(c, IF stored = None THEN "idle" ELSE "drop", None)
    /\ UNCHANGED <<stored, connections, watched, listing>>

AuthorizationFails(c) ==
    /\ doing[c].at = "authorize"
    /\ Go(c, "idle", None)
    /\ UNCHANGED <<stored, offered, reported, connections, alive, watched, listing>>

Disconnect(c) ==
    /\ doing[c].at = "idle"
    /\ CloseBegins
    /\ \/ /\ stored = None
          /\ reported' = "disabled"
          /\ UNCHANGED doing
       \/ /\ stored # None
          /\ Go(c, "disconnect", None)
          /\ UNCHANGED reported
    /\ UNCHANGED <<stored, connections, watched, listing>>

\* The close has returned: whatever client is stored now is forgotten.
Dropped(c) ==
    /\ doing[c].at \in {"drop", "disconnect"}
    /\ stored' = None
    /\ reported' = IF doing[c].at = "disconnect" THEN "disabled" ELSE reported
    /\ Go(c, "idle", None)
    /\ UNCHANGED <<offered, connections, alive, watched, listing>>

----------------------------------------------------------------------------
(* watch: the server says that its tools have changed.                     *)

Current(n) == stored = n /\ reported = "connected"

ToolsChanged(n) ==
    /\ n \in watched /\ n \in alive
    /\ Current(n)
    /\ listing' = listing \cup {n}
    /\ UNCHANGED <<stored, offered, reported, connections, alive, doing, watched>>

\* Mutant of ToolsListed: the client may have been replaced meanwhile.
ToolsListedLate(n) ==
    /\ n \in listing
    /\ listing' = listing \ {n}
    /\ offered' \in {offered, n}
    /\ UNCHANGED <<stored, reported, connections, alive, doing, watched>>

\* The list is there, unless listing has failed; it counts only if the client is
\* still the current one.
ToolsListed(n) ==
    /\ n \in listing
    /\ listing' = listing \ {n}
    /\ offered' \in {offered} \cup {m \in {n} : Current(m)}
    /\ UNCHANGED <<stored, reported, connections, alive, doing, watched>>

----------------------------------------------------------------------------

Next ==
    \/ \E c \in Callers :
        \/ Connect(c) \/ Authenticate(c) \/ Disconnect(c)
        \/ Connected(c) \/ Stored(c) \/ AuthorizationFails(c) \/ Dropped(c)
        \/ \E why \in {"failed", "disabled"} : ConnectFails(c, why)
    \/ \E n \in ClientIds : ToolsChanged(n) \/ ToolsListed(n)

Spec == Init /\ [][Next]_vars

----------------------------------------------------------------------------
(* Properties.                                                             *)

Quiet == \A c \in Callers : doing[c].at = "idle"

\* Whatever connects, disconnects, authorizations and tool notifications
\* overlap, the tools offered to the model are those of the client that would
\* be called, and once the operations are over that client has not been closed
\* by one of them.
ToolsBelongToClient ==
    /\ stored # None /\ offered # None => offered = stored
    /\ Quiet /\ stored # None => stored \in alive
=============================================================================
