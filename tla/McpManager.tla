----------------------------- MODULE McpManager -----------------------------
(***************************************************************************)
(* The on-demand start of one heavy MCP server by the processes of a       *)
(* machine: the status file, the lock file and the preflight that a        *)
(* session does before it connects.                                        *)
(*                                                                         *)
(* Source: packages/opencode/src/dll-agent/mcp-manager.ts,                 *)
(*         packages/opencode/src/dll-agent/mcp-runtime.ts and their use in *)
(*         packages/opencode/src/session/prompt.ts.                        *)
(*                                                                         *)
(* The preflight's checks of binaries, keys, ports and roles are one       *)
(* choice.  A step of acquireLock is one call of fs or of process.kill:    *)
(* within its process nothing comes between two of them, other processes   *)
(* do.  The directory of the files is there, and a file is written whole.  *)
(* A failing effect is not caught by the try around it, so the retry count *)
(* and the cooldown are never written by a session; they are left out.     *)
(***************************************************************************)
EXTENDS Naturals

CONSTANTS
    Procs,     \* processes; each runs once
    Sessions,  \* the sessions of a process
    None

ConstantAssumption == None \notin Procs

VARIABLES
    up,         \* up[p]: "new", "up" or "dead"
    record,     \* the status file: the process recorded as running the server, or None
    mutex,      \* the lock file: the process named in it, or None
    taking,     \* taking[p]: the call that p is to make in acquireLock, for which
                \* of its sessions, and the process it has read in the lock file
    session,    \* session[p][s]: what session s of process p does about the server;
                \* "rivalled" if it connects and another process was halfway through
                \* acquireLock when it took the lock
    connected,  \* the processes whose own MCP service reports the server connected
    skipped     \* whether a start was skipped on the record of a process that was
                \* alive ("live") or not ("stale")

vars == <<up, record, mutex, taking, session, connected, skipped>>

Calls == {"out", "exists", "read", "kill", "unlink", "write"}
Out == [call |-> "out", session |-> None, pid |-> None]

TypeOK ==
    /\ up \in [Procs -> {"new", "up", "dead"}]
    /\ record \in Procs \cup {None} /\ mutex \in Procs \cup {None}
    /\ taking \in [Procs -> [call : Calls, session : Sessions \cup {None},
                             pid : Procs \cup {None}]]
    /\ session \in [Procs -> [Sessions -> {"idle", "connecting", "rivalled"}]]
    /\ connected \subseteq Procs
    /\ skipped \in {"none", "live", "stale"}

Init ==
    /\ up = [p \in Procs |-> "new"]
    /\ record = None /\ mutex = None
    /\ taking = [p \in Procs |-> Out]
    /\ session = [p \in Procs |-> [s \in Sessions |-> "idle"]]
    /\ connected = {}
    /\ skipped = "none"

Alive(p) == p # None /\ up[p] = "up"

ProcessStarts(p) ==
    /\ up[p] = "new"
    /\ up' = [up EXCEPT ![p] = "up"]
    /\ UNCHANGED <<record, mutex, taking, session, connected, skipped>>

\* The process ends; its files stay.
ProcessEnds(p) ==
    /\ up[p] = "up"
    /\ up' = [up EXCEPT ![p] = "dead"]
    /\ taking' = [taking EXCEPT ![p] = Out]
    /\ session' = [session EXCEPT ![p] = [s \in Sessions |-> "idle"]]
    /\ connected' = connected \ {p}
    /\ UNCHANGED <<record, mutex, skipped>>

----------------------------------------------------------------------------
(* preflightMcpRuntime, shouldStart and acquireLock.                       *)

Ready(p, s) ==
    /\ up[p] = "up" /\ taking[p].call = "out"
    /\ session[p][s] = "idle" /\ p \notin connected

\* The status file says that the server runs already.
SkippedAsRunning(p, s) ==
    /\ Ready(p, s)
    /\ record # None
    /\ skipped' = IF Alive(record) THEN "live" ELSE "stale"
    /\ UNCHANGED <<up, record, mutex, taking, session, connected>>

NotRunning(p, s) ==
    /\ Ready(p, s)
    /\ record = None
    /\ taking' = [taking EXCEPT ![p] = [call |-> "exists", session |-> s, pid |-> None]]
    /\ UNCHANGED <<up, record, mutex, session, connected, skipped>>

\* acquireLock goes on with the call c, or returns false.
GoesOn(p, c) == taking' = [taking EXCEPT ![p].call = c]
Refused(p) == taking' = [taking EXCEPT ![p] = Out]

\* existsSync(lock)
LockExists(p) ==
    /\ taking[p].call = "exists"
    /\ GoesOn(p, IF mutex # None THEN "read" ELSE "write")
    /\ UNCHANGED <<up, record, mutex, session, connected, skipped>>

\* readFileSync(lock), which throws when the file has gone.
LockRead(p) ==
    /\ taking[p].call = "read"
    /\ IF mutex = None THEN Refused(p)
                        ELSE taking' = [taking EXCEPT ![p].call = "kill", ![p].pid = mutex]
    /\ UNCHANGED <<up, record, mutex, session, connected, skipped>>

\* Mutant of LockKill: whatever lock is there is taken for a left-over.
LockKillAnyway(p) ==
    /\ taking[p].call = "kill"
    /\ GoesOn(p, "unlink")
    /\ UNCHANGED <<up, record, mutex, session, connected, skipped>>

\* process.kill(pid, 0): while that process lives, it keeps the lock.
LockKill(p) ==
    /\ taking[p].call = "kill"
    /\ IF Alive(taking[p].pid) THEN Refused(p) ELSE GoesOn(p, "unlink")
    /\ UNCHANGED <<up, record, mutex, session, connected, skipped>>

\* unlinkSync(lock), by path, which throws when the file has gone.
LockUnlink(p) ==
    /\ taking[p].call = "unlink"
    /\ IF mutex = None THEN Refused(p) ELSE GoesOn(p, "write")
    /\ mutex' = None
    /\ UNCHANGED <<up, record, session, connected, skipped>>

\* Who has looked at the lock and may write it still.
Halfway(p) == taking[p].call \in {"kill", "unlink", "write"}

\* writeFileSync(lock), over whatever is there: the session may connect.
LockWrite(p) ==
    /\ taking[p].call = "write"
    /\ taking' = [taking EXCEPT ![p] = Out]
    /\ mutex' = p
    /\ session' = [session EXCEPT ![p][taking[p].session] =
                      IF \E q \in Procs \ {p} : Halfway(q) THEN "rivalled" ELSE "connecting"]
    /\ UNCHANGED <<up, record, connected, skipped>>

----------------------------------------------------------------------------
Connects(p, s) == session[p][s] \in {"connecting", "rivalled"}

\* The connection has come about, or has been refused: the server is recorded as
\* running either way.
ConnectReturns(p, s, ok) ==
    /\ Connects(p, s) /\ taking[p].call = "out"
    /\ session' = [session EXCEPT ![p][s] = "idle"]
    /\ record' = p
    /\ connected' = IF ok THEN connected \cup {p} ELSE connected \ {p}
    /\ UNCHANGED <<up, mutex, taking, skipped>>

\* The session is cancelled while it connects.
ConnectAbandoned(p, s) ==
    /\ Connects(p, s) /\ taking[p].call = "out"
    /\ session' = [session EXCEPT ![p][s] = "idle"]
    /\ UNCHANGED <<up, record, mutex, taking, connected, skipped>>

----------------------------------------------------------------------------

Next ==
    \E p \in Procs :
        \/ ProcessStarts(p) \/ ProcessEnds(p)
        \/ LockExists(p) \/ LockRead(p) \/ LockKill(p) \/ LockUnlink(p) \/ LockWrite(p)
        \/ \E s \in Sessions :
            \/ SkippedAsRunning(p, s) \/ NotRunning(p, s)
            \/ \E ok \in BOOLEAN : ConnectReturns(p, s, ok)
            \/ ConnectAbandoned(p, s)

Spec == Init /\ [][Next]_vars

----------------------------------------------------------------------------
(* Properties.                                                             *)

\* A session that took the lock while no other process was halfway through
\* acquireLock keeps all other sessions, of its own process too, from starting
\* the server until it is done: whatever locks the dead have left, and however
\* the looks at the lock file and its removals interleave.  (Two processes that
\* are halfway together may both start it.)
LockKeepsOthersOut ==
    [][\A p \in Procs, s \in Sessions :
        session[p][s] = "connecting" /\ session'[p][s] = "connecting" =>
            \A q \in Procs, t \in Sessions : Connects(q, t)' => Connects(q, t)]_vars

\* A start is skipped because the server runs already only on the record of a
\* process that is alive then: a stale record does not survive.
StaleRunningDoesNotSurvive == skipped # "stale"
=============================================================================
