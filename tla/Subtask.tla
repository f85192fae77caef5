------------------------------ MODULE Subtask ------------------------------
(***************************************************************************)
(* tool/task.ts, with handleSubtask and resolveTools of session/prompt.ts: *)
(* the sessions of subagents and what a cancel makes of them.              *)
(*                                                                         *)
(* The loop of a session handles a subtask in one of two ways.  A part of  *)
(* a message (a command, a reviewer) runs in the fiber of the loop.  A     *)
(* tool that the model calls runs in a fiber of its own, which nobody      *)
(* interrupts: it only has the abort signal of the stream.  Either creates *)
(* a session, prompts it and waits for its loop, which a runner of its own *)
(* carries.  Task n has session n; session 0 is the user's.                *)
(***************************************************************************)
EXTENDS Naturals, FiniteSets

CONSTANT MaxTasks  \* bound on the subtasks

ConstantAssumption == MaxTasks \in Nat

VARIABLES
    loop,     \* the loop of a session: "idle", "running" or, after a cancel, "stopping"
    phase,    \* of a task: "new", "asking" until it listens to its signal, "prompting"
              \* until the loop of its session runs, "waiting" for that, "closing" when
              \* it is interrupted while it waits, "over"
    by,       \* the session whose loop the task belongs to
    kind,     \* "part" or "tool"
    signal,   \* the tasks whose abort signal has been given
    calls,    \* the tasks for which a cancel of the session is on its way
    missed    \* history: the tasks whose signal has had no effect, because their
              \* session did not run yet

vars == <<loop, phase, by, kind, signal, calls, missed>>

Tasks == 1..MaxTasks
AllSessions == 0..MaxTasks

TypeOK ==
    /\ loop \in [AllSessions -> {"idle", "running", "stopping"}]
    /\ phase \in [Tasks -> {"new", "asking", "prompting", "waiting", "closing", "over"}]
    /\ by \in [Tasks -> AllSessions] /\ kind \in [Tasks -> {"part", "tool"}]
    /\ signal \subseteq Tasks /\ calls \subseteq Tasks /\ missed \subseteq Tasks

Init ==
    /\ loop = [s \in AllSessions |-> "idle"]
    /\ phase = [n \in Tasks |-> "new"]
    /\ by = [n \in Tasks |-> 0] /\ kind = [n \in Tasks |-> "tool"]
    /\ signal = {} /\ calls = {} /\ missed = {}

Open(n) == phase[n] \notin {"new", "over"}
Listens(n) == phase[n] \in {"prompting", "waiting"}

\* The tasks that keep the loop of session s from its end: a stream ends once
\* its tools have, or are told to.
Held(s) == {n \in Tasks : by[n] = s /\ Open(n) /\ (kind[n] = "part" \/ n \notin signal)}

----------------------------------------------------------------------------
\* The abort signals of the tasks in T are given: who listens has the session
\* cancelled by another fiber, a listener that comes later hears nothing.
Signalled(T) ==
    /\ signal' = signal \cup T
    /\ missed' = missed \cup {n \in T : phase[n] = "asking"}

\* The fiber of the loop of session s is interrupted, and with it its parts;
\* its tools get their signal.  A part that waits cancels the session first.
Interrupted(s, others) ==
    LET tools == {n \in Held(s) : kind[n] = "tool"}
    IN  /\ loop' = [loop EXCEPT ![s] = "stopping"]
        /\ phase' = [n \in Tasks |->
            IF n \notin Held(s) \ tools THEN phase[n]
            ELSE IF phase[n] = "waiting" THEN "closing" ELSE "over"]
        /\ Signalled(tools)
        /\ calls' = others \cup {n \in tools : Listens(n)}
        /\ UNCHANGED <<by, kind>>

Prompt ==
    /\ loop[0] = "idle"
    /\ loop' = [loop EXCEPT ![0] = "running"]
    /\ UNCHANGED <<phase, by, kind, signal, calls, missed>>

\* The user may cancel any session.
Cancel(s) == loop[s] = "running" /\ Interrupted(s, calls)

\* All that ran in the fiber is over.
LoopStopped(s) ==
    /\ loop[s] = "stopping" /\ Held(s) = {}
    /\ loop' = [loop EXCEPT ![s] = "idle"]
    /\ UNCHANGED <<phase, by, kind, signal, calls, missed>>

LoopEnds(s) ==
    /\ loop[s] = "running" /\ Held(s) = {}
    /\ loop' = [loop EXCEPT ![s] = "idle"]
    /\ UNCHANGED <<phase, by, kind, signal, calls, missed>>

----------------------------------------------------------------------------
\* A loop has parts in hand, reviewers several at once, or tools of one answer.
Call(n, s, k) ==
    /\ phase[n] = "new" /\ \A m \in 1..n - 1 : phase[m] # "new"
    /\ loop[s] = "running" /\ \A m \in Held(s) : kind[m] = k
    /\ phase' = [phase EXCEPT ![n] = "asking"]
    /\ by' = [by EXCEPT ![n] = s] /\ kind' = [kind EXCEPT ![n] = k]
    /\ UNCHANGED <<loop, signal, calls, missed>>

\* The permission is denied or the agent is not known.
Refused(n) ==
    /\ phase[n] = "asking"
    /\ phase' = [phase EXCEPT ![n] = "over"]
    /\ UNCHANGED <<loop, by, kind, signal, calls, missed>>

\* The session has been created.
Listen(n) ==
    /\ phase[n] = "asking"
    /\ phase' = [phase EXCEPT ![n] = "prompting"]
    /\ UNCHANGED <<loop, by, kind, signal, calls, missed>>

\* The files of the prompt have been read and its message is stored.
Start(n) ==
    /\ phase[n] = "prompting"
    /\ phase' = [phase EXCEPT ![n] = "waiting"]
    /\ loop' = [loop EXCEPT ![n] = "running"]
    /\ UNCHANGED <<by, kind, signal, calls, missed>>

Return(n) ==
    /\ phase[n] = "waiting" /\ loop[n] = "idle"
    /\ phase' = [phase EXCEPT ![n] = "over"]
    /\ UNCHANGED <<loop, by, kind, signal, calls, missed>>

\* Mutant of Release: the exit of the task is not looked at.
ReleaseOnly(n) ==
    /\ phase[n] = "closing"
    /\ phase' = [phase EXCEPT ![n] = "over"]
    /\ UNCHANGED <<loop, by, kind, signal, calls, missed>>

\* The release of an interrupted task cancels its session and waits for that.
Release(n) ==
    /\ phase[n] = "closing"
    /\ \/ loop[n] = "running" /\ Interrupted(n, calls)
       \/ /\ loop[n] = "idle"
          /\ phase' = [phase EXCEPT ![n] = "over"]
          /\ UNCHANGED <<loop, by, kind, signal, calls, missed>>

----------------------------------------------------------------------------
\* A reviewer has used up its time.
Timeout(n) ==
    /\ kind[n] = "part" /\ phase[n] \in {"asking", "prompting", "waiting"} /\ n \notin signal
    /\ Signalled({n})
    /\ calls' = IF Listens(n) THEN calls \cup {n} ELSE calls
    /\ UNCHANGED <<loop, phase, by, kind>>

\* onAbort's cancel: without a run there is nothing to cancel.
CancelLands(n) ==
    /\ n \in calls
    /\ IF loop[n] = "running"
       THEN Interrupted(n, calls \ {n})
       ELSE /\ calls' = calls \ {n}
            /\ missed' = IF phase[n] = "prompting" THEN missed \cup {n} ELSE missed
            /\ UNCHANGED <<loop, phase, by, kind, signal>>

\* What goes on by itself after a cancel.
StopStep(s) == LoopStopped(s) \/ (s \in Tasks /\ (Release(s) \/ CancelLands(s)))

TaskStep(n) == Refused(n) \/ Listen(n) \/ Start(n) \/ Return(n) \/ Release(n)

Next ==
    \/ Prompt
    \/ \E s \in AllSessions : Cancel(s) \/ LoopStopped(s) \/ LoopEnds(s)
    \/ \E n \in Tasks :
        \/ \E s \in 0..n - 1, k \in {"part", "tool"} : Call(n, s, k)
        \/ TaskStep(n) \/ Timeout(n) \/ CancelLands(n)

Spec == Init /\ [][Next]_vars

----------------------------------------------------------------------------
\* A subagent's loop that runs has a task that waits for it in a loop that runs
\* or stops, or a cancel is on its way to it, unless the signal of its task came
\* before it ran (tool/task.ts).
NoOrphans ==
    \A n \in Tasks : loop[n] = "running" /\ n \notin missed =>
        \/ n \in calls
        \/ phase[n] \in {"waiting", "closing"} /\ loop[by[n]] # "idle"

\* Who waits for the end of a cancel: a loop that is being stopped, and a task
\* whose signal was heard.
StopWaits(s) ==
    \/ loop[s] = "stopping"
    \/ s \in signal \ missed /\ loop[s] # "idle"
=============================================================================
