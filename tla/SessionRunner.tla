--------------------------- MODULE SessionRunner ---------------------------
(***************************************************************************)
(* One session's work: effect/runner.ts (the Runner state machine),        *)
(* session/run-state.ts (the map of runners, here the one session's entry) *)
(* and session/status.ts (the published status).                           *)
(*                                                                         *)
(* Clients are the fibers of HTTP handlers, the TUI and the task tool that *)
(* call loop, shell and cancel.  A call k that creates a Runner names it k *)
(* and a call k that creates work (a run, a queued run or a shell) names   *)
(* that work k, so Calls bounds runners and work alike.                    *)
(*                                                                         *)
(* Grain: a step is what one fiber does under the SynchronizedRef's lock,  *)
(* or one synchronous access of shared state.  Effect's scheduler may      *)
(* preempt a fiber between any two of these (Preemptive); without that a   *)
(* fiber keeps the thread until it awaits something.                       *)
(***************************************************************************)
EXTENDS Naturals, FiniteSets

CONSTANTS
    Clients,   \* fibers that call into the session
    MaxCalls,  \* bound: loop and shell calls ever made
    Preemptive \* the scheduler switches fibers between any two steps

ASSUME MaxCallsAssumption == MaxCalls \in Nat
ASSUME PreemptiveAssumption == Preemptive \in BOOLEAN

Calls == 1..MaxCalls
None  == 0

VARIABLES
    calls,    \* loop and shell calls made so far (the bound's counter)
    entry,    \* run-state.ts: data.runners.get(sessionID)
    status,   \* status.ts: data.get(sessionID), absent meaning "idle"
    tag,      \* runner.ts: _tag of each Runner's state
    run,      \* its run handle or pending handle
    shell,    \* its shell handle
    work,     \* progress of each fiber: a run or a shell
    kind,     \* "run" or "shell"
    owner,    \* the Runner whose closure the fiber reports to
    intr,     \* Fiber.interrupt was called on it
    done,     \* its deferred is completed (runs only)
    cpc,      \* progress of each client
    hold,     \* the Runner a client looked up
    target,   \* the work a client awaits or stops
    pending,  \* the queued run a cancelling client has to fail
    callId    \* the number of a client's current call

runnerVars == <<tag, run, shell>>
workVars   == <<work, kind, owner, intr, done>>
clientVars == <<cpc, hold, target, pending, callId>>
vars == <<calls, entry, status, runnerVars, workVars, clientVars>>

WorkStates ==
    {"none",        \* never created
     "queued",      \* pending behind a shell
     "setup",       \* shell before its ready latch opens
     "active",      \* interruptible body
     "exiting",     \* body over, finalizer not yet under the lock
     "idleDelete",  \* finalizer runs onIdle: about to delete the map entry
     "idleStatus",  \* onIdle: about to publish idle
     "complete",    \* about to complete the deferred
     "ended"}       \* fiber over (a queued run: its deferred was failed)

ClientStates ==
    {"ready", "ensureRunning", "startShell", "awaitDone", "awaitShell",
     "cancel", "stopReady", "interrupt", "awaitFiber", "failPending",
     "idleIfCurrent", "idleDelete", "idleStatus"}

\* Fibers that are started and not over.
Live(w) == work[w] \notin {"none", "queued", "ended"}

Init ==
    /\ calls = 0
    /\ entry = None
    /\ status = "idle"
    /\ tag = [r \in Calls |-> "Idle"]
    /\ run = [r \in Calls |-> None]
    /\ shell = [r \in Calls |-> None]
    /\ work = [w \in Calls |-> "none"]
    /\ kind = [w \in Calls |-> "run"]
    /\ owner = [w \in Calls |-> None]
    /\ intr = [w \in Calls |-> FALSE]
    /\ done = [w \in Calls |-> FALSE]
    /\ cpc = [c \in Clients |-> "ready"]
    /\ hold = [c \in Clients |-> None]
    /\ target = [c \in Clients |-> None]
    /\ pending = [c \in Clients |-> None]
    /\ callId = [c \in Clients |-> None]

Goto(c, l) == cpc' = [cpc EXCEPT ![c] = l]

----------------------------------------------------------------------------
\* A client calls the run state.

\* runner(): the session's Runner, created and stored when there is none.
\* The next step of the client is Runner.ensureRunning or Runner.startShell.
Lookup(c, op) ==
    /\ cpc[c] = "ready"
    /\ calls < MaxCalls
    /\ calls' = calls + 1
    /\ callId' = [callId EXCEPT ![c] = calls + 1]
    /\ entry' = IF entry = None THEN calls + 1 ELSE entry
    /\ hold' = [hold EXCEPT ![c] = entry']
    /\ Goto(c, op)
    /\ UNCHANGED <<status, runnerVars, workVars, target, pending>>

CallLoop(c)  == Lookup(c, "ensureRunning")
CallShell(c) == Lookup(c, "startShell")

\* Work k of Runner r is created in state s.
Create(k, r, kd, s) ==
    /\ work' = [work EXCEPT ![k] = s]
    /\ kind' = [kind EXCEPT ![k] = kd]
    /\ owner' = [owner EXCEPT ![k] = r]
    /\ UNCHANGED <<intr, done>>

\* ensureRunning under the lock: join the run there is, queue one behind the
\* shell, or start one.  The client then awaits that run.
AwaitRun(c, w) ==
    /\ target' = [target EXCEPT ![c] = w]
    /\ Goto(c, "awaitDone")
    /\ UNCHANGED <<calls, entry, status, hold, pending, callId>>

JoinRun(c) ==
    /\ cpc[c] = "ensureRunning"
    /\ tag[hold[c]] \in {"Running", "ShellThenRun"}
    /\ AwaitRun(c, run[hold[c]])
    /\ UNCHANGED <<runnerVars, workVars>>

QueueRun(c) ==
    /\ cpc[c] = "ensureRunning"
    /\ tag[hold[c]] = "Shell"
    /\ Create(callId[c], hold[c], "run", "queued")
    /\ tag' = [tag EXCEPT ![hold[c]] = "ShellThenRun"]
    /\ run' = [run EXCEPT ![hold[c]] = callId[c]]
    /\ AwaitRun(c, callId[c])
    /\ UNCHANGED shell

StartRun(c) ==
    /\ cpc[c] = "ensureRunning"
    /\ tag[hold[c]] = "Idle"
    /\ Create(callId[c], hold[c], "run", "active")
    /\ tag' = [tag EXCEPT ![hold[c]] = "Running"]
    /\ run' = [run EXCEPT ![hold[c]] = callId[c]]
    /\ AwaitRun(c, callId[c])
    /\ UNCHANGED shell

EnsureRunning(c) == JoinRun(c) \/ QueueRun(c) \/ StartRun(c)

\* The awaited deferred is completed: the call returns.
AwaitDone(c) ==
    /\ cpc[c] = "awaitDone"
    /\ done[target[c]]
    /\ Goto(c, "ready")
    /\ target' = [target EXCEPT ![c] = None]
    /\ UNCHANGED <<calls, entry, status, runnerVars, workVars, hold, pending, callId>>

\* startShell under the lock: BusyError unless the Runner is idle, else
\* onBusy and the shell's fiber.
ShellBusy(c) ==
    /\ cpc[c] = "startShell"
    /\ tag[hold[c]] # "Idle"
    /\ Goto(c, "ready")
    /\ UNCHANGED <<calls, entry, status, runnerVars, workVars, hold, target, pending, callId>>

\* Mutant: no busy check.
StartShellUnchecked(c) ==
    /\ cpc[c] = "startShell"
    /\ status' = "busy"
    /\ Create(callId[c], hold[c], "shell", "setup")
    /\ tag' = [tag EXCEPT ![hold[c]] = "Shell"]
    /\ shell' = [shell EXCEPT ![hold[c]] = callId[c]]
    /\ target' = [target EXCEPT ![c] = callId[c]]
    /\ Goto(c, "awaitShell")
    /\ UNCHANGED <<calls, entry, run, hold, pending, callId>>

StartShell(c) ==
    /\ cpc[c] = "startShell"
    /\ tag[hold[c]] = "Idle"
    /\ status' = "busy"
    /\ Create(callId[c], hold[c], "shell", "setup")
    /\ tag' = [tag EXCEPT ![hold[c]] = "Shell"]
    /\ shell' = [shell EXCEPT ![hold[c]] = callId[c]]
    /\ target' = [target EXCEPT ![c] = callId[c]]
    /\ Goto(c, "awaitShell")
    /\ UNCHANGED <<calls, entry, run, hold, pending, callId>>

AwaitShell(c) ==
    /\ cpc[c] = "awaitShell"
    /\ work[target[c]] = "ended"
    /\ Goto(c, "ready")
    /\ target' = [target EXCEPT ![c] = None]
    /\ UNCHANGED <<calls, entry, status, runnerVars, workVars, hold, pending, callId>>

\* SessionRunState.cancel: no Runner, or one that is not busy, only sets the
\* status; otherwise that Runner is cancelled.
Busy == entry # None /\ tag[entry] # "Idle"

CancelNothing(c) ==
    /\ cpc[c] = "ready" /\ ~Busy
    /\ Goto(c, "idleStatus")
    /\ UNCHANGED <<calls, entry, status, runnerVars, workVars, hold, target, pending, callId>>

CancelBusy(c) ==
    /\ cpc[c] = "ready" /\ Busy
    /\ hold' = [hold EXCEPT ![c] = entry]
    /\ Goto(c, "cancel")
    /\ UNCHANGED <<calls, entry, status, runnerVars, workVars, target, pending, callId>>

\* Runner.cancel under the lock: the Runner is idle at once, its work is
\* stopped afterwards.
CancelIdle(c) ==
    /\ cpc[c] = "cancel"
    /\ tag[hold[c]] = "Idle"
    /\ Goto(c, "ready")
    /\ UNCHANGED <<calls, entry, status, runnerVars, workVars, hold, target, pending, callId>>

TakeFrom(c, w, p, l) ==
    /\ tag' = [tag EXCEPT ![hold[c]] = "Idle"]
    /\ target' = [target EXCEPT ![c] = w]
    /\ pending' = [pending EXCEPT ![c] = p]
    /\ Goto(c, l)
    /\ UNCHANGED <<calls, entry, status, run, shell, workVars, hold, callId>>

CancelRun(c) ==
    /\ cpc[c] = "cancel"
    /\ tag[hold[c]] = "Running"
    /\ TakeFrom(c, run[hold[c]], None, "interrupt")

CancelShell(c) ==
    /\ cpc[c] = "cancel"
    /\ tag[hold[c]] = "Shell"
    /\ TakeFrom(c, shell[hold[c]], None, "stopReady")

\* Mutant: the queued run is forgotten.
CancelShellOnly(c) ==
    /\ cpc[c] = "cancel"
    /\ tag[hold[c]] = "ShellThenRun"
    /\ TakeFrom(c, shell[hold[c]], None, "stopReady")

CancelShellThenRun(c) ==
    /\ cpc[c] = "cancel"
    /\ tag[hold[c]] = "ShellThenRun"
    /\ TakeFrom(c, shell[hold[c]], run[hold[c]], "stopReady")

Cancel(c) == CancelIdle(c) \/ CancelRun(c) \/ CancelShell(c) \/ CancelShellThenRun(c)

\* Mutant: the latch only opens when the set-up succeeds.
StopReadySuccess(c) ==
    /\ cpc[c] = "stopReady"
    /\ work[target[c]] = "active"
    /\ Goto(c, "interrupt")
    /\ UNCHANGED <<calls, entry, status, runnerVars, workVars, hold, target, pending, callId>>

\* stopShell awaits the ready latch, which the shell opens after its set-up.
StopReady(c) ==
    /\ cpc[c] = "stopReady"
    /\ work[target[c]] # "setup"
    /\ Goto(c, "interrupt")
    /\ UNCHANGED <<calls, entry, status, runnerVars, workVars, hold, target, pending, callId>>

\* Fiber.interrupt sends the interrupt ...
Interrupt(c) ==
    /\ cpc[c] = "interrupt"
    /\ intr' = [intr EXCEPT ![target[c]] = TRUE]
    /\ Goto(c, "awaitFiber")
    /\ UNCHANGED <<calls, entry, status, runnerVars, work, kind, owner, done,
                   hold, target, pending, callId>>

\* ... and waits until the fiber is over (a run's deferred is completed then,
\* so the await of it that follows returns at once).
AwaitFiber(c) ==
    /\ cpc[c] = "awaitFiber"
    /\ work[target[c]] = "ended"
    /\ target' = [target EXCEPT ![c] = None]
    /\ Goto(c, IF pending[c] = None THEN "idleIfCurrent" ELSE "failPending")
    /\ UNCHANGED <<calls, entry, status, runnerVars, workVars, hold, pending, callId>>

\* The queued run will never start: its callers are told.
FailPending(c) ==
    /\ cpc[c] = "failPending"
    /\ done' = [done EXCEPT ![pending[c]] = TRUE]
    /\ work' = [work EXCEPT ![pending[c]] = "ended"]
    /\ pending' = [pending EXCEPT ![c] = None]
    /\ Goto(c, "idleIfCurrent")
    /\ UNCHANGED <<calls, entry, status, runnerVars, kind, owner, intr, hold, target, callId>>

\* Mutant: a cancel does not run onIdle.
NeverIdle(c) ==
    /\ cpc[c] = "idleIfCurrent"
    /\ Goto(c, "ready")
    /\ UNCHANGED <<calls, entry, status, runnerVars, workVars, hold, target, pending, callId>>

\* onIdle unless new work was started on this Runner in the meantime.
IdleIfCurrent(c) ==
    /\ cpc[c] = "idleIfCurrent"
    /\ Goto(c, IF tag[hold[c]] = "Idle" THEN "idleDelete" ELSE "ready")
    /\ UNCHANGED <<calls, entry, status, runnerVars, workVars, hold, target, pending, callId>>

\* onIdle deletes whatever Runner the map holds for the session ...
ClientIdleDelete(c) ==
    /\ cpc[c] = "idleDelete"
    /\ entry' = None
    /\ Goto(c, "idleStatus")
    /\ UNCHANGED <<calls, status, runnerVars, workVars, hold, target, pending, callId>>

\* ... and publishes idle.
ClientIdleStatus(c) ==
    /\ cpc[c] = "idleStatus"
    /\ status' = "idle"
    /\ Goto(c, "ready")
    /\ UNCHANGED <<calls, entry, runnerVars, workVars, hold, target, pending, callId>>

----------------------------------------------------------------------------
\* A fiber runs.

\* The head of runLoop's iteration.
RunBusy(w) ==
    /\ work[w] = "active" /\ kind[w] = "run"
    /\ status' = "busy"
    /\ UNCHANGED <<calls, entry, runnerVars, workVars, clientVars>>

\* The shell's set-up succeeded: the ready latch opens, the command runs.
ShellReady(w) ==
    /\ work[w] = "setup"
    /\ work' = [work EXCEPT ![w] = "active"]
    /\ UNCHANGED <<calls, entry, status, runnerVars, kind, owner, intr, done, clientVars>>

\* The body returns, fails or is interrupted.  A shell whose set-up fails
\* opens its latch too.
Exit(w) ==
    /\ work[w] \in {"active", "setup"}
    /\ work' = [work EXCEPT ![w] = "exiting"]
    /\ UNCHANGED <<calls, entry, status, runnerVars, kind, owner, intr, done, clientVars>>

\* finishRun under the lock: idle only if this run is still the current one.
CurrentRun(w) == tag[owner[w]] = "Running" /\ run[owner[w]] = w

\* Mutant: any run that finishes makes the Runner idle.
FinishRunAnyId(w) ==
    /\ work[w] = "exiting" /\ kind[w] = "run" /\ tag[owner[w]] = "Running"
    /\ tag' = [tag EXCEPT ![owner[w]] = "Idle"]
    /\ work' = [work EXCEPT ![w] = "idleDelete"]
    /\ UNCHANGED <<calls, entry, status, run, shell, kind, owner, intr, done, clientVars>>

FinishRun(w) ==
    /\ work[w] = "exiting" /\ kind[w] = "run" /\ CurrentRun(w)
    /\ tag' = [tag EXCEPT ![owner[w]] = "Idle"]
    /\ work' = [work EXCEPT ![w] = "idleDelete"]
    /\ UNCHANGED <<calls, entry, status, run, shell, kind, owner, intr, done, clientVars>>

FinishOldRun(w) ==
    /\ work[w] = "exiting" /\ kind[w] = "run" /\ ~CurrentRun(w)
    /\ work' = [work EXCEPT ![w] = "complete"]
    /\ UNCHANGED <<calls, entry, status, runnerVars, kind, owner, intr, done, clientVars>>

\* finishShell under the lock: idle, or start the run queued behind it.
CurrentShell(w, t) == tag[owner[w]] = t /\ shell[owner[w]] = w

FinishShell(w) ==
    /\ work[w] = "exiting" /\ kind[w] = "shell" /\ CurrentShell(w, "Shell")
    /\ tag' = [tag EXCEPT ![owner[w]] = "Idle"]
    /\ work' = [work EXCEPT ![w] = "idleDelete"]
    /\ UNCHANGED <<calls, entry, status, run, shell, kind, owner, intr, done, clientVars>>

\* Mutant: the hand-off does not look whether a cancel came first.
HandOffUnchecked(w) ==
    /\ work[w] = "exiting" /\ kind[w] = "shell" /\ shell[owner[w]] = w
    /\ run[owner[w]] # None /\ work[run[owner[w]]] = "queued"
    /\ tag' = [tag EXCEPT ![owner[w]] = "Running"]
    /\ work' = [work EXCEPT ![w] = "ended", ![run[owner[w]]] = "active"]
    /\ UNCHANGED <<calls, entry, status, run, shell, kind, owner, intr, done, clientVars>>

HandOff(w) ==
    /\ work[w] = "exiting" /\ kind[w] = "shell" /\ CurrentShell(w, "ShellThenRun")
    /\ tag' = [tag EXCEPT ![owner[w]] = "Running"]
    /\ work' = [work EXCEPT ![w] = "ended", ![run[owner[w]]] = "active"]
    /\ UNCHANGED <<calls, entry, status, run, shell, kind, owner, intr, done, clientVars>>

FinishOldShell(w) ==
    /\ work[w] = "exiting" /\ kind[w] = "shell"
    /\ ~CurrentShell(w, "Shell") /\ ~CurrentShell(w, "ShellThenRun")
    /\ work' = [work EXCEPT ![w] = "ended"]
    /\ UNCHANGED <<calls, entry, status, runnerVars, kind, owner, intr, done, clientVars>>

WorkIdleDelete(w) ==
    /\ work[w] = "idleDelete"
    /\ entry' = None
    /\ work' = [work EXCEPT ![w] = "idleStatus"]
    /\ UNCHANGED <<calls, status, runnerVars, kind, owner, intr, done, clientVars>>

WorkIdleStatus(w) ==
    /\ work[w] = "idleStatus"
    /\ status' = "idle"
    /\ work' = [work EXCEPT ![w] = IF kind[w] = "run" THEN "complete" ELSE "ended"]
    /\ UNCHANGED <<calls, entry, runnerVars, kind, owner, intr, done, clientVars>>

\* complete(done, exit): the last thing a run's fiber does.
Complete(w) ==
    /\ work[w] = "complete"
    /\ done' = [done EXCEPT ![w] = TRUE]
    /\ work' = [work EXCEPT ![w] = "ended"]
    /\ UNCHANGED <<calls, entry, status, runnerVars, kind, owner, intr, clientVars>>

----------------------------------------------------------------------------
ClientCall(c) == CallLoop(c) \/ CallShell(c) \/ CancelNothing(c) \/ CancelBusy(c)

ClientStep(c) ==
    \/ EnsureRunning(c) \/ AwaitDone(c)
    \/ ShellBusy(c) \/ StartShell(c) \/ AwaitShell(c)
    \/ Cancel(c) \/ StopReady(c) \/ Interrupt(c) \/ AwaitFiber(c)
    \/ FailPending(c) \/ IdleIfCurrent(c)
    \/ ClientIdleDelete(c) \/ ClientIdleStatus(c)

\* What a fiber does once its body is over.
Finalize(w) ==
    \/ FinishRun(w) \/ FinishOldRun(w)
    \/ FinishShell(w) \/ HandOff(w) \/ FinishOldShell(w)
    \/ WorkIdleDelete(w) \/ WorkIdleStatus(w) \/ Complete(w)

WorkStep(w) == RunBusy(w) \/ ShellReady(w) \/ Exit(w) \/ Finalize(w)

\* Fibers between two steps with no await in between.
MidClients == {c \in Clients : cpc[c] \in {"ensureRunning", "startShell", "cancel",
                                           "interrupt", "failPending", "idleIfCurrent",
                                           "idleDelete", "idleStatus"}}
MidWork == {w \in Calls : work[w] \in {"idleDelete", "idleStatus", "complete"}}

ClientTurn(c) == Preemptive \/ (MidClients \subseteq {c} /\ MidWork = {})
WorkTurn(w)   == Preemptive \/ (MidClients = {} /\ MidWork \subseteq {w})

Next == \/ \E c \in Clients : ClientTurn(c) /\ (ClientCall(c) \/ ClientStep(c))
        \/ \E w \in Calls : WorkTurn(w) /\ WorkStep(w)

\* A finalizer runs, a shell's set-up ends and an interrupted body stops;
\* nothing bounds the time of a body that is not interrupted.
MustGoOn(w) ==
    \/ Finalize(w)
    \/ work[w] = "setup" /\ (ShellReady(w) \/ Exit(w))
    \/ intr[w] /\ Exit(w)

\* A client that was called goes on.  Nobody has to call.
Fairness ==
    /\ \A c \in Clients : WF_vars(ClientStep(c))
    /\ \A w \in Calls : WF_vars(MustGoOn(w))

Spec == Init /\ [][Next]_vars
FairSpec == Spec /\ Fairness
----------------------------------------------------------------------------
TypeOK ==
    /\ calls \in 0..MaxCalls
    /\ entry \in Calls \cup {None}
    /\ status \in {"idle", "busy"}
    /\ tag \in [Calls -> {"Idle", "Running", "Shell", "ShellThenRun"}]
    /\ run \in [Calls -> Calls \cup {None}]
    /\ shell \in [Calls -> Calls \cup {None}]
    /\ work \in [Calls -> WorkStates]
    /\ kind \in [Calls -> {"run", "shell"}]
    /\ owner \in [Calls -> Calls \cup {None}]
    /\ intr \in [Calls -> BOOLEAN]
    /\ done \in [Calls -> BOOLEAN]
    /\ cpc \in [Clients -> ClientStates]
    /\ hold \in [Clients -> Calls \cup {None}]
    /\ target \in [Clients -> Calls \cup {None}]
    /\ pending \in [Clients -> Calls \cup {None}]
    /\ callId \in [Clients -> Calls \cup {None}]

\* Clients that are stopping work w.
Stopping(c, w) == cpc[c] \in {"stopReady", "interrupt", "awaitFiber"} /\ target[c] = w

\* Work that can still do something is what its Runner's state names, or a
\* cancel has taken it from there and is stopping it: no step of finish,
\* hand-off or cancel lets go of a fiber that still runs.
RunnerKeepsRun(w)   == kind[w] = "run" /\ CurrentRun(w)
RunnerKeepsShell(w) == /\ kind[w] = "shell"
                       /\ CurrentShell(w, "Shell") \/ CurrentShell(w, "ShellThenRun")
CancelKeeps(w)      == \E c \in Clients : Stopping(c, w)

LiveWorkHasKeeper ==
    \A w \in Calls :
        work[w] \in {"setup", "active", "exiting"} =>
            RunnerKeepsRun(w) \/ RunnerKeepsShell(w) \/ CancelKeeps(w)

\* Whoever awaits a run will be answered: its deferred is completed, its
\* fiber is on the way to complete it, it is queued behind a shell of its
\* Runner that has not ended, or a cancel will fail it.
NobodyWaitsForNothing ==
    \A c \in Clients :
        cpc[c] = "awaitDone" =>
            LET w == target[c] IN
            \/ done[w]
            \/ Live(w)
            \/ /\ work[w] = "queued"
               /\ \/ tag[owner[w]] = "ShellThenRun" /\ run[owner[w]] = w
                     /\ Live(shell[owner[w]])
                  \/ \E d \in Clients : pending[d] = w

\* Once nothing runs and nobody is inside a call, the status shown to the
\* user is idle: no late busy, no forgotten idle.
QuiescentIdle ==
    (/\ \A w \in Calls : ~Live(w)
     /\ \A c \in Clients : cpc[c] = "ready")
    => status = "idle"

\* On one Runner at most one fiber runs that no cancel is stopping: callers
\* share a run, a shell excludes a run, the queued run waits for the shell.
Uncancelled(r) ==
    {w \in Calls : /\ owner[w] = r
                   /\ work[w] \in {"setup", "active", "exiting"}
                   /\ \A c \in Clients : ~Stopping(c, w)}

OneAtATime == \A r \in Calls : \A v, w \in Uncancelled(r) : v = w

\* The Runners implement slots of exclusive work.
Fate(w) ==
    CASE work[w] = "none" -> "new"
      [] work[w] = "queued" ->
           IF tag[owner[w]] = "ShellThenRun" /\ run[owner[w]] = w THEN "waiting" ELSE "over"
      [] work[w] \in {"setup", "active", "exiting"} ->
           IF RunnerKeepsRun(w) \/ RunnerKeepsShell(w) THEN "running" ELSE "stopping"
      [] OTHER -> "over"

Slots == INSTANCE ExclusiveWork WITH
    Slots   <- Calls,
    Work    <- Calls,
    running <- [r \in Calls |-> CASE tag[r] = "Idle" -> None
                                  [] tag[r] = "Running" -> run[r]
                                  [] OTHER -> shell[r]],
    waiting <- [r \in Calls |-> IF tag[r] = "ShellThenRun" THEN run[r] ELSE None],
    fate    <- [w \in Calls |-> Fate(w)]

ImplementsExclusiveWork == Slots!Spec

\* The inductive invariant behind these, in parts.  Calls in flight have
\* numbers no work uses yet, one each, and know their Runner.
Calling(c) == cpc[c] \in {"ensureRunning", "startShell"}
Cancelling(c) == cpc[c] \in {"cancel", "stopReady", "interrupt", "awaitFiber",
                             "failPending", "idleIfCurrent"}

FreshCalls ==
    /\ \A w \in Calls : w > calls => work[w] = "none"
    /\ \A c \in Clients :
         Calling(c) => callId[c] \in 1..calls /\ work[callId[c]] = "none"
    /\ \A c, d \in Clients :
         Calling(c) /\ Calling(d) /\ callId[c] = callId[d] => c = d
    /\ \A c \in Clients : Calling(c) \/ Cancelling(c) => hold[c] \in Calls

\* What a Runner's state names is its own, of the right kind, and not over.
Is(w, r, kd, states) ==
    w \in Calls /\ owner[w] = r /\ kind[w] = kd /\ work[w] \in states

RunnerNamesWork ==
    \A r \in Calls :
        /\ tag[r] = "Running" => Is(run[r], r, "run", {"active", "exiting"})
        /\ tag[r] \in {"Shell", "ShellThenRun"} =>
             Is(shell[r], r, "shell", {"setup", "active", "exiting"})
        /\ tag[r] = "ShellThenRun" => Is(run[r], r, "run", {"queued"})

\* A queued run is the one its Runner will start, or a cancel will fail it.
Queued(w) == tag[owner[w]] = "ShellThenRun" /\ run[owner[w]] = w

WorkCoherent ==
    \A w \in Calls :
        /\ work[w] # "none" => owner[w] \in Calls
        /\ work[w] = "queued" =>
             kind[w] = "run" /\ (Queued(w) \/ \E c \in Clients : pending[c] = w)
        /\ work[w] = "setup" => kind[w] = "shell"
        /\ work[w] = "complete" => kind[w] = "run"
        /\ work[w] = "ended" /\ kind[w] = "run" => done[w]

ClientsCoherent ==
    /\ \A c \in Clients :
        /\ cpc[c] = "awaitDone" =>
             /\ target[c] \in Calls
             /\ kind[target[c]] = "run" /\ work[target[c]] # "none"
        /\ cpc[c] \in {"awaitShell", "stopReady", "interrupt", "awaitFiber"} =>
             target[c] \in Calls
        /\ pending[c] # None =>
             /\ cpc[c] \in {"stopReady", "interrupt", "awaitFiber", "failPending"}
             /\ work[pending[c]] = "queued" /\ ~Queued(pending[c])
        /\ cpc[c] = "failPending" => pending[c] # None
    /\ \A c, d \in Clients : pending[c] # None /\ pending[c] = pending[d] => c = d

IInv == /\ TypeOK /\ FreshCalls /\ RunnerNamesWork /\ WorkCoherent
        /\ ClientsCoherent /\ LiveWorkHasKeeper

\* A queued run that a cancel took never starts, although its shell may be
\* finishing at the same time.
CancelledPendingNeverStarts ==
    [][\A c \in Clients, w \in Calls :
         pending[c] = w => work'[w] \in {"queued", "ended"}]_vars

\* Every call of cancel returns, whatever else is called meanwhile.
CancelWaits(c) == cpc[c] = "cancel"
Answered(c) == cpc[c] = "ready"

CancelReturns == \A c \in Clients : CancelWaits(c) ~> Answered(c)

\* After a cancel took a run, everyone who awaits that run is answered.
CancelledCallerWaits(c) ==
    cpc[c] = "awaitDone" /\ \E d \in Clients : Stopping(d, target[c]) \/ pending[d] = target[c]

CancelledCallersReturn == \A c \in Clients : CancelledCallerWaits(c) ~> Answered(c)

\* The session's work, as a test of the prompt service states it
\* ("assertNotBusy throws BusyError when loop running").
RunningLoopIsBusy ==
    \A w \in Calls :
        work[w] = "active" /\ kind[w] = "run" /\ (\A c \in Clients : ~Stopping(c, w))
        => entry # None /\ tag[entry] # "Idle"
=============================================================================
