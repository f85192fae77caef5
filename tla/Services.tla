----------------------------- MODULE Services -----------------------------
(***************************************************************************)
(* The components that share no state with each other, side by side: each  *)
(* initial state picks one of them, which then moves while the others stay *)
(* where they start.  The reachable states are the sum of those of the     *)
(* components, each with its own constants, fairness and properties.       *)
(***************************************************************************)
EXTENDS Naturals, Sequences, FiniteSets

CONSTANTS
    Nil,
    Dirs, StoreCallers, MaxEntries,                              \* InstanceStore
    ToolCalls, MaxAttempts,                                      \* Processor
    Files, Contents, Absent, MaxLog, MaxReverts, Roles, Overlap, \* Revert
    Terms, Conns, Socks, Limit, MaxChunk, MaxOut,                \* Pty
    Keys, LspCallers, Handlers, MaxStarts,                       \* Lsp
    McpCallers, MaxClients,                                      \* McpClients
    Procs, ProcSessions,                                         \* McpManager
    MaxUpdates, MaxShareCalls,                                   \* ShareQueue
    CounterSpan, IdSpan, Retention, FirstClock, MaxClock, MaxIds, \* Identifier
    Sessions, Patterns, Config, Inputs, Modes, Repliers,         \* Permission
    MaxAsks, MaxGens, ReplyYields,
    Clients, MaxCalls, Preemptive,                               \* SessionRunner
    TailTurns, MaxMsgs, Failing,                                 \* Compaction
    TokenCallers, MaxTokens,                                     \* Account
    MaxTasks                                                     \* Subtask

VARIABLES
    focus,  \* the component that moves
    who,    \* whose waiting is followed
    cache, dir, stage, prev, taken, svc, closing, call, sweep, retired,
    part, open, tool, born, events, pc, attempt, finish, error, compact, blocked,
    break, summary, aborted,
    files, log, mark, busy, op, arriving, reverts,
    terminal, cursor, buffer, bufferCursor, subscribers, serves, ready, client,
    todo, phase, awaits, start, spawning, broken, clients, procs, serving,
    stored, offered, reported, connections, alive, doing, watched, listing,
    up, record, mutex, taking, session, connected, skipped,
    updates, row, shared, queue, timers, accepted, flights, sent, dropped,
    creating, reading, removing, calls,
    clock, lastTimestamp, counter, ids, cleanups, outputs, early,
    asked, gen, pending, approved, approvals, state, in, pre, asker, mine,
    deferred, answered, rpc, reply, cur, seen,
    runCalls, entry, status, tag, run, shell, work, kind, owner, intr, done,
    cpc, hold, target, queuedRun, callId,
    msgs, loopAt, digest, told, gaveWay, failed,
    tokenRow, fresh, issued, caller, lookup, leader, tokenSent, answer, spent, reused, lost,
    loop, taskPhase, by, taskKind, signal, cancels, missed

Store == INSTANCE InstanceStore WITH None <- Nil, Callers <- StoreCallers

Answer == INSTANCE Processor WITH Calls <- ToolCalls

Undo == INSTANCE Revert WITH None <- Nil

Screen == INSTANCE Pty WITH None <- Nil

Language == INSTANCE Lsp WITH None <- Nil, Callers <- LspCallers, MaxTasks <- MaxStarts

Mcp == INSTANCE McpClients WITH None <- Nil, Callers <- McpCallers

Starter == INSTANCE McpManager WITH None <- Nil, Sessions <- ProcSessions

Share == INSTANCE ShareQueue WITH None <- Nil, MaxCalls <- MaxShareCalls

Stamps == INSTANCE Identifier

Prompts == INSTANCE Permission WITH Preemptive <- ReplyYields, session <- asker

Runner == INSTANCE SessionRunner WITH calls <- runCalls, pending <- queuedRun

Digest == INSTANCE Compaction WITH pc <- loopAt, cur <- digest, dropped <- gaveWay

Token == INSTANCE Account WITH None <- Nil, Callers <- TokenCallers, row <- tokenRow, mine <- tokenSent

Sub == INSTANCE Subtask WITH phase <- taskPhase, kind <- taskKind, calls <- cancels

ASSUME ComponentAssumptions ==
    /\ Store!ConstantAssumption /\ Answer!ConstantAssumption
    /\ Undo!ConstantAssumption /\ Screen!ConstantAssumption
    /\ Language!ConstantAssumption /\ Mcp!ConstantAssumption
    /\ Starter!ConstantAssumption /\ Share!ConstantAssumption
    /\ Stamps!ConstantAssumption /\ Prompts!ConstantAssumption
    /\ Digest!ConstantAssumption /\ Token!ConstantAssumption
    /\ Sub!ConstantAssumption
    /\ MaxCalls \in Nat /\ Preemptive \in BOOLEAN

\* The variables of each component, as in its module.
storeVars == <<cache, dir, stage, prev, taken, svc, closing, call, sweep, retired>>
answerVars == <<part, open, tool, born, events, pc, attempt, finish, error, compact,
                blocked, break, summary, aborted>>
undoVars == <<files, log, mark, busy, op, arriving, reverts>>
screenVars == <<terminal, cursor, buffer, bufferCursor, subscribers, serves, ready, client>>
languageVars == <<todo, phase, awaits, start, spawning, broken, clients, procs, serving>>
mcpVars == <<stored, offered, reported, connections, alive, doing, watched, listing>>
starterVars == <<up, record, mutex, taking, session, connected, skipped>>
shareVars == <<updates, row, shared, queue, timers, accepted, flights, sent, dropped,
               creating, reading, removing, calls>>
stampsVars == <<clock, lastTimestamp, counter, ids, cleanups, outputs, early>>

promptVars == <<asked, gen, pending, approved, approvals, state, in, pre, asker, mine,
                deferred, answered, rpc, reply, cur, seen>>
runnerVars == <<runCalls, entry, status, tag, run, shell, work, kind, owner, intr, done,
                cpc, hold, target, queuedRun, callId>>

digestVars == <<msgs, loopAt, digest, told, gaveWay, failed>>
tokenVars == <<tokenRow, fresh, issued, caller, lookup, leader, tokenSent, answer, spent,
               reused, lost>>
subVars == <<loop, taskPhase, by, taskKind, signal, cancels, missed>>

vars == <<focus, who, storeVars, answerVars, undoVars, screenVars, languageVars, mcpVars,
          starterVars, shareVars, stampsVars, promptVars, runnerVars, digestVars, tokenVars,
          subVars>>

Components == {"store", "answer", "undo", "screen", "language", "mcp", "starter", "share", "stamps",
               "prompts", "runner", "digest", "token", "sub"}

\* All components but c stay as they are.
Others(c) ==
    /\ UNCHANGED <<focus, who>>
    /\ IF c = "store" THEN TRUE ELSE UNCHANGED storeVars
    /\ IF c = "answer" THEN TRUE ELSE UNCHANGED answerVars
    /\ IF c = "undo" THEN TRUE ELSE UNCHANGED undoVars
    /\ IF c = "screen" THEN TRUE ELSE UNCHANGED screenVars
    /\ IF c = "language" THEN TRUE ELSE UNCHANGED languageVars
    /\ IF c = "mcp" THEN TRUE ELSE UNCHANGED mcpVars
    /\ IF c = "starter" THEN TRUE ELSE UNCHANGED starterVars
    /\ IF c = "share" THEN TRUE ELSE UNCHANGED shareVars
    /\ IF c = "stamps" THEN TRUE ELSE UNCHANGED stampsVars
    /\ IF c = "prompts" THEN TRUE ELSE UNCHANGED promptVars
    /\ IF c = "runner" THEN TRUE ELSE UNCHANGED runnerVars
    /\ IF c = "digest" THEN TRUE ELSE UNCHANGED digestVars
    /\ IF c = "token" THEN TRUE ELSE UNCHANGED tokenVars
    /\ IF c = "sub" THEN TRUE ELSE UNCHANGED subVars

Init ==
    /\ focus \in Components
    /\ who \in CASE focus = "store" -> StoreCallers
             [] focus = "prompts" -> 1..MaxAsks
             [] focus = "runner" -> Clients
             [] focus = "sub" -> 0..MaxTasks
             [] OTHER -> {Nil}
    /\ Store!Init /\ Answer!Init /\ Undo!Init /\ Screen!Init /\ Language!Init
    /\ Mcp!Init /\ Starter!Init /\ Share!Init /\ Stamps!Init
    /\ Prompts!Init /\ Runner!Init /\ Digest!Init /\ Token!Init
    /\ Sub!Init

Next ==
    \/ focus = "store" /\ Store!Next /\ Others("store")
    \/ focus = "answer" /\ Answer!Next /\ Others("answer")
    \/ focus = "undo" /\ Undo!Next /\ Others("undo")
    \/ focus = "screen" /\ Screen!Next /\ Others("screen")
    \/ focus = "language" /\ Language!Next /\ Others("language")
    \/ focus = "mcp" /\ Mcp!Next /\ Others("mcp")
    \/ focus = "starter" /\ Starter!Next /\ Others("starter")
    \/ focus = "share" /\ Share!Next /\ Others("share")
    \/ focus = "stamps" /\ Stamps!Next /\ Others("stamps")
    \/ focus = "prompts" /\ Prompts!Next /\ Others("prompts")
    \/ focus = "runner" /\ Runner!Next /\ Others("runner")
    \/ focus = "digest" /\ Digest!Next /\ Others("digest")
    \/ focus = "token" /\ Token!Next /\ Others("token")
    \/ focus = "sub" /\ Sub!Next /\ Others("sub")

\* The fairness of the components, each for the time that it moves.
Fairness ==
    /\ \A e \in 1..MaxEntries : WF_storeVars(focus = "store" /\ (Store!EntryStep(e) \/ Store!Finalized(e)))
    /\ \A c \in StoreCallers : WF_storeVars(focus = "store" /\ Store!CallerStep(c))
    /\ WF_storeVars(focus = "store" /\ Store!SweepStep)
    /\ WF_answerVars(focus = "answer" /\ Answer!Process)
    /\ \A n \in 1..MaxAsks : WF_promptVars(focus = "prompts" /\ Prompts!AskStep(n))
    /\ \A r \in Repliers : WF_promptVars(focus = "prompts" /\ Prompts!ReplyStep(r))
    /\ \A c \in Clients : WF_runnerVars(focus = "runner" /\ Runner!ClientStep(c))
    /\ \A w \in 1..MaxCalls : WF_runnerVars(focus = "runner" /\ Runner!MustGoOn(w))
    /\ \A n \in 0..MaxTasks : WF_subVars(focus = "sub" /\ Sub!StopStep(n))

Spec == Init /\ [][Next]_vars
FairSpec == Spec /\ Fairness

----------------------------------------------------------------------------
\* Every variable of the component that moves keeps its type.
TypesOK ==
    CASE focus = "store" -> Store!TypeOK
      [] focus = "answer" -> Answer!TypeOK
      [] focus = "undo" -> Undo!TypeOK
      [] focus = "screen" -> Screen!TypeOK
      [] focus = "language" -> Language!TypeOK
      [] focus = "mcp" -> Mcp!TypeOK
      [] focus = "starter" -> Starter!TypeOK
      [] focus = "share" -> Share!TypeOK
      [] focus = "stamps" -> Stamps!TypeOK
      [] focus = "prompts" -> Prompts!TypeOK
      [] focus = "runner" -> Runner!TypeOK
      [] focus = "digest" -> Digest!TypeOK
      [] focus = "token" -> Token!TypeOK
      [] focus = "sub" -> Sub!TypeOK

\* A directory has at most one live instance, whatever loads, reloads and
\* disposals overlap (project/instance-store.ts).
OneLiveInstance == focus = "store" => Store!OneLiveInstance

\* Once process() has returned no tool call is pending or running
\* (session/processor.ts).
NothingLeftOpen == focus = "answer" => Answer!NothingLeftOpen

\* After any reverts, unreverts and clean-ups every file that existed at the end
\* of the visible conversation is what it was there (session/revert.ts).
FilesMatchConversation == focus = "undo" => Undo!FilesMatchConversation

\* A client is sent a stretch of its terminal's output without a gap, a
\* repetition or a piece of another terminal's (pty/index.ts).
ReplayIsExact == focus = "screen" => Screen!ReplayIsExact

\* No root has two processes of a language server (lsp/lsp.ts).
OneServerPerRoot == focus = "language" => Language!OneServerPerRoot

\* The tools offered to the model are those of the client that would be called,
\* which nobody has closed once the operations are over (mcp/index.ts).
ToolsBelongToClient == focus = "mcp" => Mcp!ToolsBelongToClient

\* An update that was queued is waiting, on its way, sent or given up with the
\* share, and no queue waits without a flush to come (share/share-next.ts).
NoUpdateForgotten == focus = "share" => Share!NoUpdateForgotten

\* Ids of one process ascend in the order of their making, except within a
\* millisecond in which a cleanup ran (id/id.ts).
IdsAscend == focus = "stamps" => Stamps!IdsAscend

\* An instance is torn down only by those who hold it or by the sweep
\* (project/instance-store.ts).
OnlyItsOwnDisposal == Store!OnlyItsOwnDisposal

\* The instances of a directory live one after another, and whoever works with
\* one was given one whose boot has succeeded (project/instance-store.ts).
ImplementsOneInstance == Store!ImplementsOneInstance

\* A session that took the start lock of a server while no other process was
\* halfway through acquireLock keeps every other session from starting it
\* (dll-agent/mcp-manager.ts).
LockKeepsOthersOut == Starter!LockKeepsOthersOut

\* The first outcome of a tool call stands (session/processor.ts).
FirstOutcomeStands == Answer!FirstOutcomeStands

\* With replies that interleave at every step, no request waits where nobody
\* can answer it, and nothing is granted without a reason (permission/index.ts).
PromptsHold == focus = "prompts" => Prompts!PromptsHold

\* What the model no longer sees of a conversation is told by a summary, unless
\* a summary has failed (session/compaction.ts).
NothingFallsBetween == focus = "digest" => Digest!NothingFallsBetween

\* A refresh token that the server has taken is not sent again, unless the
\* answer to it was lost (account/account.ts).
RefreshUsedOnce == focus = "token" => Token!RefreshUsedOnce

\* A subagent's loop runs for a task in a loop that goes on, or is about to be
\* cancelled, unless its task's signal came too early (tool/task.ts).
NoOrphans == focus = "sub" => Sub!NoOrphans

\* Whoever waits is answered: the calls of the instance store, who has
\* interrupted an answer, whose request the user has settled, who cancels a
\* session, who waits for what was cancelled, and the sessions of subagents that
\* are to stop with it.
Waiting ==
    \/ focus = "store" /\ Store!CallWaits(who)
    \/ focus = "answer" /\ Answer!AbortWaits
    \/ focus = "prompts" /\ Prompts!AnsweredWaits(who)
    \/ focus = "runner" /\ (Runner!CancelWaits(who) \/ Runner!CancelledCallerWaits(who))
    \/ focus = "sub" /\ Sub!StopWaits(who)

Answered == IF focus = "runner" THEN Runner!Answered(who) ELSE ~Waiting

NobodyWaitsForever == Waiting ~> Answered
=============================================================================
