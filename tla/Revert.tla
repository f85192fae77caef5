------------------------------- MODULE Revert -------------------------------
(***************************************************************************)
(* Undoing the work of a conversation: revert, unrevert and the cleanup at *)
(* the next prompt, with the snapshots of the worktree they rest on.       *)
(*                                                                         *)
(* Source: packages/opencode/src/session/revert.ts,                        *)
(*         packages/opencode/src/snapshot/index.ts, and the callers of     *)
(*         both in session/prompt.ts and session/processor.ts.             *)
(*                                                                         *)
(* A snapshot is a tree: the contents of every file, or Absent.  The log   *)
(* holds the messages in the order of their ids: an entry of the user, or  *)
(* an answer, which is one step of the agent with the patch that the       *)
(* processor stores for it.  Only the agent changes files, and a step's    *)
(* changes are all in its patch.                                           *)
(***************************************************************************)
EXTENDS Naturals, Sequences, SequencesExt

CONSTANTS
    Files,       \* paths under the worktree
    Contents,    \* what a file may hold
    Absent,      \* the file is not there
    MaxLog,      \* bound: messages in the log
    MaxReverts,  \* bound: calls of revert and unrevert
    Roles,       \* the roles of the messages that a revert may name
    Overlap,     \* whether a prompt may come while a revert is under way
    None

Trees == [Files -> Contents \cup {Absent}]
Entry == [role : {"user", "answer"}, base : Trees, changed : SUBSET Files, after : Trees]
Mark == [cut : 1..MaxLog, snap : Trees]

ConstantAssumption ==
    /\ Absent \notin Contents
    /\ MaxLog \in Nat \ {0} /\ MaxReverts \in Nat
    /\ Roles \subseteq {"user", "answer"}
    /\ Overlap \in BOOLEAN
    /\ None \notin Mark

VARIABLES
    files,     \* the worktree
    log,       \* the messages of the session
    mark,      \* the session's revert: the first hidden message and the snapshot, or None
    busy,      \* whether a loop works on the session
    op,        \* the revert or unrevert under way
    arriving,  \* whether a prompt has cleaned up and not yet stored its message
    reverts    \* calls of revert and unrevert so far

vars == <<files, log, mark, busy, op, arriving, reverts>>

NoOp == [at |-> "idle", cut |-> 1, patches |-> <<>>, prev |-> None, snap |-> None]

TypeOK ==
    /\ files \in Trees
    /\ log \in Seq(Entry) /\ Len(log) <= MaxLog
    /\ mark \in Mark \cup {None}
    /\ busy \in BOOLEAN /\ arriving \in BOOLEAN
    /\ op \in [at : {"idle", "snapshot", "rewrite", "mark", "restore", "clear"}, cut : 1..MaxLog,
              patches : Seq(Entry), prev : Mark \cup {None}, snap : Trees \cup {None}]
    /\ reverts \in 0..MaxReverts

Init ==
    /\ files \in Trees
    /\ log = <<>>
    /\ mark = None
    /\ busy = FALSE /\ arriving = FALSE
    /\ op = NoOp
    /\ reverts = 0

----------------------------------------------------------------------------
(* Snapshots.                                                              *)

\* restore(): the files of the snapshot are written over the worktree; a file
\* that the snapshot does not have stays.
Restored(tree, snap) == [f \in Files |-> IF snap[f] = Absent THEN tree[f] ELSE snap[f]]

\* revert(): each file named by a patch gets what it was in the snapshot of the
\* first patch that names it.
Naming(patches, f) == {i \in DOMAIN patches : f \in patches[i].changed}
Unpatched(tree, patches) ==
    [f \in Files |-> IF Naming(patches, f) = {} THEN tree[f]
                     ELSE patches[Min(Naming(patches, f))].base[f]]

----------------------------------------------------------------------------
(* The conversation.                                                       *)

\* The messages hidden by a revert are removed for good.
Cleaned == IF mark = None THEN log ELSE SubSeq(log, 1, mark.cut - 1)

\* A prompt, a shell command or a summary: what is reverted is dropped first.
\* If that was the message of a revert under way, the first one after it is the
\* next to come: its id is greater.
PromptCleansUp ==
    /\ ~busy /\ ~arriving
    /\ Overlap \/ op.at = "idle"
    /\ log' = Cleaned
    /\ mark' = None
    /\ op' = [op EXCEPT !.cut = IF @ > Len(Cleaned) THEN Len(Cleaned) + 1 ELSE @]
    /\ arriving' = TRUE
    /\ UNCHANGED <<files, busy, reverts>>

\* Its message is stored and the loop starts.
PromptStored ==
    /\ arriving
    /\ Len(log) < MaxLog
    /\ log' = Append(log, [role |-> "user", base |-> files, changed |-> {}, after |-> files])
    /\ arriving' = FALSE
    /\ busy' = TRUE
    /\ UNCHANGED <<files, mark, op, reverts>>

\* A step of the agent, with the snapshot taken before it and the patch that
\* names the files it changed.
AgentStep(tree) ==
    /\ busy
    /\ Len(log) < MaxLog
    /\ log' = Append(log, [role |-> "answer", base |-> files, after |-> tree,
                           changed |-> {f \in Files : files[f] # tree[f]}])
    /\ files' = tree
    /\ UNCHANGED <<mark, busy, op, arriving, reverts>>

LoopEnds ==
    /\ busy
    /\ busy' = FALSE
    /\ UNCHANGED <<files, log, mark, op, arriving, reverts>>

----------------------------------------------------------------------------
(* revert().                                                               *)

\* The message that is marked: the user's last one up to the target.
Cut(i) == CHOOSE u \in 1..i : log[u].role = "user" /\ \A j \in u + 1 .. i : log[j].role # "user"

\* The session is found idle; the messages and the session are read.  A message
\* whose step changed nothing has no patch, and names no file.
RevertBegins(i) ==
    /\ ~busy
    /\ Overlap \/ ~arriving
    /\ op.at = "idle" /\ reverts < MaxReverts
    /\ log[i].role \in Roles
    /\ op' = [at |-> "snapshot", cut |-> Cut(i), prev |-> mark, snap |-> None,
              patches |-> SubSeq(log, i, Len(log))]
    /\ reverts' = reverts + 1
    /\ UNCHANGED <<files, log, mark, busy, arriving>>

\* Mutant of RevertSnapshots: every revert remembers the worktree it finds.
RevertSnapshotsAnew ==
    /\ op.at = "snapshot"
    /\ op' = [op EXCEPT !.at = "rewrite", !.snap = files]
    /\ UNCHANGED <<files, log, mark, busy, arriving, reverts>>

\* The first revert remembers the worktree; a later one starts from what the
\* first one remembered.
RevertSnapshots ==
    /\ op.at = "snapshot"
    /\ op' = [op EXCEPT !.at = "rewrite",
                        !.snap = IF op.prev = None THEN files ELSE op.prev.snap]
    /\ files' = IF op.prev = None THEN files ELSE Restored(files, op.prev.snap)
    /\ UNCHANGED <<log, mark, busy, arriving, reverts>>

RevertRewrites ==
    /\ op.at = "rewrite"
    /\ files' = Unpatched(files, op.patches)
    /\ op' = [op EXCEPT !.at = "mark"]
    /\ UNCHANGED <<log, mark, busy, arriving, reverts>>

RevertMarks ==
    /\ op.at = "mark"
    /\ mark' = [cut |-> op.cut, snap |-> op.snap]
    /\ op' = NoOp
    /\ UNCHANGED <<files, log, busy, arriving, reverts>>

(* unrevert().                                                             *)

UnrevertBegins ==
    /\ ~busy /\ mark # None
    /\ Overlap \/ ~arriving
    /\ op.at = "idle" /\ reverts < MaxReverts
    /\ op' = [NoOp EXCEPT !.at = "restore", !.snap = mark.snap]
    /\ reverts' = reverts + 1
    /\ UNCHANGED <<files, log, mark, busy, arriving>>

UnrevertRestores ==
    /\ op.at = "restore"
    /\ files' = Restored(files, op.snap)
    /\ op' = [op EXCEPT !.at = "clear"]
    /\ UNCHANGED <<log, mark, busy, arriving, reverts>>

UnrevertClears ==
    /\ op.at = "clear"
    /\ mark' = None
    /\ op' = NoOp
    /\ UNCHANGED <<files, log, busy, arriving, reverts>>

----------------------------------------------------------------------------

Next ==
    \/ PromptCleansUp \/ PromptStored \/ LoopEnds
    \/ \E tree \in Trees : AgentStep(tree)
    \/ \E i \in DOMAIN log : RevertBegins(i)
    \/ RevertSnapshots \/ RevertRewrites \/ RevertMarks
    \/ UnrevertBegins \/ UnrevertRestores \/ UnrevertClears

Spec == Init /\ [][Next]_vars

----------------------------------------------------------------------------
(* Properties.                                                             *)

Visible == Cleaned
Settled == op.at = "idle" /\ ~arriving

\* What the worktree was when the visible part of the log ended.
Expected == IF Visible # <<>> THEN Last(Visible).after
            ELSE IF log # <<>> THEN log[1].base ELSE files

\* After any sequence of undo and redo, and after the prompt that makes an undo
\* final, every file that existed at the end of the visible conversation holds
\* what it held there.
FilesMatchConversation ==
    Settled => \A f \in Files : Expected[f] # Absent => files[f] = Expected[f]

\* The worktree is the one at the end of the visible conversation, files that
\* did not exist then included: the previous state is restored.
PreviousStateRestored == Settled => files = Expected
=============================================================================
