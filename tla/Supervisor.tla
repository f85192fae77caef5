----------------------------- MODULE Supervisor -----------------------------
(***************************************************************************)
(* The reviewer loop of one root session: runLoop of session/prompt.ts     *)
(* with dll-agent/supervisor.ts, supervisor-state-machine.ts,              *)
(* reviewer-dispatch.ts, session-reconciler.ts and gates.ts.               *)
(*                                                                         *)
(* `state' and the cooldown variables are files and survive an interrupted *)
(* loop; `pending', `tasks' and `batch' are the loop's own and do not.     *)
(* metrics() of triggers.ts never reports a completion claim (its pattern  *)
(* is /(?!)/), so what only such a claim reaches is left out: the          *)
(* evidence, continuation and reconciliation gates pass, and the final     *)
(* gate decides.                                                           *)
(***************************************************************************)
EXTENDS Integers, SequencesExt

CONSTANTS
    Reviewers, ReadOnly, \* the reviewer roles, and those that write nothing
    Verifier,            \* the agent that runs the verification commands
    Council,             \* the primary reviewers of a cross-review council
    Escalation,          \* the roles a recovery may escalate to
    Reasons,             \* the texts a trigger rule may give as its reason
    MaxCalls, MaxTotal, MinInterval, MaxPerRound, MaxRetries,
    MaxRecoveries,       \* escalations per session (task budget of recovery)
    MaxPrompts,          \* bound: messages of the user
    MaxStep,             \* bound: the step counter stops here
    None,
    Troubles             \* what may go wrong, see Trouble

Agents == Reviewers \cup {Verifier}
Parts == {"compaction", "subtask"}

ASSUME ReviewersAssumption ==
    /\ IsFiniteSet(Reviewers) /\ ReadOnly \subseteq Reviewers /\ Escalation \subseteq Reviewers
    /\ Council \in Seq(Reviewers) /\ IsInjective(Council)
    /\ Verifier \notin Reviewers /\ None \notin Agents /\ Parts \cap Agents = {}
\* What the gate says of itself is not the name of an agent.
ASSUME GateReasonAssumption ==
    \A b \in Agents \cup {None}, q \in SUBSET Reviewers :
        <<"final gate blocked completion", b, q>> \notin Agents
ASSUME LimitsAssumption ==
    /\ MaxCalls \in Nat /\ MaxTotal \in Nat /\ MaxRetries \in Nat
    /\ MinInterval \in Nat \ {0, 1} /\ MaxPerRound \in Nat \ {0}
    /\ MaxRecoveries \in Nat /\ MaxPrompts \in Nat /\ MaxStep \in Nat \ {0}

\* interrupts: the loop may be cancelled or fail; parts: messages may carry a
\* compaction or a subtask of the user; recovery: failures escalate; council: a
\* council may be convened.
Trouble == [interrupts : BOOLEAN, parts : BOOLEAN, recovery : BOOLEAN, council : BOOLEAN]
ASSUME TroublesAssumption == Troubles \subseteq Trouble

VARIABLES
    state,       \* supervisor.json
    calls, last, \* cooldown.json: call_count and last_called_step
    seen,        \* cooldown.json: review_fingerprints
    pending,     \* supervisorPendingSubtasks
    tasks,       \* tasks, a stack with its top at the end
    batch,       \* the subtasks of the batch that are still to be run
    part,        \* a part of the newest messages that is a task
    answered,    \* the newest message is an answer of the assistant
    prompt,      \* the newest real message of the user
    step,
    pc,
    trouble      \* which of Troubles this behaviour meets

cooldown == <<calls, last, seen>>
local == <<pending, tasks, batch>>
talk == <<part, answered, prompt>>
vars == <<state, cooldown, local, talk, step, pc, trouble>>

\* What the running loop still holds to be run.
HeldSeq == pending \o tasks \o batch
Held == ToSet(HeldSeq)

Init ==
    /\ state = [required |-> {}, completed |-> {}, queued |-> {}, running |-> {},
                blocked |-> None, retries |-> [r \in Agents |-> 0], recoveries |-> 0]
    /\ calls = [r \in Reviewers |-> 0] /\ last = [r \in Reviewers |-> 0] /\ seen = {}
    /\ pending = <<>> /\ tasks = <<>> /\ batch = <<>>
    /\ part = "none" /\ answered = FALSE /\ prompt = 0 /\ step = 0
    /\ pc = "idle"
    /\ trouble \in Troubles

-----------------------------------------------------------------------------
(* The state file *)

Capped(n, max) == IF n > max THEN max ELSE n

\* What every save does first.
Normal(s) == [s EXCEPT !.required = @ \ s.completed,
                       !.queued = @ \ s.completed,
                       !.running = @ \ s.completed]

SetQueued(s, q) == Normal([s EXCEPT !.queued = q \ (s.completed \cup s.running)])

SetRunning(s, q) ==
    Normal([s EXCEPT !.running = q \ s.completed,
                     !.queued = @ \ (q \ s.completed)])

\* The reviewers of rs have answered; blocker is the last that blocks, if any.
MarkCompleted(s, rs, blocker) ==
    Normal([s EXCEPT !.completed = @ \cup rs,
                     !.blocked = IF blocker = None THEN @ ELSE blocker])

\* Counts a retry of the block that stands, under that block's own reason.
UpdateState(s, rs) ==
    LET counted == IF s.blocked = None THEN s.retries
                   ELSE [s.retries EXCEPT ![s.blocked] = Capped(@ + 1, MaxRetries + 1)]
    IN Normal([s EXCEPT !.required = @ \cup rs, !.retries = counted])

\* With real evidence at hand an exhausted count is archived.
Reconcile(s, evidence) ==
    IF evidence /\ s.blocked # None /\ s.retries[s.blocked] > MaxRetries
    THEN [s EXCEPT !.retries[s.blocked] = 0]
    ELSE s

\* Nothing stands against stopping after a trivial answer.
Clear(s) ==
    /\ s.blocked = None
    /\ s.required \cup s.queued \cup s.running = {}

-----------------------------------------------------------------------------
(* Deciding whom to call *)

\* The calls of all reviewers, each by its reviewer and its number.
TotalCalls == Cardinality(UNION {{r} \X (1..calls[r]) : r \in Reviewers})

\* Mutant of Cooled: the calls of all reviewers together are not counted.
CooledAlone(r, fingerprint) ==
    \/ fingerprint \in seen
    \/ calls[r] >= MaxCalls
    \/ last[r] # 0 /\ step + 1 - last[r] < MinInterval

\* Whether a reviewer may not be called again yet.
Cooled(r, fingerprint) ==
    \/ fingerprint \in seen
    \/ calls[r] >= MaxCalls
    \/ TotalCalls >= MaxTotal
    \/ last[r] # 0 /\ step + 1 - last[r] < MinInterval

\* addReviewer
Eligible(why) ==
    {r \in Reviewers :
        /\ r \notin state.completed \cup state.queued \cup state.running
        /\ ~Cooled(r, <<r, prompt, why>>)}

\* The trigger rules, cut to the reviewers of one round.
Decisions(why) == {d \in SeqOf(Eligible(why), MaxPerRound) : IsInjective(d)}

\* The recovery loop adds a reviewer that no rule has picked, unasked.
Escalations(decided) ==
    {<<>>} \cup
    IF trouble.recovery /\ state.recoveries < MaxRecoveries
    THEN {<<r>> : r \in Escalation \ ToSet(decided)}
    ELSE {}

\* The elements of s at the places in kept, in their order.
Keep(s, kept) ==
    [n \in 1..Cardinality(kept) |->
        s[CHOOSE i \in kept : Cardinality({j \in kept : j <= i}) = n]]

Convened(chosen) ==
    Keep(Council, {i \in DOMAIN Council :
                      /\ Council[i] \notin state.completed \cup ToSet(chosen)
                      /\ ~Cooled(Council[i], <<Council[i], "council">>)})

Without(s, rs) == Keep(s, {i \in DOMAIN s : s[i] \notin rs})

\* recordReviewerCall, for each subtask generated.
RecordCalls(rs, fingerprint) ==
    /\ calls' = [r \in Reviewers |-> IF r \in rs THEN calls[r] + 1 ELSE calls[r]]
    /\ last' = [r \in Reviewers |-> IF r \in rs THEN Capped(step + 1, MaxStep) ELSE last[r]]
    /\ seen' = seen \cup {fingerprint[r] : r \in rs}

Called(chosen, convenes) == chosen \o (IF convenes THEN Convened(chosen) ELSE <<>>)

\* supervisorUpdateState and generateSubtasks, which reuses the stored results
\* of the reviewers in reused.
Generated(why, evidence, decided, escalated, convenes, reused) ==
    LET called == Called(decided \o escalated, convenes)
        subtasks == Without(called, reused)
        updated == [Reconcile(UpdateState(state, ToSet(decided)), evidence)
                      EXCEPT !.recoveries = @ + Len(escalated)]
        fingerprint == [r \in Reviewers |->
                           IF r \in ToSet(decided) THEN <<r, prompt, why>>
                           ELSE <<r, IF r \in ToSet(escalated) THEN "recovery" ELSE "council">>]
    IN /\ pending' = pending \o subtasks
       /\ state' = IF called = <<>> /\ ~convenes THEN updated
                   ELSE SetQueued(MarkCompleted(updated, reused, None), ToSet(pending'))
       /\ RecordCalls(ToSet(subtasks), fingerprint)

\* supervisorDecide, the recovery loop and the council choose whom to call.
Supervise ==
    /\ pc = "supervise"
    /\ \E why \in Reasons, evidence \in BOOLEAN, council \in {FALSE, trouble.council} :
       \E decided \in Decisions(why) :
       \E escalated \in Escalations(decided) :
        LET convenes == council /\ ~(ToSet(Council) \subseteq state.completed)
        IN \E reused \in SUBSET ToSet(Called(decided \o escalated, convenes)) :
            Generated(why, evidence, decided, escalated, convenes, reused)
    /\ pc' = IF answered THEN "gate" ELSE "dispatch"
    /\ UNCHANGED <<tasks, batch, talk, step, trouble>>

-----------------------------------------------------------------------------
(* The loop *)

\* What came in since the messages were last read: at most one message of the
\* user, which may carry a subtask.
Arrives(came) ==
    /\ came => prompt < MaxPrompts
    /\ prompt' = IF came THEN prompt + 1 ELSE prompt
    /\ \/ part' = part
       \/ came /\ trouble.parts /\ part' = "subtask"

\* The head of the loop: the messages are read and the pending subtasks are
\* put, first one last, under what the messages ask for.
Top ==
    /\ pc = "top"
    /\ \E came \in BOOLEAN :
        /\ Arrives(came)
        /\ answered' = (answered /\ ~came)
    /\ tasks' = Reverse(pending) \o (IF part' = "none" THEN <<>> ELSE <<part'>>)
    /\ pending' = <<>>
    /\ state' = IF pending = <<>> THEN state ELSE SetQueued(state, {})
    /\ pc' \in {"supervise"} \cup
               (IF answered' /\ tasks' = <<>> /\ Clear(state) THEN {"idle"} ELSE {})
    /\ UNCHANGED <<cooldown, batch, step, trouble>>

\* Mutant of Blocked: the reviews that are still required do not count.
BlockedByVerdict(s, ledger) == s.blocked # None \/ ledger

\* The final gate holds an answer back for the state, or for what the result
\* ledger and the goal contract say.
Blocked(s, ledger) == s.blocked # None \/ s.required # {} \/ ledger

\* The reason looked up is that of the gate, the reasons counted are those of
\* the state.
GateReason(s) == <<"final gate blocked completion", s.blocked, s.required>>
Exhausted(s) == GateReason(s) \in DOMAIN s.retries /\ s.retries[GateReason(s)] > MaxRetries

\* The first gate, on an answer: accept it, or send it back with a hint.
Gate ==
    /\ pc = "gate"
    /\ \E ledger \in BOOLEAN, evidence \in BOOLEAN, verify \in BOOLEAN :
        LET s == Reconcile(state, evidence)
            nudge == Blocked(s, ledger) /\ ~Exhausted(s)
        IN /\ state' = IF nudge THEN UpdateState(s, {}) ELSE s
           /\ tasks' = IF nudge /\ verify THEN Append(tasks, Verifier) ELSE tasks
           /\ pc' = IF nudge THEN "dispatch" ELSE "idle"
    /\ UNCHANGED <<cooldown, pending, batch, talk, step, trouble>>

\* How many supervisor subtasks lie on top of the stack.
OnTop(s) ==
    CHOOSE n \in 0..Len(s) :
        /\ \A i \in Len(s) - n + 1 .. Len(s) : s[i] \in Agents
        /\ n = Len(s) \/ s[Len(s) - n] \notin Agents

\* Mutant of JoinsPrevious: the neighbour is not looked at.
JoinsReader(b, i) == b[i] \in ReadOnly

\* Neighbours that only read form one group, a writer is a group of its own.
JoinsPrevious(b, i) == b[i] \in ReadOnly /\ b[i - 1] \in ReadOnly

\* The group at the head of what is left of a batch.
GroupSize(b) ==
    CHOOSE n \in 1..Len(b) :
        /\ \A i \in 2..n : JoinsPrevious(b, i)
        /\ n = Len(b) \/ ~JoinsPrevious(b, n + 1)
Group(b) == SubSeq(b, 1, GroupSize(b))

\* Mutant of Dispatch: one subtask is popped and the messages are read again,
\* as if the tasks below it came back with them.
DispatchPopsOne ==
    /\ pc = "dispatch"
    /\ step' = Capped(step + 1, MaxStep)
    /\ tasks' = IF tasks = <<>> THEN tasks ELSE Front(tasks)
    /\ LET parts == tasks # <<>> /\ Last(tasks) \in Parts
       IN /\ batch' = IF parts \/ tasks = <<>> THEN <<>> ELSE <<Last(tasks)>>
          /\ pc' = IF tasks = <<>> THEN "llm" ELSE IF parts THEN Last(tasks) ELSE "start"
    /\ UNCHANGED <<state, cooldown, pending, talk, trouble>>

\* Two or more subtasks on top are run as a batch, else the top task alone.
Dispatch ==
    /\ pc = "dispatch"
    /\ step' = Capped(step + 1, MaxStep)
    /\ LET n == IF OnTop(tasks) >= 2 THEN OnTop(tasks) ELSE Capped(Len(tasks), 1)
           rest == SubSeq(tasks, 1, Len(tasks) - n)
           taken == Reverse(SubSeq(tasks, Len(tasks) - n + 1, Len(tasks)))
       IN /\ tasks' = rest
          /\ batch' = IF n = 1 /\ taken[1] \in Parts THEN <<>> ELSE taken
          /\ pc' = CASE n = 0 -> "llm"
                     [] n = 1 /\ taken[1] \in Parts -> taken[1]
                     [] OTHER -> "start"
    /\ UNCHANGED <<state, cooldown, pending, talk, trouble>>

StartGroup ==
    /\ pc = "start" /\ batch # <<>>
    /\ LET group == Group(batch)
           s == SetRunning(state, ToSet(group))
       IN state' = IF Len(group) > 1 THEN SetQueued(s, {}) ELSE s
    /\ pc' = "run"
    /\ UNCHANGED <<cooldown, local, talk, step, trouble>>

\* The subtasks of the group are over, each with a message of its own: the
\* newest message is no longer an answer.
FinishGroup ==
    /\ pc = "run"
    /\ \E blocker \in {None} \cup ToSet(Group(batch)) :
        state' = SetRunning(MarkCompleted(state, ToSet(Group(batch)), blocker), {})
    /\ batch' = SubSeq(batch, GroupSize(batch) + 1, Len(batch))
    /\ answered' = FALSE
    /\ pc' = "start"
    /\ UNCHANGED <<cooldown, pending, tasks, part, prompt, step, trouble>>

\* continue
EndBatch ==
    /\ pc = "start" /\ batch = <<>>
    /\ pc' = "top"
    /\ UNCHANGED <<state, cooldown, local, talk, step, trouble>>

\* A subtask of the user or a compaction; a failed compaction ends the loop.
FinishPart ==
    /\ pc \in Parts
    /\ part' = "none" /\ answered' = FALSE
    /\ pc' \in {"top"} \cup (IF pc = "compaction" THEN {"idle"} ELSE {})
    /\ UNCHANGED <<state, cooldown, local, prompt, step, trouble>>

\* The model calls tools, answers, or stops with an error or a refusal; a
\* trivial answer ends the loop at once; a full context asks for compaction.
Generate ==
    /\ pc = "llm"
    /\ \/ answered' = FALSE /\ pc' = "top" /\ part' = part
       \/ answered' = TRUE /\ pc' \in {"top", "second"} /\ part' = part
       \/ answered' = FALSE /\ pc' = "second" /\ part' = part
       \/ trouble.parts /\ answered' = FALSE /\ pc' = "top" /\ part' = "compaction"
    /\ UNCHANGED <<state, cooldown, local, prompt, step, trouble>>

\* The gate on the second way out: a trivial answer passes, anything else meets
\* the final gate.
SecondGate ==
    /\ pc = "second"
    /\ \E ledger \in BOOLEAN, evidence \in BOOLEAN :
        LET s == Reconcile(state, evidence)
        IN /\ state' = s
           /\ pc' \in {IF Blocked(s, ledger) /\ ~Exhausted(s) THEN "top" ELSE "idle"}
                      \cup (IF Clear(s) THEN {"idle"} ELSE {})
    /\ UNCHANGED <<cooldown, local, talk, step, trouble>>

\* A message to a session at rest starts a loop.
Prompt ==
    /\ pc = "idle"
    /\ prompt < MaxPrompts
    /\ Arrives(TRUE)
    /\ answered' = FALSE /\ step' = 0 /\ pc' = "top"
    /\ pending' = <<>> /\ tasks' = <<>> /\ batch' = <<>>
    /\ UNCHANGED <<state, cooldown, trouble>>

\* The loop is cancelled or fails: its own variables are gone, and no finally
\* block of a generator runs.
Interrupt ==
    /\ trouble.interrupts /\ pc # "idle"
    /\ pc' = "idle"
    /\ pending' = <<>> /\ tasks' = <<>> /\ batch' = <<>>
    /\ UNCHANGED <<state, cooldown, talk, step, trouble>>

Loop == Top \/ Supervise \/ Gate \/ Dispatch \/ StartGroup \/ FinishGroup
        \/ EndBatch \/ FinishPart \/ Generate \/ SecondGate

Next == Loop \/ Prompt \/ Interrupt

Spec == Init /\ [][Next]_vars

\* The loop goes on as long as it is not at rest: the model, a reviewer and a
\* compaction answer or fail, each within its time limit.
FairSpec == Spec /\ WF_vars(Loop)

-----------------------------------------------------------------------------
(* Properties *)

\* Every variable keeps its type, and a reviewer that has completed is not
\* called required, queued or running in what is saved.
TypeOK ==
    /\ state \in [required : SUBSET Reviewers, completed : SUBSET Agents,
                  queued : SUBSET Reviewers, running : SUBSET Agents,
                  blocked : Agents \cup {None},
                  retries : [Agents -> 0..MaxRetries + 1], recoveries : Nat]
    /\ calls \in [Reviewers -> Nat] /\ last \in [Reviewers -> 0..MaxStep]
    /\ pending \in Seq(Agents) /\ tasks \in Seq(Agents \cup Parts) /\ batch \in Seq(Agents)
    /\ part \in Parts \cup {"none"} /\ answered \in BOOLEAN
    /\ prompt \in 0..MaxPrompts /\ step \in 0..MaxStep
    /\ pc \in Parts \cup {"idle", "top", "supervise", "gate", "dispatch", "start", "run", "llm", "second"}
    /\ trouble \in Trouble
    /\ state.completed \cap (state.required \cup state.queued \cup state.running) = {}

Quiet == ~trouble.interrupts /\ ~trouble.parts

\* While nothing is interrupted and the messages carry no tasks, every reviewer
\* that the state file calls required is in the hands of the running loop, and
\* so is every one it calls queued or running if only the rules call reviewers:
\* the final gate waits for the former, addReviewer refuses the latter.
NobodyIsForgotten ==
    Quiet =>
        /\ state.required \subseteq Held
        /\ trouble.recovery \/ trouble.council
           \/ state.queued \cup state.running \subseteq Held

\* Reviewers that write run alone (planReviewerDispatchGroups).
WritersRunAlone ==
    pc = "run" /\ Len(Group(batch)) > 1 => ToSet(Group(batch)) \subseteq ReadOnly

\* Every variable keeps its type.  Apart from recovery, the budgets hold: per
\* reviewer exactly, in total up to the reviewers of one decision, who are all
\* checked against the same count; and no reviewer is held twice, though the
\* queue is already cleared when the next decision is taken.
BudgetsHold ==
    /\ TypeOK
    /\ ~trouble.recovery =>
        /\ \A r \in Reviewers : calls[r] <= MaxCalls
        /\ TotalCalls <= MaxTotal + MaxPerRound + Len(Council) - 1
        /\ \A i, j \in DOMAIN HeldSeq :
            HeldSeq[i] \in Reviewers /\ HeldSeq[i] = HeldSeq[j] => i = j

\* An answer is sent back for the same block at most MaxRetries times after the
\* first (GATE_MAX_RETRIES).
RetriesBounded ==
    [][pc = "gate" /\ pc' = "dispatch" /\ state.blocked # None
          => state.retries[state.blocked] <= MaxRetries]_vars

\* In a quiet session no required review is left undone for ever.
ReviewsGetDone == Quiet => []<>(state.required = {})
=============================================================================
