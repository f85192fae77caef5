------------------------- MODULE ConversationProofs -------------------------
(***************************************************************************)
(* What holds of an answer, of the subagents it calls, of the reverts of   *)
(* a conversation and of its compactions, for every number of tool calls,  *)
(* attempts, tasks, files and messages.  While a component does not move   *)
(* it is in an initial state, so the invariants hold in all states;        *)
(* Services gives the names of the variables and of the properties.        *)
(***************************************************************************)
EXTENDS Services, WellFoundedInduction, SequenceTheorems, TLAPS

----------------------------------------------------------------------------
(* Subagents (Subtask): no session runs for a task that is over.           *)

\* A session that is not at rest has a task that waits for it.
RunsForTask == \A n \in Sub!Tasks : loop[n] # "idle" => taskPhase[n] \in {"waiting", "closing"}

\* A task outlives the loop that it belongs to only as a tool with its signal.
OpenInLoop ==
    \A n \in Sub!Tasks :
        Sub!Open(n) => loop[by[n]] # "idle" \/ (taskKind[n] = "tool" /\ n \in signal)

\* A signal has been missed, or its cancel is under way while there is, or may
\* be, a loop to cancel.
SignalCounts ==
    \A n \in signal \ missed :
        /\ taskPhase[n] \notin {"new", "asking"}
        /\ loop[n] = "running" \/ taskPhase[n] = "prompting" => n \in cancels

\* Only parts close, while their loop is being stopped.
PartsClose ==
    \A n \in Sub!Tasks : taskPhase[n] = "closing" => taskKind[n] = "part" /\ loop[by[n]] = "stopping"

NewIsUnknown == \A n \in Sub!Tasks : taskPhase[n] = "new" => n \notin signal

SubIInv == Sub!TypeOK /\ RunsForTask /\ OpenInLoop /\ SignalCounts /\ PartsClose /\ NewIsUnknown

LEMMA InterruptedType ==
  ASSUME MaxTasks \in Nat, Sub!TypeOK, NEW s \in Sub!AllSessions, NEW others, others \subseteq cancels, Sub!Interrupted(s, others)
  PROVE  Sub!TypeOK'
<1> DEFINE tools == {n \in Sub!Held(s) : taskKind[n] = "tool"}
<1>1. tools \subseteq Sub!Tasks
  BY DEF Sub!Held
<1>2. /\ loop' = [loop EXCEPT ![s] = "stopping"]
      /\ taskPhase' = [n \in Sub!Tasks |->
            IF n \notin Sub!Held(s) \ tools THEN taskPhase[n]
            ELSE IF taskPhase[n] = "waiting" THEN "closing" ELSE "over"]
      /\ signal' = signal \cup tools
      /\ missed' = missed \cup {n \in tools : taskPhase[n] = "asking"}
      /\ cancels' = others \cup {n \in tools : Sub!Listens(n)}
      /\ UNCHANGED <<by, taskKind>>
  BY DEF Sub!Interrupted, Sub!Signalled
<1> HIDE DEF tools
<1> QED BY <1>1, <1>2 DEF Sub!TypeOK

\* Every variable keeps its type.
LEMMA SubTypeStep ==
  ASSUME MaxTasks \in Nat, Sub!TypeOK, [Sub!Next]_(Sub!vars)
  PROVE  Sub!TypeOK'
<1>0. Sub!Tasks \subseteq Sub!AllSessions
  BY DEF Sub!Tasks, Sub!AllSessions
<1>1. CASE UNCHANGED Sub!vars
  BY <1>1 DEF Sub!vars, Sub!TypeOK
<1>2. CASE Sub!Prompt
  BY <1>2 DEF Sub!Prompt, Sub!TypeOK
<1>3. ASSUME NEW s \in Sub!AllSessions, Sub!Cancel(s) PROVE Sub!TypeOK'
  BY <1>3, InterruptedType DEF Sub!Cancel
<1>4. ASSUME NEW s \in Sub!AllSessions, Sub!LoopStopped(s) \/ Sub!LoopEnds(s) PROVE Sub!TypeOK'
  BY <1>4 DEF Sub!LoopStopped, Sub!LoopEnds, Sub!TypeOK
<1>5. ASSUME NEW n \in Sub!Tasks, NEW s \in 0..n - 1, NEW k \in {"part", "tool"}, Sub!Call(n, s, k)
      PROVE  Sub!TypeOK'
  <2>1. s \in Sub!AllSessions
    BY DEF Sub!Tasks, Sub!AllSessions
  <2> QED BY <1>5, <2>1 DEF Sub!Call, Sub!TypeOK
<1>6. ASSUME NEW n \in Sub!Tasks, Sub!Refused(n) \/ Sub!Listen(n) \/ Sub!Start(n) \/ Sub!Return(n) PROVE Sub!TypeOK'
  BY <1>0, <1>6 DEF Sub!Refused, Sub!Listen, Sub!Start, Sub!Return, Sub!TypeOK
<1>7. ASSUME NEW n \in Sub!Tasks, Sub!Release(n) PROVE Sub!TypeOK'
  <2>1. CASE Sub!Interrupted(n, cancels)
    BY <1>0, <2>1, InterruptedType
  <2> QED BY <1>7, <2>1 DEF Sub!Release, Sub!TypeOK
<1>8. ASSUME NEW n \in Sub!Tasks, Sub!Timeout(n) PROVE Sub!TypeOK'
  BY <1>8 DEF Sub!Timeout, Sub!Signalled, Sub!TypeOK
<1>9. ASSUME NEW n \in Sub!Tasks, Sub!CancelLands(n) PROVE Sub!TypeOK'
  <2>1. CASE Sub!Interrupted(n, cancels \ {n})
    BY <1>0, <2>1, InterruptedType
  <2> QED BY <1>9, <2>1 DEF Sub!CancelLands, Sub!TypeOK
<1> QED
  BY <1>1, <1>2, <1>3, <1>4, <1>5, <1>6, <1>7, <1>8, <1>9 DEF Sub!Next, Sub!TaskStep

\* The interrupt of a loop keeps the invariant; a cancel that has been carried
\* out is not needed any more.
LEMMA InterruptedInv ==
  ASSUME MaxTasks \in Nat, SubIInv, NEW s \in Sub!AllSessions, NEW others, others \subseteq cancels,
         loop[s] = "running", cancels \ others \subseteq {s}, Sub!Interrupted(s, others)
  PROVE  SubIInv'
<1> DEFINE tools == {n \in Sub!Held(s) : taskKind[n] = "tool"}
<1>1. /\ tools \subseteq Sub!Tasks
      /\ \A n \in tools : Sub!Open(n) /\ by[n] = s /\ taskKind[n] = "tool"
      /\ \A n \in Sub!Held(s) \ tools : n \in Sub!Tasks /\ Sub!Open(n) /\ by[n] = s /\ taskKind[n] = "part"
  BY DEF Sub!Held, SubIInv, Sub!TypeOK
<1>2. /\ loop' = [loop EXCEPT ![s] = "stopping"]
      /\ taskPhase' = [n \in Sub!Tasks |->
            IF n \notin Sub!Held(s) \ tools THEN taskPhase[n]
            ELSE IF taskPhase[n] = "waiting" THEN "closing" ELSE "over"]
      /\ signal' = signal \cup tools
      /\ missed' = missed \cup {n \in tools : taskPhase[n] = "asking"}
      /\ cancels' = others \cup {n \in tools : Sub!Listens(n)}
      /\ UNCHANGED <<by, taskKind>>
  BY DEF Sub!Interrupted, Sub!Signalled
<1> DEFINE parts == Sub!Held(s) \ tools
<1>3. /\ \A n \in parts : n \in Sub!Tasks /\ Sub!Open(n) /\ by[n] = s /\ taskKind[n] = "part"
      /\ taskPhase' = [n \in Sub!Tasks |->
            IF n \notin parts THEN taskPhase[n]
            ELSE IF taskPhase[n] = "waiting" THEN "closing" ELSE "over"]
  BY <1>1, <1>2
<1> HIDE DEF tools, parts
<1>4. Sub!TypeOK'
  BY InterruptedType DEF SubIInv
<1>5. loop'[s] = "stopping" /\ \A n \in Sub!AllSessions : n # s => loop'[n] = loop[n]
  BY <1>2 DEF SubIInv, Sub!TypeOK
<1>6. Sub!Tasks \subseteq Sub!AllSessions
  BY DEF Sub!Tasks, Sub!AllSessions
<1>7. RunsForTask'
  <2> SUFFICES ASSUME NEW n \in Sub!Tasks, loop'[n] # "idle"
               PROVE  taskPhase'[n] \in {"waiting", "closing"}
    BY DEF RunsForTask
  <2>1. loop[n] # "idle"
    BY <1>5, <1>6
  <2>2. taskPhase[n] \in {"waiting", "closing"}
    BY <2>1 DEF SubIInv, RunsForTask
  <2>3. n \in parts => taskPhase[n] = "waiting"
    BY <1>3, <2>2 DEF SubIInv, PartsClose
  <2> QED BY <1>3, <2>2, <2>3
<1>8. OpenInLoop'
  <2> SUFFICES ASSUME NEW n \in Sub!Tasks, Sub!Open(n)'
               PROVE  loop'[by'[n]] # "idle" \/ (taskKind'[n] = "tool" /\ n \in signal')
    BY DEF OpenInLoop
  <2>1. Sub!Open(n)
    BY <1>3 DEF Sub!Open
  <2>2. by[n] \in Sub!AllSessions
    BY DEF SubIInv, Sub!TypeOK
  <2> QED BY <1>2, <1>5, <2>1, <2>2 DEF SubIInv, OpenInLoop
<1>9. SignalCounts'
  <2> SUFFICES ASSUME NEW n \in signal' \ missed'
               PROVE  /\ taskPhase'[n] \notin {"new", "asking"}
                      /\ loop'[n] = "running" \/ taskPhase'[n] = "prompting" => n \in cancels'
    BY DEF SignalCounts
  <2>1. n \in Sub!Tasks
    BY <1>1, <1>2 DEF SubIInv, Sub!TypeOK
  <2>2. CASE n \in tools
    <3>1. Sub!Listens(n)
      BY <1>1, <1>2, <2>1, <2>2 DEF SubIInv, Sub!TypeOK, PartsClose, Sub!Open, Sub!Listens
    <3> QED BY <1>2, <1>3, <2>1, <2>2, <3>1 DEF Sub!Listens
  <2>3. CASE n \notin tools
    <3>1. n \in signal \ missed
      BY <1>2, <2>3
    <3>2. /\ taskPhase[n] \notin {"new", "asking"}
          /\ loop[n] = "running" \/ taskPhase[n] = "prompting" => n \in cancels
      BY <3>1 DEF SubIInv, SignalCounts
    <3>3. taskPhase'[n] \notin {"new", "asking"}
      BY <1>3, <2>1, <3>2
    <3>4. ASSUME loop'[n] = "running" \/ taskPhase'[n] = "prompting" PROVE n \in cancels'
      <4>1. n # s
        BY <1>3, <1>5, <2>1, <3>4 DEF SubIInv, RunsForTask
      <4>2. loop[n] = "running" \/ taskPhase[n] = "prompting"
        BY <1>3, <1>5, <1>6, <2>1, <3>4, <4>1
      <4> QED BY <1>2, <3>2, <4>1, <4>2
    <3> QED BY <3>3, <3>4
  <2> QED BY <2>2, <2>3
<1>10. PartsClose'
  <2> SUFFICES ASSUME NEW n \in Sub!Tasks, taskPhase'[n] = "closing"
               PROVE  taskKind'[n] = "part" /\ loop'[by'[n]] = "stopping"
    BY DEF PartsClose
  <2>1. by[n] \in Sub!AllSessions
    BY DEF SubIInv, Sub!TypeOK
  <2>2. CASE n \in parts
    BY <1>2, <1>3, <1>5, <2>2
  <2>3. CASE n \notin parts
    <3>1. taskPhase[n] = "closing"
      BY <1>3, <2>3
    <3> QED BY <1>2, <1>5, <2>1, <3>1 DEF SubIInv, PartsClose
  <2> QED BY <2>2, <2>3
<1>11. NewIsUnknown'
  <2> SUFFICES ASSUME NEW n \in Sub!Tasks, taskPhase'[n] = "new" PROVE n \notin signal'
    BY DEF NewIsUnknown
  <2>1. taskPhase[n] = "new"
    BY <1>3
  <2> QED BY <1>1, <1>2, <2>1 DEF SubIInv, NewIsUnknown, Sub!Open
<1> QED BY <1>4, <1>7, <1>8, <1>9, <1>10, <1>11 DEF SubIInv

LEMMA SubRestStep ==
  ASSUME MaxTasks \in Nat, SubIInv, Sub!TypeOK', [Sub!Next]_(Sub!vars)
  PROVE  SubIInv'
<1> USE DEF SubIInv, Sub!TypeOK, RunsForTask, OpenInLoop, SignalCounts, PartsClose, NewIsUnknown, Sub!Open
<1>0. Sub!Tasks \subseteq Sub!AllSessions
  BY DEF Sub!Tasks, Sub!AllSessions
<1>1. CASE UNCHANGED Sub!vars
  BY <1>1 DEF Sub!vars
<1>2. CASE Sub!Prompt
  <2>1. 0 \notin Sub!Tasks
    BY DEF Sub!Tasks
  <2> QED BY <1>2, <2>1 DEF Sub!Prompt
<1>3. ASSUME NEW s \in Sub!AllSessions, Sub!Cancel(s) PROVE SubIInv'
  <2> HIDE DEF SubIInv
  <2> QED BY <1>3, InterruptedInv DEF Sub!Cancel
<1>4. ASSUME NEW s \in Sub!AllSessions, Sub!LoopStopped(s) \/ Sub!LoopEnds(s) PROVE SubIInv'
  <2>1. /\ Sub!Held(s) = {} /\ loop' = [loop EXCEPT ![s] = "idle"]
        /\ UNCHANGED <<taskPhase, by, taskKind, signal, cancels, missed>>
    BY <1>4 DEF Sub!LoopStopped, Sub!LoopEnds
  <2>2. \A n \in Sub!Tasks : Sub!Open(n) /\ by[n] = s => taskKind[n] = "tool" /\ n \in signal
    BY <2>1 DEF Sub!Held
  <2> QED BY <1>0, <2>1, <2>2
<1>5. ASSUME NEW n \in Sub!Tasks, NEW s \in 0..n - 1, NEW k \in {"part", "tool"}, Sub!Call(n, s, k)
      PROVE  SubIInv'
  <2>1. s \in Sub!AllSessions
    BY DEF Sub!Tasks, Sub!AllSessions
  <2> QED BY <1>5, <2>1 DEF Sub!Call
<1>6. ASSUME NEW n \in Sub!Tasks, Sub!Refused(n) \/ Sub!Listen(n) PROVE SubIInv'
  BY <1>0, <1>6 DEF Sub!Refused, Sub!Listen
<1>7. ASSUME NEW n \in Sub!Tasks, Sub!Start(n) PROVE SubIInv'
  BY <1>0, <1>7 DEF Sub!Start
<1>8. ASSUME NEW n \in Sub!Tasks, Sub!Return(n) PROVE SubIInv'
  BY <1>0, <1>8 DEF Sub!Return
<1>9. ASSUME NEW n \in Sub!Tasks, Sub!Release(n) PROVE SubIInv'
  <2>1. CASE loop[n] = "running" /\ Sub!Interrupted(n, cancels)
    <3> HIDE DEF SubIInv
    <3> QED BY <1>0, <2>1, InterruptedInv
  <2> QED BY <1>0, <1>9, <2>1 DEF Sub!Release
<1>10. ASSUME NEW n \in Sub!Tasks, Sub!Timeout(n) PROVE SubIInv'
  BY <1>0, <1>10 DEF Sub!Timeout, Sub!Signalled, Sub!Listens
<1>11. ASSUME NEW n \in Sub!Tasks, Sub!CancelLands(n) PROVE SubIInv'
  <2>1. CASE loop[n] = "running"
    <3>1. Sub!Interrupted(n, cancels \ {n})
      BY <1>11, <2>1 DEF Sub!CancelLands
    <3> HIDE DEF SubIInv
    <3> QED BY <1>0, <2>1, <3>1, InterruptedInv
  <2> QED BY <1>0, <1>11, <2>1 DEF Sub!CancelLands
<1> HIDE DEF SubIInv
<1> QED
  BY <1>1, <1>2, <1>3, <1>4, <1>5, <1>6, <1>7, <1>8, <1>9, <1>10, <1>11 DEF Sub!Next, Sub!TaskStep

LEMMA SubInitInv == Sub!ConstantAssumption /\ Sub!Init => SubIInv
  BY DEF Sub!ConstantAssumption, Sub!Init, SubIInv, Sub!TypeOK, RunsForTask, OpenInLoop, SignalCounts, PartsClose,
         NewIsUnknown, Sub!Open, Sub!Tasks, Sub!AllSessions

LEMMA SubStepInv == Sub!ConstantAssumption /\ SubIInv /\ [Sub!Next]_(Sub!vars) => SubIInv'
<1> SUFFICES ASSUME MaxTasks \in Nat, SubIInv, [Sub!Next]_(Sub!vars) PROVE SubIInv'
  BY DEF Sub!ConstantAssumption
<1>1. Sub!TypeOK'
  BY SubTypeStep DEF SubIInv
<1> QED BY <1>1, SubRestStep

LEMMA SubInvGives == SubIInv => Sub!TypeOK /\ Sub!NoOrphans
  BY DEF SubIInv, Sub!TypeOK, RunsForTask, OpenInLoop, SignalCounts, Sub!NoOrphans, Sub!Open

\* A step of the services is a step of this component or leaves it alone.
LEMMA SubMoves == [Next]_vars => [Sub!Next]_(Sub!vars)
  BY DEF Next, Others, vars, subVars, Sub!vars

LEMMA SubInvariant == Spec => []SubIInv
<1>1. Init => SubIInv
  BY ComponentAssumptions, SubInitInv DEF Init
<1>2. SubIInv /\ [Next]_vars => SubIInv'
  BY ComponentAssumptions, SubMoves, SubStepInv
<1> QED BY <1>1, <1>2, PTL DEF Spec

\* No session of a subagent runs for a task that is over, for any number of tasks.
THEOREM NoOrphansTheorem == Spec => []NoOrphans
<1>1. SubIInv => NoOrphans
  BY SubInvGives DEF NoOrphans
<1>2. Spec => []SubIInv
  BY SubInvariant
<1> QED BY <1>1, <1>2, PTL

----------------------------------------------------------------------------
(* The processor: no tool call is left open, the first outcome stands.     *)

AnswerEvents == [kind : Answer!Kinds, call : ToolCalls] \cup [kind : {"finish-step"}]

\* The stream announces a call once, and before anything is known of it.
AnnouncedOnce ==
    /\ \A i \in 1..Len(events) : events[i].kind = "start" =>
          /\ events[i].call \in ToolCalls
          /\ part[events[i].call] = "none"
          /\ tool[events[i].call] # "none"
    /\ \A i, j \in 1..Len(events) :
          events[i].kind = "start" /\ events[j].kind = "start"
            /\ events[i].call = events[j].call => i = j

\* The calls that are open are those without an outcome, and those deleted.
OpenIsUnsettled ==
    \A k \in ToolCalls : /\ part[k] \in {"pending", "running"} => k \in open
                         /\ k \in open => part[k] \in {"pending", "running", "removed"}
                         /\ part[k] # "none" => tool[k] # "none"

AnswerPositions == /\ pc = "done" => open = {}
                   /\ pc = "backoff" => attempt < MaxAttempts

AnswerIInv == Answer!TypeOK /\ AnnouncedOnce /\ OpenIsUnsettled /\ AnswerPositions

----------------------------------------------------------------------------
(* What the writers of a part do.                                          *)

\* The status of one part changes only where the call is open.
Rewritten ==
    /\ part' \in [ToolCalls -> {"none", "pending", "running"} \cup Answer!Final]
    /\ open' \subseteq open
    /\ \A k \in ToolCalls : /\ part'[k] \in {"pending", "running"} => k \in open'
                            /\ k \in open' => part'[k] \in {"pending", "running", "removed"}
                            /\ part[k] = "none" <=> part'[k] = "none"
                            /\ part[k] \in {"completed", "error"} => part'[k] \in {part[k], "removed"}
                            /\ part[k] = "removed" => part'[k] = "removed"

LEMMA UnchangedRewrites ==
  ASSUME Answer!TypeOK, OpenIsUnsettled, part' = part, open' = open
  PROVE  Rewritten
  BY DEF Answer!TypeOK, OpenIsUnsettled, Rewritten

LEMMA SettleRewrites ==
  ASSUME Answer!TypeOK, OpenIsUnsettled, NEW k \in ToolCalls, NEW s \in {"completed", "error"}, Answer!Settle(k, s)
  PROVE  Rewritten
<1>1. CASE Answer!Readable(k) /\ part[k] = "running"
  BY <1>1 DEF Answer!Settle, Answer!TypeOK, OpenIsUnsettled, Rewritten, Answer!Final
<1>2. CASE ~(Answer!Readable(k) /\ part[k] = "running")
  BY <1>2 DEF Answer!Settle, Answer!TypeOK, OpenIsUnsettled, Rewritten, Answer!Final
<1> QED BY <1>1, <1>2

LEMMA RunRewrites ==
  ASSUME Answer!TypeOK, OpenIsUnsettled, NEW k \in ToolCalls, NEW from, Answer!Run(k, from)
  PROVE  Rewritten
<1>1. CASE Answer!Readable(k)
  BY <1>1 DEF Answer!Run, Answer!Readable, Answer!TypeOK, OpenIsUnsettled, Rewritten, Answer!Final
<1>2. CASE ~Answer!Readable(k)
  BY <1>2 DEF Answer!Run, Answer!Readable, Answer!TypeOK, OpenIsUnsettled, Rewritten, Answer!Final
<1> QED BY <1>1, <1>2

----------------------------------------------------------------------------
(* What happens to the events that wait.                                   *)

\* Calls of which nothing is known yet stay so.
AnswerUnknown == \A k \in ToolCalls : /\ part[k] = "none" => part'[k] = "none"
                                      /\ tool[k] # "none" => tool'[k] # "none"

LEMMA EventsStay ==
  ASSUME AnnouncedOnce, AnswerUnknown, events' = events
  PROVE  AnnouncedOnce'
  BY DEF AnnouncedOnce, AnswerUnknown

LEMMA EventsGo ==
  ASSUME events' = <<>>
  PROVE  AnnouncedOnce' /\ events' \in Seq(AnswerEvents)
  BY DEF AnnouncedOnce

LEMMA EventTaken ==
  ASSUME AnnouncedOnce, AnswerUnknown, events \in Seq(AnswerEvents), events # <<>>, events' = Tail(events)
  PROVE  AnnouncedOnce' /\ events' \in Seq(AnswerEvents)
<1>1. /\ Len(events) \in Nat \ {0} /\ Len(events') = Len(events) - 1 /\ events' \in Seq(AnswerEvents)
      /\ \A i \in 1..Len(events') : i + 1 \in 1..Len(events) /\ events'[i] = events[i + 1]
  OBVIOUS
<1>2. ASSUME NEW i \in 1..Len(events'), events'[i].kind = "start"
      PROVE  /\ events'[i].call \in ToolCalls
             /\ part'[events'[i].call] = "none" /\ tool'[events'[i].call] # "none"
  BY <1>1, <1>2 DEF AnnouncedOnce, AnswerUnknown
<1>3. ASSUME NEW i \in 1..Len(events'), NEW j \in 1..Len(events'),
             events'[i].kind = "start", events'[j].kind = "start", events'[i].call = events'[j].call
      PROVE  i = j
  <2>1. i + 1 = j + 1
    BY <1>1, <1>3 DEF AnnouncedOnce
  <2> QED BY <2>1
<1> QED BY <1>1, <1>2, <1>3 DEF AnnouncedOnce

LEMMA EventSent ==
  ASSUME AnnouncedOnce, AnswerUnknown, events \in Seq(AnswerEvents), NEW e \in AnswerEvents,
         events' = Append(events, e),
         e.kind = "start" => /\ e.call \in ToolCalls /\ tool[e.call] = "none"
                             /\ part'[e.call] = "none" /\ tool'[e.call] # "none"
  PROVE  AnnouncedOnce' /\ events' \in Seq(AnswerEvents)
<1>1. /\ Len(events) \in Nat /\ Len(events') = Len(events) + 1 /\ events' \in Seq(AnswerEvents)
      /\ \A i \in 1..Len(events) : events'[i] = events[i]
      /\ events'[Len(events) + 1] = e
  OBVIOUS
<1>2. \A i \in 1..Len(events') : i \in 1..Len(events) \/ i = Len(events) + 1
  BY <1>1
<1>3. ASSUME NEW i \in 1..Len(events'), events'[i].kind = "start"
      PROVE  /\ events'[i].call \in ToolCalls
             /\ part'[events'[i].call] = "none" /\ tool'[events'[i].call] # "none"
  BY <1>1, <1>2, <1>3 DEF AnnouncedOnce, AnswerUnknown
<1>4. ASSUME NEW i \in 1..Len(events'), NEW j \in 1..Len(events'),
             events'[i].kind = "start", events'[j].kind = "start", events'[i].call = events'[j].call
      PROVE  i = j
  <2>1. CASE i \in 1..Len(events) /\ j \in 1..Len(events)
    BY <1>1, <1>4, <2>1 DEF AnnouncedOnce
  <2>2. CASE i \in 1..Len(events) /\ j = Len(events) + 1
    <3>1. tool[events[i].call] # "none"
      BY <1>1, <1>4, <2>2 DEF AnnouncedOnce
    <3> QED BY <1>1, <1>4, <2>2, <3>1
  <2>3. CASE i = Len(events) + 1 /\ j \in 1..Len(events)
    <3>1. tool[events[j].call] # "none"
      BY <1>1, <1>4, <2>3 DEF AnnouncedOnce
    <3> QED BY <1>1, <1>4, <2>3, <3>1
  <2> QED BY <1>2, <2>1, <2>2, <2>3
<1> QED BY <1>1, <1>3, <1>4 DEF AnnouncedOnce

----------------------------------------------------------------------------
(* The steps.                                                              *)

AnswerRestTyped ==
    /\ tool \in [ToolCalls -> {"none", "input", "running", "returned", "failed"}]
    /\ born \in [ToolCalls -> 0..MaxAttempts]
    /\ pc \in {"stream", "asking", "backoff", "patching", "waiting", "done"}
    /\ attempt \in 1..MaxAttempts
    /\ finish \in {"no", "fits", "overflow"}
    /\ error \in {"none", "aborted", "failed"}
    /\ compact \in BOOLEAN /\ blocked \in BOOLEAN /\ break \in BOOLEAN
    /\ summary \in BOOLEAN /\ aborted \in BOOLEAN

OutcomesStand ==
    \A k \in ToolCalls : /\ part[k] \in {"completed", "error"} => part'[k] \in {part[k], "removed"}
                         /\ part[k] = "removed" => part'[k] = "removed"

LEMMA AnswerSplit == Answer!TypeOK => AnswerRestTyped /\ events \in Seq(AnswerEvents)
  BY DEF Answer!TypeOK, AnswerRestTyped, AnswerEvents

\* A step that only rewrites parts, and sends or takes events.
LEMMA AnswerStepOf ==
  ASSUME Answer!TypeOK, OpenIsUnsettled, Rewritten,
         \A k \in ToolCalls : tool[k] # "none" => tool'[k] # "none",
         AnswerRestTyped', events' \in Seq(AnswerEvents), AnnouncedOnce', AnswerPositions'
  PROVE  AnswerIInv' /\ OutcomesStand
<1>1. OpenIsUnsettled' /\ OutcomesStand
  BY DEF Rewritten, OpenIsUnsettled, OutcomesStand
<1>2. Answer!TypeOK'
  <2>1. open' \subseteq ToolCalls /\ part' \in [ToolCalls -> {"none", "pending", "running"} \cup Answer!Final]
    BY DEF Rewritten, Answer!TypeOK
  <2> QED BY ZenonT(30), <2>1 DEF Answer!TypeOK, AnswerRestTyped, AnswerEvents
<1> QED BY <1>1, <1>2 DEF AnswerIInv

\* The calls keep their sides, and what is unknown stays so.
LEMMA RewrittenUnknown ==
  ASSUME Rewritten, \A k \in ToolCalls : tool[k] # "none" => tool'[k] # "none"
  PROVE  AnswerUnknown
  BY DEF Rewritten, AnswerUnknown

\* An event of the given kind about a call.
LEMMA EventTyped ==
  ASSUME NEW k \in ToolCalls, NEW why \in Answer!Kinds
  PROVE  [kind |-> why, call |-> k] \in AnswerEvents
  BY DEF AnswerEvents

LEMMA ModelStep ==
  ASSUME Answer!ConstantAssumption, AnswerIInv, NEW k \in ToolCalls, Answer!ModelNamesTool(k) \/ Answer!ModelCallsTool(k)
  PROVE  AnswerIInv' /\ OutcomesStand
<1>1. AnswerRestTyped /\ events \in Seq(AnswerEvents)
  BY AnswerSplit DEF AnswerIInv
<1>2. Rewritten
  BY UnchangedRewrites DEF AnswerIInv, Answer!ModelNamesTool, Answer!ModelCallsTool
<1>3. CASE Answer!ModelNamesTool(k)
  <2>1. /\ tool[k] = "none" /\ tool' = [tool EXCEPT ![k] = "input"]
        /\ events' = Append(events, [kind |-> "start", call |-> k])
        /\ part' = part /\ UNCHANGED <<pc, attempt, open>>
    BY <1>3 DEF Answer!ModelNamesTool, Answer!Emit
  <2>2. AnswerRestTyped'
    BY <1>1, <1>3 DEF AnswerRestTyped, Answer!ModelNamesTool, Answer!ctxVars, Answer!fixed, Answer!ConstantAssumption
  <2>3. part[k] = "none" /\ tool'[k] # "none"
    BY <1>1, <2>1 DEF AnswerIInv, OpenIsUnsettled, AnswerRestTyped
  <2>4. \A m \in ToolCalls : tool[m] # "none" => tool'[m] # "none"
    BY <1>1, <2>1 DEF AnswerRestTyped
  <2>5. [kind |-> "start", call |-> k] \in AnswerEvents
    BY EventTyped DEF Answer!Kinds
  <2>6. AnnouncedOnce' /\ events' \in Seq(AnswerEvents)
    BY <1>1, <1>2, <2>1, <2>3, <2>4, <2>5, RewrittenUnknown, EventSent DEF AnswerIInv
  <2> QED BY <1>2, <2>1, <2>2, <2>4, <2>6, AnswerStepOf DEF AnswerIInv, AnswerPositions
<1>4. CASE Answer!ModelCallsTool(k)
  <2>1. /\ tool' = [tool EXCEPT ![k] = "running"]
        /\ events' = Append(events, [kind |-> "call", call |-> k])
        /\ UNCHANGED <<pc, attempt, open>>
    BY <1>4 DEF Answer!ModelCallsTool, Answer!Emit
  <2>2. AnswerRestTyped'
    BY <1>1, <1>4 DEF AnswerRestTyped, Answer!ModelCallsTool, Answer!ctxVars, Answer!fixed
  <2>3. \A m \in ToolCalls : tool[m] # "none" => tool'[m] # "none"
    BY <1>1, <2>1 DEF AnswerRestTyped
  <2>4. [kind |-> "call", call |-> k] \in AnswerEvents
    BY EventTyped DEF Answer!Kinds
  <2>5. AnnouncedOnce' /\ events' \in Seq(AnswerEvents)
    BY <1>1, <1>2, <2>1, <2>3, <2>4, RewrittenUnknown, EventSent DEF AnswerIInv
  <2> QED BY <1>2, <2>1, <2>2, <2>3, <2>5, AnswerStepOf DEF AnswerIInv, AnswerPositions
<1> QED BY <1>3, <1>4

LEMMA ToolStep ==
  ASSUME AnswerIInv, NEW k \in ToolCalls,
         Answer!ToolReports(k) \/ Answer!ToolReturns(k)
           \/ \E why \in {"failure", "rejection"} : Answer!ToolFails(k, why)
  PROVE  AnswerIInv' /\ OutcomesStand
<1>1. AnswerRestTyped /\ events \in Seq(AnswerEvents)
  BY AnswerSplit DEF AnswerIInv
<1>2. Rewritten
  <2>1. CASE Answer!ToolReports(k)
    BY <2>1, RunRewrites DEF AnswerIInv, Answer!ToolReports
  <2>2. CASE Answer!ToolReturns(k)
    <3>1. Answer!Settle(k, "completed") \/ UNCHANGED <<part, open>>
      BY <2>2 DEF Answer!ToolReturns
    <3> QED BY <3>1, SettleRewrites, UnchangedRewrites DEF AnswerIInv
  <2>3. CASE \E why \in {"failure", "rejection"} : Answer!ToolFails(k, why)
    BY <2>3, UnchangedRewrites DEF AnswerIInv, Answer!ToolFails
  <2> QED BY <2>1, <2>2, <2>3
<1>3. /\ AnswerRestTyped' /\ UNCHANGED <<pc, attempt>>
      /\ \A m \in ToolCalls : tool[m] # "none" => tool'[m] # "none"
  <2>1. /\ tool' = tool \/ tool' = [tool EXCEPT ![k] = "returned"]
                        \/ tool' = [tool EXCEPT ![k] = "failed"]
        /\ UNCHANGED <<born, pc, attempt, finish, Answer!ctxVars, Answer!fixed, aborted>>
    BY DEF Answer!ToolReports, Answer!ToolReturns, Answer!ToolFails, Answer!toolVars
  <2>2. /\ tool' \in [ToolCalls -> {"none", "input", "running", "returned", "failed"}]
        /\ \A m \in ToolCalls : tool[m] # "none" => tool'[m] # "none"
    BY <1>1, <2>1 DEF AnswerRestTyped
  <2> QED BY <1>1, <2>1, <2>2 DEF AnswerRestTyped, Answer!ctxVars, Answer!fixed
<1>4. events' = events \/ \E e \in AnswerEvents : e.kind # "start" /\ events' = Append(events, e)
  <2>1. /\ [kind |-> "result", call |-> k] \in AnswerEvents
        /\ \A why \in {"failure", "rejection"} : [kind |-> why, call |-> k] \in AnswerEvents
    BY EventTyped DEF Answer!Kinds
  <2> QED BY <2>1 DEF Answer!ToolReports, Answer!ToolReturns, Answer!ToolFails, Answer!Emit
<1>5. AnnouncedOnce' /\ events' \in Seq(AnswerEvents)
  BY <1>1, <1>2, <1>3, <1>4, RewrittenUnknown, EventsStay, EventSent DEF AnswerIInv
<1>6. AnswerPositions'
  <2>1. open' \subseteq open
    BY <1>2 DEF Rewritten
  <2> QED BY <1>3, <2>1 DEF AnswerIInv, AnswerPositions
<1> QED BY <1>2, <1>3, <1>5, <1>6, AnswerStepOf DEF AnswerIInv

\* A step that leaves the parts and the tools alone; what waits stays, goes or
\* is joined by an event that announces no call.
LEMMA QuietStep ==
  ASSUME AnswerIInv, UNCHANGED <<part, open, tool>>, AnswerRestTyped', AnswerPositions',
         \/ events' = events \/ events' = <<>>
         \/ \E e \in AnswerEvents : e.kind # "start" /\ events' = Append(events, e)
  PROVE  AnswerIInv' /\ OutcomesStand
<1>1. Rewritten
  BY UnchangedRewrites DEF AnswerIInv
<1>2. AnswerUnknown
  BY DEF AnswerUnknown
<1>3. AnnouncedOnce' /\ events' \in Seq(AnswerEvents)
  BY <1>2, AnswerSplit, EventsStay, EventsGo, EventSent DEF AnswerIInv
<1> QED BY <1>1, <1>3, AnswerStepOf DEF AnswerIInv

LEMMA FinishesStep ==
  ASSUME AnswerIInv, NEW f \in {"fits", "overflow"}, Answer!StepFinishes(f)
  PROVE  AnswerIInv' /\ OutcomesStand
<1>1. AnswerRestTyped' /\ AnswerPositions'
  BY AnswerSplit DEF AnswerIInv, Answer!StepFinishes, AnswerRestTyped, AnswerPositions, Answer!toolVars, Answer!ctxVars, Answer!fixed
<1>2. [kind |-> "finish-step"] \in AnswerEvents /\ events' = Append(events, [kind |-> "finish-step"])
  BY DEF Answer!StepFinishes, AnswerEvents, Answer!Emit
<1>3. UNCHANGED <<part, open, tool>>
  BY DEF Answer!StepFinishes, Answer!toolVars
<1> QED BY <1>1, <1>2, <1>3, QuietStep

\* The other steps of process() that neither read an event nor end the answer.
LEMMA ProcessStep ==
  ASSUME Answer!ConstantAssumption, AnswerIInv,
         \/ \E granted \in BOOLEAN : Answer!Answered(granted)
         \/ Answer!StreamEnds \/ Answer!StreamFails \/ Answer!Retry \/ Answer!Interrupt \/ Answer!PatchTaken
  PROVE  AnswerIInv' /\ OutcomesStand
<1>1. AnswerRestTyped
  BY AnswerSplit DEF AnswerIInv
<1>2. UNCHANGED <<part, open, tool>> /\ (events' = events \/ events' = <<>>)
  BY DEF Answer!Answered, Answer!StreamEnds, Answer!StreamFails, Answer!Retry, Answer!Interrupt, Answer!PatchTaken, Answer!CloseStream, Answer!Halt,
         Answer!toolVars
<1>3. AnswerRestTyped' /\ AnswerPositions'
  <2>1. CASE \E granted \in BOOLEAN : Answer!Answered(granted)
    BY <1>1, <2>1 DEF Answer!Answered, Answer!Halt, Answer!CloseStream, AnswerRestTyped, AnswerPositions, Answer!toolVars, Answer!fixed
  <2>2. CASE Answer!StreamEnds \/ Answer!PatchTaken
    BY <1>1, <2>2 DEF Answer!StreamEnds, Answer!PatchTaken, Answer!CloseStream, AnswerRestTyped, AnswerPositions, Answer!toolVars,
                      Answer!ctxVars, Answer!fixed
  <2>3. CASE Answer!StreamFails
    BY <1>1, <2>3 DEF Answer!StreamFails, Answer!Halt, Answer!CloseStream, AnswerRestTyped, AnswerPositions, Answer!toolVars, Answer!fixed
  <2>4. CASE Answer!Retry
    <3>1. attempt < MaxAttempts /\ attempt' = attempt + 1 /\ pc' = "stream" /\ finish' = "no"
      BY <2>4 DEF AnswerIInv, AnswerPositions, Answer!Retry
    <3>2. attempt' \in 1..MaxAttempts
      BY <1>1, <3>1 DEF AnswerRestTyped, Answer!ConstantAssumption
    <3> QED BY <1>1, <2>4, <3>1, <3>2 DEF Answer!Retry, AnswerRestTyped, AnswerPositions, Answer!toolVars, Answer!ctxVars, Answer!fixed
  <2>5. CASE Answer!Interrupt
    BY <1>1, <2>5 DEF Answer!Interrupt, Answer!CloseStream, AnswerRestTyped, AnswerPositions, Answer!toolVars, Answer!fixed
  <2> QED BY <2>1, <2>2, <2>3, <2>4, <2>5
<1> QED BY <1>2, <1>3, QuietStep

\* The handler of an event: the first event is taken or the stream is closed.
LEMMA HandleStep ==
  ASSUME AnswerIInv, Answer!Handle
  PROVE  AnswerIInv' /\ OutcomesStand
<1>1. /\ AnswerRestTyped /\ events \in Seq(AnswerEvents) /\ events # <<>> /\ pc = "stream"
      /\ UNCHANGED <<tool, born, Answer!fixed, aborted>>
  BY AnswerSplit DEF AnswerIInv, Answer!Handle, Answer!toolVars
<1>2. Answer!Next1 \in AnswerEvents /\ Answer!Next1 = events[1] /\ 1 \in 1..Len(events)
  BY <1>1 DEF Answer!Next1
<1>3. CASE Answer!HandleInSummary
  <2>1. AnswerRestTyped' /\ AnswerPositions' /\ UNCHANGED <<part, open>> /\ events' = <<>>
    BY <1>1, <1>3 DEF Answer!HandleInSummary, Answer!Halt, Answer!CloseStream, AnswerRestTyped, AnswerPositions, Answer!fixed
  <2> QED BY <1>1, <2>1, QuietStep
<1>4. CASE Answer!HandleFinishStep
  <2>1. AnswerRestTyped' /\ AnswerPositions' /\ UNCHANGED <<part, open>>
        /\ (events' = <<>> \/ events' = Tail(events))
    BY <1>1, <1>4 DEF Answer!HandleFinishStep, Answer!CloseStream, Answer!Consume, AnswerRestTyped, AnswerPositions, Answer!fixed
  <2>2. Rewritten /\ AnswerUnknown
    BY <1>1, <2>1, UnchangedRewrites DEF AnswerIInv, AnswerUnknown
  <2>3. AnnouncedOnce' /\ events' \in Seq(AnswerEvents)
    BY <1>1, <2>1, <2>2, EventTaken, EventsGo DEF AnswerIInv
  <2> QED BY <1>1, <2>1, <2>2, <2>3, AnswerStepOf DEF AnswerIInv
<1>5. ASSUME NEW k, k = Answer!Next1.call, Answer!Next1.kind # "finish-step",
             Answer!HandleCall(k) \/ Answer!HandleResult(k) \/ Answer!HandleFailure(k)
      PROVE  AnswerIInv' /\ OutcomesStand
  <2>1. k \in ToolCalls
    BY <1>2, <1>5 DEF AnswerEvents
  <2>2. Rewritten
    <3>1. CASE Answer!HandleCall(k)
      BY <2>1, <3>1, RunRewrites DEF AnswerIInv, Answer!HandleCall
    <3>2. CASE Answer!HandleResult(k)
      BY <2>1, <3>2, SettleRewrites DEF AnswerIInv, Answer!HandleResult
    <3>3. CASE Answer!HandleFailure(k)
      BY <2>1, <3>3, SettleRewrites DEF AnswerIInv, Answer!HandleFailure
    <3> QED BY <1>5, <3>1, <3>2, <3>3
  <2>3. events' = Tail(events) /\ pc' \in {"stream", "asking"} /\ AnswerRestTyped' /\ UNCHANGED attempt
    <3>1. CASE Answer!HandleCall(k)
      BY <1>1, <3>1 DEF Answer!HandleCall, Answer!Consume, AnswerRestTyped, Answer!ctxVars, Answer!fixed
    <3>2. CASE Answer!HandleResult(k)
      BY <1>1, <3>2 DEF Answer!HandleResult, Answer!Consume, AnswerRestTyped, Answer!ctxVars, Answer!fixed
    <3>3. CASE Answer!HandleFailure(k)
      BY <1>1, <3>3 DEF Answer!HandleFailure, Answer!Consume, AnswerRestTyped, Answer!fixed
    <3> QED BY <1>5, <3>1, <3>2, <3>3
  <2>4. AnnouncedOnce' /\ events' \in Seq(AnswerEvents)
    BY <1>1, <2>2, <2>3, RewrittenUnknown, EventTaken DEF AnswerIInv
  <2>5. AnswerPositions'
    BY <2>3 DEF AnswerPositions
  <2> QED BY <1>1, <2>2, <2>3, <2>4, <2>5, AnswerStepOf DEF AnswerIInv
<1>6. ASSUME NEW k, k = Answer!Next1.call, Answer!Next1.kind # "finish-step", Answer!HandleStart(k)
      PROVE  AnswerIInv' /\ OutcomesStand
  <2>1. /\ Answer!Next1.kind = "start" /\ part' = [part EXCEPT ![k] = "pending"]
        /\ open' = open \cup {k} /\ events' = Tail(events)
        /\ UNCHANGED <<pc, attempt, finish, Answer!ctxVars>>
    BY <1>6 DEF Answer!HandleStart, Answer!Consume
  <2>2. k \in ToolCalls /\ part[k] = "none" /\ tool[k] # "none"
    BY <1>2, <1>6, <2>1 DEF AnswerIInv, AnnouncedOnce
  <2>3. /\ part \in [ToolCalls -> {"none", "pending", "running"} \cup Answer!Final]
        /\ open \subseteq ToolCalls
    BY DEF AnswerIInv, Answer!TypeOK
  <2>4. OpenIsUnsettled' /\ OutcomesStand
    BY <1>1, <2>1, <2>2, <2>3 DEF AnswerIInv, OpenIsUnsettled, OutcomesStand, Answer!Final
  <2>5. /\ Len(events) \in Nat \ {0} /\ Len(events') = Len(events) - 1
        /\ events' \in Seq(AnswerEvents)
        /\ \A i \in 1..Len(events') : i + 1 \in 1..Len(events) /\ events'[i] = events[i + 1]
    BY <1>1, <2>1
  <2>6. \A i \in 1..Len(events') : events'[i].kind = "start" => events'[i].call # k
    <3> SUFFICES ASSUME NEW i \in 1..Len(events'), events'[i].kind = "start", events'[i].call = k
                 PROVE  FALSE
      OBVIOUS
    <3>1. i + 1 = 1
      BY <1>2, <1>6, <2>1, <2>5 DEF AnswerIInv, AnnouncedOnce
    <3> QED BY <3>1
  <2>7. AnnouncedOnce'
    <3>1. ASSUME NEW i \in 1..Len(events'), events'[i].kind = "start"
          PROVE  /\ events'[i].call \in ToolCalls
                 /\ part'[events'[i].call] = "none" /\ tool'[events'[i].call] # "none"
      BY <1>1, <2>1, <2>3, <2>5, <2>6, <3>1 DEF AnswerIInv, AnnouncedOnce
    <3>2. ASSUME NEW i \in 1..Len(events'), NEW j \in 1..Len(events'),
                 events'[i].kind = "start", events'[j].kind = "start",
                 events'[i].call = events'[j].call
          PROVE  i = j
      <4>1. i + 1 = j + 1
        BY <2>5, <3>2 DEF AnswerIInv, AnnouncedOnce
      <4> QED BY <4>1
    <3> QED BY <3>1, <3>2 DEF AnnouncedOnce
  <2>8. AnswerRestTyped' /\ AnswerPositions'
    BY <1>1, <2>1 DEF AnswerRestTyped, AnswerPositions, Answer!ctxVars, Answer!fixed
  <2>9. Answer!TypeOK'
    <3>1. open' \subseteq ToolCalls /\ part' \in [ToolCalls -> {"none", "pending", "running"} \cup Answer!Final]
      BY <2>1, <2>2, <2>3
    <3> QED BY ZenonT(30), <2>5, <2>8, <3>1 DEF Answer!TypeOK, AnswerRestTyped, AnswerEvents
  <2> QED BY <2>4, <2>7, <2>8, <2>9 DEF AnswerIInv
<1> QED BY <1>3, <1>4, <1>5, <1>6 DEF Answer!Handle

LEMMA CleanupStep ==
  ASSUME AnswerIInv, Answer!CleanupEnds
  PROVE  AnswerIInv' /\ OutcomesStand
<1>1. /\ part' = [k \in ToolCalls |-> IF Answer!Readable(k) THEN "error" ELSE part[k]]
      /\ open' = {} /\ pc' = "done"
      /\ UNCHANGED <<tool, born, events, attempt, finish, error, compact, blocked, break,
                     summary, aborted>>
  BY DEF Answer!CleanupEnds, Answer!toolVars, Answer!ctxVars, Answer!fixed
<1>2. part \in [ToolCalls -> {"none", "pending", "running"} \cup Answer!Final]
  BY DEF AnswerIInv, Answer!TypeOK
<1>3. Rewritten
  BY <1>1, <1>2 DEF AnswerIInv, OpenIsUnsettled, Rewritten, Answer!Readable, Answer!Final
<1>4. AnswerRestTyped' /\ AnswerPositions'
  BY <1>1, AnswerSplit DEF AnswerIInv, AnswerRestTyped, AnswerPositions
<1>5. AnnouncedOnce' /\ events' \in Seq(AnswerEvents)
  BY <1>1, <1>3, AnswerSplit, RewrittenUnknown, EventsStay DEF AnswerIInv
<1> QED BY <1>1, <1>3, <1>4, <1>5, AnswerStepOf DEF AnswerIInv

LEMMA RemovedStep ==
  ASSUME AnswerIInv, NEW k \in ToolCalls, Answer!PartRemoved(k)
  PROVE  AnswerIInv' /\ OutcomesStand
<1>1. /\ part[k] # "none" /\ part' = [part EXCEPT ![k] = "removed"] /\ open' = open
      /\ UNCHANGED <<tool, born, events, pc, attempt, finish, error, compact, blocked, break,
                     summary, aborted>>
  BY DEF Answer!PartRemoved, Answer!toolVars, Answer!ctxVars, Answer!fixed
<1>2. part \in [ToolCalls -> {"none", "pending", "running"} \cup Answer!Final]
  BY DEF AnswerIInv, Answer!TypeOK
<1>3. Rewritten
  BY <1>1, <1>2 DEF AnswerIInv, OpenIsUnsettled, Rewritten, Answer!Final
<1>4. AnswerRestTyped' /\ AnswerPositions'
  BY <1>1, AnswerSplit DEF AnswerIInv, AnswerRestTyped, AnswerPositions
<1>5. AnnouncedOnce' /\ events' \in Seq(AnswerEvents)
  BY <1>1, <1>3, AnswerSplit, RewrittenUnknown, EventsStay DEF AnswerIInv
<1> QED BY <1>1, <1>3, <1>4, <1>5, AnswerStepOf DEF AnswerIInv

----------------------------------------------------------------------------
(* The theorems.                                                           *)

LEMMA AnswerInitInv ==
  ASSUME Answer!ConstantAssumption, Answer!Init
  PROVE  AnswerIInv
<1>1. AnswerRestTyped
  <2>1. 1 \in 1..MaxAttempts /\ 0 \in 0..MaxAttempts
    BY DEF Answer!ConstantAssumption
  <2>2. /\ tool \in [ToolCalls -> {"none", "input", "running", "returned", "failed"}]
        /\ born \in [ToolCalls -> 0..MaxAttempts]
    BY <2>1 DEF Answer!Init
  <2> QED BY <2>1, <2>2 DEF Answer!Init, AnswerRestTyped
<1>2. /\ part \in [ToolCalls -> {"none", "pending", "running"} \cup Answer!Final]
      /\ open \subseteq ToolCalls /\ events \in Seq(AnswerEvents)
  BY DEF Answer!Init
<1>3. Answer!TypeOK
  BY ZenonT(30), <1>1, <1>2 DEF Answer!TypeOK, AnswerRestTyped, AnswerEvents
<1>4. AnnouncedOnce /\ OpenIsUnsettled /\ AnswerPositions
  BY DEF Answer!Init, AnnouncedOnce, OpenIsUnsettled, AnswerPositions
<1> QED BY <1>3, <1>4 DEF AnswerIInv

LEMMA AnswerStepInv ==
  ASSUME Answer!ConstantAssumption, AnswerIInv, [Answer!Next]_(Answer!vars)
  PROVE  AnswerIInv' /\ (OutcomesStand \/ UNCHANGED Answer!vars)
<1>1. CASE UNCHANGED Answer!vars
  <2>1. UNCHANGED <<part, open, tool>> /\ events' = events /\ AnswerRestTyped' /\ AnswerPositions'
    BY <1>1, AnswerSplit DEF AnswerIInv, Answer!vars, AnswerRestTyped, AnswerPositions
  <2> QED BY <1>1, <2>1, QuietStep
<1>2. CASE Answer!Model
  BY <1>2, ModelStep, FinishesStep DEF Answer!Model
<1>3. CASE Answer!Tools
  BY <1>3, ToolStep DEF Answer!Tools
<1>4. CASE Answer!Process
  BY <1>4, HandleStep, ProcessStep, CleanupStep DEF Answer!Process
<1>5. CASE (\E granted \in BOOLEAN : Answer!Answered(granted)) \/ Answer!StreamFails \/ Answer!Interrupt
  BY <1>5, ProcessStep
<1>6. CASE \E k \in ToolCalls : Answer!PartRemoved(k)
  BY <1>6, RemovedStep
<1> QED BY <1>1, <1>2, <1>3, <1>4, <1>5, <1>6 DEF Answer!Next

LEMMA AnswerInvGives == AnswerIInv => Answer!TypeOK /\ Answer!NothingLeftOpen
  BY DEF AnswerIInv, Answer!TypeOK, OpenIsUnsettled, AnswerPositions, Answer!NothingLeftOpen, Answer!Final

\* A step of the services is a step of this component or leaves it alone.
LEMMA AnswerMoves == [Next]_vars => [Answer!Next]_(Answer!vars)
  BY DEF Next, Others, vars, answerVars, Answer!vars

LEMMA AnswerInvariant == Spec => []AnswerIInv
<1>1. Init => AnswerIInv
  BY ComponentAssumptions, AnswerInitInv DEF Init
<1>2. AnswerIInv /\ [Next]_vars => AnswerIInv'
  BY ComponentAssumptions, AnswerMoves, AnswerStepInv
<1> QED BY <1>1, <1>2, PTL DEF Spec

\* Once the processing of an answer has ended no tool call is open, whatever the
\* stream, the tools, the retries and an interruption did.
THEOREM NothingLeftOpenTheorem == Spec => []NothingLeftOpen
<1>1. AnswerIInv => NothingLeftOpen
  BY AnswerInvGives DEF NothingLeftOpen
<1>2. Spec => []AnswerIInv
  BY AnswerInvariant
<1> QED BY <1>1, <1>2, PTL

\* No later event changes the outcome of a tool call.
THEOREM FirstOutcomeStandsTheorem == Spec => FirstOutcomeStands
<1>1. AnswerIInv /\ [Next]_vars => [OutcomesStand]_(Answer!vars)
  BY ComponentAssumptions, AnswerMoves, AnswerStepInv
<1>2. Spec => []AnswerIInv
  BY AnswerInvariant
<1> QED BY <1>1, <1>2, PTL DEF Spec, FirstOutcomeStands, Answer!FirstOutcomeStands, OutcomesStand

----------------------------------------------------------------------------
(* Undo and redo (Revert): the files are those of the visible messages.    *)

\* What a team may rely on: reverts name messages of the user, and no prompt
\* comes while one is under way.
OneAtATimeOnly == Roles \subseteq {"user"} /\ ~Overlap

Fits(tree, want) == \A f \in Files : want[f] # Absent => tree[f] = want[f]

\* The tree is the one after the last message of l, and the one before message n.
EndsAs(l, tree) == l # <<>> => Fits(tree, l[Len(l)].after)
Before(l, n) == IF n = 1 THEN l[1].base ELSE l[n - 1].after

Untouched(l, i, j, f) == \A e \in i..j : f \notin l[e].changed

\* Patches name what was changed, a message starts from what the one before it
\* left, and what nobody names stays.
Linked(l) ==
    /\ \A i \in 1..Len(l), f \in Files : l[i].base[f] # l[i].after[f] => f \in l[i].changed
    /\ \A i \in 2..Len(l) : Fits(l[i].base, l[i - 1].after)
    /\ \A i, j \in 1..Len(l), f \in Files :
         i <= j /\ Untouched(l, i, j, f) /\ l[i].base[f] # Absent => l[j].after[f] = l[i].base[f]

Cutting == op.cut \in 1..Len(log) /\ op.patches = SubSeq(log, op.cut, Len(log))

UndoPlaces ==
    /\ busy \/ arriving => op.at = "idle" /\ mark = Nil
    /\ mark # Nil => mark.cut \in 1..Len(log) /\ EndsAs(log, mark.snap)
    /\ op.at = "idle" => IF mark = Nil THEN EndsAs(log, files) ELSE Fits(files, Before(log, mark.cut))
    /\ op.at = "snapshot" => Cutting /\ op.prev = mark /\ (mark = Nil => EndsAs(log, files))
    /\ op.at = "rewrite" => Cutting /\ EndsAs(log, files) /\ op.snap \in Undo!Trees /\ EndsAs(log, op.snap)
    /\ op.at = "mark" => /\ op.cut \in 1..Len(log) /\ Fits(files, Before(log, op.cut))
                         /\ op.snap \in Undo!Trees /\ EndsAs(log, op.snap)
    /\ op.at = "restore" => op.snap \in Undo!Trees /\ EndsAs(log, op.snap)
    /\ op.at = "clear" => EndsAs(log, files)

UndoIInv == Undo!TypeOK /\ Linked(log) /\ UndoPlaces

LEMMA UndoInitInv == Undo!ConstantAssumption /\ Undo!Init => UndoIInv
<1> SUFFICES ASSUME Undo!ConstantAssumption, Undo!Init PROVE UndoIInv
  OBVIOUS
<1>1. /\ <<>> \in Seq(Undo!Entry) /\ Len(<<>>) = 0 /\ 1 \in 1..MaxLog /\ 0 \in 0..MaxReverts /\ 0 <= MaxLog
      /\ 1..0 = {} /\ 2..0 = {}
  BY DEF Undo!ConstantAssumption
<1>2. Undo!TypeOK
  BY <1>1 DEF Undo!Init, Undo!TypeOK, Undo!NoOp
<1>3. Linked(log)
  BY <1>1 DEF Undo!Init, Linked
<1> QED BY <1>2, <1>3 DEF Undo!Init, Undo!NoOp, UndoIInv, UndoPlaces, EndsAs

LEMMA PrefixLinked ==
  ASSUME NEW l \in Seq(Undo!Entry), Linked(l), NEW n \in 0..Len(l)
  PROVE  /\ SubSeq(l, 1, n) \in Seq(Undo!Entry) /\ Len(SubSeq(l, 1, n)) = n
         /\ Linked(SubSeq(l, 1, n))
         /\ \A i \in 1..n : SubSeq(l, 1, n)[i] = l[i]
<1>1. PICK m \in Nat : m = Len(l)
  OBVIOUS
<1>2. PICK p : p = SubSeq(l, 1, n)
  OBVIOUS
<1>3. /\ n \in Nat /\ n <= m /\ 1 \in Int /\ n \in Int /\ \A i \in 1..n : i \in 1..m /\ l[i] \in Undo!Entry
      /\ (IF 1 <= n THEN n - 1 + 1 ELSE 0) = n /\ n - 1 + 1 = n /\ \A i \in 1..n : 1 + i - 1 = i
  BY <1>1
<1>4. p \in Seq(Undo!Entry) /\ Len(p) = n /\ \A i \in 1..n : p[i] = l[i]
  <2>1. /\ p \in Seq(Undo!Entry) /\ Len(p) = IF 1 <= n THEN n - 1 + 1 ELSE 0
        /\ \A i \in 1..n - 1 + 1 : p[i] = l[1 + i - 1]
    BY <1>2, <1>3, SubSeqProperties
  <2> QED BY <1>3, <2>1
<1>5. Linked(p)
  <2>1. \A i \in 1..n : i \in 1..m
    BY <1>3
  <2>2. \A i \in 2..n : i \in 2..m /\ i \in 1..n /\ i - 1 \in 1..n
    BY <1>3
  <2>3. \A i \in 2..n : Fits(p[i].base, p[i - 1].after)
    BY <1>1, <1>4, <2>2 DEF Linked
  <2>4. \A i, j \in 1..n, f \in Files : Untouched(p, i, j, f) => Untouched(l, i, j, f)
    <3>1. \A i, j \in 1..n : \A e \in i..j : e \in 1..n
      BY <1>3
    <3> QED BY <1>4, <3>1 DEF Untouched
  <2> QED BY <1>1, <1>4, <2>1, <2>3, <2>4 DEF Linked
<1> QED BY <1>2, <1>4, <1>5

LEMMA AppendLinked ==
  ASSUME NEW l \in Seq(Undo!Entry), Linked(l), NEW m \in Undo!Entry, EndsAs(l, m.base),
         \A f \in Files : m.base[f] # m.after[f] => f \in m.changed
  PROVE  /\ Append(l, m) \in Seq(Undo!Entry) /\ Len(Append(l, m)) = Len(l) + 1
         /\ Linked(Append(l, m)) /\ EndsAs(Append(l, m), m.after)
<1>1. PICK n \in Nat : n = Len(l)
  OBVIOUS
<1>2. PICK p : p = Append(l, m)
  OBVIOUS
<1>3. /\ p \in Seq(Undo!Entry) /\ Len(p) = n + 1 /\ p[n + 1] = m
      /\ \A i \in 1..n : p[i] = l[i]
  BY <1>1, <1>2, AppendProperties
<1>4. /\ \A i \in 1..n + 1 : i = n + 1 \/ i \in 1..n
      /\ \A i \in 2..n + 1 : i - 1 \in 1..n /\ (i \in 2..n \/ (i = n + 1 /\ i - 1 = n /\ n # 0))
      /\ \A i \in 2..n : i \in 1..n
  BY <1>1
<1>5. n # 0 => Fits(m.base, l[n].after)
  <2>1. n # 0 => l # <<>>
    BY <1>1
  <2> QED BY <1>1, <2>1 DEF EndsAs
<1>6. \A i \in 1..n + 1, f \in Files : p[i].base[f] # p[i].after[f] => f \in p[i].changed
  BY <1>1, <1>3, <1>4 DEF Linked
<1>7. \A i \in 2..n + 1 : Fits(p[i].base, p[i - 1].after)
  <2> SUFFICES ASSUME NEW i \in 2..n + 1 PROVE Fits(p[i].base, p[i - 1].after)
    OBVIOUS
  <2>1. p[i - 1] = l[i - 1]
    BY <1>3, <1>4
  <2>2. CASE i \in 2..n
    BY <1>1, <1>3, <1>4, <2>1, <2>2 DEF Linked
  <2>3. CASE i = n + 1 /\ i - 1 = n /\ n # 0
    BY <1>3, <1>5, <2>1, <2>3
  <2> QED BY <1>4, <2>2, <2>3
<1>8. ASSUME NEW i \in 1..n + 1, NEW j \in 1..n + 1, NEW f \in Files,
             i <= j, Untouched(p, i, j, f), p[i].base[f] # Absent
      PROVE  p[j].after[f] = p[i].base[f]
  <2>1. CASE j \in 1..n
    <3>1. i \in 1..n /\ \A e \in i..j : e \in 1..n
      BY <1>1, <1>8, <2>1
    <3>2. Untouched(l, i, j, f)
      BY <1>3, <1>8, <3>1 DEF Untouched
    <3> QED BY <1>1, <1>3, <1>8, <2>1, <3>1, <3>2 DEF Linked
  <2>2. CASE j = n + 1
    <3>1. n + 1 \in i..j /\ f \notin m.changed
      <4>1. n + 1 \in i..j
        BY <1>8, <2>2
      <4> QED BY <1>3, <1>8, <4>1 DEF Untouched
    <3>2. m.after[f] = m.base[f]
      BY <3>1
    <3>3. CASE i = n + 1
      BY <1>3, <2>2, <3>2, <3>3
    <3>4. CASE i \in 1..n
      <4>1. n \in 1..n /\ i <= n /\ n # 0 /\ \A e \in i..n : e \in 1..n /\ e \in i..j
        BY <1>1, <2>2, <3>4
      <4>2. Untouched(l, i, n, f) /\ l[i].base[f] # Absent
        BY <1>3, <1>8, <3>4, <4>1 DEF Untouched
      <4>3. l[n].after[f] = l[i].base[f]
        BY <1>1, <3>4, <4>1, <4>2 DEF Linked
      <4>4. m.base[f] = l[i].base[f]
        BY <1>5, <4>1, <4>2, <4>3 DEF Fits
      <4> QED BY <1>3, <2>2, <3>2, <3>4, <4>4
    <3> QED BY <1>4, <3>3, <3>4
  <2> QED BY <1>4, <2>1, <2>2
<1>9. Linked(p)
  BY <1>3, <1>6, <1>7, <1>8 DEF Linked
<1>10. EndsAs(p, m.after)
  BY <1>3 DEF EndsAs, Fits
<1> QED BY <1>1, <1>2, <1>3, <1>9, <1>10


LEMMA LeastNumber ==
  ASSUME NEW S \in SUBSET Nat, S # {}
  PROVE  \E n \in S : \A m \in S : n <= m
<1> DEFINE Less == {p \in Nat \X Nat : p[1] < p[2]}
<1>1. IsWellFoundedOn(Less, Nat)
  <2>1. Less = OpToRel(<, Nat)
    BY DEF OpToRel
  <2> QED BY <2>1, NatLessThanWellFounded
<1>2. PICK n \in S : \A m \in S : ~(<<m, n>> \in Less)
  <2> HIDE DEF Less
  <2> QED BY <1>1, WFMin
<1>3. ASSUME NEW m \in S PROVE n <= m
  <2>1. m \in Nat /\ n \in Nat /\ <<m, n>> \in Nat \X Nat /\ <<m, n>>[1] = m /\ <<m, n>>[2] = n
    OBVIOUS
  <2>2. ~(m < n)
    BY <1>2, <2>1
  <2> QED BY <2>1, <2>2
<1> QED BY <1>3

\* What a revert of message i does to the files that the messages left.
LEMMA UnpatchedFits ==
  ASSUME NEW l \in Seq(Undo!Entry), Linked(l), NEW i \in 1..Len(l), NEW tree \in Undo!Trees, EndsAs(l, tree)
  PROVE  /\ Undo!Unpatched(tree, SubSeq(l, i, Len(l))) \in Undo!Trees
         /\ Fits(Undo!Unpatched(tree, SubSeq(l, i, Len(l))), Before(l, i))
<1>1. PICK n \in Nat : n = Len(l)
  OBVIOUS
<1>2. PICK p : p = SubSeq(l, i, n)
  OBVIOUS
<1>3. i \in Nat /\ 1 <= i /\ i <= n /\ n # 0 /\ l # <<>>
  BY <1>1
<1>4. /\ \A k \in 1..n : l[k] \in Undo!Entry
      /\ i \in Int /\ n \in Int /\ \A k \in i..n : k \in 1..n
      /\ (IF i <= n THEN n - i + 1 ELSE 0) = n - i + 1
  BY <1>1, <1>3
<1>5. /\ p \in Seq(Undo!Entry) /\ Len(p) = n - i + 1
      /\ \A k \in 1..n - i + 1 : p[k] = l[i + k - 1]
  <2>1. /\ p \in Seq(Undo!Entry) /\ Len(p) = IF i <= n THEN n - i + 1 ELSE 0
        /\ \A k \in 1..n - i + 1 : p[k] = l[i + k - 1]
    BY <1>2, <1>4, SubSeqProperties
  <2> QED BY <1>4, <2>1
<1>6. DOMAIN p = 1..n - i + 1 /\ n - i + 1 \in Nat
  BY <1>3, <1>5
<1>7. PICK got : got = Undo!Unpatched(tree, p)
  OBVIOUS
<1>8. got = [f \in Files |-> IF Undo!Naming(p, f) = {} THEN tree[f]
                              ELSE p[Undo!Min(Undo!Naming(p, f))].base[f]]
  BY <1>7 DEF Undo!Unpatched
<1>9. ASSUME NEW f \in Files
      PROVE  \/ got[f] = tree[f] /\ Untouched(l, i, n, f)
             \/ \E k \in i..n : got[f] = l[k].base[f] /\ Untouched(l, i, k - 1, f)
  <2>1. CASE Undo!Naming(p, f) = {}
    <3>1. \A e \in i..n : e - i + 1 \in 1..n - i + 1 /\ i + (e - i + 1) - 1 = e
      BY <1>3
    <3>2. \A e \in i..n : f \notin l[e].changed
      BY <1>5, <1>6, <2>1, <3>1 DEF Undo!Naming
    <3> QED BY <1>8, <2>1, <3>2 DEF Untouched
  <2>2. CASE Undo!Naming(p, f) # {}
    <3>1. Undo!Naming(p, f) \in SUBSET Nat
      BY <1>6 DEF Undo!Naming
    <3>2. \E x \in Undo!Naming(p, f) : \A y \in Undo!Naming(p, f) : x <= y
      BY <2>2, <3>1, LeastNumber
    <3>3. PICK k : k = Undo!Min(Undo!Naming(p, f))
      OBVIOUS
    <3>4. k \in Undo!Naming(p, f) /\ \A y \in Undo!Naming(p, f) : k <= y
      BY <3>2, <3>3 DEF Undo!Min
    <3>5. k \in 1..n - i + 1 /\ i + k - 1 \in i..n /\ p[k] = l[i + k - 1]
      BY <1>3, <1>5, <1>6, <3>4 DEF Undo!Naming
    <3>6. got[f] = l[i + k - 1].base[f]
      BY <1>8, <2>2, <3>3, <3>5
    <3>7. ASSUME NEW e \in i..(i + k - 1) - 1 PROVE f \notin l[e].changed
      <4>1. e - i + 1 \in 1..n - i + 1 /\ i + (e - i + 1) - 1 = e /\ ~(k <= e - i + 1)
        BY <1>3, <3>5
      <4> QED BY <1>5, <1>6, <3>4, <4>1 DEF Undo!Naming
    <3> QED BY <3>5, <3>6, <3>7 DEF Untouched
  <2> QED BY <2>1, <2>2
<1>10. got \in Undo!Trees
  <2>1. \A k \in 1..n : l[k].base \in Undo!Trees
    BY <1>4 DEF Undo!Entry
  <2>2. \A f \in Files : got[f] \in Contents \cup {Absent}
    BY <1>4, <1>9, <2>1 DEF Undo!Trees
  <2> QED BY <1>8, <2>2 DEF Undo!Trees
\* The message that is reverted started from what was there before.
<1>11. ASSUME NEW f \in Files, Before(l, i)[f] # Absent
       PROVE  l[i].base[f] = Before(l, i)[f]
  <2>1. CASE i = 1
    BY <2>1 DEF Before
  <2>2. CASE i # 1
    <3>1. i \in 2..n
      BY <1>3, <2>2
    <3> QED BY <1>1, <1>11, <2>2, <3>1 DEF Before, Linked, Fits
  <2> QED BY <2>1, <2>2
<1>12. ASSUME NEW f \in Files, Before(l, i)[f] # Absent
       PROVE  got[f] = Before(l, i)[f]
  <2>1. CASE got[f] = tree[f] /\ Untouched(l, i, n, f)
    <3>1. i \in 1..n /\ n \in 1..n
      BY <1>3
    <3>2. l[n].after[f] = l[i].base[f]
      BY <1>1, <1>3, <1>11, <1>12, <2>1, <3>1 DEF Linked
    <3> QED BY <1>1, <1>3, <1>11, <1>12, <2>1, <3>2 DEF EndsAs, Fits
  <2>2. ASSUME NEW k \in i..n, got[f] = l[k].base[f], Untouched(l, i, k - 1, f)
        PROVE  got[f] = Before(l, i)[f]
    <3>1. CASE k = i
      BY <1>11, <1>12, <2>2, <3>1
    <3>2. CASE k # i
      <4>1. k - 1 \in 1..n /\ i \in 1..n /\ i <= k - 1 /\ k \in 2..n
        BY <1>3, <3>2
      <4>2. l[k - 1].after[f] = l[i].base[f]
        BY <1>1, <1>11, <1>12, <2>2, <4>1 DEF Linked
      <4>3. l[k].base[f] = l[k - 1].after[f]
        BY <1>1, <1>11, <1>12, <4>1, <4>2 DEF Linked, Fits
      <4> QED BY <1>11, <1>12, <2>2, <4>2, <4>3
    <3> QED BY <3>1, <3>2
  <2> QED BY <1>9, <2>1, <2>2
<1> QED BY <1>1, <1>2, <1>7, <1>10, <1>12 DEF Fits


LEMMA RestoredFits ==
  ASSUME Undo!ConstantAssumption, NEW l, NEW tree \in Undo!Trees, NEW snap \in Undo!Trees, EndsAs(l, snap)
  PROVE  Undo!Restored(tree, snap) \in Undo!Trees /\ EndsAs(l, Undo!Restored(tree, snap))
<1>1. PICK r : r = Undo!Restored(tree, snap)
  OBVIOUS
<1>2. r \in Undo!Trees /\ \A f \in Files : snap[f] # Absent => r[f] = snap[f]
  BY <1>1 DEF Undo!Restored, Undo!Trees
<1>3. EndsAs(l, r)
  BY <1>2 DEF EndsAs, Fits
<1> QED BY <1>1, <1>2, <1>3

\* The steps that leave the messages alone.
LEMMA UndoStill ==
  ASSUME UndoIInv, UNCHANGED log, Undo!TypeOK', UndoPlaces'
  PROVE  UndoIInv'
  BY DEF UndoIInv

UndoOps == [at : {"idle", "snapshot", "rewrite", "mark", "restore", "clear"}, cut : 1..MaxLog,
            patches : Seq(Undo!Entry), prev : Undo!Mark \cup {Nil}, snap : Undo!Trees \cup {Nil}]

LEMMA CutKept ==
  ASSUME Undo!ConstantAssumption, op \in UndoOps, NEW n \in Nat,
         op' = [op EXCEPT !.cut = IF op.cut > n THEN n + 1 ELSE op.cut]
  PROVE  op' \in UndoOps /\ op'.at = op.at /\ op'.cut <= n + 1 /\ op'.snap = op.snap
<1>1. op.cut \in 1..MaxLog /\ MaxLog \in Nat
  BY DEF UndoOps, Undo!ConstantAssumption
<1>2. PICK c \in 1..MaxLog : c = (IF op.cut > n THEN n + 1 ELSE op.cut) /\ c <= n + 1
  BY <1>1
<1> QED BY <1>2 DEF UndoOps

LEMMA CleanUpKeeps ==
  ASSUME Undo!ConstantAssumption, OneAtATimeOnly, UndoIInv, Undo!PromptCleansUp
  PROVE  UndoIInv'
<1>0. op \in UndoOps
  BY DEF UndoIInv, Undo!TypeOK, UndoOps
<1>1. /\ op.at = "idle" /\ log' = Undo!Cleaned /\ mark' = Nil /\ arriving' = TRUE
      /\ UNCHANGED <<files, busy, reverts>>
      /\ op' = [op EXCEPT !.cut = IF op.cut > Len(Undo!Cleaned) THEN Len(Undo!Cleaned) + 1 ELSE op.cut]
      /\ log \in Seq(Undo!Entry) /\ Linked(log) /\ Len(log) <= MaxLog
  BY DEF Undo!PromptCleansUp, OneAtATimeOnly, UndoIInv, Undo!TypeOK
<1>2. CASE mark = Nil
  <2>1. log' = log
    BY <1>1, <1>2 DEF Undo!Cleaned
  <2>2. PICK k \in Nat : k = Len(Undo!Cleaned)
    BY <1>1, <2>1
  <2>3. op'.at = "idle" /\ op' \in UndoOps
    BY <1>0, <1>1, <2>2, CutKept
  <2> QED BY <1>1, <1>2, <2>1, <2>3 DEF UndoOps, UndoIInv, UndoPlaces, Undo!TypeOK, Cutting
<1>3. CASE mark # Nil
  <2>1. mark.cut \in 1..Len(log) /\ Fits(files, Before(log, mark.cut))
    BY <1>1, <1>3 DEF UndoIInv, UndoPlaces
  <2>2. PICK l : l = log
    OBVIOUS
  <2>3. PICK n : n = mark.cut - 1
    OBVIOUS
  <2>4. n \in 0..Len(l) /\ (mark.cut = 1 <=> n = 0) /\ n \in Nat /\ n <= Len(l) /\ MaxLog \in Nat /\ Len(l) \in Nat
    BY <1>1, <2>1, <2>2, <2>3 DEF Undo!ConstantAssumption
  <2>5. log' = SubSeq(l, 1, n)
    BY <1>1, <1>3, <2>2, <2>3 DEF Undo!Cleaned
  <2>6. log' \in Seq(Undo!Entry) /\ Len(log') = n /\ Linked(log') /\ \A i \in 1..n : log'[i] = l[i]
    BY <1>1, <2>2, <2>4, <2>5, PrefixLinked
  <2>7. n <= MaxLog
    BY <1>1, <2>2, <2>4
  <2>8. EndsAs(log', files)
    <3>1. CASE n = 0
      BY <2>6, <3>1, EmptySeq DEF EndsAs
    <3>2. CASE n # 0
      <4>1. n \in 1..n
        BY <2>4, <3>2
      <4> QED BY <2>1, <2>2, <2>3, <2>4, <2>6, <3>2, <4>1 DEF EndsAs, Before
    <3> QED BY <3>1, <3>2
  <2>9. op'.at = "idle" /\ op' \in UndoOps
    BY <1>0, <1>1, <2>4, <2>6, CutKept
  <2> QED BY <1>1, <2>6, <2>7, <2>8, <2>9 DEF UndoOps, UndoIInv, UndoPlaces, Undo!TypeOK, Cutting
<1> QED BY <1>2, <1>3

LEMMA MessageKeeps ==
  ASSUME Undo!ConstantAssumption, UndoIInv, op.at = "idle", mark = Nil, Len(log) < MaxLog,
         NEW m \in Undo!Entry, m.base = files, m.after = files',
         \A f \in Files : m.base[f] # m.after[f] => f \in m.changed,
         files' \in Undo!Trees, log' = Append(log, m), busy' \in BOOLEAN, arriving' \in BOOLEAN,
         UNCHANGED <<mark, op, reverts>>
  PROVE  UndoIInv'
<1>1. PICK l \in Seq(Undo!Entry) : l = log
  BY DEF UndoIInv, Undo!TypeOK
<1>2. Linked(l) /\ EndsAs(l, m.base)
  BY <1>1 DEF UndoIInv, UndoPlaces
<1>3. log' \in Seq(Undo!Entry) /\ Len(log') = Len(l) + 1 /\ Linked(log') /\ EndsAs(log', files')
  BY <1>1, <1>2, AppendLinked
<1>4. Len(log') <= MaxLog
  BY <1>1, <1>3 DEF Undo!ConstantAssumption
<1> QED BY <1>3, <1>4 DEF UndoIInv, UndoPlaces, Undo!TypeOK, Cutting

LEMMA RevertBeginsKeeps ==
  ASSUME Undo!ConstantAssumption, OneAtATimeOnly, UndoIInv, NEW i \in DOMAIN log, Undo!RevertBegins(i)
  PROVE  UndoIInv'
<1>1. PICK l \in Seq(Undo!Entry) : l = log /\ Linked(l)
  BY DEF UndoIInv, Undo!TypeOK
<1>2. i \in 1..Len(l) /\ i \in Nat /\ Len(l) \in Nat /\ Len(l) <= MaxLog /\ MaxLog \in Nat
  BY <1>1 DEF UndoIInv, Undo!TypeOK, Undo!ConstantAssumption
<1>3. Undo!Cut(i) = i
  <2>1. log[i].role = "user"
    BY DEF Undo!RevertBegins, OneAtATimeOnly
  <2>2. i \in 1..i /\ \A j \in i + 1 .. i : log[j].role # "user"
    BY <1>2
  <2>3. \A u \in 1..i : (\A j \in u + 1 .. i : log[j].role # "user") => u = i
    BY <1>2, <2>1
  <2> QED BY <2>1, <2>2, <2>3 DEF Undo!Cut
<1>4. PICK p : p = SubSeq(l, i, Len(l))
  OBVIOUS
<1>5. p \in Seq(Undo!Entry)
  <2>1. i \in Int /\ Len(l) \in Int /\ \A k \in i..Len(l) : l[k] \in Undo!Entry
    BY <1>2
  <2> QED BY <1>4, <2>1, SubSeqProperties
<1>6. i \in 1..MaxLog
  BY <1>2
<1>7. op' = [at |-> "snapshot", cut |-> i, prev |-> mark, snap |-> Nil, patches |-> p]
  BY <1>1, <1>3, <1>4 DEF Undo!RevertBegins
<1>8. /\ op.at = "idle" /\ reverts' \in 0..MaxReverts /\ ~busy /\ ~arriving
      /\ UNCHANGED <<files, log, mark, busy, arriving>>
  BY DEF Undo!RevertBegins, OneAtATimeOnly, UndoIInv, Undo!TypeOK, Undo!ConstantAssumption
<1>9. Undo!TypeOK'
  BY <1>5, <1>6, <1>7, <1>8 DEF UndoIInv, Undo!TypeOK
<1>10. UndoPlaces'
  BY <1>1, <1>2, <1>4, <1>7, <1>8 DEF UndoIInv, UndoPlaces, Cutting, EndsAs
<1> QED BY <1>8, <1>9, <1>10, UndoStill

LEMMA UndoStepInv ==
  ASSUME Undo!ConstantAssumption, OneAtATimeOnly, UndoIInv, [Undo!Next]_(Undo!vars)
  PROVE  UndoIInv'
<1>0. /\ op \in [at : {"idle", "snapshot", "rewrite", "mark", "restore", "clear"}, cut : 1..MaxLog,
                 patches : Seq(Undo!Entry), prev : Undo!Mark \cup {Nil}, snap : Undo!Trees \cup {Nil}]
      /\ files \in Undo!Trees /\ mark \in Undo!Mark \cup {Nil} /\ log \in Seq(Undo!Entry) /\ Linked(log)
      /\ mark # Nil => mark.snap \in Undo!Trees
      /\ op.at # "idle" => ~busy /\ ~arriving
  BY DEF UndoIInv, Undo!TypeOK, UndoPlaces, Undo!Mark
<1>1. CASE UNCHANGED Undo!vars
  BY <1>1 DEF Undo!vars, UndoIInv, Undo!TypeOK, UndoPlaces, Cutting
<1>2. CASE Undo!PromptStored
  <2> DEFINE m == [role |-> "user", base |-> files, changed |-> {}, after |-> files]
  <2>1. m \in Undo!Entry /\ m.base = files /\ m.after = files
    BY <1>0 DEF Undo!Entry
  <2>2. op.at = "idle" /\ mark = Nil
    BY <1>2 DEF Undo!PromptStored, UndoIInv, UndoPlaces
  <2>3. /\ Len(log) < MaxLog /\ log' = Append(log, m) /\ files' = files
        /\ busy' \in BOOLEAN /\ arriving' \in BOOLEAN /\ UNCHANGED <<mark, op, reverts>>
    BY <1>2 DEF Undo!PromptStored
  <2> HIDE DEF m
  <2> QED BY <1>0, <2>1, <2>2, <2>3, MessageKeeps
<1>3. ASSUME NEW tree \in Undo!Trees, Undo!AgentStep(tree) PROVE UndoIInv'
  <2> DEFINE m == [role |-> "answer", base |-> files, after |-> tree,
                   changed |-> {f \in Files : files[f] # tree[f]}]
  <2>1. m \in Undo!Entry /\ m.base = files /\ m.after = tree /\ m.changed = {f \in Files : files[f] # tree[f]}
    BY <1>0 DEF Undo!Entry
  <2>2. op.at = "idle" /\ mark = Nil
    BY <1>3 DEF Undo!AgentStep, UndoIInv, UndoPlaces
  <2>3. /\ Len(log) < MaxLog /\ log' = Append(log, m) /\ files' = tree
        /\ busy' \in BOOLEAN /\ arriving' \in BOOLEAN /\ UNCHANGED <<mark, op, reverts>>
    BY <1>3 DEF Undo!AgentStep, UndoIInv, Undo!TypeOK
  <2> HIDE DEF m
  <2> QED BY <2>1, <2>2, <2>3, MessageKeeps
<1>4. CASE Undo!LoopEnds
  <2>1. Undo!TypeOK' /\ UndoPlaces'
    BY <1>4 DEF Undo!LoopEnds, UndoIInv, Undo!TypeOK, UndoPlaces, Cutting
  <2> QED BY <1>4, <2>1, UndoStill DEF Undo!LoopEnds
<1>5. CASE Undo!RevertSnapshots
  <2>1. PICK s \in Undo!Trees, t \in Undo!Trees :
           /\ op' = [op EXCEPT !.at = "rewrite", !.snap = s] /\ files' = t
           /\ EndsAs(log, s) /\ EndsAs(log, t)
    <3>1. op.prev = mark
      BY <1>5 DEF Undo!RevertSnapshots, UndoIInv, UndoPlaces
    <3>2. CASE mark = Nil
      BY <1>0, <1>5, <3>1, <3>2 DEF Undo!RevertSnapshots, UndoIInv, UndoPlaces
    <3>3. CASE mark # Nil
      <4>1. EndsAs(log, mark.snap) /\ mark.snap \in Undo!Trees
        BY <1>0, <3>3 DEF UndoIInv, UndoPlaces
      <4>2. PICK s \in Undo!Trees : s = mark.snap /\ EndsAs(log, s)
        BY <4>1
      <4>3. Undo!Restored(files, s) \in Undo!Trees /\ EndsAs(log, Undo!Restored(files, s))
        BY <1>0, <4>2, RestoredFits
      <4>4. op' = [op EXCEPT !.at = "rewrite", !.snap = s] /\ files' = Undo!Restored(files, s)
        BY <1>5, <3>1, <3>3, <4>2 DEF Undo!RevertSnapshots
      <4> QED BY <4>2, <4>3, <4>4
    <3> QED BY <3>2, <3>3
  <2>2. /\ op.at = "snapshot" /\ UNCHANGED <<log, mark, busy, arriving, reverts>>
        /\ op'.at = "rewrite" /\ op'.snap = s /\ op'.cut = op.cut /\ op'.patches = op.patches
        /\ op' \in [at : {"idle", "snapshot", "rewrite", "mark", "restore", "clear"}, cut : 1..MaxLog,
                    patches : Seq(Undo!Entry), prev : Undo!Mark \cup {Nil}, snap : Undo!Trees \cup {Nil}]
    BY <1>0, <1>5, <2>1 DEF Undo!RevertSnapshots
  <2>3. Undo!TypeOK'
    BY <2>1, <2>2 DEF UndoIInv, Undo!TypeOK
  <2>4. UndoPlaces'
    BY <1>0, <2>1, <2>2 DEF UndoIInv, UndoPlaces, Cutting
  <2> QED BY <2>2, <2>3, <2>4, UndoStill
<1>6. CASE Undo!RevertRewrites
  <2>1. /\ op.at = "rewrite" /\ files' = Undo!Unpatched(files, op.patches)
        /\ op' = [op EXCEPT !.at = "mark"] /\ UNCHANGED <<log, mark, busy, arriving, reverts>>
    BY <1>6 DEF Undo!RevertRewrites
  <2>2. /\ op.cut \in 1..Len(log) /\ op.patches = SubSeq(log, op.cut, Len(log))
        /\ EndsAs(log, files) /\ op.snap \in Undo!Trees /\ EndsAs(log, op.snap)
    BY <2>1 DEF UndoIInv, UndoPlaces, Cutting
  <2>3. PICK l \in Seq(Undo!Entry), c \in 1..Len(log), t \in Undo!Trees : l = log /\ c = op.cut /\ t = files
    BY <1>0, <2>2
  <2>4. files' \in Undo!Trees /\ Fits(files', Before(l, c))
    <3>1. files' = Undo!Unpatched(t, SubSeq(l, c, Len(l))) /\ Linked(l) /\ EndsAs(l, t) /\ c \in 1..Len(l)
      BY <1>0, <2>1, <2>2, <2>3
    <3> QED BY <3>1, UnpatchedFits
  <2>5. /\ op'.at = "mark" /\ op'.cut = op.cut /\ op'.snap = op.snap
        /\ op' \in [at : {"idle", "snapshot", "rewrite", "mark", "restore", "clear"}, cut : 1..MaxLog,
                    patches : Seq(Undo!Entry), prev : Undo!Mark \cup {Nil}, snap : Undo!Trees \cup {Nil}]
    BY <1>0, <2>1
  <2>6. Undo!TypeOK'
    BY <2>1, <2>4, <2>5 DEF UndoIInv, Undo!TypeOK
  <2>7. UndoPlaces'
    BY <1>0, <2>1, <2>2, <2>3, <2>4, <2>5 DEF UndoIInv, UndoPlaces
  <2> QED BY <2>1, <2>6, <2>7, UndoStill
<1>7. CASE Undo!RevertMarks
  <2>1. /\ op.at = "mark" /\ mark' = [cut |-> op.cut, snap |-> op.snap] /\ op' = Undo!NoOp
        /\ UNCHANGED <<files, log, busy, arriving, reverts>>
    BY <1>7 DEF Undo!RevertMarks
  <2>2. /\ op.cut \in 1..Len(log) /\ Fits(files, Before(log, op.cut))
        /\ op.snap \in Undo!Trees /\ EndsAs(log, op.snap)
    BY <2>1 DEF UndoIInv, UndoPlaces
  <2>3. mark' \in Undo!Mark /\ mark' # Nil /\ mark'.cut = op.cut /\ mark'.snap = op.snap
    BY <1>0, <2>1, <2>2 DEF Undo!Mark, Undo!ConstantAssumption
  <2>4. /\ op'.at = "idle"
        /\ op' \in [at : {"idle", "snapshot", "rewrite", "mark", "restore", "clear"}, cut : 1..MaxLog,
                    patches : Seq(Undo!Entry), prev : Undo!Mark \cup {Nil}, snap : Undo!Trees \cup {Nil}]
    <3>1. 1 \in 1..MaxLog /\ <<>> \in Seq(Undo!Entry)
      BY DEF Undo!ConstantAssumption
    <3> QED BY <2>1, <3>1 DEF Undo!NoOp
  <2>5. Undo!TypeOK'
    BY <2>1, <2>3, <2>4 DEF UndoIInv, Undo!TypeOK
  <2>6. UndoPlaces'
    BY <1>0, <2>1, <2>2, <2>3, <2>4 DEF UndoPlaces
  <2> QED BY <2>1, <2>5, <2>6, UndoStill
<1>8. CASE Undo!UnrevertBegins
  <2>1. /\ op.at = "idle" /\ ~busy /\ ~arriving /\ mark # Nil /\ reverts' \in 0..MaxReverts
        /\ op' = [Undo!NoOp EXCEPT !.at = "restore", !.snap = mark.snap]
        /\ UNCHANGED <<files, log, mark, busy, arriving>>
    BY <1>8 DEF Undo!UnrevertBegins, OneAtATimeOnly, UndoIInv, Undo!TypeOK, Undo!ConstantAssumption
  <2>2. mark.cut \in 1..Len(log) /\ EndsAs(log, mark.snap)
    BY <2>1 DEF UndoIInv, UndoPlaces
  <2>3. /\ op'.at = "restore" /\ op'.snap = mark.snap
        /\ op' \in [at : {"idle", "snapshot", "rewrite", "mark", "restore", "clear"}, cut : 1..MaxLog,
                    patches : Seq(Undo!Entry), prev : Undo!Mark \cup {Nil}, snap : Undo!Trees \cup {Nil}]
    <3>1. 1 \in 1..MaxLog /\ <<>> \in Seq(Undo!Entry)
      BY DEF Undo!ConstantAssumption
    <3> QED BY <1>0, <2>1, <3>1 DEF Undo!NoOp
  <2>4. Undo!TypeOK'
    BY <2>1, <2>3 DEF UndoIInv, Undo!TypeOK
  <2>5. UndoPlaces'
    BY <1>0, <2>1, <2>2, <2>3 DEF UndoPlaces
  <2> QED BY <2>1, <2>4, <2>5, UndoStill
<1>9. CASE Undo!UnrevertRestores
  <2>1. /\ op.at = "restore" /\ files' = Undo!Restored(files, op.snap)
        /\ op' = [op EXCEPT !.at = "clear"] /\ UNCHANGED <<log, mark, busy, arriving, reverts>>
    BY <1>9 DEF Undo!UnrevertRestores
  <2>2. PICK s \in Undo!Trees : s = op.snap /\ EndsAs(log, s)
    BY <2>1 DEF UndoIInv, UndoPlaces
  <2>3. files' \in Undo!Trees /\ EndsAs(log, files')
    BY <1>0, <2>1, <2>2, RestoredFits
  <2>4. /\ op'.at = "clear"
        /\ op' \in [at : {"idle", "snapshot", "rewrite", "mark", "restore", "clear"}, cut : 1..MaxLog,
                    patches : Seq(Undo!Entry), prev : Undo!Mark \cup {Nil}, snap : Undo!Trees \cup {Nil}]
    BY <1>0, <2>1
  <2>5. Undo!TypeOK'
    BY <2>1, <2>3, <2>4 DEF UndoIInv, Undo!TypeOK
  <2>6. UndoPlaces'
    BY <1>0, <2>1, <2>3, <2>4 DEF UndoIInv, UndoPlaces
  <2> QED BY <2>1, <2>5, <2>6, UndoStill
<1>10. CASE Undo!UnrevertClears
  <2>1. /\ op.at = "clear" /\ mark' = Nil /\ op' = Undo!NoOp
        /\ UNCHANGED <<files, log, busy, arriving, reverts>>
    BY <1>10 DEF Undo!UnrevertClears
  <2>2. /\ op'.at = "idle"
        /\ op' \in [at : {"idle", "snapshot", "rewrite", "mark", "restore", "clear"}, cut : 1..MaxLog,
                    patches : Seq(Undo!Entry), prev : Undo!Mark \cup {Nil}, snap : Undo!Trees \cup {Nil}]
    <3>1. 1 \in 1..MaxLog /\ <<>> \in Seq(Undo!Entry)
      BY DEF Undo!ConstantAssumption
    <3> QED BY <2>1, <3>1 DEF Undo!NoOp
  <2>3. Undo!TypeOK'
    BY <2>1, <2>2 DEF UndoIInv, Undo!TypeOK
  <2>4. UndoPlaces'
    BY <1>0, <2>1, <2>2 DEF UndoIInv, UndoPlaces
  <2> QED BY <2>1, <2>3, <2>4, UndoStill
<1> QED BY <1>1, <1>2, <1>3, <1>4, <1>5, <1>6, <1>7, <1>8, <1>9, <1>10, CleanUpKeeps, RevertBeginsKeeps
        DEF Undo!Next

LEMMA UndoInvGives == Undo!ConstantAssumption /\ UndoIInv => Undo!FilesMatchConversation
<1> SUFFICES ASSUME Undo!ConstantAssumption, UndoIInv, Undo!Settled, NEW f \in Files, Undo!Expected[f] # Absent
             PROVE  files[f] = Undo!Expected[f]
  BY DEF Undo!FilesMatchConversation
<1>1. PICK l \in Seq(Undo!Entry) : l = log /\ Linked(l)
  BY DEF UndoIInv, Undo!TypeOK
<1>2. CASE mark = Nil
  <2>1. Undo!Visible = l /\ EndsAs(l, files)
    BY <1>1, <1>2 DEF Undo!Visible, Undo!Cleaned, UndoIInv, UndoPlaces, Undo!Settled
  <2> QED BY <1>1, <2>1 DEF Undo!Expected, Undo!Last, EndsAs, Fits
<1>3. CASE mark # Nil
  <2>1. mark.cut \in 1..Len(l) /\ Fits(files, Before(l, mark.cut))
    BY <1>1, <1>3 DEF UndoIInv, UndoPlaces, Undo!Settled
  <2>2. PICK n : n = mark.cut - 1
    OBVIOUS
  <2>3. n \in 0..Len(l) /\ (mark.cut = 1 <=> n = 0) /\ n \in Nat /\ l # <<>>
    BY <1>1, <2>1, <2>2
  <2>4. PICK v : v = Undo!Visible
    OBVIOUS
  <2>5. v = SubSeq(l, 1, n)
    BY <1>1, <1>3, <2>2, <2>4 DEF Undo!Visible, Undo!Cleaned
  <2>6. v \in Seq(Undo!Entry) /\ Len(v) = n /\ \A i \in 1..n : v[i] = l[i]
    BY <1>1, <2>3, <2>5, PrefixLinked
  <2>7. CASE n = 0
    <3>1. v = <<>>
      BY <2>6, <2>7, EmptySeq
    <3> QED BY <1>1, <2>1, <2>3, <2>4, <2>7, <3>1 DEF Undo!Expected, Before, Fits
  <2>8. CASE n # 0
    <3>1. n \in 1..n /\ v # <<>>
      <4>1. n \in 1..n
        BY <2>3, <2>8
      <4> QED BY <2>6, <2>8, <4>1, EmptySeq
    <3>2. Undo!Expected = l[n].after
      BY <2>4, <2>6, <3>1 DEF Undo!Expected, Undo!Last
    <3>3. Before(l, mark.cut) = l[n].after
      BY <2>2, <2>3, <2>8 DEF Before
    <3> QED BY <2>1, <3>2, <3>3 DEF Fits
  <2> QED BY <2>7, <2>8
<1> QED BY <1>2, <1>3

LEMMA UndoMoves == [Next]_vars => [Undo!Next]_(Undo!vars)
  BY DEF Next, Others, vars, undoVars, Undo!vars

LEMMA UndoInvariant == OneAtATimeOnly => (Spec => []UndoIInv)
<1> SUFFICES ASSUME OneAtATimeOnly PROVE Spec => []UndoIInv
  OBVIOUS
<1>1. Init => UndoIInv
  BY ComponentAssumptions, UndoInitInv DEF Init
<1>2. UndoIInv /\ [Next]_vars => UndoIInv'
  BY ComponentAssumptions, UndoMoves, UndoStepInv
<1> QED BY <1>1, <1>2, PTL DEF Spec

\* After any undo and redo, and the prompts in between, each file that existed at
\* the end of the visible messages holds what it held there.
THEOREM FilesMatchConversationTheorem == OneAtATimeOnly => (Spec => []FilesMatchConversation)
<1> SUFFICES ASSUME OneAtATimeOnly PROVE Spec => []FilesMatchConversation
  OBVIOUS
<1>1. UndoIInv => FilesMatchConversation
  BY ComponentAssumptions, UndoInvGives DEF FilesMatchConversation
<1>2. Spec => []UndoIInv
  BY UndoInvariant
<1> QED BY <1>1, <1>2, PTL

\* What the types of a revert rest on, also where prompts come while one is under
\* way: the first message is the user's, what a revert names is there or the next
\* message to come, and a snapshot has been taken before it is used.
UndoTypes ==
    /\ Undo!TypeOK
    /\ log # <<>> => log[1].role = "user"
    /\ busy => log # <<>> /\ ~arriving
    /\ mark # Nil => mark.cut <= Len(log) + 1
    /\ op.at \in {"snapshot", "rewrite", "mark"} => op.cut <= Len(log) + 1
    /\ op.at \in {"rewrite", "mark", "restore"} => op.snap \in Undo!Trees

LEMMA PrefixTyped ==
  ASSUME NEW l \in Seq(Undo!Entry), NEW n \in 0..Len(l)
  PROVE  /\ SubSeq(l, 1, n) \in Seq(Undo!Entry) /\ Len(SubSeq(l, 1, n)) = n
         /\ \A i \in 1..n : SubSeq(l, 1, n)[i] = l[i]
<1>1. PICK m \in Nat : m = Len(l)
  OBVIOUS
<1>2. /\ n \in Nat /\ n <= m /\ 1 \in Int /\ n \in Int /\ \A i \in 1..n : i \in 1..m /\ l[i] \in Undo!Entry
      /\ (IF 1 <= n THEN n - 1 + 1 ELSE 0) = n /\ n - 1 + 1 = n /\ \A i \in 1..n : 1 + i - 1 = i
  BY <1>1
<1>3. /\ SubSeq(l, 1, n) \in Seq(Undo!Entry) /\ Len(SubSeq(l, 1, n)) = IF 1 <= n THEN n - 1 + 1 ELSE 0
      /\ \A i \in 1..n - 1 + 1 : SubSeq(l, 1, n)[i] = l[1 + i - 1]
  BY <1>2, SubSeqProperties
<1> QED BY <1>2, <1>3

\* The message that is marked exists: the user's first one at the latest.
LEMMA CutIs ==
  ASSUME NEW l \in Seq(Undo!Entry), l = log, NEW i \in 1..Len(l), l[1].role = "user"
  PROVE  Undo!Cut(i) \in 1..i
<1>1. i \in Nat /\ 1 \in 1..i
  OBVIOUS
<1> DEFINE S == {i - u : u \in {v \in 1..i : l[v].role = "user"}}
<1>2. S \in SUBSET Nat /\ i - 1 \in S
  BY <1>1
<1> HIDE DEF S
<1>3. PICK d \in S : \A e \in S : d <= e
  BY <1>2, LeastNumber
<1>4. PICK u \in 1..i : l[u].role = "user" /\ d = i - u
  BY <1>3 DEF S
<1>5. ASSUME NEW j \in u + 1 .. i, l[j].role = "user" PROVE FALSE
  <2>1. j \in 1..i /\ i - j < i - u
    BY <1>1, <1>4
  <2>2. i - j \in S
    BY <1>5, <2>1 DEF S
  <2> QED BY <1>1, <1>2, <1>3, <1>4, <2>1, <2>2
<1>6. \E v \in 1..i : log[v].role = "user" /\ \A j \in v + 1 .. i : log[j].role # "user"
  BY <1>4, <1>5
<1> QED BY <1>6 DEF Undo!Cut

LEMMA UnpatchedTyped ==
  ASSUME NEW tree \in Undo!Trees, NEW p \in Seq(Undo!Entry)
  PROVE  Undo!Unpatched(tree, p) \in Undo!Trees
<1>1. ASSUME NEW f \in Files, Undo!Naming(p, f) # {}
      PROVE  p[Undo!Min(Undo!Naming(p, f))].base[f] \in Contents \cup {Absent}
  <2>1. DOMAIN p \subseteq Nat /\ \A i \in DOMAIN p : p[i] \in Undo!Entry
    OBVIOUS
  <2>2. Undo!Naming(p, f) \in SUBSET Nat /\ Undo!Naming(p, f) \subseteq DOMAIN p
    BY <2>1 DEF Undo!Naming
  <2>3. \E x \in Undo!Naming(p, f) : \A y \in Undo!Naming(p, f) : x <= y
    BY <1>1, <2>2, LeastNumber
  <2>4. Undo!Min(Undo!Naming(p, f)) \in DOMAIN p
    BY <2>2, <2>3 DEF Undo!Min
  <2>5. p[Undo!Min(Undo!Naming(p, f))].base \in Undo!Trees
    BY <2>1, <2>4 DEF Undo!Entry
  <2> QED BY <2>5 DEF Undo!Trees
<1> QED BY <1>1 DEF Undo!Unpatched, Undo!Trees

LEMMA RestoredTyped ==
  ASSUME NEW tree \in Undo!Trees, NEW snap \in Undo!Trees
  PROVE  Undo!Restored(tree, snap) \in Undo!Trees
  BY DEF Undo!Restored, Undo!Trees

LEMMA UndoMessageTyped ==
  ASSUME Undo!ConstantAssumption, UndoTypes, NEW m \in Undo!Entry, Len(log) < MaxLog,
         log' = Append(log, m), log # <<>> \/ m.role = "user"
  PROVE  /\ log' \in Seq(Undo!Entry) /\ Len(log') <= MaxLog /\ Len(log') = Len(log) + 1
         /\ log' # <<>> /\ log'[1].role = "user"
<1>1. PICK l \in Seq(Undo!Entry) : l = log /\ Len(l) \in Nat
  BY DEF UndoTypes, Undo!TypeOK
<1>2. /\ log' \in Seq(Undo!Entry) /\ Len(log') = Len(l) + 1 /\ log'[Len(l) + 1] = m
      /\ \A i \in 1..Len(l) : log'[i] = l[i]
  BY <1>1, AppendProperties
<1>3. log' # <<>> /\ Len(log') <= MaxLog
  BY <1>1, <1>2 DEF Undo!ConstantAssumption
<1>4. log'[1].role = "user"
  <2>1. CASE Len(l) = 0
    <3>1. l = <<>>
      BY <1>1, <2>1, EmptySeq
    <3> QED BY <1>1, <1>2, <2>1, <3>1
  <2>2. CASE Len(l) # 0
    <3>1. 1 \in 1..Len(l) /\ l # <<>>
      BY <1>1, <2>2
    <3> QED BY <1>1, <1>2, <3>1 DEF UndoTypes
  <2> QED BY <2>1, <2>2
<1> QED BY <1>1, <1>2, <1>3, <1>4

LEMMA UndoTypeStep ==
  ASSUME Undo!ConstantAssumption, UndoTypes, [Undo!Next]_(Undo!vars)
  PROVE  UndoTypes'
<1>0. /\ op \in UndoOps /\ files \in Undo!Trees /\ log \in Seq(Undo!Entry) /\ Len(log) <= MaxLog
      /\ mark \in Undo!Mark \cup {Nil} /\ busy \in BOOLEAN /\ arriving \in BOOLEAN
      /\ reverts \in 0..MaxReverts /\ Len(log) \in Nat /\ MaxLog \in Nat \ {0} /\ MaxReverts \in Nat
      /\ mark # Nil => mark.cut \in 1..MaxLog /\ mark.snap \in Undo!Trees
  BY DEF UndoTypes, Undo!TypeOK, UndoOps, Undo!ConstantAssumption, Undo!Mark
<1>n. Undo!NoOp \in UndoOps /\ Undo!NoOp.at = "idle"
  <2>1. 1 \in 1..MaxLog /\ <<>> \in Seq(Undo!Entry)
    BY <1>0
  <2> QED BY <2>1 DEF Undo!NoOp, UndoOps
<1>1. CASE UNCHANGED Undo!vars
  BY <1>1 DEF Undo!vars, UndoTypes, Undo!TypeOK
<1>2. CASE Undo!PromptCleansUp
  <2>1. /\ ~busy /\ log' = Undo!Cleaned /\ mark' = Nil /\ arriving' = TRUE
        /\ op' = [op EXCEPT !.cut = IF op.cut > Len(Undo!Cleaned) THEN Len(Undo!Cleaned) + 1 ELSE op.cut]
        /\ UNCHANGED <<files, busy, reverts>>
    BY <1>2 DEF Undo!PromptCleansUp
  <2>2. /\ log' \in Seq(Undo!Entry) /\ Len(log') <= MaxLog
        /\ log' # <<>> => log'[1].role = "user"
    <3>1. CASE mark = Nil
      BY <1>0, <2>1, <3>1 DEF Undo!Cleaned, UndoTypes
    <3>2. CASE mark # Nil
      <4>1. PICK n \in Nat : n = mark.cut - 1 /\ n \in 0..Len(log)
        BY <1>0, <3>2 DEF UndoTypes
      <4>2. log' = SubSeq(log, 1, n)
        BY <2>1, <3>2, <4>1 DEF Undo!Cleaned
      <4>3. log' \in Seq(Undo!Entry) /\ Len(log') = n /\ \A i \in 1..n : log'[i] = log[i]
        BY <1>0, <4>1, <4>2, PrefixTyped
      <4>4. ASSUME log' # <<>> PROVE log'[1].role = "user"
        <5>1. n # 0
          BY <4>3, <4>4, EmptySeq
        <5>2. PICK k \in Nat : k = Len(log) /\ n \in 0..k
          BY <1>0, <4>1
        <5>3. 1 \in 1..n /\ k # 0
          BY <5>1, <5>2
        <5>4. log # <<>>
          BY <5>2, <5>3, EmptySeq
        <5> QED BY <4>3, <5>3, <5>4 DEF UndoTypes
      <4>5. Len(log') <= MaxLog
        BY <1>0, <4>1, <4>3
      <4> QED BY <4>3, <4>4, <4>5
    <3> QED BY <3>1, <3>2
  <2>3. PICK k \in Nat : k = Len(Undo!Cleaned) /\ k = Len(log')
    BY <2>1, <2>2
  <2>4. op' \in UndoOps /\ op'.at = op.at /\ op'.snap = op.snap /\ op'.cut <= Len(log') + 1
    BY <1>0, <2>1, <2>3, CutKept
  <2> QED BY <1>0, <2>1, <2>2, <2>4 DEF UndoTypes, Undo!TypeOK, UndoOps
<1>3. CASE Undo!PromptStored
  <2> DEFINE m == [role |-> "user", base |-> files, changed |-> {}, after |-> files]
  <2>1. m \in Undo!Entry /\ m.role = "user"
    BY <1>0 DEF Undo!Entry
  <2>2. /\ Len(log) < MaxLog /\ log' = Append(log, m) /\ arriving /\ arriving' = FALSE /\ busy' = TRUE
        /\ UNCHANGED <<files, mark, op, reverts>>
    BY <1>3 DEF Undo!PromptStored
  <2> HIDE DEF m
  <2>3. /\ log' \in Seq(Undo!Entry) /\ Len(log') <= MaxLog /\ Len(log') = Len(log) + 1
        /\ log' # <<>> /\ log'[1].role = "user"
    BY <2>1, <2>2, UndoMessageTyped
  <2>4. /\ mark # Nil => mark.cut <= Len(log') + 1
        /\ op.at \in {"snapshot", "rewrite", "mark"} => op.cut <= Len(log') + 1
    BY <1>0, <2>2, <2>3 DEF UndoTypes, UndoOps
  <2> QED BY <1>0, <2>2, <2>3, <2>4 DEF UndoTypes, Undo!TypeOK
<1>4. ASSUME NEW tree \in Undo!Trees, Undo!AgentStep(tree) PROVE UndoTypes'
  <2> DEFINE m == [role |-> "answer", base |-> files, after |-> tree,
                   changed |-> {f \in Files : files[f] # tree[f]}]
  <2>1. m \in Undo!Entry
    BY <1>0 DEF Undo!Entry
  <2>2. /\ Len(log) < MaxLog /\ log' = Append(log, m) /\ files' = tree /\ busy
        /\ UNCHANGED <<mark, busy, op, arriving, reverts>>
    BY <1>4 DEF Undo!AgentStep
  <2>3. log # <<>>
    BY <2>2 DEF UndoTypes
  <2> HIDE DEF m
  <2>4. /\ log' \in Seq(Undo!Entry) /\ Len(log') <= MaxLog /\ Len(log') = Len(log) + 1
        /\ log' # <<>> /\ log'[1].role = "user"
    BY <2>1, <2>2, <2>3, UndoMessageTyped
  <2>5. /\ mark # Nil => mark.cut <= Len(log') + 1
        /\ op.at \in {"snapshot", "rewrite", "mark"} => op.cut <= Len(log') + 1
    BY <1>0, <2>2, <2>4 DEF UndoTypes, UndoOps
  <2> QED BY <1>0, <1>4, <2>2, <2>4, <2>5 DEF UndoTypes, Undo!TypeOK
<1>5. CASE Undo!LoopEnds
  BY <1>5 DEF Undo!LoopEnds, UndoTypes, Undo!TypeOK
<1>6. ASSUME NEW i \in DOMAIN log, Undo!RevertBegins(i) PROVE UndoTypes'
  <2>1. PICK p : p = SubSeq(log, i, Len(log))
    OBVIOUS
  <2>2. /\ ~busy /\ op.at = "idle" /\ reverts < MaxReverts /\ reverts' = reverts + 1
        /\ op' = [at |-> "snapshot", cut |-> Undo!Cut(i), prev |-> mark, snap |-> Nil, patches |-> p]
        /\ UNCHANGED <<files, log, mark, busy, arriving>>
    BY <1>6, <2>1 DEF Undo!RevertBegins
  <2>3. i \in 1..Len(log) /\ log # <<>>
    BY <1>0
  <2>4. p \in Seq(Undo!Entry)
    <3>1. i \in Int /\ Len(log) \in Int /\ \A k \in i..Len(log) : log[k] \in Undo!Entry
      BY <1>0, <2>3
    <3> QED BY <2>1, <3>1, SubSeqProperties
  <2>5. Undo!Cut(i) \in 1..i
    BY <1>0, <2>3, CutIs DEF UndoTypes
  <2>6. Undo!Cut(i) \in 1..MaxLog /\ Undo!Cut(i) <= Len(log) + 1
    BY <1>0, <2>3, <2>5
  <2>7. op' \in UndoOps /\ op'.at = "snapshot" /\ op'.cut = Undo!Cut(i)
    BY <1>0, <2>2, <2>4, <2>6 DEF UndoOps
  <2> QED BY <1>0, <2>2, <2>6, <2>7 DEF UndoTypes, Undo!TypeOK, UndoOps
<1>7. CASE Undo!RevertSnapshots
  <2>1. PICK s \in Undo!Trees : op' = [op EXCEPT !.at = "rewrite", !.snap = s] /\ files' \in Undo!Trees
    <3>1. CASE op.prev = Nil
      BY <1>0, <1>7, <3>1 DEF Undo!RevertSnapshots
    <3>2. CASE op.prev # Nil
      <4>1. op.prev.snap \in Undo!Trees
        BY <1>0, <3>2 DEF UndoOps, Undo!Mark
      <4>2. Undo!Restored(files, op.prev.snap) \in Undo!Trees
        BY <1>0, <4>1, RestoredTyped
      <4> QED BY <1>7, <3>2, <4>1, <4>2 DEF Undo!RevertSnapshots
    <3> QED BY <3>1, <3>2
  <2>2. op.at = "snapshot" /\ UNCHANGED <<log, mark, busy, arriving, reverts>>
    BY <1>7 DEF Undo!RevertSnapshots
  <2>3. op' \in UndoOps /\ op'.at = "rewrite" /\ op'.snap = s /\ op'.cut = op.cut
    BY <1>0, <2>1 DEF UndoOps
  <2> QED BY <1>0, <2>1, <2>2, <2>3 DEF UndoTypes, Undo!TypeOK, UndoOps
<1>8. CASE Undo!RevertRewrites
  <2>1. /\ op.at = "rewrite" /\ files' = Undo!Unpatched(files, op.patches)
        /\ op' = [op EXCEPT !.at = "mark"] /\ UNCHANGED <<log, mark, busy, arriving, reverts>>
    BY <1>8 DEF Undo!RevertRewrites
  <2>2. op.patches \in Seq(Undo!Entry)
    BY <1>0 DEF UndoOps
  <2>3. files' \in Undo!Trees
    BY <1>0, <2>1, <2>2, UnpatchedTyped
  <2>4. op' \in UndoOps /\ op'.at = "mark" /\ op'.snap = op.snap /\ op'.cut = op.cut
    BY <1>0, <2>1 DEF UndoOps
  <2> QED BY <1>0, <2>1, <2>3, <2>4 DEF UndoTypes, Undo!TypeOK, UndoOps
<1>9. CASE Undo!RevertMarks
  <2>1. /\ op.at = "mark" /\ mark' = [cut |-> op.cut, snap |-> op.snap] /\ op' = Undo!NoOp
        /\ UNCHANGED <<files, log, busy, arriving, reverts>>
    BY <1>9 DEF Undo!RevertMarks
  <2>2. op.cut \in 1..MaxLog /\ op.cut <= Len(log) + 1 /\ op.snap \in Undo!Trees
    BY <1>0, <2>1 DEF UndoTypes, UndoOps
  <2>3. mark' \in Undo!Mark /\ mark'.cut = op.cut
    BY <2>1, <2>2 DEF Undo!Mark
  <2> QED BY <1>0, <1>n, <2>1, <2>2, <2>3 DEF UndoTypes, Undo!TypeOK, UndoOps
<1>10. CASE Undo!UnrevertBegins
  <2>1. /\ op.at = "idle" /\ ~busy /\ mark # Nil /\ reverts < MaxReverts /\ reverts' = reverts + 1
        /\ op' = [Undo!NoOp EXCEPT !.at = "restore", !.snap = mark.snap]
        /\ UNCHANGED <<files, log, mark, busy, arriving>>
    BY <1>10 DEF Undo!UnrevertBegins
  <2>2. op' \in UndoOps /\ op'.at = "restore" /\ op'.snap = mark.snap
    BY <1>0, <1>n, <2>1 DEF UndoOps
  <2> QED BY <1>0, <2>1, <2>2 DEF UndoTypes, Undo!TypeOK, UndoOps
<1>11. CASE Undo!UnrevertRestores
  <2>1. /\ op.at = "restore" /\ files' = Undo!Restored(files, op.snap)
        /\ op' = [op EXCEPT !.at = "clear"] /\ UNCHANGED <<log, mark, busy, arriving, reverts>>
    BY <1>11 DEF Undo!UnrevertRestores
  <2>2. files' \in Undo!Trees
    BY <1>0, <2>1, RestoredTyped DEF UndoTypes
  <2>3. op' \in UndoOps /\ op'.at = "clear"
    BY <1>0, <2>1 DEF UndoOps
  <2> QED BY <1>0, <2>1, <2>2, <2>3 DEF UndoTypes, Undo!TypeOK, UndoOps
<1>12. CASE Undo!UnrevertClears
  <2>1. op.at = "clear" /\ mark' = Nil /\ op' = Undo!NoOp /\ UNCHANGED <<files, log, busy, arriving, reverts>>
    BY <1>12 DEF Undo!UnrevertClears
  <2> QED BY <1>0, <1>n, <2>1 DEF UndoTypes, Undo!TypeOK, UndoOps
<1> QED BY <1>1, <1>2, <1>3, <1>4, <1>5, <1>6, <1>7, <1>8, <1>9, <1>10, <1>11, <1>12 DEF Undo!Next

LEMMA UndoTyped == Spec => []Undo!TypeOK
<1>1. Init => UndoTypes
  <2>1. Undo!Init => UndoTypes
    <3> SUFFICES ASSUME Undo!Init PROVE UndoTypes
      OBVIOUS
    <3>1. UndoIInv
      BY ComponentAssumptions, UndoInitInv
    <3> QED BY <3>1 DEF UndoIInv, UndoTypes, Undo!Init, Undo!NoOp
  <2> QED BY <2>1 DEF Init
<1>2. UndoTypes /\ [Next]_vars => UndoTypes'
  BY ComponentAssumptions, UndoMoves, UndoTypeStep
<1>3. UndoTypes => Undo!TypeOK
  BY DEF UndoTypes
<1> QED BY <1>1, <1>2, <1>3, PTL DEF Spec

----------------------------------------------------------------------------
(* Compaction (Compaction): what is not seen has been told.                *)

LEMMA LeastOf ==
  ASSUME NEW S \in SUBSET Nat, S # {}
  PROVE  Digest!Least(S) \in S /\ \A n \in S : Digest!Least(S) <= n
  BY LeastNumber DEF Digest!Least

LEMMA LargestOf ==
  ASSUME NEW k \in Nat, NEW S \in SUBSET (0..k), S # {}
  PROVE  Digest!Largest(S) \in S /\ \A n \in S : n <= Digest!Largest(S)
<1> DEFINE T == {k - n : n \in S}
<1>0. \A n \in S : n \in Nat /\ k - n \in Nat
  OBVIOUS
<1>1. T \in SUBSET Nat /\ T # {}
  BY <1>0, Zenon
<1>2. PICK d \in T : \A e \in T : d <= e
  <2> HIDE DEF T
  <2> QED BY <1>1, LeastNumber
<1>3. PICK g \in S : d = k - g
  BY <1>2
<1>4. \A n \in S : n <= g
  <2> SUFFICES ASSUME NEW n \in S PROVE n <= g
    OBVIOUS
  <2>1. k - n \in T /\ n \in Nat /\ g \in Nat
    OBVIOUS
  <2>2. k - g <= k - n
    BY <1>2, <1>3, <2>1
  <2> QED BY <2>1, <2>2
<1> QED BY <1>3, <1>4 DEF Digest!Largest

\* What the largest of a set is, if it is known.
LEMMA LargestIs ==
  ASSUME NEW k \in Nat, NEW S \in SUBSET (0..k), NEW c \in S, \A n \in S : n <= c
  PROVE  Digest!Largest(S) = c
<1>1. PICK g \in S : g = Digest!Largest(S) /\ \A n \in S : n <= g
  BY LargestOf
<1>2. g <= c /\ c <= g /\ c \in Nat /\ g \in Nat
  BY <1>1
<1> QED BY <1>1, <1>2

LEMMA MessageFields ==
  ASSUME NEW m \in Digest!Messages
  PROVE  /\ m.kind \in {"prompt", "compaction", "answer", "summary"}
         /\ m.kind = "compaction" => /\ m.tail \in Digest!Ids \cup {0} /\ m.auto \in BOOLEAN
                                     /\ m.overflow \in BOOLEAN
         /\ m.kind \in {"answer", "summary"} => m.parent \in Digest!Ids
         /\ m.kind = "summary" => m.fin \in {"none", "stop"} /\ m.error \in BOOLEAN
         /\ m.kind = "answer" => m.fin \in {"none", "calls", "stop"} /\ m.big \in BOOLEAN
  BY DEF Digest!Messages

LEMMA FromIs ==
  ASSUME NEW i \in Nat \ {0}, NEW j \in Nat
  PROVE  /\ Digest!From(i, j) \in Seq(i..j)
         /\ j < i => Len(Digest!From(i, j)) = 0
         /\ i <= j => Len(Digest!From(i, j)) = j - i + 1
         /\ \A n \in 1..Len(Digest!From(i, j)) : Digest!From(i, j)[n] = i + n - 1
<1>1. PICK d \in Nat : d = IF j < i THEN 0 ELSE j - i + 1
  <2>1. (IF j < i THEN 0 ELSE j - i + 1) \in Nat
    OBVIOUS
  <2> QED BY <2>1
<1>2. Digest!From(i, j) = [n \in 1..d |-> i + n - 1]
  BY <1>1 DEF Digest!From
<1>3. \A n \in 1..d : i + n - 1 \in i..j
  BY <1>1
<1>4. Digest!From(i, j) \in Seq(i..j) /\ Len(Digest!From(i, j)) = d
  BY <1>2, <1>3
<1>5. \A n \in 1..d : Digest!From(i, j)[n] = i + n - 1
  BY <1>2
<1> QED BY <1>1, <1>4, <1>5

LEMMA WiderSeq ==
  ASSUME NEW A, NEW B, A \subseteq B, NEW s \in Seq(A)
  PROVE  s \in Seq(B)
  OBVIOUS

\* The places of two sequences in a row.
LEMMA TwoInARow ==
  ASSUME NEW S, NEW a \in Seq(S), NEW b \in Seq(S)
  PROVE  /\ a \o b \in Seq(S) /\ Len(a \o b) = Len(a) + Len(b)
         /\ \A i \in 1..Len(a) : (a \o b)[i] = a[i]
         /\ \A j \in 1..Len(b) : (a \o b)[Len(a) + j] = b[j]
<1>1. a \o b \in Seq(S) /\ Len(a \o b) = Len(a) + Len(b)
  BY ConcatProperties
<1>2. \A i \in 1..Len(a) + Len(b) : (a \o b)[i] = IF i <= Len(a) THEN a[i] ELSE b[i - Len(a)]
  BY ConcatProperties
<1>3. PICK d \in Nat, e \in Nat : d = Len(a) /\ e = Len(b)
  OBVIOUS
<1>4. PICK u : u = a \o b
  OBVIOUS
<1>5. \A i \in 1..(d + e) : u[i] = IF i <= d THEN a[i] ELSE b[i - d]
  BY <1>2, <1>3, <1>4
<1>6. ASSUME NEW i \in 1..d PROVE u[i] = a[i]
  <2>1. i \in 1..(d + e) /\ i <= d
    OBVIOUS
  <2> QED BY <1>5, <2>1
<1>7. ASSUME NEW i \in 1..e PROVE u[d + i] = b[i]
  <2>1. d + i \in 1..(d + e) /\ ~(d + i <= d) /\ (d + i) - d = i
    OBVIOUS
  <2> QED BY <1>5, <2>1
<1> QED BY <1>1, <1>3, <1>4, <1>6, <1>7

----------------------------------------------------------------------------
\* Messages that a summary would tell of.
Tells(m) == msgs[m].kind \in {"prompt", "answer"}

\* The compactions that have a summary.
Summed == {m \in DOMAIN msgs : Digest!Asks(m) /\ \E s \in DOMAIN msgs : Digest!Sums(s) /\ msgs[s].parent = m}

Newer(S, c) == \A d \in S : d <= c

\* A conversation begins with the user.
Founded == (msgs # <<>> => Digest!User(1)) /\ (loopAt # "rest" => msgs # <<>>)

BoundaryFits ==
    /\ Summed = {} => Digest!Boundary = 1
    /\ \A c \in Summed : Newer(Summed, c) =>
          Digest!Boundary = IF msgs[c].tail = 0 THEN c ELSE IF msgs[c].tail <= c THEN msgs[c].tail ELSE 1

LEMMA BoundaryIs == Digest!TypeOK => BoundaryFits
<1> SUFFICES ASSUME Digest!TypeOK PROVE BoundaryFits
  OBVIOUS
<1>1. Digest!Boundary = LET c == Digest!Largest(Summed) IN
                 IF Summed = {} THEN 1
                 ELSE IF msgs[c].tail = 0 THEN c
                 ELSE IF msgs[c].tail <= c THEN msgs[c].tail ELSE 1
  BY DEF Digest!Boundary, Summed
<1>2. Summed \in SUBSET (0..Len(msgs)) /\ Len(msgs) \in Nat
  BY DEF Summed, Digest!TypeOK
<1>3. ASSUME NEW c \in Summed, Newer(Summed, c) PROVE Digest!Largest(Summed) = c
  BY <1>2, <1>3, LargestIs DEF Newer
<1> QED BY <1>1, <1>3 DEF BoundaryFits

LEMMA NewestSummed ==
  ASSUME Digest!TypeOK, Summed # {}
  PROVE  \E c \in Summed : Newer(Summed, c)
<1>1. Summed \in SUBSET (0..Len(msgs)) /\ Len(msgs) \in Nat
  BY DEF Summed, Digest!TypeOK
<1> QED BY <1>1, LargestOf DEF Newer

\* Where the boundary is, there is something of the user to see.
LEMMA BoundaryInside ==
  ASSUME Digest!TypeOK, Founded, msgs # <<>>
  PROVE  /\ Digest!Boundary \in 1..Len(msgs)
         /\ \E u \in Digest!Boundary..Len(msgs) : Digest!User(u)
<1>1. Len(msgs) \in Nat \ {0} /\ DOMAIN msgs = 1..Len(msgs) /\ Digest!User(1)
  BY DEF Digest!TypeOK, Founded
<1>2. CASE Summed = {}
  BY <1>1, <1>2, BoundaryIs DEF BoundaryFits
<1>3. CASE Summed # {}
  <2>1. PICK c \in Summed : Newer(Summed, c)
    BY <1>3, NewestSummed
  <2>2. c \in 1..Len(msgs) /\ Digest!User(c) /\ msgs[c].kind = "compaction" /\ msgs[c] \in Digest!Messages
    BY <1>1 DEF Summed, Digest!Asks, Digest!User, Digest!TypeOK
  <2>3. msgs[c].tail \in Nat
    BY <2>2, MessageFields, ComponentAssumptions DEF Digest!Ids, Digest!ConstantAssumption
  <2>4. Digest!Boundary = IF msgs[c].tail = 0 THEN c ELSE IF msgs[c].tail <= c THEN msgs[c].tail ELSE 1
    BY <2>1, BoundaryIs DEF BoundaryFits
  <2>5. Digest!Boundary \in 1..c
    BY <2>2, <2>3, <2>4
  <2> QED BY <1>1, <2>2, <2>5
<1> QED BY <1>2, <1>3

----------------------------------------------------------------------------
\* What the model is shown: all that is recent, or a compaction with its summary
\* in front of the tail that it keeps.
Moved(s, c, l, t) ==
    /\ Digest!Boundary <= t /\ t < c /\ c < l
    /\ Digest!Asks(c) /\ msgs[c].tail = t
    /\ \A d \in Digest!Boundary..Len(msgs) : Digest!Asks(d) /\ msgs[d].tail # 0 => d <= c
    /\ msgs[l].kind = "summary" /\ msgs[l].parent = c
    /\ \A d \in Digest!Boundary..Len(msgs) : d > c /\ msgs[d].kind = "summary" /\ msgs[d].parent = c => l <= d
    /\ s = Digest!From(c, l) \o Digest!From(t, c - 1) \o Digest!From(l + 1, Len(msgs))

LEMMA SeenIs ==
  ASSUME Digest!TypeOK, Founded, msgs # <<>>
  PROVE  \/ Digest!FilterCompacted = Digest!From(Digest!Boundary, Len(msgs))
         \/ \E c, l, t \in 1..Len(msgs) : Moved(Digest!FilterCompacted, c, l, t)
<1> DEFINE recent == Digest!Boundary..Len(msgs)
           tailed == {m \in recent : Digest!Asks(m) /\ msgs[m].tail # 0}
           sums(c) == {s \in recent : s > c /\ msgs[s].kind = "summary" /\ msgs[s].parent = c}
<1>1. Digest!Boundary \in 1..Len(msgs) /\ Len(msgs) \in Nat
  BY BoundaryInside DEF Digest!TypeOK
<1>2. Digest!FilterCompacted =
        LET c == Digest!Largest(tailed)
            tail == msgs[c].tail
        IN  IF tailed # {} /\ sums(c) # {} /\ tail >= Digest!Boundary /\ tail < c
            THEN Digest!From(c, Digest!Least(sums(c))) \o Digest!From(tail, c - 1) \o Digest!From(Digest!Least(sums(c)) + 1, Len(msgs))
            ELSE Digest!From(Digest!Boundary, Len(msgs))
  BY DEF Digest!FilterCompacted
<1>3. SUFFICES ASSUME Digest!FilterCompacted # Digest!From(Digest!Boundary, Len(msgs))
               PROVE  \E c, l, t \in 1..Len(msgs) : Moved(Digest!FilterCompacted, c, l, t)
  OBVIOUS
<1>4. tailed # {} /\ tailed \in SUBSET (0..Len(msgs))
  <2>1. tailed # {}
    <3> HIDE DEF tailed, sums
    <3> QED BY <1>2, <1>3
  <2>2. tailed \in SUBSET (0..Len(msgs))
    BY <1>1
  <2> QED BY <2>1, <2>2
<1>5. PICK c \in tailed : c = Digest!Largest(tailed) /\ \A d \in tailed : d <= c
  <2> HIDE DEF tailed
  <2> QED BY <1>1, <1>4, LargestOf
<1>6. sums(c) # {} /\ msgs[c].tail >= Digest!Boundary /\ msgs[c].tail < c
  BY <1>2, <1>3, <1>5
<1>7. sums(c) \in SUBSET Nat
  BY <1>1
<1>8. PICK l \in sums(c) : l = Digest!Least(sums(c)) /\ \A d \in sums(c) : l <= d
  <2> HIDE DEF sums
  <2> QED BY <1>6, <1>7, LeastOf
<1>9. c \in 1..Len(msgs) /\ l \in 1..Len(msgs) /\ c < l
  BY <1>1
<1>10. msgs[c].tail \in Nat
  <2>1. msgs[c] \in Digest!Messages /\ msgs[c].kind = "compaction"
    BY <1>9 DEF Digest!TypeOK, Digest!Asks
  <2> QED BY <2>1, MessageFields, ComponentAssumptions DEF Digest!Ids, Digest!ConstantAssumption
<1>11. PICK t \in Nat : t = msgs[c].tail
  BY <1>10
<1>12. t \in 1..Len(msgs)
  BY <1>1, <1>6, <1>9, <1>11
<1>13. Digest!FilterCompacted = Digest!From(c, l) \o Digest!From(t, c - 1) \o Digest!From(l + 1, Len(msgs))
  BY <1>2, <1>3, <1>5, <1>8, <1>11
<1>14. Moved(Digest!FilterCompacted, c, l, t)
  BY <1>1, <1>5, <1>6, <1>8, <1>9, <1>11, <1>13 DEF Moved
<1> QED BY <1>9, <1>12, <1>14

\* Where the pieces of what is moved end up.
Pieces(s, c, l, t, n, d1, d2, d3) ==
    /\ d1 = l - c + 1 /\ d2 = c - t /\ d3 = n - l
    /\ s \in Seq(1..n) /\ Len(s) = d1 + d2 + d3
    /\ \A i \in 1..d1 : s[i] = c + i - 1
    /\ \A j \in 1..d2 : s[d1 + j] = t + j - 1
    /\ \A k \in 1..d3 : s[d1 + d2 + k] = l + k

LEMMA Joined ==
  ASSUME NEW c \in Nat, NEW l \in Nat, NEW t \in Nat, NEW n \in Nat,
         1 <= t, t < c, c < l, l <= n,
         NEW s, s = Digest!From(c, l) \o Digest!From(t, c - 1) \o Digest!From(l + 1, n)
  PROVE  \E d1, d2, d3 \in Nat : Pieces(s, c, l, t, n, d1, d2, d3)
<1>1. PICK d1 \in Nat, d2 \in Nat, d3 \in Nat : d1 = l - c + 1 /\ d2 = c - t /\ d3 = n - l
  <2>1. l - c + 1 \in Nat /\ c - t \in Nat /\ n - l \in Nat
    OBVIOUS
  <2> QED BY <2>1
<1>2. PICK a \in Seq(1..n) : /\ a = Digest!From(c, l) /\ Len(a) = d1
                             /\ \A i \in 1..d1 : a[i] = c + i - 1
  <2>1. c \in Nat \ {0} /\ c <= l
    OBVIOUS
  <2>2. Digest!From(c, l) \in Seq(c..l) /\ Len(Digest!From(c, l)) = d1 /\ \A i \in 1..d1 : Digest!From(c, l)[i] = c + i - 1
    BY <1>1, <2>1, FromIs
  <2>3. c..l \subseteq 1..n
    OBVIOUS
  <2>4. Digest!From(c, l) \in Seq(1..n)
    BY <2>2, <2>3, WiderSeq
  <2> QED BY <2>2, <2>4
<1>3. PICK b \in Seq(1..n) : /\ b = Digest!From(t, c - 1) /\ Len(b) = d2
                             /\ \A i \in 1..d2 : b[i] = t + i - 1
  <2>1. PICK e \in Nat : e = c - 1
    <3>1. c - 1 \in Nat
      OBVIOUS
    <3> QED BY <3>1
  <2>2. t \in Nat \ {0} /\ t <= e /\ d2 = e - t + 1
    BY <1>1, <2>1
  <2>3. Digest!From(t, e) \in Seq(t..e) /\ Len(Digest!From(t, e)) = d2 /\ \A i \in 1..d2 : Digest!From(t, e)[i] = t + i - 1
    BY <2>2, FromIs
  <2>4. t..e \subseteq 1..n
    BY <2>1
  <2>5. Digest!From(t, e) \in Seq(1..n)
    BY <2>3, <2>4, WiderSeq
  <2> QED BY <2>1, <2>3, <2>5
<1>4. PICK r \in Seq(1..n) : /\ r = Digest!From(l + 1, n) /\ Len(r) = d3
                             /\ \A i \in 1..d3 : r[i] = l + i
  <2>1. PICK e \in Nat \ {0} : e = l + 1
    OBVIOUS
  <2>2. (n < e => d3 = 0) /\ (e <= n => d3 = n - e + 1) /\ (n < e \/ e <= n)
    BY <1>1, <2>1
  <2>3. Digest!From(e, n) \in Seq(e..n) /\ Len(Digest!From(e, n)) = d3
        /\ \A i \in 1..Len(Digest!From(e, n)) : Digest!From(e, n)[i] = e + i - 1
    BY <2>2, FromIs
  <2>4. e..n \subseteq 1..n
    BY <2>1
  <2>5. Digest!From(e, n) \in Seq(1..n)
    BY <2>3, <2>4, WiderSeq
  <2>6. \A i \in 1..d3 : Digest!From(e, n)[i] = l + i
    BY <2>1, <2>3
  <2> QED BY <2>1, <2>3, <2>5, <2>6
<1>5. s = a \o b \o r
  BY <1>2, <1>3, <1>4
<1>6. PICK u \in Seq(1..n) : /\ u = a \o b /\ Len(u) = d1 + d2
                             /\ \A i \in 1..d1 : u[i] = a[i]
                             /\ \A j \in 1..d2 : u[d1 + j] = b[j]
  <2>1. /\ a \o b \in Seq(1..n) /\ Len(a \o b) = Len(a) + Len(b)
        /\ \A i \in 1..Len(a) : (a \o b)[i] = a[i]
        /\ \A j \in 1..Len(b) : (a \o b)[Len(a) + j] = b[j]
    BY TwoInARow
  <2>2. Len(a) = d1 /\ Len(b) = d2
    BY <1>2, <1>3
  <2> QED BY <2>1, <2>2
<1>7. PICK d \in Nat : d = d1 + d2
  OBVIOUS
<1>8. PICK w \in Seq(1..n) : /\ w = u \o r /\ Len(w) = d + d3
                             /\ \A i \in 1..d : w[i] = u[i]
                             /\ \A j \in 1..d3 : w[d + j] = r[j]
  <2>1. /\ u \o r \in Seq(1..n) /\ Len(u \o r) = Len(u) + Len(r)
        /\ \A i \in 1..Len(u) : (u \o r)[i] = u[i]
        /\ \A j \in 1..Len(r) : (u \o r)[Len(u) + j] = r[j]
    BY TwoInARow
  <2>2. Len(u) = d /\ Len(r) = d3
    BY <1>4, <1>6, <1>7
  <2> QED BY <2>1, <2>2
<1>9. s = w
  BY <1>5, <1>6, <1>8
<1>12. ASSUME NEW i \in 1..d1 PROVE s[i] = c + i - 1
  <2>1. i \in 1..d
    BY <1>7
  <2> QED BY <1>2, <1>6, <1>8, <1>9, <2>1
<1>13. ASSUME NEW i \in 1..d2 PROVE s[d1 + i] = t + i - 1
  <2>1. d1 + i \in 1..d
    BY <1>7
  <2>2. w[d1 + i] = u[d1 + i]
    BY <1>8, <2>1
  <2>3. u[d1 + i] = b[i]
    BY <1>6
  <2> QED BY <1>3, <1>9, <2>2, <2>3
<1>14. ASSUME NEW i \in 1..d3 PROVE s[d1 + d2 + i] = l + i
  BY <1>4, <1>7, <1>8, <1>9
<1>15. s \in Seq(1..n) /\ Len(s) = d1 + d2 + d3
  BY <1>7, <1>8, <1>9
<1>16. Pieces(s, c, l, t, n, d1, d2, d3)
  BY <1>1, <1>12, <1>13, <1>14, <1>15 DEF Pieces
<1> QED BY <1>16

\* Everything shown is a message, and something of it is the user's.
LEMMA SeenTyped ==
  ASSUME Digest!TypeOK, Founded, msgs # <<>>
  PROVE  /\ Digest!FilterCompacted \in Seq(1..Len(msgs))
         /\ \E i \in DOMAIN Digest!FilterCompacted : Digest!User(Digest!FilterCompacted[i])
<1>1. PICK n \in Nat : n = Len(msgs)
  BY DEF Digest!TypeOK
<1>2. PICK b \in 1..n : b = Digest!Boundary
  BY <1>1, BoundaryInside
<1>3. PICK s : s = Digest!FilterCompacted
  OBVIOUS
<1>4. CASE s = Digest!From(b, n)
  <2>1. PICK d \in Nat : d = n - b + 1
    <3>1. n - b + 1 \in Nat
      BY <1>1, <1>2
    <3> QED BY <3>1
  <2>2. b \in Nat \ {0} /\ b <= n
    BY <1>1, <1>2
  <2>3. s \in Seq(b..n) /\ Len(s) = d /\ \A i \in 1..d : s[i] = b + i - 1
    BY <1>1, <1>4, <2>1, <2>2, FromIs
  <2>4. b..n \subseteq 1..n
    BY <1>2
  <2>5. s \in Seq(1..n)
    BY <2>3, <2>4
  <2>6. PICK u \in b..n : Digest!User(u)
    BY <1>1, <1>2, BoundaryInside
  <2>7. u - b + 1 \in 1..d
    BY <1>1, <1>2, <2>1, <2>6
  <2>8. u - b + 1 \in DOMAIN s /\ s[u - b + 1] = u
    BY <1>1, <1>2, <2>3, <2>6, <2>7
  <2> QED BY <1>1, <1>3, <2>5, <2>6, <2>8
<1>5. ASSUME NEW c \in 1..n, NEW l \in 1..n, NEW t \in 1..n, Moved(s, c, l, t)
      PROVE  s \in Seq(1..n) /\ \E i \in DOMAIN s : Digest!User(s[i])
  <2>0. c \in Nat /\ l \in Nat /\ t \in Nat
    OBVIOUS
  <2>1. 1 <= t /\ t < c /\ c < l /\ l <= n /\ Digest!User(c) /\ s = Digest!From(c, l) \o Digest!From(t, c - 1) \o Digest!From(l + 1, n)
    BY <1>1, <1>5 DEF Moved, Digest!Asks, Digest!User
  <2>2. PICK d1, d2, d3 \in Nat : Pieces(s, c, l, t, n, d1, d2, d3)
    BY <2>0, <2>1, Joined
  <2>4. 1 \in 1..d1 /\ c + 1 - 1 = c /\ 1 \in 1..(d1 + d2 + d3)
    BY <2>1, <2>2 DEF Pieces
  <2>5. 1 \in DOMAIN s /\ s[1] = c
    BY <2>2, <2>4 DEF Pieces
  <2> QED BY <2>1, <2>2, <2>5 DEF Pieces
<1> QED BY <1>1, <1>2, <1>3, <1>4, <1>5, SeenIs

----------------------------------------------------------------------------
\* The order of what is shown, as long as no summary has failed.

ParentsFirst == \A s \in DOMAIN msgs : Digest!Assistant(s) => msgs[s].parent < s

\* What the model puts behind a compaction is its summary.
SummaryFollows ==
    \A p \in DOMAIN msgs : Digest!Asks(p) /\ p + 1 \in DOMAIN msgs /\ Digest!Assistant(p + 1)
        => msgs[p + 1].kind = "summary" /\ msgs[p + 1].parent = p

TailsAreSummed == \A m \in DOMAIN msgs : Digest!Asks(m) /\ msgs[m].tail # 0 => m \in Summed

NewestIsFollowed ==
    \A c \in Summed : Newer(Summed, c) => c + 1 \in DOMAIN msgs /\ Digest!Assistant(c + 1)

Settled == ParentsFirst /\ SummaryFollows /\ TailsAreSummed /\ NewestIsFollowed

Ascends(s, f) == \A i, j \in DOMAIN s : f < i /\ i < j => s[i] < s[j]

Complete(s) == \A m \in Digest!Boundary..Len(msgs) : \E i \in DOMAIN s : s[i] = m

\* The newest compaction that has its summary is in front, and that behind it.
Fronted(s) ==
    \E c \in Summed :
        /\ Newer(Summed, c) /\ msgs[c + 1].kind = "summary"
        /\ 1 \in DOMAIN s /\ 2 \in DOMAIN s /\ s[1] = c /\ s[2] = c + 1
        /\ \A j \in DOMAIN s : 2 < j => s[j] # c /\ s[j] # c + 1

Orderly(s) == Complete(s) /\ (Ascends(s, 0) \/ (Ascends(s, 2) /\ Fronted(s)))

LEMMA FromOrderly ==
  ASSUME Digest!TypeOK, Founded, msgs # <<>>
  PROVE  Orderly(Digest!From(Digest!Boundary, Len(msgs)))
<1>1. PICK n \in Nat : n = Len(msgs)
  BY DEF Digest!TypeOK
<1>2. PICK b \in 1..n : b = Digest!Boundary
  BY <1>1, BoundaryInside
<1>3. PICK s : s = Digest!From(b, n)
  OBVIOUS
<1>4. PICK d \in Nat : d = n - b + 1
  <2>1. n - b + 1 \in Nat
    BY <1>1, <1>2
  <2> QED BY <2>1
<1>5. b \in Nat \ {0} /\ b <= n
  BY <1>1, <1>2
<1>6. s \in Seq(b..n) /\ Len(s) = d /\ \A i \in 1..d : s[i] = b + i - 1
  BY <1>1, <1>3, <1>4, <1>5, FromIs
<1>7. DOMAIN s = 1..d
  BY <1>6
<1>8. Complete(s)
  <2> SUFFICES ASSUME NEW m \in b..n PROVE \E i \in DOMAIN s : s[i] = m
    BY <1>1, <1>2 DEF Complete
  <2>1. PICK i \in Nat : i = m - b + 1
    <3>1. m - b + 1 \in Nat
      BY <1>5
    <3> QED BY <3>1
  <2>2. i \in 1..d /\ b + i - 1 = m
    BY <1>4, <1>5, <2>1
  <2> QED BY <1>6, <1>7, <2>2
<1>9. Ascends(s, 0)
  <2> SUFFICES ASSUME NEW i \in 1..d, NEW j \in 1..d, i < j PROVE s[i] < s[j]
    BY <1>7 DEF Ascends
  <2>1. s[i] = b + i - 1 /\ s[j] = b + j - 1
    BY <1>6
  <2> QED BY <1>5, <2>1
<1> QED BY <1>1, <1>2, <1>3, <1>8, <1>9 DEF Orderly

\* What is moved is the newest compaction, with the summary next to it.
LEMMA MovedIs ==
  ASSUME Digest!TypeOK, Founded, msgs # <<>>, Settled,
         NEW c \in 1..Len(msgs), NEW l \in 1..Len(msgs), NEW t \in 1..Len(msgs), NEW s,
         Moved(s, c, l, t)
  PROVE  /\ c \in Summed /\ Newer(Summed, c) /\ msgs[c + 1].kind = "summary"
         /\ l = c + 1 /\ Digest!Boundary = t
<1>1. PICK n \in Nat : n = Len(msgs) /\ DOMAIN msgs = 1..n
  BY DEF Digest!TypeOK
<1>2. PICK b \in 1..n : b = Digest!Boundary
  BY <1>1, BoundaryInside
<1>3. c \in 1..n /\ l \in 1..n /\ t \in 1..n /\ b <= t /\ t < c /\ c < l /\ msgs[c].tail = t /\ Digest!Asks(c)
  BY <1>1, <1>2 DEF Moved
<1>4. c \in Summed
  BY <1>1, <1>3 DEF Settled, TailsAreSummed
<1>5. PICK e \in Summed : Newer(Summed, e)
  BY <1>4, NewestSummed
<1>6. e \in 1..n /\ Digest!Asks(e) /\ c <= e
  BY <1>1, <1>4, <1>5 DEF Summed, Newer
<1>7. b = IF msgs[e].tail = 0 THEN e ELSE IF msgs[e].tail <= e THEN msgs[e].tail ELSE 1
  BY <1>2, <1>5, BoundaryIs DEF BoundaryFits
<1>8. c = e
  <2> SUFFICES ASSUME c < e PROVE FALSE
    BY <1>3, <1>6
  <2>1. e \in Digest!Boundary..Len(msgs)
    BY <1>1, <1>2, <1>3, <1>6
  <2>2. msgs[e].tail = 0
    <3>1. Digest!Asks(e) /\ msgs[e].tail # 0 => e <= c
      BY <2>1 DEF Moved
    <3> QED BY <1>6, <1>3, <3>1
  <2> QED BY <1>2, <1>3, <1>6, <1>7, <2>2
<1>9. b = t
  BY <1>2, <1>3, <1>7, <1>8
<1>10. c + 1 \in 1..n /\ Digest!Assistant(c + 1)
  BY <1>1, <1>4, <1>5, <1>8 DEF Settled, NewestIsFollowed
<1>11. msgs[c + 1].kind = "summary" /\ msgs[c + 1].parent = c
  BY <1>1, <1>3, <1>10 DEF Settled, SummaryFollows
<1>12. l <= c + 1
  <2>1. PICK d \in 1..n : d = c + 1
    BY <1>10
  <2>2. d \in Digest!Boundary..Len(msgs) /\ d > c
    BY <1>1, <1>2, <1>3, <2>1
  <2>3. l <= d
    BY <1>11, <2>1, <2>2 DEF Moved
  <2> QED BY <2>1, <2>3
<1> QED BY <1>2, <1>3, <1>4, <1>5, <1>8, <1>9, <1>11, <1>12

LEMMA MovedOrderly ==
  ASSUME Digest!TypeOK, Founded, msgs # <<>>, Settled,
         NEW c \in 1..Len(msgs), NEW l \in 1..Len(msgs), NEW t \in 1..Len(msgs), NEW s,
         Moved(s, c, l, t)
  PROVE  Orderly(s)
<1>1. PICK n \in Nat : n = Len(msgs) /\ DOMAIN msgs = 1..n
  BY DEF Digest!TypeOK
<1>2. /\ c \in Summed /\ Newer(Summed, c) /\ msgs[c + 1].kind = "summary"
      /\ l = c + 1 /\ Digest!Boundary = t
  BY MovedIs
<1>3. /\ c \in Nat /\ t \in Nat /\ l \in Nat /\ 1 <= t /\ t < c /\ c < l /\ l <= n
      /\ s = Digest!From(c, l) \o Digest!From(t, c - 1) \o Digest!From(l + 1, n)
  BY <1>1 DEF Moved
<1>4. PICK d1, d2, d3 \in Nat : Pieces(s, c, l, t, n, d1, d2, d3)
  BY <1>1, <1>3, Joined
<1>5. d1 = 2 /\ d2 = c - t /\ d3 = n - (c + 1)
  BY <1>1, <1>2, <1>3, <1>4 DEF Pieces
<1>6. PICK d \in Nat : d = 2 + d2
  OBVIOUS
<1>7. /\ s \in Seq(1..n) /\ Len(s) = d + d3 /\ DOMAIN s = 1..(d + d3)
      /\ \A i \in 1..2 : s[i] = c + i - 1
      /\ \A j \in 1..d2 : s[2 + j] = t + j - 1
      /\ \A k \in 1..d3 : s[d + k] = c + 1 + k
  <2>1. /\ s \in Seq(1..n) /\ Len(s) = d1 + d2 + d3
        /\ \A i \in 1..d1 : s[i] = c + i - 1
        /\ \A j \in 1..d2 : s[d1 + j] = t + j - 1
    BY <1>4 DEF Pieces
  <2>2. \A k \in 1..d3 : s[d1 + d2 + k] = l + k
    BY <1>4 DEF Pieces
  <2>3. Len(s) = d + d3 /\ DOMAIN s = 1..(d + d3)
    BY <1>5, <1>6, <2>1
  <2>4. d1 = 2 /\ d1 + d2 = d /\ l = c + 1
    BY <1>2, <1>5, <1>6
  <2> QED BY <2>1, <2>2, <2>3, <2>4
<1>8. s[1] = c /\ s[2] = c + 1 /\ 1 \in DOMAIN s /\ 2 \in DOMAIN s
  <2>1. 1 \in 1..2 /\ 2 \in 1..2 /\ 1 \in 1..(d + d3) /\ 2 \in 1..(d + d3)
    BY <1>6
  <2>2. s[1] = c + 1 - 1 /\ s[2] = c + 2 - 1
    BY <1>7, <2>1
  <2>3. c + 1 - 1 = c /\ c + 2 - 1 = c + 1
    BY <1>3
  <2> QED BY <1>7, <2>1, <2>2, <2>3
<1>9. c \in Nat /\ t \in Nat /\ n \in Nat /\ 1 <= t /\ t < c /\ c + 1 <= n /\ d = 2 + (c - t) /\ d2 = c - t /\ d3 = n - (c + 1)
  BY <1>1, <1>2, <1>3, <1>5, <1>6
<1>10. ASSUME NEW k \in 1..d2
       PROVE  s[2 + k] = t + k - 1 /\ 2 + k \in 1..(d + d3)
  <2>1. 2 + k \in 1..(d + d3)
    BY <1>9
  <2> QED BY <1>7, <2>1
<1>11. ASSUME NEW k \in 1..d3
       PROVE  s[d + k] = c + 1 + k /\ d + k \in 1..(d + d3)
  <2>1. d + k \in 1..(d + d3)
    OBVIOUS
  <2> QED BY <1>7, <2>1
<1>12. ASSUME NEW j \in 3..(d + d3)
       PROVE  \/ j <= d /\ s[j] = t + j - 3
              \/ d < j /\ s[j] = j + t - 1
  <2>0. j \in Nat /\ 3 <= j /\ j <= d + d3
    OBVIOUS
  <2>1. CASE j <= d
    <3>1. PICK k \in 1..d2 : j = 2 + k
      <4>1. j - 2 \in 1..d2 /\ j = 2 + (j - 2)
        BY <1>9, <2>0, <2>1
      <4> QED BY <4>1
    <3>2. s[j] = t + k - 1
      BY <1>10, <3>1
    <3>3. t + k - 1 = t + j - 3
      BY <1>9, <3>1
    <3> QED BY <2>1, <3>2, <3>3
  <2>2. CASE j > d
    <3>1. PICK k \in 1..d3 : j = d + k
      <4>1. j - d \in 1..d3 /\ j = d + (j - d)
        BY <2>0, <2>2
      <4> QED BY <4>1
    <3>2. s[j] = c + 1 + k
      BY <1>11, <3>1
    <3>3. c + 1 + k = j + t - 1
      BY <1>9, <3>1
    <3> QED BY <2>2, <3>2, <3>3
  <2> QED BY <2>0, <2>1, <2>2
<1>13. Complete(s)
  <2> SUFFICES ASSUME NEW m \in t..n PROVE \E i \in 1..(d + d3) : s[i] = m
    BY <1>1, <1>2, <1>7 DEF Complete
  <2>0. m \in Nat /\ t <= m /\ m <= n
    BY <1>9
  <2>1. CASE m = c \/ m = c + 1
    BY <1>7, <1>8, <2>1
  <2>2. CASE m < c
    <3>1. PICK k \in 1..d2 : t + k - 1 = m
      <4>1. m - t + 1 \in 1..d2 /\ t + (m - t + 1) - 1 = m
        BY <1>9, <2>0, <2>2
      <4> QED BY <4>1
    <3> QED BY <1>10, <3>1
  <2>3. CASE m > c + 1
    <3>1. PICK k \in 1..d3 : c + 1 + k = m
      <4>1. m - (c + 1) \in 1..d3 /\ c + 1 + (m - (c + 1)) = m
        BY <1>9, <2>0, <2>3
      <4> QED BY <4>1
    <3> QED BY <1>11, <3>1
  <2> QED BY <1>9, <2>0, <2>1, <2>2, <2>3
<1>14. Ascends(s, 2)
  <2> SUFFICES ASSUME NEW i \in 3..(d + d3), NEW j \in 3..(d + d3), i < j PROVE s[i] < s[j]
    BY <1>7 DEF Ascends
  <2>1. \/ i <= d /\ s[i] = t + i - 3
        \/ d < i /\ s[i] = i + t - 1
    BY <1>12
  <2>2. \/ j <= d /\ s[j] = t + j - 3
        \/ d < j /\ s[j] = j + t - 1
    BY <1>12
  <2>3. i \in Nat /\ j \in Nat
    OBVIOUS
  <2>4. PICK x, y : x = s[i] /\ y = s[j]
    OBVIOUS
  <2>5. x < y
    BY <1>9, <2>1, <2>2, <2>3, <2>4
  <2> QED BY <2>4, <2>5
<1>15. ASSUME NEW j \in DOMAIN s, 2 < j PROVE s[j] # c /\ s[j] # c + 1
  <2>1. j \in 3..(d + d3) /\ j \in Nat
    BY <1>7, <1>15
  <2>2. \/ j <= d /\ s[j] = t + j - 3
        \/ d < j /\ s[j] = j + t - 1
    BY <1>12, <2>1
  <2>3. t + j - 3 < c \/ ~(j <= d)
    BY <1>9, <2>1
  <2>4. j + t - 1 > c + 1 \/ ~(d < j)
    BY <1>9, <2>1
  <2>5. CASE j <= d /\ s[j] = t + j - 3
    BY <1>9, <2>1, <2>3, <2>5
  <2>6. CASE d < j /\ s[j] = j + t - 1
    BY <1>9, <2>1, <2>4, <2>6
  <2> QED BY <2>2, <2>5, <2>6
<1>16. Fronted(s)
  BY <1>2, <1>8, <1>15 DEF Fronted
<1> QED BY <1>13, <1>14, <1>16 DEF Orderly

LEMMA SeenOrderly ==
  ASSUME Digest!TypeOK, Founded, msgs # <<>>, Settled
  PROVE  Orderly(Digest!FilterCompacted)
  BY SeenIs, FromOrderly, MovedOrderly

----------------------------------------------------------------------------
\* What the loop finds in what it is shown, s.
LEMMA LastUserIs ==
  ASSUME NEW n \in Nat, NEW s \in Seq(1..n), \E i \in DOMAIN s : Digest!User(s[i])
  PROVE  \E k \in DOMAIN s : /\ Digest!LastUser(s) = s[k] /\ s[k] \in 1..n /\ Digest!User(s[k])
                             /\ \A i \in DOMAIN s : Digest!User(s[i]) => i <= k
<1> DEFINE found == {i \in DOMAIN s : Digest!User(s[i])}
<1>1. Digest!LastUser(s) = s[IF found = {} THEN 0 ELSE Digest!Largest(found)]
  BY DEF Digest!LastUser, Digest!LastOf
<1>2. found # {} /\ found \in SUBSET (0..Len(s)) /\ Len(s) \in Nat
  OBVIOUS
<1>3. PICK k \in found : k = Digest!Largest(found) /\ \A i \in found : i <= k
  <2> HIDE DEF found
  <2> QED BY <1>2, LargestOf
<1>4. k \in DOMAIN s /\ Digest!User(s[k]) /\ \A i \in DOMAIN s : Digest!User(s[i]) => i <= k
  BY <1>3
<1>5. Digest!LastUser(s) = s[k]
  BY <1>1, <1>2, <1>3
<1>6. s[k] \in 1..n
  BY <1>4
<1> QED BY <1>4, <1>5, <1>6

LEMMA LastFinishedIs ==
  ASSUME NEW n \in Nat, NEW s \in Seq(1..n)
  PROVE  /\ Digest!LastFinished(s) \in 0..Len(s)
         /\ Digest!LastFinished(s) # 0 => Digest!Finished(s[Digest!LastFinished(s)])
         /\ \A i \in DOMAIN s : Digest!Finished(s[i]) => i <= Digest!LastFinished(s)
<1> DEFINE found == {i \in DOMAIN s : Digest!Finished(s[i])}
<1>1. Digest!LastFinished(s) = IF found = {} THEN 0 ELSE Digest!Largest(found)
  BY DEF Digest!LastFinished, Digest!LastOf
<1>2. found \in SUBSET (0..Len(s)) /\ Len(s) \in Nat
  OBVIOUS
<1>3. CASE found = {}
  BY <1>1, <1>2, <1>3
<1>4. CASE found # {}
  <2>1. PICK k \in found : k = Digest!Largest(found) /\ \A i \in found : i <= k
    <3> HIDE DEF found
    <3> QED BY <1>2, <1>4, LargestOf
  <2>2. k \in DOMAIN s /\ Digest!Finished(s[k]) /\ \A i \in DOMAIN s : Digest!Finished(s[i]) => i <= k
    BY <2>1
  <2>3. Digest!LastFinished(s) = k
    BY <1>1, <1>4, <2>1
  <2>4. k \in 0..Len(s)
    BY <2>2
  <2> QED BY <2>2, <2>3, <2>4
<1> QED BY <1>3, <1>4

\* A place at which p is not behind is before p's.
LEMMA PlaceIs ==
  ASSUME NEW n \in Nat, NEW s \in Seq(1..n), NEW p
  PROVE  /\ Digest!PlaceOf(s, p) \in 1..(Len(s) + 1)
         /\ Digest!PlaceOf(s, p) # Len(s) + 1 => s[Digest!PlaceOf(s, p)] = p
<1> DEFINE at == {i \in DOMAIN s : s[i] = p} \cup {Len(s) + 1}
<1>1. Digest!PlaceOf(s, p) = Digest!Least(at)
  BY DEF Digest!PlaceOf
<1>2. at \in SUBSET Nat /\ at # {}
  OBVIOUS
<1>3. Digest!Least(at) \in at
  <2> HIDE DEF at
  <2> QED BY <1>2, LeastOf
<1>4. Digest!PlaceOf(s, p) \in at
  BY <1>1, <1>3
<1>5. CASE Digest!PlaceOf(s, p) = Len(s) + 1
  BY <1>5
<1>6. CASE Digest!PlaceOf(s, p) \in DOMAIN s /\ s[Digest!PlaceOf(s, p)] = p
  BY <1>6
<1> QED BY <1>4, <1>5, <1>6

LEMMA ReplayFromIs ==
  ASSUME NEW n \in Nat, NEW s \in Seq(1..n), NEW p, NEW o
  PROVE  /\ Digest!ReplayFrom(s, p, o) \in 0..Len(s)
         /\ Digest!ReplayFrom(s, p, o) # 0 => Digest!ReplayFrom(s, p, o) < Digest!PlaceOf(s, p)
<1> DEFINE prompts == {i \in DOMAIN s : i < Digest!PlaceOf(s, p) /\ msgs[s[i]].kind = "prompt"}
<1>1. Digest!ReplayFrom(s, p, o) =
        IF o /\ (\E i \in prompts : i < Digest!Largest(prompts)) THEN Digest!Largest(prompts) ELSE 0
  BY DEF Digest!ReplayFrom
<1>2. prompts \in SUBSET (0..Len(s)) /\ Len(s) \in Nat
  OBVIOUS
<1>3. prompts # {} => Digest!Largest(prompts) \in prompts
  <2> HIDE DEF prompts
  <2> QED BY <1>2, LargestOf
<1>4. Digest!ReplayFrom(s, p, o) = 0 \/ Digest!ReplayFrom(s, p, o) \in prompts
  <2> HIDE DEF prompts
  <2>1. CASE prompts = {}
    BY <1>1, <2>1
  <2>2. CASE prompts # {}
    BY <1>1, <1>3, <2>2
  <2> QED BY <2>1, <2>2
<1>5. Digest!ReplayFrom(s, p, o) \in prompts => Digest!ReplayFrom(s, p, o) \in 0..Len(s)
  <2> HIDE DEF prompts
  <2> QED BY <1>2
<1>6. 0 \in 0..Len(s)
  BY <1>2
<1>7. Digest!ReplayFrom(s, p, o) \in prompts => Digest!ReplayFrom(s, p, o) < Digest!PlaceOf(s, p)
  OBVIOUS
<1> HIDE DEF prompts
<1> QED BY <1>4, <1>5, <1>6, <1>7

LEMMA PartOf ==
  ASSUME NEW S, NEW s \in Seq(S), NEW a \in Nat \ {0}, NEW b \in Nat, b <= Len(s), a <= b + 1
  PROVE  /\ SubSeq(s, a, b) \in Seq(S) /\ Len(SubSeq(s, a, b)) = b - a + 1
         /\ \A i \in 1..(b - a + 1) : SubSeq(s, a, b)[i] = s[a + i - 1]
<1>1. \A i \in a..b : s[i] \in S
  BY ElementOfSeq
<1>2. a \in Int /\ b \in Int
  OBVIOUS
<1>3. /\ SubSeq(s, a, b) \in Seq(S)
      /\ Len(SubSeq(s, a, b)) = IF a <= b THEN b - a + 1 ELSE 0
      /\ \A i \in 1..(b - a + 1) : SubSeq(s, a, b)[i] = s[a + i - 1]
  BY <1>1, <1>2, SubSeqProperties
<1>4. (IF a <= b THEN b - a + 1 ELSE 0) = b - a + 1
  OBVIOUS
<1> QED BY <1>3, <1>4

----------------------------------------------------------------------------
\* What a compaction is made of.  i is where the replayed prompt stands, h how
\* much of s it looks at, k where the tail begins and a where the summary
\* stands that it updates.
At(s, i) == IF i = 0 THEN 0 ELSE s[i]

Digested(s, p, piece, w, i, h, k, a) ==
    /\ w = [auto |-> piece.auto, keep |-> At(s, k), head |-> w.head, anchor |-> At(s, a),
            replay |-> At(s, i), given |-> w.given]
    /\ i = 0 => h = Len(s) \/ (h + 1 = Len(s) /\ s[Len(s)] = p)
    /\ i # 0 => h + 1 = i \/ (h + 2 = i /\ s[i - 1] = p)
    /\ w.head \subseteq {s[j] : j \in 1..h}
    /\ \A j \in 1..h : Tells(s[j]) /\ (k = 0 \/ j < k) => s[j] \in w.head
    /\ w.given \subseteq {s[j] : j \in DOMAIN s}
    /\ i # 0 => \A j \in DOMAIN s : i <= j /\ j < Digest!PlaceOf(s, p) => s[j] \in w.given
    /\ k # 0 => \E r \in 1..k : msgs[s[r]].kind = "prompt"

Beginning(s, p, i, hist, h) ==
    /\ Len(hist) = h /\ \A j \in 1..h : hist[j] = s[j]
    /\ i = 0 => h = Len(s) \/ (h + 1 = Len(s) /\ s[Len(s)] = p)
    /\ i # 0 => h + 1 = i \/ (h + 2 = i /\ s[i - 1] = p)

\* The history that processCompaction works on is a beginning of what is shown.
LEMMA HistoryIs ==
  ASSUME NEW n \in Nat, NEW s \in Seq(1..n), NEW p, NEW o, NEW i, i = Digest!ReplayFrom(s, p, o),
         NEW input, input = IF i = 0 THEN s ELSE SubSeq(s, 1, i - 1),
         NEW hist, \/ hist = input
                   \/ /\ input # <<>> /\ input[Len(input)] = p
                      /\ hist = SubSeq(input, 1, Len(input) - 1)
  PROVE  hist \in Seq(1..n) /\ \E h \in 0..Len(s) : Beginning(s, p, i, hist, h)
<1>1. i \in 0..Len(s) /\ Len(s) \in Nat
  BY ReplayFromIs
<1>2. PICK e \in 0..Len(s) : /\ input \in Seq(1..n) /\ Len(input) = e
                             /\ \A j \in 1..e : input[j] = s[j]
                             /\ i = 0 => e = Len(s)
                             /\ i # 0 => e + 1 = i
  <2>1. CASE i = 0
    <3>1. input = s /\ Len(s) \in 0..Len(s)
      BY <1>1, <2>1
    <3> QED BY <2>1, <3>1
  <2>2. CASE i # 0
    <3>1. PICK e \in Nat : e = i - 1 /\ e <= Len(s) /\ 1 <= e + 1 /\ e + 1 = i
      <4>1. i - 1 \in Nat /\ i - 1 <= Len(s) /\ 1 <= (i - 1) + 1 /\ (i - 1) + 1 = i
        BY <1>1, <2>2
      <4> QED BY <4>1
    <3>2. /\ SubSeq(s, 1, e) \in Seq(1..n) /\ Len(SubSeq(s, 1, e)) = e - 1 + 1
          /\ \A j \in 1..(e - 1 + 1) : SubSeq(s, 1, e)[j] = s[1 + j - 1]
      <4>1. 1 \in Nat \ {0}
        OBVIOUS
      <4> QED BY <3>1, <4>1, PartOf
    <3>3. input = SubSeq(s, 1, e) /\ e - 1 + 1 = e /\ \A j \in 1..e : 1 + j - 1 = j
      BY <2>2, <3>1
    <3>4. \A j \in 1..e : input[j] = s[j]
      BY <3>2, <3>3
    <3>5. e \in 0..Len(s)
      BY <1>1, <3>1
    <3> QED BY <2>2, <3>1, <3>2, <3>3, <3>4, <3>5
  <2> QED BY <2>1, <2>2
<1>3. CASE hist = input
  BY <1>2, <1>3 DEF Beginning
<1>4. CASE input # <<>> /\ input[Len(input)] = p /\ hist = SubSeq(input, 1, Len(input) - 1)
  <2>1. input # <<>> /\ input[e] = p /\ e # 0
    <3>1. input # <<>> /\ input[Len(input)] = p
      BY <1>4
    <3>2. Len(input) # 0
      BY <1>2, <3>1
    <3> QED BY <1>2, <3>1, <3>2
  <2>2. e \in 1..e /\ e \in Nat /\ e <= Len(s)
    BY <1>1, <1>2, <2>1
  <2>3. s[e] = p
    BY <1>2, <2>1, <2>2
  <2>4. PICK h \in Nat : h = e - 1 /\ h + 1 = e /\ h <= Len(input) /\ 1 <= h + 1 /\ h \in 0..Len(s)
    <3>1. e - 1 \in Nat /\ (e - 1) + 1 = e /\ e - 1 <= e /\ 1 <= (e - 1) + 1 /\ e - 1 \in 0..Len(s)
      BY <1>1, <2>1, <2>2
    <3> QED BY <1>2, <3>1
  <2>5. /\ SubSeq(input, 1, h) \in Seq(1..n) /\ Len(SubSeq(input, 1, h)) = h - 1 + 1
        /\ \A j \in 1..(h - 1 + 1) : SubSeq(input, 1, h)[j] = input[1 + j - 1]
    <3>1. 1 \in Nat \ {0}
      OBVIOUS
    <3> QED BY <1>2, <2>4, <3>1, PartOf
  <2>6. hist = SubSeq(input, 1, h)
    BY <1>2, <1>4, <2>4
  <2>7. h - 1 + 1 = h /\ \A j \in 1..h : 1 + j - 1 = j /\ j \in 1..e
    BY <2>2, <2>4
  <2>8. hist \in Seq(1..n) /\ Len(hist) = h /\ \A j \in 1..h : hist[j] = s[j]
    BY <1>2, <2>5, <2>6, <2>7
  <2>9. i = 0 => h + 1 = Len(s) /\ s[Len(s)] = p
    BY <1>2, <2>3, <2>4
  <2>10. i # 0 => h + 2 = i /\ s[i - 1] = p
    <3> SUFFICES ASSUME i # 0 PROVE h + 2 = i /\ s[i - 1] = p
      OBVIOUS
    <3>1. e + 1 = i
      BY <1>2
    <3>2. h + 2 = i /\ i - 1 = e
      BY <1>1, <2>2, <2>4, <3>1
    <3> QED BY <2>3, <3>2
  <2>11. Beginning(s, p, i, hist, h)
    BY <2>8, <2>9, <2>10 DEF Beginning
  <2> QED BY <2>4, <2>8, <2>11
<1> QED BY <1>3, <1>4


\* Which part of a history is summed up, and where its tail begins.
LEMMA OlderIs ==
  ASSUME NEW n \in Nat, NEW hist \in Seq(1..n), NEW k \in Digest!KeepFrom(hist)
  PROVE  /\ k \in 0..Len(hist)
         /\ Digest!Older(hist, k) \subseteq {hist[j] : j \in DOMAIN hist}
         /\ \A j \in DOMAIN hist : Tells(hist[j]) /\ (k = 0 \/ j < k) => hist[j] \in Digest!Older(hist, k)
         /\ k # 0 => \E r \in 1..k : msgs[hist[r]].kind = "prompt"
<1>1. Len(hist) \in Nat /\ DOMAIN hist = 1..Len(hist) /\ Digest!Shown(hist) \subseteq 1..Len(hist)
  BY DEF Digest!Shown
<1>2. k \in 0..Len(hist) /\ (k # 0 => \E r \in 1..k : msgs[hist[r]].kind = "prompt")
  <2>1. CASE k = 0
    BY <1>1, <2>1
  <2>2. CASE k # 0
    <3>1. k \in Digest!Shown(hist) /\ Digest!RecentTurns(hist) # {} /\ k >= Digest!Least(Digest!RecentTurns(hist))
      BY <2>2 DEF Digest!KeepFrom
    <3>2. Digest!RecentTurns(hist) \subseteq {i \in Digest!Shown(hist) : msgs[hist[i]].kind = "prompt"}
      BY DEF Digest!RecentTurns
    <3>3. Digest!RecentTurns(hist) \in SUBSET Nat
      BY <1>1, <3>2
    <3>4. PICK r \in Digest!RecentTurns(hist) : r = Digest!Least(Digest!RecentTurns(hist))
      BY <3>1, <3>3, LeastOf
    <3>5. r \in 1..Len(hist) /\ msgs[hist[r]].kind = "prompt" /\ k \in 1..Len(hist) /\ k >= r
      BY <1>1, <3>1, <3>2, <3>4
    <3>6. r \in 1..k /\ k \in 0..Len(hist)
      BY <1>1, <3>5
    <3> QED BY <3>5, <3>6
  <2> QED BY <2>1, <2>2
<1>3. Digest!Older(hist, k) \subseteq {hist[j] : j \in DOMAIN hist}
  BY <1>1 DEF Digest!Older
<1>4. ASSUME NEW j \in DOMAIN hist, Tells(hist[j]), k = 0 \/ j < k
      PROVE  hist[j] \in Digest!Older(hist, k)
  <2>1. \A i \in Digest!Prior(hist) : hist[i] # hist[j] /\ msgs[hist[i]].parent # hist[j]
    <3> SUFFICES ASSUME NEW i \in Digest!Prior(hist)
                 PROVE  hist[i] # hist[j] /\ msgs[hist[i]].parent # hist[j]
      OBVIOUS
    <3>1. msgs[hist[i]].kind = "summary" /\ msgs[msgs[hist[i]].parent].kind = "compaction"
      BY DEF Digest!Prior, Digest!Sums, Digest!Asks
    <3>2. msgs[hist[j]].kind # "summary" /\ msgs[hist[j]].kind # "compaction"
      BY <1>4 DEF Tells
    <3> QED BY <3>1, <3>2
  <2>2. j \in Digest!Shown(hist)
    BY <2>1 DEF Digest!Shown
  <2> QED BY <1>4, <2>2 DEF Digest!Older
<1> QED BY <1>2, <1>3, <1>4

LEMMA GivenIs ==
  ASSUME NEW n \in Nat, NEW s \in Seq(1..n), NEW p, NEW i \in 1..Len(s), i < Digest!PlaceOf(s, p)
  PROVE  /\ Digest!Elements(SubSeq(s, i, Digest!PlaceOf(s, p) - 1)) \subseteq {s[j] : j \in DOMAIN s}
         /\ \A j \in DOMAIN s : i <= j /\ j < Digest!PlaceOf(s, p)
              => s[j] \in Digest!Elements(SubSeq(s, i, Digest!PlaceOf(s, p) - 1))
<1>1. Len(s) \in Nat /\ DOMAIN s = 1..Len(s) /\ Digest!PlaceOf(s, p) \in 1..(Len(s) + 1) /\ i \in Nat \ {0}
  BY PlaceIs
<1>2. PICK b \in Nat : b = Digest!PlaceOf(s, p) - 1 /\ b <= Len(s) /\ i <= b + 1 /\ i <= b
  <2>1. /\ Digest!PlaceOf(s, p) - 1 \in Nat /\ Digest!PlaceOf(s, p) - 1 <= Len(s) /\ i <= Digest!PlaceOf(s, p) - 1 + 1
        /\ i <= Digest!PlaceOf(s, p) - 1
    BY <1>1
  <2> QED BY <2>1
<1>3. PICK d \in Nat : d = b - i + 1
  <2>1. b - i + 1 \in Nat
    BY <1>1, <1>2
  <2> QED BY <2>1
<1>4. PICK u : u = SubSeq(s, i, b)
  OBVIOUS
<1>5. u \in Seq(1..n) /\ Len(u) = d /\ \A j \in 1..d : u[j] = s[i + j - 1]
  <2>1. /\ SubSeq(s, i, b) \in Seq(1..n) /\ Len(SubSeq(s, i, b)) = b - i + 1
        /\ \A j \in 1..(b - i + 1) : SubSeq(s, i, b)[j] = s[i + j - 1]
    <3>1. i \in Nat \ {0} /\ b \in Nat /\ b <= Len(s) /\ i <= b + 1
      BY <1>1, <1>2
    <3> QED BY <3>1, PartOf
  <2> QED BY <1>3, <1>4, <2>1
<1>6. DOMAIN u = 1..d
  BY <1>5
<1>7. ASSUME NEW j \in 1..d PROVE u[j] \in {s[m] : m \in DOMAIN s}
  <2>1. i + j - 1 \in 1..Len(s)
    BY <1>1, <1>2, <1>3
  <2> QED BY <1>1, <1>5, <2>1
<1>8. ASSUME NEW j \in DOMAIN s, i <= j, j < Digest!PlaceOf(s, p) PROVE s[j] \in Digest!Elements(u)
  <2>1. PICK m \in 1..d : i + m - 1 = j
    <3>1. j \in Nat /\ j <= b
      <4>1. PICK q \in Nat : q = Digest!PlaceOf(s, p)
        BY <1>1
      <4> QED BY <1>1, <1>2, <1>8, <4>1
    <3>2. j - i + 1 \in 1..d /\ i + (j - i + 1) - 1 = j
      <4>1. i \in Nat /\ b \in Nat /\ d \in Nat /\ j \in Nat /\ i <= j /\ j <= b /\ d = b - i + 1
        BY <1>1, <1>3, <1>8, <3>1
      <4> QED BY <4>1
    <3> QED BY <3>2
  <2> QED BY <1>5, <1>6, <2>1 DEF Digest!Elements
<1>9. Digest!Elements(u) \subseteq {s[m] : m \in DOMAIN s}
  BY <1>6, <1>7 DEF Digest!Elements
<1> QED BY <1>2, <1>4, <1>8, <1>9

LEMMA DigestIs ==
  ASSUME NEW n \in Nat, NEW s \in Seq(1..n), NEW p, NEW piece, NEW w \in Digest!Digests(s, p, piece)
  PROVE  \E i, h \in 0..Len(s) : \E k, a \in 0..h : Digested(s, p, piece, w, i, h, k, a)
<1> DEFINE i0 == Digest!ReplayFrom(s, p, piece.overflow)
           input0 == IF i0 = 0 THEN s ELSE SubSeq(s, 1, i0 - 1)
           own == Digest!Asks(p) /\ input0 # <<>> /\ input0[Len(input0)] = p
           hist0 == IF own THEN SubSeq(input0, 1, Len(input0) - 1) ELSE input0
           given0 == IF i0 = 0 THEN {} ELSE Digest!Elements(SubSeq(s, i0, Digest!PlaceOf(s, p) - 1))
           made(k) == [auto |-> piece.auto, keep |-> IF k = 0 THEN 0 ELSE hist0[k],
                       head |-> Digest!Older(hist0, k),
                       anchor |-> IF Digest!Prior(hist0) = {} THEN 0 ELSE hist0[Digest!Largest(Digest!Prior(hist0))],
                       replay |-> IF i0 = 0 THEN 0 ELSE s[i0], given |-> given0]
<1>1. Digest!Digests(s, p, piece) = {made(k) : k \in Digest!KeepFrom(hist0)}
  BY DEF Digest!Digests
<1>2. PICK k \in Digest!KeepFrom(hist0) : w = made(k)
  <2> HIDE DEF made, hist0
  <2> QED BY <1>1
<1>3. \/ hist0 = input0
      \/ /\ input0 # <<>> /\ input0[Len(input0)] = p
         /\ hist0 = SubSeq(input0, 1, Len(input0) - 1)
  <2> HIDE DEF input0
  <2> QED OBVIOUS
<1>4. PICK i, input, hist, given : i = i0 /\ input = input0 /\ hist = hist0 /\ given = given0
  <2> HIDE DEF i0, input0, hist0, given0
  <2> QED OBVIOUS
<1>5. i = Digest!ReplayFrom(s, p, piece.overflow) /\ input = IF i = 0 THEN s ELSE SubSeq(s, 1, i - 1)
  BY <1>4
<1>6. /\ k \in Digest!KeepFrom(hist)
      /\ w = [auto |-> piece.auto, keep |-> IF k = 0 THEN 0 ELSE hist[k], head |-> Digest!Older(hist, k),
              anchor |-> IF Digest!Prior(hist) = {} THEN 0 ELSE hist[Digest!Largest(Digest!Prior(hist))],
              replay |-> IF i = 0 THEN 0 ELSE s[i], given |-> given]
  <2> HIDE DEF i0, hist0, given0
  <2> QED BY <1>2, <1>4
<1>7. /\ given = IF i = 0 THEN {} ELSE Digest!Elements(SubSeq(s, i, Digest!PlaceOf(s, p) - 1))
      /\ \/ hist = input
         \/ input # <<>> /\ input[Len(input)] = p /\ hist = SubSeq(input, 1, Len(input) - 1)
  <2>1. given = IF i = 0 THEN {} ELSE Digest!Elements(SubSeq(s, i, Digest!PlaceOf(s, p) - 1))
    <3> HIDE DEF i0
    <3> QED BY <1>4
  <2>2. \/ hist = input
        \/ input # <<>> /\ input[Len(input)] = p /\ hist = SubSeq(input, 1, Len(input) - 1)
    <3> HIDE DEF input0, hist0
    <3> QED BY <1>3, <1>4
  <2> QED BY <2>1, <2>2
<1> HIDE DEF i0, input0, own, hist0, given0, made
<1>8. /\ hist \in Seq(1..n)
      /\ \E h \in 0..Len(s) : Beginning(s, p, i, hist, h)
  BY <1>5, <1>7, HistoryIs
<1>9. PICK h \in 0..Len(s) :
            /\ Len(hist) = h /\ \A j \in 1..h : hist[j] = s[j]
            /\ i = 0 => h = Len(s) \/ (h + 1 = Len(s) /\ s[Len(s)] = p)
            /\ i # 0 => h + 1 = i \/ (h + 2 = i /\ s[i - 1] = p)
  BY <1>8 DEF Beginning
<1>10. DOMAIN hist = 1..h /\ h \in Nat
  BY <1>8, <1>9
<1>11. PICK a \in 0..h : (IF Digest!Prior(hist) = {} THEN 0 ELSE hist[Digest!Largest(Digest!Prior(hist))])
                           = IF a = 0 THEN 0 ELSE s[a]
  <2>1. CASE Digest!Prior(hist) = {}
    <3>1. 0 \in 0..h
      BY <1>10
    <3> QED BY <2>1, <3>1
  <2>2. CASE Digest!Prior(hist) # {}
    <3>1. Digest!Prior(hist) \in SUBSET (0..h) /\ Digest!Prior(hist) \subseteq 1..h
      BY <1>10 DEF Digest!Prior
    <3>2. PICK a \in Digest!Prior(hist) : a = Digest!Largest(Digest!Prior(hist))
      BY <1>10, <2>2, <3>1, LargestOf
    <3>3. a \in 1..h /\ a # 0 /\ a \in 0..h
      BY <1>10, <3>1, <3>2
    <3>4. hist[a] = s[a]
      BY <1>8, <1>9, <3>3
    <3> QED BY <2>2, <3>2, <3>3, <3>4
  <2> QED BY <2>1, <2>2
<1>12. /\ k \in 0..h /\ Digest!Older(hist, k) \subseteq {hist[j] : j \in 1..h}
       /\ \A j \in 1..h : Tells(hist[j]) /\ (k = 0 \/ j < k) => hist[j] \in Digest!Older(hist, k)
       /\ k # 0 => \E r \in 1..k : msgs[hist[r]].kind = "prompt"
  BY <1>6, <1>8, <1>9, <1>10, OlderIs
<1>13. \A r \in 1..k : r \in 1..h
  BY <1>10, <1>12
<1>14. w.head = Digest!Older(hist, k) /\ w.given = given
  BY <1>6
<1>15. (IF k = 0 THEN 0 ELSE hist[k]) = IF k = 0 THEN 0 ELSE s[k]
  <2>1. k = 0 \/ k \in 1..h
    BY <1>10, <1>12
  <2> QED BY <1>8, <1>9, <2>1
<1>16. w = [auto |-> piece.auto, keep |-> IF k = 0 THEN 0 ELSE s[k], head |-> w.head,
            anchor |-> IF a = 0 THEN 0 ELSE s[a], replay |-> IF i = 0 THEN 0 ELSE s[i],
            given |-> w.given]
  BY <1>6, <1>11, <1>14, <1>15
<1>17. w.head \subseteq {s[j] : j \in 1..h}
  <2>1. {hist[j] : j \in 1..h} \subseteq {s[j] : j \in 1..h}
    BY <1>8, <1>9
  <2> QED BY <1>12, <1>14, <2>1
<1>18. \A j \in 1..h : Tells(s[j]) /\ (k = 0 \/ j < k) => s[j] \in w.head
  BY <1>8, <1>9, <1>12, <1>14
<1>19. k # 0 => \E r \in 1..k : msgs[s[r]].kind = "prompt"
  BY <1>8, <1>9, <1>12, <1>13
<1>20. i \in 0..Len(s) /\ (i # 0 => i < Digest!PlaceOf(s, p))
  BY <1>5, ReplayFromIs
<1>21. /\ w.given \subseteq {s[j] : j \in DOMAIN s}
       /\ i # 0 => \A j \in DOMAIN s : i <= j /\ j < Digest!PlaceOf(s, p) => s[j] \in w.given
  <2>1. CASE i = 0
    BY <1>7, <1>14, <2>1
  <2>2. CASE i # 0
    <3>1. i \in 1..Len(s) /\ i < Digest!PlaceOf(s, p)
      BY <1>20, <2>2
    <3> QED BY <1>7, <1>14, <2>2, <3>1, GivenIs
  <2> QED BY <2>1, <2>2
<1>22. w = [auto |-> piece.auto, keep |-> At(s, k), head |-> w.head, anchor |-> At(s, a),
            replay |-> At(s, i), given |-> w.given]
  BY <1>16 DEF At
<1>23. Digested(s, p, piece, w, i, h, k, a)
  BY <1>9, <1>17, <1>18, <1>19, <1>21, <1>22 DEF Digested
<1> QED BY <1>8, <1>9, <1>11, <1>12, <1>20, <1>23

----------------------------------------------------------------------------
\* The types of what the loop makes.
LEMMA DigestTyped ==
  ASSUME NEW n \in Nat, 1..n \subseteq Digest!Ids, NEW s \in Seq(1..n), NEW p, NEW piece,
         piece.auto \in BOOLEAN, NEW w \in Digest!Digests(s, p, piece)
  PROVE  w \in Digest!Work
<1>1. PICK i \in 0..Len(s), h \in 0..Len(s) :
        \E k, a \in 0..h : Digested(s, p, piece, w, i, h, k, a)
  BY DigestIs
<1>2. PICK k \in 0..h, a \in 0..h : Digested(s, p, piece, w, i, h, k, a)
  BY <1>1
<1>3. Len(s) \in Nat /\ h \in Nat /\ \A j \in 1..Len(s) : s[j] \in Digest!Ids
  OBVIOUS
<1>4. \A j \in 0..Len(s) : At(s, j) \in Digest!Ids \cup {0}
  BY <1>3 DEF At
<1>5. i \in 0..Len(s) /\ k \in 0..Len(s) /\ a \in 0..Len(s) /\ \A j \in 1..h : s[j] \in Digest!Ids
  BY <1>3
<1>6. w.head \subseteq Digest!Ids /\ w.given \subseteq Digest!Ids
  <2>1. w.head \subseteq {s[j] : j \in 1..h} /\ w.given \subseteq {s[j] : j \in DOMAIN s}
    BY <1>2 DEF Digested
  <2>2. {s[j] : j \in 1..h} \subseteq Digest!Ids
    BY <1>5
  <2>3. {s[j] : j \in DOMAIN s} \subseteq Digest!Ids
    BY <1>3
  <2> QED BY <2>1, <2>2, <2>3
<1>7. w = [auto |-> piece.auto, keep |-> At(s, k), head |-> w.head, anchor |-> At(s, a),
           replay |-> At(s, i), given |-> w.given]
  BY <1>2 DEF Digested
<1>8. At(s, k) \in Digest!Ids \cup {0} /\ At(s, a) \in Digest!Ids \cup {0} /\ At(s, i) \in Digest!Ids \cup {0}
  BY <1>4, <1>5
<1>9. PICK ke \in Digest!Ids \cup {0}, an \in Digest!Ids \cup {0}, re \in Digest!Ids \cup {0} :
        ke = At(s, k) /\ an = At(s, a) /\ re = At(s, i)
  BY <1>8
<1>10. w = [auto |-> piece.auto, keep |-> ke, head |-> w.head, anchor |-> an, replay |-> re,
            given |-> w.given]
  BY <1>7, <1>9
<1>11. PICK hd \in SUBSET Digest!Ids, gv \in SUBSET Digest!Ids : hd = w.head /\ gv = w.given
  BY <1>6
<1>12. w = [auto |-> piece.auto, keep |-> ke, head |-> hd, anchor |-> an, replay |-> re, given |-> gv]
  BY <1>10, <1>11
<1> QED BY <1>12 DEF Digest!Work

LEMMA NewTyped ==
  /\ \A r \in Digest!Ids \cup {0} : Digest!NewPrompt(r) \in Digest!Messages
  /\ \A b, o \in BOOLEAN : Digest!NewCompaction(b, o) \in Digest!Messages
  /\ \A p \in Digest!Ids : [kind |-> "summary", parent |-> p, fin |-> "none", error |-> FALSE] \in Digest!Messages
  /\ \A p \in Digest!Ids : [kind |-> "answer", parent |-> p, fin |-> "none", big |-> FALSE] \in Digest!Messages
  BY DEF Digest!NewPrompt, Digest!NewCompaction, Digest!Messages

LEMMA TailSet ==
  ASSUME NEW m \in Digest!Messages, m.kind = "compaction", NEW t \in Digest!Ids
  PROVE  /\ [m EXCEPT !.tail = t] \in Digest!Messages
         /\ [m EXCEPT !.tail = t].kind = "compaction" /\ [m EXCEPT !.tail = t].tail = t
  BY DEF Digest!Messages

LEMMA ChangeAt ==
  ASSUME NEW q \in Seq(Digest!Messages), NEW k \in DOMAIN q, NEW m \in Digest!Messages
  PROVE  /\ [q EXCEPT ![k] = m] \in Seq(Digest!Messages) /\ Len([q EXCEPT ![k] = m]) = Len(q)
         /\ DOMAIN [q EXCEPT ![k] = m] = DOMAIN q
         /\ [q EXCEPT ![k] = m][k] = m
         /\ \A j \in DOMAIN q : j # k => [q EXCEPT ![k] = m][j] = q[j]
  OBVIOUS

LEMMA AppendIs ==
  ASSUME NEW q \in Seq(Digest!Messages), NEW m \in Digest!Messages
  PROVE  /\ Append(q, m) \in Seq(Digest!Messages) /\ Len(Append(q, m)) = Len(q) + 1
         /\ DOMAIN Append(q, m) = 1..(Len(q) + 1)
         /\ Append(q, m)[Len(q) + 1] = m
         /\ \A j \in DOMAIN q : Append(q, m)[j] = q[j]
  OBVIOUS

LEMMA NewestIs ==
  ASSUME Digest!TypeOK, NEW kind1, \E m \in DOMAIN msgs : msgs[m].kind = kind1
  PROVE  /\ Digest!Newest(kind1) \in DOMAIN msgs /\ msgs[Digest!Newest(kind1)].kind = kind1
         /\ \A m \in DOMAIN msgs : msgs[m].kind = kind1 => m <= Digest!Newest(kind1)
<1> DEFINE those == {m \in DOMAIN msgs : msgs[m].kind = kind1}
<1>1. Digest!Newest(kind1) = Digest!Largest(those)
  BY DEF Digest!Newest
<1>2. those # {} /\ those \in SUBSET (0..Len(msgs)) /\ Len(msgs) \in Nat
  BY DEF Digest!TypeOK
<1>3. Digest!Newest(kind1) \in those /\ \A m \in those : m <= Digest!Newest(kind1)
  <2> HIDE DEF those
  <2> QED BY <1>1, <1>2, LargestOf
<1> QED BY <1>3

----------------------------------------------------------------------------
\* What a step does to the messages.  Most steps only add some and end answers.
Working ==
    /\ loopAt = "reply" => \E m \in DOMAIN msgs : msgs[m].kind = "answer"
    /\ loopAt = "digest" => \E m \in DOMAIN msgs : msgs[m].kind = "summary"

DigestTypes == Digest!TypeOK /\ Founded /\ Working /\ ParentsFirst

Grows ==
    /\ DOMAIN msgs \subseteq DOMAIN msgs'
    /\ \A m \in DOMAIN msgs : /\ msgs'[m].kind = msgs[m].kind
                              /\ Digest!Assistant(m) => msgs'[m].parent = msgs[m].parent
    /\ \A m \in DOMAIN msgs' \ DOMAIN msgs :
          /\ msgs'[m].kind = "compaction" => msgs'[m].tail = 0
          /\ msgs'[m].kind = "summary" => msgs'[m].fin = "none"
          /\ msgs'[m].kind \in {"answer", "summary"} => msgs'[m].parent < m

Extends ==
    /\ Grows
    /\ \A m \in DOMAIN msgs : /\ Digest!Asks(m) => msgs'[m].tail = msgs[m].tail
                              /\ msgs[m].kind = "summary" => msgs'[m] = msgs[m]

\* The same messages, but for how answers end.
Alike(q) ==
    /\ q \in Seq(Digest!Messages) /\ Len(q) = Len(msgs) /\ DOMAIN q = DOMAIN msgs
    /\ \A m \in DOMAIN msgs :
          /\ q[m].kind = msgs[m].kind
          /\ Digest!Assistant(m) => q[m].parent = msgs[m].parent
          /\ Digest!Asks(m) => q[m].tail = msgs[m].tail
          /\ msgs[m].kind = "summary" => q[m] = msgs[m]

LEMMA AlikeItself ==
  ASSUME Digest!TypeOK
  PROVE  Alike(msgs)
  BY DEF Digest!TypeOK, Alike

LEMMA AlikeAnswered ==
  ASSUME Digest!TypeOK, NEW k \in DOMAIN msgs, msgs[k].kind = "answer",
         NEW m \in Digest!Messages, m.kind = "answer", m.parent = msgs[k].parent,
         NEW q, q = [msgs EXCEPT ![k] = m]
  PROVE  Alike(q)
<1>1. msgs \in Seq(Digest!Messages)
  BY DEF Digest!TypeOK
<1>2. /\ q \in Seq(Digest!Messages) /\ Len(q) = Len(msgs) /\ DOMAIN q = DOMAIN msgs
      /\ q[k] = m /\ \A j \in DOMAIN msgs : j # k => q[j] = msgs[j]
  BY <1>1, ChangeAt
<1>3. ASSUME NEW j \in DOMAIN msgs
      PROVE  /\ q[j].kind = msgs[j].kind /\ (Digest!Assistant(j) => q[j].parent = msgs[j].parent)
             /\ (Digest!Asks(j) => q[j].tail = msgs[j].tail)
             /\ (msgs[j].kind = "summary" => q[j] = msgs[j])
  <2>1. CASE j = k
    BY <1>2, <2>1 DEF Digest!Asks
  <2>2. CASE j # k
    BY <1>2, <2>2
  <2> QED BY <2>1, <2>2
<1> QED BY <1>2, <1>3 DEF Alike

LEMMA AlikeExtends ==
  ASSUME Digest!TypeOK, Alike(msgs')
  PROVE  Extends /\ msgs' \in Seq(Digest!Messages) /\ Len(msgs') = Len(msgs)
  BY DEF Alike, Extends, Grows

LEMMA AppendExtends ==
  ASSUME Digest!TypeOK, NEW q, Alike(q), NEW m \in Digest!Messages, Digest!Room(1), msgs' = Append(q, m),
         m.kind = "compaction" => m.tail = 0,
         m.kind = "summary" => m.fin = "none",
         m.kind \in {"answer", "summary"} => m.parent \in 1..Len(msgs)
  PROVE  /\ Extends /\ msgs' \in Seq(Digest!Messages) /\ Len(msgs') = Len(msgs) + 1
         /\ Len(msgs') <= MaxMsgs /\ msgs'[Len(msgs) + 1] = m
         /\ DOMAIN msgs' = 1..(Len(msgs) + 1)
<1>1. PICK n \in Nat : n = Len(msgs) /\ DOMAIN msgs = 1..n
  BY DEF Digest!TypeOK
<1>2. q \in Seq(Digest!Messages) /\ Len(q) = n /\ DOMAIN q = 1..n
  BY <1>1 DEF Alike
<1>3. PICK e \in Nat : e = n + 1
  OBVIOUS
<1>4. /\ msgs' \in Seq(Digest!Messages) /\ Len(msgs') = e /\ DOMAIN msgs' = 1..e
      /\ msgs'[e] = m /\ \A j \in 1..n : msgs'[j] = q[j]
  BY <1>2, <1>3, AppendIs
<1>5. e <= MaxMsgs
  BY <1>1, <1>3 DEF Digest!Room
<1>6. 1..n \subseteq 1..e /\ \A j \in (1..e) \ (1..n) : j = e
  BY <1>3
<1>7. m.kind \in {"answer", "summary"} => m.parent < e
  BY <1>1, <1>3
<1>8. Grows
  BY <1>1, <1>4, <1>6, <1>7 DEF Grows, Alike
<1>9. Extends
  BY <1>1, <1>4, <1>8 DEF Extends, Alike
<1> QED BY <1>1, <1>3, <1>4, <1>5, <1>9

\* What of the conversation stays as it is.
LEMMA GrowsKeeps ==
  ASSUME Digest!TypeOK, Founded, ParentsFirst, Grows, msgs' \in Seq(Digest!Messages)
  PROVE  /\ msgs # <<>> => Digest!User(1)' /\ msgs' # <<>>
         /\ ParentsFirst'
         /\ \A k : (\E m \in DOMAIN msgs : msgs[m].kind = k) => \E m \in DOMAIN msgs' : msgs'[m].kind = k
<1>1. msgs # <<>> => Digest!User(1)' /\ msgs' # <<>>
  <2> SUFFICES ASSUME msgs # <<>> PROVE Digest!User(1)' /\ msgs' # <<>>
    OBVIOUS
  <2>1. 1 \in DOMAIN msgs /\ Digest!User(1)
    BY DEF Digest!TypeOK, Founded
  <2>2. 1 \in DOMAIN msgs' /\ msgs'[1].kind = msgs[1].kind
    BY <2>1 DEF Grows
  <2> QED BY <2>1, <2>2 DEF Digest!User
<1>2. ParentsFirst'
  <2> SUFFICES ASSUME NEW s \in DOMAIN msgs', msgs'[s].kind \in {"answer", "summary"}
               PROVE  msgs'[s].parent < s
    BY DEF ParentsFirst, Digest!Assistant
  <2>1. CASE s \in DOMAIN msgs
    BY <2>1 DEF Grows, ParentsFirst, Digest!Assistant
  <2>2. CASE s \notin DOMAIN msgs
    BY <2>2 DEF Grows
  <2> QED BY <2>1, <2>2
<1>3. ASSUME NEW k, \E m \in DOMAIN msgs : msgs[m].kind = k
      PROVE  \E m \in DOMAIN msgs' : msgs'[m].kind = k
  BY <1>3 DEF Grows
<1> QED BY <1>1, <1>2, <1>3

----------------------------------------------------------------------------
LEMMA TypesGo ==
  ASSUME DigestTypes, Grows, msgs' \in Seq(Digest!Messages), Len(msgs') <= MaxMsgs,
         loopAt' \in {"rest", "top", "reply", "digest"}, digest' \in Digest!Work,
         told' \subseteq Digest!Ids, gaveWay' \subseteq Digest!Ids, failed' \in BOOLEAN,
         msgs = <<>> => msgs' = <<>> \/ Digest!User(1)',
         loopAt' # "rest" => msgs # <<>>,
         loopAt' = "reply" => \E m \in DOMAIN msgs' : msgs'[m].kind = "answer",
         loopAt' = "digest" => \E m \in DOMAIN msgs' : msgs'[m].kind = "summary"
  PROVE  DigestTypes'
<1>1. Digest!TypeOK'
  BY DEF Digest!TypeOK
<1>2. (msgs # <<>> => Digest!User(1)' /\ msgs' # <<>>) /\ ParentsFirst'
  BY GrowsKeeps DEF DigestTypes
<1>3. Founded'
  BY <1>2 DEF Founded
<1>4. Working'
  BY DEF Working
<1> QED BY <1>1, <1>2, <1>3, <1>4 DEF DigestTypes

\* A message of the user's arrives, wherever the loop is.
LEMMA ArrivesStep ==
  ASSUME DigestTypes, NEW m \in Digest!Messages, m.kind \in {"prompt", "compaction"},
         m.kind = "compaction" => m.tail = 0, Digest!Arrives(m)
  PROVE  /\ DigestTypes' /\ Extends /\ DOMAIN msgs' = 1..(Len(msgs) + 1)
         /\ msgs'[Len(msgs) + 1] = m /\ UNCHANGED <<loopAt, digest, told, gaveWay, failed>>
<1>1. Digest!TypeOK /\ Alike(msgs) /\ Digest!Room(1) /\ msgs' = Append(msgs, m)
      /\ UNCHANGED <<loopAt, digest, told, gaveWay, failed>>
  BY AlikeItself DEF DigestTypes, Digest!Arrives
<1>2. /\ Extends /\ msgs' \in Seq(Digest!Messages) /\ Len(msgs') = Len(msgs) + 1
      /\ Len(msgs') <= MaxMsgs /\ msgs'[Len(msgs) + 1] = m /\ DOMAIN msgs' = 1..(Len(msgs) + 1)
  <2>1. m.kind = "summary" => m.fin = "none"
    OBVIOUS
  <2>2. m.kind \in {"answer", "summary"} => m.parent \in 1..Len(msgs)
    OBVIOUS
  <2> QED BY <1>1, <2>1, <2>2, AppendExtends
<1>3. msgs = <<>> => Digest!User(1)'
  <2> SUFFICES ASSUME msgs = <<>> PROVE Digest!User(1)'
    OBVIOUS
  <2>1. Len(msgs) + 1 = 1
    OBVIOUS
  <2> QED BY <1>2, <2>1 DEF Digest!User
<1>4. \A k : (\E j \in DOMAIN msgs : msgs[j].kind = k) => \E j \in DOMAIN msgs' : msgs'[j].kind = k
  BY <1>2, GrowsKeeps DEF DigestTypes, Extends
<1>5. DigestTypes'
  <2>1. Grows
    BY <1>2 DEF Extends
  <2>2. /\ loopAt' \in {"rest", "top", "reply", "digest"} /\ digest' \in Digest!Work
        /\ told' \subseteq Digest!Ids /\ gaveWay' \subseteq Digest!Ids /\ failed' \in BOOLEAN
    BY <1>1 DEF Digest!TypeOK
  <2>3. loopAt' # "rest" => msgs # <<>>
    BY <1>1 DEF DigestTypes, Founded
  <2>4. loopAt' = "reply" => \E j \in DOMAIN msgs' : msgs'[j].kind = "answer"
    BY <1>1, <1>4 DEF DigestTypes, Working
  <2>5. loopAt' = "digest" => \E j \in DOMAIN msgs' : msgs'[j].kind = "summary"
    BY <1>1, <1>4 DEF DigestTypes, Working
  <2> QED BY <1>2, <1>3, <2>1, <2>2, <2>3, <2>4, <2>5, TypesGo
<1> QED BY <1>1, <1>2, <1>5

\* The messages stay as they are.
LEMMA StillStep ==
  ASSUME DigestTypes, UNCHANGED <<msgs, digest, told, gaveWay, failed>>,
         loopAt' \in {"rest", "top"}, loopAt' = "top" => msgs # <<>>
  PROVE  DigestTypes' /\ Extends
<1>1. Alike(msgs')
  <2>1. Alike(msgs)
    BY AlikeItself DEF DigestTypes
  <2> QED BY <2>1
<1>2. Extends /\ Grows /\ msgs' \in Seq(Digest!Messages) /\ Len(msgs') <= MaxMsgs
  BY <1>1, AlikeExtends DEF DigestTypes, Digest!TypeOK, Extends
<1>3. /\ digest' \in Digest!Work /\ told' \subseteq Digest!Ids /\ gaveWay' \subseteq Digest!Ids /\ failed' \in BOOLEAN
      /\ (msgs = <<>> => msgs' = <<>> \/ Digest!User(1)')
  BY DEF DigestTypes, Digest!TypeOK
<1>4. DigestTypes'
  BY <1>2, <1>3, TypesGo
<1> QED BY <1>2, <1>4

\* The loop appends a message of its own.
LEMMA LoopAppends ==
  ASSUME DigestTypes, msgs # <<>>, NEW q, Alike(q), NEW m \in Digest!Messages, Digest!Room(1),
         msgs' = Append(q, m),
         m.kind = "compaction" => m.tail = 0,
         m.kind = "summary" => m.fin = "none",
         m.kind \in {"answer", "summary"} => m.parent \in 1..Len(msgs),
         digest' \in Digest!Work, UNCHANGED <<told, gaveWay, failed>>,
         loopAt' = "top" \/ (loopAt' = "reply" /\ m.kind = "answer")
                         \/ (loopAt' = "digest" /\ m.kind = "summary")
  PROVE  /\ DigestTypes' /\ Extends /\ DOMAIN msgs' = 1..(Len(msgs) + 1)
         /\ msgs'[Len(msgs) + 1] = m
<1>1. /\ Extends /\ msgs' \in Seq(Digest!Messages) /\ Len(msgs') = Len(msgs) + 1
      /\ Len(msgs') <= MaxMsgs /\ msgs'[Len(msgs) + 1] = m /\ DOMAIN msgs' = 1..(Len(msgs) + 1)
  BY AppendExtends DEF DigestTypes
<1>2. Len(msgs) + 1 \in DOMAIN msgs'
  <2>1. Len(msgs) \in Nat
    BY DEF DigestTypes, Digest!TypeOK
  <2> QED BY <1>1, <2>1
<1>3. Grows /\ told' \subseteq Digest!Ids /\ gaveWay' \subseteq Digest!Ids /\ failed' \in BOOLEAN
  BY <1>1 DEF Extends, DigestTypes, Digest!TypeOK
<1>4. loopAt' = "reply" => \E j \in DOMAIN msgs' : msgs'[j].kind = "answer"
  BY <1>1, <1>2
<1>5. loopAt' = "digest" => \E j \in DOMAIN msgs' : msgs'[j].kind = "summary"
  BY <1>1, <1>2
<1>6. loopAt' \in {"rest", "top", "reply", "digest"}
  OBVIOUS
<1>7. DigestTypes'
  BY <1>1, <1>3, <1>4, <1>5, <1>6, TypesGo
<1> QED BY <1>1, <1>7

LEMMA SeenUser ==
  ASSUME DigestTypes, msgs # <<>>
  PROVE  /\ Digest!FilterCompacted \in Seq(1..Len(msgs)) /\ Len(msgs) \in Nat /\ 1..Len(msgs) \subseteq Digest!Ids
         /\ Digest!LastUser(Digest!FilterCompacted) \in 1..Len(msgs)
<1>1. Len(msgs) \in Nat /\ MaxMsgs \in Nat /\ Len(msgs) <= MaxMsgs
  BY ComponentAssumptions DEF DigestTypes, Digest!TypeOK, Digest!ConstantAssumption
<1>2. 1..Len(msgs) \subseteq Digest!Ids
  BY <1>1 DEF Digest!Ids
<1>3. /\ Digest!FilterCompacted \in Seq(1..Len(msgs))
      /\ \E i \in DOMAIN Digest!FilterCompacted : Digest!User(Digest!FilterCompacted[i])
  BY SeenTyped DEF DigestTypes
<1>4. Digest!LastUser(Digest!FilterCompacted) \in 1..Len(msgs)
  BY <1>1, <1>3, LastUserIs
<1> QED BY <1>1, <1>2, <1>3, <1>4

\* One pass of the loop.
LEMMA StartDigestStep ==
  ASSUME DigestTypes, msgs # <<>>, Digest!Tasks(Digest!FilterCompacted) # {},
         Digest!StartDigest(Digest!FilterCompacted),
         UNCHANGED <<told, gaveWay, failed>>
  PROVE  /\ DigestTypes' /\ Extends /\ DOMAIN msgs' = 1..(Len(msgs) + 1) /\ loopAt' = "digest"
         /\ msgs'[Len(msgs) + 1] = [kind |-> "summary", parent |-> Digest!LastUser(Digest!FilterCompacted),
                                    fin |-> "none", error |-> FALSE]
         /\ \E piece : digest' \in Digest!Digests(Digest!FilterCompacted, Digest!LastUser(Digest!FilterCompacted), piece)
<1>1. PICK s \in Seq(1..Len(msgs)), p \in 1..Len(msgs) :
        s = Digest!FilterCompacted /\ p = Digest!LastUser(Digest!FilterCompacted)
  BY SeenUser
<1>2. 1..Len(msgs) \subseteq Digest!Ids /\ Len(msgs) \in Nat
  BY SeenUser
<1>3. PICK i \in Digest!Tasks(s) : i = Digest!Least(Digest!Tasks(s))
  <2>1. Digest!Tasks(s) \in SUBSET Nat
    BY DEF Digest!Tasks
  <2> QED BY <1>1, <2>1, LeastOf
<1>4. s[i] \in DOMAIN msgs /\ msgs[s[i]].kind = "compaction"
  BY <1>1, <1>3 DEF Digest!Tasks, Digest!Asks, DigestTypes, Digest!TypeOK
<1>5. msgs[s[i]].auto \in BOOLEAN
  <2>1. msgs[s[i]] \in Digest!Messages
    BY <1>4 DEF DigestTypes, Digest!TypeOK
  <2> QED BY <1>4, <2>1, MessageFields
<1>6. PICK m : m = [kind |-> "summary", parent |-> p, fin |-> "none", error |-> FALSE]
  OBVIOUS
<1>7. /\ Digest!Room(1) /\ digest' \in Digest!Digests(s, p, msgs[s[i]])
      /\ msgs' = Append(msgs, m) /\ loopAt' = "digest"
  BY <1>1, <1>3, <1>6 DEF Digest!StartDigest
<1>8. digest' \in Digest!Work
  <2>1. PICK n, piece, w : n = Len(msgs) /\ piece = msgs[s[i]] /\ w = digest'
    OBVIOUS
  <2>2. n \in Nat /\ 1..n \subseteq Digest!Ids /\ s \in Seq(1..n) /\ piece.auto \in BOOLEAN /\ w \in Digest!Digests(s, p, piece)
    BY <1>2, <1>5, <1>7, <2>1
  <2>3. w \in Digest!Work
    BY <2>2, DigestTyped
  <2> QED BY <2>1, <2>3
<1>9. m \in Digest!Messages /\ m.kind = "summary" /\ m.fin = "none" /\ m.parent \in 1..Len(msgs)
  BY <1>2, <1>6, NewTyped
<1>10. Alike(msgs)
  BY AlikeItself DEF DigestTypes
<1>11. /\ DigestTypes' /\ Extends /\ DOMAIN msgs' = 1..(Len(msgs) + 1)
       /\ msgs'[Len(msgs) + 1] = m
  BY <1>7, <1>8, <1>9, <1>10, LoopAppends
<1> QED BY <1>1, <1>6, <1>7, <1>11

LEMMA OverflowStep ==
  ASSUME DigestTypes, msgs # <<>>, loopAt = "top", Digest!Overflow, UNCHANGED <<told, gaveWay, failed>>
  PROVE  /\ DigestTypes' /\ Extends /\ DOMAIN msgs' = 1..(Len(msgs) + 1)
         /\ msgs'[Len(msgs) + 1] = Digest!NewCompaction(TRUE, FALSE) /\ loopAt' = "top"
<1>1. PICK m : m = Digest!NewCompaction(TRUE, FALSE)
  OBVIOUS
<1>2. m \in Digest!Messages /\ m.kind = "compaction" /\ m.tail = 0
  BY <1>1, NewTyped DEF Digest!NewCompaction
<1>3. Alike(msgs) /\ digest' \in Digest!Work
  BY AlikeItself DEF DigestTypes, Digest!TypeOK, Digest!Overflow
<1>4. Digest!Room(1) /\ msgs' = Append(msgs, m) /\ loopAt' = "top"
  BY <1>1 DEF Digest!Overflow
<1>5. /\ DigestTypes' /\ Extends /\ DOMAIN msgs' = 1..(Len(msgs) + 1)
      /\ msgs'[Len(msgs) + 1] = m
  BY <1>2, <1>3, <1>4, LoopAppends
<1> QED BY <1>1, <1>4, <1>5

LEMMA StartReplyStep ==
  ASSUME DigestTypes, msgs # <<>>, Digest!StartReply(Digest!FilterCompacted), UNCHANGED <<told, gaveWay,
         failed>>
  PROVE  /\ DigestTypes' /\ Extends /\ DOMAIN msgs' = 1..(Len(msgs) + 1) /\ loopAt' = "reply"
         /\ msgs'[Len(msgs) + 1].kind = "answer"
<1>1. PICK p \in 1..Len(msgs) : p = Digest!LastUser(Digest!FilterCompacted) /\ p \in Digest!Ids
  BY SeenUser
<1>2. PICK m : m = [kind |-> "answer", parent |-> p, fin |-> "none", big |-> FALSE]
  OBVIOUS
<1>3. m \in Digest!Messages /\ m.kind = "answer" /\ m.parent \in 1..Len(msgs)
  BY <1>1, <1>2, NewTyped
<1>4. Alike(msgs) /\ digest' \in Digest!Work
  BY AlikeItself DEF DigestTypes, Digest!TypeOK, Digest!StartReply
<1>5. Digest!Room(1) /\ msgs' = Append(msgs, m) /\ loopAt' = "reply"
  BY <1>1, <1>2 DEF Digest!StartReply
<1>6. /\ DigestTypes' /\ Extends /\ DOMAIN msgs' = 1..(Len(msgs) + 1)
      /\ msgs'[Len(msgs) + 1] = m
  BY <1>3, <1>4, <1>5, LoopAppends
<1> QED BY <1>3, <1>5, <1>6

----------------------------------------------------------------------------
\* The loop's calls of the model end.
LEMMA RepliesStep ==
  ASSUME DigestTypes, loopAt = "reply", Digest!Replies \/ Digest!ReplyOverflows \/ Digest!ReplyStops
  PROVE  DigestTypes' /\ Extends /\ loopAt' \in {"rest", "top"}
         /\ DOMAIN msgs' \subseteq 1..(Len(msgs) + 1)
         /\ (Len(msgs) + 1 \in DOMAIN msgs' => msgs'[Len(msgs) + 1].kind = "compaction")
         /\ UNCHANGED <<told, gaveWay, failed>>
<1>0. Digest!TypeOK /\ msgs # <<>> /\ msgs \in Seq(Digest!Messages) /\ DOMAIN msgs = 1..Len(msgs) /\ Len(msgs) \in Nat
  BY DEF DigestTypes, Founded, Digest!TypeOK
<1>1. PICK k \in DOMAIN msgs : k = Digest!Newest("answer") /\ msgs[k].kind = "answer" /\ msgs[k] \in Digest!Messages
  <2>1. \E m \in DOMAIN msgs : msgs[m].kind = "answer"
    BY DEF DigestTypes, Working
  <2> QED BY <1>0, <2>1, NewestIs
<1>2. PICK a \in Digest!Messages : a = msgs[k] /\ a.kind = "answer"
  BY <1>1
<1>3. CASE Digest!Replies
  <2>1. PICK fin1 \in {"calls", "stop"} : msgs' = [msgs EXCEPT ![Digest!Newest("answer")].fin = fin1]
    BY <1>3 DEF Digest!Replies
  <2>2. PICK m : m = [a EXCEPT !.fin = fin1]
    OBVIOUS
  <2>3. m \in Digest!Messages /\ m.kind = "answer" /\ m.parent = msgs[k].parent
    <3>1. m \in Digest!Messages /\ m.kind = "answer" /\ m.parent = a.parent
      BY <1>2, <2>2 DEF Digest!Messages
    <3> QED BY <1>2, <3>1
  <2>4. msgs' = [msgs EXCEPT ![k] = m]
    BY <1>1, <1>2, <2>1, <2>2
  <2>5. Alike(msgs')
    BY <1>0, <1>1, <2>3, <2>4, AlikeAnswered
  <2>6. Extends /\ msgs' \in Seq(Digest!Messages) /\ Len(msgs') = Len(msgs) /\ DOMAIN msgs' = 1..Len(msgs)
    BY <1>0, <2>5, AlikeExtends
  <2>7. /\ loopAt' = "top" /\ UNCHANGED <<digest, told, gaveWay, failed>>
    BY <1>3 DEF Digest!Replies
  <2>8. /\ digest' \in Digest!Work /\ told' \subseteq Digest!Ids /\ gaveWay' \subseteq Digest!Ids /\ failed' \in BOOLEAN
        /\ Len(msgs') <= MaxMsgs /\ Grows
    BY <1>0, <2>6, <2>7 DEF Digest!TypeOK, Extends
  <2>9. DigestTypes'
    BY <1>0, <2>6, <2>7, <2>8, TypesGo
  <2>10. Len(msgs) + 1 \notin DOMAIN msgs' /\ DOMAIN msgs' \subseteq 1..(Len(msgs) + 1)
    BY <1>0, <2>6
  <2> QED BY <2>6, <2>7, <2>9, <2>10
<1>4. CASE Digest!ReplyOverflows
  <2>1. PICK fin1 \in {"none", "calls", "stop"} :
          msgs' = Append([msgs EXCEPT ![Digest!Newest("answer")].fin = fin1,
                                      ![Digest!Newest("answer")].big = fin1 # "none"],
                         Digest!NewCompaction(TRUE, fin1 = "none"))
    BY <1>4 DEF Digest!ReplyOverflows
  <2>2. PICK b \in BOOLEAN, o \in BOOLEAN : b = (fin1 # "none") /\ o = (fin1 = "none")
    OBVIOUS
  <2>3. PICK m, q, c : /\ m = [a EXCEPT !.fin = fin1, !.big = b]
                       /\ q = [msgs EXCEPT ![k] = m] /\ c = Digest!NewCompaction(TRUE, o)
    OBVIOUS
  <2>4. m \in Digest!Messages /\ m.kind = "answer" /\ m.parent = msgs[k].parent
    <3>1. m \in Digest!Messages /\ m.kind = "answer" /\ m.parent = a.parent
      <4>1. m = [a EXCEPT !.fin = fin1, !.big = b]
        BY <2>3
      <4> QED BY <1>2, <4>1 DEF Digest!Messages
    <3> QED BY <1>2, <3>1
  <2>5. Alike(q)
    BY <1>0, <1>1, <2>3, <2>4, AlikeAnswered
  <2>6. msgs' = Append(q, c)
    BY <1>0, <1>1, <1>2, <2>1, <2>2, <2>3
  <2>7. c \in Digest!Messages /\ c.kind = "compaction" /\ c.tail = 0
    BY <2>3, NewTyped DEF Digest!NewCompaction
  <2>8. /\ loopAt' = "top" /\ Digest!Room(1) /\ UNCHANGED <<digest, told, gaveWay, failed>>
    BY <1>4 DEF Digest!ReplyOverflows
  <2>9. digest' \in Digest!Work
    BY <1>0, <2>8 DEF Digest!TypeOK
  <2>10. /\ DigestTypes' /\ Extends /\ DOMAIN msgs' = 1..(Len(msgs) + 1)
         /\ msgs'[Len(msgs) + 1] = c
    BY <1>0, <2>5, <2>6, <2>7, <2>8, <2>9, LoopAppends
  <2> QED BY <2>7, <2>8, <2>10
<1>5. CASE Digest!ReplyStops
  <2>1. loopAt' = "rest" /\ UNCHANGED <<msgs, digest, told, gaveWay, failed>>
    BY <1>5 DEF Digest!ReplyStops
  <2>2. DigestTypes' /\ Extends
    BY <2>1, StillStep
  <2>3. Len(msgs) + 1 \notin DOMAIN msgs /\ DOMAIN msgs \subseteq 1..(Len(msgs) + 1)
    BY <1>0
  <2> QED BY <2>1, <2>2, <2>3
<1> QED BY <1>3, <1>4, <1>5

\* The summary that a compaction makes, s, and the message that it answers, p.
AtWork(s, p) ==
    /\ s = Digest!Newest("summary") /\ s \in DOMAIN msgs /\ msgs[s].kind = "summary"
    /\ p = msgs[s].parent /\ p \in DOMAIN msgs /\ p < s

LEMMA SomeWork ==
  ASSUME DigestTypes, loopAt = "digest"
  PROVE  \E s, p \in DOMAIN msgs : AtWork(s, p)
<1>1. Digest!TypeOK /\ \E m \in DOMAIN msgs : msgs[m].kind = "summary"
  BY DEF DigestTypes, Working
<1>2. PICK s \in DOMAIN msgs : s = Digest!Newest("summary") /\ msgs[s].kind = "summary"
  BY <1>1, NewestIs
<1>3. msgs[s] \in Digest!Messages /\ s \in 1..Len(msgs) /\ DOMAIN msgs = 1..Len(msgs) /\ Len(msgs) \in Nat
  BY <1>1 DEF Digest!TypeOK
<1>4. msgs[s].parent \in Digest!Ids /\ msgs[s].parent < s
  BY <1>2, <1>3, MessageFields DEF DigestTypes, ParentsFirst, Digest!Assistant
<1>5. PICK p \in Digest!Ids : p = msgs[s].parent
  BY <1>4
<1>6. p \in DOMAIN msgs
  BY <1>3, <1>4, <1>5, ComponentAssumptions DEF Digest!Ids, Digest!ConstantAssumption
<1> QED BY <1>2, <1>4, <1>5, <1>6 DEF AtWork

\* The compaction p bears the tail k from now on, if it is one and k is a tail.
Bears(q, r, p, k) ==
    /\ r \in Seq(Digest!Messages) /\ Len(r) = Len(q) /\ DOMAIN r = DOMAIN q
    /\ \A j \in DOMAIN q : j # p => r[j] = q[j]
    /\ IF q[p].kind = "compaction" /\ k # 0
       THEN r[p].kind = "compaction" /\ r[p].tail = k ELSE r[p] = q[p]

LEMMA EndedIs ==
  ASSUME Digest!TypeOK, NEW s, NEW p, AtWork(s, p), NEW f \in {"none", "stop"}, NEW b \in BOOLEAN
  PROVE  /\ Digest!Ended(f, b) \in Seq(Digest!Messages) /\ Len(Digest!Ended(f, b)) = Len(msgs)
         /\ DOMAIN Digest!Ended(f, b) = DOMAIN msgs
         /\ \A j \in DOMAIN msgs : j # s => Digest!Ended(f, b)[j] = msgs[j]
         /\ Digest!Ended(f, b)[s].kind = "summary" /\ Digest!Ended(f, b)[s].parent = p
         /\ Digest!Ended(f, b)[s].fin = f /\ Digest!Ended(f, b)[s].error = b
<1>1. s \in DOMAIN msgs /\ msgs[s] \in Digest!Messages /\ msgs[s].kind = "summary" /\ msgs \in Seq(Digest!Messages)
  BY DEF AtWork, Digest!TypeOK
<1>2. PICK a \in Digest!Messages : a = msgs[s] /\ a.kind = "summary"
  BY <1>1
<1>3. PICK m : m = [a EXCEPT !.fin = f, !.error = b]
  OBVIOUS
<1>4. m \in Digest!Messages /\ m.kind = "summary" /\ m.parent = p /\ m.fin = f /\ m.error = b
  <2>1. m \in Digest!Messages /\ m.kind = "summary" /\ m.parent = a.parent /\ m.fin = f /\ m.error = b
    BY <1>3, <1>2 DEF Digest!Messages
  <2> QED BY <1>2, <2>1 DEF AtWork
<1>5. Digest!Ended(f, b) = [msgs EXCEPT ![s] = m]
  BY <1>1, <1>3, <1>2 DEF Digest!Ended, AtWork
<1>6. /\ [msgs EXCEPT ![s] = m] \in Seq(Digest!Messages) /\ Len([msgs EXCEPT ![s] = m]) = Len(msgs)
      /\ DOMAIN [msgs EXCEPT ![s] = m] = DOMAIN msgs
      /\ [msgs EXCEPT ![s] = m][s] = m
      /\ \A j \in DOMAIN msgs : j # s => [msgs EXCEPT ![s] = m][j] = msgs[j]
  BY <1>1, <1>4, ChangeAt
<1> QED BY <1>4, <1>5, <1>6

LEMMA TailedIs ==
  ASSUME Digest!TypeOK, NEW s, NEW p, AtWork(s, p),
         NEW q \in Seq(Digest!Messages), Len(q) = Len(msgs), q[s].parent = p, q[p] = msgs[p]
  PROVE  Bears(q, Digest!Tailed(q), p, digest.keep)
<1>1. p \in DOMAIN q /\ q[p] \in Digest!Messages /\ DOMAIN q = DOMAIN msgs
  BY DEF AtWork, Digest!TypeOK
<1>2. Digest!Tailed(q) = IF q[p].kind = "compaction" /\ digest.keep # 0
                  THEN [q EXCEPT ![p].tail = digest.keep] ELSE q
  BY DEF Digest!Tailed, Digest!Asks, AtWork
<1>3. CASE q[p].kind = "compaction" /\ digest.keep # 0
  <2>1. PICK k \in Digest!Ids : k = digest.keep
    BY <1>3 DEF Digest!TypeOK, Digest!Work
  <2>2. PICK m : m = [q[p] EXCEPT !.tail = k]
    OBVIOUS
  <2>3. m \in Digest!Messages /\ m.kind = "compaction" /\ m.tail = k
    BY <1>1, <1>3, <2>2, TailSet
  <2>4. PICK r : r = Digest!Tailed(q)
    OBVIOUS
  <2>5. r = [q EXCEPT ![p] = m]
    BY <1>1, <1>2, <1>3, <2>1, <2>2, <2>4
  <2>6. /\ r \in Seq(Digest!Messages) /\ Len(r) = Len(q) /\ DOMAIN r = DOMAIN q
        /\ r[p] = m /\ \A j \in DOMAIN q : j # p => r[j] = q[j]
    BY <1>1, <2>3, <2>5, ChangeAt
  <2> QED BY <1>3, <2>1, <2>3, <2>4, <2>6 DEF Bears
<1>4. CASE ~(q[p].kind = "compaction" /\ digest.keep # 0)
  BY <1>1, <1>2, <1>4 DEF Bears
<1> QED BY <1>3, <1>4

----------------------------------------------------------------------------
\* The summary s has ended, with its tail recorded or not, and a prompt may
\* follow.
EndsWith(q, s, p, f, b) ==
    /\ q \in Seq(Digest!Messages) /\ Len(q) = Len(msgs) /\ DOMAIN q = DOMAIN msgs
    /\ \A j \in DOMAIN msgs : j # s /\ j # p => q[j] = msgs[j]
    /\ q[s].kind = "summary" /\ q[s].parent = p /\ q[s].fin = f /\ q[s].error = b
    /\ q[p].kind = msgs[p].kind
    /\ Digest!Assistant(p) => q[p].parent = msgs[p].parent

TailBorne(q, p) ==
    IF Digest!Asks(p) /\ digest.keep # 0 THEN q[p].tail = digest.keep ELSE q[p] = msgs[p]

LEMMA EndedEnds ==
  ASSUME DigestTypes, NEW s, NEW p, AtWork(s, p), NEW f \in {"none", "stop"}, NEW b \in BOOLEAN
  PROVE  EndsWith(Digest!Ended(f, b), s, p, f, b) /\ Digest!Ended(f, b)[p] = msgs[p]
<1>1. Digest!TypeOK /\ p \in DOMAIN msgs /\ s \in DOMAIN msgs /\ p # s
  BY DEF DigestTypes, AtWork, Digest!TypeOK
<1>2. /\ Digest!Ended(f, b) \in Seq(Digest!Messages) /\ Len(Digest!Ended(f, b)) = Len(msgs)
      /\ DOMAIN Digest!Ended(f, b) = DOMAIN msgs
      /\ \A j \in DOMAIN msgs : j # s => Digest!Ended(f, b)[j] = msgs[j]
      /\ Digest!Ended(f, b)[s].kind = "summary" /\ Digest!Ended(f, b)[s].parent = p
      /\ Digest!Ended(f, b)[s].fin = f /\ Digest!Ended(f, b)[s].error = b
  BY <1>1, EndedIs
<1>3. Digest!Ended(f, b)[p] = msgs[p]
  BY <1>1, <1>2
<1> QED BY <1>2, <1>3 DEF EndsWith

LEMMA TailedEnds ==
  ASSUME DigestTypes, NEW s, NEW p, AtWork(s, p), NEW f \in {"none", "stop"}, NEW b \in BOOLEAN
  PROVE  EndsWith(Digest!Tailed(Digest!Ended(f, b)), s, p, f, b) /\ TailBorne(Digest!Tailed(Digest!Ended(f, b)), p)
<1>1. Digest!TypeOK /\ p \in DOMAIN msgs /\ s \in DOMAIN msgs /\ p # s
  BY DEF DigestTypes, AtWork, Digest!TypeOK
<1>2. PICK q : q = Digest!Ended(f, b)
  OBVIOUS
<1>3. EndsWith(q, s, p, f, b) /\ q[p] = msgs[p]
  BY <1>2, EndedEnds
<1>4. PICK r : r = Digest!Tailed(q)
  OBVIOUS
<1>5. Bears(q, r, p, digest.keep)
  BY <1>1, <1>3, <1>4, TailedIs DEF EndsWith
<1>6. /\ r \in Seq(Digest!Messages) /\ Len(r) = Len(msgs) /\ DOMAIN r = DOMAIN msgs
      /\ \A j \in DOMAIN msgs : j # p => r[j] = q[j]
  BY <1>3, <1>5 DEF Bears, EndsWith
<1>7. r[s] = q[s]
  BY <1>1, <1>6
<1>8. r[p].kind = msgs[p].kind /\ (Digest!Assistant(p) => r[p].parent = msgs[p].parent) /\ TailBorne(r, p)
  <2>1. CASE q[p].kind = "compaction" /\ digest.keep # 0
    BY <1>3, <1>5, <2>1 DEF Bears, TailBorne, Digest!Asks, Digest!Assistant
  <2>2. CASE ~(q[p].kind = "compaction" /\ digest.keep # 0)
    BY <1>3, <1>5, <2>2 DEF Bears, TailBorne, Digest!Asks, Digest!Assistant
  <2> QED BY <2>1, <2>2
<1>9. EndsWith(r, s, p, f, b)
  BY <1>3, <1>6, <1>7, <1>8 DEF EndsWith
<1> QED BY <1>2, <1>4, <1>8, <1>9

\* The messages after q, with a prompt of the loop behind it or not.
Followed(q) ==
    /\ msgs' \in Seq(Digest!Messages) /\ Len(msgs') <= MaxMsgs
    /\ DOMAIN msgs' \subseteq 1..(Len(msgs) + 1)
    /\ \A j \in DOMAIN msgs : j \in DOMAIN msgs' /\ msgs'[j] = q[j]
    /\ \A j \in DOMAIN msgs' \ DOMAIN msgs : msgs'[j].kind = "prompt"

LEMMA FollowedByNone ==
  ASSUME DigestTypes, NEW q \in Seq(Digest!Messages), Len(q) = Len(msgs), DOMAIN q = DOMAIN msgs, msgs' = q
  PROVE  Followed(q)
  BY DEF Followed, DigestTypes, Digest!TypeOK

LEMMA FollowedByPrompt ==
  ASSUME DigestTypes, NEW q \in Seq(Digest!Messages), Len(q) = Len(msgs), DOMAIN q = DOMAIN msgs,
         NEW f \in Digest!Followups, Digest!Room(Len(f)), msgs' = q \o f
  PROVE  Followed(q)
<1>0. Len(msgs) \in Nat /\ DOMAIN msgs = 1..Len(msgs) /\ Len(q) = Len(msgs)
  BY DEF DigestTypes, Digest!TypeOK
<1>1. PICK n \in Nat : n = Len(msgs) /\ DOMAIN msgs = 1..n /\ Len(q) = n
  BY <1>0
<1>2. f = <<>> \/ \E x \in Digest!Ids \cup {0} : f = <<Digest!NewPrompt(x)>>
  BY DEF Digest!Followups, DigestTypes, Digest!TypeOK, Digest!Work
<1>3. CASE f = <<>>
  <2>1. q \o <<>> = q
    BY ConcatEmptySeq
  <2> QED BY <1>3, <2>1, FollowedByNone
<1>4. ASSUME NEW x \in Digest!Ids \cup {0}, f = <<Digest!NewPrompt(x)>> PROVE Followed(q)
  <2>1. PICK m \in Digest!Messages : m = Digest!NewPrompt(x) /\ m.kind = "prompt"
    BY NewTyped DEF Digest!NewPrompt
  <2>2. f = <<m>> /\ Len(f) = 1
    BY <1>4, <2>1
  <2>3. msgs' = Append(q, m)
    BY <2>2
  <2>4. n + 1 <= MaxMsgs
    BY <1>1, <2>2 DEF Digest!Room
  <2>5. /\ msgs' \in Seq(Digest!Messages) /\ Len(msgs') = n + 1 /\ DOMAIN msgs' = 1..(n + 1)
        /\ msgs'[n + 1] = m /\ \A j \in DOMAIN q : msgs'[j] = q[j]
    BY <1>1, <2>3, AppendIs
  <2>6. 1..n \subseteq 1..(n + 1) /\ \A j \in (1..(n + 1)) \ (1..n) : j = n + 1
    OBVIOUS
  <2> QED BY <1>1, <2>1, <2>4, <2>5, <2>6 DEF Followed
<1> QED BY <1>2, <1>3, <1>4

LEMMA EndTypes ==
  ASSUME DigestTypes, loopAt = "digest", NEW s, NEW p, AtWork(s, p), NEW q, NEW f, NEW b,
         EndsWith(q, s, p, f, b), Followed(q), loopAt' \in {"rest", "top"}, digest' = Digest!NoWork,
         told' \subseteq Digest!Ids, gaveWay' \subseteq Digest!Ids, failed' \in BOOLEAN
  PROVE  DigestTypes' /\ Grows
<1>1. msgs # <<>>
  BY DEF DigestTypes, Founded
<1>2. \A m \in DOMAIN msgs : /\ q[m].kind = msgs[m].kind
                             /\ Digest!Assistant(m) => q[m].parent = msgs[m].parent
  BY DEF EndsWith, AtWork
<1>3. Grows
  BY <1>2 DEF Grows, Followed
<1>4. digest' \in Digest!Work
  BY DEF Digest!NoWork, Digest!Work
<1>5. msgs' \in Seq(Digest!Messages) /\ Len(msgs') <= MaxMsgs
  BY DEF Followed
<1>6. DigestTypes'
  BY <1>1, <1>3, <1>4, <1>5, TypesGo
<1> QED BY <1>3, <1>6

\* How a compaction ends: with its summary, with one that counts for nothing
\* because it was too large, or without one.
LEMMA DigestReturnsStep ==
  ASSUME DigestTypes, Digest!DigestReturns
  PROVE  /\ DigestTypes' /\ Grows
         /\ \E s, p \in DOMAIN msgs : \E q : /\ AtWork(s, p) /\ EndsWith(q, s, p, "stop", FALSE)
                                             /\ TailBorne(q, p) /\ Followed(q)
<1>1. loopAt = "digest"
  BY DEF Digest!DigestReturns
<1>2. PICK s \in DOMAIN msgs, p \in DOMAIN msgs : AtWork(s, p)
  BY <1>1, SomeWork
<1>3. PICK q : q = Digest!Tailed(Digest!Ended("stop", FALSE))
  OBVIOUS
<1>4. EndsWith(q, s, p, "stop", FALSE) /\ TailBorne(q, p)
  BY <1>2, <1>3, TailedEnds
<1>5. PICK f \in Digest!Followups : Digest!Room(Len(f)) /\ msgs' = q \o f
  BY <1>3 DEF Digest!DigestReturns
<1>6. Followed(q)
  BY <1>4, <1>5, FollowedByPrompt DEF EndsWith
<1>7. /\ loopAt' \in {"rest", "top"} /\ digest' = Digest!NoWork /\ told' \subseteq Digest!Ids /\ gaveWay' \subseteq Digest!Ids
      /\ failed' \in BOOLEAN
  BY DEF Digest!DigestReturns, DigestTypes, Digest!TypeOK, Digest!Work
<1>8. DigestTypes' /\ Grows
  BY <1>1, <1>2, <1>4, <1>6, <1>7, EndTypes
<1> QED BY <1>2, <1>4, <1>6, <1>8

LEMMA DigestStopsStep ==
  ASSUME DigestTypes, Digest!DigestOverflows \/ Digest!DigestInterrupted
  PROVE  /\ DigestTypes' /\ Grows /\ loopAt' = "rest" /\ UNCHANGED <<told, gaveWay, failed>>
         /\ \E s, p \in DOMAIN msgs : \E q, f : /\ AtWork(s, p) /\ EndsWith(q, s, p, f, TRUE)
                                                /\ q[p] = msgs[p] /\ msgs' = q
<1>1. loopAt = "digest"
  BY DEF Digest!DigestOverflows, Digest!DigestInterrupted
<1>2. PICK s \in DOMAIN msgs, p \in DOMAIN msgs : AtWork(s, p)
  BY <1>1, SomeWork
<1>3. PICK f \in {"none", "stop"} : msgs' = Digest!Ended(f, TRUE)
  BY DEF Digest!DigestOverflows, Digest!DigestInterrupted
<1>4. EndsWith(msgs', s, p, f, TRUE) /\ msgs'[p] = msgs[p]
  BY <1>2, <1>3, EndedEnds
<1>5. PICK q : q = msgs'
  OBVIOUS
<1>6. EndsWith(q, s, p, f, TRUE) /\ q[p] = msgs[p]
  BY <1>4, <1>5
<1>7. Followed(q)
  BY <1>5, <1>6, FollowedByNone DEF EndsWith
<1>8. loopAt' = "rest" /\ digest' = Digest!NoWork /\ UNCHANGED <<told, gaveWay, failed>>
  BY DEF Digest!DigestOverflows, Digest!DigestInterrupted
<1>9. told' \subseteq Digest!Ids /\ gaveWay' \subseteq Digest!Ids /\ failed' \in BOOLEAN
  BY <1>8 DEF DigestTypes, Digest!TypeOK
<1>10. DigestTypes' /\ Grows
  BY <1>1, <1>2, <1>6, <1>7, <1>8, <1>9, EndTypes
<1> QED BY <1>2, <1>5, <1>6, <1>8, <1>10

LEMMA DigestFailsStep ==
  ASSUME DigestTypes, Digest!DigestFails
  PROVE  DigestTypes' /\ failed'
<1>1. loopAt = "digest"
  BY DEF Digest!DigestFails
<1>2. PICK s \in DOMAIN msgs, p \in DOMAIN msgs : AtWork(s, p)
  BY <1>1, SomeWork
<1>3. PICK q : q = Digest!Tailed(Digest!Ended("none", TRUE))
  OBVIOUS
<1>4. EndsWith(q, s, p, "none", TRUE) /\ msgs' = q
  BY <1>2, <1>3, TailedEnds DEF Digest!DigestFails
<1>5. Followed(q)
  BY <1>4, FollowedByNone DEF EndsWith
<1>6. /\ loopAt' \in {"rest", "top"} /\ digest' = Digest!NoWork /\ told' \subseteq Digest!Ids /\ gaveWay' \subseteq Digest!Ids
      /\ failed' = TRUE
  BY DEF Digest!DigestFails, DigestTypes, Digest!TypeOK
<1>7. failed' \in BOOLEAN
  BY <1>6
<1>8. DigestTypes'
  BY <1>1, <1>2, <1>4, <1>5, <1>6, <1>7, EndTypes
<1> QED BY <1>6, <1>8

----------------------------------------------------------------------------
LEMMA InitTypes == Digest!Init => DigestTypes
<1> SUFFICES ASSUME Digest!Init PROVE DigestTypes
  OBVIOUS
<1>1. MaxMsgs \in Nat
  BY ComponentAssumptions DEF Digest!ConstantAssumption
<1>2. Digest!NoWork \in Digest!Work
  BY DEF Digest!NoWork, Digest!Work
<1>3. Digest!TypeOK
  <2>1. msgs = <<>> /\ loopAt = "rest" /\ digest \in Digest!Work /\ told = {} /\ gaveWay = {} /\ failed = FALSE
    BY <1>2 DEF Digest!Init
  <2>2. msgs \in Seq(Digest!Messages) /\ Len(msgs) <= MaxMsgs
    BY <1>1, <2>1
  <2>3. loopAt \in {"rest", "top", "reply", "digest"} /\ told \subseteq Digest!Ids /\ gaveWay \subseteq Digest!Ids
        /\ failed \in BOOLEAN
    BY <2>1
  <2> QED BY <2>1, <2>2, <2>3 DEF Digest!TypeOK
<1>4. Founded /\ Working /\ ParentsFirst
  BY DEF Digest!Init, Founded, Working, ParentsFirst
<1> QED BY <1>3, <1>4 DEF DigestTypes

LEMMA PromptStep ==
  ASSUME DigestTypes, Digest!Prompt \/ Digest!Summarize
  PROVE  \E m \in Digest!Messages : /\ m.kind \in {"prompt", "compaction"} /\ (m.kind = "compaction" => m.tail = 0)
                             /\ Digest!Arrives(m)
<1>1. CASE Digest!Prompt
  <2>1. Digest!NewPrompt(0) \in Digest!Messages /\ Digest!NewPrompt(0).kind = "prompt"
    <3>1. 0 \in Digest!Ids \cup {0}
      OBVIOUS
    <3> QED BY <3>1, NewTyped DEF Digest!NewPrompt
  <2>2. PICK m \in Digest!Messages : m = Digest!NewPrompt(0) /\ m.kind = "prompt"
    BY <2>1
  <2> QED BY <1>1, <2>2 DEF Digest!Prompt
<1>2. CASE Digest!Summarize
  <2>1. PICK m \in Digest!Messages : m = Digest!NewCompaction(FALSE, FALSE) /\ m.kind = "compaction" /\ m.tail = 0
    BY NewTyped DEF Digest!NewCompaction
  <2> QED BY <1>2, <2>1 DEF Digest!Summarize
<1> QED BY <1>1, <1>2

LEMMA TopStep ==
  ASSUME DigestTypes, Digest!Top
  PROVE  DigestTypes' /\ Extends
<1>1. loopAt = "top" /\ msgs # <<>> /\ UNCHANGED <<told, gaveWay, failed>>
  BY DEF Digest!Top, DigestTypes, Founded
<1>2. CASE Digest!Exit(Digest!FilterCompacted)
  <2>1. UNCHANGED <<msgs, digest, told, gaveWay, failed>> /\ loopAt' \in {"rest", "top"}
    BY <1>1, <1>2 DEF Digest!Exit
  <2> QED BY <1>1, <2>1, StillStep
<1>3. CASE Digest!Tasks(Digest!FilterCompacted) # {} /\ Digest!StartDigest(Digest!FilterCompacted)
  BY <1>1, <1>3, StartDigestStep
<1>4. CASE Digest!Overflow
  BY <1>1, <1>4, OverflowStep
<1>5. CASE Digest!StartReply(Digest!FilterCompacted)
  BY <1>1, <1>5, StartReplyStep
<1> QED BY <1>2, <1>3, <1>4, <1>5 DEF Digest!Top

LEMMA DigestTypesStep == DigestTypes /\ [Digest!Next]_(Digest!vars) => DigestTypes'
<1> SUFFICES ASSUME DigestTypes, [Digest!Next]_(Digest!vars) PROVE DigestTypes'
  OBVIOUS
<1>1. CASE Digest!Prompt \/ Digest!Summarize
  BY <1>1, PromptStep, ArrivesStep
<1>2. CASE Digest!Loop
  <2>1. UNCHANGED <<msgs, digest, told, gaveWay, failed>> /\ loopAt' \in {"rest", "top"} /\ msgs # <<>>
    BY <1>2 DEF Digest!Loop
  <2> QED BY <2>1, StillStep
<1>3. CASE Digest!Top
  BY <1>3, TopStep
<1>4. CASE Digest!Replies \/ Digest!ReplyOverflows \/ Digest!ReplyStops
  <2>1. loopAt = "reply"
    BY <1>4 DEF Digest!Replies, Digest!ReplyOverflows, Digest!ReplyStops
  <2> QED BY <1>4, <2>1, RepliesStep
<1>5. CASE Digest!DigestReturns
  BY <1>5, DigestReturnsStep
<1>6. CASE Digest!DigestOverflows \/ Digest!DigestInterrupted
  BY <1>6, DigestStopsStep
<1>7. CASE Digest!DigestFails
  BY <1>7, DigestFailsStep
<1>8. CASE UNCHANGED Digest!vars
  <2>1. UNCHANGED <<msgs, loopAt, digest, told, gaveWay, failed>>
    BY <1>8 DEF Digest!vars
  <2>2. Digest!TypeOK' /\ Founded' /\ Working' /\ ParentsFirst'
    BY <2>1 DEF DigestTypes, Digest!TypeOK, Founded, Digest!User, Working, ParentsFirst, Digest!Assistant
  <2> QED BY <2>2 DEF DigestTypes
<1> QED BY <1>1, <1>2, <1>3, <1>4, <1>5, <1>6, <1>7, <1>8 DEF Digest!Next

----------------------------------------------------------------------------
\* While no summary has failed: what lies before the boundary has been told, and
\* a compaction at work will tell what its own boundary leaves out.
Covered == \A m \in DOMAIN msgs : m < Digest!Boundary /\ Tells(m) => m \in told \cup gaveWay

NewBoundary(p) == IF digest.keep = 0 THEN p ELSE IF digest.keep <= p THEN digest.keep ELSE 1

WillTell(p) ==
    \A m \in DOMAIN msgs : m < NewBoundary(p) /\ Tells(m)
        => m \in told \cup gaveWay \cup digest.head \cup digest.given

Prepared(s, p) ==
    /\ ~Digest!Sums(s)
    /\ Digest!Asks(p) => \/ \E d \in Summed : p < d
                  \/ /\ \A d \in Summed : d < p
                     /\ p + 1 \in DOMAIN msgs /\ Digest!Assistant(p + 1)
                     /\ WillTell(p)

LastSummary(s) ==
    /\ msgs[s].kind = "summary"
    /\ \A m \in DOMAIN msgs : msgs[m].kind = "summary" => m <= s

AtDigest == loopAt = "digest" => \A s \in DOMAIN msgs : LastSummary(s) => Prepared(s, msgs[s].parent)

DigestSafe == Settled /\ Covered /\ AtDigest

DigestIInv == DigestTypes /\ (~failed => DigestSafe)

LEMMA DigestInvGives == DigestIInv => Digest!NothingFallsBetween
<1> SUFFICES ASSUME DigestIInv, ~failed, NEW m \in DOMAIN msgs, Tells(m)
             PROVE  m \in Digest!Elements(Digest!FilterCompacted) \cup told \cup gaveWay
  BY DEF Digest!NothingFallsBetween, Tells
<1>1. Digest!TypeOK /\ Founded /\ Settled /\ Covered /\ msgs # <<>> /\ m \in 1..Len(msgs) /\ Len(msgs) \in Nat
  BY DEF DigestIInv, DigestTypes, DigestSafe, Digest!TypeOK
<1>2. CASE m < Digest!Boundary
  BY <1>1, <1>2 DEF Covered
<1>3. CASE ~(m < Digest!Boundary)
  <2>1. Digest!Boundary \in 1..Len(msgs)
    BY <1>1, BoundaryInside
  <2>2. m \in Digest!Boundary..Len(msgs)
    BY <1>1, <1>3, <2>1
  <2>3. Complete(Digest!FilterCompacted)
    BY <1>1, SeenOrderly DEF Orderly
  <2> QED BY <2>2, <2>3 DEF Complete, Digest!Elements
<1> QED BY <1>2, <1>3

\* How the boundary and what is settled about it go on.
LEMMA BoundaryStays ==
  ASSUME Digest!TypeOK, Digest!TypeOK', Summed' = Summed,
         \A c \in Summed : msgs'[c].tail = msgs[c].tail
  PROVE  Digest!Boundary' = Digest!Boundary
<1>1. BoundaryFits /\ BoundaryFits'
  <2>1. BoundaryFits
    BY BoundaryIs
  <2>2. BoundaryFits'
    BY BoundaryIs, PTL
  <2> QED BY <2>1, <2>2
<1>2. CASE Summed = {}
  BY <1>1, <1>2 DEF BoundaryFits
<1>3. CASE Summed # {}
  <2>1. PICK c \in Summed : Newer(Summed, c)
    BY <1>3, NewestSummed
  <2>2. Digest!Boundary = IF msgs[c].tail = 0 THEN c ELSE IF msgs[c].tail <= c THEN msgs[c].tail ELSE 1
    BY <1>1, <2>1 DEF BoundaryFits
  <2>3. c \in Summed' /\ Newer(Summed, c)'
    BY <2>1 DEF Newer
  <2>4. Digest!Boundary' = IF msgs'[c].tail = 0 THEN c ELSE IF msgs'[c].tail <= c THEN msgs'[c].tail ELSE 1
    BY <1>1, <2>3 DEF BoundaryFits
  <2> QED BY <2>1, <2>2, <2>4
<1> QED BY <1>2, <1>3

\* A new message behind a compaction, if it is the model's, is the summary.
NewFollows ==
    \A p \in DOMAIN msgs : \A e \in DOMAIN msgs' \ DOMAIN msgs :
        e = p + 1 /\ Digest!Asks(p) /\ msgs'[e].kind \in {"answer", "summary"}
            => msgs'[e].kind = "summary" /\ msgs'[e].parent = p

AtMostOneMore == DOMAIN msgs' \subseteq 1..(Len(msgs) + 1)

LEMMA SettledGoes ==
  ASSUME DigestTypes, DigestTypes', Grows, AtMostOneMore, NewFollows, Settled, Summed \subseteq Summed',
         \A m \in DOMAIN msgs : Digest!Asks(m) /\ msgs'[m].tail # 0 => m \in Summed',
         \A c \in Summed' : Newer(Summed', c) =>
             (c \in Summed /\ Newer(Summed, c)) \/ (c + 1 \in DOMAIN msgs' /\ Digest!Assistant(c + 1)')
  PROVE  Settled'
<1>1. ParentsFirst'
  BY DEF DigestTypes
<1>2. Len(msgs) \in Nat /\ DOMAIN msgs = 1..Len(msgs)
  BY DEF DigestTypes, Digest!TypeOK
<1>3. SummaryFollows'
  <2> SUFFICES ASSUME NEW p \in DOMAIN msgs', NEW e \in DOMAIN msgs', e = p + 1,
                      msgs'[p].kind = "compaction", msgs'[e].kind \in {"answer", "summary"}
               PROVE  msgs'[e].kind = "summary" /\ msgs'[e].parent = p
    BY DEF SummaryFollows, Digest!Asks, Digest!Assistant
  <2>1. p \in 1..(Len(msgs) + 1) /\ e \in 1..(Len(msgs) + 1)
    BY DEF AtMostOneMore
  <2>2. p \in DOMAIN msgs
    BY <1>2, <2>1
  <2>3. Digest!Asks(p)
    BY <2>2 DEF Grows, Digest!Asks
  <2>4. CASE e \in DOMAIN msgs
    <3>1. msgs'[e].kind = msgs[e].kind /\ Digest!Assistant(e) /\ msgs'[e].parent = msgs[e].parent
      BY <2>4 DEF Grows, Digest!Assistant
    <3> QED BY <2>2, <2>3, <2>4, <3>1 DEF Settled, SummaryFollows
  <2>5. CASE e \notin DOMAIN msgs
    BY <2>2, <2>3, <2>5 DEF NewFollows
  <2> QED BY <2>4, <2>5
<1>4. TailsAreSummed'
  <2> SUFFICES ASSUME NEW m \in DOMAIN msgs', msgs'[m].kind = "compaction", msgs'[m].tail # 0
               PROVE  m \in Summed'
    BY DEF TailsAreSummed, Digest!Asks
  <2>1. m \in DOMAIN msgs
    BY DEF Grows
  <2> QED BY <2>1 DEF Grows, Digest!Asks
<1>5. NewestIsFollowed'
  <2> SUFFICES ASSUME NEW c \in Summed', Newer(Summed', c)
               PROVE  c + 1 \in DOMAIN msgs' /\ msgs'[c + 1].kind \in {"answer", "summary"}
    BY DEF NewestIsFollowed, Digest!Assistant, Newer
  <2>1. CASE c \in Summed /\ Newer(Summed, c)
    <3>1. c + 1 \in DOMAIN msgs /\ Digest!Assistant(c + 1)
      BY <2>1 DEF Settled, NewestIsFollowed
    <3> QED BY <3>1 DEF Grows, Digest!Assistant
  <2>2. CASE c + 1 \in DOMAIN msgs' /\ Digest!Assistant(c + 1)'
    BY <2>2 DEF Digest!Assistant
  <2> QED BY <2>1, <2>2
<1> QED BY <1>1, <1>3, <1>4, <1>5 DEF Settled

LEMMA CoveredGoes ==
  ASSUME DigestTypes, Grows, AtMostOneMore, Digest!Boundary' = Digest!Boundary,
         told \subseteq told', gaveWay \subseteq gaveWay', Covered
  PROVE  Covered'
<1> SUFFICES ASSUME NEW m \in DOMAIN msgs', m < Digest!Boundary, msgs'[m].kind \in {"prompt", "answer"}
             PROVE  m \in told' \cup gaveWay'
  BY DEF Covered, Tells
<1>1. Digest!TypeOK /\ Founded /\ Len(msgs) \in Nat /\ DOMAIN msgs = 1..Len(msgs) /\ m \in 1..(Len(msgs) + 1)
  BY DEF DigestTypes, Digest!TypeOK, AtMostOneMore
<1>2. msgs # <<>>
  <2> SUFFICES ASSUME msgs = <<>> PROVE FALSE
    OBVIOUS
  <2>1. Summed = {}
    BY DEF Summed
  <2>2. Digest!Boundary = 1
    BY <1>1, <2>1, BoundaryIs DEF BoundaryFits
  <2> QED BY <1>1, <2>2
<1>3. Digest!Boundary \in 1..Len(msgs)
  BY <1>1, <1>2, BoundaryInside
<1>4. m \in DOMAIN msgs
  BY <1>1, <1>3
<1> QED BY <1>4 DEF Covered, Tells, Grows

\* The messages of a session go on with those that are there unchanged.
LEMMA ExtendsKeeps ==
  ASSUME DigestTypes, DigestTypes', Extends, AtMostOneMore, NewFollows, Settled
  PROVE  Settled' /\ Summed' = Summed /\ Digest!Boundary' = Digest!Boundary
<1>1. \A m \in DOMAIN msgs : Digest!Sums(m)' <=> Digest!Sums(m)
  BY DEF Digest!Sums, Extends, Grows
<1>2. \A m \in DOMAIN msgs' \ DOMAIN msgs : ~Digest!Sums(m)'
  BY DEF Digest!Sums, Extends, Grows
<1>3. Summed' = Summed
  <2>1. ASSUME NEW p \in Summed PROVE p \in Summed'
    <3>1. PICK s \in DOMAIN msgs : Digest!Sums(s) /\ msgs[s].parent = p
      BY DEF Summed
    <3>2. p \in DOMAIN msgs' /\ s \in DOMAIN msgs' /\ Digest!Asks(p)' /\ Digest!Sums(s)' /\ msgs'[s].parent = p
      BY <1>1, <3>1 DEF Summed, Digest!Asks, Digest!Sums, Extends, Grows, Digest!Assistant
    <3> QED BY <3>2 DEF Summed
  <2>2. ASSUME NEW p \in Summed' PROVE p \in Summed
    <3>1. p \in DOMAIN msgs' /\ Digest!Asks(p)' /\ \E s \in DOMAIN msgs' : Digest!Sums(s)' /\ msgs'[s].parent = p
      BY DEF Summed
    <3>2. PICK s \in DOMAIN msgs' : Digest!Sums(s)' /\ msgs'[s].parent = p
      BY <3>1
    <3>3. s \in DOMAIN msgs
      BY <1>2, <3>2
    <3>4. Digest!Sums(s) /\ msgs[s].parent = p
      BY <1>1, <3>2, <3>3 DEF Digest!Sums, Extends, Grows, Digest!Assistant
    <3>5. p \in DOMAIN msgs
      <4>1. Len(msgs) \in Nat /\ DOMAIN msgs = 1..Len(msgs) /\ p < s
        BY <3>3, <3>4 DEF DigestTypes, Digest!TypeOK, ParentsFirst, Digest!Sums, Digest!Assistant
      <4>2. p \in 1..(Len(msgs) + 1)
        BY <3>1 DEF AtMostOneMore
      <4> QED BY <3>3, <4>1, <4>2
    <3>6. Digest!Asks(p)
      BY <3>1, <3>5 DEF Digest!Asks, Extends, Grows
    <3> QED BY <3>3, <3>4, <3>5, <3>6 DEF Summed
  <2> QED BY <2>1, <2>2
<1>4. \A m \in DOMAIN msgs : Digest!Asks(m) => msgs'[m].tail = msgs[m].tail
  BY DEF Extends
<1>5. Digest!Boundary' = Digest!Boundary
  BY <1>3, <1>4, BoundaryStays DEF DigestTypes, Summed
<1>6. Settled'
  <2>1. Grows /\ Summed \subseteq Summed'
    BY <1>3 DEF Extends
  <2>2. \A m \in DOMAIN msgs : Digest!Asks(m) /\ msgs'[m].tail # 0 => m \in Summed'
    BY <1>3, <1>4 DEF Settled, TailsAreSummed
  <2>3. \A c \in Summed' : Newer(Summed', c) =>
             (c \in Summed /\ Newer(Summed, c)) \/ (c + 1 \in DOMAIN msgs' /\ Digest!Assistant(c + 1)')
    BY <1>3
  <2> QED BY <2>1, <2>2, <2>3, SettledGoes
<1> QED BY <1>3, <1>5, <1>6

\* A step outside the compactions, and a message that arrives during one.
LEMMA ExtendsSafely ==
  ASSUME DigestTypes, DigestTypes', DigestSafe, Extends, AtMostOneMore, NewFollows,
         told' = told, gaveWay' = gaveWay,
         loopAt' # "digest" \/ (/\ loopAt' = loopAt /\ digest' = digest
                                /\ \A e \in DOMAIN msgs' \ DOMAIN msgs : msgs'[e].kind # "summary")
  PROVE  DigestSafe'
<1>1. Settled' /\ Summed' = Summed /\ Digest!Boundary' = Digest!Boundary /\ Grows
  BY ExtendsKeeps DEF DigestSafe, Extends
<1>2. Covered'
  BY <1>1, CoveredGoes DEF DigestSafe
<1>3. AtDigest'
  <2> SUFFICES ASSUME loopAt' = "digest", NEW s \in DOMAIN msgs', LastSummary(s)'
               PROVE  Prepared(s, msgs[s].parent)'
    BY DEF AtDigest
  <2>1. /\ loopAt = "digest" /\ digest' = digest
        /\ \A e \in DOMAIN msgs' \ DOMAIN msgs : msgs'[e].kind # "summary"
    OBVIOUS
  <2>2. s \in DOMAIN msgs /\ msgs[s].kind = "summary" /\ msgs'[s] = msgs[s]
    BY <2>1 DEF LastSummary, Extends, Grows
  <2>3. LastSummary(s)
    BY <2>2 DEF LastSummary, Extends, Grows
  <2>4. PICK p : p = msgs[s].parent /\ p = msgs'[s].parent
    BY <2>2
  <2>5. Prepared(s, p)
    BY <2>1, <2>2, <2>3, <2>4 DEF DigestSafe, AtDigest
  <2>6. p \in DOMAIN msgs /\ p < s /\ Len(msgs) \in Nat /\ DOMAIN msgs = 1..Len(msgs) /\ p \in Nat
    <3>1. Len(msgs) \in Nat /\ DOMAIN msgs = 1..Len(msgs) /\ msgs[s] \in Digest!Messages
      BY <2>2 DEF DigestTypes, Digest!TypeOK
    <3>2. p \in Digest!Ids /\ p < s
      BY <2>2, <2>4, <3>1, MessageFields DEF DigestTypes, ParentsFirst, Digest!Assistant
    <3> QED BY <2>2, <3>1, <3>2, ComponentAssumptions DEF Digest!Ids, Digest!ConstantAssumption
  <2>7. Digest!Asks(p)' <=> Digest!Asks(p)
    BY <2>6 DEF Extends, Grows, Digest!Asks
  <2>8. ~Digest!Sums(s)'
    BY <2>2, <2>5 DEF Prepared, Digest!Sums
  <2>9. ASSUME p + 1 \in DOMAIN msgs, Digest!Assistant(p + 1)
        PROVE  p + 1 \in DOMAIN msgs' /\ Digest!Assistant(p + 1)'
    BY <2>9 DEF Extends, Grows, Digest!Assistant
  <2>10. ASSUME WillTell(p), p + 1 \in DOMAIN msgs PROVE WillTell(p)'
    <3> SUFFICES ASSUME NEW m \in DOMAIN msgs', m < NewBoundary(p), msgs'[m].kind \in {"prompt", "answer"}
                 PROVE  m \in told \cup gaveWay \cup digest.head \cup digest.given
      BY <2>1 DEF WillTell, NewBoundary, Tells
    <3>1. digest.keep \in Nat
      BY ComponentAssumptions DEF DigestTypes, Digest!TypeOK, Digest!Work, Digest!Ids, Digest!ConstantAssumption
    <3>2. NewBoundary(p) \in Nat /\ NewBoundary(p) <= p
      BY <2>6, <3>1 DEF NewBoundary
    <3>3. m \in 1..(Len(msgs) + 1)
      BY DEF AtMostOneMore
    <3>4. m \in DOMAIN msgs
      BY <2>6, <3>2, <3>3
    <3> QED BY <2>10, <3>4 DEF WillTell, Tells, Extends, Grows
  <2>11. Prepared(s, p)'
    BY <1>1, <2>5, <2>7, <2>8, <2>9, <2>10 DEF Prepared
  <2> QED BY <2>4, <2>11
<1> QED BY <1>1, <1>2, <1>3 DEF DigestSafe

----------------------------------------------------------------------------
\* Where messages stand in what is shown, s.
LEMMA FrontIs ==
  ASSUME NEW s, Fronted(s)
  PROVE  \E c \in Summed : /\ Newer(Summed, c) /\ Digest!Asks(c) /\ msgs[c + 1].kind = "summary"
                           /\ 1 \in DOMAIN s /\ 2 \in DOMAIN s /\ s[1] = c /\ s[2] = c + 1
                           /\ \A j \in DOMAIN s : 2 < j => s[j] # c
  BY DEF Fronted, Summed

\* Two places of s are in order, but for the two in front.
Rising(s, f) ==
    /\ \A i, j \in DOMAIN s : f < i /\ i < j => s[i] < s[j]
    /\ f = 0 \/ (f = 2 /\ Fronted(s))

LEMMA RisingIs ==
  ASSUME NEW s, Orderly(s)
  PROVE  \E f \in {0, 2} : Rising(s, f)
  BY DEF Orderly, Ascends, Rising

\* A message of the user's that comes last is shown last.
LEMMA LastShown ==
  ASSUME DigestTypes, msgs # <<>>, NEW n \in Nat, n = Len(msgs), NEW s \in Seq(1..n),
         Orderly(s), Digest!User(n)
  PROVE  Len(s) \in DOMAIN s /\ s[Len(s)] = n
<1>1. Digest!Boundary \in 1..n /\ n \in Digest!Boundary..n
  <2>1. Digest!Boundary \in 1..n
    BY BoundaryInside DEF DigestTypes
  <2> QED BY <2>1
<1>2. PICK i \in DOMAIN s : s[i] = n
  BY <1>1 DEF Orderly, Complete
<1>3. PICK f \in {0, 2} : Rising(s, f)
  BY RisingIs
<1>4. \A j \in DOMAIN s : s[j] \in 1..n
  OBVIOUS
<1>5. f < i
  <2> SUFFICES ASSUME i <= f PROVE FALSE
    BY <1>2
  <2>1. f = 2 /\ Fronted(s) /\ (i = 1 \/ i = 2)
    BY <1>2, <1>3 DEF Rising
  <2>2. PICK c \in Summed : /\ 2 \in DOMAIN s /\ s[1] = c /\ s[2] = c + 1
                            /\ msgs[c + 1].kind = "summary"
    BY <2>1, FrontIs
  <2>3. CASE i = 1
    BY <1>2, <1>4, <2>2, <2>3
  <2>4. CASE i = 2
    BY <1>2, <2>2, <2>4 DEF Digest!User
  <2> QED BY <2>1, <2>3, <2>4
<1>6. i = Len(s)
  <2> SUFFICES ASSUME i # Len(s) PROVE FALSE
    OBVIOUS
  <2>1. Len(s) \in Nat /\ DOMAIN s = 1..Len(s) /\ Len(s) \in DOMAIN s /\ i < Len(s)
    BY <1>2
  <2>2. s[i] < s[Len(s)]
    BY <1>2, <1>3, <1>5, <2>1 DEF Rising
  <2> QED BY <1>2, <1>4, <2>1, <2>2
<1> QED BY <1>2, <1>6

LEMMA LastIsLastUser ==
  ASSUME DigestTypes, msgs # <<>>, NEW n \in Nat, n = Len(msgs), NEW s \in Seq(1..n),
         Orderly(s), Digest!User(n)
  PROVE  Digest!LastUser(s) = n /\ (Digest!Asks(n) => Digest!Tasks(s) # {})
<1>1. Len(s) \in DOMAIN s /\ s[Len(s)] = n /\ Len(s) \in Nat
  BY LastShown
<1>2. PICK k \in DOMAIN s : Digest!LastUser(s) = s[k] /\ \A i \in DOMAIN s : Digest!User(s[i]) => i <= k
  BY <1>1, LastUserIs
<1>3. k = Len(s)
  BY <1>1, <1>2
<1>4. PICK g \in 0..Len(s) : g = Digest!LastFinished(s) /\ (g # 0 => Digest!Finished(s[g]))
  BY LastFinishedIs
<1>5. g # Len(s)
  <2> SUFFICES ASSUME g = Len(s) PROVE FALSE
    OBVIOUS
  <2>1. g # 0
    BY <1>1
  <2> QED BY <1>1, <1>4, <2>1 DEF Digest!Finished, Digest!Assistant, Digest!User
<1>6. Digest!Asks(n) => Len(s) \in Digest!Tasks(s)
  BY <1>1, <1>4, <1>5 DEF Digest!Tasks
<1> QED BY <1>1, <1>2, <1>3, <1>6

\* A compaction that is to be done has none newer than it, or it has no summary.
LEMMA NotSummedYet ==
  ASSUME DigestTypes, Settled, msgs # <<>>, NEW n \in Nat, n = Len(msgs), NEW s \in Seq(1..n),
         Orderly(s), Digest!Tasks(s) # {}, NEW p, p = Digest!LastUser(s), Digest!Asks(p), \A d \in Summed : d <= p
  PROVE  p \notin Summed
<1> SUFFICES ASSUME p \in Summed PROVE FALSE
  OBVIOUS
<1>0. Len(s) \in Nat /\ DOMAIN s = 1..Len(s) /\ DOMAIN msgs = 1..n
  BY DEF DigestTypes, Digest!TypeOK
<1>1. PICK t \in Digest!Tasks(s) : TRUE
  OBVIOUS
<1>2. t \in DOMAIN s /\ t > Digest!LastFinished(s) /\ Digest!User(s[t])
  BY <1>1 DEF Digest!Tasks, Digest!Asks, Digest!User
<1>3. PICK k \in DOMAIN s : p = s[k] /\ p \in 1..n /\ \A i \in DOMAIN s : Digest!User(s[i]) => i <= k
  BY <1>2, LastUserIs
<1>4. t <= k
  BY <1>2, <1>3
<1>5. PICK x \in DOMAIN msgs : Digest!Sums(x) /\ msgs[x].parent = p
  BY DEF Summed
<1>6. p < x /\ x \in 1..n /\ Digest!Finished(x) /\ msgs[x].kind = "summary"
  BY <1>0, <1>5 DEF DigestTypes, ParentsFirst, Digest!Sums, Digest!Assistant, Digest!Finished
<1>7. Digest!Boundary <= p /\ Digest!Boundary \in 1..n
  <2>1. Digest!Boundary = IF msgs[p].tail = 0 THEN p ELSE IF msgs[p].tail <= p THEN msgs[p].tail ELSE 1
    BY BoundaryIs DEF BoundaryFits, Newer, DigestTypes
  <2>2. Digest!Boundary \in 1..n
    BY BoundaryInside DEF DigestTypes
  <2>3. p \in Nat \ {0}
    BY <1>3
  <2> QED BY <2>1, <2>2, <2>3
<1>8. PICK j \in DOMAIN s : s[j] = x
  <2>1. x \in Digest!Boundary..Len(msgs)
    BY <1>3, <1>6, <1>7
  <2> QED BY <2>1 DEF Orderly, Complete
<1>9. j <= Digest!LastFinished(s)
  BY <1>6, <1>8, LastFinishedIs
<1>10. j < k
  <2>1. Digest!LastFinished(s) \in Nat
    BY LastFinishedIs
  <2> QED BY <1>0, <1>2, <1>3, <1>4, <1>8, <1>9, <2>1
<1>11. PICK f \in {0, 2} : Rising(s, f)
  BY RisingIs
<1>12. CASE f < j
  <2>1. s[j] < s[k]
    BY <1>3, <1>8, <1>10, <1>11, <1>12 DEF Rising
  <2> QED BY <1>3, <1>6, <1>8, <2>1
<1>13. CASE j <= f
  <2>1. f = 2 /\ Fronted(s) /\ (j = 1 \/ j = 2)
    BY <1>0, <1>8, <1>11, <1>13 DEF Rising
  <2>2. PICK c \in Summed : /\ Newer(Summed, c) /\ Digest!Asks(c) /\ s[1] = c
                            /\ \A i \in DOMAIN s : 2 < i => s[i] # c
    BY <2>1, FrontIs
  <2>3. c = p
    <3>1. c <= p /\ p <= c /\ c \in Nat
      BY <1>0, <2>2 DEF Newer, Summed
    <3> QED BY <1>3, <3>1
  <2>4. CASE j = 1
    BY <1>6, <1>8, <2>2, <2>4 DEF Digest!Asks
  <2>5. CASE j = 2
    BY <1>3, <1>10, <2>2, <2>3, <2>5
  <2> QED BY <2>1, <2>4, <2>5
<1> QED BY <1>0, <1>8, <1>12, <1>13

\* What stands behind it, if anything does, is the model's.
LEMMA AnsweredNext ==
  ASSUME DigestTypes, msgs # <<>>, NEW n \in Nat, n = Len(msgs), NEW s \in Seq(1..n),
         Orderly(s), NEW p, NEW k \in DOMAIN s, p = s[k], p \in 1..n,
         \A i \in DOMAIN s : Digest!User(s[i]) => i <= k,
         \A d \in Summed : d <= p
  PROVE  Digest!Boundary <= p /\ Digest!Boundary \in 1..n /\ (p # n => Digest!Assistant(p + 1))
<1>0. Len(s) \in Nat /\ DOMAIN s = 1..Len(s) /\ DOMAIN msgs = 1..n /\ msgs \in Seq(Digest!Messages)
  BY DEF DigestTypes, Digest!TypeOK
<1>1. Digest!Boundary \in 1..n
  BY BoundaryInside DEF DigestTypes
<1>2. Digest!Boundary <= p
  <2>1. CASE Summed = {}
    BY <2>1, BoundaryIs DEF BoundaryFits, DigestTypes
  <2>2. CASE Summed # {}
    <3>1. PICK c \in Summed : Newer(Summed, c)
      BY <2>2, NewestSummed DEF DigestTypes
    <3>2. Digest!Boundary = IF msgs[c].tail = 0 THEN c ELSE IF msgs[c].tail <= c THEN msgs[c].tail ELSE 1
      BY <3>1, BoundaryIs DEF BoundaryFits, DigestTypes
    <3>3. c \in 1..n /\ c <= p /\ msgs[c].kind = "compaction" /\ msgs[c] \in Digest!Messages
      BY <1>0, <3>1 DEF Summed, Digest!Asks
    <3>4. msgs[c].tail \in Nat
      BY <3>3, MessageFields, ComponentAssumptions DEF Digest!Ids, Digest!ConstantAssumption
    <3> QED BY <3>2, <3>3, <3>4
  <2> QED BY <2>1, <2>2
<1>3. ASSUME p # n PROVE Digest!Assistant(p + 1)
  <2>1. PICK u \in 1..n : u = p + 1
    <3>1. p + 1 \in 1..n
      BY <1>3
    <3> QED BY <3>1
  <2>2. PICK i \in DOMAIN s : s[i] = u
    <3>1. u \in Digest!Boundary..Len(msgs)
      BY <1>1, <1>2, <2>1
    <3> QED BY <3>1 DEF Orderly, Complete
  <2> SUFFICES ASSUME ~Digest!Assistant(u) PROVE FALSE
    BY <2>1
  <2>3. Digest!User(u)
    <3>1. msgs[u] \in Digest!Messages
      BY <1>0
    <3> QED BY <3>1, MessageFields DEF Digest!User, Digest!Assistant
  <2>4. i < k
    <3>1. i <= k /\ i # k
      BY <2>1, <2>2, <2>3
    <3> QED BY <1>0, <3>1
  <2>5. PICK f \in {0, 2} : Rising(s, f)
    BY RisingIs
  <2>6. CASE f < i
    <3>1. s[i] < s[k]
      BY <2>2, <2>4, <2>5, <2>6 DEF Rising
    <3> QED BY <2>1, <2>2, <3>1
  <2>7. CASE i <= f
    <3>1. f = 2 /\ Fronted(s) /\ (i = 1 \/ i = 2)
      BY <1>0, <2>2, <2>5, <2>7 DEF Rising
    <3>2. PICK c \in Summed : s[1] = c /\ s[2] = c + 1 /\ msgs[c + 1].kind = "summary"
      BY <3>1, FrontIs
    <3>3. CASE i = 1
      BY <2>1, <2>2, <3>2, <3>3
    <3>4. CASE i = 2
      BY <2>2, <2>3, <3>2, <3>4 DEF Digest!User
    <3> QED BY <3>1, <3>3, <3>4
  <2> QED BY <1>0, <2>2, <2>6, <2>7
<1> QED BY <1>1, <1>2, <1>3

----------------------------------------------------------------------------
\* What a compaction of p is made of tells all that its boundary will leave out.
LEMMA DigestTells ==
  ASSUME DigestTypes, msgs # <<>>, NEW n \in Nat, n = Len(msgs), NEW s \in Seq(1..n),
         Orderly(s), NEW p \in 1..n, Digest!Asks(p), p \notin Summed, NEW w, NEW piece,
         w \in Digest!Digests(s, p, piece),
         NEW keep \in Nat, keep = w.keep, NEW m \in 1..n, Tells(m), Digest!Boundary <= m,
         m < (IF keep = 0 THEN p ELSE IF keep <= p THEN keep ELSE 1)
  PROVE  m \in w.head \cup w.given
<1>0. Len(s) \in Nat /\ DOMAIN s = 1..Len(s) /\ DOMAIN msgs = 1..n /\ \A j \in DOMAIN s : s[j] \in 1..n
  BY DEF DigestTypes, Digest!TypeOK
<1>1. m < p /\ (keep = 0 \/ m < keep)
  OBVIOUS
<1>2. PICK j \in DOMAIN s : s[j] = m
  <2>1. m \in Digest!Boundary..Len(msgs)
    <3>1. Digest!Boundary \in 1..n
      BY BoundaryInside DEF DigestTypes
    <3> QED BY <3>1
  <2> QED BY <2>1 DEF Orderly, Complete
<1>3. PICK f \in {0, 2} : Rising(s, f)
  BY RisingIs
\* Neither what asks for a summary nor a summary tells.
<1>4. \A i \in DOMAIN s : i <= f => /\ s[i] # p /\ ~Tells(s[i])
  <2> SUFFICES ASSUME NEW i \in DOMAIN s, i <= f PROVE s[i] # p /\ ~Tells(s[i])
    OBVIOUS
  <2>1. f = 2 /\ Fronted(s) /\ (i = 1 \/ i = 2)
    BY <1>0, <1>3 DEF Rising
  <2>2. PICK c \in Summed : /\ Digest!Asks(c) /\ s[1] = c /\ s[2] = c + 1 /\ msgs[c + 1].kind = "summary"
    BY <2>1, FrontIs
  <2>3. CASE i = 1
    BY <2>2, <2>3 DEF Digest!Asks, Tells
  <2>4. CASE i = 2
    BY <2>2, <2>4 DEF Digest!Asks, Tells
  <2> QED BY <2>1, <2>3, <2>4
<1>5. f < j
  BY <1>0, <1>2, <1>4
<1>6. j < Digest!PlaceOf(s, p) /\ Digest!PlaceOf(s, p) \in Nat
  <2>1. PICK l \in 1..(Len(s) + 1) : l = Digest!PlaceOf(s, p) /\ (l # Len(s) + 1 => s[l] = p)
    BY PlaceIs
  <2>2. CASE l = Len(s) + 1
    BY <1>0, <1>2, <2>1, <2>2
  <2>3. CASE l # Len(s) + 1
    <3>1. l \in DOMAIN s /\ s[l] = p
      <4>1. l \in DOMAIN s
        BY <1>0, <2>3
      <4> QED BY <2>1, <2>3, <4>1
    <3>2. f < l
      BY <1>0, <1>4, <3>1
    <3>3. ~(l < j)
      <4> SUFFICES ASSUME l < j PROVE FALSE
        OBVIOUS
      <4>1. s[l] < s[j]
        BY <1>2, <1>3, <3>1, <3>2 DEF Rising
      <4> QED BY <1>1, <1>2, <3>1, <4>1
    <3>4. l # j
      BY <1>1, <1>2, <3>1
    <3> QED BY <1>0, <1>2, <2>1, <3>3, <3>4
  <2> QED BY <2>2, <2>3
<1>7. PICK i \in 0..Len(s), h \in 0..Len(s) : \E k, a \in 0..h : Digested(s, p, piece, w, i, h, k, a)
  BY DigestIs
<1>8. PICK k \in 0..h, a \in 0..h : Digested(s, p, piece, w, i, h, k, a)
  BY <1>7
<1>9. CASE i # 0 /\ i <= j
  BY <1>2, <1>6, <1>8, <1>9 DEF Digested
<1>10. CASE i = 0 \/ j < i
  <2>1. j \in 1..h
    <3>1. \/ i = 0 /\ h = Len(s)
          \/ i = 0 /\ h + 1 = Len(s) /\ s[Len(s)] = p
          \/ i # 0 /\ h + 1 = i
          \/ i # 0 /\ h + 2 = i /\ s[i - 1] = p
      BY <1>8 DEF Digested
    <3>2. j \in Nat \ {0} /\ h \in Nat /\ i \in Nat /\ j <= Len(s) /\ s[j] # p
      BY <1>0, <1>1, <1>2, <1>7
    <3>3. CASE i = 0 /\ h = Len(s)
      BY <3>2, <3>3
    <3>4. CASE i = 0 /\ h + 1 = Len(s) /\ s[Len(s)] = p
      <4>1. j # Len(s)
        BY <3>2, <3>4
      <4> QED BY <1>0, <3>2, <3>4, <4>1
    <3>5. CASE i # 0 /\ h + 1 = i
      BY <1>10, <3>2, <3>5
    <3>6. CASE i # 0 /\ h + 2 = i /\ s[i - 1] = p
      <4>1. j # i - 1
        BY <3>2, <3>6
      <4> QED BY <1>10, <3>2, <3>6, <4>1
    <3> QED BY <3>1, <3>3, <3>4, <3>5, <3>6
  <2>2. k = 0 \/ j < k
    <3> SUFFICES ASSUME k # 0, k <= j PROVE FALSE
      BY <1>0, <1>2, <1>8
    <3>1. k \in DOMAIN s /\ keep = s[k]
      <4>1. k \in 1..Len(s)
        BY <1>0, <1>7, <1>8
      <4>2. w.keep = At(s, k)
        <5>1. w = [auto |-> piece.auto, keep |-> At(s, k), head |-> w.head, anchor |-> At(s, a),
                   replay |-> At(s, i), given |-> w.given]
          BY <1>8 DEF Digested
        <5>2. [auto |-> piece.auto, keep |-> At(s, k), head |-> w.head, anchor |-> At(s, a),
               replay |-> At(s, i), given |-> w.given].keep = At(s, k)
          OBVIOUS
        <5> QED BY <5>1, <5>2
      <4> QED BY <1>0, <4>1, <4>2 DEF At
    <3>2. m < keep
      BY <1>0, <1>1, <3>1
    <3>3. k # j /\ k < j
      BY <1>0, <1>2, <3>1, <3>2
    <3>4. f < k
      <4> SUFFICES ASSUME k <= f PROVE FALSE
        BY <1>0, <3>1
      <4>1. PICK r \in 1..k : msgs[s[r]].kind = "prompt"
        BY <1>8 DEF Digested
      <4>2. r \in DOMAIN s /\ r <= f
        BY <1>0, <3>1, <4>1
      <4> QED BY <1>4, <4>1, <4>2 DEF Tells
    <3>5. s[k] < s[j]
      BY <1>2, <1>3, <3>1, <3>3, <3>4 DEF Rising
    <3> QED BY <1>0, <1>2, <3>1, <3>2, <3>5
  <2> QED BY <1>2, <1>8, <2>1, <2>2 DEF Digested
<1> QED BY <1>0, <1>2, <1>7, <1>9, <1>10

\* The loop starts a compaction.
LEMMA StartDigestSafe ==
  ASSUME DigestTypes, DigestSafe, msgs # <<>>, Digest!Tasks(Digest!FilterCompacted) # {},
         Digest!StartDigest(Digest!FilterCompacted),
         UNCHANGED <<told, gaveWay, failed>>
  PROVE  DigestSafe'
<1>1. PICK n \in Nat : n = Len(msgs) /\ DOMAIN msgs = 1..n
  <2>1. Len(msgs) \in Nat /\ DOMAIN msgs = 1..Len(msgs)
    BY DEF DigestTypes, Digest!TypeOK
  <2> QED BY <2>1
<1>2. PICK s \in Seq(1..n), p \in 1..n : s = Digest!FilterCompacted /\ p = Digest!LastUser(Digest!FilterCompacted)
  BY <1>1, SeenUser
<1>3. PICK e \in Nat : e = n + 1
  OBVIOUS
<1>4. /\ DigestTypes' /\ Extends /\ Grows /\ DOMAIN msgs' = 1..e /\ loopAt' = "digest"
      /\ msgs'[e] = [kind |-> "summary", parent |-> p, fin |-> "none", error |-> FALSE]
      /\ \E piece : digest' \in Digest!Digests(s, p, piece)
  BY <1>1, <1>2, <1>3, StartDigestStep DEF Extends
<1>5. Orderly(s)
  BY <1>2, SeenOrderly DEF DigestTypes, DigestSafe
<1>6. NewFollows
  <2> SUFFICES ASSUME NEW q \in 1..n, e = q + 1, Digest!Asks(q) PROVE q = p
    BY <1>1, <1>3, <1>4 DEF NewFollows
  <2>1. q = n /\ Digest!User(n)
    BY <1>3 DEF Digest!Asks, Digest!User
  <2> QED BY <1>1, <1>2, <1>5, <2>1, LastIsLastUser
<1>7. AtMostOneMore
  BY <1>1, <1>3, <1>4 DEF AtMostOneMore
<1>8. Settled' /\ Summed' = Summed /\ Digest!Boundary' = Digest!Boundary
  BY <1>4, <1>6, <1>7, ExtendsKeeps DEF DigestSafe
<1>9. Covered'
  BY <1>4, <1>7, <1>8, CoveredGoes DEF DigestSafe
<1>10. ASSUME Digest!Asks(p), ~\E d \in Summed : p < d
       PROVE  (\A d \in Summed : d < p) /\ p + 1 \in DOMAIN msgs' /\ Digest!Assistant(p + 1)' /\ WillTell(p)'
  <2>1. \A d \in Summed : d \in Nat /\ d <= p
    BY <1>1, <1>10 DEF Summed
  <2>2. p \notin Summed
    BY <1>1, <1>2, <1>5, <1>10, <2>1, NotSummedYet DEF DigestSafe
  <2>3. \A d \in Summed : d < p
    BY <2>1, <2>2
  <2>4. PICK k \in DOMAIN s : p = s[k] /\ \A i \in DOMAIN s : Digest!User(s[i]) => i <= k
    <3>1. \E i \in DOMAIN s : Digest!User(s[i])
      BY <1>2, SeenTyped DEF DigestTypes
    <3> QED BY <1>2, <3>1, LastUserIs
  <2>5. Digest!Boundary <= p /\ Digest!Boundary \in 1..n /\ (p # n => Digest!Assistant(p + 1))
    BY <1>1, <1>5, <2>1, <2>4, AnsweredNext
  <2>6. p + 1 \in DOMAIN msgs' /\ Digest!Assistant(p + 1)'
    <3>1. CASE p = n
      BY <1>3, <1>4, <3>1 DEF Digest!Assistant
    <3>2. CASE p # n
      <4>1. p + 1 \in DOMAIN msgs
        BY <1>1, <3>2
      <4> QED BY <1>4, <2>5, <3>2, <4>1 DEF Grows, Digest!Assistant
    <3> QED BY <3>1, <3>2
  <2>7. WillTell(p)'
    <3>1. PICK w, piece : w = digest' /\ w \in Digest!Digests(s, p, piece)
      BY <1>4
    <3>2. PICK keep \in Nat : keep = w.keep
      <4>1. w.keep \in Nat
        BY <1>4, <3>1, ComponentAssumptions DEF DigestTypes, Digest!TypeOK, Digest!Work, Digest!Ids,
             Digest!ConstantAssumption
      <4> QED BY <4>1
    <3> SUFFICES ASSUME NEW m \in DOMAIN msgs', msgs'[m].kind \in {"prompt", "answer"},
                        m < (IF keep = 0 THEN p ELSE IF keep <= p THEN keep ELSE 1)
                 PROVE  m \in told \cup gaveWay \cup w.head \cup w.given
      BY <3>1, <3>2 DEF WillTell, NewBoundary, Tells
    <3>3. m \in 1..n
      BY <1>3, <1>4, <3>2
    <3>4. Tells(m)
      BY <1>1, <1>4, <3>3 DEF Grows, Tells
    <3>5. CASE m < Digest!Boundary
      BY <1>1, <3>3, <3>4, <3>5 DEF DigestSafe, Covered
    <3>6. CASE Digest!Boundary <= m
      BY <1>1, <1>5, <1>10, <2>2, <3>1, <3>2, <3>3, <3>4, <3>6, DigestTells
    <3> QED BY <2>5, <3>3, <3>5, <3>6
  <2> QED BY <2>3, <2>6, <2>7
<1>11. AtDigest'
  <2> SUFFICES ASSUME NEW x \in DOMAIN msgs', LastSummary(x)' PROVE Prepared(x, msgs[x].parent)'
    BY DEF AtDigest
  <2>1. x = e
    <3>1. e <= x
      BY <1>3, <1>4 DEF LastSummary
    <3> QED BY <1>3, <1>4, <3>1
  <2>2. msgs'[x].parent = p /\ ~Digest!Sums(x)'
    BY <1>4, <2>1 DEF Digest!Sums
  <2>3. Digest!Asks(p)' <=> Digest!Asks(p)
    BY <1>1, <1>4 DEF Grows, Digest!Asks
  <2>4. Prepared(x, p)'
    BY <1>8, <1>10, <2>2, <2>3 DEF Prepared
  <2> QED BY <2>2, <2>4
<1> QED BY <1>8, <1>9, <1>11 DEF DigestSafe

----------------------------------------------------------------------------
LEMMA NoneNewFollows ==
  ASSUME \A e \in DOMAIN msgs' \ DOMAIN msgs : msgs'[e].kind \in {"prompt", "compaction"}
  PROVE  NewFollows
  BY DEF NewFollows

\* The steps outside the compactions.
LEMMA ArrivesSafe ==
  ASSUME DigestTypes, DigestSafe, Digest!Prompt \/ Digest!Summarize
  PROVE  DigestSafe'
<1>1. PICK m \in Digest!Messages : /\ m.kind \in {"prompt", "compaction"} /\ (m.kind = "compaction" => m.tail = 0)
                            /\ Digest!Arrives(m)
  BY PromptStep
<1>2. /\ DigestTypes' /\ Extends /\ DOMAIN msgs' = 1..(Len(msgs) + 1)
      /\ msgs'[Len(msgs) + 1] = m /\ UNCHANGED <<loopAt, digest, told, gaveWay, failed>>
  BY <1>1, ArrivesStep
<1>3. DOMAIN msgs = 1..Len(msgs) /\ Len(msgs) \in Nat
  BY DEF DigestTypes, Digest!TypeOK
<1>4. \A e \in DOMAIN msgs' \ DOMAIN msgs : msgs'[e].kind \in {"prompt", "compaction"}
  <2>1. \A e \in (1..(Len(msgs) + 1)) \ (1..Len(msgs)) : e = Len(msgs) + 1
    BY <1>3
  <2> QED BY <1>1, <1>2, <1>3, <2>1
<1>5. AtMostOneMore /\ NewFollows /\ \A e \in DOMAIN msgs' \ DOMAIN msgs : msgs'[e].kind # "summary"
  BY <1>2, <1>4, NoneNewFollows DEF AtMostOneMore
<1> QED BY <1>2, <1>5, ExtendsSafely

LEMMA StillSafe ==
  ASSUME DigestTypes, DigestSafe, UNCHANGED <<msgs, digest, told, gaveWay, failed>>,
         loopAt' \in {"rest", "top"}, loopAt' = "top" => msgs # <<>>
  PROVE  DigestSafe'
<1>1. DigestTypes' /\ Extends
  BY StillStep
<1>2. AtMostOneMore
  BY DEF AtMostOneMore, DigestTypes, Digest!TypeOK
<1>3. NewFollows
  BY DEF NewFollows
<1> QED BY <1>1, <1>2, <1>3, ExtendsSafely

LEMMA RepliesSafe ==
  ASSUME DigestTypes, DigestSafe, Digest!Replies \/ Digest!ReplyOverflows \/ Digest!ReplyStops
  PROVE  DigestSafe'
<1>1. loopAt = "reply"
  BY DEF Digest!Replies, Digest!ReplyOverflows, Digest!ReplyStops
<1>2. DigestTypes' /\ Extends /\ loopAt' \in {"rest", "top"}
      /\ DOMAIN msgs' \subseteq 1..(Len(msgs) + 1)
      /\ (Len(msgs) + 1 \in DOMAIN msgs' => msgs'[Len(msgs) + 1].kind = "compaction")
      /\ UNCHANGED <<told, gaveWay, failed>>
  BY <1>1, RepliesStep
<1>3. DOMAIN msgs = 1..Len(msgs) /\ Len(msgs) \in Nat
  BY DEF DigestTypes, Digest!TypeOK
<1>4. \A e \in DOMAIN msgs' \ DOMAIN msgs : msgs'[e].kind \in {"prompt", "compaction"}
  <2>1. \A e \in (1..(Len(msgs) + 1)) \ (1..Len(msgs)) : e = Len(msgs) + 1
    BY <1>3
  <2> QED BY <1>2, <1>3, <2>1
<1>5. AtMostOneMore /\ NewFollows
  BY <1>2, <1>4, NoneNewFollows DEF AtMostOneMore
<1> QED BY <1>2, <1>5, ExtendsSafely

LEMMA TopSafe ==
  ASSUME DigestTypes, DigestSafe, Digest!Top
  PROVE  DigestSafe'
<1>1. loopAt = "top" /\ msgs # <<>> /\ UNCHANGED <<told, gaveWay, failed>>
  BY DEF Digest!Top, DigestTypes, Founded
<1>2. PICK n \in Nat : n = Len(msgs) /\ DOMAIN msgs = 1..n
  <2>1. Len(msgs) \in Nat /\ DOMAIN msgs = 1..Len(msgs)
    BY DEF DigestTypes, Digest!TypeOK
  <2> QED BY <2>1
<1>3. \A e \in (1..(n + 1)) \ (1..n) : e = n + 1
  OBVIOUS
<1>4. CASE Digest!Exit(Digest!FilterCompacted)
  <2>1. UNCHANGED <<msgs, digest, told, gaveWay, failed>> /\ loopAt' \in {"rest", "top"}
    BY <1>1, <1>4 DEF Digest!Exit
  <2> QED BY <1>1, <2>1, StillSafe
<1>5. CASE Digest!Tasks(Digest!FilterCompacted) # {} /\ Digest!StartDigest(Digest!FilterCompacted)
  BY <1>1, <1>5, StartDigestSafe
<1>6. CASE Digest!Overflow
  <2>1. /\ DigestTypes' /\ Extends /\ DOMAIN msgs' = 1..(n + 1)
        /\ msgs'[n + 1] = Digest!NewCompaction(TRUE, FALSE) /\ loopAt' = "top"
    BY <1>2, <1>1, <1>6, OverflowStep
  <2>2. \A e \in DOMAIN msgs' \ DOMAIN msgs : msgs'[e].kind \in {"prompt", "compaction"}
    BY <1>2, <1>3, <2>1 DEF Digest!NewCompaction
  <2>3. AtMostOneMore /\ NewFollows
    BY <1>2, <2>1, <2>2, NoneNewFollows DEF AtMostOneMore
  <2> QED BY <1>1, <2>1, <2>3, ExtendsSafely
<1>7. CASE Digest!Tasks(Digest!FilterCompacted) = {} /\ Digest!StartReply(Digest!FilterCompacted)
  <2>1. /\ DigestTypes' /\ Extends /\ DOMAIN msgs' = 1..(n + 1) /\ loopAt' = "reply"
        /\ msgs'[n + 1].kind = "answer"
    BY <1>2, <1>1, <1>7, StartReplyStep
  <2>2. ~Digest!Asks(n)
    <3>1. Digest!FilterCompacted \in Seq(1..n) /\ Orderly(Digest!FilterCompacted)
      BY <1>2, <1>1, SeenUser, SeenOrderly DEF DigestTypes, DigestSafe
    <3> QED BY <1>2, <1>1, <1>7, <3>1, LastIsLastUser DEF Digest!Asks, Digest!User
  <2>3. NewFollows
    <3> SUFFICES ASSUME NEW q \in 1..n, n + 1 = q + 1, Digest!Asks(q) PROVE FALSE
      BY <1>2, <1>3, <2>1 DEF NewFollows
    <3>1. q = n
      OBVIOUS
    <3> QED BY <2>2, <3>1
  <2>4. AtMostOneMore
    BY <1>2, <2>1 DEF AtMostOneMore
  <2> QED BY <1>1, <2>1, <2>3, <2>4, ExtendsSafely
<1> QED BY <1>4, <1>5, <1>6, <1>7 DEF Digest!Top

----------------------------------------------------------------------------
\* The summary s of p has ended as q says, and a prompt may follow.
StillSums(s, p) ==
    /\ \A m \in DOMAIN msgs : m # p /\ Digest!Asks(m) => msgs'[m].tail = msgs[m].tail
    /\ \A m \in DOMAIN msgs : m # s => (Digest!Sums(m)' <=> Digest!Sums(m))
    /\ msgs'[s].parent = p
    /\ \A m \in DOMAIN msgs' \ DOMAIN msgs : ~Digest!Sums(m)'

LEMMA FollowedKeeps ==
  ASSUME DigestTypes, NEW s, NEW p, AtWork(s, p), NEW q, NEW f, NEW b, EndsWith(q, s, p, f, b), Followed(q),
         q[p] = msgs[p] \/ Digest!Asks(p), AtMostOneMore
  PROVE  /\ NewFollows /\ StillSums(s, p)
         /\ (f = "stop" /\ b = FALSE => Digest!Sums(s)')
         /\ (b = TRUE => ~Digest!Sums(s)')
<1>1. s \in DOMAIN msgs /\ p \in DOMAIN msgs /\ msgs[s].kind = "summary"
  BY DEF AtWork
<1>2. NewFollows
  BY NoneNewFollows DEF Followed
<1>3. ASSUME NEW m \in DOMAIN msgs, m # p, Digest!Asks(m) PROVE msgs'[m].tail = msgs[m].tail
  <2>1. m # s
    BY <1>1, <1>3 DEF Digest!Asks
  <2> QED BY <1>3, <2>1 DEF EndsWith, Followed
<1>4. ASSUME NEW m \in DOMAIN msgs, m # s PROVE Digest!Sums(m)' <=> Digest!Sums(m)
  <2>1. CASE m # p
    <3>1. msgs'[m] = msgs[m]
      BY <1>4, <2>1 DEF EndsWith, Followed
    <3> QED BY <3>1 DEF Digest!Sums
  <2>2. CASE m = p /\ q[p] = msgs[p]
    <3>1. msgs'[m] = msgs[m]
      BY <1>1, <2>2 DEF Followed
    <3> QED BY <3>1 DEF Digest!Sums
  <2>3. CASE m = p /\ Digest!Asks(p)
    BY <1>1, <2>3 DEF EndsWith, Followed, Digest!Sums, Digest!Asks
  <2> QED BY <2>1, <2>2, <2>3
<1>5. msgs'[s] = q[s] /\ q[s].kind = "summary" /\ q[s].parent = p /\ q[s].fin = f /\ q[s].error = b
  BY <1>1 DEF EndsWith, Followed
<1>6. /\ (f = "stop" /\ b = FALSE => Digest!Sums(s)') /\ (b = TRUE => ~Digest!Sums(s)')
      /\ msgs'[s].parent = p
  BY <1>5 DEF Digest!Sums
<1>7. \A m \in DOMAIN msgs' \ DOMAIN msgs : ~Digest!Sums(m)'
  BY DEF Followed, Digest!Sums
<1>8. StillSums(s, p)
  BY <1>3, <1>4, <1>6, <1>7 DEF StillSums
<1> QED BY <1>2, <1>6, <1>8

\* Then p has its summary, if that counts and p asked for one.
LEMMA SummedIs ==
  ASSUME DigestTypes, Grows, AtMostOneMore, NEW s, NEW p, AtWork(s, p), ~Digest!Sums(s), StillSums(s, p)
  PROVE  Summed' = Summed \cup (IF Digest!Sums(s)' /\ Digest!Asks(p) THEN {p} ELSE {})
<1>1. s \in DOMAIN msgs /\ p \in DOMAIN msgs /\ s \in DOMAIN msgs' /\ p \in DOMAIN msgs'
      /\ Len(msgs) \in Nat /\ DOMAIN msgs = 1..Len(msgs)
  BY DEF AtWork, Grows, DigestTypes, Digest!TypeOK
<1>2. /\ \A m \in DOMAIN msgs : m # s => (Digest!Sums(m)' <=> Digest!Sums(m))
      /\ msgs'[s].parent = p
      /\ \A m \in DOMAIN msgs' \ DOMAIN msgs : ~Digest!Sums(m)'
  BY DEF StillSums
<1>3. ASSUME NEW c \in Summed PROVE c \in Summed'
  <2>1. PICK x \in DOMAIN msgs : Digest!Sums(x) /\ msgs[x].parent = c
    BY DEF Summed
  <2>2. x # s
    BY <2>1
  <2>3. c \in DOMAIN msgs' /\ x \in DOMAIN msgs' /\ Digest!Asks(c)' /\ Digest!Sums(x)' /\ msgs'[x].parent = c
    BY <1>2, <2>1, <2>2 DEF Summed, Digest!Asks, Digest!Sums, Grows, Digest!Assistant
  <2> QED BY <2>3 DEF Summed
<1>4. ASSUME Digest!Sums(s)', Digest!Asks(p) PROVE p \in Summed'
  <2>1. Digest!Asks(p)'
    BY <1>1, <1>4 DEF Grows, Digest!Asks
  <2> QED BY <1>1, <1>4, <1>2, <2>1 DEF Summed
<1>5. ASSUME NEW c \in Summed' PROVE c \in Summed \/ (c = p /\ Digest!Sums(s)' /\ Digest!Asks(p))
  <2>1. c \in DOMAIN msgs' /\ Digest!Asks(c)' /\ \E x \in DOMAIN msgs' : Digest!Sums(x)' /\ msgs'[x].parent = c
    BY DEF Summed
  <2>2. PICK x \in DOMAIN msgs' : Digest!Sums(x)' /\ msgs'[x].parent = c
    BY <2>1
  <2>3. x \in DOMAIN msgs
    BY <1>2, <2>2
  <2>4. CASE x = s
    <3>1. c = p /\ Digest!Asks(p)
      BY <1>1, <1>2, <2>1, <2>2, <2>4 DEF Grows, Digest!Asks
    <3> QED BY <2>2, <2>4, <3>1
  <2>5. CASE x # s
    <3>1. Digest!Sums(x) /\ msgs[x].parent = c
      BY <1>2, <2>2, <2>3, <2>5 DEF Digest!Sums, Grows, Digest!Assistant
    <3>2. c \in DOMAIN msgs
      <4>1. c < x
        BY <2>3, <3>1 DEF DigestTypes, ParentsFirst, Digest!Sums, Digest!Assistant
      <4>2. c \in 1..(Len(msgs) + 1)
        BY <2>1 DEF AtMostOneMore
      <4> QED BY <1>1, <2>3, <4>1, <4>2
    <3>3. Digest!Asks(c)
      BY <2>1, <3>2 DEF Grows, Digest!Asks
    <3> QED BY <2>3, <3>1, <3>2, <3>3 DEF Summed
  <2> QED BY <2>4, <2>5
<1> QED BY <1>3, <1>4, <1>5

----------------------------------------------------------------------------
\* A summary that does not count changes nothing of what is shown.
LEMMA StopsSafe ==
  ASSUME DigestTypes, DigestSafe, Digest!DigestOverflows \/ Digest!DigestInterrupted
  PROVE  DigestSafe'
<1>1. /\ DigestTypes' /\ Grows /\ loopAt' = "rest" /\ UNCHANGED <<told, gaveWay, failed>>
      /\ \E s, p \in DOMAIN msgs : \E q, f : /\ AtWork(s, p) /\ EndsWith(q, s, p, f, TRUE)
                                             /\ q[p] = msgs[p] /\ msgs' = q
  BY DigestStopsStep
<1>2. PICK s \in DOMAIN msgs, p \in DOMAIN msgs :
        \E q, f : /\ AtWork(s, p) /\ EndsWith(q, s, p, f, TRUE) /\ q[p] = msgs[p] /\ msgs' = q
  BY <1>1
<1>3. PICK q, f : AtWork(s, p) /\ EndsWith(q, s, p, f, TRUE) /\ q[p] = msgs[p] /\ msgs' = q
  BY <1>2
<1>4. Followed(q)
  BY <1>3, FollowedByNone DEF EndsWith
<1>5. AtMostOneMore
  BY <1>4 DEF Followed, AtMostOneMore
<1>6. NewFollows /\ StillSums(s, p) /\ ~Digest!Sums(s)'
  BY <1>3, <1>4, <1>5, FollowedKeeps
<1>7. ~Digest!Sums(s)
  <2>1. loopAt = "digest"
    BY DEF Digest!DigestOverflows, Digest!DigestInterrupted
  <2>2. LastSummary(s)
    <3>1. Digest!TypeOK /\ \E m \in DOMAIN msgs : msgs[m].kind = "summary"
      BY <1>3 DEF DigestTypes, AtWork
    <3>2. \A m \in DOMAIN msgs : msgs[m].kind = "summary" => m <= Digest!Newest("summary")
      BY <3>1, NewestIs
    <3> QED BY <1>3, <3>2 DEF LastSummary, AtWork
  <2> QED BY <2>1, <2>2 DEF DigestSafe, AtDigest, Prepared
<1>8. Summed' = Summed
  BY <1>1, <1>3, <1>5, <1>6, <1>7, SummedIs
<1>9. \A m \in DOMAIN msgs : Digest!Asks(m) => msgs'[m].tail = msgs[m].tail
  BY <1>3, <1>6 DEF StillSums
<1>10. Digest!Boundary' = Digest!Boundary
  BY <1>1, <1>8, <1>9, BoundaryStays DEF DigestTypes, Summed
<1>11. Settled'
  <2>1. \A m \in DOMAIN msgs : Digest!Asks(m) /\ msgs'[m].tail # 0 => m \in Summed'
    BY <1>8, <1>9 DEF DigestSafe, Settled, TailsAreSummed
  <2>2. Summed \subseteq Summed' /\ \A c \in Summed' : Newer(Summed', c) =>
             (c \in Summed /\ Newer(Summed, c)) \/ (c + 1 \in DOMAIN msgs' /\ Digest!Assistant(c + 1)')
    BY <1>8
  <2> QED BY <1>1, <1>5, <1>6, <2>1, <2>2, SettledGoes DEF DigestSafe
<1>12. Covered'
  BY <1>1, <1>5, <1>10, CoveredGoes DEF DigestSafe
<1>13. AtDigest'
  BY <1>1 DEF AtDigest
<1> QED BY <1>11, <1>12, <1>13 DEF DigestSafe

\* One that does moves the boundary to its tail at most, and has told what is
\* behind that.
LEMMA ReturnsSafe ==
  ASSUME DigestTypes, DigestSafe, Digest!DigestReturns
  PROVE  DigestSafe'
<1>1. /\ DigestTypes' /\ Grows
      /\ \E s, p \in DOMAIN msgs : \E q : /\ AtWork(s, p) /\ EndsWith(q, s, p, "stop", FALSE)
                                          /\ TailBorne(q, p) /\ Followed(q)
  BY DigestReturnsStep
<1>2. PICK s \in DOMAIN msgs, p \in DOMAIN msgs :
        \E q : AtWork(s, p) /\ EndsWith(q, s, p, "stop", FALSE) /\ TailBorne(q, p) /\ Followed(q)
  BY <1>1
<1>3. PICK q : AtWork(s, p) /\ EndsWith(q, s, p, "stop", FALSE) /\ TailBorne(q, p) /\ Followed(q)
  BY <1>2
<1>4. /\ told' = told \cup digest.head /\ gaveWay' = gaveWay \cup digest.given /\ loopAt' = "top"
      /\ loopAt = "digest"
  BY DEF Digest!DigestReturns
<1>5. AtMostOneMore
  BY <1>3 DEF Followed, AtMostOneMore
<1>6. NewFollows /\ StillSums(s, p) /\ Digest!Sums(s)'
  <2>1. q[p] = msgs[p] \/ Digest!Asks(p)
    BY <1>3 DEF TailBorne
  <2> QED BY <1>3, <1>5, <2>1, FollowedKeeps
<1>7. Prepared(s, p)
  <2>2. LastSummary(s) /\ p = msgs[s].parent
    <3>1. Digest!TypeOK /\ \E m \in DOMAIN msgs : msgs[m].kind = "summary"
      BY <1>3 DEF DigestTypes, AtWork
    <3>2. \A m \in DOMAIN msgs : msgs[m].kind = "summary" => m <= Digest!Newest("summary")
      BY <3>1, NewestIs
    <3> QED BY <1>3, <3>2 DEF LastSummary, AtWork
  <2> QED BY <1>4, <2>2 DEF DigestSafe, AtDigest
<1>8. Summed' = Summed \cup (IF Digest!Asks(p) THEN {p} ELSE {})
  <2>1. ~Digest!Sums(s)
    BY <1>7 DEF Prepared
  <2> QED BY <1>1, <1>3, <1>5, <1>6, <2>1, SummedIs
<1>9. DOMAIN msgs = 1..Len(msgs) /\ Len(msgs) \in Nat /\ p \in Nat /\ digest.keep \in Nat
  <2>1. DOMAIN msgs = 1..Len(msgs) /\ Len(msgs) \in Nat
    BY DEF DigestTypes, Digest!TypeOK
  <2>2. digest.keep \in Nat
    BY ComponentAssumptions DEF DigestTypes, Digest!TypeOK, Digest!Work, Digest!Ids, Digest!ConstantAssumption
  <2> QED BY <2>1, <2>2
<1>10. \A m \in DOMAIN msgs : Digest!Asks(m) /\ msgs'[m].tail # 0 => m \in Summed'
  <2> SUFFICES ASSUME NEW m \in DOMAIN msgs, Digest!Asks(m), msgs'[m].tail # 0 PROVE m \in Summed'
    OBVIOUS
  <2>1. CASE m = p
    BY <1>8, <2>1
  <2>2. CASE m # p
    BY <1>6, <1>8, <2>2 DEF StillSums, DigestSafe, Settled, TailsAreSummed
  <2> QED BY <2>1, <2>2
<1>11. CASE ~Digest!Asks(p) \/ \E d \in Summed : p < d
  <2>1. \A c \in Summed' : Newer(Summed', c) => c \in Summed /\ Newer(Summed, c) /\ (c # p \/ ~Digest!Asks(p))
    <3> SUFFICES ASSUME NEW c \in Summed', Newer(Summed', c)
                 PROVE  c \in Summed /\ Newer(Summed, c) /\ (c # p \/ ~Digest!Asks(p))
      OBVIOUS
    <3>1. Newer(Summed, c)
      BY <1>8 DEF Newer
    <3>2. CASE ~Digest!Asks(p)
      BY <1>8, <3>1, <3>2
    <3>3. CASE \E d \in Summed : p < d
      <4>1. PICK d \in Summed : p < d
        BY <3>3
      <4>2. d <= c /\ d \in Nat /\ c \in Summed \cup {p}
        BY <1>8, <1>9, <3>1, <4>1 DEF Newer, Summed
      <4>3. c # p
        BY <1>9, <4>1, <4>2
      <4> QED BY <3>1, <4>2, <4>3
    <3> QED BY <1>11, <3>2, <3>3
  <2>2. Settled'
    <3>1. Summed \subseteq Summed' /\ \A c \in Summed' : Newer(Summed', c) =>
             (c \in Summed /\ Newer(Summed, c)) \/ (c + 1 \in DOMAIN msgs' /\ Digest!Assistant(c + 1)')
      BY <1>8, <2>1
    <3> QED BY <1>1, <1>5, <1>6, <1>10, <3>1, SettledGoes DEF DigestSafe
  <2>3. Digest!Boundary' = Digest!Boundary
    <3>1. BoundaryFits /\ BoundaryFits'
      <4>1. BoundaryFits
        BY BoundaryIs DEF DigestTypes
      <4>2. BoundaryFits'
        <5>1. Digest!TypeOK'
          BY <1>1 DEF DigestTypes
        <5> QED BY <5>1, BoundaryIs, PTL
      <4> QED BY <4>1, <4>2
    <3>2. CASE Summed' = {}
      <4>1. Summed = {}
        BY <1>8, <3>2
      <4> QED BY <3>1, <3>2, <4>1 DEF BoundaryFits
    <3>3. CASE Summed' # {}
      <4>1. \E c \in Summed' : Newer(Summed', c)
        <5>1. Summed' \in SUBSET (0..Len(msgs))
          BY <1>8, <1>9 DEF Summed
        <5> QED BY <1>9, <3>3, <5>1, LargestOf DEF Newer
      <4>2. PICK c \in Summed' : Newer(Summed', c)
        BY <4>1
      <4>3. c \in Summed /\ Newer(Summed, c) /\ (c # p \/ ~Digest!Asks(p))
        BY <2>1, <4>2
      <4>4. msgs'[c].tail = msgs[c].tail
        BY <1>6, <4>3 DEF Summed, StillSums
      <4>5. Digest!Boundary = IF msgs[c].tail = 0 THEN c ELSE IF msgs[c].tail <= c THEN msgs[c].tail ELSE 1
        BY <3>1, <4>3 DEF BoundaryFits
      <4>6. Newer(Summed, c)'
        BY <4>2 DEF Newer
      <4>7. Digest!Boundary' = IF msgs'[c].tail = 0 THEN c ELSE IF msgs'[c].tail <= c THEN msgs'[c].tail ELSE 1
        BY <3>1, <4>2, <4>6 DEF BoundaryFits
      <4> QED BY <4>4, <4>5, <4>7
    <3> QED BY <3>2, <3>3
  <2>4. Covered'
    BY <1>1, <1>4, <1>5, <2>3, CoveredGoes DEF DigestSafe
  <2>5. AtDigest'
    BY <1>4 DEF AtDigest
  <2> QED BY <2>2, <2>4, <2>5 DEF DigestSafe
<1>12. CASE Digest!Asks(p) /\ ~\E d \in Summed : p < d
  <2>1. (\A d \in Summed : d < p) /\ p + 1 \in DOMAIN msgs /\ Digest!Assistant(p + 1) /\ WillTell(p)
    BY <1>7, <1>12 DEF Prepared
  <2>2. Summed' = Summed \cup {p} /\ p \notin Summed /\ \A d \in Summed : d \in Nat /\ d < p
    BY <1>8, <1>9, <1>12, <2>1 DEF Summed
  <2>3. p \in Summed' /\ Newer(Summed', p) /\ \A c \in Summed' : Newer(Summed', c) => c = p
    BY <1>9, <2>2 DEF Newer
  <2>4. Settled'
    <3>1. p + 1 \in DOMAIN msgs' /\ Digest!Assistant(p + 1)'
      BY <1>1, <2>1 DEF Grows, Digest!Assistant
    <3>2. Summed \subseteq Summed' /\ \A c \in Summed' : Newer(Summed', c) =>
             (c \in Summed /\ Newer(Summed, c)) \/ (c + 1 \in DOMAIN msgs' /\ Digest!Assistant(c + 1)')
      BY <2>2, <2>3, <3>1
    <3> QED BY <1>1, <1>5, <1>6, <1>10, <3>2, SettledGoes DEF DigestSafe
  <2>5. Digest!Boundary' = NewBoundary(p)
    <3>1. BoundaryFits'
      <4>1. Digest!TypeOK'
        BY <1>1 DEF DigestTypes
      <4> QED BY <4>1, BoundaryIs, PTL
    <3>2. Digest!Boundary' = IF msgs'[p].tail = 0 THEN p ELSE IF msgs'[p].tail <= p THEN msgs'[p].tail ELSE 1
      BY <2>3, <3>1 DEF BoundaryFits, Newer
    <3>3. msgs'[p].tail = digest.keep
      <4>1. msgs'[p] = q[p]
        BY <1>3 DEF Followed
      <4>2. CASE digest.keep # 0
        BY <1>3, <1>12, <4>1, <4>2 DEF TailBorne
      <4>3. CASE digest.keep = 0
        <5>1. msgs'[p] = msgs[p]
          BY <1>3, <4>1, <4>3 DEF TailBorne
        <5>2. msgs[p].tail = 0
          BY <1>12, <2>2 DEF DigestSafe, Settled, TailsAreSummed
        <5> QED BY <4>3, <5>1, <5>2
      <4> QED BY <4>2, <4>3
    <3> QED BY <3>2, <3>3 DEF NewBoundary
  <2>6. Covered'
    <3> SUFFICES ASSUME NEW m \in DOMAIN msgs', m < NewBoundary(p), msgs'[m].kind \in {"prompt", "answer"}
                 PROVE  m \in told' \cup gaveWay'
      BY <2>5 DEF Covered, Tells
    <3>1. m \in 1..(Len(msgs) + 1) /\ p \in 1..Len(msgs)
      BY <1>5, <1>9 DEF AtMostOneMore
    <3>2. NewBoundary(p) \in Nat /\ NewBoundary(p) <= p
      BY <1>9, <3>1 DEF NewBoundary
    <3>3. m \in DOMAIN msgs
      BY <1>9, <3>1, <3>2
    <3>4. Tells(m)
      BY <1>1, <3>3 DEF Grows, Tells
    <3> QED BY <1>4, <2>1, <3>3, <3>4 DEF WillTell
  <2>7. AtDigest'
    BY <1>4 DEF AtDigest
  <2> QED BY <2>4, <2>6, <2>7 DEF DigestSafe
<1> QED BY <1>11, <1>12

----------------------------------------------------------------------------
LEMMA DigestInitInv == Digest!Init => DigestIInv
<1> SUFFICES ASSUME Digest!Init PROVE DigestIInv
  OBVIOUS
<1>1. DigestTypes /\ msgs = <<>> /\ loopAt = "rest"
  BY InitTypes DEF Digest!Init
<1>2. Summed = {}
  BY <1>1 DEF Summed
<1>3. Settled
  BY <1>1, <1>2 DEF DigestTypes, Settled, SummaryFollows, TailsAreSummed, NewestIsFollowed
<1>4. Covered /\ AtDigest
  BY <1>1 DEF Covered, AtDigest
<1> QED BY <1>1, <1>3, <1>4 DEF DigestIInv, DigestSafe

LEMMA DigestSafeStep ==
  ASSUME DigestTypes, DigestSafe, Digest!Next, ~failed'
  PROVE  DigestSafe'
<1>1. CASE Digest!Prompt \/ Digest!Summarize
  BY <1>1, ArrivesSafe
<1>2. CASE Digest!Loop
  <2>1. UNCHANGED <<msgs, digest, told, gaveWay, failed>> /\ loopAt' \in {"rest", "top"} /\ msgs # <<>>
    BY <1>2 DEF Digest!Loop
  <2> QED BY <2>1, StillSafe
<1>3. CASE Digest!Top
  BY <1>3, TopSafe
<1>4. CASE Digest!Replies \/ Digest!ReplyOverflows \/ Digest!ReplyStops
  BY <1>4, RepliesSafe
<1>5. CASE Digest!DigestReturns
  BY <1>5, ReturnsSafe
<1>6. CASE Digest!DigestOverflows \/ Digest!DigestInterrupted
  BY <1>6, StopsSafe
<1>7. CASE Digest!DigestFails
  BY <1>7, DigestFailsStep
<1> QED BY <1>1, <1>2, <1>3, <1>4, <1>5, <1>6, <1>7 DEF Digest!Next

LEMMA FailedStays == Digest!Next /\ failed => failed'
  BY DEF Digest!Next, Digest!Prompt, Digest!Summarize, Digest!Arrives, Digest!Loop, Digest!Top,
       Digest!Replies, Digest!ReplyOverflows, Digest!ReplyStops,
         Digest!DigestReturns, Digest!DigestOverflows, Digest!DigestFails, Digest!DigestInterrupted

LEMMA DigestStepInv == DigestIInv /\ [Digest!Next]_(Digest!vars) => DigestIInv'
<1> SUFFICES ASSUME DigestIInv, [Digest!Next]_(Digest!vars) PROVE DigestIInv'
  OBVIOUS
<1>1. DigestTypes'
  BY DigestTypesStep DEF DigestIInv
<1>2. CASE Digest!Next
  <2> SUFFICES ASSUME ~failed' PROVE DigestSafe'
    BY <1>1 DEF DigestIInv
  <2>1. ~failed
    BY <1>2, FailedStays
  <2> QED BY <1>2, <2>1, DigestSafeStep DEF DigestIInv
<1>3. CASE UNCHANGED Digest!vars
  <2>1. UNCHANGED <<msgs, loopAt, digest, told, gaveWay, failed>>
    BY <1>3 DEF Digest!vars
  <2>2. ASSUME DigestSafe PROVE DigestSafe'
    <3>1. Summed' = Summed
      BY <2>1 DEF Summed, Digest!Asks, Digest!Sums
    <3>2. Digest!Boundary' = Digest!Boundary
      BY <2>1 DEF Digest!Boundary, Digest!Largest, Digest!Asks, Digest!Sums
    <3>3. Settled'
      BY <2>1, <2>2, <3>1 DEF DigestSafe, Settled, ParentsFirst, SummaryFollows, TailsAreSummed,
           NewestIsFollowed, Newer, Digest!Asks, Digest!Assistant
    <3>4. Covered'
      BY <2>1, <2>2, <3>2 DEF DigestSafe, Covered, Tells
    <3>5. AtDigest'
      BY <2>1, <2>2, <3>1 DEF DigestSafe, AtDigest, LastSummary, Prepared, Digest!Sums, Digest!Asks,
           Digest!Assistant,
           WillTell, NewBoundary, Tells
    <3> QED BY <3>3, <3>4, <3>5 DEF DigestSafe
  <2> QED BY <1>1, <2>1, <2>2 DEF DigestIInv
<1> QED BY <1>2, <1>3

LEMMA DigestMoves == [Next]_vars => [Digest!Next]_(Digest!vars)
  BY DEF Next, Others, vars, digestVars, Digest!vars

LEMMA DigestInvariant == Spec => []DigestIInv
<1>1. Init => DigestIInv
  BY DigestInitInv DEF Init
<1>2. DigestIInv /\ [Next]_vars => DigestIInv'
  BY DigestMoves, DigestStepInv
<1> QED BY <1>1, <1>2, PTL DEF Spec

\* Whatever the model is no longer shown of a conversation has gone into a
\* summary or gave way to a replayed prompt, unless a summary has failed.
THEOREM NothingFallsBetweenTheorem == Spec => []NothingFallsBetween
<1>1. DigestIInv => NothingFallsBetween
  BY DigestInvGives DEF NothingFallsBetween
<1>2. Spec => []DigestIInv
  BY DigestInvariant
<1> QED BY <1>1, <1>2, PTL

=============================================================================
