----------------------------- MODULE Processor -----------------------------
(***************************************************************************)
(* The message processor: it drains the event stream of one answer of the  *)
(* model into the parts of an assistant message, while the tools that the  *)
(* model calls run beside it.                                              *)
(*                                                                         *)
(* Source: packages/opencode/src/session/processor.ts, with the tools'     *)
(* side of it in packages/opencode/src/session/prompt.ts and the retry     *)
(* policy of packages/opencode/src/session/retry.ts.                       *)
(*                                                                         *)
(* Of the parts only tool parts are kept: they are the ones that two       *)
(* actors write.  A part is read and written back without a wait between,  *)
(* so each read and write is one step.  Call ids are not reused.           *)
(***************************************************************************)
EXTENDS Naturals, Sequences

CONSTANTS
    Calls,        \* the tool calls that the model may make
    MaxAttempts   \* bound: streams opened for one answer

ConstantAssumption == MaxAttempts \in Nat \ {0}

Final == {"completed", "error", "removed"}
Kinds == {"start", "call", "result", "failure", "rejection"}

VARIABLES
    part,     \* part[k]: the status of the tool part of call k
    open,     \* the calls in ctx.toolcalls
    tool,     \* tool[k]: the call on the side of the AI SDK and the tool
    born,     \* born[k]: the attempt whose stream made the call
    events,   \* events of the stream not yet handled
    pc,       \* where process() is
    attempt,  \* the stream that is open, or was last
    finish,   \* whether the stream's finish-step has been sent: "no", "fits", "overflow"
    error,    \* error of the assistant message: "none", "aborted", "failed"
    compact,  \* ctx.needsCompaction
    blocked,  \* ctx.blocked
    break,    \* ctx.shouldBreak, from the configuration
    summary,  \* whether the message is a summary
    aborted   \* whether process() has been interrupted

vars == <<part, open, tool, born, events, pc, attempt, finish, error, compact,
          blocked, break, summary, aborted>>
ctxVars == <<error, compact, blocked>>
toolVars == <<tool, born>>
fixed == <<break, summary>>

TypeOK ==
    /\ part \in [Calls -> {"none", "pending", "running"} \cup Final]
    /\ open \subseteq Calls
    /\ tool \in [Calls -> {"none", "input", "running", "returned", "failed"}]
    /\ born \in [Calls -> 0..MaxAttempts]
    /\ events \in Seq([kind : Kinds, call : Calls] \cup [kind : {"finish-step"}])
    /\ pc \in {"stream", "asking", "backoff", "patching", "waiting", "done"}
    /\ attempt \in 1..MaxAttempts
    /\ finish \in {"no", "fits", "overflow"}
    /\ error \in {"none", "aborted", "failed"}
    /\ compact \in BOOLEAN /\ blocked \in BOOLEAN /\ break \in BOOLEAN
    /\ summary \in BOOLEAN /\ aborted \in BOOLEAN

Init ==
    /\ part = [k \in Calls |-> "none"]
    /\ open = {}
    /\ tool = [k \in Calls |-> "none"]
    /\ born = [k \in Calls |-> 0]
    /\ events = <<>>
    /\ pc = "stream"
    /\ attempt = 1
    /\ finish = "no"
    /\ error = "none"
    /\ compact = FALSE /\ blocked = FALSE /\ aborted = FALSE
    /\ break \in BOOLEAN
    /\ summary \in BOOLEAN

----------------------------------------------------------------------------
(* The writers of a tool part.  A call without an entry, or whose part is  *)
(* gone, is left alone; the latter also loses its entry.                   *)

Readable(k) == k \in open /\ part[k] # "removed"

\* Mutant of Settle: the entry stays.
SettleKeeps(k, status) ==
    IF Readable(k) /\ part[k] = "running"
    THEN part' = [part EXCEPT ![k] = status] /\ open' = open
    ELSE part' = part /\ open' = IF part[k] = "removed" THEN open \ {k} ELSE open

\* settleToolCall, after the part has got its last status.
Settle(k, status) ==
    IF Readable(k) /\ part[k] = "running"
    THEN part' = [part EXCEPT ![k] = status] /\ open' = open \ {k}
    ELSE part' = part /\ open' = IF part[k] = "removed" THEN open \ {k} ELSE open

\* updateToolCall to running, if the part has one of the given statuses.
Run(k, from) ==
    IF Readable(k)
    THEN part' = [part EXCEPT ![k] = IF @ \in from THEN "running" ELSE @] /\ open' = open
    ELSE part' = part /\ open' = open \ {k}

----------------------------------------------------------------------------
(* The stream and the tools.                                               *)

Streaming == pc \in {"stream", "asking"}

\* The abort signal that a tool was given is raised when its stream closes.
Cut(k) == born[k] # attempt \/ ~Streaming

Emit(e) == events' = Append(events, e)

ModelNamesTool(k) ==
    /\ Streaming /\ finish = "no" /\ tool[k] = "none"
    /\ tool' = [tool EXCEPT ![k] = "input"]
    /\ born' = [born EXCEPT ![k] = attempt]
    /\ Emit([kind |-> "start", call |-> k])
    /\ UNCHANGED <<part, open, pc, attempt, finish, ctxVars, fixed, aborted>>

\* The input is complete: the SDK sends the event and starts the tool.
ModelCallsTool(k) ==
    /\ Streaming /\ tool[k] = "input" /\ born[k] = attempt
    /\ tool' = [tool EXCEPT ![k] = "running"]
    /\ Emit([kind |-> "call", call |-> k])
    /\ UNCHANGED <<part, open, born, pc, attempt, finish, ctxVars, fixed, aborted>>

\* The tool reports progress.
ToolReports(k) ==
    /\ tool[k] = "running"
    /\ Run(k, {"running", "pending"})
    /\ UNCHANGED <<toolVars, events, pc, attempt, finish, ctxVars, fixed, aborted>>

\* The tool returns: to the stream, or, when that is closed, to the processor.
ToolReturns(k) ==
    /\ tool[k] = "running"
    /\ tool' = [tool EXCEPT ![k] = "returned"]
    /\ IF Cut(k)
       THEN Settle(k, "completed") /\ UNCHANGED events
       ELSE Emit([kind |-> "result", call |-> k]) /\ UNCHANGED <<part, open>>
    /\ UNCHANGED <<born, pc, attempt, finish, ctxVars, fixed, aborted>>

\* The tool fails, perhaps because the user rejects what it asks.
ToolFails(k, kind) ==
    /\ tool[k] = "running"
    /\ tool' = [tool EXCEPT ![k] = "failed"]
    /\ IF Cut(k) THEN UNCHANGED events ELSE Emit([kind |-> kind, call |-> k])
    /\ UNCHANGED <<part, open, born, pc, attempt, finish, ctxVars, fixed, aborted>>

\* The step ends once the tools it has called have.
StepFinishes(f) ==
    /\ Streaming /\ finish = "no"
    /\ \A k \in Calls : born[k] = attempt => tool[k] \in {"returned", "failed"}
    /\ finish' = f
    /\ Emit([kind |-> "finish-step"])
    /\ UNCHANGED <<part, open, toolVars, pc, attempt, ctxVars, fixed, aborted>>

----------------------------------------------------------------------------
(* process(): the handler of the stream's next event.                      *)

CloseStream(next) == pc' = next /\ events' = <<>>

\* An error that is not retried ends the answer: halt().
Halt ==
    /\ CloseStream("patching")
    /\ error' = "failed"
    /\ UNCHANGED <<attempt, finish, compact>>

Next1 == Head(events)
Consume == events' = Tail(events)

\* A summary may not call tools: the handler throws.
HandleInSummary ==
    /\ summary /\ Next1.kind \in {"start", "call"}
    /\ Halt
    /\ UNCHANGED <<part, open, blocked>>

HandleStart(k) ==
    /\ Next1.kind = "start" /\ ~summary
    /\ part' = [part EXCEPT ![k] = "pending"]
    /\ open' = open \cup {k}
    /\ Consume
    /\ UNCHANGED <<pc, attempt, finish, ctxVars>>

\* The call that repeats the last ones waits for the user.
HandleCall(k) ==
    /\ Next1.kind = "call" /\ ~summary
    /\ Run(k, {"pending", "running", "completed", "error"})
    /\ Consume
    /\ pc' \in {"stream", "asking"}
    /\ UNCHANGED <<attempt, finish, ctxVars>>

HandleResult(k) ==
    /\ Next1.kind = "result"
    /\ Settle(k, "completed")
    /\ Consume
    /\ UNCHANGED <<pc, attempt, finish, ctxVars>>

HandleFailure(k) ==
    /\ Next1.kind \in {"failure", "rejection"}
    /\ Settle(k, "error")
    /\ blocked' = IF Next1.kind = "rejection" /\ Readable(k) /\ part[k] = "running"
                  THEN break ELSE blocked
    /\ Consume
    /\ UNCHANGED <<pc, attempt, finish, error, compact>>

\* The stream is left when the context has to be compacted.
HandleFinishStep ==
    /\ Next1.kind = "finish-step"
    /\ IF finish = "overflow" /\ ~summary
       THEN compact' = TRUE /\ CloseStream("patching")
       ELSE compact' = compact /\ pc' = pc /\ Consume
    /\ UNCHANGED <<part, open, attempt, finish, error, blocked>>

Handle ==
    /\ pc = "stream" /\ events # <<>>
    /\ \/ HandleInSummary
       \/ HandleFinishStep
       \/ /\ Next1.kind # "finish-step"
          /\ LET k == Next1.call IN
                HandleStart(k) \/ HandleCall(k) \/ HandleResult(k) \/ HandleFailure(k)
    /\ UNCHANGED <<toolVars, fixed, aborted>>

\* The user answers the question about the repeated call.
Answered(granted) ==
    /\ pc = "asking"
    /\ IF granted
       THEN pc' = "stream" /\ UNCHANGED <<events, error, attempt, finish, compact>>
       ELSE Halt
    /\ UNCHANGED <<part, open, toolVars, blocked, fixed, aborted>>

StreamEnds ==
    /\ pc = "stream" /\ events = <<>> /\ finish # "no"
    /\ CloseStream("patching")
    /\ UNCHANGED <<part, open, toolVars, attempt, finish, ctxVars, fixed, aborted>>

\* The provider fails: the answer is tried again, given up, or the context has
\* turned out too long.  A handler that waits for the user hides it.
StreamFails ==
    /\ pc = "stream"
    /\ \/ /\ attempt < MaxAttempts
          /\ CloseStream("backoff")
          /\ UNCHANGED <<attempt, finish, error, compact>>
       \/ Halt
       \/ /\ CloseStream("patching")
          /\ compact' = TRUE
          /\ UNCHANGED <<attempt, finish, error>>
    /\ UNCHANGED <<part, open, toolVars, blocked, fixed, aborted>>

\* The delay is over: a new stream; what the tools of the old one left open
\* stays open.
Retry ==
    /\ pc = "backoff"
    /\ pc' = "stream"
    /\ attempt' = attempt + 1
    /\ finish' = "no"
    /\ UNCHANGED <<part, open, toolVars, events, ctxVars, fixed, aborted>>

\* The runner interrupts the answer.  Only a stream that is open records the
\* abort in the message.
Interrupt ==
    /\ pc \in {"stream", "asking", "backoff"}
    /\ aborted' = TRUE
    /\ CloseStream("patching")
    /\ error' = IF Streaming THEN "aborted" ELSE error
    /\ UNCHANGED <<part, open, toolVars, attempt, finish, compact, blocked, fixed>>

----------------------------------------------------------------------------
(* cleanup(), which nothing interrupts.                                    *)

\* The files are compared with the snapshot and the text is closed.
PatchTaken ==
    /\ pc = "patching"
    /\ pc' = "waiting"
    /\ UNCHANGED <<part, open, toolVars, events, attempt, finish, ctxVars, fixed, aborted>>

\* Mutant of CleanupEnds: what is still open stays as it is.
CleanupForgets ==
    /\ pc = "waiting"
    /\ open' = {}
    /\ pc' = "done"
    /\ UNCHANGED <<part, toolVars, events, attempt, finish, ctxVars, fixed, aborted>>

\* The calls still open have ended, or the time given to them is over: what is
\* still open is marked as aborted.
CleanupEnds ==
    /\ pc = "waiting"
    /\ part' = [k \in Calls |-> IF Readable(k) THEN "error" ELSE part[k]]
    /\ open' = {}
    /\ pc' = "done"
    /\ UNCHANGED <<toolVars, events, attempt, finish, ctxVars, fixed, aborted>>

\* A client deletes a part of the message.
PartRemoved(k) ==
    /\ part[k] \notin {"none", "removed"}
    /\ part' = [part EXCEPT ![k] = "removed"]
    /\ UNCHANGED <<open, toolVars, events, pc, attempt, finish, ctxVars, fixed, aborted>>

Result == IF compact THEN "compact" ELSE IF blocked \/ error # "none" THEN "stop" ELSE "continue"

----------------------------------------------------------------------------

Model == \/ \E k \in Calls : ModelNamesTool(k) \/ ModelCallsTool(k)
         \/ \E f \in {"fits", "overflow"} : StepFinishes(f)
Tools == \E k \in Calls : \/ ToolReports(k) \/ ToolReturns(k)
                          \/ \E kind \in {"failure", "rejection"} : ToolFails(k, kind)
Process == Handle \/ StreamEnds \/ Retry \/ PatchTaken \/ CleanupEnds

Next ==
    \/ Model \/ Tools \/ Process
    \/ \E granted \in BOOLEAN : Answered(granted)
    \/ StreamFails \/ Interrupt
    \/ \E k \in Calls : PartRemoved(k)

Fairness == WF_vars(Process)

Spec == Init /\ [][Next]_vars
FairSpec == Spec /\ Fairness

----------------------------------------------------------------------------
(* Properties.                                                             *)

\* Once process() has returned no tool call is left pending or running, and a
\* tool that ends later finds nothing to write.
NothingLeftOpen ==
    pc = "done" => open = {} /\ \A k \in Calls : part[k] \in Final \cup {"none"}

\* The first last word stands: a call that has been completed, has failed, has
\* been marked as aborted or has been deleted keeps that status, although the
\* stream, the tool and the cleanup all write it.
FirstOutcomeStands ==
    [][\A k \in Calls :
        /\ part[k] \in {"completed", "error"} => part'[k] \in {part[k], "removed"}
        /\ part[k] = "removed" => part'[k] = "removed"]_vars

\* A call is shown as completed only if its tool has returned, whichever of the
\* streams it belonged to.
CompletedHasReturned == \A k \in Calls : part[k] = "completed" => tool[k] = "returned"

\* An interrupted answer comes to its end although its tools may never do.
AbortWaits == aborted /\ pc # "done"

AbortReturns == AbortWaits ~> ~AbortWaits
=============================================================================
