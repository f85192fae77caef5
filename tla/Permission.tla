----------------------------- MODULE Permission -----------------------------
(***************************************************************************)
(* permission/index.ts: a tool asks for permission and waits for the user; *)
(* replies settle one request or several; an instance that is disposed     *)
(* rejects what waits in it.  permission-bridge.ts decides some requests   *)
(* before anybody is asked.                                                *)
(*                                                                         *)
(* A request carries patterns; approvals are patterns too, and matching is *)
(* equality: what wildcards cover is left to Config and to the inputs.     *)
(* A generation is one InstanceState of the service: its pending map and   *)
(* its approvals.  Steps are as fine as the operations on these; without   *)
(* Preemptive a fiber keeps the thread until it awaits the deferred.       *)
(***************************************************************************)
EXTENDS Naturals, FiniteSets

CONSTANTS
    Sessions,
    Patterns,
    Inputs,      \* what tools ask for, see ConstantAssumption
    Config,      \* the ruleset's verdict on a pattern: "allow", "deny" or "ask"
    Modes,       \* permission-mode.ts: what the user switches between; read at each request
    Repliers,    \* fibers of the reply route
    MaxAsks,     \* bound: requests ever made
    MaxGens,     \* bound: instances ever made
    Preemptive   \* the scheduler switches fibers between any two steps

ConstantAssumption ==
    /\ \A i \in Inputs :
        /\ i.patterns \in SUBSET Patterns /\ i.patterns # {}
        /\ i.always \in SUBSET Patterns
        /\ i.risk \in {"low", "medium", "high"}
        /\ i.roleDeny \in BOOLEAN        \* role-tool-policy.ts denies the tool
        /\ i.projectWrite \in BOOLEAN    \* a write inside the project, no risk flag
    /\ Modes \subseteq {"default", "auto-review", "full-access"}
    /\ Config \in [Patterns -> {"allow", "deny", "ask"}]
    /\ MaxAsks \in Nat /\ MaxGens \in Nat \ {0}

ASSUME PermissionAssumption == ConstantAssumption

Requests == 1..MaxAsks
Gens == 1..MaxGens
None == 0
Nobody == "nobody"
NoInput == [patterns |-> {}, always |-> {}, risk |-> "low",
            roleDeny |-> FALSE, projectWrite |-> FALSE]

VARIABLES
    asked,      \* number of requests made
    gen,        \* the current generation
    pending,    \* generation -> requests in its pending map
    approved,   \* generation -> patterns approved with "always"
    approvals,  \* history: <<generation, session, pattern>> approved
    state,      \* request -> progress of the asking fiber
    in,         \* request -> what is asked for
    pre,        \* history: request -> the verdict of the pre-check
    session,    \* request -> who asks
    mine,       \* request -> the generation its fiber read
    deferred,   \* request -> "open", "granted" or "rejected"
    answered,   \* history: request -> the user's own reply to it
    rpc,        \* replier -> progress
    reply,      \* replier -> [gen, request, kind]
    cur,        \* replier -> the request it is settling
    seen        \* replier -> entries its loop has looked at

askVars   == <<state, in, pre, session, mine, deferred>>
replyVars == <<rpc, reply, cur, seen>>
mapVars   == <<pending, approved, approvals>>
vars == <<asked, gen, mapVars, askVars, answered, replyVars>>

NoReply == [gen |-> 1, request |-> None, kind |-> "once"]

Init ==
    /\ asked = 0 /\ gen = 1
    /\ pending = [g \in Gens |-> {}]
    /\ approved = [g \in Gens |-> {}]
    /\ approvals = {}
    /\ state = [i \in Requests |-> "none"]
    /\ in = [i \in Requests |-> NoInput]
    /\ pre = [i \in Requests |-> "none"]
    /\ session = [i \in Requests |-> Nobody]
    /\ mine = [i \in Requests |-> 1]
    /\ deferred = [i \in Requests |-> "open"]
    /\ answered = [i \in Requests |-> "none"]
    /\ rpc = [r \in Repliers |-> "idle"]
    /\ reply = [r \in Repliers |-> NoReply]
    /\ cur = [r \in Repliers |-> None]
    /\ seen = [r \in Repliers |-> {}]

----------------------------------------------------------------------------
\* permissionActionForRisk; ask never passes alreadyConfirmed.
RiskAction(risk, confirmed) ==
    CASE risk = "low" -> "allow"
      [] risk = "medium" -> IF confirmed THEN "allow" ELSE "ask"
      [] risk = "high" -> "ask"

\* permissionPreCheck: "none" when it does not intercept.
PreCheck(mode, i) ==
    CASE mode = "default" -> "none"
      [] mode = "full-access" -> "allow"
      [] mode = "auto-review" /\ i.roleDeny -> "deny"
      [] mode = "auto-review" /\ ~i.roleDeny /\ i.risk = "medium" /\ i.projectWrite -> "allow"
      [] OTHER -> RiskAction(i.risk, FALSE)

\* evaluate: the last matching rule wins, and approvals come last.
Evaluate(p, appr) == IF p \in appr THEN "allow" ELSE Config[p]

\* Mutant of Decide: a risk that must be asked about is not.
DecideUnforced(mode, i, appr) ==
    LET verdict == PreCheck(mode, i)
        verdicts == {Evaluate(p, appr) : p \in i.patterns}
    IN  CASE verdict \in {"allow", "ask"} -> "granted"
          [] verdict = "deny" \/ "deny" \in verdicts -> "denied"
          [] verdict = "none" /\ verdicts = {"allow"} -> "granted"
          [] OTHER -> "evaluated"

\* What ask does before anybody is involved.
Decide(mode, i, appr) ==
    LET verdict == PreCheck(mode, i)
        verdicts == {Evaluate(p, appr) : p \in i.patterns}
    IN  CASE verdict = "allow" -> "granted"
          [] verdict = "deny" -> "denied"
          [] verdict \in {"ask", "none"} /\ "deny" \in verdicts -> "denied"
          [] verdict = "none" /\ verdicts = {"allow"} -> "granted"
          [] OTHER -> "evaluated"

\* ask reads the instance's state and decides.
Ask(s, i, mode) ==
    /\ asked < MaxAsks
    /\ LET n == asked + 1 IN
       /\ asked' = n
       /\ state' = [state EXCEPT ![n] = Decide(mode, i, approved[gen])]
       /\ in' = [in EXCEPT ![n] = i]
       /\ pre' = [pre EXCEPT ![n] = PreCheck(mode, i)]
       /\ session' = [session EXCEPT ![n] = s]
       /\ mine' = [mine EXCEPT ![n] = gen]
    /\ UNCHANGED <<gen, mapVars, deferred, answered, replyVars>>

\* pending.set(id, ...) and the Asked event.
Register(n) ==
    /\ state[n] = "evaluated"
    /\ pending' = [pending EXCEPT ![mine[n]] = @ \cup {n}]
    /\ state' = [state EXCEPT ![n] = "registered"]
    /\ UNCHANGED <<asked, gen, approved, approvals, in, pre, session, mine, deferred,
                   answered, replyVars>>

\* From here on the finalizer that deletes the entry is installed.
Await(n) ==
    /\ state[n] = "registered"
    /\ state' = [state EXCEPT ![n] = "awaiting"]
    /\ UNCHANGED <<asked, gen, mapVars, in, pre, session, mine, deferred, answered, replyVars>>

Forget(n) == pending' = [pending EXCEPT ![mine[n]] = @ \ {n}]

AskReturns(n) ==
    /\ state[n] = "awaiting" /\ deferred[n] # "open"
    /\ state' = [state EXCEPT ![n] = deferred[n]]
    /\ Forget(n)
    /\ UNCHANGED <<asked, gen, approved, approvals, in, pre, session, mine, deferred,
                   answered, replyVars>>

\* The tool call may be aborted while it waits and, where fibers are
\* preempted, before the finalizer that deletes the entry is installed.
MayAbort(n) ==
    \/ state[n] = "awaiting"
    \/ Preemptive /\ state[n] \in {"evaluated", "registered"}

\* Mutant of Abort: no finalizer deletes the entry.
AbortLeavesEntry(n) ==
    /\ MayAbort(n)
    /\ state' = [state EXCEPT ![n] = "aborted"]
    /\ UNCHANGED <<asked, gen, mapVars, in, pre, session, mine, deferred, answered, replyVars>>

Abort(n) ==
    /\ MayAbort(n)
    /\ state' = [state EXCEPT ![n] = "aborted"]
    /\ IF state[n] = "awaiting" THEN Forget(n) ELSE UNCHANGED pending
    /\ UNCHANGED <<asked, gen, approved, approvals, in, pre, session, mine, deferred,
                   answered, replyVars>>

----------------------------------------------------------------------------
\* reply to a request that is not pending does nothing.
Reply(r, n, kind) ==
    /\ rpc[r] = "idle"
    /\ n \in pending[gen]
    /\ reply' = [reply EXCEPT ![r] = [gen |-> gen, request |-> n, kind |-> kind]]
    /\ pending' = [pending EXCEPT ![gen] = @ \ {n}]
    /\ answered' = [answered EXCEPT ![n] = kind]
    /\ cur' = [cur EXCEPT ![r] = n]
    /\ seen' = [seen EXCEPT ![r] = {}]
    /\ rpc' = [rpc EXCEPT ![r] = "settle"]
    /\ UNCHANGED <<asked, gen, approved, approvals, askVars>>

\* Mutant of Settle: "reject" rejects the others only.
SettleRejectsOthers(r) ==
    LET q == reply[r]
        first == cur[r] = q.request
    IN
    /\ rpc[r] = "settle"
    /\ deferred' = [deferred EXCEPT ![cur[r]] =
                       IF @ # "open" \/ (first /\ q.kind = "reject") THEN @
                       ELSE IF q.kind = "reject" THEN "rejected" ELSE "granted"]
    /\ IF first /\ q.kind = "always"
       THEN /\ approved' = [approved EXCEPT ![q.gen] = @ \cup in[q.request].always]
            /\ approvals' = approvals \cup
                  {<<q.gen, session[q.request], p>> : p \in in[q.request].always}
       ELSE UNCHANGED <<approved, approvals>>
    /\ rpc' = [rpc EXCEPT ![r] = IF q.kind = "once" THEN "idle" ELSE "loop"]
    /\ cur' = [cur EXCEPT ![r] = None]
    /\ UNCHANGED <<asked, gen, pending, state, in, pre, session, mine, answered, reply, seen>>

\* The Replied event is out: the deferred is resolved.  "always" then adds
\* the approvals, and only "once" is done.
Settle(r) ==
    LET q == reply[r]
        first == cur[r] = q.request
    IN
    /\ rpc[r] = "settle"
    /\ deferred' = [deferred EXCEPT ![cur[r]] =
                       IF @ # "open" THEN @
                       ELSE IF q.kind = "reject" THEN "rejected" ELSE "granted"]
    /\ IF first /\ q.kind = "always"
       THEN /\ approved' = [approved EXCEPT ![q.gen] = @ \cup in[q.request].always]
            /\ approvals' = approvals \cup
                  {<<q.gen, session[q.request], p>> : p \in in[q.request].always}
       ELSE UNCHANGED <<approved, approvals>>
    /\ rpc' = [rpc EXCEPT ![r] = IF q.kind = "once" THEN "idle" ELSE "loop"]
    /\ cur' = [cur EXCEPT ![r] = None]
    /\ UNCHANGED <<asked, gen, pending, state, in, pre, session, mine, answered, reply, seen>>

\* The loop over the pending map: an entry of another session, or one that
\* "always" does not cover, is passed over.
Same(r, n) == session[n] = session[reply[r].request]

Covered(r, n) == \A p \in in[n].patterns : p \in approved[reply[r].gen]

\* Mutants of Takes: the session test is inverted; "always" settles the whole
\* session.
TakesOthers(r, n) == ~Same(r, n) /\ (reply[r].kind = "always" => Covered(r, n))
TakesSession(r, n) == Same(r, n)

Takes(r, n) == Same(r, n) /\ (reply[r].kind = "always" => Covered(r, n))

Left(r) == pending[reply[r].gen] \ seen[r]

LoopTake(r, n) ==
    /\ rpc[r] = "loop" /\ n \in Left(r) /\ Takes(r, n)
    /\ pending' = [pending EXCEPT ![reply[r].gen] = @ \ {n}]
    /\ cur' = [cur EXCEPT ![r] = n]
    /\ rpc' = [rpc EXCEPT ![r] = "settle"]
    /\ UNCHANGED <<asked, gen, approved, approvals, askVars, answered, reply, seen>>

\* Mutant of LoopSkip: the entry is deleted before it is passed over.
LoopSkipDeletes(r, n) ==
    /\ rpc[r] = "loop" /\ n \in Left(r) /\ ~Takes(r, n)
    /\ pending' = [pending EXCEPT ![reply[r].gen] = @ \ {n}]
    /\ UNCHANGED <<asked, gen, approved, approvals, askVars, answered, rpc, reply, cur, seen>>

LoopSkip(r, n) ==
    /\ rpc[r] = "loop" /\ n \in Left(r) /\ ~Takes(r, n)
    /\ seen' = [seen EXCEPT ![r] = @ \cup {n}]
    /\ UNCHANGED <<asked, gen, mapVars, askVars, answered, rpc, reply, cur>>

LoopEnd(r) ==
    /\ rpc[r] = "loop" /\ Left(r) = {}
    /\ rpc' = [rpc EXCEPT ![r] = "idle"]
    /\ UNCHANGED <<asked, gen, mapVars, askVars, answered, reply, cur, seen>>

\* The instance is disposed (or reloaded): what waits in it is rejected, and
\* the next access makes a new state.
Dispose ==
    /\ gen < MaxGens
    /\ gen' = gen + 1
    /\ deferred' = [n \in Requests |-> IF n \in pending[gen] /\ deferred[n] = "open"
                                       THEN "rejected" ELSE deferred[n]]
    /\ pending' = [pending EXCEPT ![gen] = {}]
    /\ UNCHANGED <<asked, approved, approvals, state, in, pre, session, mine, answered, replyVars>>

----------------------------------------------------------------------------
MidAsk == {n \in Requests : state[n] \in {"evaluated", "registered"}}
MidReply == {r \in Repliers : rpc[r] # "idle"}
Free == Preemptive \/ (MidAsk = {} /\ MidReply = {})
AskTurn(n) == Preemptive \/ (MidAsk \subseteq {n} /\ MidReply = {})
ReplyTurn(r) == Preemptive \/ (MidReply \subseteq {r} /\ MidAsk = {})

AskStep(n) == AskTurn(n) /\ (Register(n) \/ Await(n) \/ AskReturns(n))

ReplyStep(r) == ReplyTurn(r) /\ (Settle(r) \/ LoopEnd(r)
                                 \/ \E n \in Requests : LoopTake(r, n) \/ LoopSkip(r, n))

NewAsk == \E s \in Sessions, i \in Inputs, m \in Modes : Free /\ Ask(s, i, m)
NewReply == \E r \in Repliers, n \in Requests, k \in {"once", "always", "reject"} :
                Free /\ Reply(r, n, k)
NewAbort == \E n \in Requests : Free /\ Abort(n)
DisposeFree == Free /\ Dispose

\* Everything may be asked, answered and settled: the system rests.
Rest == /\ asked = MaxAsks /\ MidReply = {}
        /\ \A n \in Requests : state[n] \notin {"evaluated", "registered", "awaiting"}
        /\ UNCHANGED vars

Next == NewAsk \/ NewReply \/ NewAbort \/ DisposeFree \/ Rest
        \/ (\E n \in Requests : AskStep(n)) \/ (\E r \in Repliers : ReplyStep(r))

Spec == Init /\ [][Next]_vars

\* Fibers of asks and replies go on; the user need not reply.
FairSpec == /\ Spec
            /\ \A n \in Requests : WF_vars(AskStep(n))
            /\ \A r \in Repliers : WF_vars(ReplyStep(r))
----------------------------------------------------------------------------
TypeOK ==
    /\ asked \in 0..MaxAsks /\ gen \in Gens
    /\ pending \in [Gens -> SUBSET Requests]
    /\ approved \in [Gens -> SUBSET Patterns]
    /\ state \in [Requests -> {"none", "evaluated", "registered", "awaiting",
                               "granted", "denied", "rejected", "aborted"}]
    /\ in \in [Requests -> Inputs \cup {NoInput}]
    /\ pre \in [Requests -> {"none", "allow", "ask", "deny"}]
    /\ session \in [Requests -> Sessions \cup {Nobody}]
    /\ mine \in [Requests -> Gens]
    /\ deferred \in [Requests -> {"open", "granted", "rejected"}]
    /\ answered \in [Requests -> {"none", "once", "always", "reject"}]
    /\ rpc \in [Repliers -> {"idle", "settle", "loop"}]
    /\ cur \in [Repliers -> Requests \cup {None}]
    /\ seen \in [Repliers -> SUBSET Requests]

\* A tool that waits can still be answered: its request is in the map that
\* replies look at, a reply has taken it, or its answer is there.
WaitingCanBeAnswered ==
    \A n \in Requests :
        state[n] = "awaiting" =>
            \/ deferred[n] # "open"
            \/ n \in pending[gen]
            \/ \E r \in Repliers : cur[r] = n

\* The list shown to the user holds only requests whose tool still waits.
NoGhostPrompts ==
    \A g \in Gens : \A n \in pending[g] : state[n] \in {"registered", "awaiting"}

\* Those who wait and the prompts shown to the user match.
PromptsMatchWaiters == WaitingCanBeAnswered /\ NoGhostPrompts

\* Nothing runs without a reason: the pre-check allowed it, the user answered
\* this very request, or every pattern is allowed by the configuration or by
\* an approval made in the instance the request was asked in.
GrantsAreJustified ==
    \A n \in Requests :
        state[n] = "granted" =>
            \/ pre[n] = "allow"
            \/ answered[n] \in {"once", "always"}
            \/ \A p \in in[n].patterns : Config[p] = "allow" \/ p \in approved[mine[n]]

\* What is asked where fibers are preempted at every step, too.
PromptsHold == WaitingCanBeAnswered /\ GrantsAreJustified

\* Between replies nobody in a session is prompted for what that session has
\* approved for good, unless the risk rules force the prompt.
NoNeedlessPrompt ==
    \A n \in pending[gen] :
        MidReply = {} /\ pre[n] = "none" =>
            ~(\A p \in in[n].patterns : <<gen, session[n], p>> \in approvals)

\* A request that was answered or whose instance is gone does not wait on.
AnsweredWaits(n) == state[n] = "awaiting" /\ (answered[n] # "none" \/ mine[n] # gen)

AnsweredReturns == \A n \in Requests : AnsweredWaits(n) ~> ~AnsweredWaits(n)
=============================================================================
