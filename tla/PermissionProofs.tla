-------------------------- MODULE PermissionProofs --------------------------
(***************************************************************************)
(* Nothing runs without a reason, however the fibers interleave, and those *)
(* who wait match the prompts shown where fibers keep their turns.         *)
(***************************************************************************)
EXTENDS Permission, TLAPS

\* A reply in work is one that the route accepts.
ReplyTyped == reply \in [Repliers -> [gen : Gens, request : Requests \cup {None},
                                      kind : {"once", "always", "reject"}]]

\* Nothing is known of a request before it is made.
Unmade ==
    \A n \in Requests : n > asked => /\ state[n] = "none" /\ deferred[n] = "open"
                                     /\ \A r \in Repliers : cur[r] # n

\* What is listed was registered in its own instance and not answered.
Listed ==
    /\ \A g \in Gens : \A n \in pending[g] : /\ mine[n] = g /\ answered[n] = "none"
                                            /\ state[n] \notin {"none", "evaluated"}
    /\ \A n \in Requests : state[n] \in {"none", "evaluated"} => answered[n] = "none"

Excused(n) ==
    \/ answered[n] \in {"once", "always"}
    \/ \A p \in in[n].patterns : Config[p] = "allow" \/ p \in approved[mine[n]]

\* A reply that grants has a reason for the request it settles.
Settling ==
    \A r \in Repliers : /\ rpc[r] = "settle" <=> cur[r] # None
                        /\ rpc[r] = "loop" => reply[r].kind # "once"
                        /\ rpc[r] = "settle" /\ reply[r].kind # "reject" => Excused(cur[r])

Reasoned ==
    \A n \in Requests : state[n] = "granted" \/ deferred[n] = "granted"
                        => pre[n] = "allow" \/ Excused(n)

IInv == TypeOK /\ ReplyTyped /\ Unmade /\ Listed /\ Settling /\ Reasoned

----------------------------------------------------------------------------

LEMMA InitInv ==
  ASSUME Init
  PROVE  IInv
<1>1. /\ asked \in 0..MaxAsks /\ gen \in Gens /\ 1 \in Gens
  BY PermissionAssumption DEF ConstantAssumption, Init, Gens
<1>2. TypeOK /\ ReplyTyped
  BY <1>1 DEF Init, TypeOK, ReplyTyped, NoReply, None
<1>3. Unmade /\ Listed /\ Settling /\ Reasoned
  BY DEF Init, Unmade, Listed, Settling, Reasoned, Requests, None
<1> QED BY <1>2, <1>3 DEF IInv

\* Reasons are kept where no new request is made.
LEMMA ExcuseKept ==
  ASSUME TypeOK, UNCHANGED <<in, mine>>,
         \A g \in Gens : approved[g] \subseteq approved'[g],
         NEW n \in Requests, Excused(n), answered'[n] = answered[n] \/ answered[n] = "none"
  PROVE  Excused(n)'
  BY DEF TypeOK, Excused

LEMMA AskInv ==
  ASSUME IInv, NEW s \in Sessions, NEW i \in Inputs, NEW mode \in Modes, Ask(s, i, mode)
  PROVE  IInv'
<1> DEFINE n == asked + 1
<1>1. /\ n \in Requests /\ asked' = n /\ asked' \in 0..MaxAsks
      /\ \A m \in Requests : m > asked' => m > asked /\ m # n
      /\ \A m \in Requests : m # n => m \in Requests
  BY PermissionAssumption DEF ConstantAssumption, IInv, TypeOK, Ask, Requests
<1>2. /\ state' = [state EXCEPT ![n] = Decide(mode, i, approved[gen])]
      /\ in' = [in EXCEPT ![n] = i] /\ pre' = [pre EXCEPT ![n] = PreCheck(mode, i)]
      /\ session' = [session EXCEPT ![n] = s] /\ mine' = [mine EXCEPT ![n] = gen]
      /\ UNCHANGED <<gen, mapVars, deferred, answered, replyVars>>
  BY DEF Ask
<1>3. /\ state[n] = "none" /\ deferred[n] = "open" /\ answered[n] = "none"
      /\ \A r \in Repliers : cur[r] # n
      /\ \A g \in Gens : n \notin pending[g]
  BY <1>1 DEF IInv, Unmade, Listed, TypeOK, Requests
<1>4. /\ Decide(mode, i, approved[gen]) \in {"granted", "denied", "evaluated"}
      /\ PreCheck(mode, i) \in {"none", "allow", "ask", "deny"}
  BY PermissionAssumption DEF ConstantAssumption, Decide, PreCheck, RiskAction
<1>5. Decide(mode, i, approved[gen]) = "granted"
      => PreCheck(mode, i) = "allow"
         \/ \A p \in i.patterns : Config[p] = "allow" \/ p \in approved[gen]
  <2>1. ASSUME {Evaluate(p, approved[gen]) : p \in i.patterns} = {"allow"}, NEW p \in i.patterns
        PROVE  Config[p] = "allow" \/ p \in approved[gen]
    BY <2>1 DEF Evaluate
  <2> QED BY <2>1, <1>4 DEF Decide
<1> HIDE DEF n
<1>6. TypeOK' /\ ReplyTyped'
  BY <1>1, <1>2, <1>4 DEF IInv, TypeOK, ReplyTyped, mapVars, replyVars
<1>7. /\ \A m \in Requests : m # n => /\ state'[m] = state[m] /\ in'[m] = in[m]
                                      /\ pre'[m] = pre[m] /\ mine'[m] = mine[m]
      /\ state'[n] = Decide(mode, i, approved[gen]) /\ in'[n] = i
      /\ pre'[n] = PreCheck(mode, i) /\ mine'[n] = gen
  BY <1>1, <1>2 DEF IInv, TypeOK
<1>8. Unmade' /\ Listed'
  BY <1>1, <1>2, <1>3, <1>7 DEF IInv, TypeOK, Unmade, Listed, mapVars, replyVars
<1>9. \A m \in Requests : m # n => (Excused(m) <=> Excused(m)')
  BY <1>2, <1>7 DEF Excused, mapVars
<1>10. Settling'
  BY <1>1, <1>2, <1>3, <1>9 DEF IInv, TypeOK, Settling, mapVars, replyVars, None
<1>11. Reasoned'
  BY <1>2, <1>3, <1>5, <1>7, <1>9 DEF IInv, Reasoned, Excused, mapVars
<1> QED BY <1>6, <1>8, <1>10, <1>11 DEF IInv

\* Registering, awaiting, returning and being aborted.
LEMMA AskerInv ==
  ASSUME IInv, NEW n \in Requests, Register(n) \/ Await(n) \/ AskReturns(n) \/ Abort(n)
  PROVE  IInv'
<1>1. /\ state[n] # "none"
      /\ UNCHANGED <<asked, gen, approved, approvals, in, pre, session, mine, deferred, answered,
                     replyVars>>
      /\ \/ \E t \in {"registered", "awaiting", "aborted"} : state' = [state EXCEPT ![n] = t]
         \/ state' = [state EXCEPT ![n] = deferred[n]] /\ deferred[n] # "open"
  BY DEF Register, Await, AskReturns, Abort, MayAbort, mapVars
<1>2. \/ pending' = pending
      \/ pending' = [pending EXCEPT ![mine[n]] = @ \ {n}]
      \/ pending' = [pending EXCEPT ![mine[n]] = @ \cup {n}] /\ state'[n] = "registered"
         /\ state[n] = "evaluated"
  BY DEF Register, Await, AskReturns, Abort, Forget, IInv, TypeOK, mapVars
<1>3. TypeOK' /\ ReplyTyped'
  <2>1. pending' \in [Gens -> SUBSET Requests]
    BY <1>2 DEF IInv, TypeOK
  <2>2. state' \in [Requests -> {"none", "evaluated", "registered", "awaiting",
                                 "granted", "denied", "rejected", "aborted"}]
    BY <1>1 DEF IInv, TypeOK
  <2> QED BY <1>1, <2>1, <2>2 DEF IInv, TypeOK, ReplyTyped, replyVars
<1>4. \A m \in Requests : /\ m # n => state'[m] = state[m]
                          /\ state'[n] \in {"registered", "awaiting", "granted", "rejected", "aborted"}
                          /\ state'[n] = "granted" => deferred[n] = "granted"
  BY <1>1 DEF IInv, TypeOK
<1>5. Unmade'
  BY <1>1, <1>4 DEF IInv, Unmade, replyVars
<1>6. Listed'
  BY <1>1, <1>2, <1>4 DEF IInv, TypeOK, Listed
<1>7. Settling' /\ Reasoned'
  BY <1>1, <1>4 DEF IInv, Settling, Reasoned, Excused, replyVars
<1> QED BY <1>3, <1>5, <1>6, <1>7 DEF IInv

\* A reply takes a request out of the list and has an answer for it.
LEMMA ReplyInv ==
  ASSUME IInv, NEW r \in Repliers, NEW n \in Requests, NEW kind \in {"once", "always", "reject"},
         Reply(r, n, kind)
  PROVE  IInv'
<1>1. /\ n \in pending[gen] /\ gen \in Gens
      /\ reply' = [reply EXCEPT ![r] = [gen |-> gen, request |-> n, kind |-> kind]]
      /\ pending' = [pending EXCEPT ![gen] = @ \ {n}]
      /\ answered' = [answered EXCEPT ![n] = kind]
      /\ cur' = [cur EXCEPT ![r] = n] /\ rpc' = [rpc EXCEPT ![r] = "settle"]
      /\ seen' = [seen EXCEPT ![r] = {}]
      /\ UNCHANGED <<asked, gen, approved, approvals, state, in, pre, session, mine, deferred>>
  BY DEF Reply, askVars, IInv, TypeOK
<1>2. /\ mine[n] = gen /\ answered[n] = "none" /\ state[n] \notin {"none", "evaluated"}
      /\ ~(n > asked)
  BY <1>1 DEF IInv, Listed, Unmade
<1>3. TypeOK' /\ ReplyTyped'
  BY <1>1 DEF IInv, TypeOK, ReplyTyped
<1>4. Unmade'
  BY <1>1, <1>2 DEF IInv, TypeOK, Unmade
<1>5. Listed'
  BY <1>1, <1>2 DEF IInv, TypeOK, Listed
<1>6. \A m \in Requests : Excused(m) => Excused(m)'
  BY <1>1, <1>2 DEF IInv, TypeOK, Excused
<1>7. kind # "reject" => Excused(n)'
  BY <1>1 DEF IInv, TypeOK, Excused
<1>8. Settling'
  <2> SUFFICES ASSUME NEW q \in Repliers
               PROVE  /\ rpc'[q] = "settle" <=> cur'[q] # None
                      /\ rpc'[q] = "loop" => reply'[q].kind # "once"
                      /\ rpc'[q] = "settle" /\ reply'[q].kind # "reject" => Excused(cur[q])'
    BY DEF Settling
  <2>1. CASE q = r
    BY <1>1, <1>7, <2>1 DEF IInv, TypeOK, ReplyTyped, Requests, None, Excused
  <2>2. CASE q # r
    <3>1. rpc'[q] = rpc[q] /\ cur'[q] = cur[q] /\ reply'[q] = reply[q]
      BY <1>1, <2>2 DEF IInv, TypeOK, ReplyTyped
    <3>2. ASSUME rpc[q] = "settle", reply[q].kind # "reject"
          PROVE  Excused(cur[q])'
      <4>1. Excused(cur[q]) /\ cur[q] \in Requests
        BY <3>2 DEF IInv, TypeOK, Settling
      <4>2. Excused(cur[q])' <=> \/ answered'[cur[q]] \in {"once", "always"}
                                 \/ \A p \in in[cur[q]].patterns :
                                       Config[p] = "allow" \/ p \in approved[mine[cur[q]]]
        BY <1>1, <3>1 DEF Excused
      <4> QED BY <1>1, <1>2, <4>1, <4>2 DEF IInv, TypeOK, Excused
    <3> QED BY <3>1, <3>2 DEF IInv, Settling
  <2> QED BY <2>1, <2>2
<1>9. Reasoned'
  BY <1>1, <1>6 DEF IInv, Reasoned
<1> QED BY <1>3, <1>4, <1>5, <1>8, <1>9 DEF IInv

LEMMA SettleInv ==
  ASSUME IInv, NEW r \in Repliers, Settle(r)
  PROVE  IInv'
<1> DEFINE n == cur[r]
<1>1. /\ rpc[r] = "settle" /\ n \in Requests /\ reply[r].gen \in Gens
      /\ reply[r].kind # "reject" => Excused(n)
  BY DEF Settle, IInv, TypeOK, ReplyTyped, Settling, None
<1>2. /\ deferred' = [deferred EXCEPT ![n] = IF @ # "open" THEN @
                         ELSE IF reply[r].kind = "reject" THEN "rejected" ELSE "granted"]
      /\ \/ UNCHANGED <<approved, approvals>>
         \/ /\ reply[r].request \in Requests
            /\ approved' = [approved EXCEPT ![reply[r].gen] = @ \cup in[reply[r].request].always]
      /\ rpc' = [rpc EXCEPT ![r] = IF reply[r].kind = "once" THEN "idle" ELSE "loop"]
      /\ cur' = [cur EXCEPT ![r] = None]
      /\ UNCHANGED <<asked, gen, pending, state, in, pre, session, mine, answered, reply, seen>>
  BY <1>1 DEF Settle
<1> HIDE DEF n
<1>3. \A m \in Requests : in[m].always \in SUBSET Patterns
  BY PermissionAssumption DEF ConstantAssumption, IInv, TypeOK, NoInput
<1>4. approved' \in [Gens -> SUBSET Patterns] /\ \A g \in Gens : approved[g] \subseteq approved'[g]
  BY <1>1, <1>2, <1>3 DEF IInv, TypeOK
<1>5. TypeOK' /\ ReplyTyped'
  BY <1>1, <1>2, <1>4 DEF IInv, TypeOK, ReplyTyped
<1>6. \A m \in Requests : Excused(m) => Excused(m)'
  BY <1>2, <1>4, ExcuseKept DEF IInv
<1>7. \A m \in Requests : deferred'[m] = "granted" => deferred[m] = "granted" \/ Excused(m)
  BY <1>1, <1>2 DEF IInv, TypeOK
<1>8. Unmade' /\ Listed'
  BY <1>1, <1>2 DEF IInv, TypeOK, Unmade, Listed, Requests, None, n
<1>9. Settling'
  <2> SUFFICES ASSUME NEW q \in Repliers
               PROVE  /\ rpc'[q] = "settle" <=> cur'[q] # None
                      /\ rpc'[q] = "loop" => reply'[q].kind # "once"
                      /\ rpc'[q] = "settle" /\ reply'[q].kind # "reject" => Excused(cur[q])'
    BY DEF Settling
  <2>1. CASE q = r
    BY <1>1, <1>2, <2>1 DEF IInv, TypeOK
  <2>2. CASE q # r
    <3>1. rpc'[q] = rpc[q] /\ cur'[q] = cur[q] /\ reply'[q] = reply[q]
      BY <1>1, <1>2, <2>2 DEF IInv, TypeOK
    <3>2. ASSUME rpc[q] = "settle", reply[q].kind # "reject"
          PROVE  Excused(cur[q])'
      <4>1. Excused(cur[q]) /\ cur[q] \in Requests
        BY <3>2 DEF IInv, TypeOK, Settling
      <4> QED BY <1>2, <1>4, <3>1, <4>1 DEF IInv, TypeOK, Excused
    <3> QED BY <3>1, <3>2 DEF IInv, Settling
  <2> QED BY <2>1, <2>2
<1>10. Reasoned'
  BY <1>2, <1>6, <1>7 DEF IInv, Reasoned
<1> QED BY <1>5, <1>8, <1>9, <1>10 DEF IInv

\* The loop of "always" and "reject" takes a request, passes one over or ends.
LEMMA LoopInv ==
  ASSUME IInv, NEW r \in Repliers,
         LoopEnd(r) \/ \E n \in Requests : LoopTake(r, n) \/ LoopSkip(r, n)
  PROVE  IInv'
<1>1. /\ rpc[r] = "loop" /\ cur[r] = None /\ reply[r].kind # "once" /\ reply[r].gen \in Gens
      /\ reply[r].kind \in {"once", "always", "reject"}
  BY DEF LoopEnd, LoopTake, LoopSkip, IInv, ReplyTyped, Settling
<1>2. CASE LoopEnd(r) \/ \E n \in Requests : LoopSkip(r, n)
  <2>1. /\ UNCHANGED <<asked, gen, mapVars, askVars, answered, reply, cur>>
        /\ rpc' \in {rpc, [rpc EXCEPT ![r] = "idle"]}
        /\ seen' \in [Repliers -> SUBSET Requests]
    BY <1>2 DEF LoopEnd, LoopSkip, IInv, TypeOK
  <2>2. TypeOK' /\ ReplyTyped'
    BY <2>1 DEF IInv, TypeOK, ReplyTyped, mapVars, askVars
  <2>3. Unmade' /\ Listed' /\ Reasoned'
    BY <2>1 DEF IInv, Unmade, Listed, Reasoned, Excused, mapVars, askVars
  <2>4. Settling'
    BY <1>1, <2>1 DEF IInv, TypeOK, Settling, Excused, mapVars, askVars
  <2> QED BY <2>2, <2>3, <2>4 DEF IInv
<1>3. ASSUME NEW n \in Requests, LoopTake(r, n) PROVE IInv'
  <2>1. /\ n \in pending[reply[r].gen] /\ (reply[r].kind = "always" => Covered(r, n))
        /\ pending' = [pending EXCEPT ![reply[r].gen] = @ \ {n}]
        /\ cur' = [cur EXCEPT ![r] = n] /\ rpc' = [rpc EXCEPT ![r] = "settle"]
        /\ UNCHANGED <<asked, gen, approved, approvals, askVars, answered, reply, seen>>
    BY <1>3 DEF LoopTake, Left, Takes
  <2>2. mine[n] = reply[r].gen /\ ~(n > asked)
    BY <1>1, <2>1 DEF IInv, Listed, Unmade
  <2>3. reply[r].kind # "reject" => Excused(n)
    BY <1>1, <2>1, <2>2 DEF Covered, Excused
  <2>4. TypeOK' /\ ReplyTyped'
    BY <1>1, <2>1 DEF IInv, TypeOK, ReplyTyped, askVars
  <2>5. Unmade' /\ Listed' /\ Reasoned'
    BY <1>1, <2>1, <2>2 DEF IInv, TypeOK, Unmade, Listed, Reasoned, Excused, askVars
  <2>6. Settling'
    BY <1>1, <2>1, <2>3 DEF IInv, TypeOK, Settling, Excused, Requests, None, askVars
  <2> QED BY <2>4, <2>5, <2>6 DEF IInv
<1> QED BY <1>2, <1>3

LEMMA DisposeInv ==
  ASSUME IInv, Dispose
  PROVE  IInv'
<1>1. /\ gen' \in Gens
      /\ deferred' = [n \in Requests |-> IF n \in pending[gen] /\ deferred[n] = "open"
                                         THEN "rejected" ELSE deferred[n]]
      /\ pending' = [pending EXCEPT ![gen] = {}]
      /\ UNCHANGED <<asked, approved, approvals, state, in, pre, session, mine, answered,
                     replyVars>>
  BY PermissionAssumption DEF ConstantAssumption, Dispose, IInv, TypeOK, Gens
<1>2. TypeOK' /\ ReplyTyped'
  BY <1>1 DEF IInv, TypeOK, ReplyTyped, replyVars
<1>3. Listed'
  BY <1>1 DEF IInv, TypeOK, Listed
<1>4. \A n \in Requests : n > asked => n \notin pending[gen]
  BY DEF IInv, TypeOK, Unmade, Listed
<1>5. Unmade'
  BY <1>1, <1>4 DEF IInv, Unmade, replyVars
<1>6. Settling' /\ Reasoned'
  BY <1>1 DEF IInv, TypeOK, Settling, Reasoned, Excused, replyVars
<1> QED BY <1>2, <1>3, <1>5, <1>6 DEF IInv

LEMMA StepInv ==
  ASSUME IInv, [Next]_vars
  PROVE  IInv'
<1>1. CASE UNCHANGED vars
  BY <1>1 DEF vars, mapVars, askVars, replyVars, IInv, TypeOK, ReplyTyped, Unmade, Listed,
              Settling, Reasoned, Excused
<1>2. CASE NewAsk
  BY <1>2, AskInv DEF NewAsk
<1>3. CASE NewReply
  BY <1>3, ReplyInv DEF NewReply
<1>4. CASE NewAbort \/ \E n \in Requests : AskStep(n)
  BY <1>4, AskerInv DEF NewAbort, AskStep
<1>5. CASE DisposeFree
  BY <1>5, DisposeInv DEF DisposeFree
<1>6. CASE \E r \in Repliers : ReplyStep(r)
  BY <1>6, SettleInv, LoopInv DEF ReplyStep
<1> QED BY <1>1, <1>2, <1>3, <1>4, <1>5, <1>6 DEF Next, Rest

\* Every variable keeps its type.
THEOREM TypeCorrect == Spec => []TypeOK
<1>1. Init => IInv
  BY InitInv
<1>2. IInv /\ [Next]_vars => IInv'
  BY StepInv
<1>3. IInv => TypeOK
  BY DEF IInv
<1> QED BY <1>1, <1>2, <1>3, PTL DEF Spec

\* A tool that was allowed to go on was allowed by the pre-check, by the user's
\* answer to it, or by rules and approvals that cover all its patterns, with
\* fibers preempted anywhere and any number of replies at work.
THEOREM GrantsTheorem == Spec => []GrantsAreJustified
<1>1. Init => IInv
  BY InitInv
<1>2. IInv /\ [Next]_vars => IInv'
  BY StepInv
<1>3. IInv => GrantsAreJustified
  BY DEF IInv, Reasoned, Excused, GrantsAreJustified
<1> QED BY <1>1, <1>2, <1>3, PTL DEF Spec

----------------------------------------------------------------------------
(* Where fibers keep their turns, or no instance is disposed.              *)

\* No instance is disposed in the middle of an ask.
AsksEndInTheirInstance == ~Preemptive \/ MaxGens = 1

\* From its registration on a request is answered, listed or being answered.
Attended ==
    \A n \in Requests : state[n] \in {"registered", "awaiting"}
        => deferred[n] # "open" \/ n \in pending[gen] \/ \E r \in Repliers : cur[r] = n

\* A request that is about to be registered is of the current instance.
OfThisInstance == \A n \in Requests : state[n] = "evaluated" => mine[n] = gen

WInv == IInv /\ Attended /\ OfThisInstance

PInv == IInv /\ Attended /\ NoGhostPrompts /\ OfThisInstance

\* Where fibers keep their turns no prompt outlives its tool.
GhostsStayAway == ~Preemptive /\ NoGhostPrompts => NoGhostPrompts'

LEMMA AskPrompts ==
  ASSUME WInv, NEW s \in Sessions, NEW i \in Inputs, NEW mode \in Modes, Ask(s, i, mode)
  PROVE  Attended' /\ OfThisInstance' /\ GhostsStayAway
<1> DEFINE n == asked + 1
<1>1. n \in Requests /\ state[n] = "none" /\ \A g \in Gens : n \notin pending[g]
  BY PermissionAssumption DEF ConstantAssumption, WInv, IInv, Unmade, Listed, TypeOK, Ask, Requests
<1>2. /\ state' = [state EXCEPT ![n] = Decide(mode, i, approved[gen])]
      /\ mine' = [mine EXCEPT ![n] = gen]
      /\ UNCHANGED <<gen, pending, deferred, cur>>
  BY DEF Ask, mapVars, replyVars
<1>3. Decide(mode, i, approved[gen]) \in {"granted", "denied", "evaluated"}
  BY PermissionAssumption DEF ConstantAssumption, Decide
<1> HIDE DEF n
<1> QED BY <1>1, <1>2, <1>3
        DEF WInv, IInv, TypeOK, Attended, NoGhostPrompts, OfThisInstance, GhostsStayAway

\* A request that is aborted before its finalizer is there leaves its prompt, but
\* only a fiber that was preempted can be aborted there.
LEMMA AskerPrompts ==
  ASSUME WInv, NEW n \in Requests, Register(n) \/ Await(n) \/ AskReturns(n) \/ Abort(n)
  PROVE  Attended' /\ OfThisInstance' /\ GhostsStayAway
<1>1. UNCHANGED <<gen, mine, deferred, cur>>
  BY DEF Register, Await, AskReturns, Abort, replyVars
<1>2. CASE Register(n)
  <2>1. /\ state' = [state EXCEPT ![n] = "registered"]
        /\ pending' = [pending EXCEPT ![gen] = @ \cup {n}]
    BY <1>2 DEF Register, WInv, OfThisInstance
  <2> QED BY <1>1, <2>1
          DEF WInv, IInv, TypeOK, Attended, NoGhostPrompts, OfThisInstance, GhostsStayAway
<1>3. CASE Await(n)
  BY <1>1, <1>3 DEF Await, mapVars, WInv, IInv, TypeOK, Attended, NoGhostPrompts, OfThisInstance,
                    GhostsStayAway
<1>4. CASE AskReturns(n) \/ Abort(n)
  <2>1. /\ \/ pending' = [pending EXCEPT ![mine[n]] = @ \ {n}]
           \/ Preemptive /\ pending' = pending
        /\ \E t \in {"granted", "rejected", "aborted"} : state' = [state EXCEPT ![n] = t]
    BY <1>4 DEF AskReturns, Abort, MayAbort, Forget, WInv, IInv, TypeOK
  <2>2. /\ \A m \in Requests : m # n => state'[m] = state[m]
        /\ state'[n] \in {"granted", "rejected", "aborted"}
    BY <2>1 DEF WInv, IInv, TypeOK
  <2>3. (\A g \in Gens : pending'[g] = pending[g] \ {n}) \/ (Preemptive /\ pending' = pending)
    BY <2>1 DEF WInv, IInv, TypeOK, Listed
  <2> QED BY <1>1, <2>2, <2>3
          DEF WInv, IInv, TypeOK, Attended, NoGhostPrompts, OfThisInstance, GhostsStayAway
<1> QED BY <1>2, <1>3, <1>4

LEMMA ReplyPrompts ==
  ASSUME WInv, NEW r \in Repliers,
         \/ \E n \in Requests, kind \in {"once", "always", "reject"} : Reply(r, n, kind)
         \/ Settle(r) \/ LoopEnd(r)
         \/ \E n \in Requests : LoopTake(r, n) \/ LoopSkip(r, n)
  PROVE  Attended' /\ OfThisInstance' /\ GhostsStayAway
<1>1. UNCHANGED <<gen, state, mine>>
  BY DEF Reply, Settle, LoopEnd, LoopTake, LoopSkip, askVars
<1>2. CASE (\E n \in Requests, kind \in {"once", "always", "reject"} : Reply(r, n, kind))
           \/ \E n \in Requests : LoopTake(r, n)
  <2>1. PICK n \in Requests, g \in Gens :
          /\ pending' = [pending EXCEPT ![g] = @ \ {n}] /\ cur' = [cur EXCEPT ![r] = n]
          /\ rpc[r] # "settle" /\ UNCHANGED deferred
    BY <1>2 DEF Reply, LoopTake, askVars, WInv, IInv, TypeOK, ReplyTyped
  <2>2. cur[r] = None
    BY <2>1 DEF WInv, IInv, Settling
  <2>3. \A q \in Repliers : cur'[q] = IF q = r THEN n ELSE cur[q]
    BY <2>1 DEF WInv, IInv, TypeOK
  <2>4. \A m \in Requests : (\E q \in Repliers : cur[q] = m) => \E q \in Repliers : cur'[q] = m
    BY <2>2, <2>3 DEF Requests, None
  <2> QED BY <1>1, <2>1, <2>3, <2>4 DEF WInv, IInv, TypeOK, Attended, NoGhostPrompts, OfThisInstance,
    GhostsStayAway
<1>3. CASE Settle(r)
  <2>1. /\ cur' = [cur EXCEPT ![r] = None] /\ pending' = pending
        /\ cur[r] \in Requests
        /\ \A m \in Requests : /\ deferred[m] # "open" => deferred'[m] # "open"
                               /\ m = cur[r] => deferred'[m] # "open"
    BY <1>3 DEF Settle, WInv, IInv, TypeOK, Settling, None
  <2> QED BY <1>1, <2>1 DEF WInv, IInv, TypeOK, Attended, NoGhostPrompts, OfThisInstance,
    GhostsStayAway
<1>4. CASE LoopEnd(r) \/ \E n \in Requests : LoopSkip(r, n)
  BY <1>1, <1>4 DEF LoopEnd, LoopSkip, mapVars, askVars, WInv, Attended, NoGhostPrompts,
                    OfThisInstance, GhostsStayAway
<1> QED BY <1>2, <1>3, <1>4

LEMMA DisposePrompts ==
  ASSUME AsksEndInTheirInstance, WInv, DisposeFree
  PROVE  Attended' /\ OfThisInstance' /\ GhostsStayAway
<1>1. /\ gen \in Gens /\ gen < MaxGens /\ UNCHANGED <<state, mine, cur>>
      /\ deferred' = [n \in Requests |-> IF n \in pending[gen] /\ deferred[n] = "open"
                                         THEN "rejected" ELSE deferred[n]]
      /\ pending' = [pending EXCEPT ![gen] = {}]
  BY DEF DisposeFree, Dispose, replyVars, WInv, IInv, TypeOK
<1>2. MaxGens # 1
  BY <1>1 DEF Gens
<1>3. \A n \in Requests : state[n] # "evaluated"
  BY <1>2 DEF AsksEndInTheirInstance, DisposeFree, Free, MidAsk
<1> QED BY <1>1, <1>3
        DEF WInv, IInv, TypeOK, Attended, NoGhostPrompts, OfThisInstance, GhostsStayAway

LEMMA StepPrompts ==
  ASSUME AsksEndInTheirInstance, WInv, [Next]_vars
  PROVE  WInv' /\ GhostsStayAway
<1>1. IInv'
  BY StepInv DEF WInv
<1>2. Attended' /\ OfThisInstance' /\ GhostsStayAway
  <2>1. CASE UNCHANGED vars
    BY <2>1 DEF vars, mapVars, askVars, replyVars, WInv, Attended, NoGhostPrompts, OfThisInstance,
                GhostsStayAway
  <2>2. CASE NewAsk
    BY <2>2, AskPrompts DEF NewAsk
  <2>3. CASE NewAbort \/ \E n \in Requests : AskStep(n)
    BY <2>3, AskerPrompts DEF NewAbort, AskStep
  <2>4. CASE NewReply \/ \E r \in Repliers : ReplyStep(r)
    BY <2>4, ReplyPrompts DEF NewReply, ReplyStep
  <2>5. CASE DisposeFree
    BY <2>5, DisposePrompts
  <2> QED BY <2>1, <2>2, <2>3, <2>4, <2>5 DEF Next, Rest
<1> QED BY <1>1, <1>2 DEF WInv

LEMMA StepPInv ==
  ASSUME ~Preemptive, PInv, [Next]_vars
  PROVE  PInv'
  BY StepPrompts DEF AsksEndInTheirInstance, PInv, WInv, GhostsStayAway

\* Whoever waits can be answered and nothing is granted without a reason: also
\* where fibers are preempted at every step, as long as no instance is disposed
\* in the middle of an ask.
THEOREM PromptsHoldTheorem == AsksEndInTheirInstance => (Spec => []PromptsHold)
<1> SUFFICES ASSUME AsksEndInTheirInstance PROVE Spec => []PromptsHold
  OBVIOUS
<1>1. Init => WInv
  BY InitInv DEF WInv, Init, Attended, OfThisInstance
<1>2. WInv /\ [Next]_vars => WInv'
  BY StepPrompts
<1>3. WInv => PromptsHold
  BY DEF WInv, Attended, WaitingCanBeAnswered, IInv, Reasoned, Excused, GrantsAreJustified, PromptsHold
<1> QED BY <1>1, <1>2, <1>3, PTL DEF Spec

\* Where fibers keep their turns every tool that waits can be answered and every
\* prompt has a tool that waits, with any number of requests and of instances.
THEOREM PromptsTheorem == ~Preemptive => (Spec => []PromptsMatchWaiters)
<1> SUFFICES ASSUME ~Preemptive PROVE Spec => []PromptsMatchWaiters
  OBVIOUS
<1>1. Init => PInv
  BY InitInv DEF PInv, Init, Attended, NoGhostPrompts, OfThisInstance
<1>2. PInv /\ [Next]_vars => PInv'
  BY StepPInv
<1>3. PInv => PromptsMatchWaiters
  BY DEF PInv, Attended, PromptsMatchWaiters, WaitingCanBeAnswered, NoGhostPrompts
<1> QED BY <1>1, <1>2, <1>3, PTL DEF Spec

----------------------------------------------------------------------------
(* No prompt for what the session has approved for good.                   *)

Needless(n) == pre[n] = "none" /\ \A p \in in[n].patterns : <<gen, session[n], p>> \in approvals

Backed == \A g \in Gens, s \in Sessions \cup {Nobody}, p \in Patterns :
             <<g, s, p>> \in approvals => p \in approved[g]

FutureEmpty == \A g \in Gens : g > gen => pending[g] = {}

AskedForReason == \A n \in Requests : state[n] = "evaluated" => ~Needless(n)

\* Before a reply approves anything nothing is needless; after that, only what
\* its loop has still to look at.
Working ==
    \A r \in Repliers : rpc[r] # "idle" =>
        /\ reply[r].gen = gen /\ reply[r].request \in Requests
        /\ answered[reply[r].request] # "none"
        /\ rpc[r] = "settle" /\ cur[r] = reply[r].request =>
              seen[r] = {} /\ \A n \in pending[gen] : ~Needless(n)
        /\ \A n \in pending[gen] : Needless(n) =>
              reply[r].kind = "always" /\ Same(r, n) /\ n \notin seen[r]

NInv == PInv /\ Backed /\ FutureEmpty /\ AskedForReason /\ Working /\ NoNeedlessPrompt

\* NoNeedlessPrompt, in the words of this section.
LEMMA Rested == NoNeedlessPrompt <=> (MidReply = {} => \A n \in pending[gen] : ~Needless(n))
  BY DEF NoNeedlessPrompt, Needless

\* While nobody replies there is nothing to show of replies.
LEMMA NobodyReplies ==
  ASSUME MidReply = {}, rpc' = rpc
  PROVE  Working' /\ MidReply' = {}
  BY DEF MidReply, Working

LEMMA AskNeeds ==
  ASSUME NInv, MidReply = {}, NEW s \in Sessions, NEW i \in Inputs, NEW mode \in Modes,
         Ask(s, i, mode)
  PROVE  Backed' /\ FutureEmpty' /\ AskedForReason' /\ Working' /\ NoNeedlessPrompt'
<1>0. PICK n : n = asked + 1
  OBVIOUS
<1>1. /\ n \in Requests /\ state[n] = "none" /\ gen \in Gens
      /\ \A g \in Gens : n \notin pending[g] /\ pending[g] \subseteq Requests
  BY <1>0, PermissionAssumption
     DEF ConstantAssumption, NInv, PInv, IInv, Unmade, Listed, TypeOK, Ask, Requests
<1>2. /\ state' = [state EXCEPT ![n] = Decide(mode, i, approved[gen])]
      /\ in' = [in EXCEPT ![n] = i] /\ pre' = [pre EXCEPT ![n] = PreCheck(mode, i)]
      /\ session' = [session EXCEPT ![n] = s]
      /\ UNCHANGED <<gen, pending, approved, approvals, rpc>>
  BY <1>0 DEF Ask, mapVars, replyVars
<1>3. /\ \A m \in Requests : m # n => /\ state'[m] = state[m] /\ in'[m] = in[m]
                                      /\ pre'[m] = pre[m] /\ session'[m] = session[m]
      /\ state'[n] = Decide(mode, i, approved[gen]) /\ in'[n] = i
      /\ pre'[n] = PreCheck(mode, i) /\ session'[n] = s
  BY <1>1, <1>2 DEF NInv, PInv, IInv, TypeOK
<1>4. \A m \in Requests : m # n => (Needless(m)' <=> Needless(m))
  BY <1>2, <1>3 DEF Needless
<1>5. Working' /\ MidReply' = {}
  BY <1>2, NobodyReplies
<1>6. NoNeedlessPrompt'
  <2> SUFFICES ASSUME NEW m \in pending[gen] PROVE ~Needless(m)'
    BY <1>2 DEF NoNeedlessPrompt, Needless
  <2>1. m \in Requests /\ m # n /\ ~Needless(m)
    BY <1>1, Rested DEF NInv
  <2> QED BY <1>4, <2>1
<1>7. AskedForReason'
  <2> SUFFICES ASSUME state'[n] = "evaluated", Needless(n)' PROVE FALSE
    <3>1. ASSUME NEW m \in Requests, m # n, state'[m] = "evaluated"
          PROVE  ~Needless(m)'
      BY <1>3, <1>4, <3>1 DEF AskedForReason, NInv
    <3> QED BY <3>1 DEF AskedForReason
  <2>0. /\ pre'[n] = "none" /\ \A p \in in'[n].patterns : <<gen', session'[n], p>> \in approvals'
    BY DEF Needless
  <2>1. /\ PreCheck(mode, i) = "none" /\ Decide(mode, i, approved[gen]) = "evaluated"
        /\ \A p \in i.patterns : <<gen, s, p>> \in approvals
    BY <1>2, <1>3, <2>0
  <2>2. i.patterns \in SUBSET Patterns /\ i.patterns # {}
    BY PermissionAssumption DEF ConstantAssumption
  <2>3. \A p \in i.patterns : p \in approved[gen]
    BY <1>1, <2>1, <2>2 DEF NInv, Backed
  <2>4. {Evaluate(p, approved[gen]) : p \in i.patterns} = {"allow"}
    BY <2>2, <2>3 DEF Evaluate
  <2> QED BY <2>1, <2>4 DEF Decide
<1>8. Backed' /\ FutureEmpty'
  BY <1>2 DEF NInv, Backed, FutureEmpty
<1> QED BY <1>5, <1>6, <1>7, <1>8

\* The steps of a request that was made before.
LEMMA AskerNeeds ==
  ASSUME ~Preemptive, NInv, MidReply = {}, NEW n \in Requests,
         Register(n) \/ Await(n) \/ AskReturns(n) \/ Abort(n)
  PROVE  Backed' /\ FutureEmpty' /\ AskedForReason' /\ Working' /\ NoNeedlessPrompt'
<1>1. /\ UNCHANGED <<gen, approved, approvals, in, pre, session, mine, rpc>>
      /\ gen \in Gens /\ \A g \in Gens : pending[g] \subseteq Requests
  BY DEF Register, Await, AskReturns, Abort, replyVars, mapVars, NInv, PInv, IInv, TypeOK
<1>2. \A m \in Requests : Needless(m)' <=> Needless(m)
  BY <1>1 DEF Needless
<1>3. Working' /\ MidReply' = {}
  BY <1>1, NobodyReplies
<1>4. \A m \in Requests : state'[m] = "evaluated" => state[m] = "evaluated"
  BY DEF Register, Await, AskReturns, Abort, NInv, PInv, IInv, TypeOK
<1>5. CASE Register(n)
  <2>1. state[n] = "evaluated" /\ mine[n] = gen /\ ~Needless(n)
        /\ pending' = [pending EXCEPT ![gen] = @ \cup {n}]
    BY <1>5 DEF Register, NInv, PInv, OfThisInstance, AskedForReason
  <2>2. NoNeedlessPrompt'
    <3> SUFFICES ASSUME NEW m \in pending'[gen] PROVE ~Needless(m)'
      BY <1>1 DEF NoNeedlessPrompt, Needless
    <3>1. m = n \/ m \in pending[gen]
      BY <1>1, <2>1 DEF NInv, PInv, IInv, TypeOK
    <3> QED BY <1>1, <1>2, <2>1, <3>1, Rested DEF NInv
  <2>3. FutureEmpty'
    BY <1>1, <2>1 DEF NInv, PInv, IInv, TypeOK, FutureEmpty, Gens
  <2> QED BY <1>1, <1>2, <1>3, <1>4, <2>2, <2>3 DEF NInv, Backed, AskedForReason
<1>6. CASE Await(n) \/ AskReturns(n) \/ Abort(n)
  <2>1. \A g \in Gens : pending'[g] \subseteq pending[g]
    BY <1>6 DEF Await, AskReturns, Abort, Forget, mapVars, NInv, PInv, IInv, TypeOK
  <2>2. NoNeedlessPrompt'
    <3> SUFFICES ASSUME NEW m \in pending'[gen] PROVE ~Needless(m)'
      BY <1>1 DEF NoNeedlessPrompt, Needless
    <3>1. m \in pending[gen]
      BY <1>1, <2>1
    <3> QED BY <1>1, <1>2, <3>1, Rested DEF NInv
  <2>3. FutureEmpty'
    BY <1>1, <2>1 DEF NInv, FutureEmpty
  <2> QED BY <1>1, <1>2, <1>3, <1>4, <2>2, <2>3 DEF NInv, Backed, AskedForReason
<1> QED BY <1>5, <1>6

LEMMA DisposeNeeds ==
  ASSUME ~Preemptive, NInv, DisposeFree
  PROVE  Backed' /\ FutureEmpty' /\ AskedForReason' /\ Working' /\ NoNeedlessPrompt'
<1>1. /\ MidAsk = {} /\ MidReply = {} /\ gen \in Gens /\ gen' = gen + 1 /\ gen' \in Gens
      /\ pending' = [pending EXCEPT ![gen] = {}]
      /\ UNCHANGED <<approved, approvals, state, rpc>>
  BY PermissionAssumption
     DEF ConstantAssumption, DisposeFree, Free, Dispose, replyVars, NInv, PInv, IInv, TypeOK, Gens
<1>2. Working' /\ AskedForReason'
  BY <1>1, NobodyReplies DEF MidAsk, AskedForReason
<1>3. FutureEmpty' /\ pending'[gen'] = {}
  BY <1>1 DEF NInv, PInv, IInv, TypeOK, FutureEmpty, Gens
<1>4. NoNeedlessPrompt' /\ Backed'
  BY <1>1, <1>3 DEF NInv, NoNeedlessPrompt, Backed
<1> QED BY <1>2, <1>3, <1>4

\* What holds of one replier at work.
AtWork(r) ==
    /\ reply[r].gen = gen /\ reply[r].request \in Requests
    /\ answered[reply[r].request] # "none"
    /\ rpc[r] = "settle" /\ cur[r] = reply[r].request =>
          seen[r] = {} /\ \A n \in pending[gen] : ~Needless(n)
    /\ \A n \in pending[gen] : Needless(n) =>
          reply[r].kind = "always" /\ Same(r, n) /\ n \notin seen[r]

\* One replier works at a time.
LEMMA OneWorks ==
  ASSUME NEW r \in Repliers, MidReply \subseteq {r}, rpc' \in [Repliers -> {"idle", "settle", "loop"}],
         \A q \in Repliers : q # r => rpc'[q] = rpc[q],
         rpc'[r] # "idle" => AtWork(r)',
         rpc'[r] = "idle" => \A n \in pending'[gen'] : ~Needless(n)'
  PROVE  Working' /\ NoNeedlessPrompt'
<1>1. \A q \in Repliers : rpc'[q] # "idle" => q = r
  BY DEF MidReply
<1>2. Working'
  BY <1>1 DEF Working, AtWork
<1>3. MidReply' = {} => rpc'[r] = "idle"
  BY DEF MidReply
<1>4. NoNeedlessPrompt'
  BY <1>3 DEF NoNeedlessPrompt, Needless
<1> QED BY <1>2, <1>4

LEMMA ReplyNeeds ==
  ASSUME NInv, MidReply = {}, NEW r \in Repliers, NEW n \in Requests,
         NEW kind \in {"once", "always", "reject"}, Reply(r, n, kind)
  PROVE  Backed' /\ FutureEmpty' /\ AskedForReason' /\ Working' /\ NoNeedlessPrompt'
<1>1. /\ gen \in Gens
      /\ reply' = [reply EXCEPT ![r] = [gen |-> gen, request |-> n, kind |-> kind]]
      /\ pending' = [pending EXCEPT ![gen] = @ \ {n}]
      /\ answered' = [answered EXCEPT ![n] = kind]
      /\ rpc' = [rpc EXCEPT ![r] = "settle"] /\ seen' = [seen EXCEPT ![r] = {}]
      /\ UNCHANGED <<gen, approved, approvals, state, in, pre, session>>
  BY DEF Reply, askVars, NInv, PInv, IInv, TypeOK
<1>2. /\ \A m \in Requests : Needless(m)' <=> Needless(m)
      /\ \A g \in Gens : pending'[g] \subseteq pending[g] /\ pending[g] \subseteq Requests
  BY <1>1 DEF Needless, NInv, PInv, IInv, TypeOK
<1>3. \A m \in pending'[gen] : m \in Requests /\ ~Needless(m)'
  BY <1>1, <1>2, Rested DEF NInv
<1>4. /\ reply'[r].gen = gen /\ reply'[r].request = n /\ answered'[n] = kind
      /\ rpc'[r] = "settle" /\ seen'[r] = {} /\ \A q \in Repliers : q # r => rpc'[q] = rpc[q]
      /\ rpc' \in [Repliers -> {"idle", "settle", "loop"}]
  BY <1>1 DEF NInv, PInv, IInv, TypeOK, ReplyTyped
<1>5. AtWork(r)'
  BY <1>1, <1>3, <1>4 DEF AtWork
<1>6. Working' /\ NoNeedlessPrompt'
  BY <1>4, <1>5, OneWorks
<1>7. Backed' /\ FutureEmpty' /\ AskedForReason'
  BY <1>1, <1>2 DEF NInv, Backed, FutureEmpty, AskedForReason
<1> QED BY <1>6, <1>7

\* The answer of the request itself approves; those settled after it approve
\* nothing more.
LEMMA SettleNeeds ==
  ASSUME NInv, NEW r \in Repliers, MidReply \subseteq {r}, MidAsk = {}, Settle(r)
  PROVE  Backed' /\ FutureEmpty' /\ AskedForReason' /\ Working' /\ NoNeedlessPrompt'
<1>1. /\ rpc[r] = "settle" /\ gen \in Gens /\ pending[gen] \subseteq Requests
      /\ UNCHANGED <<gen, pending, state, in, pre, session, answered, reply, seen>>
      /\ reply[r].kind \in {"once", "always", "reject"}
  BY DEF Settle, NInv, PInv, IInv, TypeOK, ReplyTyped
<1>2. AtWork(r)
  BY <1>1 DEF NInv, Working, AtWork
<1>3. /\ rpc'[r] = IF reply[r].kind = "once" THEN "idle" ELSE "loop"
      /\ \A q \in Repliers : q # r => rpc'[q] = rpc[q]
      /\ rpc' \in [Repliers -> {"idle", "settle", "loop"}]
  BY DEF Settle, NInv, PInv, IInv, TypeOK
<1>4. FutureEmpty' /\ AskedForReason'
  BY <1>1 DEF NInv, FutureEmpty, AskedForReason, MidAsk
<1>5. CASE cur[r] = reply[r].request /\ reply[r].kind = "always"
  <2> DEFINE q == reply[r].request
  <2>1. /\ q \in Requests /\ session[q] \in Sessions \cup {Nobody}
        /\ in[q].always \in SUBSET Patterns
        /\ seen[r] = {} /\ \A n \in pending[gen] : ~Needless(n)
        /\ approved' = [approved EXCEPT ![gen] = @ \cup in[q].always]
        /\ approvals' = approvals \cup {<<gen, session[q], p>> : p \in in[q].always}
    <3>1. \A i \in Inputs \cup {NoInput} : i.always \in SUBSET Patterns
      BY PermissionAssumption DEF ConstantAssumption, NoInput
    <3> QED BY <1>1, <1>2, <1>5, <3>1 DEF AtWork, Settle, NInv, PInv, IInv, TypeOK
  <2>2. Backed'
    BY <1>1, <2>1 DEF NInv, PInv, IInv, TypeOK, Backed
  <2>3. ASSUME NEW n \in pending[gen], Needless(n)' PROVE Same(r, n)'
    <3>1. CASE session[n] = session[q]
      BY <1>1, <3>1 DEF Same
    <3>2. CASE session[n] # session[q]
      <4>1. \A p \in in[n].patterns : <<gen, session[n], p>> \in approvals
        BY <1>1, <2>1, <2>3, <3>2 DEF Needless
      <4> QED BY <1>1, <2>1, <2>3, <4>1 DEF Needless
    <3> QED BY <3>1, <3>2
  <2>4. AtWork(r)'
    BY <1>1, <1>2, <1>3, <1>5, <2>1, <2>3 DEF AtWork
  <2> QED BY <1>3, <1>4, <1>5, <2>2, <2>4, OneWorks
<1>6. CASE ~(cur[r] = reply[r].request /\ reply[r].kind = "always")
  <2>1. UNCHANGED <<approved, approvals>>
    BY <1>6 DEF Settle
  <2>2. \A m \in Requests : Needless(m)' <=> Needless(m)
    BY <1>1, <2>1 DEF Needless
  <2>3. Backed'
    BY <2>1 DEF NInv, Backed
  <2>4. rpc'[r] # "idle" => AtWork(r)'
    BY <1>1, <1>2, <1>3, <2>2 DEF AtWork, Same
  <2>5. rpc'[r] = "idle" => \A n \in pending'[gen'] : ~Needless(n)'
    BY <1>1, <1>2, <1>3, <2>2 DEF AtWork
  <2> QED BY <1>3, <1>4, <2>3, <2>4, <2>5, OneWorks
<1> QED BY <1>5, <1>6

LEMMA LoopNeeds ==
  ASSUME NInv, NEW r \in Repliers, MidReply \subseteq {r},
         LoopEnd(r) \/ \E n \in Requests : LoopTake(r, n) \/ LoopSkip(r, n)
  PROVE  Backed' /\ FutureEmpty' /\ AskedForReason' /\ Working' /\ NoNeedlessPrompt'
<1>1. /\ rpc[r] = "loop" /\ gen \in Gens
      /\ UNCHANGED <<gen, approved, approvals, state, in, pre, session, answered, reply>>
  BY DEF LoopEnd, LoopTake, LoopSkip, mapVars, askVars, NInv, PInv, IInv, TypeOK
<1>2. AtWork(r)
  BY <1>1 DEF NInv, Working, AtWork
<1>3. /\ \A m \in Requests : (Needless(m)' <=> Needless(m)) /\ (Same(r, m)' <=> Same(r, m))
      /\ \A g \in Gens : pending'[g] \subseteq pending[g] /\ pending[g] \subseteq Requests
  BY <1>1, <1>2 DEF Needless, Same, AtWork, LoopEnd, LoopTake, LoopSkip, mapVars, NInv, PInv, IInv,
                    TypeOK
<1>4. Backed' /\ FutureEmpty' /\ AskedForReason'
  BY <1>1, <1>3 DEF NInv, Backed, FutureEmpty, AskedForReason
<1>5. /\ rpc' \in [Repliers -> {"idle", "settle", "loop"}]
      /\ \A q \in Repliers : q # r => rpc'[q] = rpc[q]
  BY DEF LoopEnd, LoopTake, LoopSkip, NInv, PInv, IInv, TypeOK
<1>6. CASE LoopEnd(r)
  <2>1. pending[gen] \subseteq seen[r] /\ rpc'[r] = "idle" /\ pending' = pending
    BY <1>2, <1>6 DEF LoopEnd, Left, AtWork, mapVars, NInv, PInv, IInv, TypeOK
  <2>2. \A n \in pending'[gen'] : ~Needless(n)'
    BY <1>1, <1>2, <1>3, <2>1 DEF AtWork
  <2> QED BY <1>4, <1>5, <2>1, <2>2, OneWorks
<1>7. ASSUME NEW n \in Requests, LoopTake(r, n)
      PROVE  Backed' /\ FutureEmpty' /\ AskedForReason' /\ Working' /\ NoNeedlessPrompt'
  <2>1. /\ n \in pending[gen] /\ rpc'[r] = "settle" /\ cur'[r] = n /\ seen' = seen
    BY <1>2, <1>7 DEF LoopTake, Left, AtWork, NInv, PInv, IInv, TypeOK
  <2>2. reply[r].request # n
    BY <1>1, <1>2, <2>1 DEF AtWork, NInv, PInv, IInv, Listed
  <2>3. AtWork(r)'
    BY <1>1, <1>2, <1>3, <2>1, <2>2 DEF AtWork
  <2> QED BY <1>4, <1>5, <2>1, <2>3, OneWorks
<1>8. ASSUME NEW n \in Requests, LoopSkip(r, n)
      PROVE  Backed' /\ FutureEmpty' /\ AskedForReason' /\ Working' /\ NoNeedlessPrompt'
  <2>1. /\ n \in pending[gen] /\ ~Takes(r, n) /\ rpc' = rpc /\ pending' = pending
        /\ seen' = [seen EXCEPT ![r] = @ \cup {n}] /\ seen'[r] = seen[r] \cup {n}
    BY <1>2, <1>8 DEF LoopSkip, Left, AtWork, mapVars, NInv, PInv, IInv, TypeOK
  <2>2. ~Needless(n)
    <3> SUFFICES ASSUME Needless(n) PROVE FALSE
      OBVIOUS
    <3>1. reply[r].gen = gen /\ Same(r, n)
      BY <1>2, <2>1 DEF AtWork
    <3>2. in[n].patterns \in SUBSET Patterns /\ session[n] \in Sessions \cup {Nobody}
      BY PermissionAssumption DEF ConstantAssumption, NInv, PInv, IInv, TypeOK, NoInput
    <3>3. Covered(r, n)
      BY <1>1, <3>1, <3>2 DEF Covered, Needless, NInv, Backed
    <3> QED BY <2>1, <3>1, <3>3 DEF Takes
  <2>3. AtWork(r)'
    BY <1>1, <1>2, <1>3, <2>1, <2>2 DEF AtWork
  <2> QED BY <1>1, <1>4, <1>5, <2>1, <2>3, OneWorks
<1> QED BY <1>6, <1>7, <1>8

LEMMA StepNeeds ==
  ASSUME ~Preemptive, NInv, [Next]_vars
  PROVE  NInv'
<1>1. PInv'
  BY StepPInv DEF NInv
<1>2. Backed' /\ FutureEmpty' /\ AskedForReason' /\ Working' /\ NoNeedlessPrompt'
  <2>1. CASE UNCHANGED vars
    BY <2>1 DEF vars, mapVars, askVars, replyVars, NInv, Backed, FutureEmpty, AskedForReason,
                Working, NoNeedlessPrompt, Needless, Same, MidReply
  <2>2. CASE NewAsk
    BY <2>2, AskNeeds DEF NewAsk, Free
  <2>3. CASE NewAbort \/ \E n \in Requests : AskStep(n)
    BY <2>3, AskerNeeds DEF NewAbort, AskStep, Free, AskTurn
  <2>4. CASE NewReply
    BY <2>4, ReplyNeeds DEF NewReply, Free
  <2>5. CASE \E r \in Repliers : ReplyStep(r)
    BY <2>5, SettleNeeds, LoopNeeds DEF ReplyStep, ReplyTurn
  <2>6. CASE DisposeFree
    BY <2>6, DisposeNeeds
  <2> QED BY <2>1, <2>2, <2>3, <2>4, <2>5, <2>6 DEF Next, Rest
<1> QED BY <1>1, <1>2 DEF NInv

\* Between replies nobody is prompted for what the session has approved for
\* good, whatever has been asked, answered, aborted and disposed.
THEOREM NeedlessTheorem == ~Preemptive => (Spec => []NoNeedlessPrompt)
<1> SUFFICES ASSUME ~Preemptive PROVE Spec => []NoNeedlessPrompt
  OBVIOUS
<1>1. Init => NInv
  <2> SUFFICES ASSUME Init PROVE NInv
    OBVIOUS
  <2>1. PInv
    BY InitInv DEF PInv, Init, Attended, NoGhostPrompts, OfThisInstance
  <2>2. gen \in Gens /\ \A g \in Gens : pending[g] = {}
    BY InitInv DEF Init, IInv, TypeOK
  <2> QED BY <2>1, <2>2 DEF Init, NInv, Backed, FutureEmpty, AskedForReason, Working,
                            NoNeedlessPrompt
<1>2. NInv /\ [Next]_vars => NInv'
  BY StepNeeds
<1>3. NInv => NoNeedlessPrompt
  BY DEF NInv
<1> QED BY <1>1, <1>2, <1>3, PTL DEF Spec
=============================================================================
