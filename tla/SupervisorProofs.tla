-------------------------- MODULE SupervisorProofs --------------------------
(***************************************************************************)
(* What holds of the reviewer loop for every set of reviewers, every        *)
(* budget and every schedule.                                              *)
(*                                                                         *)
(* The inductive invariant IInv says what the properties leave unsaid:     *)
(* that the supervisor decides with nothing pending, that every reviewer   *)
(* the loop still holds was called in this step or the last, so that the   *)
(* cooldown keeps it from being called a second time, and where in a quiet *)
(* session the required reviewers are at each place of the loop.           *)
(***************************************************************************)
EXTENDS Supervisor, FiniteSetTheorems, SequenceTheorems, WellFoundedInduction, TLAPS

-----------------------------------------------------------------------------
(* Numbers and sequences                                                   *)

LEMMA LeastNumber ==
  ASSUME NEW S \in SUBSET Nat, S # {}
  PROVE  \E n \in S : \A m \in S : n <= m
<1> DEFINE Less == {p \in Nat \X Nat : p[1] < p[2]}
<1>1. IsWellFoundedOn(Less, Nat)
  <2>1. Less = OpToRel(<, Nat)
    BY DEF OpToRel
  <2> QED BY <2>1, NatLessThanWellFounded
<1>2. PICK n \in S : \A m \in S : ~(<<m, n>> \in Less)
  <2> HIDE DEF Less
  <2> QED BY <1>1, WFMin
<1>3. ASSUME NEW m \in S PROVE n <= m
  <2>1. m \in Nat /\ n \in Nat /\ <<m, n>> \in Nat \X Nat /\ <<m, n>>[1] = m /\ <<m, n>>[2] = n
    OBVIOUS
  <2>2. ~(m < n)
    BY <1>2, <2>1
  <2> QED BY <2>1, <2>2
<1> QED BY <1>3

\* A group is a part of the batch in which all join the one before them.
LEMMA GroupSizeIs ==
  ASSUME NEW b \in Seq(Agents), b # <<>>
  PROVE  /\ GroupSize(b) \in 1..Len(b)
         /\ \A i \in 2..GroupSize(b) : JoinsPrevious(b, i)
<1>1. Len(b) \in Nat /\ Len(b) >= 1
  BY EmptySeq
<1> DEFINE S == {n \in 1..Len(b) : n = Len(b) \/ ~JoinsPrevious(b, n + 1)}
<1>2. S \in SUBSET Nat /\ Len(b) \in S
  BY <1>1
<1>3. PICK n \in S : \A m \in S : n <= m
  <2> HIDE DEF S
  <2> QED BY <1>2, LeastNumber
<1>4. n \in 1..Len(b) /\ (n = Len(b) \/ ~JoinsPrevious(b, n + 1))
  BY <1>3
<1>5. ASSUME NEW i \in 2..n PROVE JoinsPrevious(b, i)
  <2>1. i - 1 \in 1..Len(b) /\ i - 1 # Len(b) /\ ~(n <= i - 1) /\ i - 1 + 1 = i
    BY <1>1, <1>4
  <2>2. i - 1 \notin S
    BY <1>3, <2>1
  <2> QED BY <2>1, <2>2
<1> QED BY <1>4, <1>5 DEF GroupSize

\* The subtasks of the supervisor on top of the stack are all that lie there.
LEMMA OnTopIs ==
  ASSUME NEW s \in Seq(Agents \cup Parts)
  PROVE  /\ OnTop(s) \in 0..Len(s)
         /\ \A i \in Len(s) - OnTop(s) + 1 .. Len(s) : s[i] \in Agents
         /\ OnTop(s) = Len(s) \/ s[Len(s) - OnTop(s)] \notin Agents
<1>1. Len(s) \in Nat
  BY EmptySeq
<1> DEFINE S == {n \in 0..Len(s) : n = Len(s) \/ s[Len(s) - n] \notin Agents}
<1>2. S \in SUBSET Nat /\ Len(s) \in S
  BY <1>1
<1>3. PICK n \in S : \A m \in S : n <= m
  <2> HIDE DEF S
  <2> QED BY <1>2, LeastNumber
<1>4. n \in 0..Len(s) /\ (n = Len(s) \/ s[Len(s) - n] \notin Agents)
  BY <1>3
<1>5. ASSUME NEW i \in Len(s) - n + 1 .. Len(s) PROVE s[i] \in Agents
  <2>1. /\ Len(s) - i \in 0..Len(s) /\ Len(s) - i # Len(s) /\ ~(n <= Len(s) - i)
        /\ Len(s) - (Len(s) - i) = i
    BY <1>1, <1>4
  <2>2. Len(s) - i \notin S
    BY <1>3, <2>1
  <2> QED BY <2>1, <2>2
<1> QED BY <1>4, <1>5 DEF OnTop

\* Keeping some places of a sequence.
LEMMA KeepIs ==
  ASSUME NEW X, NEW s \in Seq(X), NEW K \in SUBSET DOMAIN s
  PROVE  /\ Keep(s, K) \in Seq(X)
         /\ ToSet(Keep(s, K)) = {s[i] : i \in K}
         /\ IsInjective(s) => IsInjective(Keep(s, K))
<1>1. Len(s) \in Nat /\ DOMAIN s = 1..Len(s) /\ s \in [1..Len(s) -> X] /\ K \subseteq Nat
  BY LenProperties
<1>2. IsFiniteSet(K)
  <2>1. IsFiniteSet(1..Len(s))
    <3>1. 1 \in Int /\ Len(s) \in Int
      BY <1>1
    <3> QED BY <3>1, FS_Interval
  <2> QED BY <1>1, <2>1, FS_Subset
<1> DEFINE c == Cardinality(K)
           Upto(i) == {j \in K : j <= i}
           rank == [i \in K |-> Cardinality(Upto(i))]
<1>3. c \in Nat
  BY <1>2, FS_CardinalityType
<1>4. ASSUME NEW i \in K
      PROVE  /\ IsFiniteSet(Upto(i)) /\ Cardinality(Upto(i)) \in 1..c
             /\ Cardinality(Upto(i)) \in Nat
  <2>1. Upto(i) \in SUBSET K /\ i \in Upto(i)
    BY <1>1
  <2> HIDE DEF Upto
  <2>2. IsFiniteSet(Upto(i)) /\ Cardinality(Upto(i)) <= Cardinality(K)
    BY <1>2, <2>1, FS_Subset
  <2>3. Cardinality(Upto(i)) \in Nat /\ Cardinality(Upto(i)) # 0
    BY <2>1, <2>2, FS_CardinalityType, FS_EmptySet
  <2> QED BY <1>3, <2>2, <2>3
<1>5. ASSUME NEW i \in K, NEW j \in K, i < j
      PROVE  Cardinality(Upto(i)) # Cardinality(Upto(j))
  <2>1. Upto(i) \in SUBSET Upto(j) /\ j \in Upto(j) /\ j \notin Upto(i)
    BY <1>1, <1>5
  <2>2. IsFiniteSet(Upto(j))
    BY <1>4
  <2> HIDE DEF Upto
  <2> QED BY <2>1, <2>2, FS_Subset
<1>6. \A i, j \in K : Cardinality(Upto(i)) = Cardinality(Upto(j)) => i = j
  <2> HIDE DEF Upto
  <2> QED BY <1>1, <1>5
<1>7. rank \in [K -> 1..c]
  BY <1>4
<1>8. rank \in Injection(K, 1..c)
  <2>1. \A i, j \in K : rank[i] = rank[j] => i = j
    <3> HIDE DEF Upto
    <3> QED BY <1>6
  <2> HIDE DEF rank
  <2> QED BY <1>7, <2>1 DEF Injection, IsInjective
<1>9. IsFiniteSet(1..c) /\ Cardinality(1..c) = c
  <2>1. c \in Int /\ 1 \in Int
    BY <1>3
  <2> HIDE DEF c
  <2>2. IsFiniteSet(1..c) /\ Cardinality(1..c) = IF 1 > c THEN 0 ELSE c - 1 + 1
    BY <2>1, FS_Interval
  <2> QED BY <1>3, <2>2
<1>10. rank \in Surjection(K, 1..c)
  <2> HIDE DEF rank
  <2> QED BY <1>8, <1>9, FS_Injection
<1>11. \A n \in 1..c : \E i \in K : Cardinality(Upto(i)) = n
  <2>1. \A n \in 1..c : \E i \in K : rank[i] = n
    <3> HIDE DEF rank
    <3> QED BY <1>10 DEF Surjection
  <2> QED BY <2>1
<1> DEFINE at(n) == CHOOSE i \in K : Cardinality(Upto(i)) = n
<1>12. \A n \in 1..c : at(n) \in K /\ Cardinality(Upto(at(n))) = n
  <2> HIDE DEF Upto, c
  <2> QED BY <1>11
<1>13. \A i \in K : at(Cardinality(Upto(i))) = i /\ Cardinality(Upto(i)) \in 1..c
  <2>1. \A i, j \in K : Cardinality(Upto(i)) = Cardinality(Upto(j)) => i = j
    BY <1>6
  <2> HIDE DEF Upto, c
  <2>2. \A i \in K : Cardinality(Upto(i)) \in 1..c
    BY <1>4
  <2> QED BY <1>12, <2>1, <2>2
<1>14. Keep(s, K) = [n \in 1..c |-> s[at(n)]]
  BY DEF Keep
<1> HIDE DEF at, c, Upto, rank
<1>15. Keep(s, K) \in [1..c -> X]
  BY <1>1, <1>12, <1>14
<1>16. Keep(s, K) \in Seq(X) /\ DOMAIN Keep(s, K) = 1..c
  BY <1>3, <1>15
<1>17. ToSet(Keep(s, K)) = {s[i] : i \in K}
  <2>1. ToSet(Keep(s, K)) = {s[at(n)] : n \in 1..c}
    BY <1>14, <1>16 DEF ToSet
  <2> QED BY <1>12, <1>13, <2>1
<1>18. ASSUME IsInjective(s) PROVE IsInjective(Keep(s, K))
  <2>1. ASSUME NEW m \in 1..c, NEW n \in 1..c, Keep(s, K)[m] = Keep(s, K)[n]
        PROVE  m = n
    <3>1. s[at(m)] = s[at(n)] /\ at(m) \in DOMAIN s /\ at(n) \in DOMAIN s
      BY <1>12, <1>14, <2>1
    <3>2. at(m) = at(n)
      BY <1>18, <3>1 DEF IsInjective
    <3> QED BY <1>12, <3>2
  <2> QED BY <1>16, <2>1 DEF IsInjective
<1> QED BY <1>16, <1>17, <1>18

\* One call more for each reviewer in S.
LEMMA TotalGrows ==
  ASSUME IsFiniteSet(Reviewers), calls \in [Reviewers -> Nat], NEW S \in SUBSET Reviewers,
         calls' = [r \in Reviewers |-> IF r \in S THEN calls[r] + 1 ELSE calls[r]]
  PROVE  /\ TotalCalls \in Nat /\ TotalCalls' \in Nat
         /\ TotalCalls' <= TotalCalls + Cardinality(S)
<1> DEFINE Of(r) == {r} \X (1..calls[r])
           old == UNION {Of(r) : r \in Reviewers}
           more == {<<r, calls[r] + 1>> : r \in S}
<1>1. IsFiniteSet(old) /\ Cardinality(old) \in Nat
  <2> DEFINE parts == {Of(r) : r \in Reviewers}
  <2>1. IsFiniteSet(parts)
    <3> DEFINE f == [r \in Reviewers |-> Of(r)]
    <3>1. f \in Surjection(Reviewers, parts)
      <4>1. f \in [Reviewers -> parts] /\ \A T \in parts : \E r \in Reviewers : f[r] = T
        OBVIOUS
      <4> HIDE DEF f, parts
      <4> QED BY <4>1 DEF Surjection
    <3> HIDE DEF f, parts
    <3> QED BY <3>1, FS_Surjection
  <2>2. \A T \in parts : IsFiniteSet(T)
    <3>1. ASSUME NEW r \in Reviewers PROVE IsFiniteSet(Of(r))
      <4>1. IsFiniteSet({r})
        BY FS_Singleton
      <4>2. IsFiniteSet(1..calls[r])
        <5>1. calls[r] \in Int /\ 1 \in Int
          OBVIOUS
        <5> QED BY <5>1, FS_Interval
      <4> QED BY <4>1, <4>2, FS_Product
    <3> QED BY <3>1
  <2>3. IsFiniteSet(UNION parts)
    <3> HIDE DEF parts
    <3> QED BY <2>1, <2>2, FS_UNION
  <2> QED BY <2>3, FS_CardinalityType
<1>2. IsFiniteSet(S) /\ Cardinality(S) \in Nat
  BY FS_Subset, FS_CardinalityType
<1>3. IsFiniteSet(more) /\ Cardinality(more) \in Nat /\ Cardinality(more) <= Cardinality(S)
  <2>1. IsFiniteSet(more) /\ Cardinality(more) <= Cardinality(S)
    <3> DEFINE f == [r \in S |-> <<r, calls[r] + 1>>]
    <3>1. f \in Surjection(S, more)
      <4>1. f \in [S -> more] /\ \A T \in more : \E r \in S : f[r] = T
        OBVIOUS
      <4> HIDE DEF f, more
      <4> QED BY <4>1 DEF Surjection
    <3> HIDE DEF f, more
    <3> QED BY <1>2, <3>1, FS_Surjection
  <2> QED BY <2>1, FS_CardinalityType
<1>4. UNION {{r} \X (1..calls'[r]) : r \in Reviewers} = old \cup more
  <2>1. ASSUME NEW r \in Reviewers
        PROVE  {r} \X (1..calls'[r]) = Of(r) \cup (IF r \in S THEN {<<r, calls[r] + 1>>} ELSE {})
    <3>1. calls[r] \in Nat
      OBVIOUS
    <3>2. r \in S => 1..calls'[r] = (1..calls[r]) \cup {calls[r] + 1}
      BY <3>1
    <3>3. r \notin S => 1..calls'[r] = 1..calls[r]
      BY <3>1
    <3> QED BY <3>2, <3>3
  <2> QED BY <2>1
<1>5. TotalCalls = Cardinality(old) /\ TotalCalls' = Cardinality(old \cup more)
  BY <1>4 DEF TotalCalls
<1>6. /\ Cardinality(old \cup more) = Cardinality(old) + Cardinality(more) - Cardinality(old \cap more)
      /\ IsFiniteSet(old \cup more) /\ IsFiniteSet(old \cap more)
  <2> HIDE DEF old, more
  <2> QED BY <1>1, <1>3, FS_Union, FS_Intersection
<1>7. Cardinality(old \cap more) \in Nat /\ Cardinality(old \cup more) \in Nat
  BY <1>6, FS_CardinalityType
<1> HIDE DEF old, more
<1> QED BY <1>1, <1>2, <1>3, <1>5, <1>6, <1>7

-----------------------------------------------------------------------------
(* The state file                                                          *)

\* The state file: its type, and that no reviewer is both done and to do.
StateType == [required : SUBSET Reviewers, completed : SUBSET Agents,
              queued : SUBSET Reviewers, running : SUBSET Agents,
              blocked : Agents \cup {None},
              retries : [Agents -> 0..MaxRetries + 1], recoveries : Nat]

Sound(s) ==
    s \in StateType /\ s.completed \cap (s.required \cup s.queued \cup s.running) = {}

\* t is s but for what its reviewers are.
SameRest(s, t) == t.blocked = s.blocked /\ t.retries = s.retries /\ t.recoveries = s.recoveries

LEMMA NormalIs ==
  ASSUME NEW s \in StateType
  PROVE  /\ Sound(Normal(s)) /\ SameRest(s, Normal(s))
         /\ Normal(s).completed = s.completed
         /\ Normal(s).required = s.required \ s.completed
         /\ Normal(s).queued = s.queued \ s.completed
         /\ Normal(s).running = s.running \ s.completed
  BY DEF StateType, Sound, SameRest, Normal

LEMMA SetQueuedIs ==
  ASSUME NEW s, Sound(s), NEW q \in SUBSET Reviewers
  PROVE  /\ Sound(SetQueued(s, q)) /\ SameRest(s, SetQueued(s, q))
         /\ SetQueued(s, q).completed = s.completed
         /\ SetQueued(s, q).required = s.required
         /\ SetQueued(s, q).queued = q \ (s.completed \cup s.running)
         /\ SetQueued(s, q).running = s.running
<1> DEFINE t == [s EXCEPT !.queued = q \ (s.completed \cup s.running)]
<1>1. /\ t \in StateType /\ SameRest(s, t) /\ t.completed = s.completed /\ t.required = s.required
      /\ t.queued = q \ (s.completed \cup s.running) /\ t.running = s.running
  BY DEF Sound, StateType, SameRest
<1> HIDE DEF t
<1>2. /\ Sound(Normal(t)) /\ SameRest(t, Normal(t)) /\ Normal(t).completed = t.completed
      /\ Normal(t).required = t.required \ t.completed
      /\ Normal(t).queued = t.queued \ t.completed
      /\ Normal(t).running = t.running \ t.completed
  BY <1>1, NormalIs
<1>3. SetQueued(s, q) = Normal(t)
  BY DEF SetQueued, t
<1> QED BY <1>1, <1>2, <1>3 DEF SameRest, Sound

LEMMA SetRunningIs ==
  ASSUME NEW s, Sound(s), NEW q \in SUBSET Agents
  PROVE  /\ Sound(SetRunning(s, q)) /\ SameRest(s, SetRunning(s, q))
         /\ SetRunning(s, q).completed = s.completed
         /\ SetRunning(s, q).required = s.required
         /\ SetRunning(s, q).queued \subseteq s.queued
         /\ SetRunning(s, q).running = q \ s.completed
<1> DEFINE t == [s EXCEPT !.running = q \ s.completed, !.queued = @ \ (q \ s.completed)]
<1>1. /\ t \in StateType /\ SameRest(s, t) /\ t.completed = s.completed /\ t.required = s.required
      /\ t.queued \subseteq s.queued /\ t.running = q \ s.completed
  BY DEF Sound, StateType, SameRest
<1> HIDE DEF t
<1>2. /\ Sound(Normal(t)) /\ SameRest(t, Normal(t)) /\ Normal(t).completed = t.completed
      /\ Normal(t).required = t.required \ t.completed
      /\ Normal(t).queued = t.queued \ t.completed
      /\ Normal(t).running = t.running \ t.completed
  BY <1>1, NormalIs
<1>3. SetRunning(s, q) = Normal(t)
  BY DEF SetRunning, t
<1> QED BY <1>1, <1>2, <1>3 DEF SameRest, Sound

\* t is s after the reviewers of rs have answered.
Done(s, rs, t) ==
    /\ Sound(t) /\ t.recoveries = s.recoveries
    /\ t.completed = s.completed \cup rs /\ t.required = s.required \ rs
    /\ t.queued = s.queued \ rs /\ t.running = s.running \ rs

LEMMA MarkCompletedIs ==
  ASSUME NEW s, Sound(s), NEW rs \in SUBSET Agents, NEW b \in Agents \cup {None}
  PROVE  Done(s, rs, MarkCompleted(s, rs, b))
<1> DEFINE t == [s EXCEPT !.completed = @ \cup rs,
                          !.blocked = IF b = None THEN @ ELSE b]
<1>1. /\ t \in StateType /\ t.recoveries = s.recoveries /\ t.completed = s.completed \cup rs
      /\ t.required = s.required /\ t.queued = s.queued /\ t.running = s.running
  BY DEF Sound, StateType
<1> HIDE DEF t
<1>2. /\ Sound(Normal(t)) /\ SameRest(t, Normal(t)) /\ Normal(t).completed = t.completed
      /\ Normal(t).required = t.required \ t.completed
      /\ Normal(t).queued = t.queued \ t.completed
      /\ Normal(t).running = t.running \ t.completed
  BY <1>1, NormalIs
<1>3. MarkCompleted(s, rs, b) = Normal(t)
  BY DEF MarkCompleted, t
<1> QED BY <1>1, <1>2, <1>3 DEF SameRest, Sound, Done

LEMMA UpdateStateIs ==
  ASSUME NEW s, Sound(s), NEW rs \in SUBSET Reviewers
  PROVE  /\ Sound(UpdateState(s, rs))
         /\ UpdateState(s, rs).recoveries = s.recoveries /\ UpdateState(s, rs).blocked = s.blocked
         /\ UpdateState(s, rs).completed = s.completed
         /\ UpdateState(s, rs).required = (s.required \cup rs) \ s.completed
         /\ UpdateState(s, rs).queued = s.queued
         /\ UpdateState(s, rs).running = s.running
<1> DEFINE next == IF s.blocked = None THEN s.retries
                   ELSE [s.retries EXCEPT ![s.blocked] = Capped(@ + 1, MaxRetries + 1)]
           t == [s EXCEPT !.required = @ \cup rs, !.retries = next]
<1>1. next \in [Agents -> 0..MaxRetries + 1]
  <2>1. s.retries \in [Agents -> 0..MaxRetries + 1] /\ s.blocked \in Agents \cup {None}
    BY DEF Sound, StateType
  <2>2. \A n \in 0..MaxRetries + 1 : Capped(n + 1, MaxRetries + 1) \in 0..MaxRetries + 1
    BY LimitsAssumption DEF Capped
  <2> QED BY <2>1, <2>2
<1>2. UpdateState(s, rs) = Normal(t)
  BY DEF UpdateState
<1> HIDE DEF next
<1>3. /\ t \in StateType /\ t.recoveries = s.recoveries /\ t.blocked = s.blocked
      /\ t.completed = s.completed /\ t.required = s.required \cup rs
      /\ t.queued = s.queued /\ t.running = s.running
  BY <1>1 DEF Sound, StateType
<1> HIDE DEF t
<1>4. /\ Sound(Normal(t)) /\ SameRest(t, Normal(t)) /\ Normal(t).completed = t.completed
      /\ Normal(t).required = t.required \ t.completed
      /\ Normal(t).queued = t.queued \ t.completed
      /\ Normal(t).running = t.running \ t.completed
  BY <1>3, NormalIs
<1> QED BY <1>2, <1>3, <1>4 DEF SameRest, Sound

LEMMA ReconcileIs ==
  ASSUME NEW s, Sound(s), NEW e \in BOOLEAN
  PROVE  /\ Sound(Reconcile(s, e))
         /\ Reconcile(s, e).recoveries = s.recoveries /\ Reconcile(s, e).blocked = s.blocked
         /\ Reconcile(s, e).completed = s.completed
         /\ Reconcile(s, e).required = s.required
         /\ Reconcile(s, e).queued = s.queued
         /\ Reconcile(s, e).running = s.running
<1> DEFINE t == [s EXCEPT !.retries[s.blocked] = 0]
<1>1. CASE s.blocked = None
  BY <1>1 DEF Reconcile
<1>2. CASE s.blocked # None
  <2>1. 0 \in 0..MaxRetries + 1
    BY LimitsAssumption
  <2>2. /\ Sound(t) /\ t.recoveries = s.recoveries /\ t.blocked = s.blocked
        /\ t.completed = s.completed /\ t.required = s.required
        /\ t.queued = s.queued /\ t.running = s.running
    BY <1>2, <2>1 DEF Sound, StateType
  <2>3. Reconcile(s, e) = t \/ Reconcile(s, e) = s
    BY DEF Reconcile
  <2> QED BY <2>2, <2>3
<1> QED BY <1>1, <1>2

-----------------------------------------------------------------------------
(* What the loop holds.                                                    *)

\* No reviewer is twice in s, or both in s and in t.
Once(s) == \A i, j \in DOMAIN s : s[i] \in Reviewers /\ s[i] = s[j] => i = j
Apart(s, t) == ToSet(s) \cap ToSet(t) \cap Reviewers = {}

LEMMA ReverseIs ==
  ASSUME NEW X, NEW s \in Seq(X)
  PROVE  /\ Reverse(s) \in Seq(X) /\ ToSet(Reverse(s)) = ToSet(s)
         /\ Len(Reverse(s)) = Len(s)
         /\ Once(s) => Once(Reverse(s))
<1>1. Len(s) \in Nat /\ DOMAIN s = 1..Len(s)
  OBVIOUS
<1> DEFINE n == Len(s)
           r == [i \in 1..n |-> s[(n - i) + 1]]
<1>2. \A i \in 1..n : (n - i) + 1 \in 1..n /\ (n - ((n - i) + 1)) + 1 = i
  BY <1>1
<1>3. r \in Seq(X) /\ Len(r) = n /\ DOMAIN r = 1..n
  <2> HIDE DEF n
  <2>1. n \in Nat /\ s \in [1..n -> X]
    BY DEF n
  <2> QED BY <1>2, <2>1
<1>4. Reverse(s) = r
  BY DEF Reverse
<1>5. ToSet(r) = ToSet(s)
  <2>1. \A i \in 1..n : r[i] = s[(n - i) + 1] /\ r[(n - i) + 1] = s[i]
    BY <1>2
  <2> HIDE DEF r, n
  <2>2. DOMAIN s = 1..n
    BY DEF n
  <2> QED BY <1>2, <1>3, <2>1, <2>2 DEF ToSet
<1>6. ASSUME Once(s), NEW i \in 1..n, NEW j \in 1..n, r[i] \in Reviewers, r[i] = r[j]
      PROVE  i = j
  <2>1. (n - i) + 1 = (n - j) + 1
    BY <1>1, <1>2, <1>6 DEF Once
  <2> QED BY <1>1, <2>1
<1> HIDE DEF r, n
<1>7. Once(s) => Once(r)
  BY <1>3, <1>6 DEF Once
<1> QED BY <1>3, <1>4, <1>5, <1>7 DEF n

LEMMA ConcatIs ==
  ASSUME NEW X, NEW s \in Seq(X), NEW t \in Seq(X)
  PROVE  /\ s \o t \in Seq(X) /\ ToSet(s \o t) = ToSet(s) \cup ToSet(t)
         /\ Once(s) /\ Once(t) /\ Apart(s, t) => Once(s \o t)
<1>1. /\ Len(s) \in Nat /\ Len(t) \in Nat /\ DOMAIN s = 1..Len(s) /\ DOMAIN t = 1..Len(t)
  OBVIOUS
<1>2. /\ s \o t \in Seq(X) /\ DOMAIN (s \o t) = 1..Len(s) + Len(t)
      /\ \A i \in 1..Len(s) + Len(t) :
             (s \o t)[i] = IF i <= Len(s) THEN s[i] ELSE t[i - Len(s)]
  BY ConcatProperties
<1>3. PICK u \in Seq(X) : u = s \o t
  BY <1>2
<1>4. PICK m \in Nat, n \in Nat : m = Len(s) /\ n = Len(t)
  BY <1>1
<1>5. /\ DOMAIN u = 1..m + n /\ DOMAIN s = 1..m /\ DOMAIN t = 1..n
      /\ \A i \in 1..m + n : u[i] = IF i <= m THEN s[i] ELSE t[i - m]
  BY <1>1, <1>2, <1>3, <1>4
<1>6. /\ \A i \in 1..m : i \in 1..m + n /\ u[i] = s[i]
      /\ \A i \in 1..n : m + i \in 1..m + n /\ u[m + i] = t[i]
  <2>1. \A i \in 1..m : i \in 1..m + n /\ i <= m
    BY <1>4
  <2>2. \A i \in 1..n : m + i \in 1..m + n /\ ~(m + i <= m) /\ (m + i) - m = i
    BY <1>4
  <2> QED BY <1>5, <2>1, <2>2
<1>7. \A i \in 1..m + n : i \in 1..m \/ (i - m \in 1..n /\ m + (i - m) = i)
  BY <1>4
<1>8. ToSet(u) = ToSet(s) \cup ToSet(t)
  <2>1. ASSUME NEW i \in 1..m + n PROVE u[i] \in ToSet(s) \cup ToSet(t)
    <3>1. CASE i \in 1..m
      BY <1>5, <1>6, <3>1 DEF ToSet
    <3>2. CASE i - m \in 1..n /\ m + (i - m) = i
      <4>1. u[i] = t[i - m]
        BY <1>6, <3>2
      <4> QED BY <1>5, <3>2, <4>1 DEF ToSet
    <3> QED BY <1>7, <3>1, <3>2
  <2>2. (\A i \in 1..m : s[i] \in ToSet(u)) /\ (\A i \in 1..n : t[i] \in ToSet(u))
    BY <1>5, <1>6 DEF ToSet
  <2> QED BY <1>5, <2>1, <2>2 DEF ToSet
<1>9. ASSUME Once(s), Once(t), Apart(s, t), NEW i \in 1..m + n, NEW j \in 1..m + n,
             u[i] \in Reviewers, u[i] = u[j]
      PROVE  i = j
  <2>1. CASE i \in 1..m /\ j \in 1..m
    BY <1>5, <1>6, <1>9, <2>1 DEF Once
  <2>2. CASE i - m \in 1..n /\ j - m \in 1..n /\ m + (i - m) = i /\ m + (j - m) = j
    <3>1. t[i - m] = u[i] /\ t[j - m] = u[j]
      BY <1>6, <2>2
    <3>2. i - m = j - m
      BY <1>5, <1>9, <2>2, <3>1 DEF Once
    <3> QED BY <2>2, <3>2
  <2>3. ASSUME NEW k \in 1..m, NEW l \in 1..n, s[k] = t[l], s[k] \in Reviewers PROVE FALSE
    BY <1>5, <1>9, <2>3 DEF Apart, ToSet
  <2>4. CASE i \in 1..m /\ j - m \in 1..n /\ m + (j - m) = j
    <3>1. t[j - m] = u[j] /\ s[i] = u[i]
      BY <1>6, <2>4
    <3> QED BY <1>9, <2>3, <2>4, <3>1
  <2>5. CASE j \in 1..m /\ i - m \in 1..n /\ m + (i - m) = i
    <3>1. t[i - m] = u[i] /\ s[j] = u[j]
      BY <1>6, <2>5
    <3> QED BY <1>9, <2>3, <2>5, <3>1
  <2> QED BY <1>7, <2>1, <2>2, <2>4, <2>5
<1>10. Once(s) /\ Once(t) /\ Apart(s, t) => Once(u)
  BY <1>5, <1>9 DEF Once
<1> QED BY <1>3, <1>8, <1>10

\* The parts before and after a place.
LEMMA CutIs ==
  ASSUME NEW X, NEW s \in Seq(X), NEW k \in 0..Len(s)
  PROVE  LET a == SubSeq(s, 1, k)
             b == SubSeq(s, k + 1, Len(s))
         IN  /\ a \in Seq(X) /\ Len(a) = k /\ DOMAIN a = 1..k /\ \A i \in 1..k : a[i] = s[i]
             /\ b \in Seq(X) /\ Len(b) = Len(s) - k /\ \A i \in 1..Len(s) - k : b[i] = s[k + i]
             /\ ToSet(s) = ToSet(a) \cup ToSet(b)
             /\ ToSet(a) = {s[i] : i \in 1..k} /\ ToSet(b) = {s[i] : i \in k + 1..Len(s)}
             /\ Once(s) => Once(a) /\ Once(b) /\ Apart(a, b)
<1> DEFINE n == Len(s)
           a == SubSeq(s, 1, k)
           b == SubSeq(s, k + 1, n)
<1>1. n \in Nat /\ k \in Nat /\ k <= n /\ DOMAIN s = 1..n /\ \A i \in 1..n : s[i] \in X
  OBVIOUS
<1>2. a \in Seq(X) /\ Len(a) = k /\ \A i \in 1..k : a[i] = s[i]
  <2>1. /\ 1 \in Int /\ k \in Int /\ \A i \in 1..k : s[i] \in X
        /\ (IF 1 <= k THEN k - 1 + 1 ELSE 0) = k /\ k - 1 + 1 = k /\ \A i \in 1..k : 1 + i - 1 = i
    BY <1>1
  <2>2. /\ a \in Seq(X) /\ Len(a) = IF 1 <= k THEN k - 1 + 1 ELSE 0
        /\ \A i \in 1..k - 1 + 1 : a[i] = s[1 + i - 1]
    BY <2>1, SubSeqProperties
  <2> HIDE DEF a
  <2> QED BY <2>1, <2>2
<1>3. b \in Seq(X) /\ Len(b) = n - k /\ \A i \in 1..n - k : b[i] = s[k + i]
  <2>1. /\ k + 1 \in Int /\ n \in Int /\ \A i \in k + 1..n : s[i] \in X
        /\ (IF k + 1 <= n THEN n - (k + 1) + 1 ELSE 0) = n - k /\ n - (k + 1) + 1 = n - k
        /\ \A i \in 1..n - k : (k + 1) + i - 1 = k + i
    <3> HIDE DEF n
    <3>1. \A i \in k + 1..n : i \in 1..n
      BY <1>1
    <3>2. k + 1 \in Int /\ n \in Int /\ n - (k + 1) + 1 = n - k /\ (~(k + 1 <= n) => n - k = 0)
      BY <1>1
    <3>3. \A i \in 1..n - k : (k + 1) + i - 1 = k + i
      BY <1>1
    <3> QED BY <1>1, <3>1, <3>2, <3>3
  <2>2. /\ b \in Seq(X) /\ Len(b) = IF k + 1 <= n THEN n - (k + 1) + 1 ELSE 0
        /\ \A i \in 1..n - (k + 1) + 1 : b[i] = s[(k + 1) + i - 1]
    <3> HIDE DEF n
    <3> QED BY <2>1, SubSeqProperties
  <2> HIDE DEF b, n
  <2> QED BY <2>1, <2>2
<1> HIDE DEF a, b, n
<1>4. DOMAIN a = 1..k /\ DOMAIN b = 1..n - k
  BY <1>2, <1>3
<1>5. ToSet(a) = {s[i] : i \in 1..k}
  BY <1>2, <1>4 DEF ToSet
<1>6. ToSet(b) = {s[i] : i \in k + 1..n}
  <2>1. ToSet(b) = {s[k + i] : i \in 1..n - k}
    BY <1>3, <1>4 DEF ToSet
  <2>2. \A i \in k + 1..n : i - k \in 1..n - k /\ k + (i - k) = i
    BY <1>1
  <2>3. \A i \in 1..n - k : k + i \in k + 1..n
    BY <1>1
  <2> QED BY <2>1, <2>2, <2>3
<1>7. ToSet(s) = ToSet(a) \cup ToSet(b)
  <2>1. \A i \in 1..n : i \in 1..k \/ i \in k + 1..n
    BY <1>1
  <2>2. (\A i \in 1..k : i \in 1..n) /\ (\A i \in k + 1..n : i \in 1..n)
    BY <1>1
  <2> QED BY <1>1, <1>5, <1>6, <2>1, <2>2 DEF ToSet
<1>8. ASSUME Once(s) PROVE Once(a) /\ Once(b) /\ Apart(a, b)
  <2>1. Once(a)
    BY <1>1, <1>2, <1>4, <1>8 DEF Once
  <2>2. Once(b)
    <3>1. \A i \in 1..n - k : k + i \in 1..n
      BY <1>1
    <3>2. ASSUME NEW i \in 1..n - k, NEW j \in 1..n - k, b[i] \in Reviewers, b[i] = b[j]
          PROVE  i = j
      <4>1. k + i = k + j
        BY <1>1, <1>3, <1>8, <3>1, <3>2 DEF Once
      <4> QED BY <1>1, <4>1
    <3> QED BY <1>4, <3>2 DEF Once
  <2>3. Apart(a, b)
    <3>1. ASSUME NEW i \in 1..k, NEW j \in k + 1..n, s[i] = s[j], s[i] \in Reviewers PROVE FALSE
      <4>1. i \in 1..n /\ j \in 1..n /\ i # j
        BY <1>1
      <4> QED BY <1>1, <1>8, <3>1, <4>1 DEF Once
    <3> QED BY <1>5, <1>6, <3>1 DEF Apart
  <2> QED BY <2>1, <2>2, <2>3
<1> QED BY <1>2, <1>3, <1>4, <1>5, <1>6, <1>7, <1>8 DEF a, b, n

-----------------------------------------------------------------------------
(* Whom a pass of the supervisor calls                                     *)

\* As many elements as places at most.
LEMMA SizeOfRange ==
  ASSUME NEW X, NEW s \in Seq(X)
  PROVE  /\ IsFiniteSet(ToSet(s)) /\ Cardinality(ToSet(s)) \in Nat
         /\ Cardinality(ToSet(s)) <= Len(s) /\ ToSet(s) \in SUBSET X
<1>1. Len(s) \in Nat /\ DOMAIN s = 1..Len(s) /\ s \in [1..Len(s) -> X]
  OBVIOUS
<1>2. s \in Surjection(1..Len(s), ToSet(s))
  BY <1>1 DEF Surjection, ToSet
<1>3. IsFiniteSet(1..Len(s)) /\ Cardinality(1..Len(s)) = Len(s)
  <2>1. 1 \in Int /\ Len(s) \in Int
    BY <1>1
  <2>2. IsFiniteSet(1..Len(s)) /\ Cardinality(1..Len(s)) = IF 1 > Len(s) THEN 0 ELSE Len(s) - 1 + 1
    BY <2>1, FS_Interval
  <2> QED BY <1>1, <2>2
<1>4. IsFiniteSet(ToSet(s)) /\ Cardinality(ToSet(s)) <= Cardinality(1..Len(s))
  BY <1>2, <1>3, FS_Surjection
<1>5. ToSet(s) \in SUBSET X
  BY <1>1 DEF ToSet
<1> QED BY <1>3, <1>4, <1>5, FS_CardinalityType

LEMMA OnceIsInjective ==
  ASSUME NEW s \in Seq(Reviewers)
  PROVE  Once(s) <=> IsInjective(s)
<1>1. \A i \in DOMAIN s : s[i] \in Reviewers
  OBVIOUS
<1> QED BY <1>1 DEF Once, IsInjective

LEMMA DoneThenQueuedIs ==
  ASSUME NEW s, Sound(s), NEW rs \in SUBSET Agents, NEW q \in SUBSET Reviewers
  PROVE  LET t == SetQueued(MarkCompleted(s, rs, None), q)
         IN  /\ Sound(t) /\ t.required = s.required \ rs /\ t.running = s.running \ rs
             /\ t.queued = q \ (s.completed \cup rs \cup (s.running \ rs))
<1>1. None \in Agents \cup {None}
  OBVIOUS
<1>2. PICK m : m = MarkCompleted(s, rs, None)
  OBVIOUS
<1>20. Done(s, rs, m)
  BY <1>1, <1>2, MarkCompletedIs
<1>3. /\ Sound(m) /\ m.completed = s.completed \cup rs
      /\ m.required = s.required \ rs /\ m.running = s.running \ rs
  BY <1>20 DEF Done
<1>4. PICK t : t = SetQueued(m, q)
  OBVIOUS
<1>5. /\ Sound(t) /\ t.required = m.required /\ t.running = m.running
      /\ t.queued = q \ (m.completed \cup m.running)
  BY <1>3, <1>4, SetQueuedIs
<1> QED BY <1>2, <1>3, <1>4, <1>5

\* Whom a pass of the supervisor calls, and what becomes of the files.
Passed(sub) ==
    /\ pending' = sub
    /\ calls' = [r \in Reviewers |-> IF r \in ToSet(sub) THEN calls[r] + 1 ELSE calls[r]]
    /\ last' = [r \in Reviewers |->
                    IF r \in ToSet(sub) THEN Capped(step + 1, MaxStep) ELSE last[r]]
    /\ Sound(state')
    /\ state'.required \subseteq state.required \cup ToSet(sub)
    /\ state'.running \subseteq state.running
    /\ ~trouble.recovery =>
         /\ Once(sub) /\ Cardinality(ToSet(sub)) <= MaxPerRound + Len(Council)
         /\ \A r \in ToSet(sub) :
               /\ ~(calls[r] >= MaxCalls) /\ ~(TotalCalls >= MaxTotal)
               /\ ~(last[r] # 0 /\ step + 1 - last[r] < MinInterval)
    /\ ~trouble.recovery /\ ~trouble.council =>
         \/ state'.queued \subseteq state'.required
         \/ state'.queued = state.queued /\ state'.required = state.required

LEMMA GeneratedIs ==
  ASSUME TypeOK, pending = <<>>,
         NEW why \in Reasons, NEW evidence \in BOOLEAN, NEW convenes \in BOOLEAN,
         convenes => trouble.council,
         NEW decided \in Decisions(why), NEW escalated \in Escalations(decided),
         NEW reused \in SUBSET ToSet(Called(decided \o escalated, convenes)),
         Generated(why, evidence, decided, escalated, convenes, reused)
  PROVE  \E sub \in Seq(Reviewers) : Passed(sub)
<1>2. PICK chosen, conv, called, updated, sub, fingerprint :
        /\ chosen = decided \o escalated
        /\ conv = IF convenes THEN Convened(chosen) ELSE <<>>
        /\ called = chosen \o conv
        /\ updated = [Reconcile(UpdateState(state, ToSet(decided)), evidence)
                          EXCEPT !.recoveries = @ + Len(escalated)]
        /\ reused \in SUBSET ToSet(called)
        /\ sub = Without(called, reused)
        /\ pending' = pending \o sub
        /\ state' = IF called = <<>> /\ ~convenes THEN updated
                    ELSE SetQueued(MarkCompleted(updated, reused, None), ToSet(pending'))
        /\ RecordCalls(ToSet(sub), fingerprint)
  BY Zenon DEF Generated, Called
<1>3. /\ Sound(state) /\ state.completed \in SUBSET Agents
      /\ calls \in [Reviewers -> Nat]
  BY DEF TypeOK, Sound, StateType
<1>4. /\ decided \in Seq(Reviewers) /\ Len(decided) <= MaxPerRound /\ IsInjective(decided)
      /\ \A r \in ToSet(decided) : /\ r \in Reviewers /\ r \notin state.completed
                                   /\ ~Cooled(r, <<r, prompt, why>>)
  <2>1. PICK m \in 0..MaxPerRound : decided \in [1..m -> Eligible(why)]
    BY DEF Decisions, SeqOf
  <2>2. m \in Nat /\ m <= MaxPerRound
    BY <2>1, LimitsAssumption
  <2>3. /\ Eligible(why) \subseteq Reviewers
        /\ \A r \in Eligible(why) : r \notin state.completed /\ ~Cooled(r, <<r, prompt, why>>)
    BY DEF Eligible
  <2>4. decided \in Seq(Eligible(why)) /\ Len(decided) = m
    BY <2>1, <2>2
  <2>5. decided \in Seq(Reviewers) /\ ToSet(decided) \subseteq Eligible(why)
    BY <2>3, <2>4, SizeOfRange
  <2>6. IsInjective(decided)
    BY <1>2 DEF Decisions
  <2> QED BY <2>2, <2>3, <2>4, <2>5, <2>6
<1>5. escalated \in Seq(Reviewers) /\ (~trouble.recovery => escalated = <<>>)
  <2>1. Escalation \subseteq Reviewers
    BY ReviewersAssumption
  <2>2. ASSUME trouble.recovery, NEW r \in Escalation, escalated = <<r>>
        PROVE  escalated \in Seq(Reviewers)
    BY <2>1, <2>2
  <2>3. escalated = <<>> => escalated \in Seq(Reviewers)
    OBVIOUS
  <2>4. escalated = <<>> \/ (trouble.recovery /\ \E r \in Escalation : escalated = <<r>>)
    BY DEF Escalations
  <2>5. CASE trouble.recovery
    BY <2>2, <2>3, <2>4, <2>5
  <2>6. CASE ~trouble.recovery
    BY <2>3, <2>4, <2>6
  <2> QED BY <2>5, <2>6
<1>6. /\ chosen \in Seq(Reviewers) /\ (~trouble.recovery => chosen = decided)
  <2>1. decided \o escalated \in Seq(Reviewers)
    BY <1>4, <1>5
  <2>2. decided \o <<>> = decided
    BY <1>4, ConcatEmptySeq
  <2> QED BY <1>2, <1>5, <2>1, <2>2
<1>7. /\ conv \in Seq(Reviewers) /\ IsInjective(conv) /\ ToSet(conv) \subseteq ToSet(Council)
      /\ \A r \in ToSet(conv) : r \notin ToSet(chosen) /\ ~Cooled(r, <<r, "council">>)
      /\ ~trouble.council => conv = <<>> /\ ~convenes
  <2>1. CASE ~convenes
    <3>1. conv = <<>>
      BY <1>2, <2>1
    <3> QED BY <2>1, <3>1 DEF IsInjective, ToSet
  <2>2. CASE convenes
    <3> DEFINE K == {i \in DOMAIN Council : /\ Council[i] \notin state.completed \cup ToSet(chosen)
                                            /\ ~Cooled(Council[i], <<Council[i], "council">>)}
    <3>1. conv = Keep(Council, K) /\ K \in SUBSET DOMAIN Council
      BY <1>2, <2>2 DEF Convened
    <3>2. /\ \A i \in K : /\ Council[i] \in ToSet(Council) /\ Council[i] \notin ToSet(chosen)
                          /\ ~Cooled(Council[i], <<Council[i], "council">>)
      BY DEF ToSet
    <3> HIDE DEF K
    <3>3. conv \in Seq(Reviewers) /\ ToSet(conv) = {Council[i] : i \in K} /\ IsInjective(conv)
      BY <3>1, KeepIs, ReviewersAssumption
    <3> QED BY <2>2, <3>2, <3>3
  <2> QED BY <2>1, <2>2
<1>8. /\ called \in Seq(Reviewers) /\ ToSet(called) = ToSet(chosen) \cup ToSet(conv)
      /\ Once(chosen) /\ Once(conv) /\ Apart(chosen, conv) => Once(called)
  <2>1. /\ chosen \o conv \in Seq(Reviewers) /\ ToSet(chosen \o conv) = ToSet(chosen) \cup ToSet(conv)
        /\ Once(chosen) /\ Once(conv) /\ Apart(chosen, conv) => Once(chosen \o conv)
    BY <1>6, <1>7, ConcatIs
  <2> QED BY <1>2, <2>1
<1>9. /\ sub \in Seq(Reviewers) /\ ToSet(sub) = ToSet(called) \ reused
      /\ Once(called) => Once(sub)
  <2> DEFINE K == {i \in DOMAIN called : called[i] \notin reused}
  <2>1. sub = Keep(called, K) /\ K \in SUBSET DOMAIN called
    BY <1>2 DEF Without
  <2>2. {called[i] : i \in K} = ToSet(called) \ reused
    BY DEF ToSet
  <2> HIDE DEF K
  <2>3. /\ sub \in Seq(Reviewers) /\ ToSet(sub) = {called[i] : i \in K}
        /\ IsInjective(called) => IsInjective(sub)
    BY <1>8, <2>1, KeepIs
  <2>4. (Once(called) <=> IsInjective(called)) /\ (Once(sub) <=> IsInjective(sub))
    BY <1>8, <2>3, OnceIsInjective
  <2> QED BY <2>2, <2>3, <2>4
<1>10. pending' = sub
  <2>1. <<>> \o sub = sub
    BY <1>9, ConcatEmptySeq
  <2> QED BY <1>2, <2>1
<1>11. /\ calls' = [r \in Reviewers |-> IF r \in ToSet(sub) THEN calls[r] + 1 ELSE calls[r]]
       /\ last' = [r \in Reviewers |->
                      IF r \in ToSet(sub) THEN Capped(step + 1, MaxStep) ELSE last[r]]
  BY <1>2 DEF RecordCalls
<1>12. /\ Sound(updated) /\ updated.completed = state.completed
       /\ updated.required = (state.required \cup ToSet(decided)) \ state.completed
       /\ updated.queued = state.queued /\ updated.running = state.running
  <2>1. ToSet(decided) \in SUBSET Reviewers /\ Len(escalated) \in Nat
    BY <1>4, <1>5, SizeOfRange
  <2>2. PICK u : u = UpdateState(state, ToSet(decided))
    OBVIOUS
  <2>3. /\ Sound(u) /\ u.completed = state.completed
        /\ u.required = (state.required \cup ToSet(decided)) \ state.completed
        /\ u.queued = state.queued /\ u.running = state.running
    BY <1>3, <2>1, <2>2, UpdateStateIs
  <2>4. PICK t : t = Reconcile(u, evidence)
    OBVIOUS
  <2>5. /\ Sound(t) /\ t.completed = u.completed /\ t.required = u.required
        /\ t.queued = u.queued /\ t.running = u.running
    BY <2>3, <2>4, ReconcileIs
  <2>6. PICK n \in Nat : n = t.recoveries + Len(escalated)
    BY <2>1, <2>5 DEF Sound, StateType
  <2>7. updated = [t EXCEPT !.recoveries = n]
    BY <1>2, <2>2, <2>4, <2>6
  <2>8. /\ Sound(updated) /\ updated.completed = t.completed /\ updated.required = t.required
        /\ updated.queued = t.queued /\ updated.running = t.running
    BY <2>5, <2>7 DEF Sound, StateType
  <2> QED BY <2>3, <2>5, <2>8
<1>13. CASE called = <<>> /\ ~convenes
  <2>1. ToSet(called) = {} /\ state' = updated
    BY <1>2, <1>13 DEF ToSet
  <2>2. ToSet(chosen) = {}
    BY <1>8, <2>1
  <2>3. ToSet(decided) \subseteq ToSet(chosen)
    <3>1. ToSet(decided \o escalated) = ToSet(decided) \cup ToSet(escalated)
      BY <1>4, <1>5, ConcatIs
    <3> QED BY <1>2, <3>1
  <2>4. state'.required = state.required /\ state'.queued = state.queued /\ state'.running = state.running
    BY <1>3, <1>12, <2>1, <2>2, <2>3 DEF Sound
  <2>5. ToSet(sub) = {}
    BY <1>9, <2>1
  <2>6. ~trouble.recovery => Once(sub) /\ Cardinality(ToSet(sub)) <= MaxPerRound + Len(Council)
    <3>1. Cardinality(ToSet(sub)) = 0
      BY <2>5, FS_EmptySet
    <3>2. \A i \in DOMAIN sub : sub[i] \in ToSet(sub)
      BY DEF ToSet
    <3>3. Once(sub)
      BY <2>5, <3>2 DEF Once
    <3>4. MaxPerRound \in Nat /\ Len(Council) \in Nat
      BY LimitsAssumption, ReviewersAssumption
    <3> QED BY <3>1, <3>3, <3>4
  <2>7. Passed(sub)
    BY <1>10, <1>11, <1>12, <2>1, <2>4, <2>5, <2>6 DEF Passed
  <2> QED BY <1>9, <2>7
<1>14. CASE ~(called = <<>> /\ ~convenes)
  <2>1. state' = SetQueued(MarkCompleted(updated, reused, None), ToSet(sub))
    BY <1>2, <1>10, <1>14
  <2>2. reused \in SUBSET Agents /\ ToSet(sub) \in SUBSET Reviewers /\ None \in Agents \cup {None}
    BY <1>2, <1>8, <1>9, SizeOfRange DEF Agents
  <2>6. /\ Sound(state') /\ state'.required = updated.required \ reused
        /\ state'.running = updated.running \ reused
        /\ state'.queued = ToSet(sub) \ (updated.completed \cup reused \cup (updated.running \ reused))
    BY <1>12, <2>1, <2>2, DoneThenQueuedIs
  <2>7. ToSet(called) = ToSet(decided) \cup ToSet(escalated) \cup ToSet(conv)
    <3>1. ToSet(decided \o escalated) = ToSet(decided) \cup ToSet(escalated)
      BY <1>4, <1>5, ConcatIs
    <3> QED BY <1>2, <1>8, <3>1
  <2>8. state'.required \subseteq state.required \cup ToSet(sub)
    BY <1>9, <1>12, <2>6, <2>7
  <2>9. state'.running \subseteq state.running
    BY <1>12, <2>6
  <2>10. ASSUME ~trouble.recovery, ~trouble.council
         PROVE  state'.queued \subseteq state'.required
    <3>1. ToSet(conv) = {} /\ ToSet(escalated) = {}
      BY <1>5, <1>7, <2>10 DEF ToSet
    <3>2. ToSet(sub) = ToSet(decided) \ reused
      BY <1>9, <2>7, <3>1
    <3> QED BY <1>4, <1>12, <2>6, <3>2
  <2>11. ASSUME ~trouble.recovery
         PROVE  /\ Once(sub) /\ Cardinality(ToSet(sub)) <= MaxPerRound + Len(Council)
                /\ \A r \in ToSet(sub) :
                      /\ ~(calls[r] >= MaxCalls) /\ ~(TotalCalls >= MaxTotal)
                      /\ ~(last[r] # 0 /\ step + 1 - last[r] < MinInterval)
    <3>1. chosen = decided /\ ToSet(escalated) = {}
      BY <1>5, <1>6, <2>11 DEF ToSet
    <3>2. Once(sub)
      <4>1. Once(chosen) /\ Once(conv)
        BY <1>4, <1>7, <3>1, OnceIsInjective
      <4>2. Apart(chosen, conv)
        BY <1>7 DEF Apart
      <4> QED BY <1>8, <1>9, <4>1, <4>2
    <3>3. ToSet(sub) \in SUBSET (ToSet(decided) \cup ToSet(Council))
      BY <1>7, <1>9, <2>7, <3>1
    <3>4. Cardinality(ToSet(sub)) <= MaxPerRound + Len(Council)
      <4>1. /\ IsFiniteSet(ToSet(decided)) /\ Cardinality(ToSet(decided)) \in Nat
            /\ Cardinality(ToSet(decided)) <= Len(decided)
        BY <1>4, SizeOfRange
      <4>2. /\ IsFiniteSet(ToSet(Council)) /\ Cardinality(ToSet(Council)) \in Nat
            /\ Cardinality(ToSet(Council)) <= Len(Council)
        BY ReviewersAssumption, SizeOfRange
      <4>3. PICK U, V : U = ToSet(decided) /\ V = ToSet(Council)
        OBVIOUS
      <4>4. /\ IsFiniteSet(U \cup V) /\ IsFiniteSet(U \cap V)
            /\ Cardinality(U \cup V) = Cardinality(U) + Cardinality(V) - Cardinality(U \cap V)
        BY <4>1, <4>2, <4>3, FS_Union, FS_Intersection
      <4>5. Cardinality(U \cap V) \in Nat /\ Cardinality(U \cup V) \in Nat
        BY <4>4, FS_CardinalityType
      <4>6. Cardinality(ToSet(sub)) <= Cardinality(U \cup V) /\ IsFiniteSet(ToSet(sub))
        BY <3>3, <4>3, <4>4, FS_Subset
      <4>7. Cardinality(ToSet(sub)) \in Nat
        BY <4>6, FS_CardinalityType
      <4>8. Len(decided) \in Nat /\ Len(Council) \in Nat /\ MaxPerRound \in Nat
        BY <1>4, ReviewersAssumption, LimitsAssumption
      <4> QED BY <1>4, <4>1, <4>2, <4>3, <4>4, <4>5, <4>6, <4>7, <4>8
    <3>5. ASSUME NEW r \in ToSet(sub)
          PROVE  /\ ~(calls[r] >= MaxCalls) /\ ~(TotalCalls >= MaxTotal)
                 /\ ~(last[r] # 0 /\ step + 1 - last[r] < MinInterval)
      <4>1. r \in ToSet(decided) \/ r \in ToSet(conv)
        BY <1>9, <2>7, <3>1
      <4>2. ~Cooled(r, <<r, prompt, why>>) \/ ~Cooled(r, <<r, "council">>)
        BY <1>4, <1>7, <4>1
      <4> QED BY <4>2 DEF Cooled
    <3> QED BY <3>2, <3>4, <3>5
  <2> QED BY <1>9, <1>10, <1>11, <2>6, <2>8, <2>9, <2>10, <2>11 DEF Passed
<1> QED BY <1>13, <1>14

LEMMA SuperviseIs ==
  ASSUME TypeOK, Supervise, pending = <<>>
  PROVE  \E sub \in Seq(Reviewers) : Passed(sub)
<1>1. trouble.council \in BOOLEAN
  BY DEF TypeOK, Trouble
<1>2. PICK why \in Reasons, evidence \in BOOLEAN, council \in {FALSE, trouble.council} :
       \E decided \in Decisions(why) :
       \E escalated \in Escalations(decided) :
        LET convenes == council /\ ~(ToSet(Council) \subseteq state.completed)
        IN \E reused \in SUBSET ToSet(Called(decided \o escalated, convenes)) :
            Generated(why, evidence, decided, escalated, convenes, reused)
  BY DEF Supervise
<1>3. PICK convenes \in BOOLEAN :
         convenes = (council /\ ~(ToSet(Council) \subseteq state.completed))
  OBVIOUS
<1>4. convenes => trouble.council
  BY <1>1, <1>3
<1>5. \E decided \in Decisions(why) : \E escalated \in Escalations(decided) :
        \E reused \in SUBSET ToSet(Called(decided \o escalated, convenes)) :
            Generated(why, evidence, decided, escalated, convenes, reused)
  BY <1>2, <1>3
<1> QED BY <1>4, <1>5, GeneratedIs

-----------------------------------------------------------------------------
(* The actions                                                             *)

\* TypeOK but for the state file.
Shape ==
    /\ calls \in [Reviewers -> Nat] /\ last \in [Reviewers -> 0..MaxStep]
    /\ pending \in Seq(Agents) /\ tasks \in Seq(Agents \cup Parts) /\ batch \in Seq(Agents)
    /\ part \in Parts \cup {"none"} /\ answered \in BOOLEAN
    /\ prompt \in 0..MaxPrompts /\ step \in 0..MaxStep
    /\ pc \in Parts \cup {"idle", "top", "supervise", "gate", "dispatch", "start", "run", "llm", "second"}
    /\ trouble \in Trouble

LEMMA TypeIs == TypeOK <=> Sound(state) /\ Shape
  BY DEF TypeOK, Shape, Sound, StateType

LEMMA TypeIsNext == TypeOK' <=> Sound(state') /\ Shape'
  BY DEF TypeOK, Shape, Sound, StateType

\* The gate never finds the reason it looks up.
LEMMA NeverExhausted ==
  ASSUME NEW s, Sound(s)
  PROVE  ~Exhausted(s)
<1>1. s.retries \in [Agents -> 0..MaxRetries + 1] /\ s.blocked \in Agents \cup {None}
      /\ s.required \in SUBSET Reviewers
  BY DEF Sound, StateType
<1>2. GateReason(s) \notin Agents
  BY <1>1, GateReasonAssumption DEF GateReason
<1> QED BY <1>1, <1>2 DEF Exhausted

\* Nothing the saved state wants done differs between s and t.
SameWork(s, t) ==
    Sound(t) /\ t.required = s.required /\ t.queued = s.queued /\ t.running = s.running

LEMMA ReconcileKeeps ==
  ASSUME NEW s, Sound(s), NEW e \in BOOLEAN
  PROVE  SameWork(s, Reconcile(s, e))
  BY ReconcileIs DEF SameWork

LEMMA TopIs ==
  ASSUME TypeOK, Top
  PROVE  /\ Sound(state') /\ state'.required = state.required /\ state'.running = state.running
         /\ state'.queued = state.queued \/ state'.queued = {}
         /\ pc' = "idle" => state.required = {} /\ tasks' = <<>>
<1>1. Sound(state)
  BY TypeIs
<1>2. state' = state \/ state' = SetQueued(state, {})
  BY DEF Top
<1>3. CASE state' = SetQueued(state, {})
  <2>1. {} \in SUBSET Reviewers
    OBVIOUS
  <2>2. /\ Sound(state') /\ state'.required = state.required /\ state'.running = state.running
        /\ state'.queued = {} \ (state.completed \cup state.running)
    BY <1>1, <1>3, <2>1, SetQueuedIs
  <2> QED BY <2>2 DEF Top, Clear
<1>4. CASE state' = state
  BY <1>1, <1>4 DEF Top, Clear
<1> QED BY <1>2, <1>3, <1>4

LEMMA GateIs ==
  ASSUME TypeOK, Gate
  PROVE  SameWork(state, state') /\ (pc' = "idle" => state.required = {})
<1>1. Sound(state)
  BY TypeIs
<1>2. PICK ledger, evidence, s :
         /\ ledger \in BOOLEAN /\ evidence \in BOOLEAN
         /\ s = Reconcile(state, evidence)
         /\ \/ state' = UpdateState(s, {}) /\ pc' = "dispatch"
            \/ state' = s /\ ~(Blocked(s, ledger) /\ ~Exhausted(s))
  BY DEF Gate
<1>3. SameWork(state, s)
  BY <1>1, <1>2, ReconcileKeeps
<1>4. CASE state' = UpdateState(s, {}) /\ pc' = "dispatch"
  <2>1. {} \in SUBSET Reviewers /\ Sound(s)
    BY <1>3 DEF SameWork
  <2>2. /\ Sound(state') /\ state'.required = (s.required \cup {}) \ s.completed
        /\ state'.queued = s.queued /\ state'.running = s.running
    BY <1>4, <2>1, UpdateStateIs
  <2>3. state'.required = s.required
    BY <2>1, <2>2 DEF Sound
  <2> QED BY <1>3, <1>4, <2>2, <2>3 DEF SameWork
<1>5. CASE state' = s /\ ~(Blocked(s, ledger) /\ ~Exhausted(s))
  <2>1. ~Exhausted(s)
    BY <1>3, NeverExhausted DEF SameWork
  <2> QED BY <1>3, <1>5, <2>1 DEF SameWork, Blocked
<1> QED BY <1>2, <1>4, <1>5

LEMMA SecondGateIs ==
  ASSUME TypeOK, SecondGate
  PROVE  SameWork(state, state') /\ (pc' = "idle" => state.required = {})
<1>1. Sound(state)
  BY TypeIs
<1>2. PICK ledger, evidence, s :
         /\ ledger \in BOOLEAN /\ evidence \in BOOLEAN
         /\ s = Reconcile(state, evidence) /\ state' = s
         /\ pc' \in {IF Blocked(s, ledger) /\ ~Exhausted(s) THEN "top" ELSE "idle"}
                      \cup (IF Clear(s) THEN {"idle"} ELSE {})
  BY DEF SecondGate
<1>3. SameWork(state, s)
  BY <1>1, <1>2, ReconcileKeeps
<1>4. ~Exhausted(s)
  BY <1>3, NeverExhausted DEF SameWork
<1>5. pc' = "idle" => s.required = {}
  BY <1>2, <1>4 DEF Blocked, Clear
<1> QED BY <1>2, <1>3, <1>5 DEF SameWork

LEMMA GroupIs ==
  ASSUME NEW b \in Seq(Agents), b # <<>>
  PROVE  LET g == GroupSize(b)
             rest == SubSeq(b, g + 1, Len(b))
         IN  /\ g \in 1..Len(b) /\ Group(b) \in Seq(Agents) /\ ToSet(Group(b)) \in SUBSET Agents
             /\ Len(Group(b)) = g /\ rest \in Seq(Agents)
             /\ ToSet(b) = ToSet(Group(b)) \cup ToSet(rest)
             /\ Once(b) => Once(rest)
<1>1. PICK g : g = GroupSize(b)
  OBVIOUS
<1>2. g \in 1..Len(b)
  BY <1>1, GroupSizeIs
<1>3. g \in 0..Len(b)
  BY <1>2
<1>4. PICK a, c : a = SubSeq(b, 1, g) /\ c = SubSeq(b, g + 1, Len(b))
  OBVIOUS
<1>5. /\ a \in Seq(Agents) /\ Len(a) = g /\ c \in Seq(Agents)
      /\ ToSet(b) = ToSet(a) \cup ToSet(c) /\ (Once(b) => Once(c))
  <2>1. a \in Seq(Agents) /\ Len(a) = g /\ c \in Seq(Agents)
    BY <1>3, <1>4, CutIs
  <2>2. ToSet(b) = ToSet(a) \cup ToSet(c)
    BY <1>3, <1>4, CutIs
  <2>3. Once(b) => Once(c)
    BY <1>3, <1>4, CutIs
  <2> QED BY <2>1, <2>2, <2>3
<1>6. ToSet(a) \in SUBSET Agents
  BY <1>5, SizeOfRange
<1>7. a = Group(b)
  BY <1>1, <1>4 DEF Group
<1> QED BY <1>1, <1>2, <1>4, <1>5, <1>6, <1>7

LEMMA StartGroupIs ==
  ASSUME TypeOK, StartGroup
  PROVE  /\ Sound(state') /\ state'.required = state.required
         /\ state'.queued \subseteq state.queued
         /\ state'.running \subseteq ToSet(Group(batch))
<1>1. Sound(state) /\ batch \in Seq(Agents) /\ batch # <<>>
  BY TypeIs DEF Shape, StartGroup
<1>2. PICK G \in SUBSET Agents : G = ToSet(Group(batch))
  BY <1>1, GroupIs
<1>3. PICK s : s = SetRunning(state, G)
  OBVIOUS
<1>4. /\ Sound(s) /\ s.required = state.required /\ s.queued \subseteq state.queued
      /\ s.running = G \ state.completed
  BY <1>1, <1>3, SetRunningIs
<1>5. state' = s \/ state' = SetQueued(s, {})
  BY <1>2, <1>3 DEF StartGroup
<1>6. CASE state' = SetQueued(s, {})
  <2>1. {} \in SUBSET Reviewers
    OBVIOUS
  <2>2. /\ Sound(state') /\ state'.required = s.required /\ state'.running = s.running
        /\ state'.queued = {} \ (s.completed \cup s.running)
    BY <1>4, <1>6, <2>1, SetQueuedIs
  <2> QED BY <1>2, <1>4, <2>2
<1> QED BY <1>2, <1>4, <1>5, <1>6

LEMMA FinishGroupIs ==
  ASSUME TypeOK, FinishGroup, batch # <<>>
  PROVE  /\ Sound(state') /\ state'.required = state.required \ ToSet(Group(batch))
         /\ state'.queued \subseteq state.queued \ ToSet(Group(batch))
         /\ state'.running = {}
<1>1. Sound(state) /\ batch \in Seq(Agents)
  BY TypeIs DEF Shape
<1>2. PICK G \in SUBSET Agents : G = ToSet(Group(batch))
  BY <1>1, GroupIs
<1>3. PICK blocker \in {None} \cup G : state' = SetRunning(MarkCompleted(state, G, blocker), {})
  BY <1>2 DEF FinishGroup
<1>4. blocker \in Agents \cup {None}
  BY <1>2, <1>3
<1>5. PICK m : m = MarkCompleted(state, G, blocker)
  OBVIOUS
<1>6. Done(state, G, m)
  BY <1>1, <1>4, <1>5, MarkCompletedIs
<1>7. Sound(m) /\ {} \in SUBSET Agents /\ state' = SetRunning(m, {})
  BY <1>3, <1>5, <1>6 DEF Done
<1>8. /\ Sound(state') /\ state'.required = m.required /\ state'.queued \subseteq m.queued
      /\ state'.running = {} \ m.completed
  BY <1>7, SetRunningIs
<1> QED BY <1>2, <1>6, <1>8 DEF Done

LEMMA EmptyIs ==
  /\ \A X : <<>> \in Seq(X)
  /\ ToSet(<<>>) = {} /\ Once(<<>>)
  BY DEF ToSet, Once

LEMMA SingleIs ==
  ASSUME NEW x
  PROVE  /\ <<x>> \in Seq({x}) /\ ToSet(<<x>>) = {x} /\ Once(<<x>>)
<1>1. DOMAIN <<x>> = {1} /\ <<x>>[1] = x
  OBVIOUS
<1> QED BY <1>1 DEF ToSet, Once

\* What Top makes of the stack.
LEMMA TopHolds ==
  ASSUME TypeOK, Top
  PROVE  /\ tasks' \in Seq(Agents \cup Parts) /\ ToSet(tasks') \cap Reviewers = ToSet(pending) \cap Reviewers
         /\ Once(pending) => Once(tasks')
         /\ part' = "none" => tasks' \in Seq(Agents) /\ ToSet(tasks') = ToSet(pending)
<1>1. pending \in Seq(Agents) /\ part' \in Parts \cup {"none"}
  <2>1. part \in Parts \cup {"none"} /\ (part' = part \/ part' = "subtask")
    BY DEF TypeOK, Top, Arrives
  <2> QED BY <2>1 DEF TypeOK, Parts
<1>2. PICK r : r = Reverse(pending)
  OBVIOUS
<1>3. r \in Seq(Agents) /\ ToSet(r) = ToSet(pending) /\ (Once(pending) => Once(r))
  BY <1>1, <1>2, ReverseIs
<1>4. r \in Seq(Agents \cup Parts)
  BY <1>3
<1>5. CASE part' = "none"
  <2>1. tasks' = r \o <<>>
    BY <1>2, <1>5 DEF Top
  <2>2. tasks' = r
    BY <1>3, <2>1, ConcatEmptySeq
  <2> QED BY <1>3, <1>4, <2>2
<1>6. CASE part' # "none"
  <2>1. tasks' = r \o <<part'>>
    BY <1>2, <1>6 DEF Top
  <2>2. PICK p \in Parts : p = part' /\ p \notin Reviewers
    BY <1>1, <1>6, ReviewersAssumption DEF Agents
  <2>3. /\ <<p>> \in Seq(Agents \cup Parts) /\ ToSet(<<p>>) = {p} /\ Once(<<p>>)
    BY <2>2, SingleIs
  <2>4. Apart(r, <<p>>)
    BY <2>2, <2>3 DEF Apart
  <2>5. /\ r \o <<p>> \in Seq(Agents \cup Parts) /\ ToSet(r \o <<p>>) = ToSet(r) \cup ToSet(<<p>>)
        /\ Once(r) /\ Once(<<p>>) /\ Apart(r, <<p>>) => Once(r \o <<p>>)
    BY <1>4, <2>3, ConcatIs
  <2> QED BY <1>3, <1>6, <2>1, <2>2, <2>3, <2>4, <2>5
<1> QED BY <1>5, <1>6

LEMMA GateHolds ==
  ASSUME TypeOK, Gate
  PROVE  /\ tasks' \in Seq(Agents \cup Parts) /\ ToSet(tasks') \cap Reviewers = ToSet(tasks) \cap Reviewers
         /\ ToSet(tasks) \subseteq ToSet(tasks')
         /\ Once(tasks) => Once(tasks')
         /\ tasks \in Seq(Agents) => tasks' \in Seq(Agents)
<1>1. tasks \in Seq(Agents \cup Parts)
  BY DEF TypeOK
<1>2. tasks' = tasks \/ tasks' = Append(tasks, Verifier)
  BY DEF Gate
<1>3. CASE tasks' = tasks
  BY <1>1, <1>3
<1>4. CASE tasks' = Append(tasks, Verifier)
  <2>1. Verifier \notin Reviewers /\ Verifier \in Agents
    BY ReviewersAssumption DEF Agents
  <2>2. tasks' = tasks \o <<Verifier>>
    BY <1>1, <1>4, AppendIsConcat
  <2>3. /\ <<Verifier>> \in Seq(Agents \cup Parts) /\ <<Verifier>> \in Seq(Agents)
        /\ ToSet(<<Verifier>>) = {Verifier} /\ Once(<<Verifier>>)
    BY <2>1, SingleIs
  <2>4. Apart(tasks, <<Verifier>>)
    BY <2>1, <2>3 DEF Apart
  <2> PICK v : v = <<Verifier>>
    OBVIOUS
  <2>5. /\ tasks \o v \in Seq(Agents \cup Parts)
        /\ ToSet(tasks \o v) = ToSet(tasks) \cup ToSet(v)
        /\ Once(tasks) /\ Once(v) /\ Apart(tasks, v) => Once(tasks \o v)
    <3>1. PICK X, s : X = Agents \cup Parts /\ s = tasks /\ s \in Seq(X) /\ v \in Seq(X)
      BY <1>1, <2>3
    <3>2. /\ s \o v \in Seq(X) /\ ToSet(s \o v) = ToSet(s) \cup ToSet(v)
          /\ Once(s) /\ Once(v) /\ Apart(s, v) => Once(s \o v)
      BY <3>1, ConcatIs
    <3> QED BY <3>1, <3>2
  <2>6. tasks \in Seq(Agents) => tasks \o v \in Seq(Agents)
    BY <2>3, ConcatIs
  <2> QED BY <2>1, <2>2, <2>3, <2>4, <2>5, <2>6
<1> QED BY <1>2, <1>3, <1>4

\* Dispatch cuts the stack: what was on top of it is the batch, or the one
\* part that is run.
LEMMA DispatchIs ==
  ASSUME TypeOK, Dispatch
  PROVE  \E k \in 0..Len(tasks) :
            /\ tasks' = SubSeq(tasks, 1, k)
            /\ \/ batch' = <<>> /\ pc' \in Parts
               \/ /\ batch' = Reverse(SubSeq(tasks, k + 1, Len(tasks))) /\ batch' \in Seq(Agents)
                  /\ pc' \in {"llm", "start"} /\ (pc' = "llm" => batch' = <<>>)
            /\ tasks \in Seq(Agents) => k = 0 /\ pc' \notin Parts
<1>1. tasks \in Seq(Agents \cup Parts) /\ Len(tasks) \in Nat
  BY DEF TypeOK
<1> PICK o : o = OnTop(tasks)
  OBVIOUS
<1>2. PICK L \in Nat : L = Len(tasks) /\ o = OnTop(tasks)
  BY <1>1
<1>3. /\ o \in 0..L /\ \A i \in L - o + 1 .. L : tasks[i] \in Agents
      /\ o = L \/ tasks[L - o] \notin Agents
  BY <1>1, <1>2, OnTopIs
<1>4. PICK n : n = IF o >= 2 THEN o ELSE Capped(L, 1)
  OBVIOUS
<1>5. n \in 0..L /\ (n = o \/ n = 1 \/ n = 0) /\ (n = 0 => L = 0) /\ L - n \in 0..L
      /\ (o >= 2 => n = o) /\ (~(o >= 2) => n = IF L > 1 THEN 1 ELSE L)
  BY <1>2, <1>3, <1>4 DEF Capped
<1>6. PICK k \in 0..L : k = L - n
  BY <1>5
<1>7. PICK top, taken : top = SubSeq(tasks, k + 1, L) /\ taken = Reverse(top)
  OBVIOUS
<1>8. /\ tasks' = SubSeq(tasks, 1, k)
      /\ batch' = IF n = 1 /\ taken[1] \in Parts THEN <<>> ELSE taken
      /\ pc' = CASE n = 0 -> "llm"
                 [] n = 1 /\ taken[1] \in Parts -> taken[1]
                 [] OTHER -> "start"
  BY <1>2, <1>4, <1>6, <1>7 DEF Dispatch
<1>9. top \in Seq(Agents \cup Parts) /\ Len(top) = n /\ \A i \in 1..n : top[i] = tasks[k + i]
  <2>1. Len(top) = L - k /\ top \in Seq(Agents \cup Parts) /\ \A i \in 1..L - k : top[i] = tasks[k + i]
    BY <1>1, <1>2, <1>7, CutIs
  <2>2. L - k = n
    BY <1>5, <1>6
  <2> QED BY <2>1, <2>2
<1>10. taken \in Seq(Agents \cup Parts) /\ Len(taken) = n /\ (n >= 1 => taken[1] = tasks[L])
  <2>1. taken \in Seq(Agents \cup Parts) /\ Len(taken) = n
    BY <1>7, <1>9, ReverseIs
  <2>2. n >= 1 => n \in 1..n /\ n - 1 + 1 = n /\ k + n = L /\ 1 \in 1..n
    BY <1>5, <1>6
  <2>3. n >= 1 => taken[1] = top[n]
    BY <1>7, <1>9, <2>2 DEF Reverse
  <2> QED BY <1>9, <2>1, <2>2, <2>3
<1>11. ASSUME ~(n = 1 /\ taken[1] \in Parts) PROVE taken \in Seq(Agents)
  <2>1. CASE n = 0
    <3>1. taken = <<>>
      BY <1>10, <2>1, EmptySeq
    <3> QED BY <3>1
  <2>2. CASE n = 1 /\ taken[1] \notin Parts
    <3>0. Len(taken) = 1 /\ 1 \in 1..Len(taken)
      BY <1>10, <2>2
    <3>1. taken[1] \in Agents /\ Len(taken) = 1
      <4>1. taken[1] \in Agents \cup Parts
        BY <1>10, <3>0, ElementOfSeq
      <4> QED BY <2>2, <3>0, <4>1
    <3>2. \A i \in 1..Len(taken) : taken[i] \in Agents
      BY <3>1
    <3> QED BY <1>10, <3>2
  <2>3. CASE n = o
    <3>1. \A i \in 1..n : k + i \in L - o + 1 .. L
      BY <1>5, <1>6, <2>3
    <3>2. \A i \in 1..n : top[i] \in Agents
      BY <1>3, <1>9, <3>1
    <3>3. top \in Seq(Agents)
      BY <1>9, <3>2
    <3> QED BY <1>7, <3>3, ReverseIs
  <2> QED BY <1>5, <1>11, <2>1, <2>2, <2>3
<1>12. ASSUME tasks \in Seq(Agents)
       PROVE  k = 0 /\ ~(n = 1 /\ taken[1] \in Parts)
  <2>1. \A i \in 1..L : tasks[i] \in Agents
    BY <1>2, <1>12
  <2>2. o = L
    <3>1. o # L => L - o \in 1..L
      BY <1>3
    <3> QED BY <1>3, <2>1, <3>1
  <2>3. n = L /\ k = 0
    BY <1>5, <1>6, <2>2
  <2>4. n = 1 => taken[1] \in Agents
    <3>1. n = 1 => L \in 1..L /\ n >= 1
      BY <2>3
    <3> QED BY <1>10, <2>1, <3>1
  <2> QED BY <2>3, <2>4, ReviewersAssumption
<1>13. CASE n = 1 /\ taken[1] \in Parts
  <2>1. batch' = <<>> /\ pc' \in Parts
    BY <1>8, <1>13
  <2> QED BY <1>2, <1>8, <1>12, <1>13, <2>1
<1>14. CASE ~(n = 1 /\ taken[1] \in Parts)
  <2>1. batch' = taken /\ taken \in Seq(Agents) /\ pc' \in {"llm", "start"} /\ (pc' = "llm" => n = 0)
    BY <1>8, <1>11, <1>14
  <2>2. n = 0 => taken = <<>>
    BY <1>10, EmptySeq
  <2>3. pc' \notin Parts
    BY <2>1 DEF Parts
  <2> QED BY <1>2, <1>7, <1>8, <1>12, <2>1, <2>2, <2>3
<1> QED BY <1>13, <1>14

-----------------------------------------------------------------------------
(* The inductive invariant, and the types                                  *)

\* A batch exists only while it is run, and whatever was pending is on the
\* stack when the supervisor decides.
BatchIsRun ==
    /\ pc \notin {"start", "run"} => batch = <<>>
    /\ pc = "run" => batch # <<>>
    /\ pc = "supervise" => pending = <<>>

\* No reviewer is held twice.
HeldOnce ==
    /\ Once(pending) /\ Once(tasks) /\ Once(batch)
    /\ Apart(pending, tasks) /\ Apart(pending, batch) /\ Apart(tasks, batch)

\* The reviewers of s were called in the step n or later.
CalledSince(s, n) == \A r \in ToSet(s) \cap Reviewers : last[r] # 0 /\ last[r] >= n

\* Those that are held were called so recently that they are not called again.
HeldRecently ==
    /\ CalledSince(pending, IF pc \in {"gate", "dispatch"} THEN Capped(step + 1, MaxStep) ELSE step)
    /\ pc \in {"supervise", "gate", "dispatch"} => CalledSince(tasks, step)

Budgets ==
    /\ \A r \in Reviewers : calls[r] <= MaxCalls
    /\ TotalCalls <= MaxTotal + MaxPerRound + Len(Council) - 1

Carried == ToSet(pending) \cup ToSet(tasks) \cup ToSet(batch)

\* In a session without interrupts and other tasks.
QuietHeld ==
    /\ part = "none" /\ pc \notin Parts /\ tasks \in Seq(Agents)
    /\ pc \notin {"supervise", "gate", "dispatch", "idle"} => tasks = <<>>
    /\ state.required \subseteq Carried
    /\ pc # "run" => state.running = {}
    /\ pc = "run" => state.running \subseteq ToSet(Group(batch))
    /\ ~trouble.recovery /\ ~trouble.council => state.queued \subseteq state.required
    /\ pc = "idle" => state.required = {}

IInv ==
    /\ TypeOK /\ BatchIsRun
    /\ ~trouble.recovery => HeldOnce /\ HeldRecently /\ Budgets
    /\ Quiet => QuietHeld

\* The actions that leave what the loop holds, and the files, alone.
Rests == EndBatch \/ FinishPart \/ Generate

LEMMA CappedIs ==
  ASSUME TypeOK
  PROVE  /\ Capped(step + 1, MaxStep) \in 0..MaxStep
         /\ Capped(step + 1, MaxStep) # 0 /\ Capped(step + 1, MaxStep) >= step
         /\ step \in Nat /\ MaxStep \in Nat
  BY LimitsAssumption DEF TypeOK, Capped

LEMMA ShapeStep ==
  ASSUME TypeOK, BatchIsRun, [Next]_vars
  PROVE  Sound(state') /\ Shape' /\ BatchIsRun'
<1>1. Sound(state) /\ Shape
  BY TypeIs
<1> USE DEF Shape, BatchIsRun
<1>2. CASE Top
  <2>1. Sound(state') /\ tasks' \in Seq(Agents \cup Parts)
    BY <1>2, TopIs, TopHolds
  <2>2. answered' \in BOOLEAN /\ prompt' \in 0..MaxPrompts /\ part' \in Parts \cup {"none"}
    <3>1. PICK came \in BOOLEAN : Arrives(came) /\ answered' = (answered /\ ~came)
      BY <1>2 DEF Top
    <3>2. answered' \in BOOLEAN
      BY <3>1
    <3>3. prompt' \in 0..MaxPrompts
      BY <1>1, <3>1, LimitsAssumption DEF Arrives
    <3>4. part' = part \/ part' = "subtask"
      BY <3>1 DEF Arrives
    <3> QED BY <1>1, <3>2, <3>3, <3>4 DEF Parts
  <2>3. UNCHANGED <<cooldown, batch, step, trouble>> /\ pending' = <<>> /\ pc' \in {"supervise", "idle"}
    BY <1>2 DEF Top
  <2>4. batch = <<>>
    BY <1>2 DEF Top
  <2> QED BY <1>1, <2>1, <2>2, <2>3, <2>4, EmptyIs DEF cooldown
<1>3. CASE Supervise
  <2>1. pending = <<>> /\ batch = <<>>
    BY <1>3 DEF Supervise
  <2>2. PICK sub \in Seq(Reviewers) : Passed(sub)
    BY <1>3, <2>1, SuperviseIs
  <2>3. Sound(state') /\ pending' = sub
    BY <2>2 DEF Passed
  <2>4. pending' \in Seq(Agents)
    BY <2>3 DEF Agents
  <2>5. calls' \in [Reviewers -> Nat]
    BY <1>1, <2>2 DEF Passed
  <2>6. last' \in [Reviewers -> 0..MaxStep]
    <3>1. PICK n \in 0..MaxStep : n = Capped(step + 1, MaxStep)
      BY CappedIs
    <3>2. last' = [r \in Reviewers |-> IF r \in ToSet(sub) THEN n ELSE last[r]]
      BY <2>2, <3>1 DEF Passed
    <3> QED BY <1>1, <3>2
  <2>7. UNCHANGED <<tasks, batch, talk, step, trouble>> /\ pc' \in {"gate", "dispatch"}
    BY <1>3 DEF Supervise
  <2> QED BY <1>1, <2>1, <2>3, <2>4, <2>5, <2>6, <2>7 DEF talk
<1>4. CASE Gate
  <2>1. Sound(state') /\ tasks' \in Seq(Agents \cup Parts)
    BY <1>4, GateIs, GateHolds DEF SameWork
  <2>2. /\ UNCHANGED <<cooldown, pending, batch, talk, step, trouble>> /\ pc' \in {"dispatch", "idle"}
        /\ pc = "gate"
    BY <1>4 DEF Gate
  <2> QED BY <1>1, <2>1, <2>2 DEF cooldown, talk
<1>5. CASE Dispatch
  <2>1. PICK k \in 0..Len(tasks) :
            /\ tasks' = SubSeq(tasks, 1, k)
            /\ \/ batch' = <<>> /\ pc' \in Parts
               \/ /\ batch' = Reverse(SubSeq(tasks, k + 1, Len(tasks))) /\ batch' \in Seq(Agents)
                  /\ pc' \in {"llm", "start"} /\ (pc' = "llm" => batch' = <<>>)
    BY <1>5, DispatchIs
  <2>2. tasks' \in Seq(Agents \cup Parts)
    BY <1>1, <2>1, CutIs
  <2>3. UNCHANGED <<state, cooldown, pending, talk, trouble>> /\ step' \in 0..MaxStep
    BY <1>5, CappedIs DEF Dispatch
  <2>4. /\ batch' \in Seq(Agents) /\ pc' \in Parts \cup {"llm", "start"}
        /\ (pc' \notin {"start"} => batch' = <<>>)
    BY <2>1, EmptyIs
  <2> QED BY <1>1, <2>2, <2>3, <2>4 DEF cooldown, talk, Parts
<1>6. CASE StartGroup
  <2>1. Sound(state')
    BY <1>6, StartGroupIs
  <2>2. UNCHANGED <<cooldown, local, talk, step, trouble>> /\ pc' = "run" /\ batch # <<>>
    BY <1>6 DEF StartGroup
  <2> QED BY <1>1, <2>1, <2>2 DEF cooldown, local, talk
<1>7. CASE FinishGroup
  <2>1. pc = "run" /\ batch # <<>>
    BY <1>7 DEF FinishGroup
  <2>2. Sound(state')
    BY <1>7, <2>1, FinishGroupIs
  <2>3. batch' \in Seq(Agents)
    BY <1>1, <1>7, <2>1, GroupIs DEF FinishGroup
  <2>4. /\ UNCHANGED <<cooldown, pending, tasks, part, prompt, step, trouble>>
        /\ pc' = "start" /\ answered' = FALSE
    BY <1>7 DEF FinishGroup
  <2> QED BY <1>1, <2>2, <2>3, <2>4 DEF cooldown
<1>8. CASE EndBatch
  BY <1>1, <1>8 DEF EndBatch, cooldown, local, talk
<1>9. CASE FinishPart
  <2>1. /\ UNCHANGED <<state, cooldown, local, prompt, step, trouble>>
        /\ part' = "none" /\ answered' = FALSE /\ pc' \in {"top", "idle"} /\ pc \in Parts
    BY <1>9 DEF FinishPart
  <2> QED BY <1>1, <2>1 DEF cooldown, local, Parts
<1>10. CASE Generate
  <2>1. /\ UNCHANGED <<state, cooldown, local, prompt, step, trouble>> /\ pc = "llm"
        /\ answered' \in BOOLEAN /\ pc' \in {"top", "second"} /\ (part' = part \/ part' = "compaction")
    BY <1>10 DEF Generate
  <2> QED BY <1>1, <2>1 DEF cooldown, local, Parts
<1>11. CASE SecondGate
  <2>1. Sound(state')
    BY <1>11, SecondGateIs DEF SameWork
  <2>2. UNCHANGED <<cooldown, local, talk, step, trouble>> /\ pc = "second" /\ pc' \in {"top", "idle"}
    BY <1>11 DEF SecondGate
  <2> QED BY <1>1, <2>1, <2>2 DEF cooldown, local, talk
<1>12. CASE Prompt
  <2>1. prompt' \in 0..MaxPrompts /\ part' \in Parts \cup {"none"}
    <3>1. prompt' = prompt + 1 /\ prompt < MaxPrompts /\ (part' = part \/ part' = "subtask")
      BY <1>12 DEF Prompt, Arrives
    <3>2. prompt' \in 0..MaxPrompts
      BY <1>1, <3>1, LimitsAssumption
    <3> QED BY <1>1, <3>1, <3>2 DEF Parts
  <2>2. /\ UNCHANGED <<state, cooldown, trouble>> /\ pending' = <<>> /\ tasks' = <<>> /\ batch' = <<>>
        /\ answered' = FALSE /\ step' = 0 /\ pc' = "top"
    BY <1>12 DEF Prompt
  <2>3. 0 \in 0..MaxStep
    BY LimitsAssumption
  <2> QED BY <1>1, <2>1, <2>2, <2>3, EmptyIs DEF cooldown
<1>13. CASE Interrupt
  <2>1. /\ UNCHANGED <<state, cooldown, talk, step, trouble>> /\ pc' = "idle"
        /\ pending' = <<>> /\ tasks' = <<>> /\ batch' = <<>>
    BY <1>13 DEF Interrupt
  <2> QED BY <1>1, <2>1, EmptyIs DEF cooldown, talk
<1>14. CASE UNCHANGED vars
  BY <1>1, <1>14 DEF vars, cooldown, local, talk
<1> QED BY <1>2, <1>3, <1>4, <1>5, <1>6, <1>7, <1>8, <1>9, <1>10, <1>11, <1>12, <1>13, <1>14
        DEF Next, Loop

\* The steps that hold less than before, or the same, and call nobody.
LEMMA HoldsLess ==
  ASSUME TypeOK, HeldOnce, CalledSince(pending, step),
         calls' = calls, last' = last, step' = step, Budgets,
         Once(tasks'), Once(batch'), pending' = pending \/ pending' = <<>>,
         ToSet(tasks') \cap Reviewers \subseteq ToSet(tasks) \cap Reviewers,
         ToSet(batch') \subseteq ToSet(batch),
         pc' \notin {"supervise", "gate", "dispatch"}
  PROVE  HeldOnce' /\ HeldRecently' /\ Budgets'
<1>1. Once(pending') /\ ToSet(pending') \subseteq ToSet(pending)
  BY EmptyIs DEF HeldOnce
<1>2. HeldOnce'
  BY <1>1 DEF HeldOnce, Apart
<1>3. HeldRecently'
  BY <1>1 DEF HeldRecently, CalledSince
<1>4. Budgets'
  BY DEF Budgets, TotalCalls
<1> QED BY <1>2, <1>3, <1>4

-----------------------------------------------------------------------------
(* Nobody is held twice, and the budgets                                   *)

\* Nobody called anew: whom Supervise calls is not held, and is paid for.
LEMMA SuperviseHolds ==
  ASSUME TypeOK, BatchIsRun, ~trouble.recovery, HeldOnce, HeldRecently, Budgets, Supervise
  PROVE  HeldOnce' /\ HeldRecently' /\ Budgets'
<1>1. /\ pending = <<>> /\ batch = <<>> /\ pc = "supervise"
      /\ tasks' = tasks /\ batch' = batch /\ step' = step /\ pc' \in {"gate", "dispatch"}
  BY DEF Supervise, BatchIsRun
<1>2. PICK sub \in Seq(Reviewers) : Passed(sub)
  BY <1>1, SuperviseIs
<1>3. PICK S \in SUBSET Reviewers : S = ToSet(sub)
  BY SizeOfRange
<1>4. PICK n : n = Capped(step + 1, MaxStep)
  OBVIOUS
<1>5. /\ n \in Nat /\ n # 0 /\ n >= step /\ step \in Nat
      /\ calls \in [Reviewers -> Nat] /\ last \in [Reviewers -> Nat]
  <2>1. /\ n \in Nat /\ n # 0 /\ n >= step /\ step \in Nat
    BY <1>4, CappedIs
  <2>2. calls \in [Reviewers -> Nat] /\ last \in [Reviewers -> 0..MaxStep] /\ 0..MaxStep \subseteq Nat
    BY DEF TypeOK
  <2> QED BY <2>1, <2>2
<1>6. /\ pending' = sub
      /\ calls' = [r \in Reviewers |-> IF r \in S THEN calls[r] + 1 ELSE calls[r]]
      /\ last' = [r \in Reviewers |-> IF r \in S THEN n ELSE last[r]]
      /\ Once(sub) /\ Cardinality(S) <= MaxPerRound + Len(Council)
      /\ \A r \in S : /\ ~(calls[r] >= MaxCalls) /\ ~(TotalCalls >= MaxTotal)
                      /\ ~(last[r] # 0 /\ step + 1 - last[r] < MinInterval)
  BY <1>2, <1>3, <1>4 DEF Passed
<1>7. ASSUME NEW r \in S, r \in ToSet(tasks) PROVE FALSE
  <2>1. last[r] # 0 /\ last[r] >= step
    BY <1>1, <1>3, <1>7 DEF HeldRecently, CalledSince
  <2>2. ~(step + 1 - last[r] < MinInterval)
    BY <1>6, <2>1
  <2>3. last[r] \in Nat /\ MinInterval \in Nat /\ MinInterval >= 2
    BY <1>3, <1>5, LimitsAssumption
  <2> QED BY <1>5, <2>1, <2>2, <2>3
<1>8. HeldOnce'
  <2>1. Apart(sub, tasks) /\ Apart(sub, batch) /\ Apart(tasks, batch)
    BY <1>1, <1>3, <1>7, EmptyIs DEF Apart
  <2> QED BY <1>1, <1>6, <2>1 DEF HeldOnce
<1>9. HeldRecently'
  <2>1. \A r \in ToSet(sub) \cap Reviewers : last'[r] = n
    BY <1>3, <1>6
  <2>2. CalledSince(sub, n)'
    BY <1>5, <1>6, <2>1 DEF CalledSince
  <2>3. Capped(step' + 1, MaxStep) = n
    BY <1>1, <1>4
  <2>4. \A r \in ToSet(tasks) \cap Reviewers : last'[r] = last[r] /\ last[r] # 0 /\ last[r] >= step
    BY <1>1, <1>3, <1>6, <1>7 DEF HeldRecently, CalledSince
  <2>5. \A r \in ToSet(tasks) \cap Reviewers : last'[r] # 0 /\ last'[r] >= step
    BY <2>4
  <2>6. CalledSince(pending, n)'
    BY <1>5, <1>6, <2>1 DEF CalledSince
  <2>7. CalledSince(tasks, step)'
    BY <1>1, <2>5 DEF CalledSince
  <2> QED BY <1>1, <2>3, <2>6, <2>7 DEF HeldRecently, CalledSince
<1>10. Budgets'
  <2>1. IsFiniteSet(Reviewers) /\ Len(Council) \in Nat
    BY ReviewersAssumption
  <2>2. TotalCalls \in Nat /\ TotalCalls' \in Nat /\ TotalCalls' <= TotalCalls + Cardinality(S)
    BY <1>5, <1>6, <2>1, TotalGrows
  <2>3. IsFiniteSet(S) /\ Cardinality(S) \in Nat
    BY <1>3, <2>1, FS_Subset, FS_CardinalityType
  <2>4. TotalCalls' <= MaxTotal + MaxPerRound + Len(Council) - 1
    <3>1. MaxTotal \in Nat /\ MaxPerRound \in Nat
      BY LimitsAssumption
    <3>2. CASE S = {}
      <4>1. Cardinality(S) = 0
        BY <3>2, FS_EmptySet
      <4> QED BY <2>1, <2>2, <3>1, <4>1 DEF Budgets
    <3>3. CASE S # {}
      <4>1. TotalCalls < MaxTotal
        BY <1>6, <2>2, <3>1, <3>3
      <4> QED BY <1>6, <2>1, <2>2, <2>3, <3>1, <4>1
    <3> QED BY <3>2, <3>3
  <2>5. ASSUME NEW r \in Reviewers PROVE calls'[r] <= MaxCalls
    <3>1. calls[r] \in Nat /\ MaxCalls \in Nat /\ calls[r] <= MaxCalls
      BY <1>5, LimitsAssumption DEF Budgets
    <3>2. CASE r \in S
      <4>1. calls'[r] = calls[r] + 1 /\ ~(calls[r] >= MaxCalls)
        BY <1>6, <3>2
      <4> QED BY <3>1, <4>1
    <3>3. CASE r \notin S
      BY <1>6, <3>1, <3>3
    <3> QED BY <3>2, <3>3
  <2> QED BY <2>4, <2>5 DEF Budgets
<1> QED BY <1>8, <1>9, <1>10

LEMMA HeldStep ==
  ASSUME TypeOK, BatchIsRun, ~trouble.recovery, HeldOnce, HeldRecently, Budgets, [Next]_vars
  PROVE  HeldOnce' /\ HeldRecently' /\ Budgets'
<1>1. /\ pending \in Seq(Agents) /\ tasks \in Seq(Agents \cup Parts) /\ batch \in Seq(Agents)
      /\ step \in Nat /\ last \in [Reviewers -> Nat]
  <2>1. last \in [Reviewers -> 0..MaxStep] /\ 0..MaxStep \subseteq Nat
    BY DEF TypeOK
  <2>2. step \in Nat
    BY CappedIs
  <2> QED BY <2>1, <2>2 DEF TypeOK
<1>2. CalledSince(pending, step)
  <2>1. PICK n : n = Capped(step + 1, MaxStep)
    OBVIOUS
  <2>2. n \in Nat /\ n >= step
    BY <2>1, CappedIs
  <2>3. CalledSince(pending, n) \/ CalledSince(pending, step)
    BY <2>1 DEF HeldRecently, CalledSince
  <2>4. \A r \in Reviewers : last[r] \in Nat
    BY <1>1
  <2>5. CalledSince(pending, n) => CalledSince(pending, step)
    BY <1>1, <2>2, <2>4 DEF CalledSince
  <2> QED BY <2>3, <2>5
<1>3. Once(tasks) /\ Once(batch) /\ Once(pending)
  BY DEF HeldOnce
<1>4. CASE Top
  <2>1. /\ ToSet(tasks') \cap Reviewers = ToSet(pending) \cap Reviewers /\ Once(tasks')
    BY <1>3, <1>4, TopHolds
  <2>2. /\ UNCHANGED <<cooldown, batch, step, trouble>> /\ pending' = <<>>
        /\ pc' \in {"supervise", "idle"} /\ pc = "top"
    BY <1>4 DEF Top
  <2>3. batch' = <<>>
    BY <2>2 DEF BatchIsRun
  <2>4. HeldOnce'
    BY <2>1, <2>2, <2>3, EmptyIs DEF HeldOnce, Apart
  <2>5. HeldRecently'
    BY <1>2, <2>1, <2>2, EmptyIs DEF HeldRecently, CalledSince, cooldown
  <2>6. Budgets'
    BY <2>2 DEF Budgets, TotalCalls, cooldown
  <2> QED BY <2>4, <2>5, <2>6
<1>5. CASE Supervise
  BY <1>5, SuperviseHolds
<1>6. CASE Gate
  <2>1. ToSet(tasks') \cap Reviewers = ToSet(tasks) \cap Reviewers /\ Once(tasks')
    BY <1>3, <1>6, GateHolds
  <2>2. /\ UNCHANGED <<cooldown, pending, batch, talk, step, trouble>>
        /\ pc = "gate" /\ pc' \in {"dispatch", "idle"}
    BY <1>6 DEF Gate
  <2>3. HeldOnce'
    BY <2>1, <2>2 DEF HeldOnce, Apart
  <2>4. HeldRecently'
    <3>1. CalledSince(tasks, step) /\ CalledSince(pending, Capped(step + 1, MaxStep))
      BY <2>2 DEF HeldRecently
    <3>2. CalledSince(tasks, step)'
      BY <2>1, <2>2, <3>1 DEF CalledSince, cooldown
    <3>3. CASE pc' = "dispatch"
      <4>1. CalledSince(pending, Capped(step + 1, MaxStep))'
        BY <2>2, <3>1 DEF CalledSince, cooldown
      <4> QED BY <3>2, <3>3, <4>1 DEF HeldRecently, CalledSince
    <3>4. CASE pc' = "idle"
      <4>1. CalledSince(pending, step)'
        BY <1>2, <2>2 DEF CalledSince, cooldown
      <4> QED BY <3>4, <4>1 DEF HeldRecently, CalledSince
    <3> QED BY <2>2, <3>3, <3>4
  <2>5. Budgets'
    BY <2>2 DEF Budgets, TotalCalls, cooldown
  <2> QED BY <2>3, <2>4, <2>5
<1>7. CASE Dispatch
  <2>1. PICK k \in 0..Len(tasks) :
            /\ tasks' = SubSeq(tasks, 1, k)
            /\ \/ batch' = <<>> /\ pc' \in Parts
               \/ /\ batch' = Reverse(SubSeq(tasks, k + 1, Len(tasks))) /\ batch' \in Seq(Agents)
                  /\ pc' \in {"llm", "start"} /\ (pc' = "llm" => batch' = <<>>)
    BY <1>7, DispatchIs
  <2>2. PICK a, b : a = SubSeq(tasks, 1, k) /\ b = SubSeq(tasks, k + 1, Len(tasks))
    OBVIOUS
  <2>3. ToSet(tasks) = ToSet(a) \cup ToSet(b)
    BY <1>1, <2>2, CutIs
  <2>4. b \in Seq(Agents \cup Parts)
    BY <1>1, <2>2, CutIs
  <2>5. Once(a) /\ Once(b) /\ Apart(a, b)
    BY <1>1, <1>3, <2>2, CutIs
  <2>6. Once(batch') /\ ToSet(batch') \subseteq ToSet(b)
    <3>1. Once(Reverse(b)) /\ ToSet(Reverse(b)) = ToSet(b)
      BY <2>4, <2>5, ReverseIs
    <3> QED BY <2>1, <2>2, <3>1, EmptyIs
  <2>7. /\ UNCHANGED <<state, cooldown, pending, talk, trouble>>
        /\ step' = Capped(step + 1, MaxStep) /\ pc = "dispatch"
        /\ pc' \notin {"supervise", "gate", "dispatch"}
    BY <1>7, <2>1 DEF Dispatch, Parts
  <2>8. HeldOnce'
    BY <1>3, <2>1, <2>2, <2>3, <2>5, <2>6, <2>7 DEF HeldOnce, Apart
  <2>9. HeldRecently'
    <3>1. CalledSince(pending, Capped(step + 1, MaxStep))
      BY <2>7 DEF HeldRecently
    <3>2. CalledSince(pending, step)'
      BY <2>7, <3>1 DEF CalledSince, cooldown
    <3> QED BY <2>7, <3>2 DEF HeldRecently, CalledSince
  <2>10. Budgets'
    BY <2>7 DEF Budgets, TotalCalls, cooldown
  <2> QED BY <2>8, <2>9, <2>10
<1>8. CASE FinishGroup
  <2>1. pc = "run" /\ batch # <<>>
    BY <1>8 DEF FinishGroup, BatchIsRun
  <2>2. Once(batch') /\ ToSet(batch') \subseteq ToSet(batch)
    BY <1>1, <1>3, <1>8, <2>1, GroupIs DEF FinishGroup
  <2>3. UNCHANGED <<cooldown, pending, tasks, step>> /\ pc' = "start"
    BY <1>8 DEF FinishGroup
  <2> QED BY <1>2, <1>3, <2>2, <2>3, HoldsLess DEF cooldown
<1>9. CASE StartGroup \/ EndBatch \/ FinishPart \/ Generate \/ SecondGate
  <2>1. UNCHANGED <<cooldown, local, step>> /\ pc' \in {"run", "top", "idle", "second"}
    BY <1>9 DEF StartGroup, EndBatch, FinishPart, Generate, SecondGate
  <2> QED BY <1>2, <1>3, <2>1, HoldsLess DEF cooldown, local
<1>10. CASE Prompt \/ Interrupt
  <2>1. /\ pending' = <<>> /\ tasks' = <<>> /\ batch' = <<>> /\ UNCHANGED cooldown
        /\ pc' \in {"top", "idle"}
    BY <1>10 DEF Prompt, Interrupt
  <2>2. HeldOnce'
    BY <2>1, EmptyIs DEF HeldOnce, Apart
  <2>3. HeldRecently'
    BY <2>1, EmptyIs DEF HeldRecently, CalledSince
  <2>4. Budgets'
    BY <2>1 DEF Budgets, TotalCalls, cooldown
  <2> QED BY <2>2, <2>3, <2>4
<1>11. CASE UNCHANGED vars
  <2>1. UNCHANGED <<cooldown, local, step, pc>>
    BY <1>11 DEF vars
  <2>2. HeldOnce'
    BY <2>1 DEF HeldOnce, Apart, local
  <2>3. HeldRecently'
    BY <2>1 DEF HeldRecently, CalledSince, local, cooldown
  <2>4. Budgets'
    BY <2>1 DEF Budgets, TotalCalls, cooldown
  <2> QED BY <2>2, <2>3, <2>4
<1> QED BY <1>4, <1>5, <1>6, <1>7, <1>8, <1>9, <1>10, <1>11 DEF Next, Loop

-----------------------------------------------------------------------------
(* Nobody is forgotten; the theorems                                       *)

\* What is required stays in the hands of the loop.
LEMMA QuietStep ==
  ASSUME TypeOK, BatchIsRun, Quiet, QuietHeld, [Next]_vars
  PROVE  QuietHeld'
<1>1. /\ Sound(state) /\ pending \in Seq(Agents) /\ tasks \in Seq(Agents) /\ batch \in Seq(Agents)
      /\ part = "none" /\ pc \notin Parts /\ state.required \subseteq Carried
      /\ ~trouble.interrupts /\ ~trouble.parts
  BY TypeIs DEF Shape, QuietHeld, Quiet
<1>2. CASE Top
  <2>1. /\ state'.required = state.required /\ state'.running = state.running
        /\ state'.queued = state.queued \/ state'.queued = {}
        /\ pc' = "idle" => state.required = {} /\ tasks' = <<>>
    BY <1>2, TopIs
  <2>2. part' = "none"
    BY <1>1, <1>2 DEF Top, Arrives
  <2>3. tasks' \in Seq(Agents) /\ ToSet(tasks') = ToSet(pending)
    BY <1>2, <2>2, TopHolds
  <2>4. /\ UNCHANGED <<batch, trouble>> /\ pending' = <<>> /\ pc = "top" /\ pc' \in {"supervise", "idle"}
    BY <1>2 DEF Top
  <2>5. tasks = <<>>
    BY <2>4 DEF QuietHeld
  <2>6. state'.required \subseteq Carried'
    BY <1>1, <2>1, <2>3, <2>4, <2>5, EmptyIs DEF Carried
  <2> QED BY <2>1, <2>2, <2>3, <2>4, <2>6 DEF QuietHeld, Parts
<1>3. CASE Supervise
  <2>1. /\ pc = "supervise" /\ pending = <<>> /\ batch = <<>>
        /\ UNCHANGED <<tasks, batch, part, trouble>> /\ pc' \in {"gate", "dispatch"}
    BY <1>3 DEF Supervise, BatchIsRun, talk
  <2>2. PICK sub \in Seq(Reviewers) : Passed(sub)
    BY <1>3, <2>1, SuperviseIs
  <2>3. /\ pending' = sub /\ state'.required \subseteq state.required \cup ToSet(sub)
        /\ state'.running \subseteq state.running
        /\ ~trouble.recovery /\ ~trouble.council =>
             \/ state'.queued \subseteq state'.required
             \/ state'.queued = state.queued /\ state'.required = state.required
    BY <2>2 DEF Passed
  <2>4. state'.required \subseteq Carried'
    BY <1>1, <2>1, <2>3, EmptyIs DEF Carried
  <2> QED BY <1>1, <2>1, <2>3, <2>4 DEF QuietHeld, Parts
<1>4. CASE Gate
  <2>1. SameWork(state, state') /\ (pc' = "idle" => state.required = {})
    BY <1>4, GateIs
  <2>2. tasks' \in Seq(Agents) /\ ToSet(tasks) \subseteq ToSet(tasks')
    BY <1>1, <1>4, GateHolds
  <2>3. /\ UNCHANGED <<pending, batch, part, trouble>> /\ pc = "gate" /\ pc' \in {"dispatch", "idle"}
    BY <1>4 DEF Gate, talk
  <2>4. state'.required \subseteq Carried'
    BY <1>1, <2>1, <2>2, <2>3 DEF Carried, SameWork
  <2> QED BY <1>1, <2>1, <2>2, <2>3, <2>4 DEF QuietHeld, SameWork, Parts
<1>5. CASE Dispatch
  <2>1. PICK k \in 0..Len(tasks) :
            /\ tasks' = SubSeq(tasks, 1, k)
            /\ \/ batch' = <<>> /\ pc' \in Parts
               \/ /\ batch' = Reverse(SubSeq(tasks, k + 1, Len(tasks))) /\ batch' \in Seq(Agents)
                  /\ pc' \in {"llm", "start"} /\ (pc' = "llm" => batch' = <<>>)
            /\ tasks \in Seq(Agents) => k = 0 /\ pc' \notin Parts
    BY <1>5, DispatchIs
  <2>2. PICK a, b : a = SubSeq(tasks, 1, k) /\ b = SubSeq(tasks, k + 1, Len(tasks))
    OBVIOUS
  <2>3. ToSet(tasks) = ToSet(a) \cup ToSet(b)
    BY <1>1, <2>2, CutIs
  <2>4. a \in Seq(Agents) /\ Len(a) = k
    BY <1>1, <2>2, CutIs
  <2>5. b \in Seq(Agents)
    BY <1>1, <2>2, CutIs
  <2>6. a = <<>> /\ tasks' = <<>>
    BY <1>1, <2>1, <2>2, <2>4, EmptySeq
  <2>7. ToSet(batch') = ToSet(b)
    <3>1. ToSet(Reverse(b)) = ToSet(b)
      BY <2>5, ReverseIs
    <3> QED BY <1>1, <2>1, <2>2, <3>1
  <2>8. /\ UNCHANGED <<state, pending, part, trouble>> /\ pc = "dispatch" /\ pc' \in {"llm", "start"}
    BY <1>1, <1>5, <2>1 DEF Dispatch, talk
  <2>9. state'.required \subseteq Carried'
    <3>1. ToSet(batch) = {}
      BY <2>8, EmptyIs DEF BatchIsRun
    <3> QED BY <1>1, <2>3, <2>6, <2>7, <2>8, <3>1, EmptyIs DEF Carried
  <2> QED BY <1>1, <2>6, <2>8, <2>9, EmptyIs DEF QuietHeld, Parts
<1>6. CASE StartGroup
  <2>1. /\ state'.required = state.required /\ state'.queued \subseteq state.queued
        /\ state'.running \subseteq ToSet(Group(batch))
    BY <1>6, StartGroupIs
  <2>2. UNCHANGED <<pending, tasks, batch, part, trouble>> /\ pc = "start" /\ pc' = "run"
    BY <1>6 DEF StartGroup, local, talk
  <2>3. Carried' = Carried /\ Group(batch)' = Group(batch)
    BY <2>2 DEF Carried, Group, GroupSize, JoinsPrevious
  <2> QED BY <1>1, <2>1, <2>2, <2>3 DEF QuietHeld, Parts
<1>7. CASE FinishGroup
  <2>1. pc = "run" /\ batch # <<>> /\ tasks = <<>>
    BY <1>7 DEF FinishGroup, BatchIsRun, QuietHeld
  <2>2. /\ state'.required = state.required \ ToSet(Group(batch))
        /\ state'.queued \subseteq state.queued \ ToSet(Group(batch)) /\ state'.running = {}
    BY <1>7, <2>1, FinishGroupIs
  <2>3. UNCHANGED <<pending, tasks, part, trouble>> /\ pc' = "start"
    BY <1>7 DEF FinishGroup
  <2>4. ToSet(batch) = ToSet(Group(batch)) \cup ToSet(batch')
    BY <1>1, <1>7, <2>1, GroupIs DEF FinishGroup
  <2>5. state'.required \subseteq Carried'
    BY <1>1, <2>2, <2>3, <2>4 DEF Carried
  <2> QED BY <1>1, <2>1, <2>2, <2>3, <2>5 DEF QuietHeld, Parts
<1>8. CASE EndBatch
  <2>1. UNCHANGED <<state, pending, tasks, batch, part, trouble>> /\ pc = "start" /\ pc' = "top"
    BY <1>8 DEF EndBatch, local, talk
  <2> QED BY <1>1, <2>1 DEF QuietHeld, Carried, Parts
<1>9. CASE Generate
  <2>1. UNCHANGED <<state, pending, tasks, batch, part, trouble>> /\ pc = "llm" /\ pc' \in {"top", "second"}
    BY <1>1, <1>9 DEF Generate, local
  <2> QED BY <1>1, <2>1 DEF QuietHeld, Carried, Parts
<1>10. CASE SecondGate
  <2>1. SameWork(state, state') /\ (pc' = "idle" => state.required = {})
    BY <1>10, SecondGateIs
  <2>2. UNCHANGED <<pending, tasks, batch, part, trouble>> /\ pc = "second" /\ pc' \in {"top", "idle"}
    BY <1>10 DEF SecondGate, local, talk
  <2> QED BY <1>1, <2>1, <2>2 DEF QuietHeld, Carried, SameWork, Parts
<1>11. CASE Prompt
  <2>1. /\ UNCHANGED <<state, trouble>> /\ tasks' = <<>> /\ pc = "idle" /\ pc' = "top"
    BY <1>11 DEF Prompt
  <2>2. part' = "none"
    BY <1>1, <1>11 DEF Prompt, Arrives
  <2>3. state'.required = {} /\ state'.running = {}
    BY <2>1 DEF QuietHeld
  <2> QED BY <2>1, <2>2, <2>3, EmptyIs DEF QuietHeld, Parts
<1>12. CASE UNCHANGED vars
  <2>1. UNCHANGED <<state, pending, tasks, batch, part, pc, trouble>>
    BY <1>12 DEF vars, local, talk
  <2>2. Carried' = Carried /\ Group(batch)' = Group(batch)
    BY <2>1 DEF Carried, Group, GroupSize, JoinsPrevious
  <2> QED BY <1>1, <2>1, <2>2 DEF QuietHeld, Parts
<1>13. ~Interrupt /\ ~FinishPart
  BY <1>1 DEF Interrupt, FinishPart
<1> QED BY <1>2, <1>3, <1>4, <1>5, <1>6, <1>7, <1>8, <1>9, <1>10, <1>11, <1>12, <1>13 DEF Next, Loop

LEMMA InitHolds == Init => IInv
<1> SUFFICES ASSUME Init PROVE IInv
  OBVIOUS
<1>1. Sound(state)
  <2>1. state.retries \in [Agents -> 0..MaxRetries + 1]
    BY LimitsAssumption DEF Init
  <2>2. None \in Agents \cup {None}
    OBVIOUS
  <2> QED BY <2>1, <2>2 DEF Init, Sound, StateType
<1>2. Shape
  <2>1. 0 \in 0..MaxStep /\ 0 \in 0..MaxPrompts
    BY LimitsAssumption
  <2>2. trouble \in Trouble
    BY TroublesAssumption DEF Init
  <2> QED BY <2>1, <2>2, EmptyIs DEF Init, Shape
<1>3. BatchIsRun
  BY DEF Init, BatchIsRun
<1>4. HeldOnce /\ HeldRecently
  BY EmptyIs DEF Init, HeldOnce, HeldRecently, Apart, CalledSince
<1>5. Budgets
  <2>1. \A r \in Reviewers : calls[r] = 0
    BY DEF Init
  <2>2. \A r \in Reviewers : {r} \X (1..calls[r]) = {}
    BY <2>1
  <2>3. UNION {{r} \X (1..calls[r]) : r \in Reviewers} = {}
    BY <2>2
  <2>4. TotalCalls = 0
    BY <2>3, FS_EmptySet DEF TotalCalls
  <2>5. Len(Council) \in Nat
    BY ReviewersAssumption
  <2> QED BY <2>1, <2>4, <2>5, LimitsAssumption DEF Budgets
<1>6. QuietHeld
  BY EmptyIs DEF Init, QuietHeld, Parts
<1> QED BY <1>1, <1>2, <1>3, <1>4, <1>5, <1>6, TypeIs DEF IInv

LEMMA NextKeeps == IInv /\ [Next]_vars => IInv'
<1> SUFFICES ASSUME IInv, [Next]_vars PROVE IInv'
  OBVIOUS
<1>1. TypeOK /\ BatchIsRun
  BY DEF IInv
<1>2. Sound(state') /\ Shape' /\ BatchIsRun'
  BY <1>1, ShapeStep
<1>3. TypeOK'
  BY <1>2, TypeIsNext
<1>4. trouble' = trouble
  BY DEF Next, Loop, Top, Supervise, Gate, Dispatch, StartGroup, FinishGroup, EndBatch,
         FinishPart, Generate, SecondGate, Prompt, Interrupt, vars
<1>5. ASSUME ~trouble.recovery PROVE HeldOnce' /\ HeldRecently' /\ Budgets'
  BY <1>1, <1>5, HeldStep DEF IInv
<1>6. ASSUME Quiet PROVE QuietHeld'
  BY <1>1, <1>6, QuietStep DEF IInv
<1> QED BY <1>2, <1>3, <1>4, <1>5, <1>6 DEF IInv, Quiet

THEOREM Invariant == Spec => []IInv
<1>1. Init => IInv
  BY InitHolds
<1>2. IInv /\ [Next]_vars => IInv'
  BY NextKeeps
<1> QED BY <1>1, <1>2, PTL DEF Spec

\* What HeldSeq holds, in terms of its three parts.
LEMMA HeldIs ==
  ASSUME TypeOK
  PROVE  /\ Held = Carried
         /\ HeldOnce => Once(HeldSeq)
<1>1. PICK X, p, t, b : /\ X = Agents \cup Parts /\ p = pending /\ t = tasks /\ b = batch
                        /\ p \in Seq(X) /\ t \in Seq(X) /\ b \in Seq(X)
  <2>1. pending \in Seq(Agents) /\ tasks \in Seq(Agents \cup Parts) /\ batch \in Seq(Agents)
    BY DEF TypeOK
  <2>2. pending \in Seq(Agents \cup Parts) /\ batch \in Seq(Agents \cup Parts)
    BY <2>1
  <2> QED BY <2>1, <2>2
<1>2. PICK u : u = p \o t
  OBVIOUS
<1>3. u \in Seq(X) /\ ToSet(u) = ToSet(p) \cup ToSet(t) /\ (Once(p) /\ Once(t) /\ Apart(p, t) => Once(u))
  BY <1>1, <1>2, ConcatIs
<1>4. PICK v : v = u \o b
  OBVIOUS
<1>5. v \in Seq(X) /\ ToSet(v) = ToSet(u) \cup ToSet(b) /\ (Once(u) /\ Once(b) /\ Apart(u, b) => Once(v))
  BY <1>1, <1>3, <1>4, ConcatIs
<1>6. HeldSeq = v
  <2>1. pending \o tasks \o batch = u \o b
    BY <1>1, <1>2
  <2> QED BY <1>4, <2>1 DEF HeldSeq
<1>7. Held = Carried
  BY <1>1, <1>3, <1>5, <1>6 DEF Held, Carried
<1>8. ASSUME HeldOnce PROVE Once(v)
  <2>1. Once(p) /\ Once(t) /\ Once(b) /\ Apart(p, t) /\ Apart(p, b) /\ Apart(t, b)
    BY <1>1, <1>8 DEF HeldOnce
  <2>2. Apart(u, b)
    BY <1>3, <2>1 DEF Apart
  <2> QED BY <1>3, <1>5, <2>1, <2>2
<1> QED BY <1>6, <1>7, <1>8

\* Apart from recovery no reviewer is called more often than its budget, all
\* together not beyond the reviewers of one decision, and none is held twice.
THEOREM BudgetsHoldTheorem == Spec => []BudgetsHold
<1>1. IInv => BudgetsHold
  <2> SUFFICES ASSUME IInv PROVE BudgetsHold
    OBVIOUS
  <2>1. TypeOK
    BY DEF IInv
  <2>2. ~trouble.recovery => Budgets /\ Once(HeldSeq)
    BY <2>1, HeldIs DEF IInv
  <2> QED BY <2>1, <2>2 DEF BudgetsHold, Budgets, Once
<1> QED BY <1>1, Invariant, PTL

\* Reviewers that write run alone.
THEOREM WritersRunAloneTheorem == Spec => []WritersRunAlone
<1>1. IInv => WritersRunAlone
  <2> SUFFICES ASSUME IInv, pc = "run", Len(Group(batch)) > 1
               PROVE  ToSet(Group(batch)) \subseteq ReadOnly
    BY DEF WritersRunAlone
  <2>1. batch \in Seq(Agents) /\ batch # <<>>
    BY DEF IInv, TypeOK, BatchIsRun
  <2>2. PICK g : g = GroupSize(batch)
    OBVIOUS
  <2>3. g \in 1..Len(batch) /\ \A i \in 2..g : JoinsPrevious(batch, i)
    BY <2>1, <2>2, GroupSizeIs
  <2>4. PICK a : a = SubSeq(batch, 1, g)
    OBVIOUS
  <2>5. g \in 0..Len(batch) /\ g \in Nat
    BY <2>3
  <2>6. Len(a) = g /\ DOMAIN a = 1..g /\ \A i \in 1..g : a[i] = batch[i]
    BY <2>1, <2>4, <2>5, CutIs
  <2>7. a = Group(batch)
    BY <2>2, <2>4 DEF Group
  <2>8. g > 1
    BY <2>6, <2>7
  <2>9. ASSUME NEW i \in 1..g PROVE batch[i] \in ReadOnly
    <3>1. CASE i = 1
      <4>1. 2 \in 2..g /\ 2 - 1 = 1
        BY <2>5, <2>8
      <4>2. JoinsPrevious(batch, 2)
        BY <2>3, <4>1
      <4> QED BY <3>1, <4>1, <4>2 DEF JoinsPrevious
    <3>2. CASE i # 1
      <4>1. i \in 2..g
        BY <2>5, <3>2
      <4> QED BY <2>3, <4>1 DEF JoinsPrevious
    <3> QED BY <3>1, <3>2
  <2> QED BY <2>6, <2>7, <2>9 DEF ToSet
<1> QED BY <1>1, Invariant, PTL

\* In a quiet session whatever the state file calls required is in the hands
\* of the loop, and so is what it calls queued or running if only the rules
\* call reviewers.
THEOREM NobodyIsForgottenTheorem == Spec => []NobodyIsForgotten
<1>1. IInv => NobodyIsForgotten
  <2> SUFFICES ASSUME IInv, Quiet
               PROVE  /\ state.required \subseteq Held
                      /\ trouble.recovery \/ trouble.council
                         \/ state.queued \cup state.running \subseteq Held
    BY DEF NobodyIsForgotten
  <2>1. TypeOK /\ BatchIsRun /\ QuietHeld
    BY DEF IInv
  <2>2. Held = Carried /\ state.required \subseteq Carried
    BY <2>1, HeldIs DEF QuietHeld
  <2>3. state.running \subseteq Carried
    <3>1. CASE pc = "run"
      <4>1. batch \in Seq(Agents) /\ batch # <<>>
        BY <2>1, <3>1 DEF TypeOK, BatchIsRun
      <4>2. ToSet(Group(batch)) \subseteq ToSet(batch)
        BY <4>1, GroupIs
      <4> QED BY <2>1, <3>1, <4>2 DEF QuietHeld, Carried
    <3>2. CASE pc # "run"
      BY <2>1, <3>2 DEF QuietHeld
    <3> QED BY <3>1, <3>2
  <2> QED BY <2>1, <2>2, <2>3 DEF QuietHeld
<1> QED BY <1>1, Invariant, PTL

=============================================================================
