--------------------------- MODULE FileLockProofs ---------------------------
(***************************************************************************)
(* Proofs about FileLock for any set of processes, when no process pauses  *)
(* for staleMs, up to the first death of one that holds the breaker.  The  *)
(* run cleaner shows that it does not go further.                          *)
(***************************************************************************)
EXTENDS FileLock, TLAPS

\* Who owns the lock is who made the directory, and that one is alive and
\* behind its mkdir or dead.
OwnerCoherent ==
    /\ \A p \in Procs : Owning(p) => lock.there /\ lock.owner = p
    /\ lock.there => lock.owner \in Procs
    /\ lock.there => Owning(lock.owner) \/ pc[lock.owner] = "crashed"
    /\ lock.there /\ lock.old => pc[lock.owner] = "crashed"

\* The files in the directory follow the owner's progress.
FilesCoherent ==
    \A p \in Procs :
        /\ pc[p] \in {"dropOwning", "heartbeat"} => ~lock.heartbeat
        /\ pc[p] \in {"dropOwning", "heartbeat", "meta"} => lock.meta = None
        /\ pc[p] \in {"hold", "check", "rmOwn"} => lock.meta = p
        /\ pc[p] # "abandon"

\* The breaker is there exactly while its owner cleans up, and never old.
BreakerCoherent ==
    /\ \A p \in Procs : Breaking(p) => breaker.there /\ breaker.owner = p
    /\ breaker.there => breaker.owner \in Procs /\ Breaking(breaker.owner)
    /\ ~breaker.old
    /\ \A p \in Procs : pc[p] # "breakerRm"

\* What is about to be removed as stale is the lock of a dead owner.
CleansDead ==
    \A p \in Procs : pc[p] = "rmStale" => lock.there /\ pc[lock.owner] = "crashed"

Coherent == OwnerCoherent /\ FilesCoherent /\ BreakerCoherent /\ CleansDead

IInv == TypeOK /\ (Undisturbed => Coherent)

\* The values the directories are given.
LEMMA Values ==
  /\ NoLock \in LockType /\ NoBreaker \in BreakerType
  /\ \A p \in Procs : NewLock(p) \in LockType /\ NewBreaker(p) \in BreakerType
  /\ \A p \in Procs : NewLock(p) = [there |-> TRUE, owner |-> p, heartbeat |-> FALSE,
                                    meta |-> None, old |-> FALSE]
  BY DEF NoLock, NewLock, NoBreaker, NewBreaker, LockType, BreakerType

\* A file created or a change of age keeps the lock's type.
LEMMA Updates ==
  ASSUME NEW l \in LockType, NEW p \in Procs, NEW o \in BOOLEAN
  PROVE  /\ [l EXCEPT !.old = o] \in LockType
         /\ [l EXCEPT !.heartbeat = TRUE, !.old = o] \in LockType
         /\ [l EXCEPT !.meta = p] \in LockType
  BY DEF LockType

LEMMA InitInv == Init => IInv
<1> SUFFICES ASSUME Init PROVE IInv
  OBVIOUS
<1>1. TypeOK
  BY Values DEF Init, TypeOK, States
<1> QED
  BY <1>1 DEF Init, IInv, Coherent, OwnerCoherent, FilesCoherent, BreakerCoherent, CleansDead,
              NoLock, NoBreaker, Owning, Breaking

\* Every step keeps the types.
LEMMA TypeStep == TypeOK /\ [Next]_vars => TypeOK'
<1> SUFFICES ASSUME TypeOK, [Next]_vars PROVE TypeOK'
  OBVIOUS
<1> USE DEF TypeOK, States, Goto
<1>1. CASE UNCHANGED vars
  BY <1>1 DEF vars
<1>2. CASE AgeLock \/ AgeBreaker
  <2>1. CASE AgeLock
    <3>1. [lock EXCEPT !.old = TRUE] \in LockType
      BY DEF LockType
    <3> QED BY <2>1, <3>1 DEF AgeLock
  <2>2. CASE AgeBreaker
    <3>1. [breaker EXCEPT !.old = TRUE] \in BreakerType
      BY DEF BreakerType
    <3> QED BY <2>2, <3>1 DEF AgeBreaker
  <2> QED BY <1>2, <2>1, <2>2
<1>3. ASSUME NEW p \in Procs, Attempt(p) PROVE TypeOK'
  <2>1. CASE Mkdir(p)
    BY <2>1, Values DEF Mkdir
  <2>2. CASE Claim(p)
    BY <2>2, Values DEF Claim
  <2>3. CASE BreakerRm(p) \/ RmStale(p) \/ DropBreaker(p) \/ Abandon(p)
    BY <2>3, Values DEF BreakerRm, RmStale, DropBreaker, Abandon
  <2>4. CASE Stale(p) \/ BreakerStat(p) \/ Recheck(p)
    BY <2>4 DEF Stale, BreakerStat, Recheck
  <2>5. CASE Remake(p)
    BY <2>5, Values DEF Remake
  <2>6. CASE WriteHeartbeat(p)
    BY <2>6, Updates DEF WriteHeartbeat
  <2>7. CASE WriteMeta(p)
    BY <2>7, Updates DEF WriteMeta
  <2> QED BY <1>3, <2>1, <2>2, <2>3, <2>4, <2>5, <2>6, <2>7 DEF Attempt
<1>4. ASSUME NEW p \in Procs, Acquire(p) \/ Retry(p) \/ GiveUp(p) \/ Release(p) \/ Check(p)
                              \/ Crash(p)
      PROVE TypeOK'
  BY <1>4 DEF Acquire, Retry, GiveUp, Release, Check, Crash
<1>5. ASSUME NEW p \in Procs, Beat(p) \/ RmOwn(p) PROVE TypeOK'
  BY <1>5, Values, Updates DEF Beat, RmOwn
<1> QED BY <1>1, <1>2, <1>3, <1>4, <1>5 DEF Next

\* Who died in the clean-up stays dead.
LEMMA DisturbedForGood ==
  ASSUME TypeOK, [Next]_vars, Undisturbed'
  PROVE  Undisturbed
<1> SUFFICES ASSUME NEW q \in Procs, pc[q] = "crashedBreaking" PROVE pc'[q] = "crashedBreaking"
  BY DEF Undisturbed
<1>1. ASSUME NEW p \in Procs, p # q, NEW l, Goto(p, l) PROVE pc'[q] = pc[q]
  BY <1>1 DEF Goto, TypeOK
<1>2. CASE AgeLock \/ AgeBreaker \/ UNCHANGED vars
  BY <1>2 DEF AgeLock, AgeBreaker, vars
<1>3. ASSUME NEW p \in Procs, Attempt(p) PROVE pc'[q] = pc[q]
  BY <1>1, <1>3 DEF Attempt, Mkdir, Stale, Claim, BreakerStat, BreakerRm, Recheck, RmStale,
                    Remake, DropBreaker, WriteHeartbeat, WriteMeta, Abandon
<1>4. ASSUME NEW p \in Procs,
             Acquire(p) \/ Retry(p) \/ GiveUp(p) \/ Beat(p) \/ Release(p) \/ Check(p)
             \/ RmOwn(p) \/ Crash(p)
      PROVE  pc'[q] = pc[q]
  BY <1>1, <1>4 DEF Acquire, Retry, GiveUp, Beat, Release, Check, RmOwn, Crash, Dead
<1> QED BY <1>2, <1>3, <1>4 DEF Next

\* In a step that leaves everything undisturbed, who crashes had no breaker.
LEMMA QuietCrash ==
  ASSUME TypeOK, Undisturbed', NEW p \in Procs, Crash(p)
  PROVE  /\ pc[p] # "crashed" /\ ~Breaking(p)
         /\ Goto(p, "crashed") /\ UNCHANGED <<lock, breaker>>
  BY DEF Crash, Dead, Undisturbed, TypeOK, Goto

\* Every step keeps the invariant, as long as nothing is disturbed.
LEMMA StepCoherent ==
  ASSUME Timely, TypeOK, Coherent, [Next]_vars, Undisturbed'
  PROVE  Coherent'
<1>0. TypeOK'
  BY TypeStep
<1> USE NoneAssumption DEF Coherent, TypeOK, OwnerCoherent, FilesCoherent, BreakerCoherent,
        CleansDead, Goto, Owning, Breaking
<1>1. CASE UNCHANGED vars
  BY <1>1 DEF vars
<1>2. CASE AgeLock
  BY <1>0, <1>2 DEF AgeLock
<1>3. CASE AgeBreaker
  BY <1>0, <1>3 DEF AgeBreaker
<1>4. ASSUME NEW p \in Procs, Attempt(p) PROVE Coherent'
  <2>1. CASE Mkdir(p)
    BY <1>0, <2>1, Values DEF Mkdir
  <2>2. CASE Stale(p)
    BY <1>0, <2>2 DEF Stale
  <2>3. CASE Claim(p)
    BY <1>0, <2>3 DEF Claim, NewBreaker
  <2>4. CASE BreakerStat(p) \/ BreakerRm(p)
    BY <1>0, <2>4 DEF BreakerStat, BreakerRm
  <2>5. CASE Recheck(p)
    BY <1>0, <2>5 DEF Recheck, IsStale
  <2>6. CASE RmStale(p)
    BY <1>0, <2>6 DEF RmStale, NoLock
  <2>7. CASE Remake(p)
    BY <1>0, <2>7, Values DEF Remake
  <2>8. CASE DropBreaker(p)
    BY <1>0, <2>8 DEF DropBreaker, NoBreaker
  <2>9. CASE WriteHeartbeat(p)
    <3>1. /\ lock' = [lock EXCEPT !.heartbeat = TRUE, !.old = FALSE]
          /\ Goto(p, "meta") /\ UNCHANGED breaker
      BY <2>9 DEF WriteHeartbeat
    <3> QED BY <1>0, <2>9, <3>1 DEF WriteHeartbeat, LockType
  <2>10. CASE WriteMeta(p) \/ Abandon(p)
    <3>1. WriteMeta(p) /\ lock' = [lock EXCEPT !.meta = p] /\ Goto(p, "hold")
          /\ UNCHANGED breaker
      BY <2>10 DEF WriteMeta, Abandon
    <3> QED BY <1>0, <3>1 DEF WriteMeta, LockType
  <2> QED BY <1>4, <2>1, <2>2, <2>3, <2>4, <2>5, <2>6, <2>7, <2>8, <2>9, <2>10 DEF Attempt
<1>5. ASSUME NEW p \in Procs, Acquire(p) \/ Retry(p) \/ GiveUp(p) \/ Release(p) PROVE Coherent'
  BY <1>0, <1>5 DEF Acquire, Retry, GiveUp, Release
<1>6. ASSUME NEW p \in Procs, Beat(p) PROVE Coherent'
  BY <1>0, <1>6 DEF Beat
<1>7. ASSUME NEW p \in Procs, Check(p) \/ RmOwn(p) PROVE Coherent'
  BY <1>0, <1>7 DEF Check, RmOwn, NoLock
<1>8. ASSUME NEW p \in Procs, Crash(p) PROVE Coherent'
  BY <1>0, <1>8, QuietCrash
<1> QED BY <1>1, <1>2, <1>3, <1>4, <1>5, <1>6, <1>7, <1>8 DEF Next

LEMMA StepInv == Timely /\ IInv /\ [Next]_vars => IInv'
  BY TypeStep, StepCoherent, DisturbedForGood DEF IInv

\* The inductive invariant holds in every reachable state.
THEOREM Invariance ==
  ASSUME Timely
  PROVE  Spec => []IInv
<1>1. IInv /\ [Next]_vars => IInv'
  BY StepInv
<1> QED BY InitInv, <1>1, PTL DEF Spec

\* Every variable keeps its type, whatever crashes and however slow.
THEOREM TypeCorrect == Spec => []TypeOK
<1>1. Init => TypeOK
  BY InitInv DEF IInv
<1> QED BY <1>1, TypeStep, PTL DEF Spec

\* At most one process has the lock.
THEOREM MutualExclusionTheorem ==
  ASSUME Timely
  PROVE  Spec => []MutualExclusion
<1>1. IInv => MutualExclusion
  BY DEF IInv, Coherent, OwnerCoherent, MutualExclusion
<1> QED BY <1>1, Invariance, PTL

\* No holder finds its lock compromised.
THEOREM NeverCompromisedTheorem ==
  ASSUME Timely
  PROVE  Spec => []NeverCompromised
<1>1. IInv => NeverCompromised
  BY DEF IInv, Coherent, OwnerCoherent, FilesCoherent, NeverCompromised, Owning
<1> QED BY <1>1, Invariance, PTL

\* One contender at a time removes a stale lock.
THEOREM OneCleanerTheorem ==
  ASSUME Timely
  PROVE  Spec => []OneCleanerUndisturbed
<1>1. IInv => OneCleanerUndisturbed
  BY DEF IInv, Coherent, BreakerCoherent, OneCleanerUndisturbed, OneCleaner, Breaking
<1> QED BY <1>1, Invariance, PTL

\* Each step is a step of the lock that FileLock promises, or leaves its
\* owner and its dead alone.
Owner == IF lock.there THEN lock.owner ELSE None
Deceased  == {p \in Procs : Dead(p)}

LEMMA StepRefines ==
  ASSUME Timely, TypeOK, Undisturbed, Coherent, [Next]_vars, Undisturbed'
  PROVE  \/ Promise!Evict
         \/ \E p \in Procs : Promise!Acquire(p) \/ Promise!Release(p) \/ Promise!Die(p)
         \/ UNCHANGED <<Owner, Deceased>>
<1> USE NoneAssumption DEF Undisturbed, Coherent, TypeOK, OwnerCoherent, FilesCoherent, CleansDead, Goto,
        Owning, Owner, Deceased, Dead
<1>1. CASE UNCHANGED vars
  BY <1>1 DEF vars
<1>2. CASE AgeLock \/ AgeBreaker
  BY <1>2 DEF AgeLock, AgeBreaker, LockType
<1>3. ASSUME NEW p \in Procs, Mkdir(p) \/ Remake(p)
      PROVE  Promise!Acquire(p) \/ UNCHANGED <<Owner, Deceased>>
  BY <1>3, Values DEF Mkdir, Remake, Promise!Acquire
<1>4. ASSUME NEW p \in Procs, RmOwn(p) PROVE Promise!Release(p)
  BY <1>4 DEF RmOwn, NoLock, Promise!Release
<1>5. ASSUME NEW p \in Procs, RmStale(p) PROVE Promise!Evict
  BY <1>5 DEF RmStale, NoLock, Promise!Evict
<1>6. ASSUME NEW p \in Procs, Crash(p) PROVE Promise!Die(p)
  BY <1>6, QuietCrash DEF Promise!Die
<1>7. ASSUME NEW p \in Procs,
             Stale(p) \/ Claim(p) \/ BreakerStat(p) \/ BreakerRm(p) \/ Recheck(p)
             \/ DropBreaker(p) \/ Acquire(p) \/ Retry(p) \/ GiveUp(p) \/ Release(p)
             \/ Check(p)
      PROVE  UNCHANGED <<Owner, Deceased>>
  BY <1>7 DEF Stale, Claim, BreakerStat, BreakerRm, Recheck, DropBreaker, Acquire, Retry,
              GiveUp, Release, Check
<1>8. ASSUME NEW p \in Procs, WriteHeartbeat(p) \/ WriteMeta(p) \/ Beat(p)
      PROVE  UNCHANGED <<Owner, Deceased>>
  BY <1>8 DEF WriteHeartbeat, WriteMeta, Beat, LockType
<1>9. ASSUME NEW p \in Procs, Abandon(p) PROVE FALSE
  BY <1>9 DEF Abandon
<1> QED
  BY <1>1, <1>2, <1>3, <1>4, <1>5, <1>6, <1>7, <1>8, <1>9 DEF Next, Attempt

\* The protocol implements the lock it promises.
THEOREM Refinement ==
  ASSUME Timely
  PROVE  Spec => ImplementsOwnedLock
<1>1. Init => Promise!Init
  BY DEF Init, NoLock, Undisturbed, Dead, Promise!Init
<1>2. IInv /\ [Next]_vars => [Promise!Next]_<<Owner, Deceased, ~Undisturbed>>
  <2> SUFFICES ASSUME IInv, [Next]_vars, ~~Undisturbed'
               PROVE  [Promise!Next]_<<Owner, Deceased, ~Undisturbed>>
    BY DEF Promise!Next
  <2>1. Undisturbed /\ TypeOK /\ Coherent
    BY DisturbedForGood DEF IInv
  <2> QED BY <2>1, StepRefines DEF Promise!Next
<1> QED BY <1>1, <1>2, Invariance, PTL DEF Spec, ImplementsOwnedLock, Promise!Spec, Owner, Deceased
=============================================================================
