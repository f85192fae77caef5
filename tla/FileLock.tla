------------------------------ MODULE FileLock ------------------------------
(***************************************************************************)
(* The lock of one key between processes: core/src/util/flock.ts, and      *)
(* effect-flock.ts, which has the same protocol.  A directory is the lock, *)
(* a heartbeat and a metadata file lie in it, and a second directory, the  *)
(* breaker, is taken to remove a lock whose owner died.                    *)
(*                                                                         *)
(* A step is one file system call; the stats of stale are one step, and  *)
(* so is a recursive rm.  Time is whether a directory's files              *)
(* are older than staleMs.  With Timely, they only get that old when no    *)
(* process alive looks after them: it has made them and goes on, or beats, *)
(* which renews the heartbeat at the path, whoever has made it.            *)
(* Procs are acquirers: one process that acquires a key twice is two.  The *)
(* token is the acquirer, who has one attempt at a time.  A dead process   *)
(* stays dead; its successor is another member of Procs.                   *)
(***************************************************************************)
CONSTANTS
    Procs,
    None,
    Timely    \* no process pauses for staleMs between two steps

ASSUME NoneAssumption == None \notin Procs
ASSUME TimelyAssumption == Timely \in BOOLEAN

VARIABLES
    lock,     \* the directory: [there, owner, heartbeat, meta, old]
    breaker,  \* the directory: [there, owner, old]
    pc        \* progress of each process

vars == <<lock, breaker, pc>>

LockType == [there : BOOLEAN, owner : Procs \cup {None}, heartbeat : BOOLEAN,
             meta : Procs \cup {None}, old : BOOLEAN]
BreakerType == [there : BOOLEAN, owner : Procs \cup {None}, old : BOOLEAN]

NoLock == [there |-> FALSE, owner |-> None, heartbeat |-> FALSE, meta |-> None, old |-> FALSE]
NewLock(p) == [there |-> TRUE, owner |-> p, heartbeat |-> FALSE, meta |-> None, old |-> FALSE]
NoBreaker == [there |-> FALSE, owner |-> None, old |-> FALSE]
NewBreaker(p) == [there |-> TRUE, owner |-> p, old |-> FALSE]

States == {"idle", "mkdir", "stale", "claim", "breakerStat", "breakerRm",
           "recheck", "rmStale", "remake", "dropOwning", "dropFailed",
           "heartbeat", "meta", "hold", "check", "rmOwn", "abandon", "wait", "crashed", "crashedBreaking"}

Init == lock = NoLock /\ breaker = NoBreaker /\ pc = [p \in Procs |-> "idle"]

Goto(p, l) == pc' = [pc EXCEPT ![p] = l]

----------------------------------------------------------------------------
Acquire(p) == pc[p] = "idle" /\ Goto(p, "mkdir") /\ UNCHANGED <<lock, breaker>>

\* mkdir(lockDir), or EEXIST.
Mkdir(p) ==
    /\ pc[p] = "mkdir"
    /\ IF lock.there THEN Goto(p, "stale") /\ UNCHANGED lock
                     ELSE Goto(p, "heartbeat") /\ lock' = NewLock(p)
    /\ UNCHANGED breaker

\* stale: the age of the heartbeat, or of the metadata, or of the directory.
IsStale == lock.there /\ lock.old

Stale(p) ==
    /\ pc[p] = "stale"
    /\ Goto(p, IF IsStale THEN "claim" ELSE "wait")
    /\ UNCHANGED <<lock, breaker>>

\* Mutant of Claim: a breaker that is there does not stop anybody.
ClaimAnyway(p) ==
    /\ pc[p] = "claim"
    /\ Goto(p, "recheck") /\ breaker' = NewBreaker(p)
    /\ UNCHANGED lock

\* mkdir(breakerPath), or EEXIST.
Claim(p) ==
    /\ pc[p] = "claim"
    /\ IF breaker.there THEN Goto(p, "breakerStat") /\ UNCHANGED breaker
                        ELSE Goto(p, "recheck") /\ breaker' = NewBreaker(p)
    /\ UNCHANGED lock

\* Mutant of BreakerStat: no breaker is ever too old.
BreakerKept(p) ==
    /\ pc[p] = "breakerStat"
    /\ Goto(p, "wait")
    /\ UNCHANGED <<lock, breaker>>

\* A breaker that is old itself is removed: its age is read, then rm.
BreakerStat(p) ==
    /\ pc[p] = "breakerStat"
    /\ Goto(p, IF breaker.there /\ breaker.old THEN "breakerRm" ELSE "wait")
    /\ UNCHANGED <<lock, breaker>>

BreakerRm(p) ==
    /\ pc[p] = "breakerRm"
    /\ breaker' = NoBreaker
    /\ Goto(p, "wait")
    /\ UNCHANGED lock

\* Mutant of Recheck: the lock is not looked at again under the breaker.
RecheckSkipped(p) ==
    /\ pc[p] = "recheck"
    /\ Goto(p, "rmStale")
    /\ UNCHANGED <<lock, breaker>>

\* Under the breaker: stale again, rm(lockDir), mkdir(lockDir).
Recheck(p) ==
    /\ pc[p] = "recheck"
    /\ Goto(p, IF IsStale THEN "rmStale" ELSE "dropFailed")
    /\ UNCHANGED <<lock, breaker>>

RmStale(p) ==
    /\ pc[p] = "rmStale"
    /\ lock' = NoLock
    /\ Goto(p, "remake")
    /\ UNCHANGED breaker

\* Mutant of Remake: the directory there is taken over.
RemakeAnyway(p) ==
    /\ pc[p] = "remake"
    /\ Goto(p, "dropOwning") /\ lock' = NewLock(p)
    /\ UNCHANGED breaker

Remake(p) ==
    /\ pc[p] = "remake"
    /\ IF lock.there THEN Goto(p, "dropFailed") /\ UNCHANGED lock
                     ELSE Goto(p, "dropOwning") /\ lock' = NewLock(p)
    /\ UNCHANGED breaker

\* finally: rm(breakerPath).
DropBreaker(p) ==
    /\ pc[p] \in {"dropOwning", "dropFailed"}
    /\ breaker' = NoBreaker
    /\ Goto(p, IF pc[p] = "dropOwning" THEN "heartbeat" ELSE "wait")
    /\ UNCHANGED lock

\* The two files are created exclusively; what is there already, or a
\* directory that is gone, means that the lock was compromised.
WriteHeartbeat(p) ==
    /\ pc[p] = "heartbeat"
    /\ IF lock.there /\ ~lock.heartbeat
       THEN Goto(p, "meta") /\ lock' = [lock EXCEPT !.heartbeat = TRUE, !.old = FALSE]
       ELSE Goto(p, "abandon") /\ UNCHANGED lock
    /\ UNCHANGED breaker

WriteMeta(p) ==
    /\ pc[p] = "meta"
    /\ IF lock.there /\ lock.meta = None
       THEN Goto(p, "hold") /\ lock' = [lock EXCEPT !.meta = p]
       ELSE Goto(p, "abandon") /\ UNCHANGED lock
    /\ UNCHANGED breaker

Abandon(p) ==
    /\ pc[p] = "abandon"
    /\ lock' = NoLock
    /\ Goto(p, "idle")
    /\ UNCHANGED breaker

\* The timer's utimes(heartbeat).
Beat(p) ==
    /\ pc[p] = "hold" /\ lock.heartbeat
    /\ lock' = [lock EXCEPT !.old = FALSE]
    /\ UNCHANGED <<breaker, pc>>

\* release: the metadata must hold the token; then rm(lockDir).
Release(p) == pc[p] = "hold" /\ Goto(p, "check") /\ UNCHANGED <<lock, breaker>>

Check(p) ==
    /\ pc[p] = "check"
    /\ Goto(p, IF lock.there /\ lock.meta = p THEN "rmOwn" ELSE "idle")
    /\ UNCHANGED <<lock, breaker>>

RmOwn(p) ==
    /\ pc[p] = "rmOwn"
    /\ lock' = NoLock
    /\ Goto(p, "idle")
    /\ UNCHANGED breaker

\* After a delay the next attempt; or the time is up, or the caller aborts.
Retry(p) == pc[p] = "wait" /\ Goto(p, "mkdir") /\ UNCHANGED <<lock, breaker>>
GiveUp(p) == pc[p] = "wait" /\ Goto(p, "idle") /\ UNCHANGED <<lock, breaker>>

----------------------------------------------------------------------------
\* The environment: crashes and time.
Breaking(p) == pc[p] \in {"recheck", "rmStale", "remake", "dropOwning", "dropFailed"}
Owning(p) == pc[p] \in {"heartbeat", "meta", "hold", "check", "rmOwn", "dropOwning"}

Dead(p) == pc[p] \in {"crashed", "crashedBreaking"}

\* A process that dies in the clean-up leaves the breaker.
Crash(p) ==
    /\ ~Dead(p)
    /\ Goto(p, IF Breaking(p) THEN "crashedBreaking" ELSE "crashed")
    /\ UNCHANGED <<lock, breaker>>

AgeLock ==
    /\ lock.there /\ ~lock.old
    /\ Timely => ~\E p \in Procs : Owning(p) /\ (lock.heartbeat \/ lock.owner = p)
    /\ lock' = [lock EXCEPT !.old = TRUE]
    /\ UNCHANGED <<breaker, pc>>

AgeBreaker ==
    /\ breaker.there /\ ~breaker.old
    /\ Timely => ~\E p \in Procs : Breaking(p) /\ breaker.owner = p
    /\ breaker' = [breaker EXCEPT !.old = TRUE]
    /\ UNCHANGED <<lock, pc>>

\* tryAcquireLockDir, once begun.
Attempt(p) ==
    \/ Mkdir(p) \/ Stale(p) \/ Claim(p) \/ BreakerStat(p) \/ BreakerRm(p)
    \/ Recheck(p) \/ RmStale(p) \/ Remake(p) \/ DropBreaker(p)
    \/ WriteHeartbeat(p) \/ WriteMeta(p) \/ Abandon(p)

Next == \/ AgeLock \/ AgeBreaker
        \/ \E p \in Procs : \/ Acquire(p) \/ Attempt(p) \/ Retry(p) \/ GiveUp(p)
                            \/ Beat(p) \/ Release(p) \/ Check(p) \/ RmOwn(p)
                            \/ Crash(p)

Spec == Init /\ [][Next]_vars

MustGoOn(p) ==
    /\ pc[p] \notin {"idle", "hold"} /\ ~Dead(p)
    /\ Attempt(p) \/ Retry(p) \/ Check(p) \/ RmOwn(p)

\* File system calls return, delays end, and time passes.  Nobody has to ask
\* for the lock or to give it back.
FairSpec ==
    /\ Spec
    /\ WF_lock(AgeLock) /\ WF_breaker(AgeBreaker)
    /\ \A p \in Procs : WF_pc(MustGoOn(p))
----------------------------------------------------------------------------
TypeOK ==
    /\ lock \in LockType
    /\ breaker \in BreakerType
    /\ pc \in [Procs -> States]

\* Nobody has died while it held the breaker.
Undisturbed == \A p \in Procs : pc[p] # "crashedBreaking"

\* At most one process has the lock, from the directory it made to its rm:
\* with crashes anywhere outside the clean-up, and every contender.
MutualExclusion ==
    Undisturbed => \A p, q \in Procs : Owning(p) /\ Owning(q) => p = q

\* Nobody who holds the lock finds it compromised: not when it writes its
\* files, not when it releases.
NeverCompromised ==
    Undisturbed =>
        \A p \in Procs :
            /\ pc[p] # "abandon"
            /\ pc[p] \in {"hold", "check"} => lock.there /\ lock.meta = p

\* flock.ts: "Breaker ownership ensures only one contender performs stale
\* cleanup."
OneCleaner ==
    \A p, q \in Procs :
        pc[p] \in {"rmStale", "remake"} /\ pc[q] \in {"rmStale", "remake"} => p = q

\* That much of the comment is true.
OneCleanerUndisturbed == Undisturbed => OneCleaner

\* The protocol implements a lock that only a dead owner loses to others,
\* until a process dies in the clean-up.
Promise == INSTANCE OwnedLock WITH
    owner <- IF lock.there THEN lock.owner ELSE None,
    dead <- {p \in Procs : Dead(p)},
    broken <- ~Undisturbed

ImplementsOwnedLock == Promise!Spec

\* Who asks for the lock.
Asking(p) == pc[p] \in {"mkdir", "stale", "claim", "breakerStat", "breakerRm",
                        "recheck", "rmStale", "remake", "wait", "dropFailed"}
OwnerIsDead == lock.there /\ Dead(lock.owner)

DeadLockWaitedFor == OwnerIsDead /\ \E p \in Procs : Asking(p)

\* After a death in the clean-up a process can believe to hold the lock while the
\* directory at its path is another's: its timer renews that one's heartbeat.
KeptFresh == ~Undisturbed /\ lock.heartbeat /\ \E p \in Procs : pc[p] = "hold"

\* The lock of a dead owner goes away while anybody asks for it, even if those
\* who ask give up and come back, unless a process that still takes itself for
\* the holder keeps it fresh, which takes a death in the clean-up
\* (tryAcquireLockDir and startHeartbeat).
DeadLockIsBroken == DeadLockWaitedFor ~> (~DeadLockWaitedFor \/ KeptFresh)
=============================================================================
