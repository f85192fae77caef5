--------------------------- MODULE InstanceStore ---------------------------
(***************************************************************************)
(* The instance store: which instance of a directory is current, how it is *)
(* booted, reloaded and disposed, and what happens to the state that the   *)
(* services keep for the directory.                                        *)
(*                                                                         *)
(* Source: packages/opencode/src/project/instance-store.ts,                *)
(*         packages/opencode/src/effect/instance-registry.ts and           *)
(*         packages/opencode/src/effect/instance-state.ts.                 *)
(*                                                                         *)
(* A cache entry is a number, given out in the order of creation; its      *)
(* instance context is identified with it, as each boot makes a context of *)
(* its own.  The services of a directory are represented by one: every     *)
(* service keeps its state in a cache of the same shape and one call of    *)
(* the disposers invalidates them all.                                     *)
(***************************************************************************)
EXTENDS Naturals

CONSTANTS
    Dirs,        \* directories
    Callers,     \* requests, commands and other users of the store
    MaxEntries,  \* bound: cache entries created
    None         \* no entry

ConstantAssumption ==
    /\ MaxEntries \in Nat
    /\ None \notin Nat
    /\ None \notin Callers

Entries == 1..MaxEntries
Stages == {"unused", "await", "dispose", "lookup", "init", "ready", "failed"}

VARIABLES
    cache,    \* cache[d]: the entry of directory d, or None
    dir,      \* dir[e]: the directory of entry e
    stage,    \* stage[e]: how far the fiber that completes entry e is
    prev,     \* prev[e]: the entry that the reload e waits for, or None
    taken,    \* taken[e]: the instance whose state the reload e closes, or None
    svc,      \* svc[d]: the instance in whose context the services of d live, or None
    closing,  \* instances whose service state is being finalized
    call,     \* call[c]: what caller c does
    sweep,    \* the disposeAll in progress
    retired   \* ready instances of which the disposers have run

vars == <<cache, dir, stage, prev, taken, svc, closing, call, sweep, retired>>
entryVars == <<dir, prev, taken>>

Done(e) == stage[e] \in {"ready", "failed"}
Booting(e) == stage[e] \in {"lookup", "init"}
Used == {e \in Entries : stage[e] # "unused"}

\* The entry made next: the first of those that are not used.
Fresh == CHOOSE e \in 1..MaxEntries + 1 : Used = 1..e - 1

Idle == [at |-> "idle", entry |-> None, ctx |-> None, closes |-> None]
NoSweep == [on |-> FALSE, todo |-> {}, at |-> None, closes |-> None, disposing |-> FALSE]

TypeOK ==
    /\ cache \in [Dirs -> Entries \cup {None}]
    /\ dir \in [Entries -> Dirs \cup {None}]
    /\ stage \in [Entries -> Stages]
    /\ prev \in [Entries -> Entries \cup {None}]
    /\ taken \in [Entries -> Entries \cup {None}]
    /\ svc \in [Dirs -> Entries \cup {None}]
    /\ closing \subseteq Entries
    /\ call \in [Callers -> [at : {"idle", "load", "use", "await", "dispose", "sweep"},
                             entry : Entries \cup {None}, ctx : Entries \cup {None},
                             closes : Entries \cup {None}]]
    /\ sweep \in [on : BOOLEAN, todo : SUBSET Entries, at : Entries \cup {None},
                  closes : Entries \cup {None}, disposing : BOOLEAN]
    /\ retired \subseteq Entries

Init ==
    /\ cache = [d \in Dirs |-> None]
    /\ dir = [e \in Entries |-> None]
    /\ stage = [e \in Entries |-> "unused"]
    /\ prev = [e \in Entries |-> None]
    /\ taken = [e \in Entries |-> None]
    /\ svc = [d \in Dirs |-> None]
    /\ closing = {}
    /\ call = [c \in Callers |-> Idle]
    /\ sweep = NoSweep
    /\ retired = {}

----------------------------------------------------------------------------
(* The disposers of a directory: every service drops its state at once and *)
(* its finalizers run on; state that another call has dropped already is   *)
(* not waited for.                                                         *)

RunDisposers(d) ==
    /\ svc' = [svc EXCEPT ![d] = None]
    /\ closing' = IF svc[d] = None THEN closing ELSE closing \cup {svc[d]}
    /\ retired' = retired \cup {e \in Entries : dir[e] = d /\ stage[e] = "ready"}

\* The finalizers of an instance's service state come to their end.
Finalized(e) ==
    /\ e \in closing
    /\ closing' = closing \ {e}
    /\ UNCHANGED <<cache, entryVars, stage, svc, call, sweep, retired>>

\* Whoever ran the disposers waits for the state it dropped.
Closed(e) == e \notin closing

----------------------------------------------------------------------------
(* Entries: a load or a reload forks a fiber that completes the entry.     *)

NewEntry(d, p) ==
    /\ Fresh \in Entries
    /\ cache' = [cache EXCEPT ![d] = Fresh]
    /\ dir' = [dir EXCEPT ![Fresh] = d]
    /\ prev' = [prev EXCEPT ![Fresh] = p]
    /\ stage' = [stage EXCEPT ![Fresh] = IF p = None THEN "lookup" ELSE "await"]

\* An entry leaves the cache only while it is the directory's.
RemoveEntry(d, e) == cache' = IF cache[d] = e THEN [cache EXCEPT ![d] = None] ELSE cache

\* Mutant of ReloadDisposes: the previous entry is not waited for.
ReloadDisposesAtOnce(e) ==
    /\ stage[e] = "await"
    /\ RunDisposers(dir[e])
    /\ prev' = [prev EXCEPT ![e] = None]
    /\ taken' = [taken EXCEPT ![e] = svc[dir[e]]]
    /\ stage' = [stage EXCEPT ![e] = "dispose"]
    /\ UNCHANGED <<cache, dir, call, sweep>>

\* The reload's fiber: the previous entry is complete, so its state goes.
ReloadDisposes(e) ==
    /\ stage[e] = "await"
    /\ Done(prev[e])
    /\ RunDisposers(dir[e])
    /\ prev' = [prev EXCEPT ![e] = None]
    /\ taken' = [taken EXCEPT ![e] = svc[dir[e]]]
    /\ stage' = [stage EXCEPT ![e] = "dispose"]
    /\ UNCHANGED <<cache, dir, call, sweep>>

ReloadBoots(e) ==
    /\ stage[e] = "dispose"
    /\ Closed(taken[e])
    /\ stage' = [stage EXCEPT ![e] = "lookup"]
    /\ taken' = [taken EXCEPT ![e] = None]
    /\ UNCHANGED <<cache, dir, prev, svc, closing, call, sweep, retired>>

\* The project is looked up and the bootstrap makes the services create their
\* state, unless state of the directory is there already.
BootServices(e) ==
    /\ stage[e] = "lookup"
    /\ stage' = [stage EXCEPT ![e] = "init"]
    /\ svc' = IF svc[dir[e]] = None THEN [svc EXCEPT ![dir[e]] = e] ELSE svc
    /\ UNCHANGED <<cache, entryVars, closing, call, sweep, retired>>

BootSucceeds(e) ==
    /\ stage[e] = "init"
    /\ stage' = [stage EXCEPT ![e] = "ready"]
    /\ UNCHANGED <<cache, entryVars, svc, closing, call, sweep, retired>>

BootFails(e) ==
    /\ Booting(e)
    /\ stage' = [stage EXCEPT ![e] = "failed"]
    /\ RemoveEntry(dir[e], e)
    /\ UNCHANGED <<entryVars, svc, closing, call, sweep, retired>>

----------------------------------------------------------------------------
(* Callers.                                                                *)

Load(c, d) ==
    /\ call[c].at = "idle"
    /\ \/ /\ cache[d] # None
          /\ call' = [call EXCEPT ![c].at = "load", ![c].entry = cache[d]]
          /\ UNCHANGED <<cache, entryVars, stage>>
       \/ /\ cache[d] = None
          /\ NewEntry(d, None)
          /\ call' = [call EXCEPT ![c].at = "load", ![c].entry = Fresh]
          /\ UNCHANGED taken
    /\ UNCHANGED <<svc, closing, sweep, retired>>

\* A handler asks for its own instance to be reloaded.
Reload(c) ==
    /\ call[c].at = "use"
    /\ LET d == dir[call[c].ctx] IN NewEntry(d, cache[d])
    /\ call' = [call EXCEPT ![c] = [Idle EXCEPT !.at = "load", !.entry = Fresh]]
    /\ UNCHANGED <<taken, svc, closing, sweep, retired>>

\* Mutant of Loaded: a caller goes on with an instance whose boot has failed.
LoadedAnyhow(c) ==
    /\ call[c].at = "load"
    /\ Done(call[c].entry)
    /\ call' = [call EXCEPT ![c] = [Idle EXCEPT !.at = "use", !.ctx = call[c].entry]]
    /\ UNCHANGED <<cache, entryVars, stage, svc, closing, sweep, retired>>

\* The awaited entry is complete: the caller goes on with its context or
\* fails with its failure.
Loaded(c) ==
    /\ call[c].at = "load"
    /\ Done(call[c].entry)
    /\ call' = [call EXCEPT ![c] =
                  IF stage[call[c].entry] = "ready"
                  THEN [Idle EXCEPT !.at = "use", !.ctx = call[c].entry]
                  ELSE Idle]
    /\ UNCHANGED <<cache, entryVars, stage, svc, closing, sweep, retired>>

\* A handler uses a service, whose state is made in the handler's context
\* when there is none.
Touch(c) ==
    /\ call[c].at = "use"
    /\ LET x == call[c].ctx IN
        /\ svc[dir[x]] = None
        /\ svc' = [svc EXCEPT ![dir[x]] = x]
    /\ UNCHANGED <<cache, entryVars, stage, closing, call, sweep, retired>>

Leave(c) ==
    /\ call[c].at = "use"
    /\ call' = [call EXCEPT ![c] = Idle]
    /\ UNCHANGED <<cache, entryVars, stage, svc, closing, sweep, retired>>

\* dispose(ctx): with no entry the disposers run at once, else the entry is
\* awaited first.
Dispose(c) ==
    /\ call[c].at = "use"
    /\ LET x == call[c].ctx
           d == dir[x]
       IN \/ /\ cache[d] = None
             /\ RunDisposers(d)
             /\ call' = [call EXCEPT ![c].at = "dispose", ![c].closes = svc[d]]
          \/ /\ cache[d] # None
             /\ call' = [call EXCEPT ![c].at = "await", ![c].entry = cache[d]]
             /\ UNCHANGED <<svc, closing, retired>>
    /\ UNCHANGED <<cache, entryVars, stage, sweep>>

\* Mutant of MayDispose: whatever instance the directory has now is disposed.
MayDisposeAny(c) == stage[call[c].entry] = "ready"

\* An instance is disposed only if the complete entry is its own and is still
\* the directory's; a failed entry is dropped.
MayDispose(c) ==
    LET x == call[c].ctx IN
    /\ stage[call[c].entry] = "ready"
    /\ call[c].entry = x
    /\ cache[dir[x]] = x

DisposeAwaited(c) ==
    /\ call[c].at = "await"
    /\ Done(call[c].entry)
    /\ LET d == dir[call[c].ctx] IN
        \/ /\ MayDispose(c)
           /\ RunDisposers(d)
           /\ call' = [call EXCEPT ![c].at = "dispose", ![c].closes = svc[d]]
           /\ UNCHANGED cache
        \/ /\ ~MayDispose(c)
           /\ IF stage[call[c].entry] = "failed"
              THEN RemoveEntry(d, call[c].entry)
              ELSE UNCHANGED cache
           /\ call' = [call EXCEPT ![c] = Idle]
           /\ UNCHANGED <<svc, closing, retired>>
    /\ UNCHANGED <<entryVars, stage, sweep>>

\* The entry is looked at again after the disposers.
Disposed(c) ==
    /\ call[c].at = "dispose"
    /\ Closed(call[c].closes)
    /\ IF call[c].entry = None THEN UNCHANGED cache
       ELSE RemoveEntry(dir[call[c].ctx], call[c].entry)
    /\ call' = [call EXCEPT ![c] = Idle]
    /\ UNCHANGED <<entryVars, stage, svc, closing, sweep, retired>>

----------------------------------------------------------------------------
(* disposeAll: one run over the entries of the moment, one after another;  *)
(* callers that come while it runs share it.                               *)

DisposeAll(c) ==
    /\ call[c].at = "idle"
    /\ call' = [call EXCEPT ![c].at = "sweep"]
    /\ sweep' = IF sweep.on THEN sweep
                ELSE [NoSweep EXCEPT !.on = TRUE, !.todo = {cache[d] : d \in Dirs} \ {None}]
    /\ UNCHANGED <<cache, entryVars, stage, svc, closing, retired>>

SweepNext(e) ==
    /\ sweep.on /\ sweep.at = None
    /\ e \in sweep.todo
    /\ sweep' = [sweep EXCEPT !.at = e, !.todo = @ \ {e}]
    /\ UNCHANGED <<cache, entryVars, stage, svc, closing, call, retired>>

SweepAwaited ==
    /\ sweep.at # None /\ ~sweep.disposing
    /\ Done(sweep.at)
    /\ LET e == sweep.at
           d == dir[e]
           live == stage[e] = "ready" /\ cache[d] = e
       IN \/ /\ live
             /\ RunDisposers(d)
             /\ sweep' = [sweep EXCEPT !.disposing = TRUE, !.closes = svc[d]]
             /\ UNCHANGED cache
          \/ /\ ~live
             /\ IF stage[e] = "failed" THEN RemoveEntry(d, e) ELSE UNCHANGED cache
             /\ sweep' = [sweep EXCEPT !.at = None]
             /\ UNCHANGED <<svc, closing, retired>>
    /\ UNCHANGED <<entryVars, stage, call>>

SweepDisposed ==
    /\ sweep.disposing
    /\ Closed(sweep.closes)
    /\ RemoveEntry(dir[sweep.at], sweep.at)
    /\ sweep' = [sweep EXCEPT !.at = None, !.disposing = FALSE, !.closes = None]
    /\ UNCHANGED <<entryVars, stage, svc, closing, call, retired>>

\* The run ends for everyone who shares it.
SweepEnds ==
    /\ sweep.on /\ sweep.at = None /\ sweep.todo = {}
    /\ sweep' = NoSweep
    /\ call' = [c \in Callers |-> IF call[c].at = "sweep" THEN Idle ELSE call[c]]
    /\ UNCHANGED <<cache, entryVars, stage, svc, closing, retired>>

----------------------------------------------------------------------------

\* What goes on by itself once it is begun.
EntryStep(e) == ReloadDisposes(e) \/ ReloadBoots(e) \/ BootServices(e) \/ BootSucceeds(e)
CallerStep(c) == Loaded(c) \/ DisposeAwaited(c) \/ Disposed(c)
SweepStep == (\E e \in Entries : SweepNext(e)) \/ SweepAwaited \/ SweepDisposed \/ SweepEnds

Next ==
    \/ \E e \in Entries : EntryStep(e) \/ BootFails(e) \/ Finalized(e)
    \/ \E c \in Callers, d \in Dirs : Load(c, d)
    \/ \E c \in Callers : Reload(c) \/ Touch(c) \/ Leave(c) \/ Dispose(c) \/ DisposeAll(c)
                          \/ CallerStep(c)
    \/ SweepStep

Fairness ==
    /\ \A e \in Entries : WF_vars(EntryStep(e)) /\ WF_vars(Finalized(e))
    /\ \A c \in Callers : WF_vars(CallerStep(c))
    /\ WF_vars(SweepStep)

Spec == Init /\ [][Next]_vars
FairSpec == Spec /\ Fairness

----------------------------------------------------------------------------
(* Properties.                                                             *)

\* An instance lives from the start of its boot until the disposers run.
Live(e) == Booting(e) \/ (stage[e] = "ready" /\ e \notin retired)

\* A directory has at most one live instance: an instance is booted only
\* after the one before it has failed or been disposed, whatever loads,
\* reloads and disposals overlap.
OneLiveInstance ==
    \A e, f \in Entries : Live(e) /\ Live(f) /\ dir[e] = dir[f] => e = f

\* What has become of the instance of an entry.
Fate(e) == CASE stage[e] \in {"unused", "await", "dispose"} -> "new"
             [] Booting(e) -> "booting"
             [] stage[e] = "ready" -> IF e \in retired THEN "over" ELSE "up"
             [] stage[e] = "failed" -> "failed"

Lives == INSTANCE OneInstance WITH
    Instances <- Entries,
    home <- [e \in Entries |-> IF Fate(e) = "new" THEN None ELSE dir[e]],
    fate <- [e \in Entries |-> Fate(e)],
    held <- [c \in Callers |-> IF call[c].at = "use" THEN call[c].ctx ELSE None]

\* The instances of a directory live one after another, none begins twice, and
\* whoever works with an instance was given one whose boot has succeeded.
ImplementsOneInstance == Lives!Spec

\* The state of an instance that is current and complete is torn down only on
\* behalf of someone who disposes that very instance: a dispose that was asked
\* of an older instance does not reach the one that replaced it.
OnlyItsOwnDisposal ==
    [][\A d \in Dirs :
        LET x == cache[d] IN
        (x # None /\ svc[d] # None /\ svc'[d] # svc[d] /\ stage[x] = "ready")
        => \/ sweep.at = x
           \/ \E c \in Callers : call[c].at = "await" /\ call[c].ctx = x]_vars

\* Every load, reload, dispose and disposeAll comes back to its caller.
CallWaits(c) == call[c].at \notin {"idle", "use"}

CallsReturn == \A c \in Callers : CallWaits(c) ~> ~CallWaits(c)
=============================================================================
