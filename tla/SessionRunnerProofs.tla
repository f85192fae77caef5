------------------------ MODULE SessionRunnerProofs ------------------------
(* Proofs about SessionRunner, for every set of clients and every bound. *)
EXTENDS SessionRunner, TLAPS

USE MaxCallsAssumption, PreemptiveAssumption DEF Calls, None

LEMMA InitIInv == Init => IInv
  BY DEF Init, IInv, TypeOK, FreshCalls, RunnerNamesWork, WorkCoherent,
     ClientsCoherent, LiveWorkHasKeeper, WorkStates, ClientStates, Calling,
     Cancelling

LEMMA LookupStep ==
  ASSUME IInv, NEW c \in Clients, NEW op \in {"ensureRunning", "startShell"}, Lookup(c, op)
  PROVE  IInv'
<1>0. TypeOK /\ FreshCalls /\ RunnerNamesWork /\ WorkCoherent /\ ClientsCoherent /\ LiveWorkHasKeeper
  BY DEF IInv
<1>1. /\ calls \in 0..MaxCalls /\ calls + 1 \in Calls /\ calls' = calls + 1
      /\ entry' \in Calls /\ cpc[c] = "ready"
      /\ callId' = [callId EXCEPT ![c] = calls + 1]
      /\ hold' = [hold EXCEPT ![c] = entry'] /\ cpc' = [cpc EXCEPT ![c] = op]
      /\ UNCHANGED <<status, tag, run, shell, work, kind, owner, intr, done, target, pending>>
  BY <1>0 DEF TypeOK, Lookup, Goto, runnerVars, workVars
<1>2. TypeOK'
  BY <1>0, <1>1 DEF TypeOK, ClientStates
<1>3. FreshCalls'
  BY <1>0, <1>1 DEF TypeOK, FreshCalls, Calling, Cancelling
<1>4. RunnerNamesWork'
  BY <1>0, <1>1 DEF RunnerNamesWork, Is
<1>5. WorkCoherent'
  BY <1>0, <1>1 DEF WorkCoherent, Queued
<1>6. ClientsCoherent'
  BY <1>0, <1>1 DEF TypeOK, ClientsCoherent, Queued
<1>7. LiveWorkHasKeeper'
  BY <1>0, <1>1 DEF TypeOK, LiveWorkHasKeeper, RunnerKeepsRun, RunnerKeepsShell,
     CancelKeeps, CurrentRun, CurrentShell, Stopping
<1> QED BY <1>2, <1>3, <1>4, <1>5, <1>6, <1>7 DEF IInv

LEMMA QueueRunStep ==
  ASSUME IInv, NEW c \in Clients, QueueRun(c)
  PROVE  IInv'
<1> DEFINE r == hold[c]
           k == callId[c]
<1>0. TypeOK /\ FreshCalls /\ RunnerNamesWork /\ WorkCoherent /\ ClientsCoherent /\ LiveWorkHasKeeper
  BY DEF IInv
<1>1. /\ r \in Calls /\ k \in Calls /\ k \in 1..calls /\ work[k] = "none"
      /\ cpc[c] = "ensureRunning" /\ tag[r] = "Shell"
  BY <1>0 DEF QueueRun, TypeOK, FreshCalls, Calling, Cancelling
<1>2. /\ tag' = [tag EXCEPT ![r] = "ShellThenRun"] /\ run' = [run EXCEPT ![r] = k]
      /\ work' = [work EXCEPT ![k] = "queued"] /\ kind' = [kind EXCEPT ![k] = "run"]
      /\ owner' = [owner EXCEPT ![k] = r] /\ target' = [target EXCEPT ![c] = k]
      /\ cpc' = [cpc EXCEPT ![c] = "awaitDone"]
      /\ UNCHANGED <<calls, entry, status, shell, intr, done, hold, pending, callId>>
  BY DEF QueueRun, Create, AwaitRun, Goto
<1> HIDE DEF r, k
<1>3. TypeOK'
  BY <1>0, <1>1, <1>2 DEF TypeOK, ClientStates, WorkStates
<1>4. FreshCalls'
  BY <1>0, <1>1, <1>2 DEF TypeOK, FreshCalls, Calling, Cancelling, r, k
<1>5. RunnerNamesWork'
  BY <1>0, <1>1, <1>2 DEF TypeOK, RunnerNamesWork, Is
<1>6. WorkCoherent'
  BY <1>0, <1>1, <1>2 DEF TypeOK, WorkCoherent, Queued
<1>7. ClientsCoherent'
  BY <1>0, <1>1, <1>2 DEF TypeOK, ClientsCoherent, WorkCoherent, Queued
<1>8. LiveWorkHasKeeper'
  <2> SUFFICES ASSUME NEW w \in Calls, work'[w] \in {"setup", "active", "exiting"}
               PROVE  RunnerKeepsRun(w)' \/ RunnerKeepsShell(w)' \/ CancelKeeps(w)'
    BY DEF LiveWorkHasKeeper
  <2>1. /\ w # k /\ work[w] = work'[w] /\ owner[w] \in Calls
        /\ owner'[w] = owner[w] /\ kind'[w] = kind[w]
    BY <1>0, <1>1, <1>2 DEF TypeOK, WorkCoherent
  <2>2. CASE RunnerKeepsRun(w)
    BY <1>0, <1>1, <1>2, <2>1, <2>2 DEF TypeOK, RunnerKeepsRun, CurrentRun
  <2>3. CASE RunnerKeepsShell(w)
    BY <1>0, <1>1, <1>2, <2>1, <2>3 DEF TypeOK, RunnerKeepsShell, CurrentShell
  <2>4. CASE CancelKeeps(w)
    BY <1>0, <1>1, <1>2, <2>1, <2>4 DEF TypeOK, CancelKeeps, Stopping
  <2> QED BY <1>0, <2>1, <2>2, <2>3, <2>4 DEF LiveWorkHasKeeper
<1> QED BY <1>3, <1>4, <1>5, <1>6, <1>7, <1>8 DEF IInv

LEMMA JoinRunStep ==
  ASSUME IInv, NEW c \in Clients, JoinRun(c)
  PROVE  IInv'
<1>0. TypeOK /\ FreshCalls /\ RunnerNamesWork /\ WorkCoherent /\ ClientsCoherent /\ LiveWorkHasKeeper
  BY DEF IInv
<1>1. /\ cpc[c] = "ensureRunning" /\ hold[c] \in Calls /\ run[hold[c]] \in Calls
      /\ kind[run[hold[c]]] = "run" /\ work[run[hold[c]]] # "none"
  BY <1>0 DEF JoinRun, TypeOK, FreshCalls, Calling, RunnerNamesWork, Is
<1>2. /\ cpc' = [cpc EXCEPT ![c] = "awaitDone"]
      /\ target' = [target EXCEPT ![c] = run[hold[c]]]
      /\ UNCHANGED <<calls, entry, status, tag, run, shell, work, kind, owner, intr, done, hold, pending, callId>>
  BY <1>0, <1>1 DEF JoinRun, AwaitRun, Goto, runnerVars, workVars
<1>3. TypeOK'
  BY <1>0, <1>1, <1>2 DEF TypeOK, ClientStates, WorkStates
<1>4. FreshCalls'
  BY <1>0, <1>1, <1>2 DEF TypeOK, FreshCalls, Calling, Cancelling
<1>5. RunnerNamesWork'
  BY <1>0, <1>1, <1>2 DEF TypeOK, RunnerNamesWork, Is
<1>6. WorkCoherent'
  BY <1>0, <1>1, <1>2 DEF TypeOK, WorkCoherent, Queued
<1>7. ClientsCoherent'
  BY <1>0, <1>1, <1>2 DEF TypeOK, ClientsCoherent, WorkCoherent, Queued
<1>8. LiveWorkHasKeeper'
  BY <1>0, <1>1, <1>2 DEF TypeOK, LiveWorkHasKeeper, RunnerKeepsRun, RunnerKeepsShell,
     CancelKeeps, CurrentRun, CurrentShell, Stopping, WorkCoherent
<1> QED BY <1>3, <1>4, <1>5, <1>6, <1>7, <1>8 DEF IInv

LEMMA StartRunStep ==
  ASSUME IInv, NEW c \in Clients, StartRun(c)
  PROVE  IInv'
<1> DEFINE r == hold[c]
           k == callId[c]
<1>0. TypeOK /\ FreshCalls /\ RunnerNamesWork /\ WorkCoherent /\ ClientsCoherent /\ LiveWorkHasKeeper
  BY DEF IInv
<1>1. /\ r \in Calls /\ k \in Calls /\ k \in 1..calls /\ work[k] = "none"
      /\ cpc[c] = "ensureRunning" /\ tag[r] = "Idle"
  BY <1>0 DEF StartRun, TypeOK, FreshCalls, Calling
<1>2. /\ tag' = [tag EXCEPT ![r] = "Running"] /\ run' = [run EXCEPT ![r] = k]
      /\ work' = [work EXCEPT ![k] = "active"] /\ kind' = [kind EXCEPT ![k] = "run"]
      /\ owner' = [owner EXCEPT ![k] = r] /\ target' = [target EXCEPT ![c] = k]
      /\ cpc' = [cpc EXCEPT ![c] = "awaitDone"]
      /\ UNCHANGED <<calls, entry, status, shell, intr, done, hold, pending, callId>>
  BY <1>0, <1>1 DEF StartRun, Create, AwaitRun, Goto
<1> HIDE DEF r, k
<1>3. TypeOK'
  BY <1>0, <1>1, <1>2 DEF TypeOK, ClientStates, WorkStates
<1>4. FreshCalls'
  BY <1>0, <1>1, <1>2 DEF TypeOK, FreshCalls, Calling, Cancelling, r, k
<1>5. RunnerNamesWork'
  BY <1>0, <1>1, <1>2 DEF TypeOK, RunnerNamesWork, Is
<1>6. WorkCoherent'
  BY <1>0, <1>1, <1>2 DEF TypeOK, WorkCoherent, Queued
<1>7. ClientsCoherent'
  BY <1>0, <1>1, <1>2 DEF TypeOK, ClientsCoherent, WorkCoherent, Queued
<1>8. LiveWorkHasKeeper'
  <2> SUFFICES ASSUME NEW w \in Calls, work'[w] \in {"setup", "active", "exiting"}
               PROVE  RunnerKeepsRun(w)' \/ RunnerKeepsShell(w)' \/ CancelKeeps(w)'
    BY DEF LiveWorkHasKeeper
  <2>1. /\ w # k => /\ work[w] = work'[w] /\ owner[w] \in Calls
                     /\ owner'[w] = owner[w] /\ kind'[w] = kind[w]
        /\ w = k => RunnerKeepsRun(w)'
    BY <1>0, <1>1, <1>2 DEF TypeOK, WorkCoherent, RunnerKeepsRun, CurrentRun
  <2>2. CASE w # k /\ RunnerKeepsRun(w)
    BY <1>0, <1>1, <1>2, <2>1, <2>2 DEF TypeOK, RunnerKeepsRun, CurrentRun
  <2>3. CASE w # k /\ RunnerKeepsShell(w)
    BY <1>0, <1>1, <1>2, <2>1, <2>3 DEF TypeOK, RunnerKeepsShell, CurrentShell
  <2>4. CASE w # k /\ CancelKeeps(w)
    BY <1>0, <1>1, <1>2, <2>1, <2>4 DEF TypeOK, CancelKeeps, Stopping
  <2> QED BY <1>0, <2>1, <2>2, <2>3, <2>4 DEF LiveWorkHasKeeper
<1> QED BY <1>3, <1>4, <1>5, <1>6, <1>7, <1>8 DEF IInv

LEMMA StartShellStep ==
  ASSUME IInv, NEW c \in Clients, StartShell(c)
  PROVE  IInv'
<1> DEFINE r == hold[c]
           k == callId[c]
<1>0. TypeOK /\ FreshCalls /\ RunnerNamesWork /\ WorkCoherent /\ ClientsCoherent /\ LiveWorkHasKeeper
  BY DEF IInv
<1>1. /\ r \in Calls /\ k \in Calls /\ k \in 1..calls /\ work[k] = "none"
      /\ cpc[c] = "startShell" /\ tag[r] = "Idle"
  BY <1>0 DEF StartShell, TypeOK, FreshCalls, Calling
<1>2. /\ tag' = [tag EXCEPT ![r] = "Shell"] /\ shell' = [shell EXCEPT ![r] = k]
      /\ work' = [work EXCEPT ![k] = "setup"] /\ kind' = [kind EXCEPT ![k] = "shell"]
      /\ owner' = [owner EXCEPT ![k] = r] /\ target' = [target EXCEPT ![c] = k]
      /\ cpc' = [cpc EXCEPT ![c] = "awaitShell"] /\ status' = "busy"
      /\ UNCHANGED <<calls, entry, run, intr, done, hold, pending, callId>>
  BY <1>0, <1>1 DEF StartShell, Create, Goto
<1> HIDE DEF r, k
<1>3. TypeOK'
  BY <1>0, <1>1, <1>2 DEF TypeOK, ClientStates, WorkStates
<1>4. FreshCalls'
  BY <1>0, <1>1, <1>2 DEF TypeOK, FreshCalls, Calling, Cancelling, r, k
<1>5. RunnerNamesWork'
  BY <1>0, <1>1, <1>2 DEF TypeOK, RunnerNamesWork, Is
<1>6. WorkCoherent'
  BY <1>0, <1>1, <1>2 DEF TypeOK, WorkCoherent, Queued
<1>7. ClientsCoherent'
  BY <1>0, <1>1, <1>2 DEF TypeOK, ClientsCoherent, WorkCoherent, Queued
<1>8. LiveWorkHasKeeper'
  <2> SUFFICES ASSUME NEW w \in Calls, work'[w] \in {"setup", "active", "exiting"}
               PROVE  RunnerKeepsRun(w)' \/ RunnerKeepsShell(w)' \/ CancelKeeps(w)'
    BY DEF LiveWorkHasKeeper
  <2>1. /\ w # k => /\ work[w] = work'[w] /\ owner[w] \in Calls
                     /\ owner'[w] = owner[w] /\ kind'[w] = kind[w]
        /\ w = k => RunnerKeepsShell(w)'
    BY <1>0, <1>1, <1>2 DEF TypeOK, WorkCoherent, RunnerKeepsShell, CurrentShell
  <2>2. CASE w # k /\ RunnerKeepsRun(w)
    BY <1>0, <1>1, <1>2, <2>1, <2>2 DEF TypeOK, RunnerKeepsRun, CurrentRun
  <2>3. CASE w # k /\ RunnerKeepsShell(w)
    BY <1>0, <1>1, <1>2, <2>1, <2>3 DEF TypeOK, RunnerKeepsShell, CurrentShell
  <2>4. CASE w # k /\ CancelKeeps(w)
    BY <1>0, <1>1, <1>2, <2>1, <2>4 DEF TypeOK, CancelKeeps, Stopping
  <2> QED BY <1>0, <2>1, <2>2, <2>3, <2>4 DEF LiveWorkHasKeeper
<1> QED BY <1>3, <1>4, <1>5, <1>6, <1>7, <1>8 DEF IInv

LEMMA CancelRunStep ==
  ASSUME IInv, NEW c \in Clients, CancelRun(c)
  PROVE  IInv'
<1> DEFINE r == hold[c]
<1>0. TypeOK /\ FreshCalls /\ RunnerNamesWork /\ WorkCoherent /\ ClientsCoherent /\ LiveWorkHasKeeper
  BY DEF IInv
<1>1. /\ r \in Calls /\ cpc[c] = "cancel" /\ tag[r] = "Running" /\ run[r] \in Calls
      /\ pending[c] = None
  BY <1>0 DEF CancelRun, TypeOK, FreshCalls, Calling, Cancelling, RunnerNamesWork, Is, ClientsCoherent
<1>2. /\ tag' = [tag EXCEPT ![r] = "Idle"] /\ target' = [target EXCEPT ![c] = run[r]]
      /\ pending' = [pending EXCEPT ![c] = None] /\ cpc' = [cpc EXCEPT ![c] = "interrupt"]
      /\ UNCHANGED <<calls, entry, status, run, shell, work, kind, owner, intr, done, hold, callId>>
  BY <1>0, <1>1 DEF CancelRun, TakeFrom, Goto, workVars
<1> HIDE DEF r
<1>3. TypeOK'
  BY <1>0, <1>1, <1>2 DEF TypeOK, ClientStates, WorkStates
<1>4. FreshCalls'
  BY <1>0, <1>1, <1>2 DEF TypeOK, FreshCalls, Calling, Cancelling, r
<1>5. RunnerNamesWork'
  BY <1>0, <1>1, <1>2 DEF TypeOK, RunnerNamesWork, Is
<1>6. WorkCoherent'
  BY <1>0, <1>1, <1>2 DEF TypeOK, WorkCoherent, Queued
<1>7. ClientsCoherent'
  BY <1>0, <1>1, <1>2 DEF TypeOK, ClientsCoherent, WorkCoherent, Queued
<1>8. LiveWorkHasKeeper'
  <2> SUFFICES ASSUME NEW w \in Calls, work'[w] \in {"setup", "active", "exiting"}
               PROVE  RunnerKeepsRun(w)' \/ RunnerKeepsShell(w)' \/ CancelKeeps(w)'
    BY DEF LiveWorkHasKeeper
  <2>1. work[w] = work'[w] /\ owner[w] \in Calls /\ owner'[w] = owner[w] /\ kind'[w] = kind[w]
    BY <1>0, <1>1, <1>2 DEF TypeOK, WorkCoherent
  <2>2. CASE RunnerKeepsRun(w)
    BY <1>0, <1>1, <1>2, <2>1, <2>2 DEF TypeOK, RunnerKeepsRun, CurrentRun, CancelKeeps, Stopping
  <2>3. CASE RunnerKeepsShell(w)
    BY <1>0, <1>1, <1>2, <2>1, <2>3 DEF TypeOK, RunnerKeepsShell, CurrentShell, CancelKeeps, Stopping
  <2>4. CASE CancelKeeps(w)
    BY <1>0, <1>1, <1>2, <2>1, <2>4 DEF TypeOK, CancelKeeps, Stopping
  <2> QED BY <1>0, <2>1, <2>2, <2>3, <2>4 DEF LiveWorkHasKeeper
<1> QED BY <1>3, <1>4, <1>5, <1>6, <1>7, <1>8 DEF IInv

LEMMA CancelShellStep ==
  ASSUME IInv, NEW c \in Clients, CancelShell(c)
  PROVE  IInv'
<1> DEFINE r == hold[c]
<1>0. TypeOK /\ FreshCalls /\ RunnerNamesWork /\ WorkCoherent /\ ClientsCoherent /\ LiveWorkHasKeeper
  BY DEF IInv
<1>1. /\ r \in Calls /\ cpc[c] = "cancel" /\ tag[r] = "Shell" /\ shell[r] \in Calls
      /\ pending[c] = None
  BY <1>0 DEF CancelShell, TypeOK, FreshCalls, Calling, Cancelling, RunnerNamesWork, Is, ClientsCoherent
<1>2. /\ tag' = [tag EXCEPT ![r] = "Idle"] /\ target' = [target EXCEPT ![c] = shell[r]]
      /\ pending' = [pending EXCEPT ![c] = None] /\ cpc' = [cpc EXCEPT ![c] = "stopReady"]
      /\ UNCHANGED <<calls, entry, status, run, shell, work, kind, owner, intr, done, hold, callId>>
  BY <1>0, <1>1 DEF CancelShell, TakeFrom, Goto, workVars
<1> HIDE DEF r
<1>3. TypeOK'
  BY <1>0, <1>1, <1>2 DEF TypeOK, ClientStates, WorkStates
<1>4. FreshCalls'
  BY <1>0, <1>1, <1>2 DEF TypeOK, FreshCalls, Calling, Cancelling, r
<1>5. RunnerNamesWork'
  BY <1>0, <1>1, <1>2 DEF TypeOK, RunnerNamesWork, Is
<1>6. WorkCoherent'
  BY <1>0, <1>1, <1>2 DEF TypeOK, WorkCoherent, Queued
<1>7. ClientsCoherent'
  BY <1>0, <1>1, <1>2 DEF TypeOK, ClientsCoherent, WorkCoherent, Queued
<1>8. LiveWorkHasKeeper'
  <2> SUFFICES ASSUME NEW w \in Calls, work'[w] \in {"setup", "active", "exiting"}
               PROVE  RunnerKeepsRun(w)' \/ RunnerKeepsShell(w)' \/ CancelKeeps(w)'
    BY DEF LiveWorkHasKeeper
  <2>1. work[w] = work'[w] /\ owner[w] \in Calls /\ owner'[w] = owner[w] /\ kind'[w] = kind[w]
    BY <1>0, <1>1, <1>2 DEF TypeOK, WorkCoherent
  <2>2. CASE RunnerKeepsRun(w)
    BY <1>0, <1>1, <1>2, <2>1, <2>2 DEF TypeOK, RunnerKeepsRun, CurrentRun, CancelKeeps, Stopping
  <2>3. CASE RunnerKeepsShell(w)
    BY <1>0, <1>1, <1>2, <2>1, <2>3 DEF TypeOK, RunnerKeepsShell, CurrentShell, CancelKeeps, Stopping
  <2>4. CASE CancelKeeps(w)
    BY <1>0, <1>1, <1>2, <2>1, <2>4 DEF TypeOK, CancelKeeps, Stopping
  <2> QED BY <1>0, <2>1, <2>2, <2>3, <2>4 DEF LiveWorkHasKeeper
<1> QED BY <1>3, <1>4, <1>5, <1>6, <1>7, <1>8 DEF IInv

LEMMA CancelShellThenRunStep ==
  ASSUME IInv, NEW c \in Clients, CancelShellThenRun(c)
  PROVE  IInv'
<1> DEFINE r == hold[c]
<1>0. TypeOK /\ FreshCalls /\ RunnerNamesWork /\ WorkCoherent /\ ClientsCoherent /\ LiveWorkHasKeeper
  BY DEF IInv
<1>1. /\ r \in Calls /\ cpc[c] = "cancel" /\ tag[r] = "ShellThenRun" /\ shell[r] \in Calls
      /\ pending[c] = None
      /\ run[r] \in Calls /\ owner[run[r]] = r /\ work[run[r]] = "queued"
  BY <1>0 DEF CancelShellThenRun, TypeOK, FreshCalls, Calling, Cancelling, RunnerNamesWork, Is, ClientsCoherent
<1>2. /\ tag' = [tag EXCEPT ![r] = "Idle"] /\ target' = [target EXCEPT ![c] = shell[r]]
      /\ pending' = [pending EXCEPT ![c] = run[r]] /\ cpc' = [cpc EXCEPT ![c] = "stopReady"]
      /\ UNCHANGED <<calls, entry, status, run, shell, work, kind, owner, intr, done, hold, callId>>
  BY <1>0, <1>1 DEF CancelShellThenRun, TakeFrom, Goto, workVars
<1> HIDE DEF r
<1>3. TypeOK'
  BY <1>0, <1>1, <1>2 DEF TypeOK, ClientStates, WorkStates
<1>4. FreshCalls'
  BY <1>0, <1>1, <1>2 DEF TypeOK, FreshCalls, Calling, Cancelling, r
<1>5. RunnerNamesWork'
  BY <1>0, <1>1, <1>2 DEF TypeOK, RunnerNamesWork, Is
<1>6. WorkCoherent'
  BY <1>0, <1>1, <1>2 DEF TypeOK, WorkCoherent, Queued
<1>7. ClientsCoherent'
  BY <1>0, <1>1, <1>2 DEF TypeOK, ClientsCoherent, WorkCoherent, Queued
<1>8. LiveWorkHasKeeper'
  <2> SUFFICES ASSUME NEW w \in Calls, work'[w] \in {"setup", "active", "exiting"}
               PROVE  RunnerKeepsRun(w)' \/ RunnerKeepsShell(w)' \/ CancelKeeps(w)'
    BY DEF LiveWorkHasKeeper
  <2>1. work[w] = work'[w] /\ owner[w] \in Calls /\ owner'[w] = owner[w] /\ kind'[w] = kind[w]
    BY <1>0, <1>1, <1>2 DEF TypeOK, WorkCoherent
  <2>2. CASE RunnerKeepsRun(w)
    BY <1>0, <1>1, <1>2, <2>1, <2>2 DEF TypeOK, RunnerKeepsRun, CurrentRun, CancelKeeps, Stopping
  <2>3. CASE RunnerKeepsShell(w)
    BY <1>0, <1>1, <1>2, <2>1, <2>3 DEF TypeOK, RunnerKeepsShell, CurrentShell, CancelKeeps, Stopping
  <2>4. CASE CancelKeeps(w)
    BY <1>0, <1>1, <1>2, <2>1, <2>4 DEF TypeOK, CancelKeeps, Stopping
  <2> QED BY <1>0, <2>1, <2>2, <2>3, <2>4 DEF LiveWorkHasKeeper
<1> QED BY <1>3, <1>4, <1>5, <1>6, <1>7, <1>8 DEF IInv

\* Steps of a client that change nothing but its own progress and, some of
\* them, the Runner it holds, the entry or the status.
LEMMA ClientMoveStep ==
  ASSUME IInv, NEW c \in Clients,
         \/ AwaitDone(c) \/ ShellBusy(c) \/ AwaitShell(c) \/ CancelNothing(c)
         \/ CancelBusy(c) \/ CancelIdle(c) \/ IdleIfCurrent(c)
         \/ ClientIdleDelete(c) \/ ClientIdleStatus(c)
  PROVE  IInv'
<1>0. TypeOK /\ FreshCalls /\ RunnerNamesWork /\ WorkCoherent /\ ClientsCoherent /\ LiveWorkHasKeeper
  BY DEF IInv
<1>1. /\ pending[c] = None
      /\ \A w \in Calls : ~Stopping(c, w)
  BY <1>0 DEF ClientsCoherent, Stopping, AwaitDone, ShellBusy, AwaitShell, CancelNothing,
     CancelBusy, CancelIdle, IdleIfCurrent, ClientIdleDelete, ClientIdleStatus
<1>2. PICK l \in {"ready", "idleStatus", "cancel", "idleDelete"} :
      /\ cpc' = [cpc EXCEPT ![c] = l]
      /\ \/ UNCHANGED hold /\ l # "cancel"
         \/ l = "cancel" /\ entry \in Calls /\ hold' = [hold EXCEPT ![c] = entry]
      /\ entry' \in Calls \cup {None} /\ status' \in {"idle", "busy"}
      /\ UNCHANGED target \/ target' = [target EXCEPT ![c] = None]
      /\ UNCHANGED <<calls, tag, run, shell, work, kind, owner, intr, done, pending, callId>>
  BY <1>0 DEF TypeOK, AwaitDone, ShellBusy, AwaitShell, CancelNothing, CancelBusy, Busy,
     CancelIdle, IdleIfCurrent, ClientIdleDelete, ClientIdleStatus, Goto, runnerVars, workVars
<1>3. TypeOK'
  BY <1>0, <1>2 DEF TypeOK, ClientStates
<1>4. FreshCalls'
  BY <1>0, <1>2 DEF TypeOK, FreshCalls, Calling, Cancelling
<1>5. RunnerNamesWork'
  BY <1>0, <1>2 DEF RunnerNamesWork, Is
<1>6. WorkCoherent'
  BY <1>0, <1>2 DEF WorkCoherent, Queued
<1>7. ClientsCoherent'
  BY <1>0, <1>1, <1>2 DEF TypeOK, ClientsCoherent, Queued
<1>8. LiveWorkHasKeeper'
  BY <1>0, <1>1, <1>2 DEF TypeOK, LiveWorkHasKeeper, RunnerKeepsRun, RunnerKeepsShell,
     CancelKeeps, CurrentRun, CurrentShell, Stopping
<1> QED BY <1>3, <1>4, <1>5, <1>6, <1>7, <1>8 DEF IInv

LEMMA StopReadyStep ==
  ASSUME IInv, NEW c \in Clients, StopReady(c)
  PROVE  IInv'
<1>0. TypeOK /\ FreshCalls /\ RunnerNamesWork /\ WorkCoherent /\ ClientsCoherent /\ LiveWorkHasKeeper
  BY DEF IInv
<1>1. cpc[c] = "stopReady"
  BY <1>0 DEF StopReady
<1>2. /\ cpc' = [cpc EXCEPT ![c] = "interrupt"]
      /\ UNCHANGED <<calls, entry, status, tag, run, shell, work, kind, owner, intr, done, hold, target, pending, callId>>
  BY <1>0, <1>1 DEF StopReady, Goto, runnerVars, workVars
<1>3. TypeOK'
  BY <1>0, <1>1, <1>2 DEF TypeOK, ClientStates, WorkStates
<1>4. FreshCalls'
  BY <1>0, <1>1, <1>2 DEF TypeOK, FreshCalls, Calling, Cancelling
<1>5. RunnerNamesWork'
  BY <1>0, <1>1, <1>2 DEF TypeOK, RunnerNamesWork, Is
<1>6. WorkCoherent'
  BY <1>0, <1>1, <1>2 DEF TypeOK, WorkCoherent, Queued
<1>7. ClientsCoherent'
  BY <1>0, <1>1, <1>2 DEF TypeOK, ClientsCoherent, WorkCoherent, Queued
<1>8. LiveWorkHasKeeper'
  BY <1>0, <1>1, <1>2 DEF TypeOK, LiveWorkHasKeeper, RunnerKeepsRun, RunnerKeepsShell,
     CancelKeeps, CurrentRun, CurrentShell, Stopping, WorkCoherent
<1> QED BY <1>3, <1>4, <1>5, <1>6, <1>7, <1>8 DEF IInv

LEMMA InterruptStep ==
  ASSUME IInv, NEW c \in Clients, Interrupt(c)
  PROVE  IInv'
<1>0. TypeOK /\ FreshCalls /\ RunnerNamesWork /\ WorkCoherent /\ ClientsCoherent /\ LiveWorkHasKeeper
  BY DEF IInv
<1>1. cpc[c] = "interrupt" /\ target[c] \in Calls
  BY <1>0 DEF Interrupt, ClientsCoherent
<1>2. /\ cpc' = [cpc EXCEPT ![c] = "awaitFiber"] /\ intr' = [intr EXCEPT ![target[c]] = TRUE]
      /\ UNCHANGED <<calls, entry, status, tag, run, shell, work, kind, owner, done, hold, target, pending, callId>>
  BY <1>0, <1>1 DEF Interrupt, Goto, runnerVars
<1>3. TypeOK'
  BY <1>0, <1>1, <1>2 DEF TypeOK, ClientStates, WorkStates
<1>4. FreshCalls'
  BY <1>0, <1>1, <1>2 DEF TypeOK, FreshCalls, Calling, Cancelling
<1>5. RunnerNamesWork'
  BY <1>0, <1>1, <1>2 DEF TypeOK, RunnerNamesWork, Is
<1>6. WorkCoherent'
  BY <1>0, <1>1, <1>2 DEF TypeOK, WorkCoherent, Queued
<1>7. ClientsCoherent'
  BY <1>0, <1>1, <1>2 DEF TypeOK, ClientsCoherent, WorkCoherent, Queued
<1>8. LiveWorkHasKeeper'
  BY <1>0, <1>1, <1>2 DEF TypeOK, LiveWorkHasKeeper, RunnerKeepsRun, RunnerKeepsShell,
     CancelKeeps, CurrentRun, CurrentShell, Stopping, WorkCoherent
<1> QED BY <1>3, <1>4, <1>5, <1>6, <1>7, <1>8 DEF IInv

LEMMA AwaitFiberStep ==
  ASSUME IInv, NEW c \in Clients, AwaitFiber(c)
  PROVE  IInv'
<1>0. TypeOK /\ FreshCalls /\ RunnerNamesWork /\ WorkCoherent /\ ClientsCoherent /\ LiveWorkHasKeeper
  BY DEF IInv
<1>1. cpc[c] = "awaitFiber" /\ target[c] \in Calls /\ work[target[c]] = "ended"
  BY <1>0 DEF AwaitFiber, ClientsCoherent
<1>2. /\ target' = [target EXCEPT ![c] = None]
      /\ cpc' = [cpc EXCEPT ![c] = IF pending[c] = None THEN "idleIfCurrent" ELSE "failPending"]
      /\ UNCHANGED <<calls, entry, status, tag, run, shell, work, kind, owner, intr, done, hold, pending, callId>>
  BY <1>0, <1>1 DEF AwaitFiber, Goto, runnerVars, workVars
<1>3. TypeOK'
  BY <1>0, <1>1, <1>2 DEF TypeOK, ClientStates, WorkStates
<1>4. FreshCalls'
  BY <1>0, <1>1, <1>2 DEF TypeOK, FreshCalls, Calling, Cancelling
<1>5. RunnerNamesWork'
  BY <1>0, <1>1, <1>2 DEF TypeOK, RunnerNamesWork, Is
<1>6. WorkCoherent'
  BY <1>0, <1>1, <1>2 DEF TypeOK, WorkCoherent, Queued
<1>7. ClientsCoherent'
  BY <1>0, <1>1, <1>2 DEF TypeOK, ClientsCoherent, WorkCoherent, Queued
<1>8. LiveWorkHasKeeper'
  BY <1>0, <1>1, <1>2 DEF TypeOK, LiveWorkHasKeeper, RunnerKeepsRun, RunnerKeepsShell,
     CancelKeeps, CurrentRun, CurrentShell, Stopping, WorkCoherent
<1> QED BY <1>3, <1>4, <1>5, <1>6, <1>7, <1>8 DEF IInv

LEMMA FailPendingStep ==
  ASSUME IInv, NEW c \in Clients, FailPending(c)
  PROVE  IInv'
<1> DEFINE p == pending[c]
<1>0. TypeOK /\ FreshCalls /\ RunnerNamesWork /\ WorkCoherent /\ ClientsCoherent /\ LiveWorkHasKeeper
  BY DEF IInv
<1>1. /\ cpc[c] = "failPending" /\ p \in Calls /\ work[p] = "queued" /\ ~Queued(p)
      /\ pending[c] = p /\ owner[p] \in Calls
  BY <1>0 DEF FailPending, ClientsCoherent, WorkCoherent, TypeOK
<1>2. /\ done' = [done EXCEPT ![p] = TRUE] /\ work' = [work EXCEPT ![p] = "ended"]
      /\ pending' = [pending EXCEPT ![c] = None] /\ cpc' = [cpc EXCEPT ![c] = "idleIfCurrent"]
      /\ UNCHANGED <<calls, entry, status, tag, run, shell, kind, owner, intr, hold, target, callId>>
  BY <1>0, <1>1 DEF FailPending, Goto, runnerVars
<1> HIDE DEF p
<1>3. TypeOK'
  BY <1>0, <1>1, <1>2 DEF TypeOK, ClientStates, WorkStates
<1>4. FreshCalls'
  BY <1>0, <1>1, <1>2 DEF TypeOK, FreshCalls, Calling, Cancelling
<1>5. RunnerNamesWork'
  BY <1>0, <1>1, <1>2 DEF TypeOK, RunnerNamesWork, Is, Queued
<1>6. WorkCoherent'
  BY <1>0, <1>1, <1>2 DEF TypeOK, WorkCoherent, Queued
<1>7. ClientsCoherent'
  BY <1>0, <1>1, <1>2 DEF TypeOK, ClientsCoherent, WorkCoherent, Queued
<1>8. LiveWorkHasKeeper'
  <2> SUFFICES ASSUME NEW w \in Calls, work'[w] \in {"setup", "active", "exiting"}
               PROVE  RunnerKeepsRun(w)' \/ RunnerKeepsShell(w)' \/ CancelKeeps(w)'
    BY DEF LiveWorkHasKeeper
  <2>1. w # p /\ work[w] = work'[w] /\ owner'[w] = owner[w] /\ kind'[w] = kind[w]
    BY <1>0, <1>1, <1>2 DEF TypeOK
  <2>2. CASE RunnerKeepsRun(w)
    BY <1>2, <2>1, <2>2 DEF RunnerKeepsRun, CurrentRun
  <2>3. CASE RunnerKeepsShell(w)
    BY <1>2, <2>1, <2>3 DEF RunnerKeepsShell, CurrentShell
  <2>4. CASE CancelKeeps(w)
    BY <1>0, <1>1, <1>2, <2>1, <2>4 DEF TypeOK, CancelKeeps, Stopping
  <2> QED BY <1>0, <2>1, <2>2, <2>3, <2>4 DEF LiveWorkHasKeeper
<1> QED BY <1>3, <1>4, <1>5, <1>6, <1>7, <1>8 DEF IInv

\* Steps of a fiber that only publish the status.
LEMMA RunBusyStep ==
  ASSUME IInv, NEW v \in Calls, RunBusy(v)
  PROVE  IInv'
<1>1. status' = "busy" /\ UNCHANGED <<calls, entry, runnerVars, workVars, clientVars>>
  BY DEF RunBusy
<1> QED
  BY <1>1 DEF IInv, TypeOK, FreshCalls, RunnerNamesWork, WorkCoherent, ClientsCoherent,
     LiveWorkHasKeeper, Calling, Cancelling, Is, Queued, RunnerKeepsRun, RunnerKeepsShell,
     CancelKeeps, CurrentRun, CurrentShell, Stopping, runnerVars, workVars, clientVars

LEMMA ShellReadyStep ==
  ASSUME IInv, NEW v \in Calls, ShellReady(v)
  PROVE  IInv'
<1>0. TypeOK /\ FreshCalls /\ RunnerNamesWork /\ WorkCoherent /\ ClientsCoherent /\ LiveWorkHasKeeper
  BY DEF IInv
<1>1. work[v] = "setup" /\ kind[v] = "shell"
  BY <1>0 DEF ShellReady, WorkCoherent, TypeOK
<1>2. /\ work' = [work EXCEPT ![v] = "active"]
      /\ UNCHANGED <<calls, entry, status, tag, run, shell, kind, owner, intr, done, hold, target, pending, callId, cpc>>
  BY <1>0, <1>1 DEF ShellReady, runnerVars, clientVars
<1>3. TypeOK'
  BY <1>0, <1>1, <1>2 DEF TypeOK, ClientStates, WorkStates
<1>4. FreshCalls'
  BY <1>0, <1>1, <1>2 DEF TypeOK, FreshCalls, Calling, Cancelling
<1>5. RunnerNamesWork'
  BY <1>0, <1>1, <1>2 DEF TypeOK, RunnerNamesWork, Is
<1>6. WorkCoherent'
  BY <1>0, <1>1, <1>2 DEF TypeOK, WorkCoherent, Queued
<1>7. ClientsCoherent'
  BY <1>0, <1>1, <1>2 DEF TypeOK, ClientsCoherent, WorkCoherent, Queued
<1>8. LiveWorkHasKeeper'
  BY <1>0, <1>1, <1>2 DEF TypeOK, LiveWorkHasKeeper, RunnerKeepsRun, RunnerKeepsShell,
     CancelKeeps, CurrentRun, CurrentShell, Stopping, WorkCoherent
<1> QED BY <1>3, <1>4, <1>5, <1>6, <1>7, <1>8 DEF IInv

LEMMA ExitStep ==
  ASSUME IInv, NEW v \in Calls, Exit(v)
  PROVE  IInv'
<1>0. TypeOK /\ FreshCalls /\ RunnerNamesWork /\ WorkCoherent /\ ClientsCoherent /\ LiveWorkHasKeeper
  BY DEF IInv
<1>1. work[v] \in {"active", "setup"}
  BY <1>0 DEF Exit, WorkCoherent, TypeOK
<1>2. /\ work' = [work EXCEPT ![v] = "exiting"]
      /\ UNCHANGED <<calls, entry, status, tag, run, shell, kind, owner, intr, done, hold, target, pending, callId, cpc>>
  BY <1>0, <1>1 DEF Exit, runnerVars, clientVars
<1>3. TypeOK'
  BY <1>0, <1>1, <1>2 DEF TypeOK, ClientStates, WorkStates
<1>4. FreshCalls'
  BY <1>0, <1>1, <1>2 DEF TypeOK, FreshCalls, Calling, Cancelling
<1>5. RunnerNamesWork'
  BY <1>0, <1>1, <1>2 DEF TypeOK, RunnerNamesWork, Is
<1>6. WorkCoherent'
  BY <1>0, <1>1, <1>2 DEF TypeOK, WorkCoherent, Queued
<1>7. ClientsCoherent'
  BY <1>0, <1>1, <1>2 DEF TypeOK, ClientsCoherent, WorkCoherent, Queued
<1>8. LiveWorkHasKeeper'
  BY <1>0, <1>1, <1>2 DEF TypeOK, LiveWorkHasKeeper, RunnerKeepsRun, RunnerKeepsShell,
     CancelKeeps, CurrentRun, CurrentShell, Stopping, WorkCoherent
<1> QED BY <1>3, <1>4, <1>5, <1>6, <1>7, <1>8 DEF IInv

LEMMA FinishOldRunStep ==
  ASSUME IInv, NEW v \in Calls, FinishOldRun(v)
  PROVE  IInv'
<1>0. TypeOK /\ FreshCalls /\ RunnerNamesWork /\ WorkCoherent /\ ClientsCoherent /\ LiveWorkHasKeeper
  BY DEF IInv
<1>1. work[v] = "exiting" /\ kind[v] = "run" /\ ~CurrentRun(v)
  BY <1>0 DEF FinishOldRun, WorkCoherent, TypeOK
<1>2. /\ work' = [work EXCEPT ![v] = "complete"]
      /\ UNCHANGED <<calls, entry, status, tag, run, shell, kind, owner, intr, done, hold, target, pending, callId, cpc>>
  BY <1>0, <1>1 DEF FinishOldRun, runnerVars, clientVars
<1>3. TypeOK'
  BY <1>0, <1>1, <1>2 DEF TypeOK, ClientStates, WorkStates
<1>4. FreshCalls'
  BY <1>0, <1>1, <1>2 DEF TypeOK, FreshCalls, Calling, Cancelling
<1>5. RunnerNamesWork'
  BY <1>0, <1>1, <1>2 DEF TypeOK, RunnerNamesWork, Is, CurrentRun
<1>6. WorkCoherent'
  BY <1>0, <1>1, <1>2 DEF TypeOK, WorkCoherent, Queued
<1>7. ClientsCoherent'
  BY <1>0, <1>1, <1>2 DEF TypeOK, ClientsCoherent, WorkCoherent, Queued
<1>8. LiveWorkHasKeeper'
  BY <1>0, <1>1, <1>2 DEF TypeOK, LiveWorkHasKeeper, RunnerKeepsRun, RunnerKeepsShell,
     CancelKeeps, CurrentRun, CurrentShell, Stopping, WorkCoherent
<1> QED BY <1>3, <1>4, <1>5, <1>6, <1>7, <1>8 DEF IInv

LEMMA FinishOldShellStep ==
  ASSUME IInv, NEW v \in Calls, FinishOldShell(v)
  PROVE  IInv'
<1>0. TypeOK /\ FreshCalls /\ RunnerNamesWork /\ WorkCoherent /\ ClientsCoherent /\ LiveWorkHasKeeper
  BY DEF IInv
<1>1. /\ work[v] = "exiting" /\ kind[v] = "shell"
      /\ ~CurrentShell(v, "Shell") /\ ~CurrentShell(v, "ShellThenRun")
  BY <1>0 DEF FinishOldShell, WorkCoherent, TypeOK
<1>2. /\ work' = [work EXCEPT ![v] = "ended"]
      /\ UNCHANGED <<calls, entry, status, tag, run, shell, kind, owner, intr, done, hold, target, pending, callId, cpc>>
  BY <1>0, <1>1 DEF FinishOldShell, runnerVars, clientVars
<1>3. TypeOK'
  BY <1>0, <1>1, <1>2 DEF TypeOK, ClientStates, WorkStates
<1>4. FreshCalls'
  BY <1>0, <1>1, <1>2 DEF TypeOK, FreshCalls, Calling, Cancelling
<1>5. RunnerNamesWork'
  BY <1>0, <1>1, <1>2 DEF TypeOK, RunnerNamesWork, Is, CurrentShell
<1>6. WorkCoherent'
  BY <1>0, <1>1, <1>2 DEF TypeOK, WorkCoherent, Queued
<1>7. ClientsCoherent'
  BY <1>0, <1>1, <1>2 DEF TypeOK, ClientsCoherent, WorkCoherent, Queued
<1>8. LiveWorkHasKeeper'
  BY <1>0, <1>1, <1>2 DEF TypeOK, LiveWorkHasKeeper, RunnerKeepsRun, RunnerKeepsShell,
     CancelKeeps, CurrentRun, CurrentShell, Stopping, WorkCoherent
<1> QED BY <1>3, <1>4, <1>5, <1>6, <1>7, <1>8 DEF IInv

LEMMA FinishRunStep ==
  ASSUME IInv, NEW v \in Calls, FinishRun(v)
  PROVE  IInv'
<1>0. TypeOK /\ FreshCalls /\ RunnerNamesWork /\ WorkCoherent /\ ClientsCoherent /\ LiveWorkHasKeeper
  BY DEF IInv
<1>1. work[v] = "exiting" /\ kind[v] = "run" /\ CurrentRun(v) /\ owner[v] \in Calls
  BY <1>0 DEF FinishRun, WorkCoherent, TypeOK
<1>2. /\ tag' = [tag EXCEPT ![owner[v]] = "Idle"] /\ work' = [work EXCEPT ![v] = "idleDelete"]
      /\ UNCHANGED <<calls, entry, status, run, shell, kind, owner, intr, done, hold, target, pending, callId, cpc>>
  BY <1>0, <1>1 DEF FinishRun, clientVars
<1>3. TypeOK'
  BY <1>0, <1>1, <1>2 DEF TypeOK, ClientStates, WorkStates
<1>4. FreshCalls'
  BY <1>0, <1>1, <1>2 DEF TypeOK, FreshCalls, Calling, Cancelling
<1>5. RunnerNamesWork'
  BY <1>0, <1>1, <1>2 DEF TypeOK, RunnerNamesWork, Is, CurrentRun, CurrentShell
<1>6. WorkCoherent'
  BY <1>0, <1>1, <1>2 DEF TypeOK, WorkCoherent, Queued, CurrentRun, CurrentShell
<1>7. ClientsCoherent'
  BY <1>0, <1>1, <1>2 DEF TypeOK, ClientsCoherent, WorkCoherent, Queued
<1>8. LiveWorkHasKeeper'
  <2> SUFFICES ASSUME NEW w \in Calls, work'[w] \in {"setup", "active", "exiting"}
               PROVE  RunnerKeepsRun(w)' \/ RunnerKeepsShell(w)' \/ CancelKeeps(w)'
    BY DEF LiveWorkHasKeeper
  <2>1. w # v /\ work[w] = work'[w] /\ owner[w] \in Calls /\ owner'[w] = owner[w] /\ kind'[w] = kind[w]
    BY <1>0, <1>1, <1>2 DEF TypeOK, WorkCoherent
  <2>2. CASE RunnerKeepsRun(w)
    BY <1>0, <1>1, <1>2, <2>1, <2>2 DEF TypeOK, RunnerKeepsRun, CurrentRun, CurrentShell
  <2>3. CASE RunnerKeepsShell(w)
    BY <1>0, <1>1, <1>2, <2>1, <2>3 DEF TypeOK, RunnerKeepsShell, CurrentShell, CurrentRun
  <2>4. CASE CancelKeeps(w)
    BY <1>0, <1>1, <1>2, <2>1, <2>4 DEF TypeOK, CancelKeeps, Stopping
  <2> QED BY <1>0, <2>1, <2>2, <2>3, <2>4 DEF LiveWorkHasKeeper
<1> QED BY <1>3, <1>4, <1>5, <1>6, <1>7, <1>8 DEF IInv

LEMMA FinishShellStep ==
  ASSUME IInv, NEW v \in Calls, FinishShell(v)
  PROVE  IInv'
<1>0. TypeOK /\ FreshCalls /\ RunnerNamesWork /\ WorkCoherent /\ ClientsCoherent /\ LiveWorkHasKeeper
  BY DEF IInv
<1>1. work[v] = "exiting" /\ kind[v] = "shell" /\ CurrentShell(v, "Shell") /\ owner[v] \in Calls
  BY <1>0 DEF FinishShell, WorkCoherent, TypeOK
<1>2. /\ tag' = [tag EXCEPT ![owner[v]] = "Idle"] /\ work' = [work EXCEPT ![v] = "idleDelete"]
      /\ UNCHANGED <<calls, entry, status, run, shell, kind, owner, intr, done, hold, target, pending, callId, cpc>>
  BY <1>0, <1>1 DEF FinishShell, clientVars
<1>3. TypeOK'
  BY <1>0, <1>1, <1>2 DEF TypeOK, ClientStates, WorkStates
<1>4. FreshCalls'
  BY <1>0, <1>1, <1>2 DEF TypeOK, FreshCalls, Calling, Cancelling
<1>5. RunnerNamesWork'
  BY <1>0, <1>1, <1>2 DEF TypeOK, RunnerNamesWork, Is, CurrentRun, CurrentShell
<1>6. WorkCoherent'
  BY <1>0, <1>1, <1>2 DEF TypeOK, WorkCoherent, Queued, CurrentRun, CurrentShell
<1>7. ClientsCoherent'
  BY <1>0, <1>1, <1>2 DEF TypeOK, ClientsCoherent, WorkCoherent, Queued
<1>8. LiveWorkHasKeeper'
  <2> SUFFICES ASSUME NEW w \in Calls, work'[w] \in {"setup", "active", "exiting"}
               PROVE  RunnerKeepsRun(w)' \/ RunnerKeepsShell(w)' \/ CancelKeeps(w)'
    BY DEF LiveWorkHasKeeper
  <2>1. w # v /\ work[w] = work'[w] /\ owner[w] \in Calls /\ owner'[w] = owner[w] /\ kind'[w] = kind[w]
    BY <1>0, <1>1, <1>2 DEF TypeOK, WorkCoherent
  <2>2. CASE RunnerKeepsRun(w)
    BY <1>0, <1>1, <1>2, <2>1, <2>2 DEF TypeOK, RunnerKeepsRun, CurrentRun, CurrentShell
  <2>3. CASE RunnerKeepsShell(w)
    BY <1>0, <1>1, <1>2, <2>1, <2>3 DEF TypeOK, RunnerKeepsShell, CurrentShell, CurrentRun
  <2>4. CASE CancelKeeps(w)
    BY <1>0, <1>1, <1>2, <2>1, <2>4 DEF TypeOK, CancelKeeps, Stopping
  <2> QED BY <1>0, <2>1, <2>2, <2>3, <2>4 DEF LiveWorkHasKeeper
<1> QED BY <1>3, <1>4, <1>5, <1>6, <1>7, <1>8 DEF IInv

LEMMA HandOffStep ==
  ASSUME IInv, NEW v \in Calls, HandOff(v)
  PROVE  IInv'
<1> DEFINE r == owner[v]
           q == run[r]
<1>0. TypeOK /\ FreshCalls /\ RunnerNamesWork /\ WorkCoherent /\ ClientsCoherent /\ LiveWorkHasKeeper
  BY DEF IInv
<1>1. /\ work[v] = "exiting" /\ kind[v] = "shell" /\ CurrentShell(v, "ShellThenRun")
      /\ r \in Calls /\ q \in Calls /\ q # v /\ owner[q] = r /\ kind[q] = "run"
      /\ work[q] = "queued" /\ r = owner[v] /\ q = run[r]
  BY <1>0 DEF HandOff, WorkCoherent, TypeOK, RunnerNamesWork, Is, CurrentShell
<1>2. /\ tag' = [tag EXCEPT ![r] = "Running"]
      /\ work' = [work EXCEPT ![v] = "ended", ![q] = "active"]
      /\ UNCHANGED <<calls, entry, status, run, shell, kind, owner, intr, done, hold, target, pending, callId, cpc>>
  BY <1>0, <1>1 DEF HandOff, clientVars
<1> HIDE DEF r, q
<1>3. TypeOK'
  BY <1>0, <1>1, <1>2 DEF TypeOK, ClientStates, WorkStates
<1>4. FreshCalls'
  BY <1>0, <1>1, <1>2 DEF TypeOK, FreshCalls, Calling, Cancelling
<1>5. RunnerNamesWork'
  BY <1>0, <1>1, <1>2 DEF TypeOK, RunnerNamesWork, Is, CurrentShell
<1>6. WorkCoherent'
  BY <1>0, <1>1, <1>2 DEF TypeOK, WorkCoherent, Queued
<1>7. ClientsCoherent'
  <2>1. Queued(q)
    BY <1>1 DEF CurrentShell, Queued
  <2>2. ASSUME NEW d \in Clients, pending[d] # None
        PROVE  /\ pending[d] \in Calls /\ pending[d] \notin {q, v}
               /\ work'[pending[d]] = "queued" /\ ~Queued(pending[d])'
    <3>1. /\ pending[d] \in Calls /\ work[pending[d]] = "queued" /\ ~Queued(pending[d])
          /\ owner[pending[d]] \in Calls
      BY <1>0, <2>2 DEF TypeOK, ClientsCoherent, WorkCoherent
    <3>2. pending[d] \notin {q, v}
      BY <1>1, <2>1, <3>1
    <3> QED BY <1>0, <1>1, <1>2, <3>1, <3>2 DEF TypeOK, Queued
  <2>3. ASSUME NEW w \in Calls, work[w] # "none" PROVE work'[w] # "none"
    BY <1>0, <1>1, <1>2, <2>3 DEF TypeOK
  <2> QED BY <1>0, <1>2, <2>2, <2>3 DEF ClientsCoherent
<1>8. LiveWorkHasKeeper'
  <2> SUFFICES ASSUME NEW w \in Calls, work'[w] \in {"setup", "active", "exiting"}
               PROVE  RunnerKeepsRun(w)' \/ RunnerKeepsShell(w)' \/ CancelKeeps(w)'
    BY DEF LiveWorkHasKeeper
  <2>1. /\ w # v /\ owner[w] \in Calls /\ owner'[w] = owner[w] /\ kind'[w] = kind[w]
        /\ w # q => work[w] = work'[w]
        /\ w = q => RunnerKeepsRun(w)'
    BY <1>0, <1>1, <1>2 DEF TypeOK, WorkCoherent, RunnerKeepsRun, CurrentRun
  <2>2. CASE w # q /\ RunnerKeepsRun(w)
    BY <1>0, <1>1, <1>2, <2>1, <2>2 DEF TypeOK, RunnerKeepsRun, CurrentRun, CurrentShell
  <2>3. CASE w # q /\ RunnerKeepsShell(w)
    BY <1>0, <1>1, <1>2, <2>1, <2>3 DEF TypeOK, RunnerKeepsShell, CurrentShell
  <2>4. CASE w # q /\ CancelKeeps(w)
    BY <1>0, <1>1, <1>2, <2>1, <2>4 DEF TypeOK, CancelKeeps, Stopping
  <2> QED BY <1>0, <2>1, <2>2, <2>3, <2>4 DEF LiveWorkHasKeeper
<1> QED BY <1>3, <1>4, <1>5, <1>6, <1>7, <1>8 DEF IInv

LEMMA WorkIdleDeleteStep ==
  ASSUME IInv, NEW v \in Calls, WorkIdleDelete(v)
  PROVE  IInv'
<1>0. TypeOK /\ FreshCalls /\ RunnerNamesWork /\ WorkCoherent /\ ClientsCoherent /\ LiveWorkHasKeeper
  BY DEF IInv
<1>1. work[v] = "idleDelete"
  BY <1>0 DEF WorkIdleDelete
<1>2. /\ work' = [work EXCEPT ![v] = "idleStatus"] /\ entry' = None
      /\ UNCHANGED <<calls, status, tag, run, shell, kind, owner, intr, done, hold, target, pending, callId, cpc>>
  BY <1>0, <1>1 DEF WorkIdleDelete, runnerVars, clientVars
<1>3. TypeOK'
  BY <1>0, <1>1, <1>2 DEF TypeOK, ClientStates, WorkStates
<1>4. FreshCalls'
  BY <1>0, <1>1, <1>2 DEF TypeOK, FreshCalls, Calling, Cancelling
<1>5. RunnerNamesWork'
  BY <1>0, <1>1, <1>2 DEF TypeOK, RunnerNamesWork, Is
<1>6. WorkCoherent'
  BY <1>0, <1>1, <1>2 DEF TypeOK, WorkCoherent, Queued
<1>7. ClientsCoherent'
  BY <1>0, <1>1, <1>2 DEF TypeOK, ClientsCoherent, WorkCoherent, Queued
<1>8. LiveWorkHasKeeper'
  BY <1>0, <1>1, <1>2 DEF TypeOK, LiveWorkHasKeeper, RunnerKeepsRun, RunnerKeepsShell,
     CancelKeeps, CurrentRun, CurrentShell, Stopping, WorkCoherent
<1> QED BY <1>3, <1>4, <1>5, <1>6, <1>7, <1>8 DEF IInv

LEMMA WorkIdleStatusStep ==
  ASSUME IInv, NEW v \in Calls, WorkIdleStatus(v)
  PROVE  IInv'
<1>0. TypeOK /\ FreshCalls /\ RunnerNamesWork /\ WorkCoherent /\ ClientsCoherent /\ LiveWorkHasKeeper
  BY DEF IInv
<1>1. work[v] = "idleStatus" /\ kind[v] \in {"run", "shell"}
  BY <1>0 DEF WorkIdleStatus, TypeOK
<1>2. /\ status' = "idle"
      /\ work' = [work EXCEPT ![v] = IF kind[v] = "run" THEN "complete" ELSE "ended"]
      /\ UNCHANGED <<calls, entry, tag, run, shell, kind, owner, intr, done, hold, target, pending, callId, cpc>>
  BY <1>0, <1>1 DEF WorkIdleStatus, runnerVars, clientVars
<1>3. TypeOK'
  BY <1>0, <1>1, <1>2 DEF TypeOK, ClientStates, WorkStates
<1>4. FreshCalls'
  BY <1>0, <1>1, <1>2 DEF TypeOK, FreshCalls, Calling, Cancelling
<1>5. RunnerNamesWork'
  BY <1>0, <1>1, <1>2 DEF TypeOK, RunnerNamesWork, Is
<1>6. WorkCoherent'
  BY <1>0, <1>1, <1>2 DEF TypeOK, WorkCoherent, Queued
<1>7. ClientsCoherent'
  BY <1>0, <1>1, <1>2 DEF TypeOK, ClientsCoherent, WorkCoherent, Queued
<1>8. LiveWorkHasKeeper'
  BY <1>0, <1>1, <1>2 DEF TypeOK, LiveWorkHasKeeper, RunnerKeepsRun, RunnerKeepsShell,
     CancelKeeps, CurrentRun, CurrentShell, Stopping, WorkCoherent
<1> QED BY <1>3, <1>4, <1>5, <1>6, <1>7, <1>8 DEF IInv

LEMMA CompleteStep ==
  ASSUME IInv, NEW v \in Calls, Complete(v)
  PROVE  IInv'
<1>0. TypeOK /\ FreshCalls /\ RunnerNamesWork /\ WorkCoherent /\ ClientsCoherent /\ LiveWorkHasKeeper
  BY DEF IInv
<1>1. work[v] = "complete" /\ kind[v] = "run"
  BY <1>0 DEF Complete, WorkCoherent
<1>2. /\ done' = [done EXCEPT ![v] = TRUE] /\ work' = [work EXCEPT ![v] = "ended"]
      /\ UNCHANGED <<calls, entry, status, tag, run, shell, kind, owner, intr, hold, target, pending, callId, cpc>>
  BY <1>0, <1>1 DEF Complete, runnerVars, clientVars
<1>3. TypeOK'
  BY <1>0, <1>1, <1>2 DEF TypeOK, ClientStates, WorkStates
<1>4. FreshCalls'
  BY <1>0, <1>1, <1>2 DEF TypeOK, FreshCalls, Calling, Cancelling
<1>5. RunnerNamesWork'
  BY <1>0, <1>1, <1>2 DEF TypeOK, RunnerNamesWork, Is
<1>6. WorkCoherent'
  BY <1>0, <1>1, <1>2 DEF TypeOK, WorkCoherent, Queued
<1>7. ClientsCoherent'
  BY <1>0, <1>1, <1>2 DEF TypeOK, ClientsCoherent, WorkCoherent, Queued
<1>8. LiveWorkHasKeeper'
  BY <1>0, <1>1, <1>2 DEF TypeOK, LiveWorkHasKeeper, RunnerKeepsRun, RunnerKeepsShell,
     CancelKeeps, CurrentRun, CurrentShell, Stopping, WorkCoherent
<1> QED BY <1>3, <1>4, <1>5, <1>6, <1>7, <1>8 DEF IInv

----------------------------------------------------------------------------
LEMMA NextIInv == IInv /\ [Next]_vars => IInv'
<1> SUFFICES ASSUME IInv, [Next]_vars PROVE IInv'
  OBVIOUS
<1>1. CASE UNCHANGED vars
  BY <1>1 DEF IInv, TypeOK, FreshCalls, RunnerNamesWork, WorkCoherent, ClientsCoherent,
     LiveWorkHasKeeper, Calling, Cancelling, Is, Queued, RunnerKeepsRun, RunnerKeepsShell,
     CancelKeeps, CurrentRun, CurrentShell, Stopping, vars, runnerVars, workVars, clientVars
<1>2. ASSUME NEW c \in Clients, ClientCall(c) PROVE IInv'
  BY <1>2, LookupStep, ClientMoveStep DEF ClientCall, CallLoop, CallShell
<1>3. ASSUME NEW c \in Clients, ClientStep(c) PROVE IInv'
  BY <1>3, JoinRunStep, QueueRunStep, StartRunStep, StartShellStep, CancelRunStep,
     CancelShellStep, CancelShellThenRunStep, ClientMoveStep, StopReadyStep, InterruptStep,
     AwaitFiberStep, FailPendingStep DEF ClientStep, EnsureRunning, Cancel
<1>4. ASSUME NEW v \in Calls, WorkStep(v) PROVE IInv'
  BY <1>4, RunBusyStep, ShellReadyStep, ExitStep, FinishRunStep, FinishOldRunStep,
     FinishShellStep, HandOffStep, FinishOldShellStep, WorkIdleDeleteStep,
     WorkIdleStatusStep, CompleteStep DEF WorkStep, Finalize
<1> QED BY <1>1, <1>2, <1>3, <1>4 DEF Next

\* The invariant holds in every state of every session, whatever the number
\* of clients and calls.
THEOREM Invariance == Spec => []IInv
  BY InitIInv, NextIInv, PTL DEF Spec

\* Variables keep their types.
THEOREM TypeCorrect == Spec => []TypeOK
<1>1. IInv => TypeOK
  BY DEF IInv
<1> QED BY <1>1, Invariance, PTL

\* No step of finishing, hand-off or cancelling lets go of a fiber that runs:
\* its Runner's state names it or a cancel is stopping it.
THEOREM KeeperTheorem == Spec => []LiveWorkHasKeeper
<1>1. IInv => LiveWorkHasKeeper
  BY DEF IInv
<1> QED BY <1>1, Invariance, PTL

\* A Runner runs at most one fiber that is not being cancelled.
THEOREM OneAtATimeTheorem == Spec => []OneAtATime
<1>1. ASSUME IInv, NEW r \in Calls, NEW v \in Uncancelled(r), NEW w \in Uncancelled(r)
      PROVE  v = w
  <2>1. /\ RunnerKeepsRun(v) \/ RunnerKeepsShell(v)
        /\ RunnerKeepsRun(w) \/ RunnerKeepsShell(w)
    BY <1>1 DEF IInv, LiveWorkHasKeeper, Uncancelled, CancelKeeps
  <2>2. owner[v] = r /\ owner[w] = r
    BY DEF Uncancelled
  <2> QED BY <2>1, <2>2 DEF RunnerKeepsRun, RunnerKeepsShell, CurrentRun, CurrentShell
<1>2. IInv => OneAtATime
  BY <1>1 DEF OneAtATime
<1> QED BY <1>2, Invariance, PTL

\* Whoever awaits a run has somebody who will complete it.
THEOREM NobodyWaitsTheorem == Spec => []NobodyWaitsForNothing
<1>1. ASSUME IInv, NEW c \in Clients, cpc[c] = "awaitDone"
      PROVE  LET w == target[c] IN
             \/ done[w]
             \/ Live(w)
             \/ /\ work[w] = "queued"
                /\ \/ tag[owner[w]] = "ShellThenRun" /\ run[owner[w]] = w
                      /\ Live(shell[owner[w]])
                   \/ \E d \in Clients : pending[d] = w
  <2>1. /\ target[c] \in Calls /\ kind[target[c]] = "run" /\ work[target[c]] # "none"
    BY <1>1 DEF IInv, ClientsCoherent
  <2>2. CASE work[target[c]] = "ended"
    BY <1>1, <2>1, <2>2 DEF IInv, WorkCoherent
  <2>3. CASE work[target[c]] = "queued"
    <3>1. Queued(target[c]) \/ \E d \in Clients : pending[d] = target[c]
      BY <1>1, <2>1, <2>3 DEF IInv, WorkCoherent
    <3>2. Queued(target[c]) => Live(shell[owner[target[c]]])
      BY <1>1, <2>1, <2>3 DEF IInv, WorkCoherent, RunnerNamesWork, Is, Queued, Live
    <3> QED BY <2>3, <3>1, <3>2 DEF Queued
  <2> QED BY <2>1, <2>2, <2>3 DEF Live
<1>2. IInv => NobodyWaitsForNothing
  BY <1>1 DEF NobodyWaitsForNothing
<1> QED BY <1>2, Invariance, PTL

\* A queued run that a cancel took is never started by the hand-off.
THEOREM PendingTheorem == Spec => CancelledPendingNeverStarts
<1>1. ASSUME IInv, [Next]_vars, NEW c \in Clients, NEW w \in Calls, pending[c] = w
      PROVE  work'[w] \in {"queued", "ended"}
  <2>1. work[w] = "queued" /\ ~Queued(w) /\ kind[w] = "run"
        /\ work \in [Calls -> WorkStates]
    <3>1. pending[c] # None /\ TypeOK /\ ClientsCoherent /\ WorkCoherent
      BY <1>1 DEF IInv
    <3>2. work[w] = "queued" /\ ~Queued(w)
      BY <1>1, <3>1 DEF ClientsCoherent
    <3> QED BY <3>1, <3>2 DEF TypeOK, WorkCoherent
  <2>2. CASE UNCHANGED vars
    BY <2>1, <2>2 DEF vars, workVars
  <2>3. ASSUME NEW d \in Clients, ClientCall(d) PROVE work'[w] = work[w]
    BY <2>3 DEF ClientCall, CallLoop, CallShell, Lookup, CancelNothing, CancelBusy, workVars
  <2>4. ASSUME NEW d \in Clients, QueueRun(d) \/ StartRun(d) \/ StartShell(d)
        PROVE  work'[w] = work[w]
    <3>1. work[callId[d]] = "none"
      BY <1>1, <2>4 DEF IInv, FreshCalls, Calling, QueueRun, StartRun, StartShell
    <3> QED BY <2>1, <2>4, <3>1 DEF QueueRun, StartRun, StartShell, Create
  <2>5. ASSUME NEW d \in Clients, FailPending(d) PROVE work'[w] \in {"queued", "ended"}
    BY <2>1, <2>5 DEF FailPending
  <2>6. ASSUME NEW d \in Clients, ClientStep(d) PROVE work'[w] \in {"queued", "ended"}
    <3>1. CASE QueueRun(d) \/ StartRun(d) \/ StartShell(d) \/ FailPending(d)
      BY <2>1, <2>4, <2>5, <3>1
    <3>2. CASE ~(QueueRun(d) \/ StartRun(d) \/ StartShell(d) \/ FailPending(d))
      BY <2>1, <2>6, <3>2 DEF ClientStep, EnsureRunning, JoinRun, AwaitDone, ShellBusy,
         AwaitShell, Cancel, CancelIdle, CancelRun, CancelShell, CancelShellThenRun, TakeFrom,
         StopReady, Interrupt, AwaitFiber, IdleIfCurrent, ClientIdleDelete, ClientIdleStatus,
         workVars
    <3> QED BY <3>1, <3>2
  <2>7. ASSUME NEW v \in Calls, HandOff(v) PROVE work'[w] = work[w]
    <3> DEFINE q == run[owner[v]]
    <3>1. work[v] = "exiting" /\ tag[owner[v]] = "ShellThenRun" /\ owner[v] \in Calls
      BY <1>1, <2>7 DEF HandOff, CurrentShell, IInv, WorkCoherent
    <3>2. q \in Calls /\ owner[q] = owner[v]
      BY <1>1, <3>1 DEF IInv, RunnerNamesWork, Is
    <3>3. Queued(q)
      BY <3>1, <3>2 DEF Queued
    <3>4. work' = [work EXCEPT ![v] = "ended", ![q] = "active"] /\ q # w /\ v # w
      BY <2>1, <2>7, <3>1, <3>3 DEF HandOff
    <3> QED BY <2>1, <3>4
  <2>8. ASSUME NEW v \in Calls, WorkStep(v) PROVE work'[w] = work[w]
    BY <2>1, <2>7, <2>8 DEF WorkStep, Finalize, RunBusy, ShellReady, Exit, FinishRun,
       FinishOldRun, FinishShell, FinishOldShell, WorkIdleDelete, WorkIdleStatus, Complete,
       workVars
  <2> QED BY <1>1, <2>1, <2>2, <2>3, <2>6, <2>8 DEF Next
<1>2. IInv /\ [Next]_vars =>
        [\A c \in Clients, w \in Calls : pending[c] = w => work'[w] \in {"queued", "ended"}]_vars
  BY <1>1
<1> QED BY <1>2, Invariance, PTL DEF Spec, CancelledPendingNeverStarts

----------------------------------------------------------------------------
(* The status.                                                             *)

\* Fibers and clients that publish idle before they are over, unless they
\* find new work.
WillBeIdle(w) == work[w] \in {"setup", "active", "exiting", "idleDelete", "idleStatus"}
WillSetIdle(c) == cpc[c] \in {"stopReady", "interrupt", "awaitFiber", "failPending",
                              "idleIfCurrent", "idleDelete", "idleStatus"}

IdleToCome ==
    status = "busy" => (\E w \in Calls : WillBeIdle(w)) \/ \E c \in Clients : WillSetIdle(c)

LEMMA IdleToComeStep ==
  ASSUME IInv, IInv', IdleToCome, [Next]_vars
  PROVE  IdleToCome'
<1> SUFFICES ASSUME status' = "busy"
             PROVE  (\E w \in Calls : WillBeIdle(w)') \/ \E c \in Clients : WillSetIdle(c)'
  BY DEF IdleToCome
<1>0. /\ work \in [Calls -> WorkStates] /\ cpc \in [Clients -> ClientStates]
      /\ work' \in [Calls -> WorkStates]
  BY DEF IInv, TypeOK
<1>a. ASSUME NEW r \in Calls, tag'[r] # "Idle"
      PROVE  \E w \in Calls : WillBeIdle(w)'
  <2>1. tag'[r] \in {"Running", "Shell", "ShellThenRun"}
    BY <1>a DEF IInv, TypeOK
  <2>2. CASE tag'[r] = "Running"
    BY <2>2 DEF IInv, RunnerNamesWork, Is, WillBeIdle
  <2>3. CASE tag'[r] \in {"Shell", "ShellThenRun"}
    BY <2>3 DEF IInv, RunnerNamesWork, Is, WillBeIdle
  <2> QED BY <2>1, <2>2, <2>3
\* Who sees to the status still does, or hands it on.
<1>b. ASSUME status' = status,
             \A w \in Calls : WillBeIdle(w) => WillBeIdle(w)' \/ \E c \in Clients : WillSetIdle(c)',
             \A c \in Clients : WillSetIdle(c) =>
                WillSetIdle(c)' \/ \E w \in Calls : WillBeIdle(w)'
      PROVE  (\E w \in Calls : WillBeIdle(w)') \/ \E c \in Clients : WillSetIdle(c)'
  BY <1>b DEF IdleToCome
<1>1. CASE UNCHANGED vars
  BY <1>1 DEF vars, workVars, clientVars, IdleToCome, WillBeIdle, WillSetIdle
<1>2. ASSUME NEW c \in Clients,
             \/ ClientCall(c) \/ JoinRun(c) \/ AwaitDone(c) \/ ShellBusy(c) \/ AwaitShell(c)
             \/ CancelIdle(c)
      PROVE  (\E w \in Calls : WillBeIdle(w)') \/ \E d \in Clients : WillSetIdle(d)'
  <2>1. PICK l : cpc' = [cpc EXCEPT ![c] = l] /\ ~WillSetIdle(c)
                 /\ UNCHANGED <<status, work>>
    BY <1>2 DEF ClientCall, CallLoop, CallShell, Lookup, CancelNothing, CancelBusy, JoinRun,
       AwaitRun, AwaitDone, ShellBusy, AwaitShell, CancelIdle, Goto, workVars, WillSetIdle
  <2> QED BY <1>0, <1>b, <2>1 DEF WillBeIdle, WillSetIdle
<1>3. ASSUME NEW c \in Clients, QueueRun(c) \/ StartRun(c) \/ StartShell(c)
      PROVE  \E w \in Calls : WillBeIdle(w)'
  <2>1. hold[c] \in Calls /\ tag \in [Calls -> {"Idle", "Running", "Shell", "ShellThenRun"}]
    BY <1>3 DEF IInv, TypeOK, FreshCalls, Calling, QueueRun, StartRun, StartShell
  <2>2. tag'[hold[c]] # "Idle"
    BY <1>3, <2>1 DEF QueueRun, StartRun, StartShell
  <2> QED BY <1>a, <2>1, <2>2
<1>4. ASSUME NEW c \in Clients,
             \/ CancelRun(c) \/ CancelShell(c) \/ CancelShellThenRun(c)
             \/ StopReady(c) \/ Interrupt(c) \/ AwaitFiber(c)
      PROVE  \E d \in Clients : WillSetIdle(d)'
  BY <1>0, <1>4 DEF CancelRun, CancelShell, CancelShellThenRun, TakeFrom, StopReady, Interrupt,
     AwaitFiber, Goto, WillSetIdle
<1>5. ASSUME NEW c \in Clients, FailPending(c) \/ ClientIdleDelete(c)
      PROVE  \E d \in Clients : WillSetIdle(d)'
  BY <1>0, <1>5 DEF FailPending, ClientIdleDelete, Goto, WillSetIdle
<1>6. ASSUME NEW c \in Clients, IdleIfCurrent(c)
      PROVE  (\E w \in Calls : WillBeIdle(w)') \/ \E d \in Clients : WillSetIdle(d)'
  <2>1. hold[c] \in Calls /\ tag' = tag
    BY <1>6 DEF IInv, FreshCalls, Cancelling, IdleIfCurrent, runnerVars
  <2>2. CASE tag[hold[c]] = "Idle"
    BY <1>0, <1>6, <2>2 DEF IdleIfCurrent, Goto, WillSetIdle
  <2>3. CASE tag[hold[c]] # "Idle"
    BY <1>a, <2>1, <2>3
  <2> QED BY <2>2, <2>3
<1>7. ASSUME NEW c \in Clients, ClientIdleStatus(c) PROVE FALSE
  BY <1>7 DEF ClientIdleStatus
<1>8. ASSUME NEW v \in Calls, RunBusy(v) \/ ShellReady(v) \/ Exit(v) \/ FinishRun(v)
                              \/ FinishShell(v) \/ WorkIdleDelete(v)
      PROVE  \E w \in Calls : WillBeIdle(w)'
  BY <1>0, <1>8 DEF RunBusy, ShellReady, Exit, FinishRun, FinishShell, WorkIdleDelete, workVars,
     WillBeIdle
<1>9. ASSUME NEW v \in Calls, HandOff(v)
      PROVE  \E w \in Calls : WillBeIdle(w)'
  <2>1. tag' = [tag EXCEPT ![owner[v]] = "Running"] /\ owner[v] \in Calls
    BY <1>9 DEF HandOff, IInv, WorkCoherent
  <2>2. tag'[owner[v]] = "Running"
    BY <2>1 DEF IInv, TypeOK
  <2> QED BY <1>a, <2>1, <2>2
<1>10. ASSUME NEW v \in Calls, FinishOldRun(v) \/ FinishOldShell(v)
       PROVE  \E d \in Clients : WillSetIdle(d)'
  <2>1. /\ work[v] = "exiting" /\ ~RunnerKeepsRun(v) /\ ~RunnerKeepsShell(v) /\ cpc' = cpc
    BY <1>10 DEF FinishOldRun, FinishOldShell, RunnerKeepsRun, RunnerKeepsShell, clientVars
  <2>2. CancelKeeps(v)
    BY <2>1 DEF IInv, LiveWorkHasKeeper
  <2> QED BY <2>1, <2>2 DEF CancelKeeps, Stopping, WillSetIdle
<1>11. ASSUME NEW v \in Calls, WorkIdleStatus(v) PROVE FALSE
  BY <1>11 DEF WorkIdleStatus
<1>12. ASSUME NEW v \in Calls, Complete(v)
       PROVE  (\E w \in Calls : WillBeIdle(w)') \/ \E d \in Clients : WillSetIdle(d)'
  <2>1. work[v] = "complete" /\ work' = [work EXCEPT ![v] = "ended"] /\ UNCHANGED <<status, cpc>>
    BY <1>12 DEF Complete, clientVars
  <2> QED BY <1>0, <1>b, <2>1 DEF WillBeIdle, WillSetIdle
<1> QED BY <1>1, <1>2, <1>3, <1>4, <1>5, <1>6, <1>7, <1>8, <1>9, <1>10, <1>11, <1>12
        DEF Next, ClientStep, EnsureRunning, Cancel, WorkStep, Finalize

\* A session in which nothing runs and nobody calls is shown as idle.
THEOREM QuiescentIdleTheorem == Spec => []QuiescentIdle
<1>1. Init => IdleToCome
  BY DEF Init, IdleToCome
<1>2. IInv /\ IInv' /\ IdleToCome /\ [Next]_vars => IdleToCome'
  BY IdleToComeStep
<1>3. IInv /\ IdleToCome => QuiescentIdle
  BY DEF IInv, TypeOK, IdleToCome, QuiescentIdle, Live, WillBeIdle, WillSetIdle
<1> QED BY <1>1, <1>2, <1>3, Invariance, PTL DEF Spec

----------------------------------------------------------------------------
(* The Runners implement slots of exclusive work, step by step.            *)

SlotRunning(r) == CASE tag[r] = "Idle" -> None
                    [] tag[r] = "Running" -> run[r]
                    [] OTHER -> shell[r]
SlotWaiting(r) == IF tag[r] = "ShellThenRun" THEN run[r] ELSE None

\* The mapping, value by value.
LEMMA StartMaps ==
  ASSUME NEW r \in Calls, NEW w \in Calls,
         SlotRunning(r) = None, Fate(w) = "new",
         SlotRunning(r)' = w, \A s \in Calls : s # r => SlotRunning(s)' = SlotRunning(s),
         \A s \in Calls : SlotWaiting(s)' = SlotWaiting(s),
         Fate(w)' = "running", \A v \in Calls : v # w => Fate(v)' = Fate(v)
  PROVE  Slots!Next
<1>1. Slots!Start(r, w)
  BY DEF Slots!Start, SlotRunning, SlotWaiting
<1> QED BY <1>1 DEF Slots!Next

LEMMA WaitMaps ==
  ASSUME NEW r \in Calls, NEW w \in Calls,
         SlotRunning(r) # None, SlotWaiting(r) = None, Fate(w) = "new",
         SlotWaiting(r)' = w, \A s \in Calls : s # r => SlotWaiting(s)' = SlotWaiting(s),
         \A s \in Calls : SlotRunning(s)' = SlotRunning(s),
         Fate(w)' = "waiting", \A v \in Calls : v # w => Fate(v)' = Fate(v)
  PROVE  Slots!Next
<1>1. Slots!Wait(r, w)
  BY DEF Slots!Wait, SlotRunning, SlotWaiting
<1> QED BY <1>1 DEF Slots!Next

LEMMA FinishMaps ==
  ASSUME NEW r \in Calls,
         SlotRunning(r) # None,
         SlotRunning(r)' = SlotWaiting(r), SlotWaiting(r)' = None,
         \A s \in Calls : s # r => SlotRunning(s)' = SlotRunning(s)
                                   /\ SlotWaiting(s)' = SlotWaiting(s),
         \A v \in Calls : Fate(v)' = IF v = SlotRunning(r) THEN "over"
                                     ELSE IF v = SlotWaiting(r) THEN "running" ELSE Fate(v)
  PROVE  Slots!Next
<1>1. Slots!Finish(r)
  BY DEF Slots!Finish, SlotRunning, SlotWaiting
<1> QED BY <1>1 DEF Slots!Next

LEMMA CancelMaps ==
  ASSUME NEW r \in Calls,
         SlotRunning(r) # None,
         SlotRunning(r)' = None, SlotWaiting(r)' = None,
         \A s \in Calls : s # r => SlotRunning(s)' = SlotRunning(s)
                                   /\ SlotWaiting(s)' = SlotWaiting(s),
         \A v \in Calls : Fate(v)' = IF v = SlotRunning(r) THEN "stopping"
                                     ELSE IF v = SlotWaiting(r) THEN "over" ELSE Fate(v)
  PROVE  Slots!Next
<1>1. Slots!Cancel(r)
  BY DEF Slots!Cancel, SlotRunning, SlotWaiting
<1> QED BY <1>1 DEF Slots!Next

LEMMA StoppedMaps ==
  ASSUME NEW w \in Calls, Fate(w) = "stopping", Fate(w)' = "over",
         \A s \in Calls : SlotRunning(s)' = SlotRunning(s) /\ SlotWaiting(s)' = SlotWaiting(s),
         \A v \in Calls : v # w => Fate(v)' = Fate(v)
  PROVE  Slots!Next
<1>1. Slots!Stopped(w)
  BY DEF Slots!Stopped, SlotRunning, SlotWaiting
<1> QED BY <1>1 DEF Slots!Next

LEMMA StutterMaps ==
  ASSUME \A s \in Calls : SlotRunning(s)' = SlotRunning(s) /\ SlotWaiting(s)' = SlotWaiting(s),
         \A v \in Calls : Fate(v)' = Fate(v)
  PROVE  UNCHANGED Slots!vars
  BY DEF Slots!vars, SlotRunning, SlotWaiting

\* What w is depends on its own progress and on whether its Runner names it.
Named(w) == RunnerKeepsRun(w) \/ RunnerKeepsShell(w)

LEMMA FateSame ==
  ASSUME NEW w \in Calls,
         work'[w] = work[w],
         work[w] = "queued" => (Queued(w)' <=> Queued(w)),
         work[w] \in {"setup", "active", "exiting"} => (Named(w)' <=> Named(w))
  PROVE  Fate(w)' = Fate(w)
<1>1. CASE work[w] = "queued"
  BY <1>1 DEF Fate, Queued
<1>2. CASE work[w] \in {"setup", "active", "exiting"}
  BY <1>2 DEF Fate, Named
<1>3. CASE work[w] \notin {"queued", "setup", "active", "exiting"}
  BY <1>3 DEF Fate
<1> QED BY <1>1, <1>2, <1>3

\* Only the Runner r and the work k are touched: the fate of all work that is
\* not k and that r does not name stays as it is.
Touches(r, k) ==
    /\ \A s \in Calls : s # r => tag'[s] = tag[s] /\ run'[s] = run[s] /\ shell'[s] = shell[s]
    /\ \A w \in Calls : w # k =>
        work'[w] = work[w] /\ kind'[w] = kind[w] /\ owner'[w] = owner[w]

LEMMA OthersSame ==
  ASSUME IInv, NEW r \in Calls, NEW k, Touches(r, k), NEW w \in Calls, w # k,
         (~Queued(w) /\ ~Named(w)) \/ owner[w] # r,
         (~Queued(w)' /\ ~Named(w)') \/ owner[w] # r
  PROVE  Fate(w)' = Fate(w)
<1>1. work'[w] = work[w] /\ kind'[w] = kind[w] /\ owner'[w] = owner[w]
  BY DEF Touches
<1>2. CASE owner[w] = r
  <2>1. ~Queued(w) /\ ~Named(w) /\ ~Queued(w)' /\ ~Named(w)'
    BY <1>1, <1>2
  <2> QED BY <1>1, <2>1, FateSame
<1>3. CASE owner[w] # r /\ work[w] # "none"
  <2>1. owner[w] \in Calls
    BY <1>3 DEF IInv, WorkCoherent
  <2>2. /\ tag'[owner[w]] = tag[owner[w]] /\ run'[owner[w]] = run[owner[w]]
        /\ shell'[owner[w]] = shell[owner[w]]
    BY <1>3, <2>1 DEF Touches
  <2>3. (Queued(w)' <=> Queued(w)) /\ (Named(w)' <=> Named(w))
    BY <1>1, <2>2 DEF Queued, Named, RunnerKeepsRun, RunnerKeepsShell, CurrentRun, CurrentShell
  <2> QED BY <1>1, <2>3, FateSame
<1>4. CASE work[w] = "none"
  BY <1>1, <1>4, FateSame
<1> QED BY <1>2, <1>3, <1>4

LEMMA QuietMaps ==
  ASSUME UNCHANGED <<tag, run, shell, work, kind, owner>>
  PROVE  UNCHANGED Slots!vars
<1>1. \A s \in Calls : SlotRunning(s)' = SlotRunning(s) /\ SlotWaiting(s)' = SlotWaiting(s)
  BY DEF SlotRunning, SlotWaiting
<1>2. \A v \in Calls : Fate(v)' = Fate(v)
  BY DEF Fate, RunnerKeepsRun, RunnerKeepsShell, CurrentRun, CurrentShell
<1> QED BY <1>1, <1>2, StutterMaps

\* The progress of one piece of work alone.
LEMMA ProgressMaps ==
  ASSUME IInv, NEW v \in Calls, NEW s \in WorkStates, work' = [work EXCEPT ![v] = s],
         UNCHANGED <<tag, run, shell, kind, owner>>
  PROVE  /\ Fate(v)' = Fate(v) => UNCHANGED Slots!vars
         /\ Fate(v) = "stopping" /\ Fate(v)' = "over" => Slots!Next
<1>1. \A t \in Calls : SlotRunning(t)' = SlotRunning(t) /\ SlotWaiting(t)' = SlotWaiting(t)
  BY DEF SlotRunning, SlotWaiting
<1>2. ASSUME NEW w \in Calls, w # v PROVE Fate(w)' = Fate(w)
  <2>1. work'[w] = work[w]
    BY <1>2 DEF IInv, TypeOK
  <2> QED BY <2>1, FateSame DEF Queued, Named, RunnerKeepsRun, RunnerKeepsShell, CurrentRun,
             CurrentShell
<1> QED BY <1>1, <1>2, StutterMaps, StoppedMaps

LEMMA StartSteps ==
  ASSUME IInv, NEW c \in Clients, StartRun(c) \/ StartShell(c)
  PROVE  Slots!Next
<1>1. PICK r \in Calls, k \in Calls :
        /\ r = hold[c] /\ k = callId[c] /\ tag[r] = "Idle" /\ work[k] = "none"
  BY SMTT(30) DEF IInv, FreshCalls, Calling, Cancelling, StartRun, StartShell, TypeOK
<1>2. PICK t \in {"Running", "Shell"}, kd \in {"run", "shell"}, s \in {"active", "setup"} :
        /\ tag' = [tag EXCEPT ![r] = t]
        /\ work' = [work EXCEPT ![k] = s] /\ kind' = [kind EXCEPT ![k] = kd]
        /\ owner' = [owner EXCEPT ![k] = r]
        /\ \/ t = "Running" /\ kd = "run" /\ run' = [run EXCEPT ![r] = k] /\ shell' = shell
           \/ t = "Shell" /\ kd = "shell" /\ shell' = [shell EXCEPT ![r] = k] /\ run' = run
  BY <1>1 DEF StartRun, StartShell, Create
<1>3. TypeOK
  BY DEF IInv
<1>4. Touches(r, k)
  BY <1>2, <1>3 DEF Touches, TypeOK
<1>5. /\ SlotRunning(r) = None /\ SlotRunning(r)' = k
      /\ \A q \in Calls : q # r => SlotRunning(q)' = SlotRunning(q)
      /\ \A q \in Calls : SlotWaiting(q)' = SlotWaiting(q)
  BY <1>1, <1>2, <1>3 DEF SlotRunning, SlotWaiting, TypeOK
<1>6. Fate(k) = "new" /\ Fate(k)' = "running"
  BY <1>1, <1>2, <1>3 DEF Fate, RunnerKeepsRun, RunnerKeepsShell, CurrentRun, CurrentShell,
     TypeOK
<1>7. ASSUME NEW w \in Calls, w # k PROVE Fate(w)' = Fate(w)
  <2>1. owner'[w] = owner[w]
    BY <1>4, <1>7 DEF Touches
  <2>2. CASE owner[w] = r
    <3>1. /\ ~Queued(w) /\ ~Named(w)
      BY <1>1, <2>2 DEF Queued, Named, RunnerKeepsRun, RunnerKeepsShell, CurrentRun, CurrentShell
    <3>2. tag'[r] = t /\ (t = "Running" => run'[r] = k) /\ (t = "Shell" => shell'[r] = k)
      BY <1>2, <1>3 DEF TypeOK
    <3>3. ~Queued(w)' /\ ~Named(w)'
      BY <1>7, <2>1, <2>2, <3>2 DEF Queued, Named, RunnerKeepsRun, RunnerKeepsShell, CurrentRun,
         CurrentShell
    <3> QED BY <1>4, <1>7, <3>1, <3>3, OthersSame
  <2> QED BY <1>4, <1>7, <2>2, OthersSame
<1> QED BY <1>5, <1>6, <1>7, StartMaps

LEMMA QueueSteps ==
  ASSUME IInv, NEW c \in Clients, QueueRun(c)
  PROVE  Slots!Next
<1>1. PICK r \in Calls, k \in Calls :
        /\ r = hold[c] /\ k = callId[c] /\ tag[r] = "Shell" /\ work[k] = "none"
  BY DEF IInv, FreshCalls, Calling, Cancelling, QueueRun, TypeOK
<1>2. /\ tag' = [tag EXCEPT ![r] = "ShellThenRun"] /\ run' = [run EXCEPT ![r] = k]
      /\ work' = [work EXCEPT ![k] = "queued"] /\ kind' = [kind EXCEPT ![k] = "run"]
      /\ owner' = [owner EXCEPT ![k] = r] /\ shell' = shell
  BY <1>1 DEF QueueRun, Create
<1>3. TypeOK
  BY DEF IInv
<1>4. /\ SlotRunning(r) # None /\ SlotWaiting(r) = None /\ SlotWaiting(r)' = k
      /\ \A q \in Calls : q # r => SlotWaiting(q)' = SlotWaiting(q)
      /\ \A q \in Calls : SlotRunning(q)' = SlotRunning(q)
  <2>1. shell[r] \in Calls
    BY <1>1 DEF IInv, RunnerNamesWork, Is
  <2> QED BY <1>1, <1>2, <1>3, <2>1 DEF SlotRunning, SlotWaiting, TypeOK
<1>5. Fate(k) = "new" /\ Fate(k)' = "waiting"
  BY <1>1, <1>2, <1>3 DEF Fate, TypeOK
<1>6. ASSUME NEW w \in Calls, w # k PROVE Fate(w)' = Fate(w)
  <2>1. work'[w] = work[w] /\ owner'[w] = owner[w] /\ kind'[w] = kind[w]
    BY <1>2, <1>3, <1>6 DEF TypeOK
  <2>2. CASE work[w] = "none"
    BY <2>1, <2>2, FateSame
  <2>3. CASE work[w] # "none"
    <3>1. owner[w] \in Calls
      BY <2>3 DEF IInv, WorkCoherent
    <3>2. (Queued(w)' <=> Queued(w)) /\ (Named(w)' <=> Named(w))
      BY <1>1, <1>2, <1>3, <1>6, <2>1, <3>1
         DEF Queued, Named, RunnerKeepsRun, RunnerKeepsShell, CurrentRun, CurrentShell, TypeOK
    <3> QED BY <2>1, <3>2, FateSame
  <2> QED BY <2>2, <2>3
<1> QED BY <1>4, <1>5, <1>6, WaitMaps


\* What a busy Runner names is its own and has not ended.
LEMMA BusyNames ==
  ASSUME IInv, NEW r \in Calls, tag[r] \in {"Running", "Shell", "ShellThenRun"}
  PROVE  \E x \in Calls, y \in Calls \cup {None} :
           /\ x = SlotRunning(r) /\ y = SlotWaiting(r) /\ x # y /\ x # None
           /\ owner[x] = r /\ work[x] \in {"setup", "active", "exiting"}
           /\ y # None => y \in Calls /\ owner[y] = r /\ work[y] = "queued"
           /\ tag[r] = "Running" => x = run[r] /\ kind[x] = "run" /\ y = None
           /\ tag[r] = "Shell" => x = shell[r] /\ kind[x] = "shell" /\ y = None
           /\ tag[r] = "ShellThenRun" =>
                x = shell[r] /\ kind[x] = "shell" /\ y = run[r] /\ kind[y] = "run" /\ y # None
<1>1. TypeOK /\ RunnerNamesWork
  BY DEF IInv
<1>2. CASE tag[r] = "Running"
  <2>1. Is(run[r], r, "run", {"active", "exiting"})
    BY <1>1, <1>2 DEF RunnerNamesWork
  <2>2. SlotRunning(r) = run[r] /\ SlotWaiting(r) = None
    BY <1>2 DEF SlotRunning, SlotWaiting
  <2> QED BY <1>2, <2>1, <2>2 DEF Is
<1>3. CASE tag[r] \in {"Shell", "ShellThenRun"}
  <2>1. /\ Is(shell[r], r, "shell", {"setup", "active", "exiting"})
        /\ tag[r] = "ShellThenRun" => Is(run[r], r, "run", {"queued"})
    BY <1>1, <1>3 DEF RunnerNamesWork
  <2>2. /\ SlotRunning(r) = shell[r]
        /\ SlotWaiting(r) = IF tag[r] = "ShellThenRun" THEN run[r] ELSE None
    BY <1>3 DEF SlotRunning, SlotWaiting
  <2> QED BY <1>3, <2>1, <2>2 DEF Is
<1> QED BY <1>2, <1>3

LEMMA CancelSteps ==
  ASSUME IInv, NEW c \in Clients, CancelRun(c) \/ CancelShell(c) \/ CancelShellThenRun(c)
  PROVE  Slots!Next
<1>1. PICK r \in Calls : r = hold[c] /\ tag[r] \in {"Running", "Shell", "ShellThenRun"}
  BY DEF IInv, FreshCalls, Calling, Cancelling, CancelRun, CancelShell, CancelShellThenRun
<1>2. /\ tag' = [tag EXCEPT ![r] = "Idle"] /\ UNCHANGED <<run, shell, work, kind, owner>>
  BY <1>1 DEF CancelRun, CancelShell, CancelShellThenRun, TakeFrom, workVars
<1>3. TypeOK
  BY DEF IInv
<1>4. /\ SlotRunning(r)' = None /\ SlotWaiting(r)' = None
      /\ \A s \in Calls : s # r => SlotRunning(s)' = SlotRunning(s)
                                /\ SlotWaiting(s)' = SlotWaiting(s)
  BY <1>1, <1>2, <1>3 DEF SlotRunning, SlotWaiting, TypeOK
<1>5. PICK x \in Calls, y \in Calls \cup {None} :
        /\ x = SlotRunning(r) /\ y = SlotWaiting(r) /\ x # y /\ x # None
        /\ owner[x] = r /\ work[x] \in {"setup", "active", "exiting"}
        /\ y # None => y \in Calls /\ owner[y] = r /\ work[y] = "queued"
        /\ tag[r] = "Running" => x = run[r] /\ kind[x] = "run" /\ y = None
        /\ tag[r] = "Shell" => x = shell[r] /\ kind[x] = "shell" /\ y = None
        /\ tag[r] = "ShellThenRun" =>
             x = shell[r] /\ kind[x] = "shell" /\ y = run[r] /\ kind[y] = "run" /\ y # None
  BY <1>1, BusyNames
<1>6. tag'[r] = "Idle" /\ work' = work /\ owner' = owner /\ kind' = kind
  BY <1>1, <1>2, <1>3 DEF TypeOK
<1>7. ASSUME NEW v \in Calls
      PROVE  Fate(v)' = IF v = x THEN "stopping" ELSE IF v = y THEN "over" ELSE Fate(v)
  <2>1. CASE v = x
    <3>1. work'[v] \in {"setup", "active", "exiting"} /\ tag'[owner'[v]] = "Idle"
      BY <1>5, <1>6, <2>1
    <3> QED BY <2>1, <3>1 DEF Fate, RunnerKeepsRun, RunnerKeepsShell, CurrentRun, CurrentShell
  <2>2. CASE v = y /\ v # x
    <3>1. work'[v] = "queued" /\ tag'[owner'[v]] = "Idle"
      BY <1>5, <1>6, <2>2
    <3> QED BY <2>2, <3>1 DEF Fate
  <2>3. CASE v # x /\ v # y
    <3>1. Touches(r, None)
      BY <1>2, <1>3 DEF Touches, TypeOK
    <3>2. v # None
      OBVIOUS
    <3>3. CASE owner[v] = r
      <4>1. ~Queued(v) /\ ~Named(v)
        BY <1>1, <1>5, <2>3, <3>3 DEF Queued, Named, RunnerKeepsRun,
           RunnerKeepsShell, CurrentRun, CurrentShell
      <4>2. ~Queued(v)' /\ ~Named(v)'
        BY <1>6, <3>3 DEF Queued, Named, RunnerKeepsRun, RunnerKeepsShell, CurrentRun,
           CurrentShell
      <4> QED BY <2>3, <3>1, <3>2, <4>1, <4>2, OthersSame
    <3>4. CASE owner[v] # r
      BY <2>3, <3>1, <3>2, <3>4, OthersSame
    <3> QED BY <3>3, <3>4
  <2> QED BY <2>1, <2>2, <2>3
<1> QED BY <1>4, <1>5, <1>7, CancelMaps

\* The current work of a Runner is over: the waiting one, if any, runs.
LEMMA FinishSteps ==
  ASSUME IInv, NEW w \in Calls, FinishRun(w) \/ FinishShell(w) \/ HandOff(w)
  PROVE  Slots!Next
<1>1. PICK r \in Calls : r = owner[w] /\ tag[r] \in {"Running", "Shell", "ShellThenRun"}
                         /\ work[w] = "exiting"
  BY DEF IInv, WorkCoherent, FinishRun, FinishShell, HandOff, CurrentRun, CurrentShell
<1>2. PICK x \in Calls, y \in Calls \cup {None} :
        /\ x = SlotRunning(r) /\ y = SlotWaiting(r) /\ x # y /\ x # None
        /\ owner[x] = r /\ work[x] \in {"setup", "active", "exiting"}
        /\ y # None => y \in Calls /\ owner[y] = r /\ work[y] = "queued"
        /\ tag[r] = "Running" => x = run[r] /\ kind[x] = "run" /\ y = None
        /\ tag[r] = "Shell" => x = shell[r] /\ kind[x] = "shell" /\ y = None
        /\ tag[r] = "ShellThenRun" =>
             x = shell[r] /\ kind[x] = "shell" /\ y = run[r] /\ kind[y] = "run" /\ y # None
  BY <1>1, BusyNames
<1>3. TypeOK
  BY DEF IInv
<1>4. /\ w = x /\ UNCHANGED <<run, shell, kind, owner>>
      /\ \/ /\ tag[r] # "ShellThenRun" /\ tag' = [tag EXCEPT ![r] = "Idle"]
            /\ work' = [work EXCEPT ![w] = "idleDelete"]
         \/ /\ tag[r] = "ShellThenRun" /\ tag' = [tag EXCEPT ![r] = "Running"]
            /\ work' = [work EXCEPT ![w] = "ended", ![run[r]] = "active"]
  BY <1>1, <1>2 DEF FinishRun, FinishShell, HandOff, CurrentRun, CurrentShell
<1>5. /\ y = None => tag'[r] = "Idle"
      /\ y # None => tag'[r] = "Running" /\ run'[r] = y /\ work'[y] = "active" /\ kind'[y] = "run"
      /\ work'[x] \in {"idleDelete", "ended"}
      /\ \A v \in Calls : v # x /\ v # y => work'[v] = work[v]
      /\ \A s \in Calls : s # r => tag'[s] = tag[s]
  <2>1. CASE tag[r] # "ShellThenRun"
    <3>1. y = None /\ tag' = [tag EXCEPT ![r] = "Idle"] /\ work' = [work EXCEPT ![x] = "idleDelete"]
      BY <1>1, <1>2, <1>4, <2>1
    <3> QED BY <1>3, <3>1 DEF TypeOK
  <2>2. CASE tag[r] = "ShellThenRun"
    <3>1. /\ y = run[r] /\ kind[y] = "run" /\ tag' = [tag EXCEPT ![r] = "Running"]
          /\ work' = [work EXCEPT ![x] = "ended", ![y] = "active"] /\ run' = run /\ kind' = kind
      BY <1>1, <1>2, <1>4, <2>2
    <3> QED BY <1>2, <1>3, <2>2, <3>1 DEF TypeOK
  <2> QED BY <2>1, <2>2
<1>6. /\ SlotRunning(r)' = y /\ SlotWaiting(r)' = None
      /\ \A s \in Calls : s # r => SlotRunning(s)' = SlotRunning(s)
                                /\ SlotWaiting(s)' = SlotWaiting(s)
  BY <1>2, <1>4, <1>5 DEF SlotRunning, SlotWaiting
<1>7. ASSUME NEW v \in Calls
      PROVE  Fate(v)' = IF v = x THEN "over" ELSE IF v = y THEN "running" ELSE Fate(v)
  <2>1. CASE v = x
    BY <1>5, <2>1 DEF Fate
  <2>2. CASE v = y /\ v # x
    <3>1. work'[v] = "active" /\ owner'[v] = r /\ kind'[v] = "run"
          /\ tag'[r] = "Running" /\ run'[r] = v
      BY <1>2, <1>4, <1>5, <2>2
    <3> QED BY <2>2, <3>1 DEF Fate, RunnerKeepsRun, CurrentRun
  <2>3. CASE v # x /\ v # y
    <3>1. work'[v] = work[v] /\ owner'[v] = owner[v] /\ kind'[v] = kind[v]
      BY <1>4, <1>5, <2>3
    <3>2. CASE work[v] = "none"
      BY <2>3, <3>1, <3>2, FateSame
    <3>3. CASE work[v] # "none"
      <4>1. owner[v] \in Calls
        BY <3>3 DEF IInv, WorkCoherent
      <4>2. (Queued(v)' <=> Queued(v)) /\ (Named(v)' <=> Named(v))
        <5>1. CASE owner[v] = r
          <6>1. ~Queued(v) /\ ~Named(v)
            BY <1>1, <1>2, <2>3, <5>1 DEF Queued, Named, RunnerKeepsRun, RunnerKeepsShell,
               CurrentRun, CurrentShell
          <6>2. ~Queued(v)' /\ ~Named(v)'
            BY <1>2, <1>5, <2>3, <3>1, <5>1 DEF Queued, Named, RunnerKeepsRun,
               RunnerKeepsShell, CurrentRun, CurrentShell
          <6> QED BY <6>1, <6>2
        <5>2. CASE owner[v] # r
          BY <1>4, <1>5, <3>1, <4>1, <5>2 DEF Queued, Named, RunnerKeepsRun,
             RunnerKeepsShell, CurrentRun, CurrentShell
        <5> QED BY <5>1, <5>2
      <4> QED BY <2>3, <3>1, <4>2, FateSame
    <3> QED BY <3>2, <3>3
  <2> QED BY <2>1, <2>2, <2>3, <1>2
<1> QED BY <1>2, <1>6, <1>7, FinishMaps

\* A fiber moves on without its Runner.
LEMMA FiberSteps ==
  ASSUME IInv, NEW w \in Calls,
         \/ ShellReady(w) \/ Exit(w) \/ FinishOldRun(w) \/ FinishOldShell(w)
         \/ WorkIdleDelete(w) \/ WorkIdleStatus(w) \/ Complete(w)
  PROVE  [Slots!Next]_(Slots!vars)
<1>1. UNCHANGED <<tag, run, shell, kind, owner>>
  BY DEF ShellReady, Exit, FinishOldRun, FinishOldShell, WorkIdleDelete, WorkIdleStatus,
     Complete, runnerVars
<1>2. PICK s \in WorkStates :
        /\ work' = [work EXCEPT ![w] = s]
        /\ \/ work[w] \in {"setup", "active"} /\ s \in {"active", "exiting"}
           \/ /\ work[w] = "exiting" /\ s \in {"complete", "ended"}
              /\ ~RunnerKeepsRun(w) /\ ~RunnerKeepsShell(w)
           \/ work[w] \in {"idleDelete", "idleStatus", "complete"}
              /\ s \in {"idleStatus", "complete", "ended"}
  BY DEF ShellReady, Exit, FinishOldRun, FinishOldShell, WorkIdleDelete, WorkIdleStatus,
     Complete, WorkStates, RunnerKeepsRun, RunnerKeepsShell
<1>3. work'[w] = s
  BY <1>2 DEF IInv, TypeOK
<1>4. (RunnerKeepsRun(w)' <=> RunnerKeepsRun(w)) /\ (RunnerKeepsShell(w)' <=> RunnerKeepsShell(w))
  BY <1>1 DEF RunnerKeepsRun, RunnerKeepsShell, CurrentRun, CurrentShell
<1>5. CASE work[w] = "exiting"
  <2>1. Fate(w) = "stopping"
    BY <1>2, <1>5 DEF Fate
  <2>2. Fate(w)' = "over"
    BY <1>2, <1>3, <1>5 DEF Fate
  <2> QED BY <1>1, <1>2, <2>1, <2>2, ProgressMaps
<1>6. CASE work[w] \in {"setup", "active"}
  <2>1. Fate(w)' = Fate(w)
    BY <1>2, <1>3, <1>4, <1>6 DEF Fate
  <2> QED BY <1>1, <1>2, <2>1, ProgressMaps
<1>7. CASE work[w] \in {"idleDelete", "idleStatus", "complete"}
  <2>1. Fate(w)' = Fate(w)
    BY <1>2, <1>3, <1>7 DEF Fate
  <2> QED BY <1>1, <1>2, <2>1, ProgressMaps
<1> QED BY <1>2, <1>5, <1>6, <1>7

\* A queued run that a cancel has taken is over before its callers are told.
LEMMA FailPendingMaps ==
  ASSUME IInv, NEW c \in Clients, FailPending(c)
  PROVE  UNCHANGED Slots!vars
<1>1. PICK w \in Calls : w = pending[c] /\ work[w] = "queued" /\ ~Queued(w)
  BY DEF IInv, TypeOK, ClientsCoherent, FailPending
<1>2. /\ work' = [work EXCEPT ![w] = "ended"] /\ UNCHANGED <<tag, run, shell, kind, owner>>
  BY <1>1 DEF FailPending, runnerVars
<1>3. work'[w] = "ended" /\ "ended" \in WorkStates
  BY <1>2 DEF IInv, TypeOK, WorkStates
<1>4. Fate(w) = "over"
  BY <1>1 DEF Fate, Queued
<1>5. Fate(w)' = "over"
  BY <1>3 DEF Fate
<1> QED BY <1>2, <1>3, <1>4, <1>5, ProgressMaps

LEMMA SlotStep == IInv /\ [Next]_vars => [Slots!Next]_(Slots!vars)
<1> SUFFICES ASSUME IInv, [Next]_vars PROVE [Slots!Next]_(Slots!vars)
  OBVIOUS
<1>1. CASE UNCHANGED vars
  BY <1>1, QuietMaps DEF vars, runnerVars, workVars
<1>2. ASSUME NEW c \in Clients, ClientCall(c)
      PROVE  [Slots!Next]_(Slots!vars)
  BY <1>2, QuietMaps DEF ClientCall, CallLoop, CallShell, Lookup, CancelNothing, CancelBusy,
     runnerVars, workVars
<1>3. ASSUME NEW c \in Clients, ClientStep(c)
      PROVE  [Slots!Next]_(Slots!vars)
  <2>1. CASE StartRun(c) \/ StartShell(c)
    BY <2>1, StartSteps
  <2>2. CASE QueueRun(c)
    BY <2>2, QueueSteps
  <2>3. CASE CancelRun(c) \/ CancelShell(c) \/ CancelShellThenRun(c)
    BY <2>3, CancelSteps
  <2>4. CASE FailPending(c)
    BY <2>4, FailPendingMaps
  <2>5. CASE \/ JoinRun(c) \/ AwaitDone(c) \/ ShellBusy(c) \/ AwaitShell(c) \/ CancelIdle(c)
             \/ StopReady(c) \/ Interrupt(c) \/ AwaitFiber(c) \/ IdleIfCurrent(c)
             \/ ClientIdleDelete(c) \/ ClientIdleStatus(c)
    BY <2>5, QuietMaps DEF JoinRun, AwaitDone, ShellBusy, AwaitShell, CancelIdle, StopReady,
       Interrupt, AwaitFiber, IdleIfCurrent, ClientIdleDelete, ClientIdleStatus, runnerVars,
       workVars
  <2> QED BY <1>3, <2>1, <2>2, <2>3, <2>4, <2>5 DEF ClientStep, EnsureRunning, Cancel
<1>4. ASSUME NEW w \in Calls, WorkStep(w)
      PROVE  [Slots!Next]_(Slots!vars)
  <2>1. CASE FinishRun(w) \/ FinishShell(w) \/ HandOff(w)
    BY <2>1, FinishSteps
  <2>2. CASE RunBusy(w)
    BY <2>2, QuietMaps DEF RunBusy, runnerVars, workVars
  <2>3. CASE \/ ShellReady(w) \/ Exit(w) \/ FinishOldRun(w) \/ FinishOldShell(w)
             \/ WorkIdleDelete(w) \/ WorkIdleStatus(w) \/ Complete(w)
    BY <2>3, FiberSteps
  <2> QED BY <1>4, <2>1, <2>2, <2>3 DEF WorkStep, Finalize
<1> QED BY <1>1, <1>2, <1>3, <1>4 DEF Next

\* Every step of the Runners is a step of the slots or none of theirs.
THEOREM ImplementsTheorem == Spec => ImplementsExclusiveWork
<1>1. Init => Slots!Init
  BY DEF Init, Slots!Init, Fate
<1> QED BY <1>1, SlotStep, Invariance, PTL DEF Spec, ImplementsExclusiveWork, Slots!Spec
=============================================================================
