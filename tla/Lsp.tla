--------------------------------- MODULE Lsp ---------------------------------
(***************************************************************************)
(* The language servers of a directory: who starts one, who waits for one  *)
(* that is being started, and what happens to one that fails.              *)
(*                                                                         *)
(* Source: packages/opencode/src/lsp/lsp.ts.                               *)
(*                                                                         *)
(* A key is a server together with the root it serves.  A caller's file    *)
(* names the keys that handle it, in the order of the configuration.       *)
(***************************************************************************)
EXTENDS Naturals, Sequences

CONSTANTS
    Keys,      \* pairs of a language server and a root
    Callers,   \* callers of getClients
    Handlers,  \* the sequences of keys that a file may have
    MaxTasks,  \* bound: servers started
    None

ConstantAssumption ==
    /\ MaxTasks \in Nat
    /\ None \notin Nat
    /\ Handlers \subseteq Seq(Keys)

Tasks == 1..MaxTasks

VARIABLES
    todo,      \* todo[c]: the keys that caller c has not done yet
    phase,     \* phase[c]: "idle", "root" while it looks for the root of the next key, or "wait"
    awaits,    \* awaits[c]: the task that caller c waits for, or None
    start,     \* start[n]: the key and the stage of the n-th task
    spawning,  \* spawning[k]: the task of key k in s.spawning, or None
    broken,    \* the keys in s.broken
    clients,   \* s.clients: the tasks whose client was stored
    procs,     \* the tasks whose process runs
    serving    \* whether the directory's instance is not disposed

vars == <<todo, phase, awaits, start, spawning, broken, clients, procs, serving>>
callVars == <<todo, phase, awaits>>

NoTask == [key |-> None, stage |-> "none"]

TypeOK ==
    /\ todo \in [Callers -> Seq(Keys)]
    /\ phase \in [Callers -> {"idle", "root", "wait"}]
    /\ awaits \in [Callers -> Tasks \cup {None}]
    /\ start \in [Tasks -> [key : Keys \cup {None},
                           stage : {"none", "spawn", "create", "stop", "over"}]]
    /\ spawning \in [Keys -> Tasks \cup {None}]
    /\ broken \subseteq Keys
    /\ clients \subseteq Tasks /\ procs \subseteq Tasks
    /\ serving \in BOOLEAN

Init ==
    /\ todo = [c \in Callers |-> <<>>]
    /\ phase = [c \in Callers |-> "idle"]
    /\ awaits = [c \in Callers |-> None]
    /\ start = [n \in Tasks |-> NoTask]
    /\ spawning = [k \in Keys |-> None]
    /\ broken = {}
    /\ clients = {} /\ procs = {}
    /\ serving = TRUE

----------------------------------------------------------------------------
(* getClients.                                                             *)

Call(c, h) ==
    /\ serving /\ phase[c] = "idle"
    /\ todo' = [todo EXCEPT ![c] = h]
    /\ phase' = [phase EXCEPT ![c] = "root"]
    /\ UNCHANGED <<awaits, start, spawning, broken, clients, procs, serving>>

Known(k) == k \in broken \/ \E n \in clients : start[n].key = k

Wait(c, n) ==
    /\ phase' = [phase EXCEPT ![c] = "wait"]
    /\ awaits' = [awaits EXCEPT ![c] = n]

\* The next key is done without a wait, or has no root here.
Skip(c) ==
    /\ phase[c] = "root" /\ todo[c] # <<>>
    /\ todo' = [todo EXCEPT ![c] = Tail(@)]
    /\ UNCHANGED <<phase, awaits, start, spawning, broken, clients, procs, serving>>

JoinStart(c) ==
    /\ phase[c] = "root" /\ todo[c] # <<>>
    /\ LET k == Head(todo[c]) IN
        /\ ~Known(k)
        /\ spawning[k] # None
        /\ Wait(c, spawning[k])
    /\ UNCHANGED <<todo, start, spawning, broken, clients, procs, serving>>

\* Mutant of Start: a start that is under way is not seen.
StartAgain(c, n) ==
    /\ phase[c] = "root" /\ todo[c] # <<>>
    /\ LET k == Head(todo[c]) IN
        /\ ~Known(k)
        /\ start[n] = NoTask
        /\ start' = [start EXCEPT ![n] = [key |-> k, stage |-> "spawn"]]
        /\ spawning' = [spawning EXCEPT ![k] = n]
        /\ Wait(c, n)
    /\ UNCHANGED <<todo, broken, clients, procs, serving>>

Start(c, n) ==
    /\ phase[c] = "root" /\ todo[c] # <<>>
    /\ LET k == Head(todo[c]) IN
        /\ ~Known(k)
        /\ spawning[k] = None
        /\ start[n] = NoTask
        /\ start' = [start EXCEPT ![n] = [key |-> k, stage |-> "spawn"]]
        /\ spawning' = [spawning EXCEPT ![k] = n]
        /\ Wait(c, n)
    /\ UNCHANGED <<todo, broken, clients, procs, serving>>

Resume(c) ==
    /\ phase[c] = "wait"
    /\ start[awaits[c]].stage = "over"
    /\ todo' = [todo EXCEPT ![c] = Tail(@)]
    /\ phase' = [phase EXCEPT ![c] = "root"]
    /\ awaits' = [awaits EXCEPT ![c] = None]
    /\ UNCHANGED <<start, spawning, broken, clients, procs, serving>>

Return(c) ==
    /\ phase[c] = "root" /\ todo[c] = <<>>
    /\ phase' = [phase EXCEPT ![c] = "idle"]
    /\ UNCHANGED <<todo, awaits, start, spawning, broken, clients, procs, serving>>

----------------------------------------------------------------------------
(* schedule(): one task.                                                   *)

\* The task is over and its entry in s.spawning goes.
Over(n) ==
    /\ start' = [start EXCEPT ![n].stage = "over"]
    /\ spawning' = IF spawning[start[n].key] = n
                   THEN [spawning EXCEPT ![start[n].key] = None] ELSE spawning

Spawned(n) ==
    /\ start[n].stage = "spawn"
    /\ start' = [start EXCEPT ![n].stage = "create"]
    /\ procs' = procs \cup {n}
    /\ UNCHANGED <<callVars, spawning, broken, clients, serving>>

SpawnFails(n) ==
    /\ start[n].stage = "spawn"
    /\ broken' = broken \cup {start[n].key}
    /\ Over(n)
    /\ UNCHANGED <<callVars, clients, procs, serving>>

\* The client is stored, unless there is one by now.
Created(n) ==
    /\ start[n].stage = "create"
    /\ IF \E m \in clients : start[m].key = start[n].key
       THEN /\ start' = [start EXCEPT ![n].stage = "stop"]
            /\ UNCHANGED <<clients, spawning>>
       ELSE /\ clients' = clients \cup {n}
            /\ Over(n)
    /\ UNCHANGED <<callVars, broken, procs, serving>>

\* The client cannot be made, or does not answer in time.
CreateFails(n) ==
    /\ start[n].stage = "create"
    /\ broken' = broken \cup {start[n].key}
    /\ start' = [start EXCEPT ![n].stage = "stop"]
    /\ UNCHANGED <<callVars, spawning, clients, procs, serving>>

Stopped(n) ==
    /\ start[n].stage = "stop"
    /\ procs' = procs \ {n}
    /\ Over(n)
    /\ UNCHANGED <<callVars, broken, clients, serving>>

\* The instance is disposed: the stored clients are shut down.
Dispose ==
    /\ serving
    /\ serving' = FALSE
    /\ procs' = procs \ clients
    /\ UNCHANGED <<callVars, start, spawning, broken, clients>>

----------------------------------------------------------------------------

\* A root is found or not, a spawn and a creation come to an end one way or the
\* other: the latter after the time given to initialize at the latest.
CallerStep(c) == Skip(c) \/ JoinStart(c) \/ (\E n \in Tasks : Start(c, n)) \/ Resume(c) \/ Return(c)
TaskStep(n) == Spawned(n) \/ SpawnFails(n) \/ Created(n) \/ CreateFails(n) \/ Stopped(n)

Next ==
    \/ \E c \in Callers, h \in Handlers : Call(c, h)
    \/ \E c \in Callers : CallerStep(c)
    \/ \E n \in Tasks : TaskStep(n)
    \/ Dispose

Spec == Init /\ [][Next]_vars

----------------------------------------------------------------------------
(* Properties.                                                             *)

\* However many callers ask at once and however starts fail, a server runs at
\* most once per root; a process without a client is one that its task is still
\* working on; and a server that has failed once is not started again while the
\* instance lives.
OneServerPerRoot ==
    /\ \A m, n \in procs : start[m].key = start[n].key => m = n
    /\ serving => \A n \in procs : n \in clients \/ start[n].stage \in {"create", "stop"}
    /\ \A n \in Tasks : start[n].key \in broken => start[n].stage # "spawn"
=============================================================================
