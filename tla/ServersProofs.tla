--------------------------- MODULE ServersProofs ----------------------------
(***************************************************************************)
(* What holds of language servers, MCP servers and terminals, for every    *)
(* number of callers, starts, connections, processes, sessions, sockets    *)
(* and units of output, with the steps of one between any two of another.  *)
(***************************************************************************)
EXTENDS Services, Integers, SequenceTheorems, TLAPS

----------------------------------------------------------------------------
(* Language servers (Lsp): one process for a root.                         *)

LanguageBounds == Handlers \subseteq Seq(Keys) /\ Nil \notin Language!Tasks

Active(n) == start[n].stage \in {"spawn", "create", "stop"}

\* A start under way is the one that others would join.
StartIsKnown == \A n \in Language!Tasks : Active(n) => /\ start[n].key \in Keys
                                                       /\ spawning[start[n].key] = n

\* A stored client is the only one for its key, and nothing is started beside it.
ClientStandsAlone ==
    \A n \in clients : /\ start[n].stage = "over"
                       /\ \A m \in Language!Tasks : (m \in clients \/ Active(m)) /\ start[m].key = start[n].key
                                                    => m = n

ProcessHasOwner == \A n \in procs : n \in clients \/ start[n].stage \in {"create", "stop"}

BrokenStaysDown == \A n \in Language!Tasks : start[n].key \in broken => start[n].stage # "spawn"

LanguageIInv == Language!TypeOK /\ StartIsKnown /\ ClientStandsAlone /\ ProcessHasOwner /\ BrokenStaysDown

LEMMA LanguageInitInv == Language!Init => LanguageIInv
<1> SUFFICES ASSUME Language!Init PROVE LanguageIInv
  OBVIOUS
<1>1. /\ start = [n \in Language!Tasks |-> Language!NoTask] /\ clients = {} /\ procs = {} /\ broken = {}
      /\ \A n \in Language!Tasks : start[n].stage = "none"
  BY DEF Language!Init, Language!NoTask
<1>2. Language!TypeOK
  BY <1>1 DEF Language!Init, Language!TypeOK, Language!NoTask
<1> QED BY <1>1, <1>2 DEF LanguageIInv, StartIsKnown, ClientStandsAlone, ProcessHasOwner,
                          BrokenStaysDown, Active

\* What the starts need of a step of the callers: nothing.
LEMMA TasksUnchanged ==
  ASSUME LanguageIInv, UNCHANGED <<start, spawning, broken, clients, procs, serving>>,
         todo' \in [LspCallers -> Seq(Keys)], phase' \in [LspCallers -> {"idle", "root", "wait"}],
         awaits' \in [LspCallers -> Language!Tasks \cup {Nil}]
  PROVE  LanguageIInv'
<1>1. Language!TypeOK'
  BY DEF LanguageIInv, Language!TypeOK
<1>2. StartIsKnown' /\ ClientStandsAlone' /\ ProcessHasOwner' /\ BrokenStaysDown'
  BY DEF LanguageIInv, StartIsKnown, ClientStandsAlone, ProcessHasOwner, BrokenStaysDown, Active
<1> QED BY <1>1, <1>2 DEF LanguageIInv

LEMMA LanguageCallerInv ==
  ASSUME LanguageBounds, LanguageIInv, NEW c \in LspCallers,
         \/ \E h \in Handlers : Language!Call(c, h)
         \/ Language!Skip(c) \/ Language!JoinStart(c) \/ Language!Resume(c) \/ Language!Return(c)
  PROVE  LanguageIInv'
<1>1. Language!TypeOK /\ UNCHANGED <<start, spawning, broken, clients, procs, serving>>
  BY DEF LanguageIInv, Language!Call, Language!Skip, Language!JoinStart, Language!Resume, Language!Return
<1>2. todo' \in [LspCallers -> Seq(Keys)] /\ phase' \in [LspCallers -> {"idle", "root", "wait"}]
  <2>1. CASE \E h \in Handlers : Language!Call(c, h)
    BY <1>1, <2>1 DEF Language!TypeOK, Language!Call, LanguageBounds
  <2>2. CASE Language!Skip(c) \/ Language!Resume(c)
    <3>1. phase[c] \in {"root", "wait"} /\ phase' \in {phase, [phase EXCEPT ![c] = "root"]}
          /\ todo' = [todo EXCEPT ![c] = Tail(todo[c])]
      BY <2>2 DEF Language!Skip, Language!Resume
    <3>2. todo[c] \in Seq(Keys) /\ phase' \in [LspCallers -> {"idle", "root", "wait"}]
      BY <1>1, <3>1 DEF Language!TypeOK
    <3>3. Tail(todo[c]) \in Seq(Keys)
      <4>1. CASE todo[c] = <<>>
        BY <4>1
      <4>2. CASE todo[c] # <<>>
        BY <3>2, <4>2
      <4> QED BY <4>1, <4>2
    <3> QED BY <1>1, <3>1, <3>2, <3>3 DEF Language!TypeOK
  <2>3. CASE Language!JoinStart(c) \/ Language!Return(c)
    BY <1>1, <2>3 DEF Language!TypeOK, Language!JoinStart, Language!Return, Language!Wait
  <2> QED BY <2>1, <2>2, <2>3
<1>3. awaits' \in [LspCallers -> Language!Tasks \cup {Nil}]
  <2>1. CASE Language!JoinStart(c)
    <3>1. todo[c] \in Seq(Keys) /\ todo[c] # <<>>
      BY <1>1, <2>1 DEF Language!TypeOK, Language!JoinStart
    <3>2. Head(todo[c]) \in Keys
      BY <3>1
    <3> QED BY <1>1, <2>1, <3>2 DEF Language!TypeOK, Language!JoinStart, Language!Wait
  <2>2. CASE ~Language!JoinStart(c)
    BY <1>1, <2>2 DEF Language!TypeOK, Language!Call, Language!Skip, Language!Resume, Language!Return
  <2> QED BY <2>1, <2>2
<1> QED BY <1>1, <1>2, <1>3, TasksUnchanged

LEMMA LanguageStartInv ==
  ASSUME LanguageBounds, LanguageIInv, NEW c \in LspCallers, NEW n \in Language!Tasks, Language!Start(c, n)
  PROVE  LanguageIInv'
<1> DEFINE k == Head(todo[c])
<1>1. /\ todo[c] # <<>> /\ k \notin broken /\ \A m \in clients : start[m].key # k
      /\ spawning[k] = Nil /\ start[n] = Language!NoTask
      /\ start' = [start EXCEPT ![n] = [key |-> k, stage |-> "spawn"]]
      /\ spawning' = [spawning EXCEPT ![k] = n]
      /\ phase' = [phase EXCEPT ![c] = "wait"] /\ awaits' = [awaits EXCEPT ![c] = n]
      /\ UNCHANGED <<todo, broken, clients, procs, serving>>
  BY DEF Language!Start, Language!Known, Language!Wait
<1>2. Language!TypeOK /\ k \in Keys
  BY <1>1 DEF LanguageIInv, Language!TypeOK
<1>3. start[n].stage = "none"
  BY <1>1 DEF Language!NoTask
<1> HIDE DEF k
<1>4. /\ \A m \in Language!Tasks : m # n => start'[m] = start[m]
      /\ start'[n].key = k /\ start'[n].stage = "spawn"
      /\ \A j \in Keys : j # k => spawning'[j] = spawning[j]
      /\ spawning'[k] = n
  BY <1>1, <1>2 DEF Language!TypeOK
<1>5. Language!TypeOK'
  BY <1>1, <1>2 DEF Language!TypeOK
<1>6. StartIsKnown'
  <2> SUFFICES ASSUME NEW m \in Language!Tasks, Active(m)'
               PROVE  start'[m].key \in Keys /\ spawning'[start'[m].key] = m
    BY DEF StartIsKnown
  <2>1. CASE m = n
    BY <1>2, <1>4, <2>1
  <2>2. CASE m # n
    <3>1. Active(m)
      BY <1>4, <2>2 DEF Active
    <3>2. spawning[start[m].key] = m /\ start[m].key \in Keys
      BY <3>1 DEF LanguageIInv, StartIsKnown
    <3>3. start[m].key # k
      BY <1>1, <3>2 DEF LanguageBounds
    <3> QED BY <1>4, <2>2, <3>2, <3>3
  <2> QED BY <2>1, <2>2
<1>7. ClientStandsAlone' /\ ProcessHasOwner' /\ BrokenStaysDown'
  BY <1>1, <1>2, <1>3, <1>4 DEF LanguageIInv, Language!TypeOK, ClientStandsAlone, ProcessHasOwner, BrokenStaysDown,
                                Active
<1> QED BY <1>5, <1>6, <1>7 DEF LanguageIInv

\* The end of a task frees its key; nobody else's start is touched.
LEMMA OverKeeps ==
  ASSUME LanguageBounds, LanguageIInv, NEW n \in Language!Tasks, Active(n), Language!Over(n)
  PROVE  /\ start' \in [Language!Tasks -> [key : Keys \cup {Nil},
                                           stage : {"none", "spawn", "create", "stop", "over"}]]
         /\ spawning' \in [Keys -> Language!Tasks \cup {Nil}]
         /\ \A m \in Language!Tasks : m # n => start'[m] = start[m]
         /\ start'[n].key = start[n].key /\ start'[n].stage = "over"
         /\ StartIsKnown'
<1>1. /\ start' = [start EXCEPT ![n].stage = "over"]
      /\ start[n].key \in Keys /\ spawning[start[n].key] = n
      /\ spawning' = [spawning EXCEPT ![start[n].key] = Nil]
  BY DEF Language!Over, LanguageIInv, StartIsKnown
<1>2. Language!TypeOK
  BY DEF LanguageIInv
<1>3. /\ \A m \in Language!Tasks : m # n => start'[m] = start[m]
      /\ start'[n].key = start[n].key /\ start'[n].stage = "over"
      /\ \A j \in Keys : j # start[n].key => spawning'[j] = spawning[j]
  BY <1>1, <1>2 DEF Language!TypeOK
<1>4. StartIsKnown'
  <2> SUFFICES ASSUME NEW m \in Language!Tasks, Active(m)'
               PROVE  start'[m].key \in Keys /\ spawning'[start'[m].key] = m
    BY DEF StartIsKnown
  <2>1. m # n /\ Active(m)
    BY <1>3 DEF Active
  <2>2. start[m].key \in Keys /\ spawning[start[m].key] = m
    BY <2>1 DEF LanguageIInv, StartIsKnown
  <2> QED BY <1>1, <1>3, <2>1, <2>2
<1> QED BY <1>1, <1>2, <1>3, <1>4 DEF Language!TypeOK

\* Two starts under way are for different keys.
LEMMA OneStartPerKey ==
  ASSUME LanguageIInv, NEW m \in Language!Tasks, NEW n \in Language!Tasks, Active(m), Active(n), start[m].key = start[n].key
  PROVE  m = n
  BY DEF LanguageIInv, StartIsKnown

\* The stage of one start moves on while it is under way.
LEMMA StageMoves ==
  ASSUME LanguageIInv, NEW n \in Language!Tasks, Active(n), NEW s \in {"create", "stop"},
         start' = [start EXCEPT ![n].stage = s], spawning' = spawning
  PROVE  /\ start' \in [Language!Tasks -> [key : Keys \cup {Nil},
                                           stage : {"none", "spawn", "create", "stop", "over"}]]
         /\ \A m \in Language!Tasks : m # n => start'[m] = start[m]
         /\ start'[n].key = start[n].key /\ start'[n].stage = s
         /\ StartIsKnown'
<1>1. Language!TypeOK
  BY DEF LanguageIInv
<1>2. /\ \A m \in Language!Tasks : m # n => start'[m] = start[m]
      /\ start'[n].key = start[n].key /\ start'[n].stage = s
  BY <1>1 DEF Language!TypeOK
<1>3. StartIsKnown'
  BY <1>2 DEF LanguageIInv, StartIsKnown, Active
<1> QED BY <1>1, <1>2, <1>3 DEF Language!TypeOK

\* A start that moves on disturbs no stored client.
LEMMA AloneKept ==
  ASSUME LanguageIInv, NEW n \in Language!Tasks, Active(n), clients' = clients,
         \A m \in Language!Tasks : m # n => start'[m] = start[m],
         start'[n].key = start[n].key
  PROVE  ClientStandsAlone'
<1> SUFFICES ASSUME NEW c \in clients
             PROVE  /\ start'[c].stage = "over"
                    /\ \A m \in Language!Tasks : (m \in clients \/ Active(m)') /\ start'[m].key = start'[c].key
                                                 => m = c
  BY DEF ClientStandsAlone
<1>1. c \in Language!Tasks /\ start[c].stage = "over" /\ c # n
  BY DEF LanguageIInv, Language!TypeOK, ClientStandsAlone, Active
<1>2. start'[c] = start[c]
  BY <1>1
<1>3. ASSUME NEW m \in Language!Tasks, m \in clients \/ Active(m)', start'[m].key = start'[c].key
      PROVE  m = c
  <2>1. (m \in clients \/ Active(m)) /\ start[m].key = start[c].key
    BY <1>2, <1>3 DEF Active
  <2> QED BY <2>1 DEF LanguageIInv, ClientStandsAlone
<1> QED BY <1>1, <1>2, <1>3

LEMMA LanguageTaskInv ==
  ASSUME LanguageBounds, LanguageIInv, NEW n \in Language!Tasks, Language!TaskStep(n)
  PROVE  LanguageIInv'
<1>1. Language!TypeOK /\ Active(n) /\ UNCHANGED <<todo, phase, awaits, serving>>
  BY DEF LanguageIInv, Language!TaskStep, Language!Spawned, Language!SpawnFails, Language!Created, Language!CreateFails, Language!Stopped, Language!callVars, Active
<1>2. \A m \in Language!Tasks : Active(m) /\ start[m].key = start[n].key => m = n
  BY <1>1, OneStartPerKey
<1>3. CASE Language!Spawned(n)
  <2>1. /\ start[n].stage = "spawn" /\ start' = [start EXCEPT ![n].stage = "create"]
        /\ procs' = procs \cup {n} /\ UNCHANGED <<spawning, broken, clients>>
    BY <1>3 DEF Language!Spawned
  <2>2. Language!TypeOK' /\ StartIsKnown'
    BY <1>1, <2>1, StageMoves DEF Language!TypeOK
  <2>3. ClientStandsAlone' /\ ProcessHasOwner' /\ BrokenStaysDown'
    BY <1>1, <2>1, StageMoves DEF LanguageIInv, Language!TypeOK, ClientStandsAlone, ProcessHasOwner,
                                  BrokenStaysDown, Active
  <2> QED BY <2>2, <2>3 DEF LanguageIInv
<1>4. CASE Language!SpawnFails(n)
  <2>1. /\ start[n].stage = "spawn" /\ Language!Over(n) /\ broken' = broken \cup {start[n].key}
        /\ UNCHANGED <<clients, procs>>
    BY <1>4 DEF Language!SpawnFails
  <2>2. start[n].key \in Keys
    BY <1>1 DEF LanguageIInv, StartIsKnown
  <2>3. Language!TypeOK' /\ StartIsKnown'
    BY <1>1, <2>1, <2>2, OverKeeps DEF Language!TypeOK
  <2>4. BrokenStaysDown'
    BY <1>1, <1>2, <2>1, OverKeeps DEF LanguageIInv, BrokenStaysDown, Active
  <2>5. ClientStandsAlone'
    BY <1>1, <2>1, OverKeeps, AloneKept
  <2>6. ProcessHasOwner'
    <3>1. n \notin procs
      BY <2>1 DEF LanguageIInv, ProcessHasOwner, ClientStandsAlone
    <3>2. procs \subseteq Language!Tasks
      BY <1>1 DEF Language!TypeOK
    <3> QED BY <1>1, <2>1, <3>1, <3>2, OverKeeps DEF LanguageIInv, ProcessHasOwner
  <2> QED BY <2>3, <2>4, <2>5, <2>6 DEF LanguageIInv
<1>5. CASE Language!Created(n) /\ \E m \in clients : start[m].key = start[n].key
  <2>1. PICK m \in clients : start[m].key = start[n].key
    BY <1>5
  <2> QED BY <1>1, <2>1 DEF LanguageIInv, Language!TypeOK, ClientStandsAlone, Active
<1>6. CASE Language!Created(n) /\ \A m \in clients : start[m].key # start[n].key
  <2>1. Language!Over(n) /\ clients' = clients \cup {n} /\ UNCHANGED <<broken, procs>>
    BY <1>6 DEF Language!Created
  <2>2. Language!TypeOK' /\ StartIsKnown'
    BY <1>1, <2>1, OverKeeps DEF Language!TypeOK
  <2>3. ClientStandsAlone'
    BY <1>1, <1>2, <1>6, <2>1, OverKeeps DEF LanguageIInv, Language!TypeOK, ClientStandsAlone, Active
  <2>4. ProcessHasOwner' /\ BrokenStaysDown'
    BY <1>1, <2>1, OverKeeps DEF LanguageIInv, Language!TypeOK, ProcessHasOwner, BrokenStaysDown
  <2> QED BY <2>2, <2>3, <2>4 DEF LanguageIInv
<1>7. CASE Language!CreateFails(n)
  <2>1. /\ start[n].stage = "create" /\ start' = [start EXCEPT ![n].stage = "stop"]
        /\ broken' = broken \cup {start[n].key} /\ UNCHANGED <<spawning, clients, procs>>
    BY <1>7 DEF Language!CreateFails
  <2>2. start[n].key \in Keys
    BY <1>1 DEF LanguageIInv, StartIsKnown
  <2>3. Language!TypeOK' /\ StartIsKnown'
    BY <1>1, <2>1, <2>2, StageMoves DEF Language!TypeOK
  <2>4. BrokenStaysDown'
    BY <1>1, <1>2, <2>1, StageMoves DEF LanguageIInv, BrokenStaysDown, Active
  <2>5. ClientStandsAlone' /\ ProcessHasOwner'
    BY <1>1, <2>1, StageMoves DEF LanguageIInv, Language!TypeOK, ClientStandsAlone, ProcessHasOwner, Active
  <2> QED BY <2>3, <2>4, <2>5 DEF LanguageIInv
<1>8. CASE Language!Stopped(n)
  <2>1. Language!Over(n) /\ procs' = procs \ {n} /\ UNCHANGED <<broken, clients>>
    BY <1>8 DEF Language!Stopped
  <2>2. Language!TypeOK' /\ StartIsKnown'
    BY <1>1, <2>1, OverKeeps DEF Language!TypeOK
  <2>3. ClientStandsAlone'
    BY <1>1, <2>1, OverKeeps, AloneKept
  <2>4. ProcessHasOwner' /\ BrokenStaysDown'
    BY <1>1, <2>1, OverKeeps DEF LanguageIInv, Language!TypeOK, ProcessHasOwner, BrokenStaysDown
  <2> QED BY <2>2, <2>3, <2>4 DEF LanguageIInv
<1> QED BY <1>3, <1>4, <1>5, <1>6, <1>7, <1>8 DEF Language!TaskStep

LEMMA LanguageStepInv ==
  ASSUME LanguageBounds, LanguageIInv, [Language!Next]_(Language!vars)
  PROVE  LanguageIInv'
<1>1. CASE UNCHANGED Language!vars
  BY <1>1, TasksUnchanged DEF Language!vars, LanguageIInv, Language!TypeOK
<1>2. CASE \E c \in LspCallers, h \in Handlers : Language!Call(c, h)
  BY <1>2, LanguageCallerInv
<1>3. CASE \E c \in LspCallers : Language!CallerStep(c)
  BY <1>3, LanguageCallerInv, LanguageStartInv DEF Language!CallerStep
<1>4. CASE \E n \in Language!Tasks : Language!TaskStep(n)
  BY <1>4, LanguageTaskInv
<1>5. CASE Language!Dispose
  BY <1>5 DEF Language!Dispose, Language!callVars, LanguageIInv, Language!TypeOK, StartIsKnown, ClientStandsAlone, ProcessHasOwner,
              BrokenStaysDown, Active
<1> QED BY <1>1, <1>2, <1>3, <1>4, <1>5 DEF Language!Next

LEMMA LanguageInvGives == LanguageIInv => Language!TypeOK /\ Language!OneServerPerRoot
<1> SUFFICES ASSUME LanguageIInv PROVE Language!TypeOK /\ Language!OneServerPerRoot
  OBVIOUS
<1>1. ASSUME NEW m \in procs, NEW n \in procs, start[m].key = start[n].key
      PROVE  m = n
  <2>1. m \in Language!Tasks /\ n \in Language!Tasks /\ (m \in clients \/ Active(m)) /\ (n \in clients \/ Active(n))
    BY DEF LanguageIInv, Language!TypeOK, ProcessHasOwner, Active
  <2>2. CASE Active(m) /\ Active(n)
    BY <1>1, <2>1, <2>2, OneStartPerKey
  <2>3. CASE m \in clients \/ n \in clients
    BY <1>1, <2>1, <2>3 DEF LanguageIInv, ClientStandsAlone
  <2> QED BY <2>1, <2>2, <2>3
<1> QED BY <1>1 DEF LanguageIInv, ProcessHasOwner, BrokenStaysDown, Language!OneServerPerRoot

\* A step of the services is a step of this component or leaves it alone.
LEMMA LanguageMoves == [Next]_vars => [Language!Next]_(Language!vars)
  BY DEF Next, Others, vars, languageVars, Language!vars

LEMMA LanguageInvariant == Spec => []LanguageIInv
<1>0. LanguageBounds
  BY ComponentAssumptions DEF LanguageBounds, Language!ConstantAssumption, Language!Tasks
<1>1. Init => LanguageIInv
  BY ComponentAssumptions, LanguageInitInv, <1>0 DEF Init
<1>2. LanguageIInv /\ [Next]_vars => LanguageIInv'
  BY ComponentAssumptions, LanguageMoves, LanguageStepInv, <1>0
<1> QED BY <1>1, <1>2, PTL DEF Spec

\* No root has two processes of a language server, whoever opens, starts, fails
\* and stops at the same time.
THEOREM OneServerPerRootTheorem == Spec => []OneServerPerRoot
<1>1. LanguageIInv => OneServerPerRoot
  BY LanguageInvGives DEF OneServerPerRoot
<1>2. Spec => []LanguageIInv
  BY LanguageInvariant
<1> QED BY <1>1, <1>2, PTL

----------------------------------------------------------------------------
(* The clients of the MCP servers (McpClients).                            *)

\* A new client that waits to be stored is alive, is its caller's alone and is
\* not stored yet.
NewClients ==
    /\ \A c \in McpCallers :
        doing[c].at = "store" =>
            /\ doing[c].new \in Mcp!ClientIds \cap alive
            /\ doing[c].new # stored
    /\ \A c, d \in McpCallers :
        doing[c].at = "store" /\ doing[d].at = "store" /\ doing[c].new = doing[d].new => c = d

\* Whoever told the stored client to close will store another or forget it.
ClosedIsReplaced ==
    stored # Nil /\ stored \notin alive =>
        \E c \in McpCallers : doing[c].at \in {"store", "drop", "disconnect"}

McpNumbered ==
    /\ stored # Nil => stored <= connections
    /\ \A n \in alive : n <= connections

ToolsMatch == stored # Nil /\ offered # Nil => offered = stored

McpIInv == Mcp!TypeOK /\ NewClients /\ ClosedIsReplaced /\ McpNumbered /\ ToolsMatch

Ats == {"idle", "create", "authorize", "store", "drop", "disconnect"}

\* What a caller does is all that Go changes.
LEMMA GoMoves ==
  ASSUME Mcp!TypeOK, NEW c \in McpCallers, NEW at \in Ats, NEW n \in Mcp!ClientIds \cup {Nil},
         Mcp!Go(c, at, n)
  PROVE  /\ doing' \in [McpCallers -> [at : Ats, new : Mcp!ClientIds \cup {Nil}]]
         /\ doing'[c].at = at /\ doing'[c].new = n
         /\ \A d \in McpCallers : d # c => doing'[d] = doing[d]
  BY DEF Mcp!Go, Mcp!TypeOK, Ats

LEMMA NextId ==
  ASSUME MaxClients \in Nat, Mcp!TypeOK, connections < MaxClients
  PROVE  /\ connections + 1 \in Mcp!ClientIds
         /\ connections + 1 \in 0..MaxClients
  BY DEF Mcp!TypeOK, Mcp!ClientIds

LEMMA McpInitInv ==
  ASSUME MaxClients \in Nat, Nil \notin Nat, Mcp!Init
  PROVE  McpIInv
  BY DEF Mcp!Init, McpIInv, Mcp!TypeOK, Mcp!Idle, NewClients, ClosedIsReplaced, McpNumbered, ToolsMatch

LEMMA McpStepInv ==
  ASSUME MaxClients \in Nat, Nil \notin Nat, McpIInv, [Mcp!Next]_(Mcp!vars)
  PROVE  McpIInv'
<1> USE DEF McpIInv
<1>1. CASE UNCHANGED Mcp!vars
  BY <1>1 DEF Mcp!vars, Mcp!TypeOK, NewClients, ClosedIsReplaced, McpNumbered, ToolsMatch
<1>2. ASSUME NEW c \in McpCallers, Mcp!Connect(c) \/ Mcp!Authenticate(c) \/ Mcp!AuthorizationFails(c)
      PROVE  McpIInv'
  <2>1. PICK at \in {"create", "authorize", "idle"} : Mcp!Go(c, at, Nil)
    BY <1>2 DEF Mcp!Connect, Mcp!Authenticate, Mcp!AuthorizationFails
  <2>2. /\ UNCHANGED <<stored, offered, reported, connections, alive, watched, listing>>
        /\ doing[c].at \in {"idle", "authorize"}
    BY <1>2 DEF Mcp!Connect, Mcp!Authenticate, Mcp!AuthorizationFails
  <2>3. Mcp!TypeOK'
    BY <2>1, <2>2, GoMoves DEF Mcp!TypeOK, Ats
  <2> QED BY <2>1, <2>2, <2>3, GoMoves
          DEF Ats, NewClients, ClosedIsReplaced, McpNumbered, ToolsMatch
<1>3. ASSUME NEW c \in McpCallers, Mcp!Connected(c) PROVE McpIInv'
  <2> DEFINE n == connections + 1
  <2>1. n \in Mcp!ClientIds /\ n \in 0..MaxClients
    BY <1>3, NextId DEF Mcp!Connected
  <2>2. /\ doing[c].at \in {"create", "authorize"} /\ connections' = n
        /\ listing' = listing /\ connections \in Nat /\ n \in Nat /\ connections < n
    BY <1>3, <2>1 DEF Mcp!Connected, Mcp!TypeOK
  <2>3. CASE /\ stored = Nil /\ Mcp!Store(n) /\ offered' = n
             /\ alive' = alive \cup {n} /\ Mcp!Go(c, "idle", Nil)
    <3>1. Mcp!TypeOK'
      BY <2>1, <2>2, <2>3, GoMoves DEF Mcp!TypeOK, Ats, Mcp!Store
    <3>2. NewClients'
      BY <2>1, <2>2, <2>3, GoMoves DEF Ats, NewClients, McpNumbered, Mcp!Store, Mcp!TypeOK
    <3>3. McpNumbered'
      BY <2>1, <2>2, <2>3 DEF McpNumbered, Mcp!Store, Mcp!TypeOK, Mcp!ClientIds
    <3> QED BY <2>2, <2>3, <3>1, <3>2, <3>3 DEF ClosedIsReplaced, ToolsMatch, Mcp!Store
  <2>4. CASE /\ stored # Nil /\ offered' = Nil
             /\ alive' = (alive \ {stored}) \cup {n}
             /\ reported' = (IF doing[c].at = "create" THEN "connected" ELSE reported)
             /\ Mcp!Go(c, "store", n) /\ UNCHANGED <<stored, watched>>
    <3>1. Mcp!TypeOK'
      BY <2>1, <2>2, <2>4, GoMoves DEF Mcp!TypeOK, Ats
    <3>2. stored # n /\ \A m \in alive : m # n
      BY <2>1, <2>2, <2>4 DEF McpNumbered, Mcp!TypeOK, Mcp!ClientIds
    <3>3. NewClients'
      BY <2>1, <2>2, <2>4, <3>2, GoMoves DEF Ats, NewClients
    <3>4. McpNumbered'
      BY <2>1, <2>2, <2>4 DEF McpNumbered, Mcp!TypeOK, Mcp!ClientIds
    <3> QED BY <2>1, <2>2, <2>4, <3>1, <3>3, <3>4, GoMoves
            DEF ClosedIsReplaced, ToolsMatch, Ats
  <2> QED BY <1>3, <2>3, <2>4 DEF Mcp!Connected
<1>4. ASSUME NEW c \in McpCallers, Mcp!Stored(c) PROVE McpIInv'
  <2> DEFINE n == doing[c].new
  <2>1. n \in Mcp!ClientIds \cap alive /\ doing[c].at = "store"
    BY <1>4 DEF Mcp!Stored, NewClients
  <2>2. /\ Mcp!Store(n) /\ offered' = n /\ Mcp!Go(c, "idle", Nil)
        /\ UNCHANGED <<connections, alive, listing>>
    BY <1>4 DEF Mcp!Stored
  <2>3. Mcp!TypeOK'
    BY <2>1, <2>2, GoMoves DEF Mcp!TypeOK, Ats, Mcp!Store
  <2>4. NewClients'
    BY <2>1, <2>2, GoMoves DEF Ats, NewClients, Mcp!Store
  <2> QED BY <2>1, <2>2, <2>3, <2>4 DEF ClosedIsReplaced, McpNumbered, ToolsMatch, Mcp!Store
<1>5. ASSUME NEW c \in McpCallers, NEW why \in {"failed", "disabled"}, Mcp!ConnectFails(c, why)
      PROVE  McpIInv'
  <2>1. PICK at \in {"idle", "drop"} : Mcp!Go(c, at, Nil) /\ (stored # Nil => at = "drop")
    BY <1>5 DEF Mcp!ConnectFails
  <2>2. /\ Mcp!CloseBegins /\ reported' = why /\ doing[c].at = "create"
        /\ UNCHANGED <<stored, connections, watched, listing>>
    BY <1>5 DEF Mcp!ConnectFails
  <2>3. Mcp!TypeOK'
    BY <2>1, <2>2, GoMoves DEF Mcp!TypeOK, Ats, Mcp!CloseBegins
  <2> QED BY <2>1, <2>2, <2>3, GoMoves
          DEF Ats, NewClients, ClosedIsReplaced, McpNumbered, ToolsMatch, Mcp!CloseBegins
<1>6. ASSUME NEW c \in McpCallers, Mcp!Disconnect(c) PROVE McpIInv'
  <2>1. /\ Mcp!CloseBegins /\ doing[c].at = "idle"
        /\ UNCHANGED <<stored, connections, watched, listing>>
        /\ reported' \in {reported, "disabled"}
    BY <1>6 DEF Mcp!Disconnect
  <2>2. CASE stored = Nil /\ UNCHANGED doing
    BY <2>1, <2>2 DEF Mcp!TypeOK, NewClients, ClosedIsReplaced, McpNumbered, ToolsMatch, Mcp!CloseBegins
  <2>3. CASE stored # Nil /\ Mcp!Go(c, "disconnect", Nil)
    <3>1. Mcp!TypeOK'
      BY <2>1, <2>3, GoMoves DEF Mcp!TypeOK, Ats, Mcp!CloseBegins
    <3> QED BY <2>1, <2>3, <3>1, GoMoves
            DEF Ats, NewClients, ClosedIsReplaced, McpNumbered, ToolsMatch, Mcp!CloseBegins
  <2> QED BY <1>6, <2>2, <2>3 DEF Mcp!Disconnect
<1>7. ASSUME NEW c \in McpCallers, Mcp!Dropped(c) PROVE McpIInv'
  <2>1. /\ doing[c].at \in {"drop", "disconnect"} /\ stored' = Nil
        /\ reported' \in {reported, "disabled"} /\ Mcp!Go(c, "idle", Nil)
        /\ UNCHANGED <<offered, connections, alive, watched, listing>>
    BY <1>7 DEF Mcp!Dropped
  <2>2. Mcp!TypeOK'
    BY <2>1, GoMoves DEF Mcp!TypeOK, Ats
  <2>3. Nil \notin Mcp!ClientIds
    BY DEF Mcp!ClientIds
  <2>4. NewClients'
    BY <2>1, <2>3, GoMoves DEF Ats, NewClients
  <2> QED BY <2>1, <2>2, <2>4 DEF ClosedIsReplaced, McpNumbered, ToolsMatch
<1>8. ASSUME NEW n \in Mcp!ClientIds, Mcp!ToolsChanged(n) \/ Mcp!ToolsListed(n) PROVE McpIInv'
  <2>1. /\ UNCHANGED <<stored, reported, connections, alive, doing, watched>>
        /\ listing' \in SUBSET Mcp!ClientIds
        /\ offered' = offered \/ (offered' = n /\ stored = n)
    BY <1>8 DEF Mcp!ToolsChanged, Mcp!ToolsListed, Mcp!Current, Mcp!TypeOK
  <2> QED BY <2>1 DEF Mcp!TypeOK, NewClients, ClosedIsReplaced, McpNumbered, ToolsMatch
<1> HIDE DEF McpIInv
<1> QED BY <1>1, <1>2, <1>3, <1>4, <1>5, <1>6, <1>7, <1>8 DEF Mcp!Next

LEMMA McpInvGives == McpIInv => Mcp!TypeOK /\ Mcp!ToolsBelongToClient
  BY DEF McpIInv, ToolsMatch, ClosedIsReplaced, Mcp!ToolsBelongToClient, Mcp!Quiet

\* A step of the services is a step of this component or leaves it alone.
LEMMA McpMoves == [Next]_vars => [Mcp!Next]_(Mcp!vars)
  BY DEF Next, Others, vars, mcpVars, Mcp!vars

LEMMA McpInvariant == Spec => []McpIInv
<1>0. MaxClients \in Nat /\ Nil \notin Nat
  BY ComponentAssumptions DEF Mcp!ConstantAssumption
<1>1. Init => McpIInv
  BY ComponentAssumptions, McpInitInv, <1>0 DEF Init
<1>2. McpIInv /\ [Next]_vars => McpIInv'
  BY ComponentAssumptions, McpMoves, McpStepInv, <1>0
<1> QED BY <1>1, <1>2, PTL DEF Spec

\* The tools on offer are those of the client that would be called.
THEOREM ToolsBelongToClientTheorem == Spec => []ToolsBelongToClient
<1>1. McpIInv => ToolsBelongToClient
  BY McpInvGives DEF ToolsBelongToClient
<1>2. Spec => []McpIInv
  BY McpInvariant
<1> QED BY <1>1, <1>2, PTL

----------------------------------------------------------------------------
(* The start of the MCP servers (McpManager): who has taken the lock       *)
(* unrivalled keeps the others out.                                        *)

\* A session that took the lock unrivalled belongs to a process that is alive and
\* named in the lock file; whoever looks at the lock has found that process in it,
\* and nobody is about to take the lock.
LockIsKept ==
    \A p \in Procs, s \in ProcSessions : session[p][s] = "connecting" =>
        /\ mutex = p /\ up[p] = "up"
        /\ \A q \in Procs :
            /\ taking[q].call \notin {"unlink", "write"}
            /\ taking[q].call = "kill" => taking[q].pid = p

\* Who is in acquireLock is alive.
InsideIsUp == \A p \in Procs : taking[p].call # "out" => up[p] = "up"

StarterIInv == Starter!TypeOK /\ LockIsKept /\ InsideIsUp

\* Every variable keeps its type.
LEMMA StarterTypeStep == Starter!TypeOK /\ [Starter!Next]_(Starter!vars) => Starter!TypeOK'
<1> SUFFICES ASSUME Starter!TypeOK, [Starter!Next]_(Starter!vars) PROVE Starter!TypeOK'
  OBVIOUS
<1> USE DEF Starter!TypeOK, Starter!Calls, Starter!Out, Starter!GoesOn, Starter!Refused
<1>1. CASE UNCHANGED Starter!vars
  BY <1>1 DEF Starter!vars
<1>2. ASSUME NEW p \in Procs, Starter!ProcessStarts(p) \/ Starter!ProcessEnds(p)
      PROVE  Starter!TypeOK'
  <2>1. CASE Starter!ProcessStarts(p)
    BY <2>1 DEF Starter!ProcessStarts
  <2>2. CASE Starter!ProcessEnds(p)
    BY <2>2 DEF Starter!ProcessEnds
  <2> QED BY <1>2, <2>1, <2>2
<1>3. ASSUME NEW p \in Procs, NEW s \in ProcSessions,
             Starter!SkippedAsRunning(p, s) \/ Starter!NotRunning(p, s)
      PROVE  Starter!TypeOK'
  BY <1>3 DEF Starter!SkippedAsRunning, Starter!NotRunning
<1>4. ASSUME NEW p \in Procs, Starter!LockExists(p) \/ Starter!LockKill(p) \/ Starter!LockUnlink(p)
      PROVE  Starter!TypeOK'
  <2>1. CASE Starter!LockExists(p)
    BY <2>1 DEF Starter!LockExists
  <2>2. CASE Starter!LockKill(p)
    <3>1. CASE Starter!Refused(p)
      BY <2>2, <3>1 DEF Starter!LockKill
    <3>2. CASE Starter!GoesOn(p, "unlink")
      BY <2>2, <3>2 DEF Starter!LockKill
    <3> QED BY <2>2, <3>1, <3>2 DEF Starter!LockKill
  <2>3. CASE Starter!LockUnlink(p)
    <3>1. CASE Starter!Refused(p)
      BY <2>3, <3>1 DEF Starter!LockUnlink
    <3>2. CASE Starter!GoesOn(p, "write")
      BY <2>3, <3>2 DEF Starter!LockUnlink
    <3> QED BY <2>3, <3>1, <3>2 DEF Starter!LockUnlink
  <2> QED BY <1>4, <2>1, <2>2, <2>3
<1>5. ASSUME NEW p \in Procs, Starter!LockRead(p) PROVE Starter!TypeOK'
  BY <1>5 DEF Starter!LockRead
<1>6. ASSUME NEW p \in Procs, Starter!LockWrite(p) PROVE Starter!TypeOK'
  BY <1>6 DEF Starter!LockWrite
<1>7. ASSUME NEW p \in Procs, NEW s \in ProcSessions, NEW ok \in BOOLEAN,
             Starter!ConnectReturns(p, s, ok) \/ Starter!ConnectAbandoned(p, s)
      PROVE  Starter!TypeOK'
  BY <1>7 DEF Starter!ConnectReturns, Starter!ConnectAbandoned
<1> QED BY <1>1, <1>2, <1>3, <1>4, <1>5, <1>6, <1>7 DEF Starter!Next

\* Every step of every process leaves the lock with who has it.
LEMMA StarterKeepsStep ==
  ASSUME Nil \notin Procs, StarterIInv, Starter!TypeOK', [Starter!Next]_(Starter!vars)
  PROVE  LockIsKept'
<1> USE DEF StarterIInv, Starter!TypeOK, LockIsKept, InsideIsUp, Starter!Out, Starter!GoesOn, Starter!Refused
<1>1. CASE UNCHANGED Starter!vars
  BY <1>1 DEF Starter!vars
<1>2. ASSUME NEW p \in Procs, Starter!ProcessStarts(p) PROVE LockIsKept'
  BY <1>2 DEF Starter!ProcessStarts
<1>3. ASSUME NEW p \in Procs, Starter!ProcessEnds(p) PROVE LockIsKept'
  BY <1>3 DEF Starter!ProcessEnds
<1>4. ASSUME NEW p \in Procs, NEW s \in ProcSessions,
             Starter!SkippedAsRunning(p, s) \/ Starter!NotRunning(p, s)
      PROVE  LockIsKept'
  BY <1>4 DEF Starter!SkippedAsRunning, Starter!NotRunning, Starter!Calls
<1>5. ASSUME NEW p \in Procs, Starter!LockExists(p) PROVE LockIsKept'
  BY <1>5 DEF Starter!LockExists, Starter!Calls
<1>6. ASSUME NEW p \in Procs, Starter!LockRead(p) PROVE LockIsKept'
  BY <1>6 DEF Starter!LockRead, Starter!Calls
<1>7. ASSUME NEW p \in Procs, Starter!LockKill(p) PROVE LockIsKept'
  <2> SUFFICES ASSUME NEW q \in Procs, NEW t \in ProcSessions, session[q][t] = "connecting"
               PROVE  taking'[p].call \notin {"unlink", "write", "kill"}
    BY <1>7 DEF Starter!LockKill
  <2>1. taking[p].pid = q /\ up[q] = "up"
    BY <1>7 DEF Starter!LockKill
  <2>2. Starter!Alive(taking[p].pid)
    BY <2>1 DEF Starter!Alive
  <2> QED BY <1>7, <2>2 DEF Starter!LockKill
<1>8. ASSUME NEW p \in Procs, Starter!LockUnlink(p) PROVE LockIsKept'
  BY <1>8 DEF Starter!LockUnlink, Starter!Calls
<1>9. ASSUME NEW p \in Procs, Starter!LockWrite(p) PROVE LockIsKept'
  <2>1. \A q \in Procs, t \in ProcSessions : session[q][t] # "connecting"
    BY <1>9 DEF Starter!LockWrite
  <2> SUFFICES ASSUME NEW q \in Procs, NEW t \in ProcSessions, session'[q][t] = "connecting"
               PROVE  /\ mutex' = q /\ up'[q] = "up"
                      /\ \A r \in Procs : taking'[r].call \notin {"unlink", "write", "kill"}
    OBVIOUS
  <2>2. q = p
    BY <1>9, <2>1 DEF Starter!LockWrite
  <2>3. \A r \in Procs \ {p} : ~Starter!Halfway(r)
    BY <1>9, <2>1, <2>2 DEF Starter!LockWrite
  <2> QED BY <1>9, <2>2, <2>3 DEF Starter!LockWrite, Starter!Halfway
<1>10. ASSUME NEW p \in Procs, NEW s \in ProcSessions, NEW ok \in BOOLEAN,
              Starter!ConnectReturns(p, s, ok)
       PROVE  LockIsKept'
  BY <1>10 DEF Starter!ConnectReturns
<1>11. ASSUME NEW p \in Procs, NEW s \in ProcSessions, Starter!ConnectAbandoned(p, s)
       PROVE  LockIsKept'
  BY <1>11 DEF Starter!ConnectAbandoned
<1> QED BY <1>1, <1>2, <1>3, <1>4, <1>5, <1>6, <1>7, <1>8, <1>9, <1>10, <1>11 DEF Starter!Next

LEMMA StarterInsideStep ==
  Starter!TypeOK /\ InsideIsUp /\ [Starter!Next]_(Starter!vars) => InsideIsUp'
<1> SUFFICES ASSUME Starter!TypeOK, InsideIsUp, [Starter!Next]_(Starter!vars) PROVE InsideIsUp'
  OBVIOUS
<1> USE DEF Starter!TypeOK, InsideIsUp, Starter!Out, Starter!GoesOn, Starter!Refused
<1>1. CASE UNCHANGED Starter!vars
  BY <1>1 DEF Starter!vars
<1>2. ASSUME NEW p \in Procs, Starter!ProcessStarts(p) \/ Starter!ProcessEnds(p)
      PROVE  InsideIsUp'
  BY <1>2 DEF Starter!ProcessStarts, Starter!ProcessEnds
<1>3. ASSUME NEW p \in Procs, NEW s \in ProcSessions,
             Starter!SkippedAsRunning(p, s) \/ Starter!NotRunning(p, s)
      PROVE  InsideIsUp'
  BY <1>3 DEF Starter!SkippedAsRunning, Starter!NotRunning, Starter!Ready
<1>4. ASSUME NEW p \in Procs,
             \/ Starter!LockExists(p) \/ Starter!LockRead(p) \/ Starter!LockKill(p)
             \/ Starter!LockUnlink(p) \/ Starter!LockWrite(p)
      PROVE  InsideIsUp'
  BY <1>4 DEF Starter!LockExists, Starter!LockRead, Starter!LockKill, Starter!LockUnlink,
              Starter!LockWrite
<1>5. ASSUME NEW p \in Procs, NEW s \in ProcSessions, NEW ok \in BOOLEAN,
             Starter!ConnectReturns(p, s, ok) \/ Starter!ConnectAbandoned(p, s)
      PROVE  InsideIsUp'
  <2>1. up' = up /\ taking' = taking
    BY <1>5 DEF Starter!ConnectReturns, Starter!ConnectAbandoned
  <2> QED BY <2>1
<1> HIDE DEF Starter!TypeOK, InsideIsUp, Starter!Out, Starter!GoesOn, Starter!Refused
<1> QED BY <1>1, <1>2, <1>3, <1>4, <1>5 DEF Starter!Next

LEMMA StarterInitInv == Starter!Init => StarterIInv
  BY DEF Starter!Init, StarterIInv, Starter!TypeOK, LockIsKept, InsideIsUp, Starter!Calls,
         Starter!Out

LEMMA StarterStepInv ==
  Starter!ConstantAssumption /\ StarterIInv /\ [Starter!Next]_(Starter!vars) => StarterIInv'
<1>1. ASSUME StarterIInv, [Starter!Next]_(Starter!vars) PROVE Starter!TypeOK'
  BY <1>1, StarterTypeStep DEF StarterIInv
<1> QED BY <1>1, StarterKeepsStep, StarterInsideStep DEF StarterIInv, Starter!ConstantAssumption

\* What may happen next to a session that took the lock unrivalled: nobody else
\* begins to connect.
KeepsOthersOut ==
    \A p \in Procs, s \in ProcSessions :
        session[p][s] = "connecting" /\ session'[p][s] = "connecting" =>
            \A q \in Procs, t \in ProcSessions : Starter!Connects(q, t)' => Starter!Connects(q, t)

LEMMA KeepsOthersOutStep ==
  ASSUME StarterIInv, [Starter!Next]_(Starter!vars)
  PROVE  KeepsOthersOut
<1> SUFFICES ASSUME NEW p \in Procs, NEW s \in ProcSessions, session[p][s] = "connecting",
                    NEW q \in Procs, NEW t \in ProcSessions, Starter!Connects(q, t)'
             PROVE  Starter!Connects(q, t)
  BY DEF KeepsOthersOut
<1> USE DEF StarterIInv, Starter!TypeOK, LockIsKept, Starter!Connects
<1>1. \A r \in Procs : ~Starter!LockWrite(r)
  BY DEF Starter!LockWrite
<1>2. CASE UNCHANGED session
  BY <1>2
<1>3. ASSUME NEW r \in Procs, Starter!ProcessEnds(r) PROVE Starter!Connects(q, t)
  BY <1>3 DEF Starter!ProcessEnds
<1>4. ASSUME NEW r \in Procs, NEW x \in ProcSessions, NEW ok \in BOOLEAN,
             Starter!ConnectReturns(r, x, ok) \/ Starter!ConnectAbandoned(r, x)
      PROVE  Starter!Connects(q, t)
  BY <1>4 DEF Starter!ConnectReturns, Starter!ConnectAbandoned
<1>5. ASSUME NEW r \in Procs,
             \/ Starter!ProcessStarts(r) \/ Starter!LockExists(r) \/ Starter!LockRead(r)
             \/ Starter!LockKill(r) \/ Starter!LockUnlink(r)
      PROVE  Starter!Connects(q, t)
  <2>1. UNCHANGED session
    BY <1>5 DEF Starter!ProcessStarts, Starter!LockExists, Starter!LockRead, Starter!LockKill,
                Starter!LockUnlink
  <2> QED BY <1>2, <2>1
<1>6. ASSUME NEW r \in Procs, NEW x \in ProcSessions,
             Starter!SkippedAsRunning(r, x) \/ Starter!NotRunning(r, x)
      PROVE  Starter!Connects(q, t)
  <2>1. UNCHANGED session
    BY <1>6 DEF Starter!SkippedAsRunning, Starter!NotRunning
  <2> QED BY <1>2, <2>1
<1>7. CASE UNCHANGED Starter!vars
  BY <1>2, <1>7 DEF Starter!vars
<1> HIDE DEF StarterIInv, Starter!TypeOK, LockIsKept, Starter!Connects
<1> QED BY <1>1, <1>3, <1>4, <1>5, <1>6, <1>7 DEF Starter!Next

\* A step of the services is a step of this component or leaves it alone.
LEMMA StarterMoves == [Next]_vars => [Starter!Next]_(Starter!vars)
  BY DEF Next, Others, vars, starterVars, Starter!vars

LEMMA StarterInvariant == Spec => []StarterIInv
<1>1. Init => StarterIInv
  BY StarterInitInv DEF Init
<1>2. StarterIInv /\ [Next]_vars => StarterIInv'
  BY ComponentAssumptions, StarterMoves, StarterStepInv
<1> QED BY <1>1, <1>2, PTL DEF Spec

\* A session that took the start lock while no other process was halfway through
\* acquireLock keeps every other session from starting the server, whatever the
\* processes are, however their calls interleave and wherever they die.
THEOREM LockKeepsOthersOutTheorem == Spec => LockKeepsOthersOut
<1>1. StarterIInv /\ [Next]_vars => [KeepsOthersOut]_(Starter!vars)
  BY StarterMoves, KeepsOthersOutStep
<1>2. Spec => []StarterIInv
  BY StarterInvariant
<1> QED
  BY <1>1, <1>2, PTL DEF Spec, LockKeepsOthersOut, Starter!LockKeepsOthersOut, KeepsOthersOut

----------------------------------------------------------------------------
(* Terminals (Pty): a client is sent its terminal's output, once and in     *)
(* order.                                                                  *)

Units == Terms \X (1..MaxOut)

\* The units of s are those of the terminal t that follow the first n.
Follows(s, t, n) == \A i \in 1..Len(s) : s[i] = <<t, n + i>>

ClientsTyped ==
    client \in [Conns -> [term : Terms \cup {Nil}, from : 0..MaxOut, got : Seq(Units),
                          told : (0..MaxOut) \cup {Nil}]]

\* The buffer is the end of the output, cut only when it is full.
BuffersExact ==
    \A t \in Terms : /\ bufferCursor[t] + Len(buffer[t]) = cursor[t]
                     /\ Follows(buffer[t], t, bufferCursor[t])
                     /\ bufferCursor[t] > 0 => Len(buffer[t]) = Limit

\* A connection is registered with its own terminal only, and one socket serves it.
Registered ==
    /\ \A t \in Terms, k \in Conns : subscribers[t][k] # Nil => client[k].term = t
    /\ \A v, w \in Socks : serves[v] # Nil /\ serves[v] = serves[w] => v = w

Connected(k) == Screen!Watching(k, client[k].term)

\* What was sent begins after the first n units.
SentAfter(k, n) ==
    /\ Follows(client[k].got, client[k].term, n)
    /\ client[k].got = <<>> => n = client[k].told
    /\ client[k].told \in 0..cursor[client[k].term] /\ n <= client[k].told
    /\ \/ n = client[k].told \/ n = client[k].from
       \/ n > client[k].from /\ client[k].told - n = Limit
    /\ n = client[k].told => client[k].from >= client[k].told
    /\ Connected(k) => n + Len(client[k].got) = cursor[client[k].term]

SentExactly == \A k \in Conns : client[k].term # Nil => \E n \in 0..MaxOut : SentAfter(k, n)

\* The client c after one more chunk.
More(c, chunk) == [c EXCEPT !.got = @ \o chunk]

ScreenIInv == Screen!TypeOK /\ ClientsTyped /\ BuffersExact /\ Registered /\ SentExactly

LEMMA FollowsConcat ==
  ASSUME NEW s \in Seq(Units), NEW r \in Seq(Units), NEW t, NEW n \in Nat,
         Follows(s, t, n), Follows(r, t, n + Len(s))
  PROVE  s \o r \in Seq(Units) /\ Len(s \o r) = Len(s) + Len(r) /\ Follows(s \o r, t, n)
<1>1. /\ s \o r \in Seq(Units) /\ Len(s \o r) = Len(s) + Len(r)
      /\ \A i \in 1..Len(s) + Len(r) : (s \o r)[i] = IF i <= Len(s) THEN s[i] ELSE r[i - Len(s)]
  BY ConcatProperties
<1>2. PICK l \in Nat, m \in Nat : l = Len(s) /\ m = Len(r)
  OBVIOUS
<1>3. PICK u : u = s \o r
  OBVIOUS
<1>4. ASSUME NEW i \in 1..l + m PROVE u[i] = <<t, n + i>>
  <2>1. CASE i <= l
    <3>1. i \in 1..l
      BY <1>2, <2>1
    <3> QED BY <1>1, <1>2, <1>3, <2>1, <3>1 DEF Follows
  <2>2. CASE ~(i <= l)
    <3>1. i - l \in 1..m /\ n + l + (i - l) = n + i
      BY <1>2, <2>2
    <3>2. u[i] = r[i - l] /\ r[i - l] = <<t, n + l + (i - l)>>
      BY <1>1, <1>2, <1>3, <2>2, <3>1 DEF Follows
    <3> QED BY <3>1, <3>2
  <2> QED BY <2>1, <2>2
<1> QED BY <1>1, <1>2, <1>3, <1>4 DEF Follows

LEMMA FollowsCut ==
  ASSUME NEW s \in Seq(Units), NEW t, NEW n \in Nat, NEW k \in 0..Len(s), Follows(s, t, n)
  PROVE  /\ SubSeq(s, k + 1, Len(s)) \in Seq(Units)
         /\ Len(SubSeq(s, k + 1, Len(s))) = Len(s) - k
         /\ Follows(SubSeq(s, k + 1, Len(s)), t, n + k)
<1>1. PICK l \in Nat : l = Len(s)
  OBVIOUS
<1>2. PICK b : b = SubSeq(s, k + 1, l)
  OBVIOUS
<1>3. k \in Nat /\ k <= l /\ k + 1 \in Int /\ l \in Int /\ \A i \in k + 1..l : i \in 1..l /\ s[i] \in Units
  BY <1>1
<1>4. /\ (IF k + 1 <= l THEN l - (k + 1) + 1 ELSE 0) = l - k /\ l - (k + 1) + 1 = l - k
      /\ \A i \in 1..l - k : k + i \in 1..l /\ k + 1 + i - 1 = k + i /\ n + (k + i) = (n + k) + i
  BY <1>3
<1>5. /\ b \in Seq(Units) /\ Len(b) = IF k + 1 <= l THEN l - (k + 1) + 1 ELSE 0
      /\ \A i \in 1..l - (k + 1) + 1 : b[i] = s[k + 1 + i - 1]
  BY <1>1, <1>2, <1>3, SubSeqProperties
<1>6. Len(b) = l - k /\ \A i \in 1..l - k : b[i] = s[k + i]
  BY <1>4, <1>5
<1>7. \A i \in 1..l - k : b[i] = <<t, (n + k) + i>>
  BY <1>1, <1>4, <1>6 DEF Follows
<1> QED BY <1>1, <1>2, <1>5, <1>6, <1>7 DEF Follows

LEMMA ScreenInitInv == Screen!ConstantAssumption /\ Screen!Init => ScreenIInv
<1> SUFFICES ASSUME Screen!ConstantAssumption, Screen!Init PROVE ScreenIInv
  OBVIOUS
<1>1. <<>> \in Seq(Units) /\ Len(<<>>) = 0 /\ 0 \in 0..MaxOut /\ 0 <= Limit /\ <<>> \in Seq(Terms \X (1..MaxOut))
  BY DEF Screen!ConstantAssumption
<1>2. Screen!TypeOK
  BY <1>1 DEF Screen!Init, Screen!TypeOK
<1>3. ClientsTyped /\ \A k \in Conns : client[k].term = Nil
  BY <1>1 DEF Screen!Init, Screen!NoConn, ClientsTyped
<1>4. BuffersExact /\ Registered
  BY <1>1 DEF Screen!Init, BuffersExact, Registered, Follows
<1> QED BY <1>2, <1>3, <1>4 DEF ScreenIInv, SentExactly

\* Who is sent nothing, and is not connected anew, is sent what it should be.
LEMMA SentStays ==
  ASSUME NEW k \in Conns, SentExactly, client'[k] = client[k], client[k].term # Nil,
         cursor'[client[k].term] \in Nat, cursor[client[k].term] \in Nat,
         cursor'[client[k].term] >= cursor[client[k].term],
         Connected(k)' => Connected(k) /\ cursor'[client[k].term] = cursor[client[k].term]
  PROVE  \E n \in 0..MaxOut : SentAfter(k, n)'
<1>1. PICK n \in 0..MaxOut : SentAfter(k, n)
  BY DEF SentExactly
<1>2. client[k].told \in 0..cursor'[client[k].term]
  BY <1>1 DEF SentAfter
<1>3. SentAfter(k, n)'
  BY <1>1, <1>2 DEF SentAfter, Follows
<1> QED BY <1>3

\* The steps of the sockets that leave clients and terminals alone.
LEMMA SocketStep ==
  ASSUME ScreenIInv, UNCHANGED <<cursor, buffer, bufferCursor, client>>, Screen!TypeOK', Registered',
         \A k \in Conns : client[k].term # Nil /\ Connected(k)' => Connected(k)
  PROVE  ScreenIInv'
<1>1. ClientsTyped' /\ BuffersExact'
  BY DEF ScreenIInv, ClientsTyped, BuffersExact, Follows
<1>2. ASSUME NEW k \in Conns, client'[k].term # Nil PROVE \E n \in 0..MaxOut : SentAfter(k, n)'
  <2>1. client'[k] = client[k] /\ client[k].term \in Terms
    BY <1>2 DEF ScreenIInv, ClientsTyped
  <2>2. cursor'[client[k].term] = cursor[client[k].term] /\ cursor[client[k].term] \in 0..MaxOut
    BY <2>1 DEF ScreenIInv, Screen!TypeOK
  <2>3. SentExactly /\ cursor[client[k].term] \in Nat /\ cursor[client[k].term] >= cursor[client[k].term]
    BY <2>2 DEF ScreenIInv
  <2> QED BY <1>2, <2>1, <2>2, <2>3, SentStays
<1>3. SentExactly'
  BY <1>2 DEF SentExactly
<1> QED BY <1>1, <1>3 DEF ScreenIInv

\* The chunk goes to those whose socket is theirs, and to nobody else.
LEMMA DeliveredIs ==
  ASSUME Screen!ConstantAssumption, ScreenIInv, NEW t \in Terms, NEW chunk, NEW k \in Conns
  PROVE  /\ k \in Screen!Reached(t) =>
              /\ client[k].term = t /\ Connected(k)
              /\ Screen!Delivered(t, chunk)[k] = More(client[k], chunk)
         /\ k \notin Screen!Reached(t) => Screen!Delivered(t, chunk)[k] = client[k]
<1>1. (\E j \in Screen!Reached(t) : serves[subscribers[t][j]] = k) <=> k \in Screen!Reached(t)
  BY DEF Screen!Reached
<1>2. ASSUME k \in Screen!Reached(t) PROVE client[k].term = t /\ Connected(k)
  <2>1. subscribers[t][k] \in Socks /\ subscribers[t][k] # Nil
    BY <1>2 DEF Screen!Reached, ScreenIInv, Screen!TypeOK
  <2>2. client[k].term = t
    BY <2>1 DEF ScreenIInv, Registered
  <2> QED BY <1>2, <2>1, <2>2 DEF Screen!Reached, Connected, Screen!Watching
<1> QED BY <1>1, <1>2 DEF Screen!Delivered, More

LEMMA OutputKeeps ==
  ASSUME Screen!ConstantAssumption, ScreenIInv, NEW t \in Terms, NEW n \in 1..MaxChunk, Screen!Output(t, n)
  PROVE  ScreenIInv'
<1> DEFINE chunk == [i \in 1..n |-> <<t, cursor[t] + i>>]
           all == buffer[t] \o chunk
           cut == Screen!Larger(0, Len(all) - Limit)
<1>1. /\ cursor[t] \in 0..MaxOut /\ cursor[t] + n <= MaxOut /\ bufferCursor[t] \in 0..MaxOut
      /\ buffer[t] \in Seq(Units) /\ Len(buffer[t]) <= Limit /\ MaxOut \in Nat /\ Limit \in Nat /\ n \in Nat /\ n >= 1
      /\ bufferCursor[t] + Len(buffer[t]) = cursor[t] /\ Follows(buffer[t], t, bufferCursor[t])
      /\ bufferCursor[t] > 0 => Len(buffer[t]) = Limit
      /\ DOMAIN bufferCursor = Terms /\ DOMAIN buffer = Terms /\ DOMAIN cursor = Terms
  BY DEF Screen!Output, ScreenIInv, Screen!TypeOK, BuffersExact, Screen!ConstantAssumption, Units
<1>2. /\ client' = Screen!Delivered(t, chunk)
      /\ buffer' = [buffer EXCEPT ![t] = Screen!Kept(all)]
      /\ bufferCursor' = [bufferCursor EXCEPT ![t] = @ + cut]
      /\ cursor' = [cursor EXCEPT ![t] = @ + n]
      /\ subscribers' = [subscribers EXCEPT ![t] =
                           [k \in Conns |-> IF k \in Screen!Reached(t) THEN @[k] ELSE Nil]]
      /\ UNCHANGED <<terminal, serves, ready>>
  BY DEF Screen!Output
<1>3. chunk \in Seq(Units) /\ Len(chunk) = n /\ Follows(chunk, t, cursor[t])
  <2>1. \A i \in 1..n : <<t, cursor[t] + i>> \in Units
    BY <1>1 DEF Units
  <2>2. chunk \in Seq(Units)
    BY <1>1, <2>1
  <2>3. Len(chunk) = n
    BY <1>1
  <2> QED BY <2>2, <2>3 DEF Follows
<1> HIDE DEF chunk
<1>4. all \in Seq(Units) /\ Len(all) = Len(buffer[t]) + n /\ Follows(all, t, bufferCursor[t])
  <2>1. PICK s : s = buffer[t]
    OBVIOUS
  <2>2. PICK b \in Nat : b = bufferCursor[t]
    BY <1>1
  <2> QED BY <1>1, <1>3, <2>1, <2>2, FollowsConcat
<1>5. /\ cut \in 0..Len(all) /\ (Len(all) <= Limit => cut = 0) /\ (Len(all) > Limit => cut = Len(all) - Limit)
      /\ 1 + cut = cut + 1
  BY <1>1, <1>4 DEF Screen!Larger
<1> HIDE DEF all
<1>6. /\ Screen!Kept(all) \in Seq(Units) /\ Len(Screen!Kept(all)) = Len(all) - cut
      /\ Follows(Screen!Kept(all), t, bufferCursor[t] + cut)
  <2>1. PICK b \in Nat, c \in 0..Len(all) : b = bufferCursor[t] /\ c = cut
    BY <1>1, <1>5
  <2>2. Screen!Kept(all) = SubSeq(all, cut + 1, Len(all))
    BY <1>5 DEF Screen!Kept
  <2> HIDE DEF cut
  <2> QED BY <1>4, <2>1, <2>2, FollowsCut
<1> HIDE DEF cut
<1>7. PICK kept : kept = Screen!Kept(all)
  OBVIOUS
<1>8. PICK l \in Nat, m \in Nat : l = Len(buffer[t]) /\ m = cut
  BY <1>1, <1>4, <1>5
<1>c. PICK b \in Nat, c \in Nat : b = bufferCursor[t] /\ c = cursor[t]
  BY <1>1
<1>d. /\ b + l = c /\ l <= Limit /\ (b > 0 => l = Limit) /\ c + n <= MaxOut /\ Len(all) = l + n
      /\ Len(kept) = l + n - m /\ (l + n <= Limit => m = 0) /\ (l + n > Limit => m = l + n - Limit)
  BY <1>1, <1>4, <1>5, <1>6, <1>7, <1>8, <1>c
<1>f. MaxOut \in Nat /\ Limit \in Nat /\ n \in Nat /\ n >= 1
  BY <1>1
<1>e. /\ b + m \in 0..MaxOut /\ c + n \in 0..MaxOut /\ Len(kept) <= Limit /\ b + m + Len(kept) = c + n
      /\ b + m > 0 => Len(kept) = Limit
  <2>1. PICK j : j = Len(kept)
    OBVIOUS
  <2>2. j = l + n - m
    BY <1>d, <2>1
  <2>3. m \in 0..l + n /\ j \in Nat /\ j <= Limit /\ b + m + j = c + n
    BY <1>d, <1>f, <2>2
  <2>4. b + m > 0 => j = Limit
    BY <1>d, <1>f, <2>2
  <2>5. b + m \in 0..MaxOut /\ c + n \in 0..MaxOut
    BY <1>d, <1>f, <2>3
  <2> QED BY <2>1, <2>3, <2>4, <2>5
<1>9. /\ bufferCursor[t] + m \in 0..MaxOut /\ cursor[t] + n \in 0..MaxOut
      /\ Len(kept) = l + n - m /\ Len(kept) <= Limit /\ bufferCursor[t] + m + Len(kept) = cursor[t] + n
      /\ bufferCursor[t] + m > 0 => Len(kept) = Limit
  BY <1>c, <1>d, <1>e
<1>10. /\ buffer'[t] = kept /\ bufferCursor'[t] = bufferCursor[t] + m /\ cursor'[t] = cursor[t] + n
       /\ \A x \in Terms : x # t => /\ buffer'[x] = buffer[x] /\ bufferCursor'[x] = bufferCursor[x]
                                    /\ cursor'[x] = cursor[x] /\ subscribers'[x] = subscribers[x]
  BY <1>1, <1>2, <1>7, <1>8
<1>11. \A x \in Terms, k \in Conns :
          /\ subscribers'[x][k] \in {subscribers[x][k], Nil}
          /\ x = t /\ subscribers'[x][k] # Nil => k \in Screen!Reached(t)
  BY <1>2 DEF ScreenIInv, Screen!TypeOK
<1>12. Screen!TypeOK'
  <2>1. cursor' \in [Terms -> 0..MaxOut] /\ bufferCursor' \in [Terms -> 0..MaxOut]
    BY <1>2, <1>8, <1>9 DEF ScreenIInv, Screen!TypeOK
  <2>2. buffer' \in [Terms -> Seq(Units)] /\ \A x \in Terms : Len(buffer'[x]) <= Limit
    BY <1>2, <1>6, <1>7, <1>9, <1>10 DEF ScreenIInv, Screen!TypeOK, Units
  <2>3. subscribers' \in [Terms -> [Conns -> Socks \cup {Nil}]]
    BY <1>2 DEF ScreenIInv, Screen!TypeOK
  <2> QED BY <1>2, <2>1, <2>2, <2>3 DEF ScreenIInv, Screen!TypeOK, Units
<1>13. BuffersExact'
  <2> SUFFICES ASSUME NEW x \in Terms
               PROVE  /\ bufferCursor'[x] + Len(buffer'[x]) = cursor'[x]
                      /\ Follows(buffer'[x], x, bufferCursor'[x])
                      /\ bufferCursor'[x] > 0 => Len(buffer'[x]) = Limit
    BY DEF BuffersExact, Follows
  <2>1. CASE x = t
    BY <1>6, <1>7, <1>8, <1>9, <1>10, <2>1
  <2>2. CASE x # t
    BY <1>10, <2>2 DEF ScreenIInv, BuffersExact
  <2> QED BY <2>1, <2>2
<1>14. \A k \in Conns :
         /\ k \in Screen!Reached(t) =>
              /\ client[k].term = t /\ Connected(k)
              /\ client'[k] = More(client[k], chunk)
         /\ k \notin Screen!Reached(t) => client'[k] = client[k]
  <2>1. PICK units : units = chunk
    OBVIOUS
  <2>2. client' = Screen!Delivered(t, units)
    BY <1>2, <2>1
  <2> SUFFICES ASSUME NEW k \in Conns
               PROVE  /\ k \in Screen!Reached(t) =>
                           client[k].term = t /\ Connected(k) /\ client'[k] = More(client[k], chunk)
                      /\ k \notin Screen!Reached(t) => client'[k] = client[k]
    OBVIOUS
  <2>3. /\ k \in Screen!Reached(t) =>
               client[k].term = t /\ Connected(k) /\ Screen!Delivered(t, units)[k] = More(client[k], units)
        /\ k \notin Screen!Reached(t) => Screen!Delivered(t, units)[k] = client[k]
    BY DeliveredIs
  <2> QED BY <2>1, <2>2, <2>3
<1>15. ASSUME NEW k \in Conns, k \in Screen!Reached(t)
       PROVE  /\ client'[k].term = client[k].term /\ client'[k].from = client[k].from
              /\ client'[k].told = client[k].told /\ client'[k].got = client[k].got \o chunk
              /\ client'[k] \in [term : Terms \cup {Nil}, from : 0..MaxOut, got : Seq(Units),
                                 told : (0..MaxOut) \cup {Nil}]
  <2>1. PICK d \in [term : Terms \cup {Nil}, from : 0..MaxOut, got : Seq(Units),
                    told : (0..MaxOut) \cup {Nil}] : d = client[k]
    BY DEF ScreenIInv, ClientsTyped
  <2>2. PICK g \in Seq(Units) : g = d.got \o chunk
    BY <1>3, <2>1, ConcatProperties
  <2>3. client'[k] = [d EXCEPT !.got = g]
    BY <1>14, <1>15, <2>1, <2>2 DEF More
  <2> QED BY <2>1, <2>2, <2>3
<1>16. ClientsTyped'
  <2>1. client' = [k \in Conns |-> client'[k]]
    BY <1>2 DEF Screen!Delivered
  <2>2. \A k \in Conns : client'[k] \in [term : Terms \cup {Nil}, from : 0..MaxOut, got : Seq(Units),
                                         told : (0..MaxOut) \cup {Nil}]
    BY <1>14, <1>15 DEF ScreenIInv, ClientsTyped
  <2> QED BY <2>1, <2>2 DEF ClientsTyped
<1>17. Registered'
  <2>1. ASSUME NEW x \in Terms, NEW k \in Conns, subscribers'[x][k] # Nil PROVE client'[k].term = x
    <3>1. subscribers[x][k] # Nil
      BY <1>11, <2>1
    <3>2. client[k].term = x
      BY <3>1 DEF ScreenIInv, Registered
    <3> QED BY <1>14, <1>15, <3>2
  <2> QED BY <1>2, <2>1 DEF ScreenIInv, Registered
<1>18. ASSUME NEW k \in Conns, client'[k].term # Nil PROVE \E a \in 0..MaxOut : SentAfter(k, a)'
  <2>1. client'[k].term = client[k].term /\ client[k].term \in Terms
    <3>1. client'[k].term = client[k].term
      BY <1>14, <1>15
    <3> QED BY <1>18, <3>1 DEF ScreenIInv, ClientsTyped
  <2>2. PICK a \in 0..MaxOut : SentAfter(k, a)
    BY <1>18, <2>1 DEF ScreenIInv, SentExactly
  <2>3. CASE k \in Screen!Reached(t)
    <3>1. client[k].term = t /\ Connected(k) /\ a + Len(client[k].got) = cursor[t]
      BY <1>14, <2>2, <2>3 DEF SentAfter
    <3>2. PICK got \in Seq(Units) : got = client[k].got
      BY DEF ScreenIInv, ClientsTyped
    <3>3. PICK next : next = got \o chunk
      OBVIOUS
    <3>4. Follows(got, t, a) /\ Follows(chunk, t, a + Len(got)) /\ a \in Nat
      BY <1>1, <1>3, <2>2, <3>1, <3>2 DEF SentAfter
    <3>5. next \in Seq(Units) /\ Len(next) = Len(got) + n /\ Follows(next, t, a)
      BY <1>3, <3>3, <3>4, FollowsConcat
    <3>6. next # <<>> /\ a + Len(next) = cursor[t] + n
      <4>1. PICK g \in Nat, h \in Nat : g = Len(got) /\ h = Len(next)
        BY <3>5
      <4>2. h = g + n /\ a + g = c
        BY <1>c, <3>1, <3>2, <3>5, <4>1
      <4>3. h # 0 /\ a + h = c + n
        BY <1>f, <3>4, <4>1, <4>2
      <4> QED BY <1>c, <4>1, <4>3, EmptySeq
    <3>7. client[k].told \in 0..cursor[t] + n
      BY <1>1, <2>2, <3>1 DEF SentAfter
    <3>8. client'[k].got = next
      BY <1>15, <2>3, <3>2, <3>3
    <3> QED BY <1>10, <1>15, <2>1, <2>2, <2>3, <3>1, <3>5, <3>6, <3>7, <3>8 DEF SentAfter
  <2>4. CASE k \notin Screen!Reached(t)
    <3>1. client'[k] = client[k]
      BY <1>14, <2>4
    <3>2. Connected(k)' => client[k].term # t
      BY <1>11, <2>4, <3>1 DEF Connected, Screen!Watching, Screen!ConstantAssumption
    <3>3. client[k].term # t /\ Connected(k)' => Connected(k)
      BY <1>2, <1>10, <2>1, <3>1 DEF Connected, Screen!Watching
    <3>4. /\ cursor[client[k].term] \in Nat /\ cursor'[client[k].term] \in Nat
          /\ cursor'[client[k].term] >= cursor[client[k].term]
          /\ client[k].term # t => cursor'[client[k].term] = cursor[client[k].term]
      <4>1. cursor[client[k].term] \in Nat
        BY <1>1, <2>1 DEF ScreenIInv, Screen!TypeOK
      <4>2. c + n \in Nat /\ c + n >= c
        BY <1>1
      <4>3. PICK x \in Terms : x = client[k].term
        BY <2>1
      <4> QED BY <1>10, <1>c, <4>1, <4>2, <4>3
    <3> QED BY <1>18, <2>1, <3>1, <3>2, <3>3, <3>4, SentStays DEF ScreenIInv
  <2> QED BY <2>3, <2>4
<1>19. SentExactly'
  BY <1>18 DEF SentExactly
<1> QED BY <1>12, <1>13, <1>16, <1>17, <1>19 DEF ScreenIInv

\* What is replayed is the end of the output from the client's cursor on, or from
\* the oldest unit that is kept.
LEMMA ReplayIs ==
  ASSUME Screen!ConstantAssumption, ScreenIInv, NEW t \in Terms, NEW from \in 0..MaxOut
  PROVE  \E n \in 0..MaxOut :
           /\ Screen!Replay(t, from) \in Seq(Units) /\ Follows(Screen!Replay(t, from), t, n)
           /\ n + Len(Screen!Replay(t, from)) = cursor[t] /\ n <= cursor[t]
           /\ Screen!Replay(t, from) = <<>> => n = cursor[t]
           /\ n = cursor[t] \/ n = from \/ (n > from /\ cursor[t] - n = Limit)
           /\ n = cursor[t] => from >= cursor[t]
<1>1. PICK b \in 0..MaxOut, c \in 0..MaxOut, s \in Seq(Units) :
        b = bufferCursor[t] /\ c = cursor[t] /\ s = buffer[t]
  BY DEF ScreenIInv, Screen!TypeOK, Units
<1>2. PICK l \in Nat : l = Len(s)
  OBVIOUS
<1>3. /\ MaxOut \in Nat /\ Limit \in Nat /\ Limit > 0 /\ b + l = c /\ Follows(s, t, b) /\ (b > 0 => l = Limit)
      /\ b \in Nat /\ c \in Nat /\ from \in Nat
  BY <1>1, <1>2 DEF ScreenIInv, BuffersExact, Screen!ConstantAssumption
<1>4. PICK r : r = Screen!Replay(t, from)
  OBVIOUS
<1>5. PICK o \in Nat : o = Screen!Larger(0, from - b) /\ (from <= b => o = 0) /\ (from > b => o = from - b)
  <2>1. CASE from <= b
    <3>1. ~(0 < from - b) /\ 0 \in Nat
      BY <1>3, <2>1
    <3>2. Screen!Larger(0, from - b) = 0
      BY <3>1 DEF Screen!Larger
    <3> QED BY <1>3, <2>1, <3>1, <3>2
  <2>2. CASE from > b
    <3>1. 0 < from - b /\ from - b \in Nat
      BY <1>3, <2>2
    <3>2. Screen!Larger(0, from - b) = from - b
      BY <3>1 DEF Screen!Larger
    <3> QED BY <1>3, <2>2, <3>1, <3>2
  <2> QED BY <1>3, <2>1, <2>2
<1>6. r = IF from >= c \/ o >= l THEN <<>> ELSE SubSeq(s, o + 1, l)
  BY <1>1, <1>2, <1>4, <1>5 DEF Screen!Replay
<1>7. CASE from >= c \/ o >= l
  <2>1. r = <<>> /\ Len(r) = 0 /\ r \in Seq(Units) /\ Follows(r, t, c)
    BY <1>6, <1>7 DEF Follows
  <2>2. from >= c
    BY <1>3, <1>5, <1>7
  <2>3. c \in 0..MaxOut /\ c + 0 = c /\ c <= c
    BY <1>3
  <2> QED BY <1>1, <1>4, <2>1, <2>2, <2>3
<1>8. CASE ~(from >= c \/ o >= l)
  <2>1. o \in 0..Len(s) /\ b \in Nat /\ o < l
    BY <1>2, <1>3, <1>5, <1>8
  <2>2. r = SubSeq(s, o + 1, Len(s))
    BY <1>2, <1>6, <1>8
  <2>3. r \in Seq(Units) /\ Len(r) = Len(s) - o /\ Follows(r, t, b + o)
    BY <1>3, <2>1, <2>2, FollowsCut
  <2>4. PICK h \in Nat : h = Len(r)
    <3>1. Len(r) \in Nat
      BY <2>3, LenProperties
    <3> QED BY <3>1
  <2>5. h = l - o
    BY <1>2, <2>3, <2>4
  <2>6. /\ b + o \in 0..MaxOut /\ b + o + h = c /\ b + o <= c /\ h # 0 /\ b + o # c
        /\ b + o = from \/ (b + o > from /\ c - (b + o) = Limit)
    BY <1>3, <1>5, <1>8, <2>1, <2>5
  <2>7. r # <<>>
    BY <2>4, <2>6, EmptySeq
  <2> QED BY <1>1, <1>4, <2>3, <2>4, <2>6, <2>7
<1> QED BY <1>7, <1>8

LEMMA ConnectKeeps ==
  ASSUME Screen!ConstantAssumption, ScreenIInv, NEW k \in Conns, NEW w \in Socks, NEW t \in Terms,
         NEW c \in -1..MaxOut, Screen!Connect(k, w, t, c)
  PROVE  ScreenIInv'
<1>1. cursor[t] \in 0..MaxOut /\ MaxOut \in Nat
  BY DEF ScreenIInv, Screen!TypeOK, Screen!ConstantAssumption
<1>2. PICK from \in 0..MaxOut : from = Screen!From(t, c)
  BY <1>1 DEF Screen!From
<1>a. PICK got : got = Screen!Replay(t, from)
  OBVIOUS
<1>3. PICK n \in 0..MaxOut :
        /\ got \in Seq(Units) /\ Follows(got, t, n)
        /\ n + Len(got) = cursor[t] /\ n <= cursor[t] /\ (got = <<>> => n = cursor[t])
        /\ n = cursor[t] \/ n = from \/ (n > from /\ cursor[t] - n = Limit)
        /\ n = cursor[t] => from >= cursor[t]
  BY <1>a, ReplayIs
<1>4. /\ client' = [client EXCEPT ![k] = [term |-> t, from |-> from, got |-> got, told |-> cursor[t]]]
      /\ subscribers' = [subscribers EXCEPT ![t][k] = w] /\ client[k].term = Nil
      /\ UNCHANGED <<terminal, cursor, buffer, bufferCursor, serves, ready>>
  BY <1>2, <1>a DEF Screen!Connect, Screen!NoConn, Screen!termVars
<1>5. ClientsTyped' /\ BuffersExact'
  BY <1>1, <1>3, <1>4 DEF ScreenIInv, ClientsTyped, BuffersExact, Follows
<1>6. Screen!TypeOK'
  BY <1>4 DEF ScreenIInv, Screen!TypeOK
<1>7. /\ client'[k].term = t /\ client'[k].from = from /\ client'[k].got = got /\ client'[k].told = cursor[t]
      /\ \A j \in Conns : j # k => client'[j] = client[j]
  BY <1>4 DEF ScreenIInv, ClientsTyped
<1>8. \A x \in Terms, j \in Conns : ~(x = t /\ j = k) => subscribers'[x][j] = subscribers[x][j]
  BY <1>4 DEF ScreenIInv, Screen!TypeOK
<1>9. Nil \notin Terms
  BY DEF Screen!ConstantAssumption
<1>10. Registered'
  <2>1. ASSUME NEW x \in Terms, NEW j \in Conns, subscribers'[x][j] # Nil PROVE client'[j].term = x
    <3>1. CASE x = t /\ j = k
      BY <1>7, <3>1
    <3>2. CASE ~(x = t /\ j = k)
      BY <1>4, <1>7, <1>8, <1>9, <2>1, <3>2 DEF ScreenIInv, Registered
    <3> QED BY <3>1, <3>2
  <2> QED BY <1>4, <2>1 DEF ScreenIInv, Registered
<1>11. ASSUME NEW j \in Conns, client'[j].term # Nil PROVE \E a \in 0..MaxOut : SentAfter(j, a)'
  <2>1. CASE j = k
    BY <1>1, <1>3, <1>4, <1>7, <2>1 DEF SentAfter
  <2>2. CASE j # k
    <3>1. client'[j] = client[j] /\ client[j].term \in Terms
      BY <1>7, <1>11, <2>2 DEF ScreenIInv, ClientsTyped
    <3>2. PICK x \in Terms : x = client[j].term
      BY <3>1
    <3>3. cursor'[x] = cursor[x] /\ cursor[x] \in Nat /\ cursor[x] >= cursor[x]
      BY <1>4 DEF ScreenIInv, Screen!TypeOK
    <3>4. Connected(j)' => Connected(j)
      BY <1>4, <1>8, <2>2, <3>1 DEF Connected, Screen!Watching
    <3> QED BY <1>11, <3>1, <3>2, <3>3, <3>4, SentStays DEF ScreenIInv
  <2> QED BY <2>1, <2>2
<1>12. SentExactly'
  BY <1>11 DEF SentExactly
<1> QED BY <1>5, <1>6, <1>10, <1>12 DEF ScreenIInv

LEMMA ScreenStepInv ==
  ASSUME Screen!ConstantAssumption, ScreenIInv, [Screen!Next]_(Screen!vars)
  PROVE  ScreenIInv'
<1>1. CASE UNCHANGED Screen!vars
  BY <1>1, SocketStep DEF Screen!vars, ScreenIInv, Screen!TypeOK, Registered, Connected, Screen!Watching
<1>2. ASSUME NEW t \in Terms, Screen!Create(t) PROVE ScreenIInv'
  BY <1>2, SocketStep DEF Screen!Create, ScreenIInv, Screen!TypeOK, Registered, Connected, Screen!Watching
<1>3. ASSUME NEW t \in Terms, Screen!Remove(t) PROVE ScreenIInv'
  <2>1. /\ UNCHANGED <<cursor, buffer, bufferCursor, serves, client>>
        /\ terminal' = [terminal EXCEPT ![t] = "removed"]
        /\ ready' \in [Socks -> BOOLEAN] /\ \A w \in Socks : ready'[w] => ready[w]
        /\ subscribers' = [subscribers EXCEPT ![t] = [k \in Conns |-> Nil]]
    BY <1>3 DEF Screen!Remove
  <2>2. \A x \in Terms, k \in Conns : subscribers'[x][k] \in {subscribers[x][k], Nil}
    BY <2>1 DEF ScreenIInv, Screen!TypeOK
  <2>3. Screen!TypeOK' /\ Registered'
    BY <2>1, <2>2 DEF ScreenIInv, Screen!TypeOK, Registered
  <2>4. \A k \in Conns : client[k].term # Nil /\ Connected(k)' => Connected(k)
    BY <2>1, <2>2 DEF ScreenIInv, ClientsTyped, Connected, Screen!Watching, Screen!ConstantAssumption
  <2> QED BY <2>1, <2>3, <2>4, SocketStep
<1>4. ASSUME NEW k \in Conns, NEW w \in Socks, Screen!Accept(k, w) PROVE ScreenIInv'
  <2>1. /\ UNCHANGED <<cursor, buffer, bufferCursor, terminal, subscribers, client>>
        /\ client[k].term = Nil /\ \A v \in Socks : serves[v] # k
        /\ serves' = [serves EXCEPT ![w] = k] /\ ready' = [ready EXCEPT ![w] = TRUE]
    BY <1>4 DEF Screen!Accept, Screen!termVars, Screen!NoConn
  <2>2. Screen!TypeOK' /\ Registered'
    BY <2>1 DEF ScreenIInv, Screen!TypeOK, Registered
  <2>3. ASSUME NEW j \in Conns, client[j].term # Nil, Connected(j)' PROVE Connected(j)
    <3>1. PICK v \in Socks : subscribers[client[j].term][j] = v /\ ready'[v] /\ serves'[v] = j
      BY <2>1, <2>3 DEF Connected, Screen!Watching
    <3>2. v # w
      BY <2>1, <2>3, <3>1 DEF ScreenIInv, Screen!TypeOK
    <3> QED BY <2>1, <3>1, <3>2 DEF Connected, Screen!Watching, ScreenIInv, Screen!TypeOK
  <2> QED BY <2>1, <2>2, <2>3, SocketStep
<1>5. ASSUME NEW w \in Socks, ready' = [ready EXCEPT ![w] = FALSE],
             UNCHANGED <<terminal, cursor, buffer, bufferCursor, subscribers, serves, client>>
      PROVE  ScreenIInv'
  <2>1. Screen!TypeOK' /\ Registered'
    BY <1>5 DEF ScreenIInv, Screen!TypeOK, Registered
  <2>2. \A v \in Socks : ready'[v] => ready[v]
    BY <1>5 DEF ScreenIInv, Screen!TypeOK
  <2>3. \A k \in Conns : client[k].term # Nil /\ Connected(k)' => Connected(k)
    BY <1>5, <2>2 DEF Connected, Screen!Watching
  <2> QED BY <1>5, <2>1, <2>3, SocketStep
<1>6. ASSUME NEW k \in Conns, NEW t \in Terms, Screen!OnClose(k, t) PROVE ScreenIInv'
  <2>1. /\ UNCHANGED <<cursor, buffer, bufferCursor, terminal, serves, ready, client>>
        /\ subscribers' = [subscribers EXCEPT ![t][k] = Nil]
    BY <1>6 DEF Screen!OnClose, Screen!termVars
  <2>2. \A x \in Terms, j \in Conns : subscribers'[x][j] \in {subscribers[x][j], Nil}
    BY <2>1 DEF ScreenIInv, Screen!TypeOK
  <2>3. Screen!TypeOK' /\ Registered'
    BY <2>1, <2>2 DEF ScreenIInv, Screen!TypeOK, Registered
  <2>4. \A j \in Conns : client[j].term # Nil /\ Connected(j)' => Connected(j)
    BY <2>1, <2>2 DEF ScreenIInv, ClientsTyped, Connected, Screen!Watching, Screen!ConstantAssumption
  <2> QED BY <2>1, <2>3, <2>4, SocketStep
<1>7. ASSUME NEW k \in Conns, NEW w \in Socks, NEW t \in Terms, Screen!ConnectFails(k, w, t) PROVE ScreenIInv'
  BY <1>5, <1>7 DEF Screen!ConnectFails, Screen!termVars
<1>8. ASSUME NEW w \in Socks, Screen!Hangup(w) PROVE ScreenIInv'
  BY <1>5, <1>8 DEF Screen!Hangup, Screen!termVars
<1> QED BY <1>1, <1>2, <1>3, <1>4, <1>6, <1>7, <1>8, OutputKeeps, ConnectKeeps DEF Screen!Next

LEMMA ScreenInvGives == Screen!ConstantAssumption /\ ScreenIInv => Screen!TypeOK /\ Screen!ReplayIsExact
<1> SUFFICES ASSUME Screen!ConstantAssumption, ScreenIInv, NEW k \in Conns, client[k].term # Nil
             PROVE  LET t == client[k].term
                        got == client[k].got
                    IN /\ got = [i \in 1..Len(got) |-> <<t, Screen!Start(k) + i>>]
                       /\ Screen!Start(k) <= client[k].told
                       /\ Screen!Start(k) = client[k].told
                          \/ Screen!Start(k) = client[k].from
                          \/ (Screen!Start(k) > client[k].from /\ client[k].told - Screen!Start(k) = Limit)
                       /\ Screen!Start(k) = client[k].told => client[k].from >= client[k].told
                       /\ Screen!Watching(k, t) => Screen!Start(k) + Len(got) = cursor[t]
  BY DEF ScreenIInv, Screen!ReplayIsExact
<1>1. PICK n \in 0..MaxOut : SentAfter(k, n)
  BY DEF ScreenIInv, SentExactly
<1>2. PICK got \in Seq(Units) : got = client[k].got
  BY DEF ScreenIInv, ClientsTyped
<1>3. PICK t : t = client[k].term
  OBVIOUS
<1>4. Screen!Start(k) = n
  <2>1. CASE got = <<>>
    BY <1>1, <1>2, <2>1 DEF SentAfter, Screen!Start
  <2>2. CASE got # <<>>
    <3>1. Len(got) \in Nat /\ Len(got) # 0
      BY <2>2, EmptySeq
    <3>2. 1 \in 1..Len(got)
      BY <3>1
    <3>3. got[1] = <<t, n + 1>> /\ n \in Nat
      BY <1>1, <1>2, <1>3, <3>2 DEF SentAfter, Follows, Screen!ConstantAssumption
    <3>4. got[1][2] - 1 = n
      BY <3>3
    <3> QED BY <1>2, <2>2, <3>4 DEF Screen!Start
  <2> QED BY <2>1, <2>2
<1>5. got = [i \in 1..Len(got) |-> <<t, n + i>>]
  <2>1. \A i \in 1..Len(got) : got[i] = <<t, n + i>>
    BY <1>1, <1>2, <1>3 DEF SentAfter, Follows
  <2>2. got = [i \in 1..Len(got) |-> got[i]]
    BY LenProperties
  <2> QED BY <2>1, <2>2
<1> QED BY <1>1, <1>2, <1>3, <1>4, <1>5 DEF SentAfter, Connected

LEMMA ScreenMoves == [Next]_vars => [Screen!Next]_(Screen!vars)
  BY DEF Next, Others, vars, screenVars, Screen!vars

LEMMA ScreenInvariant == Spec => []ScreenIInv
<1>1. Init => ScreenIInv
  BY ComponentAssumptions, ScreenInitInv DEF Init
<1>2. ScreenIInv /\ [Next]_vars => ScreenIInv'
  BY ComponentAssumptions, ScreenMoves, ScreenStepInv
<1> QED BY <1>1, <1>2, PTL DEF Spec

\* A client is sent a stretch of its own terminal's output without a gap or a
\* repetition, from where it asks or from the oldest that is kept.
THEOREM ReplayIsExactTheorem == Spec => []ReplayIsExact
<1>1. ScreenIInv => ReplayIsExact
  BY ComponentAssumptions, ScreenInvGives DEF ReplayIsExact
<1>2. Spec => []ScreenIInv
  BY ScreenInvariant
<1> QED BY <1>1, <1>2, PTL
=============================================================================
