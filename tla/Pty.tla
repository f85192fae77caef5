--------------------------------- MODULE Pty ---------------------------------
(***************************************************************************)
(* Pseudo terminals and the web sockets that watch them.                   *)
(*                                                                         *)
(* Source: packages/opencode/src/pty/index.ts.                             *)
(*                                                                         *)
(* A unit of output is its terminal and its position.  A socket object may *)
(* be used again for another connection; a connection is told by the       *)
(* object in the socket's data.  What is written to the terminal, its      *)
(* title and its size are left out.                                        *)
(***************************************************************************)
EXTENDS Integers, Sequences

CONSTANTS
    Terms,     \* terminals
    Conns,     \* connections, each made once
    Socks,     \* socket objects
    Limit,     \* BUFFER_LIMIT
    MaxChunk,  \* bound: length of one chunk of output
    MaxOut,    \* bound: output of a terminal
    None

ConstantAssumption ==
    /\ Limit \in Nat \ {0} /\ MaxChunk \in Nat /\ MaxOut \in Nat
    /\ None \notin Terms \cup Conns \cup Socks

VARIABLES
    terminal,      \* terminal[t]: "none", "running" or "removed"
    cursor,        \* cursor[t]: the length of the output so far
    buffer,        \* buffer[t]: the end of the output that is kept
    bufferCursor,  \* bufferCursor[t]: where the kept output starts
    subscribers,   \* subscribers[t]: the socket under which a connection is registered, or None
    serves,        \* serves[w]: the connection that socket w serves, or served last, or None
    ready,         \* ready[w]: whether the socket is open
    client         \* client[k]: what the client of connection k has been sent

vars == <<terminal, cursor, buffer, bufferCursor, subscribers, serves, ready, client>>
termVars == <<terminal, cursor, buffer, bufferCursor>>

NoConn == [term |-> None, from |-> 0, got |-> <<>>, told |-> None]

Larger(a, b) == IF a < b THEN b ELSE a

TypeOK ==
    /\ terminal \in [Terms -> {"none", "running", "removed"}]
    /\ cursor \in [Terms -> 0..MaxOut] /\ bufferCursor \in [Terms -> 0..MaxOut]
    /\ buffer \in [Terms -> Seq(Terms \X (1..MaxOut))]
    /\ \A t \in Terms : Len(buffer[t]) <= Limit
    /\ subscribers \in [Terms -> [Conns -> Socks \cup {None}]]
    /\ serves \in [Socks -> Conns \cup {None}] /\ ready \in [Socks -> BOOLEAN]

Init ==
    /\ terminal = [t \in Terms |-> "none"]
    /\ cursor = [t \in Terms |-> 0]
    /\ buffer = [t \in Terms |-> <<>>]
    /\ bufferCursor = [t \in Terms |-> 0]
    /\ subscribers = [t \in Terms |-> [k \in Conns |-> None]]
    /\ serves = [w \in Socks |-> None]
    /\ ready = [w \in Socks |-> FALSE]
    /\ client = [k \in Conns |-> NoConn]

Create(t) ==
    /\ terminal[t] = "none"
    /\ terminal' = [terminal EXCEPT ![t] = "running"]
    /\ UNCHANGED <<cursor, buffer, bufferCursor, subscribers, serves, ready, client>>

----------------------------------------------------------------------------
(* onData.                                                                 *)

\* Mutant of Reached: the socket may be another connection's by now.
ReachedOpen(t) == {k \in Conns : subscribers[t][k] # None /\ ready[subscribers[t][k]]}

\* The subscribers to which a chunk goes: their socket is open and still the one
\* of the connection that registered it.  The others lose their entry.
Reached(t) ==
    {k \in Conns : /\ subscribers[t][k] # None
                   /\ ready[subscribers[t][k]]
                   /\ serves[subscribers[t][k]] = k}

\* What arrives is read by the connection that the socket serves now.
Delivered(t, chunk) ==
    [k \in Conns |->
        IF \E j \in Reached(t) : serves[subscribers[t][j]] = k
        THEN [client[k] EXCEPT !.got = @ \o chunk]
        ELSE client[k]]

\* Mutant of Kept: one chunk more than the limit is kept.
KeptOld(all) == SubSeq(all, 1 + Larger(0, Len(all) - (Limit + 1)), Len(all))

\* The kept output is cut at the front to the limit.
Kept(all) == SubSeq(all, 1 + Larger(0, Len(all) - Limit), Len(all))

Output(t, n) ==
    /\ terminal[t] = "running"
    /\ cursor[t] + n <= MaxOut
    /\ LET chunk == [i \in 1..n |-> <<t, cursor[t] + i>>]
           all == buffer[t] \o chunk
       IN /\ client' = Delivered(t, chunk)
          /\ buffer' = [buffer EXCEPT ![t] = Kept(all)]
          /\ bufferCursor' = [bufferCursor EXCEPT ![t] = @ + Larger(0, Len(all) - Limit)]
    /\ cursor' = [cursor EXCEPT ![t] = @ + n]
    /\ subscribers' = [subscribers EXCEPT ![t] =
                         [k \in Conns |-> IF k \in Reached(t) THEN @[k] ELSE None]]
    /\ UNCHANGED <<terminal, serves, ready>>

----------------------------------------------------------------------------
(* Sockets.                                                                *)

\* The server opens a connection; the socket object may have served another.
Accept(k, w) ==
    /\ ~ready[w]
    /\ client[k] = NoConn /\ \A v \in Socks : serves[v] # k
    /\ serves' = [serves EXCEPT ![w] = k]
    /\ ready' = [ready EXCEPT ![w] = TRUE]
    /\ UNCHANGED <<termVars, subscribers, client>>

Hangup(w) ==
    /\ ready[w]
    /\ ready' = [ready EXCEPT ![w] = FALSE]
    /\ UNCHANGED <<termVars, subscribers, serves, client>>

\* The close handler of connection k, at any time after its socket has closed.
OnClose(k, t) ==
    /\ subscribers[t][k] # None
    /\ ~(ready[subscribers[t][k]] /\ serves[subscribers[t][k]] = k)
    /\ subscribers' = [subscribers EXCEPT ![t][k] = None]
    /\ UNCHANGED <<termVars, serves, ready, client>>

\* connect(): the socket is registered, the kept output from the client's cursor
\* on is replayed and the client is told where the output ends.
From(t, c) == IF c = -1 THEN cursor[t] ELSE c

Replay(t, from) ==
    LET offset == Larger(0, from - bufferCursor[t])
    IN IF from >= cursor[t] \/ offset >= Len(buffer[t]) THEN <<>>
       ELSE SubSeq(buffer[t], offset + 1, Len(buffer[t]))

Connect(k, w, t, c) ==
    /\ ready[w] /\ serves[w] = k /\ client[k] = NoConn
    /\ terminal[t] = "running"
    /\ subscribers' = [subscribers EXCEPT ![t][k] = w]
    /\ client' = [client EXCEPT ![k] = [term |-> t, from |-> From(t, c),
                                    got |-> Replay(t, From(t, c)), told |-> cursor[t]]]
    /\ UNCHANGED <<termVars, serves, ready>>

\* There is no such terminal: the socket is closed.
ConnectFails(k, w, t) ==
    /\ ready[w] /\ serves[w] = k /\ client[k] = NoConn
    /\ terminal[t] # "running"
    /\ ready' = [ready EXCEPT ![w] = FALSE]
    /\ UNCHANGED <<termVars, subscribers, serves, client>>

\* remove(), or the exit of the process: the sockets that are still those of
\* their connections are closed.
Remove(t) ==
    /\ terminal[t] = "running"
    /\ terminal' = [terminal EXCEPT ![t] = "removed"]
    /\ ready' = [w \in Socks |->
                   ready[w] /\ ~\E k \in Conns : subscribers[t][k] = w /\ serves[w] = k]
    /\ subscribers' = [subscribers EXCEPT ![t] = [k \in Conns |-> None]]
    /\ UNCHANGED <<cursor, buffer, bufferCursor, serves, client>>

----------------------------------------------------------------------------

Next ==
    \/ \E t \in Terms : Create(t) \/ Remove(t) \/ \E n \in 1..MaxChunk : Output(t, n)
    \/ \E k \in Conns, w \in Socks :
        \/ Accept(k, w)
        \/ \E t \in Terms : ConnectFails(k, w, t)
        \/ \E t \in Terms, c \in -1..MaxOut : Connect(k, w, t, c)
    \/ \E w \in Socks : Hangup(w)
    \/ \E k \in Conns, t \in Terms : OnClose(k, t)

Spec == Init /\ [][Next]_vars

----------------------------------------------------------------------------
(* Properties.                                                             *)

Watching(k, t) ==
    \E w \in Socks : subscribers[t][k] = w /\ ready[w] /\ serves[w] = k

\* Where what the client has been sent starts, if with the output at all: at the
\* end that it was told of when nothing came.
Start(k) == IF client[k].got = <<>> THEN client[k].told ELSE client[k].got[1][2] - 1

\* A client that connects, connects again with the cursor it has reached, or is
\* served by a socket object that served another terminal before, is sent a
\* stretch of the output of its own terminal without a gap, a repetition or a
\* foreign character: from its cursor, or from the oldest kept output, to the
\* end of what there is while it is connected.
ReplayIsExact ==
    \A k \in Conns : client[k].term # None =>
        LET t == client[k].term
            got == client[k].got
        IN /\ got = [i \in 1..Len(got) |-> <<t, Start(k) + i>>]
           /\ Start(k) <= client[k].told
           /\ Start(k) = client[k].told
              \/ Start(k) = client[k].from
              \/ (Start(k) > client[k].from /\ client[k].told - Start(k) = Limit)
           /\ Start(k) = client[k].told => client[k].from >= client[k].told
           /\ Watching(k, t) => Start(k) + Len(got) = cursor[t]
=============================================================================
