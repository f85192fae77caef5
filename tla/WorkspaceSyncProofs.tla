------------------------ MODULE WorkspaceSyncProofs ------------------------
(***************************************************************************)
(* Proofs about WorkspaceSync.  They hold of every number of workspaces    *)
(* and events and every size of a batch, as long as nobody writes while    *)
(* the session moves, and either sessions only leave Main or no request of *)
(* a warp fails (Careful): the run sync_moved shows what happens otherwise. *)
(***************************************************************************)
EXTENDS WorkspaceSync, WellFoundedInduction, SequenceTheorems, TLAPS

USE BoundsAssumption

----------------------------------------------------------------------------
(* Logs, messages and what replaying them gives.                           *)

LEMMA LeastNumber ==
  ASSUME NEW S \in SUBSET Nat, S # {}
  PROVE  \E n \in S : \A m \in S : n <= m
<1> DEFINE Less == {p \in Nat \X Nat : p[1] < p[2]}
<1>1. IsWellFoundedOn(Less, Nat)
  <2>1. Less = OpToRel(<, Nat)
    BY DEF OpToRel
  <2> QED BY <2>1, NatLessThanWellFounded
<1>2. PICK n \in S : \A m \in S : ~(<<m, n>> \in Less)
  <2> HIDE DEF Less
  <2> QED BY <1>1, WFMin
<1>3. ASSUME NEW m \in S PROVE n <= m
  <2>1. m \in Nat /\ n \in Nat /\ <<m, n>> \in Nat \X Nat /\ <<m, n>>[1] = m /\ <<m, n>>[2] = n
    OBVIOUS
  <2>2. ~(m < n)
    BY <1>2, <2>1
  <2> QED BY <2>1, <2>2
<1> QED BY <1>3

\* s is what t starts with.
Starts(s, t) == Len(s) <= Len(t) /\ \A i \in DOMAIN s : s[i] = t[i]

LEMMA StartsIs ==
  ASSUME NEW X, NEW s \in Seq(X), NEW t \in Seq(X), Starts(s, t)
  PROVE  /\ Len(s) \in Nat /\ Len(t) \in Nat /\ Len(s) <= Len(t)
         /\ DOMAIN s = 1..Len(s) /\ DOMAIN t = 1..Len(t)
         /\ \A i \in 1..Len(s) : s[i] = t[i]
         /\ Len(t) <= Len(s) => s = t
<1>1. /\ Len(s) \in Nat /\ Len(t) \in Nat /\ Len(s) <= Len(t)
      /\ DOMAIN s = 1..Len(s) /\ DOMAIN t = 1..Len(t)
      /\ \A i \in 1..Len(s) : s[i] = t[i]
  BY DEF Starts
<1>2. Len(t) <= Len(s) => s = t
  BY <1>1, SeqEqual
<1> QED BY <1>1, <1>2

LEMMA LargestMove ==
  ASSUME NEW l \in Seq(Events), Moves(l) # {}
  PROVE  \E i \in Moves(l) : \A j \in Moves(l) : j <= i
<1> DEFINE S == {n \in Nat : \E i \in Moves(l) : n = Len(l) - i}
<1>1. \A i \in Moves(l) : i \in 1..Len(l) /\ Len(l) - i \in Nat
  BY DEF Moves
<1>2. S # {}
  BY <1>1
<1>3. PICK n \in S : \A m \in S : n <= m
  <2> HIDE DEF S
  <2>1. S \in SUBSET Nat
    BY DEF S
  <2> QED BY <1>2, <2>1, LeastNumber
<1>4. PICK i \in Moves(l) : n = Len(l) - i
  OBVIOUS
<1>5. ASSUME NEW j \in Moves(l) PROVE j <= i
  <2>1. Len(l) - j \in S
    BY <1>1, <1>5
  <2>2. n <= Len(l) - j
    BY <1>3, <2>1
  <2> QED BY <1>1, <1>4, <2>2
<1> QED BY <1>4, <1>5

\* Events that move nothing leave the session where it is.
LEMMA WhereSame ==
  ASSUME NEW l \in Seq(Events), NEW t \in Seq(Events), Starts(l, t),
         \A j \in DOMAIN t : j > Len(l) => t[j].to = Stay
  PROVE  Where(t) = Where(l)
<1>1. /\ Len(l) \in Nat /\ Len(t) \in Nat /\ Len(l) <= Len(t)
      /\ DOMAIN l = 1..Len(l) /\ DOMAIN t = 1..Len(t) /\ \A i \in 1..Len(l) : l[i] = t[i]
  BY StartsIs
<1>2. Moves(t) = Moves(l)
  BY <1>1 DEF Moves
<1>3. CASE Moves(l) = {}
  BY <1>2, <1>3 DEF Where
<1>4. CASE Moves(l) # {}
  <2> DEFINE k == CHOOSE i \in Moves(l) : \A j \in Moves(l) : j <= i
  <2>1. k \in Moves(l)
    BY <1>4, LargestMove
  <2>2. l[k] = t[k]
    BY <1>1, <2>1 DEF Moves
  <2>3. Where(l) = l[k].to /\ Where(t) = t[k].to
    BY <1>2, <1>4 DEF Where
  <2> QED BY <2>2, <2>3
<1> QED BY <1>3, <1>4

\* An event that moves the session is where it is.
LEMMA WhereMoved ==
  ASSUME NEW l \in Seq(Events), NEW e \in Events, e.to # Stay
  PROVE  Where(Append(l, e)) = e.to
<1> DEFINE t == Append(l, e)
           n == Len(l) + 1
<1>1. t \in Seq(Events) /\ Len(t) = n /\ t[n] = e /\ DOMAIN t = 1..n /\ n \in Nat
  OBVIOUS
<1> HIDE DEF t
<1>2. n \in Moves(t) /\ \A j \in Moves(t) : j \in Nat /\ j <= n
  BY <1>1 DEF Moves
<1>3. (CHOOSE i \in Moves(t) : \A j \in Moves(t) : j <= i) = n
  <2> DEFINE k == CHOOSE i \in Moves(t) : \A j \in Moves(t) : j <= i
  <2>1. k \in Moves(t) /\ \A j \in Moves(t) : j <= k
    BY <1>1, <1>2, LargestMove
  <2> HIDE DEF k
  <2>2. k = n
    BY <1>1, <1>2, <2>1
  <2> QED BY <2>2 DEF k
<1>4. Where(t) = t[n].to
  BY <1>2, <1>3 DEF Where
<1> QED BY <1>1, <1>4 DEF t

LEMMA SequenceOf ==
  ASSUME NEW X, NEW k \in Nat, NEW f \in [1..k -> X]
  PROVE  f \in Seq(X) /\ Len(f) = k /\ DOMAIN f = 1..k
  OBVIOUS

LEMMA RowsAre ==
  ASSUME NEW l \in Seq(Events), NEW n \in Nat, Len(l) <= MaxEvents
  PROVE  /\ Rows(l, n) \in Seq(Messages)
         /\ Len(Rows(l, n)) = IF n < Len(l) THEN Len(l) - n ELSE 0
         /\ DOMAIN Rows(l, n) = 1..Len(Rows(l, n))
         /\ \A i \in 1..Len(Rows(l, n)) :
              Rows(l, n)[i].seq = n + i /\ Rows(l, n)[i].event = l[n + i]
<1> DEFINE k == IF n < Len(l) THEN Len(l) - n ELSE 0
<1>1. Len(l) \in Nat /\ k \in Nat /\ 1..(Len(l) - n) = 1..k /\ MaxEvents \in Nat
  BY BoundsAssumption
<1>2. ASSUME NEW i \in 1..k PROVE [seq |-> n + i, event |-> l[n + i]] \in Messages
  <2>1. n + i \in 1..Len(l)
    BY <1>1
  <2>2. l[n + i] \in Events /\ n + i \in 1..MaxEvents
    BY <1>1, <2>1
  <2> QED BY <2>2 DEF Messages
<1>3. Rows(l, n) = [i \in 1..k |-> [seq |-> n + i, event |-> l[n + i]]]
  BY <1>1 DEF Rows
<1>a. k \in Nat
  BY <1>1
<1> HIDE DEF k
<1>b. Rows(l, n) \in [1..k -> Messages]
  BY <1>2, <1>3
<1>4. Rows(l, n) \in Seq(Messages) /\ Len(Rows(l, n)) = k /\ DOMAIN Rows(l, n) = 1..k
  BY <1>a, <1>b, SequenceOf
<1>5. \A i \in 1..k : Rows(l, n)[i].seq = n + i /\ Rows(l, n)[i].event = l[n + i]
  <2> SUFFICES ASSUME NEW i \in 1..k
               PROVE  Rows(l, n)[i].seq = n + i /\ Rows(l, n)[i].event = l[n + i]
    OBVIOUS
  <2>1. Rows(l, n)[i] = [seq |-> n + i, event |-> l[n + i]]
    BY <1>3
  <2>2. ASSUME NEW q, NEW e, NEW m, m = [seq |-> q, event |-> e]
        PROVE  m.seq = q /\ m.event = e
    BY <2>2
  <2> QED BY <2>1, <2>2
<1> QED BY <1>4, <1>5 DEF k

LEMMA MessagesAre ==
  ASSUME NEW ms \in Seq(Messages)
  PROVE  /\ Len(ms) \in Nat /\ DOMAIN ms = 1..Len(ms)
         /\ \A i \in 1..Len(ms) : /\ ms[i] \in Messages
                                 /\ ms[i].seq \in Nat \ {0} /\ ms[i].event \in Events
<1>1. Len(ms) \in Nat /\ DOMAIN ms = 1..Len(ms) /\ \A i \in 1..Len(ms) : ms[i] \in Messages
  OBVIOUS
<1>2. \A m \in Messages : m.seq \in Nat \ {0} /\ m.event \in Events
  BY DEF Messages
<1> QED BY <1>1, <1>2

\* Of m messages from number f on, the first known are known to whom has n
\* events, and k are new.
LEMMA Counting ==
  ASSUME NEW n \in Nat, NEW m \in Nat, NEW f \in Nat \ {0}, f <= n + 1
  PROVE  \E known \in Nat, k \in Nat :
           /\ known = n + 1 - f
           /\ 1..(m - known) = 1..k
           /\ f + m - 1 <= n + k
           /\ k = 0 \/ f + m - 1 = n + k
           /\ \A h \in 1..k : known + h \in 1..m /\ f + (known + h) - 1 = n + h
<1> DEFINE known == n + 1 - f
           k == IF known < m THEN m - known ELSE 0
<1>1. known \in Nat /\ k \in Nat
  OBVIOUS
<1>2. 1..(m - known) = 1..k
  OBVIOUS
<1>3. f + m - 1 <= n + k /\ (k = 0 \/ f + m - 1 = n + k)
  OBVIOUS
<1>4. \A h \in 1..k : known + h \in 1..m /\ f + (known + h) - 1 = n + h
  OBVIOUS
<1> HIDE DEF k
<1> QED BY <1>1, <1>2, <1>3, <1>4

\* Messages that are what t holds, one after the other.
InOrder(ms) == \A i \in DOMAIN ms : ms[i].seq = ms[1].seq + i - 1
Tells(t, m) == m.seq \in DOMAIN t /\ m.event = t[m.seq]

LEMMA ReplayIs ==
  ASSUME NEW l \in Seq(Events), NEW t \in Seq(Events), Starts(l, t),
         NEW owned \in BOOLEAN, NEW m \in Messages, Tells(t, m)
  PROVE  LET r == Replay(l, owned, m) IN
         /\ r \in Seq(Events) /\ Starts(l, r) /\ Starts(r, t)
         /\ owned => r = l
         /\ ~owned /\ m.seq <= Len(l) + 1 => m.seq <= Len(r)
<1>1. /\ Len(l) \in Nat /\ Len(t) \in Nat /\ Len(l) <= Len(t)
      /\ DOMAIN l = 1..Len(l) /\ DOMAIN t = 1..Len(t) /\ \A i \in 1..Len(l) : l[i] = t[i]
  BY StartsIs
<1>2. m.seq \in Nat /\ m.event \in Events
  BY DEF Messages
<1>3. CASE Fits(l, m) /\ ~owned
  <2> DEFINE r == Append(l, m.event)
  <2>1. /\ r \in Seq(Events) /\ Len(r) = Len(l) + 1 /\ DOMAIN r = 1..(Len(l) + 1)
        /\ r[Len(l) + 1] = m.event /\ \A i \in 1..Len(l) : r[i] = l[i]
    BY <1>1, <1>2
  <2>2. m.seq = Len(l) + 1 /\ Len(r) <= Len(t) /\ m.event = t[Len(l) + 1]
    BY <1>1, <1>3, <2>1 DEF Tells, Fits
  <2>3. Replay(l, owned, m) = r
    BY <1>3 DEF Replay
  <2> HIDE DEF r
  <2> QED BY <1>1, <1>2, <1>3, <2>1, <2>2, <2>3 DEF Starts
<1>4. CASE ~(Fits(l, m) /\ ~owned)
  <2>1. Replay(l, owned, m) = l
    BY <1>4 DEF Replay
  <2> QED BY <1>1, <1>2, <1>4, <2>1 DEF Starts, Fits
<1> QED BY <1>3, <1>4

LEMMA ReplayAllIs ==
  ASSUME NEW l \in Seq(Events), NEW t \in Seq(Events), Starts(l, t),
         NEW owned \in BOOLEAN, NEW ms \in Seq(Messages), InOrder(ms),
         \A i \in DOMAIN ms : Tells(t, ms[i])
  PROVE  LET r == ReplayAll(l, owned, ms) IN
         /\ r \in Seq(Events) /\ Starts(l, r) /\ Starts(r, t)
         /\ owned \/ ms = <<>> => r = l
         /\ ~owned /\ ms # <<>> /\ ms[1].seq <= Len(l) + 1 => ms[Len(ms)].seq <= Len(r)
<1>1. /\ Len(l) \in Nat /\ Len(t) \in Nat /\ Len(l) <= Len(t)
      /\ DOMAIN l = 1..Len(l) /\ DOMAIN t = 1..Len(t) /\ \A i \in 1..Len(l) : l[i] = t[i]
  BY StartsIs
<1>2. /\ Len(ms) \in Nat /\ DOMAIN ms = 1..Len(ms)
      /\ \A i \in 1..Len(ms) : /\ ms[i] \in Messages
                              /\ ms[i].seq \in Nat \ {0} /\ ms[i].event \in Events
  BY MessagesAre
<1>3. CASE owned \/ ms = <<>> \/ ms[1].seq > Len(l) + 1
  <2>1. ReplayAll(l, owned, ms) = l
    BY <1>3 DEF ReplayAll
  <2>2. ms # <<>> => ms[1].seq \in Nat
    BY <1>2
  <2> QED BY <1>1, <1>3, <2>1, <2>2 DEF Starts
<1>4. CASE ~owned /\ ms # <<>> /\ ~(ms[1].seq > Len(l) + 1)
  <2>a. ms # <<>> /\ ~(ms[1].seq > Len(l) + 1)
    BY <1>4
  <2>1. 1 \in 1..Len(ms) /\ Len(ms) \in 1..Len(ms) /\ ms[1].seq \in Nat
    BY <1>2, <2>a
  <2>2. PICK n \in Nat, m \in Nat, first \in Nat \ {0} :
          n = Len(l) /\ m = Len(ms) /\ first = ms[1].seq /\ first <= n + 1
    <3>1. Len(l) \in Nat /\ Len(ms) \in Nat /\ ms[1].seq \in Nat \ {0}
      BY <1>1, <1>2, <2>1
    <3>2. ms[1].seq <= Len(l) + 1
      BY <2>a, <3>1
    <3> QED BY <3>1, <3>2
  <2>3. PICK known \in Nat, k \in Nat :
          /\ known = n + 1 - first
          /\ 1..(m - known) = 1..k
          /\ first + m - 1 <= n + k
          /\ k = 0 \/ first + m - 1 = n + k
          /\ \A h \in 1..k : known + h \in 1..m /\ first + (known + h) - 1 = n + h
    <3>1. first <= n + 1
      BY <2>2
    <3> QED BY <3>1, Counting, ZenonT(30)
  <2> DEFINE new == [i \in 1..k |-> ms[known + i].event]
             r == l \o new
  <2>4. new \in Seq(Events) /\ Len(new) = k /\ \A i \in 1..k : new[i] = ms[known + i].event
    <3>1. \A i \in 1..k : ms[known + i].event \in Events
      BY <1>2, <2>2, <2>3
    <3> QED BY <3>1
  <2>5. ReplayAll(l, owned, ms) = r
    <3>1. ReplayAll(l, owned, ms) = l \o [i \in 1..(m - known) |-> ms[known + i].event]
      BY <1>4, <2>2, <2>3 DEF ReplayAll
    <3> QED BY <2>3, <3>1
  <2>6. ms[Len(ms)].seq = first + m - 1 /\ first + m - 1 <= Len(t)
    <3>1. ms[Len(ms)].seq = ms[1].seq + Len(ms) - 1
      BY <1>2, <2>1 DEF InOrder
    <3>2. ms[Len(ms)].seq \in 1..Len(t)
      BY <1>1, <1>2, <2>1 DEF Tells
    <3> QED BY <1>1, <2>2, <3>1, <3>2
  <2> HIDE DEF new
  <2>7. /\ r \in Seq(Events) /\ Len(r) = n + k
        /\ \A i \in 1..n : r[i] = l[i]
        /\ \A h \in 1..k : r[n + h] = new[h]
    <3>1. Len(r) = n + k /\ r \in Seq(Events) /\ (\A i \in 1..n : r[i] = l[i])
          /\ \A i \in 1..Len(r) : i > n => r[i] = new[i - n]
      <4>1. l \in Seq(Events) /\ new \in Seq(Events) /\ Len(new) = k /\ Len(l) = n
        BY <2>2, <2>4
      <4>2. /\ l \o new \in Seq(Events) /\ Len(l \o new) = Len(l) + Len(new)
            /\ \A i \in 1..Len(l) + Len(new) : (l \o new)[i] = IF i <= Len(l) THEN l[i] ELSE new[i - Len(l)]
        BY <4>1, ConcatProperties
      <4> QED BY <4>1, <4>2, <2>3
    <3>2. ASSUME NEW h \in 1..k PROVE n + h \in 1..(n + k) /\ n + h > n /\ (n + h) - n = h
      BY <2>3
    <3> QED BY <3>1, <3>2
  <2>8. \A h \in 1..k : r[n + h] = t[n + h]
    <3> SUFFICES ASSUME NEW h \in 1..k PROVE r[n + h] = t[n + h]
      OBVIOUS
    <3>1. r[n + h] = ms[known + h].event
      BY <2>4, <2>7
    <3>2. known + h \in 1..Len(ms) /\ first + (known + h) - 1 = n + h
      BY <2>2, <2>3
    <3>3. ms[known + h].seq = first + (known + h) - 1 /\ ms[known + h].event = t[ms[known + h].seq]
      BY <1>2, <2>2, <3>2 DEF InOrder, Tells
    <3> QED BY <3>1, <3>2, <3>3
  <2>9. DOMAIN r = 1..Len(r) /\ Len(r) \in Nat /\ n + k <= Len(t)
    <3>1. n <= Len(t)
      BY <1>1, <2>2
    <3> QED BY <2>3, <2>6, <2>7, <3>1
  <2> HIDE DEF r
  <2>10. Starts(l, r)
    BY <1>1, <2>2, <2>7, <2>9 DEF Starts
  <2>11. \A i \in 1..Len(r) : r[i] = t[i]
    <3> SUFFICES ASSUME NEW i \in 1..Len(r) PROVE r[i] = t[i]
      OBVIOUS
    <3>1. CASE i <= n
      BY <1>1, <2>2, <2>7, <3>1
    <3>2. CASE i > n
      <4>1. PICK h \in 1..k : i = n + h
        <5>1. i - n \in 1..k /\ i = n + (i - n)
          BY <2>7, <3>2
        <5> QED BY <5>1
      <4> QED BY <2>8, <4>1
    <3> QED BY <2>3, <2>7, <3>1, <3>2
  <2>12. Starts(r, t)
    BY <1>1, <2>7, <2>9, <2>11 DEF Starts
  <2>13. ms[Len(ms)].seq <= Len(r)
    BY <2>3, <2>6, <2>7
  <2> QED BY <1>4, <2>5, <2>7, <2>10, <2>12, <2>13
<1> QED BY <1>3, <1>4

----------------------------------------------------------------------------
(* The inductive invariant.                                                *)

\* Nobody writes while a session moves, and either sessions only leave Main
\* or every request of a warp is answered.
Careful ==
    /\ QuietWarps
    /\ \A t \in Troubles : t.oneWay \/ (~t.fails /\ t.answers \subseteq {TRUE})

Warps == [at : {"idle", "leave", "move", "post"}, to : Devices, rows : Seq(Messages)]

Typed ==
    /\ log \in [Devices -> Seq(Events)]
    /\ stream \in [Workspaces -> Seq(Messages)] /\ batch \in [Workspaces -> Seq(Messages)]
    /\ owner \in Devices \cup {"nobody"} /\ holder \in Devices /\ active \subseteq Devices
    /\ up \in [Workspaces -> {"down", "connected", "history", "live"}]
    /\ warp \in Warps /\ (warp.at = "idle" => warp = NoWarp)
    /\ trouble \in Troubles /\ events \in 0..MaxEvents
    /\ \A w \in Workspaces :
         (up[w] = "down" => stream[w] = <<>>) /\ (up[w] # "history" => batch[w] = <<>>)

\* One device writes, and never while the session moves.
OneWriter == active \subseteq {holder} /\ (warp.at # "idle" => active = {})

\* Every log is a beginning of the writer's.
Copies == /\ \A d \in Devices : Starts(log[d], log[holder])
          /\ Len(log[holder]) <= events

\* Messages tell what their sender holds.
Messengers ==
    \A w \in Workspaces :
        /\ \A i \in DOMAIN stream[w] : Tells(log[w], stream[w][i])
        /\ \A i \in DOMAIN batch[w] : Tells(log[w], batch[w][i])
        /\ InOrder(batch[w])
        /\ batch[w] # <<>> => batch[w][1].seq <= Len(log[Main]) + 1

\* Main has the first n events or the history under way brings them.
Reached(w, n) == n <= Len(log[Main]) \/ \E i \in DOMAIN batch[w] : n <= batch[w][i].seq
StreamFits(w) ==
    \A i \in DOMAIN stream[w] :
        \/ Reached(w, stream[w][i].seq - 1)
        \/ i > 1 /\ stream[w][i].seq - 1 <= stream[w][i - 1].seq
AllSent(w) ==
    \/ Reached(w, Len(log[w]))
    \/ stream[w] # <<>> /\ Len(log[w]) <= stream[w][Len(stream[w])].seq
Following ==
    ~Owned => \A w \in Workspaces :
                 up[w] \in {"history", "live"} => StreamFits(w) /\ AllSent(w)

\* The move that Main does not know is the next event it gets.
NoMoves == \A j \in DOMAIN log[holder] : j > Len(log[Main]) => log[holder][j].to = Stay
RowBehind ==
    \A j \in DOMAIN log[holder] :
        j > Len(log[Main]) /\ log[holder][j].to # Stay =>
            j = Len(log[Main]) + 1 /\ Where(log[Main]) # holder

Posting(rows, n, to) ==
    /\ to # Main /\ Len(rows) <= n /\ n - Len(rows) <= Len(log[to])
    /\ \A i \in DOMAIN rows :
         rows[i].seq = n - Len(rows) + i /\ Tells(log[Main], rows[i])
Moving ==
    /\ warp.at = "leave" => holder # Main /\ Where(log[Main]) = holder /\ NoMoves /\ ~Owned
    /\ warp.at # "idle" => warp.to # Where(log[Main])
    /\ warp.at \in {"move", "post"} => log[Main] = log[holder]
    /\ warp.at = "post" => Posting(warp.rows, Len(log[Main]), warp.to)

Claimed ==
    /\ trouble.oneWay => ~Owned /\ warp.at # "leave"
    /\ Owned => \/ Where(log[Main]) = Main
                \/ Where(log[Main]) # (IF warp.at = "idle" THEN holder ELSE warp.to)

IInv == /\ Typed /\ OneWriter /\ Copies /\ Messengers /\ Following /\ RowBehind /\ Moving
        /\ Claimed

LEMMA WhereEmpty == Where(<<>>) = Main
<1>1. Moves(<<>>) = {}
  BY DEF Moves
<1> QED BY <1>1 DEF Where

LEMMA InitInv == Init => IInv
<1> SUFFICES ASSUME Init PROVE IInv
  OBVIOUS
<1>1. Main \in Devices /\ Workspaces \subseteq Devices /\ 0 \in 0..MaxEvents
  BY DEF Devices
<1>2. Typed
  <2>1. <<>> \in Seq(Events) /\ <<>> \in Seq(Messages)
    OBVIOUS
  <2>2. NoWarp \in Warps
    BY <1>1, <2>1 DEF NoWarp, Warps
  <2> QED BY <1>1, <2>1, <2>2 DEF Init, Typed
<1>3. ~Owned /\ warp.at = "idle" /\ \A d \in Devices : log[d] = <<>>
  BY DEF Init, Owned, NoWarp
<1>4. Copies /\ OneWriter
  BY <1>1, <1>3 DEF Copies, OneWriter, Init, Starts
<1>5. Messengers /\ Following
  BY <1>1, <1>3 DEF Messengers, Following, Init, InOrder
<1>6. RowBehind /\ Moving /\ Claimed
  BY <1>1, <1>3 DEF RowBehind, Moving, Claimed, Init
<1> QED BY <1>2, <1>4, <1>5, <1>6 DEF IInv

\* What the proofs use of the logs.
LEMMA Logs ==
  ASSUME Typed, Copies
  PROVE  /\ Main \in Devices /\ Workspaces \subseteq Devices
         /\ \A d \in Devices : /\ log[d] \in Seq(Events) /\ Len(log[d]) \in Nat
                               /\ DOMAIN log[d] = 1..Len(log[d])
                               /\ Len(log[d]) <= Len(log[holder])
                               /\ Len(log[holder]) <= Len(log[d]) => log[d] = log[holder]
                               /\ \A i \in 1..Len(log[d]) : log[d][i] = log[holder][i]
         /\ Len(log[holder]) <= events /\ Len(log[holder]) <= MaxEvents
         /\ \A w \in Workspaces : stream[w] \in Seq(Messages) /\ batch[w] \in Seq(Messages)
<1>1. Main \in Devices /\ Workspaces \subseteq Devices
  BY DEF Devices
<1>2. \A d \in Devices : log[d] \in Seq(Events)
  BY DEF Typed
<1>3. log[holder] \in Seq(Events) /\ \A d \in Devices : Starts(log[d], log[holder])
  BY <1>2 DEF Typed, Copies
<1>4. ASSUME NEW d \in Devices
      PROVE  /\ Len(log[d]) \in Nat /\ DOMAIN log[d] = 1..Len(log[d])
             /\ Len(log[d]) <= Len(log[holder])
             /\ Len(log[holder]) <= Len(log[d]) => log[d] = log[holder]
             /\ \A i \in 1..Len(log[d]) : log[d][i] = log[holder][i]
  BY <1>2, <1>3, StartsIs
<1>5. Len(log[holder]) <= events /\ Len(log[holder]) <= MaxEvents
  BY <1>3 DEF Typed, Copies
<1>6. \A w \in Workspaces : stream[w] \in Seq(Messages) /\ batch[w] \in Seq(Messages)
  BY DEF Typed
<1> QED BY <1>1, <1>2, <1>4, <1>5, <1>6

----------------------------------------------------------------------------
(* What a log learns or gets is a step of a log with one writer.           *)

LEMMA PrefixIs ==
  ASSUME NEW s \in Seq(Events), NEW t \in Seq(Events)
  PROVE  Starts(s, t) => Single!Prefix(s, t)
<1>1. DOMAIN s = 1..Len(s)
  OBVIOUS
<1> QED BY <1>1 DEF Starts, Single!Prefix

LEMMA LearnIs ==
  ASSUME Typed, Copies, NEW d \in Devices, NEW r \in Seq(Events), Starts(log[d], r),
         Starts(r, log[holder]), log' = [log EXCEPT ![d] = r]
  PROVE  [Single!Next]_log
<1>1. /\ log[d] \in Seq(Events) /\ log[holder] \in Seq(Events) /\ Starts(log[d], log[holder])
      /\ holder \in Devices
  BY DEF Typed, Copies
<1>2. /\ Len(r) \in Nat /\ Len(log[d]) \in Nat /\ Len(log[holder]) \in Nat
      /\ Len(log[d]) <= Len(r) /\ Len(r) <= Len(log[holder])
      /\ \A i \in 1..Len(r) : r[i] = log[holder][i]
  BY <1>1, StartsIs
<1>3. PICK n \in Nat, t \in Seq(Events) : n = Len(r) /\ t = log[holder] /\ n <= Len(t)
  BY <1>1, <1>2
<1>4. SubSeq(t, 1, n) = r
  <2>1. /\ SubSeq(t, 1, n) \in Seq(Events)
        /\ Len(SubSeq(t, 1, n)) = IF 1 <= n THEN n - 1 + 1 ELSE 0
        /\ \A i \in 1..(n - 1 + 1) : SubSeq(t, 1, n)[i] = t[1 + i - 1]
    <3>1. Len(t) \in Nat
      OBVIOUS
    <3>2. \A i \in 1..n : i \in 1..Len(t)
      BY <1>3, <3>1
    <3> QED BY <1>3, <3>1, SubSeqProperties
  <2>2. n - 1 + 1 = n /\ (IF 1 <= n THEN n - 1 + 1 ELSE 0) = n /\ \A i \in 1..n : 1 + i - 1 = i
    OBVIOUS
  <2>3. Len(SubSeq(t, 1, n)) = Len(r) /\ \A i \in 1..Len(r) : SubSeq(t, 1, n)[i] = r[i]
    BY <1>2, <1>3, <2>1, <2>2
  <2> QED BY <2>1, <2>3, SeqEqual
<1>5. Single!Learn(d, holder)
  <2>1. Single!Prefix(log[d], log[holder])
    BY <1>1, PrefixIs
  <2>2. n \in Len(log[d])..Len(log[holder])
    BY <1>2, <1>3
  <2>3. log' = [log EXCEPT ![d] = SubSeq(log[holder], 1, n)]
    BY <1>3, <1>4
  <2> QED BY <2>1, <2>2, <2>3 DEF Single!Learn
<1> QED BY <1>1, <1>5 DEF Single!Next

LEMMA WriteIs ==
  ASSUME Typed, Copies, NEW d \in Devices, log[d] = log[holder],
         NEW e \in Events, log' = [log EXCEPT ![d] = Append(log[d], e)]
  PROVE  [Single!Next]_log
<1>1. \A c \in Devices : Single!Prefix(log[c], log[d])
  <2>1. \A c \in Devices : log[c] \in Seq(Events) /\ Starts(log[c], log[d])
    BY DEF Typed, Copies
  <2> QED BY <2>1, PrefixIs
<1>2. log' = [log EXCEPT ![d] = Append(@, e)]
  BY DEF Typed
<1>3. Single!Write(d, e)
  BY <1>1, <1>2 DEF Single!Write
<1> QED BY <1>3 DEF Single!Next

----------------------------------------------------------------------------
(* Steps that leave the logs as they are.                                  *)

LEMMA PromptStep ==
  ASSUME IInv, Careful, Prompt \/ \E d \in Devices : Stop(d)
  PROVE  IInv' /\ [Single!Next]_log
<1>1. Typed /\ OneWriter
  BY DEF IInv
<1>2. /\ UNCHANGED <<log, owner, holder, up, stream, batch, warp, trouble, events>>
      /\ \/ active' \subseteq active
         \/ warp.at = "idle" /\ active' \subseteq active \cup {holder}
  BY DEF Prompt, Stop, syncVars, counters, Careful, Settled, NoWarp
<1>3. active' \subseteq Devices
  BY <1>1, <1>2 DEF Typed
<1>4. Typed'
  BY <1>1, <1>2, <1>3 DEF Typed
<1>5. OneWriter'
  BY <1>1, <1>2 DEF OneWriter
<1>6. Copies' /\ Messengers' /\ Following' /\ RowBehind' /\ Moving' /\ Claimed'
  BY <1>2 DEF IInv, Copies, Messengers, Following, StreamFits, AllSent, Reached, Owned, RowBehind,
     Moving, NoMoves, Posting, Claimed
<1> QED BY <1>2, <1>4, <1>5, <1>6 DEF IInv

LEMMA ConnectStep ==
  ASSUME IInv, NEW w \in Workspaces, Connect(w)
  PROVE  IInv' /\ [Single!Next]_log
<1>1. Typed /\ Following
  BY DEF IInv
<1>2. /\ UNCHANGED <<log, owner, holder, active, stream, batch, warp, trouble, events>>
      /\ up' = [up EXCEPT ![w] = "connected"] /\ up[w] = "down"
  BY DEF Connect, counters
<1>3. Typed'
  BY <1>1, <1>2 DEF Typed
<1>4. Following'
  BY <1>1, <1>2 DEF Typed, Following, StreamFits, AllSent, Reached, Owned
<1>5. OneWriter' /\ Copies' /\ Messengers' /\ RowBehind' /\ Moving' /\ Claimed'
  BY <1>2 DEF IInv, OneWriter, Copies, Messengers, Owned, RowBehind, Moving, NoMoves, Posting,
     Claimed
<1> QED BY <1>2, <1>3, <1>4, <1>5 DEF IInv

LEMMA DropStep ==
  ASSUME IInv, NEW w \in Workspaces, Drop(w)
  PROVE  IInv' /\ [Single!Next]_log
<1>1. Typed /\ Following /\ Messengers
  BY DEF IInv
<1>2. /\ UNCHANGED <<log, owner, holder, active, warp, trouble, events>>
      /\ up' = [up EXCEPT ![w] = "down"]
      /\ stream' = [stream EXCEPT ![w] = <<>>] /\ batch' = [batch EXCEPT ![w] = <<>>]
  BY DEF Drop
<1>3. Typed'
  BY <1>1, <1>2 DEF Typed
<1>4. \A v \in Workspaces : v # w => stream'[v] = stream[v] /\ batch'[v] = batch[v] /\ up'[v] = up[v]
  BY <1>1, <1>2 DEF Typed
<1>5. stream'[w] = <<>> /\ batch'[w] = <<>> /\ up'[w] = "down"
  BY <1>1, <1>2 DEF Typed
<1>6. Following'
  <2> SUFFICES ASSUME ~Owned, NEW v \in Workspaces, up'[v] \in {"history", "live"}
               PROVE  StreamFits(v)' /\ AllSent(v)'
    BY <1>2 DEF Following, Owned
  <2>1. v # w
    BY <1>5
  <2> QED BY <1>1, <1>2, <1>4, <2>1 DEF Following, StreamFits, AllSent, Reached
<1>7. Messengers'
  BY <1>1, <1>2, <1>4, <1>5 DEF Messengers, InOrder
<1>8. OneWriter' /\ Copies' /\ RowBehind' /\ Moving' /\ Claimed'
  BY <1>2 DEF IInv, OneWriter, Copies, Owned, RowBehind, Moving, NoMoves, Posting, Claimed
<1> QED BY <1>2, <1>3, <1>6, <1>7, <1>8 DEF IInv

LEMMA FetchStep ==
  ASSUME IInv, NEW w \in Workspaces, FetchHistory(w)
  PROVE  IInv' /\ [Single!Next]_log
<1>1. Typed /\ Following /\ Messengers /\ Copies
  BY DEF IInv
<1>2. /\ UNCHANGED <<log, owner, holder, active, stream, warp, trouble, events>>
      /\ up' = [up EXCEPT ![w] = "history"] /\ batch' = [batch EXCEPT ![w] = Asked(w)]
  BY DEF FetchHistory, counters
<1>3. PICK n \in Nat : Asked(w) = Rows(log[w], n) /\ n <= Len(log[Main])
  BY <1>1, Logs DEF Asked
<1>4. /\ Asked(w) \in Seq(Messages)
      /\ Len(Asked(w)) = IF n < Len(log[w]) THEN Len(log[w]) - n ELSE 0
      /\ DOMAIN Asked(w) = 1..Len(Asked(w))
      /\ \A i \in 1..Len(Asked(w)) :
           Asked(w)[i].seq = n + i /\ Asked(w)[i].event = log[w][n + i]
  <2>1. log[w] \in Seq(Events) /\ Len(log[w]) <= MaxEvents
    BY <1>1, Logs
  <2>2. /\ Rows(log[w], n) \in Seq(Messages)
        /\ Len(Rows(log[w], n)) = IF n < Len(log[w]) THEN Len(log[w]) - n ELSE 0
        /\ DOMAIN Rows(log[w], n) = 1..Len(Rows(log[w], n))
        /\ \A i \in 1..Len(Rows(log[w], n)) :
             Rows(log[w], n)[i].seq = n + i /\ Rows(log[w], n)[i].event = log[w][n + i]
    BY <2>1, RowsAre
  <2> QED BY <1>3, <2>2
<1>5. PICK b \in Seq(Messages) :
        /\ b = Asked(w) /\ batch' = [batch EXCEPT ![w] = b]
        /\ DOMAIN b = 1..Len(b) /\ Len(b) \in Nat
        /\ Len(b) = IF n < Len(log[w]) THEN Len(log[w]) - n ELSE 0
        /\ \A i \in 1..Len(b) : b[i].seq = n + i /\ b[i].event = log[w][n + i]
  <2> DEFINE b == Asked(w)
  <2>1. b \in Seq(Messages) /\ DOMAIN b = 1..Len(b) /\ Len(b) \in Nat
    BY <1>4
  <2>2. \A i \in 1..Len(b) : b[i].seq = n + i /\ b[i].event = log[w][n + i]
    BY <1>4, <2>1
  <2>3. b = Asked(w)
    OBVIOUS
  <2>4. batch' = [batch EXCEPT ![w] = b]
    BY <1>2
  <2>5. Len(b) = IF n < Len(log[w]) THEN Len(log[w]) - n ELSE 0
    BY <1>4
  <2> HIDE DEF b
  <2> QED BY <2>1, <2>2, <2>3, <2>4, <2>5
<1>6. Typed'
  BY <1>1, <1>2, <1>5 DEF Typed
<1>7. /\ \A v \in Workspaces : v # w => batch'[v] = batch[v] /\ up'[v] = up[v]
      /\ batch'[w] = b
  BY <1>1, <1>2, <1>5 DEF Typed
<1>8. Len(log[w]) \in Nat /\ DOMAIN log[w] = 1..Len(log[w]) /\ Len(log[Main]) \in Nat
  BY <1>1, Logs
<1>9. Messengers'
  <2>1. ASSUME NEW i \in 1..Len(b) PROVE Tells(log[w], b[i])
    <3>1. n + i \in 1..Len(log[w])
      BY <1>5, <1>8
    <3> QED BY <1>5, <1>8, <3>1 DEF Tells
  <2>2. InOrder(b) /\ (b # <<>> => b[1].seq <= Len(log[Main]) + 1)
    <3>1. \A i \in 1..Len(b) : 1 \in 1..Len(b) /\ n + i = (n + 1) + i - 1
      BY <1>5
    <3>2. InOrder(b)
      BY <1>5, <3>1 DEF InOrder
    <3>3. b # <<>> => 1 \in 1..Len(b)
      BY <1>5
    <3> QED BY <1>3, <1>5, <1>8, <3>2, <3>3
  <2>3. \A v \in Workspaces : v # w =>
          /\ \A i \in DOMAIN batch'[v] : Tells(log'[v], batch'[v][i])
          /\ InOrder(batch'[v])
          /\ batch'[v] # <<>> => batch'[v][1].seq <= Len(log'[Main]) + 1
    BY <1>1, <1>2, <1>7 DEF Messengers
  <2>4. \A v \in Workspaces : \A i \in DOMAIN stream'[v] : Tells(log'[v], stream'[v][i])
    BY <1>1, <1>2 DEF Messengers
  <2> QED BY <1>2, <1>5, <1>7, <2>1, <2>2, <2>3, <2>4 DEF Messengers
<1>10. Following'
  <2> SUFFICES ASSUME ~Owned, NEW v \in Workspaces, up'[v] \in {"history", "live"}
               PROVE  StreamFits(v)' /\ AllSent(v)'
    BY <1>2 DEF Following, Owned
  <2>1. CASE v # w
    BY <1>1, <1>2, <1>7, <2>1 DEF Following, StreamFits, AllSent, Reached
  <2>2. CASE v = w
    <3>1. ASSUME NEW m \in Nat, m <= Len(log[w]) PROVE Reached(w, m)'
      <4>1. CASE m <= n
        BY <1>2, <1>3, <1>8, <3>1, <4>1 DEF Reached
      <4>2. CASE n < m
        <5>1. Len(b) \in 1..Len(b) /\ b[Len(b)].seq = Len(log[w])
          BY <1>5, <1>8, <3>1, <4>2
        <5>2. Len(b) \in DOMAIN batch'[w] /\ m <= batch'[w][Len(b)].seq
          BY <1>5, <1>7, <3>1, <5>1
        <5> QED BY <5>2 DEF Reached
      <4> QED BY <4>1, <4>2
    <3>2. AllSent(w)'
      BY <1>2, <1>8, <3>1 DEF AllSent
    <3>3. ASSUME NEW i \in DOMAIN stream[w] PROVE Reached(w, stream[w][i].seq - 1)'
      <4>1. Tells(log[w], stream[w][i])
        BY <1>1 DEF Messengers
      <4>2. stream[w][i].seq \in 1..Len(log[w])
        BY <1>8, <4>1 DEF Tells
      <4>3. stream[w][i].seq - 1 \in Nat /\ stream[w][i].seq - 1 <= Len(log[w])
        BY <1>8, <4>2
      <4>4. PICK m \in Nat : m = stream[w][i].seq - 1 /\ m <= Len(log[w])
        BY <4>3
      <4>5. Reached(w, m)'
        BY <3>1, <4>4
      <4> QED BY <1>2, <4>4, <4>5 DEF Reached
    <3>4. StreamFits(w)'
      BY <1>2, <3>3 DEF StreamFits
    <3> QED BY <2>2, <3>2, <3>4
  <2> QED BY <2>1, <2>2
<1>11. OneWriter' /\ Copies' /\ RowBehind' /\ Moving' /\ Claimed'
  BY <1>2 DEF IInv, OneWriter, Copies, Owned, RowBehind, Moving, NoMoves, Posting, Claimed
<1> QED BY <1>2, <1>6, <1>9, <1>10, <1>11 DEF IInv

----------------------------------------------------------------------------
(* A warp's steps that write nothing.                                      *)

LEMMA StartStep ==
  ASSUME IInv, Careful, NEW to \in Devices, WarpStart(to)
  PROVE  IInv' /\ [Single!Next]_log
<1>1. Typed /\ Copies /\ OneWriter /\ RowBehind /\ Claimed
  BY DEF IInv
<1> DEFINE at == IF Where(log[Main]) = Main THEN "move" ELSE "leave"
<1>2. /\ UNCHANGED <<log, owner, holder, active, up, stream, batch, trouble, events>>
      /\ warp' = [at |-> at, to |-> to, rows |-> <<>>]
      /\ active = {} /\ Where(log[Main]) = holder /\ to # Where(log[Main]) /\ warp.at = "idle"
      /\ trouble.oneWay => Where(log[Main]) = Main
  BY DEF WarpStart, syncVars, Careful, Settled, NoWarp
<1>3. warp'.at = at /\ warp'.to = to /\ at \in {"move", "leave"} /\ warp' \in Warps
  <2>1. <<>> \in Seq(Messages)
    OBVIOUS
  <2> QED BY <1>2, <2>1 DEF Warps
<1>4. Typed' /\ OneWriter'
  BY <1>1, <1>2, <1>3 DEF Typed, OneWriter
<1>5. Moving'
  <2>1. CASE Where(log[Main]) = Main
    BY <1>2, <1>3, <2>1 DEF Moving
  <2>2. CASE Where(log[Main]) # Main
    <3>1. NoMoves /\ ~Owned
      BY <1>1, <1>2, <2>2 DEF RowBehind, NoMoves, Claimed
    <3> QED BY <1>2, <1>3, <2>2, <3>1 DEF Moving, NoMoves, Owned
  <2> QED BY <2>1, <2>2
<1>6. Claimed'
  BY <1>1, <1>2, <1>3 DEF Claimed, Owned
<1>7. Copies' /\ Messengers' /\ Following' /\ RowBehind'
  BY <1>2 DEF IInv, Copies, Messengers, Following, StreamFits, AllSent, Reached, Owned, RowBehind
<1> QED BY <1>2, <1>4, <1>5, <1>6, <1>7 DEF IInv

LEMMA ReadStep ==
  ASSUME IInv, Careful, WarpRead \/ WarpFail
  PROVE  IInv' /\ [Single!Next]_log
<1>1. Typed /\ Copies /\ OneWriter /\ Moving /\ Claimed
  BY DEF IInv
<1>2. /\ UNCHANGED <<log, owner, holder, active, up, stream, batch, trouble, events>>
      /\ warp.at \in {"move", "post"} /\ warp.to # Main
      /\ \/ warp' = NoWarp /\ (log[Main] = <<>> \/ trouble.fails)
         \/ warp' = [warp EXCEPT !.at = "post", !.rows = Rows(log[Main], 0)]
  BY DEF WarpRead, WarpFail, syncVars, counters
<1>3. log[Main] \in Seq(Events) /\ Len(log[Main]) \in Nat /\ Len(log[Main]) <= MaxEvents
      /\ DOMAIN log[Main] = 1..Len(log[Main])
  BY <1>1, Logs
<1>4. Copies' /\ Messengers' /\ Following' /\ RowBehind'
  BY <1>2 DEF IInv, Copies, Messengers, Following, StreamFits, AllSent, Reached, Owned, RowBehind
<1>5. CASE warp' = NoWarp /\ (log[Main] = <<>> \/ trouble.fails)
  <2>1. NoWarp \in Warps /\ warp'.at = "idle"
    BY <1>1, <1>5 DEF NoWarp, Warps, Devices
  <2>2. Typed' /\ OneWriter' /\ Moving'
    BY <1>1, <1>2, <1>5, <2>1 DEF Typed, OneWriter, Moving
  <2>3. trouble.fails => trouble.oneWay
    BY <1>1 DEF Typed, Careful
  <2>4. Claimed'
    BY <1>1, <1>2, <1>5, <2>1, <2>3, WhereEmpty DEF Claimed, Owned
  <2> QED BY <1>2, <1>4, <2>2, <2>4 DEF IInv
<1>6. CASE warp' = [warp EXCEPT !.at = "post", !.rows = Rows(log[Main], 0)]
  <2>1. PICK rows : rows = Rows(log[Main], 0)
    OBVIOUS
  <2>2. /\ rows \in Seq(Messages) /\ Len(rows) = Len(log[Main])
        /\ DOMAIN rows = 1..Len(rows)
        /\ \A i \in 1..Len(rows) : rows[i].seq = i /\ rows[i].event = log[Main][i]
    <3>1. /\ Rows(log[Main], 0) \in Seq(Messages)
          /\ Len(Rows(log[Main], 0)) = IF 0 < Len(log[Main]) THEN Len(log[Main]) - 0 ELSE 0
          /\ DOMAIN Rows(log[Main], 0) = 1..Len(Rows(log[Main], 0))
          /\ \A i \in 1..Len(Rows(log[Main], 0)) :
               Rows(log[Main], 0)[i].seq = 0 + i /\ Rows(log[Main], 0)[i].event = log[Main][0 + i]
      BY <1>3, RowsAre
    <3>2. DOMAIN rows = 1..Len(rows)
      BY <2>1, <3>1
    <3>3. rows \in Seq(Messages) /\ Len(rows) = Len(log[Main])
      BY <1>3, <2>1, <3>1
    <3>4. \A i \in 1..Len(rows) : 0 + i = i
      BY <3>3
    <3> QED BY <2>1, <3>1, <3>2, <3>3, <3>4
  <2>3. warp \in Warps /\ warp' = [warp EXCEPT !.at = "post", !.rows = rows]
    BY <1>1, <1>6, <2>1 DEF Typed
  <2>4. warp' \in Warps /\ warp'.at = "post" /\ warp'.to = warp.to /\ warp'.rows = rows
    BY <2>2, <2>3 DEF Warps
  <2>5. Typed' /\ OneWriter'
    BY <1>1, <1>2, <2>4 DEF Typed, OneWriter
  <2>6. Posting(rows, Len(log[Main]), warp.to)
    <3>1. warp.to \in Devices
      BY <1>1 DEF Typed, Warps
    <3>2. Len(log[warp.to]) \in Nat
      BY <1>1, <3>1, Logs
    <3>3. ASSUME NEW i \in DOMAIN rows
          PROVE  rows[i].seq = Len(log[Main]) - Len(rows) + i /\ Tells(log[Main], rows[i])
      <4>1. rows[i].seq = i /\ rows[i].event = log[Main][i] /\ i \in 1..Len(log[Main])
        BY <2>2
      <4> QED BY <1>3, <2>2, <4>1 DEF Tells
    <3> QED BY <1>2, <1>3, <2>2, <3>2, <3>3 DEF Posting
  <2>7. Moving'
    <3>1. (warp.to # Where(log[Main]))' /\ (log[Main] = log[holder])'
      BY <1>1, <1>2, <2>4 DEF Moving
    <3>2. Posting(warp.rows, Len(log[Main]), warp.to)'
      <4>1. warp'.rows = rows /\ warp'.to = warp.to /\ log' = log
        BY <1>2, <2>4
      <4> QED BY <2>6, <4>1 DEF Posting
    <3> QED BY <2>4, <3>1, <3>2 DEF Moving
  <2>8. Claimed'
    BY <1>1, <1>2, <2>4 DEF Claimed, Owned
  <2> QED BY <1>2, <1>4, <2>5, <2>7, <2>8 DEF IInv
<1> QED BY <1>2, <1>5, <1>6

----------------------------------------------------------------------------
(* Steps that teach Main.                                                  *)

\* What a longer log of Main's leaves true.
LEMMA MainLearns ==
  ASSUME IInv, NEW r \in Seq(Events), Starts(log[Main], r), Starts(r, log[holder]),
         Owned => r = log[Main], log' = [log EXCEPT ![Main] = r],
         UNCHANGED <<owner, holder, active, warp, trouble, events>>
  PROVE  /\ log' \in [Devices -> Seq(Events)] /\ log'[Main] = r /\ log'[holder] = log[holder]
         /\ \A w \in Workspaces : log'[w] = log[w]
         /\ Len(r) \in Nat /\ Len(log[Main]) <= Len(r)
         /\ OneWriter' /\ Copies' /\ RowBehind' /\ Moving' /\ Claimed'
<1>1. Typed /\ Copies /\ RowBehind /\ Moving /\ Claimed /\ OneWriter
  BY DEF IInv
<1>2. /\ log[Main] \in Seq(Events) /\ log[holder] \in Seq(Events) /\ log \in [Devices -> Seq(Events)]
      /\ Main \in Devices /\ Workspaces \subseteq Devices /\ holder \in Devices
      /\ holder' = holder
  BY <1>1 DEF Typed, Devices
<1>3. /\ Len(r) \in Nat /\ Len(log[Main]) \in Nat /\ Len(log[Main]) <= Len(r)
      /\ DOMAIN r = 1..Len(r) /\ DOMAIN log[Main] = 1..Len(log[Main])
  BY <1>2, StartsIs
<1>4. /\ Len(log[holder]) \in Nat /\ Len(r) <= Len(log[holder])
      /\ DOMAIN log[holder] = 1..Len(log[holder])
      /\ \A i \in 1..Len(r) : r[i] = log[holder][i]
      /\ Len(log[holder]) <= Len(r) => r = log[holder]
  BY <1>2, StartsIs
<1>5. /\ log' \in [Devices -> Seq(Events)] /\ log'[Main] = r
      /\ \A d \in Devices : d # Main => log'[d] = log[d]
  BY <1>2
<1>6. \A w \in Workspaces : log'[w] = log[w]
  BY <1>2, <1>5, MainAssumption
<1>7. log[Main] = log[holder] => r = log[Main]
  BY <1>3, <1>4
<1>8. log'[holder] = log[holder]
  <2>1. CASE holder = Main
    BY <1>5, <1>7, <2>1
  <2>2. CASE holder # Main
    BY <1>2, <1>5, <2>2
  <2> QED BY <2>1, <2>2
<1>9. Copies' /\ OneWriter'
  BY <1>1, <1>2, <1>5, <1>8 DEF Copies, OneWriter
<1>10. RowBehind'
  <2> SUFFICES ASSUME NEW j \in DOMAIN log[holder], j > Len(r), log[holder][j].to # Stay
               PROVE  j = Len(r) + 1 /\ Where(r) # holder
    BY <1>2, <1>5, <1>8 DEF RowBehind
  <2>1. j \in Nat /\ j > Len(log[Main])
    BY <1>3, <1>4
  <2>2. j = Len(log[Main]) + 1 /\ Where(log[Main]) # holder
    BY <1>1, <2>1 DEF RowBehind
  <2>3. Starts(log[Main], r) /\ Len(r) <= Len(log[Main])
    BY <1>3, <2>1, <2>2
  <2>4. r = log[Main]
    BY <1>2, <2>3, StartsIs
  <2> QED BY <2>2, <2>4
<1>11. warp.at # "idle" => Where(r) = Where(log[Main])
  <2>1. CASE warp.at = "leave"
    <3>1. \A j \in DOMAIN r : j > Len(log[Main]) => r[j].to = Stay
      BY <1>1, <1>3, <1>4, <2>1 DEF Moving, NoMoves
    <3> QED BY <1>2, <3>1, WhereSame
  <2>2. CASE warp.at \in {"move", "post"}
    BY <1>1, <1>7, <2>2 DEF Moving
  <2>3. warp.at \in {"idle", "leave", "move", "post"}
    BY <1>1 DEF Typed, Warps
  <2> QED BY <2>1, <2>2, <2>3
<1>12. Moving'
  <2>1. warp.at = "leave" => NoMoves'
    BY <1>1, <1>2, <1>3, <1>4, <1>5, <1>8 DEF Moving, NoMoves
  <2>2. warp.at = "leave" => (holder # Main /\ Where(log[Main]) = holder /\ ~Owned)'
    BY <1>1, <1>2, <1>5, <1>11 DEF Moving, Owned
  <2>3. warp'.at # "idle" => warp'.to # Where(log'[Main])
    BY <1>1, <1>5, <1>11 DEF Moving
  <2>4. warp.at \in {"move", "post"} => r = log[Main] /\ log'[Main] = log'[holder]
    BY <1>1, <1>5, <1>7, <1>8 DEF Moving
  <2>5. log[Main] = r => log' = log
    BY <1>2
  <2>6. warp'.at = "post" => Posting(warp.rows, Len(log[Main]), warp.to)'
    BY <1>1, <2>4, <2>5 DEF Moving, Posting
  <2> QED BY <1>2, <2>1, <2>2, <2>3, <2>4, <2>6 DEF Moving
<1>13. Claimed'
  <2>1. Owned => log' = log
    BY <1>2
  <2> QED BY <1>1, <2>1 DEF Claimed, Owned
<1> QED BY <1>3, <1>5, <1>6, <1>8, <1>9, <1>10, <1>12, <1>13

LEMMA ReplayHistoryStep ==
  ASSUME IInv, NEW w \in Workspaces, ReplayHistory(w)
  PROVE  IInv' /\ [Single!Next]_log
<1>1. Typed /\ Copies /\ Messengers /\ Following
  BY DEF IInv
<1>2. /\ UNCHANGED <<owner, holder, active, warp, trouble, events, stream>>
      /\ up[w] = "history" /\ up' = [up EXCEPT ![w] = "live"]
      /\ batch' = [batch EXCEPT ![w] = <<>>]
      /\ log' = [log EXCEPT ![Main] = ReplayAll(log[Main], Owned, batch[w])]
  BY <1>1, Logs DEF ReplayHistory, counters, Typed
<1>3. PICK owned \in BOOLEAN : owned = Owned
  BY DEF Owned
<1>4. PICK r : r = ReplayAll(log[Main], owned, batch[w])
  OBVIOUS
<1>5. /\ log[Main] \in Seq(Events) /\ log[holder] \in Seq(Events) /\ log[w] \in Seq(Events)
      /\ batch[w] \in Seq(Messages) /\ stream[w] \in Seq(Messages)
      /\ Starts(log[Main], log[holder]) /\ Starts(log[w], log[holder])
      /\ Len(log[w]) \in Nat /\ Len(log[Main]) \in Nat
  BY <1>1, Logs DEF Typed, Copies
<1>6. \A i \in DOMAIN batch[w] : Tells(log[holder], batch[w][i])
  <2>1. \A i \in DOMAIN batch[w] : Tells(log[w], batch[w][i])
    BY <1>1 DEF Messengers
  <2> QED BY <1>5, <2>1, StartsIs DEF Tells
<1>7. InOrder(batch[w]) /\ (batch[w] # <<>> => batch[w][1].seq <= Len(log[Main]) + 1)
  BY <1>1 DEF Messengers
<1>8. /\ r \in Seq(Events) /\ Starts(log[Main], r) /\ Starts(r, log[holder])
      /\ owned \/ batch[w] = <<>> => r = log[Main]
      /\ ~owned /\ batch[w] # <<>> => batch[w][Len(batch[w])].seq <= Len(r)
  <2>1. LET q == ReplayAll(log[Main], owned, batch[w]) IN
        /\ q \in Seq(Events) /\ Starts(log[Main], q) /\ Starts(q, log[holder])
        /\ owned \/ batch[w] = <<>> => q = log[Main]
        /\ ~owned /\ batch[w] # <<>> /\ batch[w][1].seq <= Len(log[Main]) + 1
             => batch[w][Len(batch[w])].seq <= Len(q)
    BY <1>5, <1>6, <1>7, ReplayAllIs
  <2> QED BY <1>4, <1>7, <2>1
<1>9. log' = [log EXCEPT ![Main] = r] /\ (Owned => r = log[Main])
  BY <1>2, <1>3, <1>4, <1>8
<1>10. /\ log' \in [Devices -> Seq(Events)] /\ log'[Main] = r /\ log'[holder] = log[holder]
       /\ \A v \in Workspaces : log'[v] = log[v]
       /\ Len(r) \in Nat /\ Len(log[Main]) <= Len(r)
       /\ OneWriter' /\ Copies' /\ RowBehind' /\ Moving' /\ Claimed'
  BY <1>2, <1>8, <1>9, MainLearns
<1>11. /\ \A v \in Workspaces : v # w => batch'[v] = batch[v] /\ up'[v] = up[v]
       /\ batch'[w] = <<>> /\ up'[w] = "live"
  BY <1>1, <1>2 DEF Typed
<1>12. Typed'
  BY <1>1, <1>2, <1>10, <1>11 DEF Typed
<1>13. Messengers'
  <2> SUFFICES ASSUME NEW v \in Workspaces
               PROVE /\ \A i \in DOMAIN stream[v] : Tells(log[v], stream[v][i])
                     /\ \A i \in DOMAIN batch'[v] : Tells(log[v], batch'[v][i])
                     /\ InOrder(batch'[v])
                     /\ batch'[v] # <<>> => batch'[v][1].seq <= Len(r) + 1
    BY <1>2, <1>10 DEF Messengers
  <2>1. \A i \in DOMAIN stream[v] : Tells(log[v], stream[v][i])
    BY <1>1 DEF Messengers
  <2>2. CASE v = w
    BY <1>11, <2>1, <2>2 DEF InOrder
  <2>3. CASE v # w
    <3>1. batch[v] \in Seq(Messages)
      BY <1>1 DEF Typed
    <3>2. batch[v] # <<>> => batch[v][1].seq \in Nat
      BY <3>1, MessagesAre
    <3>3. batch[v] # <<>> => batch[v][1].seq <= Len(log[Main]) + 1
      BY <1>1 DEF Messengers
    <3>4. batch[v] # <<>> => batch[v][1].seq <= Len(r) + 1
      BY <1>5, <1>10, <3>2, <3>3
    <3> QED BY <1>1, <1>11, <2>1, <2>3, <3>4 DEF Messengers
  <2> QED BY <2>2, <2>3
<1>14. Following'
  <2> SUFFICES ASSUME ~Owned, NEW v \in Workspaces, up'[v] \in {"history", "live"}
               PROVE  StreamFits(v)' /\ AllSent(v)'
    BY <1>2 DEF Following, Owned
  <2>1. up[v] \in {"history", "live"}
    BY <1>2, <1>11
  <2>2. StreamFits(v) /\ AllSent(v)
    BY <1>1, <2>1 DEF Following
  <2>3. ASSUME NEW n \in Int, Reached(v, n) PROVE Reached(v, n)'
    <3>1. CASE n <= Len(log[Main])
      BY <1>5, <1>10, <3>1 DEF Reached
    <3>2. CASE v # w /\ ~(n <= Len(log[Main]))
      BY <1>11, <2>3, <3>2 DEF Reached
    <3>3. CASE v = w /\ ~(n <= Len(log[Main]))
      <4>1. PICK i \in DOMAIN batch[w] : n <= batch[w][i].seq
        BY <2>3, <3>3 DEF Reached
      <4>2. /\ Len(batch[w]) \in Nat /\ DOMAIN batch[w] = 1..Len(batch[w])
            /\ \A k \in 1..Len(batch[w]) : batch[w][k].seq \in Nat
        BY <1>5, MessagesAre
      <4>3. batch[w] # <<>> /\ Len(batch[w]) \in 1..Len(batch[w]) /\ i <= Len(batch[w])
        BY <4>1, <4>2
      <4>4. batch[w][i].seq <= batch[w][Len(batch[w])].seq
        <5>1. /\ batch[w][i].seq = batch[w][1].seq + i - 1
              /\ batch[w][Len(batch[w])].seq = batch[w][1].seq + Len(batch[w]) - 1
              /\ batch[w][1].seq \in Nat
          <6>1. 1 \in 1..Len(batch[w]) /\ i \in DOMAIN batch[w] /\ Len(batch[w]) \in DOMAIN batch[w]
            BY <4>2, <4>3
          <6>2. \A k \in DOMAIN batch[w] : batch[w][k].seq = batch[w][1].seq + k - 1
            BY <1>7 DEF InOrder
          <6> QED BY <4>2, <6>1, <6>2
        <5> QED BY <4>1, <4>2, <4>3, <5>1
      <4>5. batch[w][Len(batch[w])].seq <= Len(r)
        BY <1>3, <1>8, <4>3
      <4>6. n <= Len(r)
        <5>1. /\ Len(r) \in Nat /\ batch[w][i].seq \in Nat /\ batch[w][Len(batch[w])].seq \in Nat
              /\ n <= batch[w][i].seq
          BY <1>10, <4>1, <4>2, <4>3
        <5> QED BY <4>4, <4>5, <5>1
      <4> QED BY <1>10, <4>6 DEF Reached
    <3> QED BY <3>1, <3>2, <3>3
  <2>4. AllSent(v)'
    <3>1. Len(log[v]) \in Int
      BY <1>1, Logs
    <3> QED BY <1>2, <1>10, <2>2, <2>3, <3>1 DEF AllSent
  <2>5. StreamFits(v)'
    <3>1. \A i \in DOMAIN stream[v] : stream[v][i].seq - 1 \in Int
      <4>1. stream[v] \in Seq(Messages)
        BY <1>1 DEF Typed
      <4> QED BY <4>1, MessagesAre
    <3>2. ASSUME NEW i \in DOMAIN stream[v], Reached(v, stream[v][i].seq - 1)
          PROVE  Reached(v, stream[v][i].seq - 1)'
      <4>1. PICK n \in Int : n = stream[v][i].seq - 1
        BY <3>1
      <4>2. Reached(v, n)'
        BY <2>3, <3>2, <4>1
      <4> QED BY <1>2, <4>1, <4>2 DEF Reached
    <3> QED BY <1>2, <2>2, <3>2 DEF StreamFits
  <2> QED BY <2>4, <2>5
<1>15. [Single!Next]_log
  BY <1>1, <1>5, <1>8, <1>9, LearnIs DEF Devices
<1> QED BY <1>15, <1>10, <1>12, <1>13, <1>14 DEF IInv

LEMMA TellsMore ==
  ASSUME NEW s \in Seq(Events), NEW t \in Seq(Events), Starts(s, t), NEW m, Tells(s, m)
  PROVE  Tells(t, m)
<1>1. /\ Len(s) \in Nat /\ Len(t) \in Nat /\ Len(s) <= Len(t)
      /\ DOMAIN s = 1..Len(s) /\ DOMAIN t = 1..Len(t) /\ \A i \in 1..Len(s) : s[i] = t[i]
  BY StartsIs
<1>2. PICK i \in 1..Len(s) : i = m.seq /\ m.event = s[i]
  BY <1>1 DEF Tells
<1>3. i \in 1..Len(t) /\ s[i] = t[i]
  BY <1>1, <1>2
<1> QED BY <1>1, <1>2, <1>3 DEF Tells

LEMMA TailIs ==
  ASSUME NEW s \in Seq(Messages), s # <<>>
  PROVE  /\ Tail(s) \in Seq(Messages) /\ Len(Tail(s)) = Len(s) - 1
         /\ DOMAIN Tail(s) = 1..Len(Tail(s)) /\ Len(Tail(s)) \in Nat
         /\ \A i \in 1..Len(Tail(s)) : Tail(s)[i] = s[i + 1]
<1>1. Len(s) \in Nat /\ Len(s) # 0
  OBVIOUS
<1>2. Tail(s) \in Seq(Messages) /\ Len(Tail(s)) = Len(s) - 1
  OBVIOUS
<1>3. DOMAIN Tail(s) = 1..Len(Tail(s)) /\ Len(Tail(s)) \in Nat
  BY <1>1, <1>2
<1>4. \A i \in 1..Len(Tail(s)) : Tail(s)[i] = s[i + 1]
  BY <1>1, <1>2
<1> QED BY <1>2, <1>3, <1>4

LEMMA ReadStreamStep ==
  ASSUME IInv, NEW w \in Workspaces, ReadStream(w)
  PROVE  IInv' /\ [Single!Next]_log
<1>1. Typed /\ Copies /\ Messengers /\ Following
  BY DEF IInv
<1>2. /\ UNCHANGED <<owner, holder, active, warp, trouble, events, up, batch>>
      /\ up[w] = "live" /\ stream[w] # <<>>
      /\ stream' = [stream EXCEPT ![w] = Tail(stream[w])]
      /\ log' = [log EXCEPT ![Main] = Replay(log[Main], Owned, Head(stream[w]))]
  BY <1>1, Logs DEF ReadStream, counters, Typed
<1>3. PICK owned \in BOOLEAN : owned = Owned
  BY DEF Owned
<1>4. /\ log[Main] \in Seq(Events) /\ log[holder] \in Seq(Events) /\ log[w] \in Seq(Events)
      /\ stream[w] \in Seq(Messages)
      /\ Starts(log[Main], log[holder]) /\ Starts(log[w], log[holder])
      /\ Len(log[w]) \in Nat /\ Len(log[Main]) \in Nat
  BY <1>1, Logs DEF Typed, Copies
<1>5. PICK s \in Seq(Messages) : s = stream[w]
  BY <1>4
<1>6. /\ Len(s) \in Nat /\ DOMAIN s = 1..Len(s) /\ 1 \in 1..Len(s)
      /\ \A i \in 1..Len(s) : s[i] \in Messages /\ s[i].seq \in Nat \ {0}
  <2>1. s # <<>>
    BY <1>2, <1>5
  <2> QED BY <1>5, <2>1, MessagesAre
<1>7. PICK t \in Seq(Messages) :
        /\ t = Tail(s) /\ Len(t) = Len(s) - 1 /\ DOMAIN t = 1..Len(t) /\ Len(t) \in Nat
        /\ \A i \in 1..Len(t) : t[i] = s[i + 1]
  <2>1. s # <<>>
    BY <1>2, <1>5
  <2> QED BY <2>1, TailIs
<1>8. PICK m \in Messages : m = s[1] /\ m.seq \in Nat \ {0}
  BY <1>6
<1>9. PICK r : r = Replay(log[Main], owned, m)
  OBVIOUS
<1>10. /\ stream' = [stream EXCEPT ![w] = t]
       /\ log' = [log EXCEPT ![Main] = r]
  <2>1. Head(s) = m
    BY <1>8
  <2>2. log' = [log EXCEPT ![Main] = Replay(log[Main], owned, m)]
    BY <1>2, <1>3, <1>5, <2>1
  <2> QED BY <1>2, <1>5, <1>7, <1>9, <2>2
<1>11. Tells(log[holder], m)
  <2>1. Tells(log[w], m)
    BY <1>1, <1>5, <1>6, <1>8 DEF Messengers
  <2> QED BY <1>4, <2>1, TellsMore
<1>12. /\ r \in Seq(Events) /\ Starts(log[Main], r) /\ Starts(r, log[holder])
       /\ owned => r = log[Main]
       /\ ~owned /\ m.seq <= Len(log[Main]) + 1 => m.seq <= Len(r)
  <2>1. LET q == Replay(log[Main], owned, m) IN
        /\ q \in Seq(Events) /\ Starts(log[Main], q) /\ Starts(q, log[holder])
        /\ owned => q = log[Main]
        /\ ~owned /\ m.seq <= Len(log[Main]) + 1 => m.seq <= Len(q)
    BY <1>4, <1>11, ReplayIs
  <2> QED BY <1>9, <2>1
<1>13. /\ log' \in [Devices -> Seq(Events)] /\ log'[Main] = r /\ log'[holder] = log[holder]
       /\ \A v \in Workspaces : log'[v] = log[v]
       /\ Len(r) \in Nat /\ Len(log[Main]) <= Len(r)
       /\ OneWriter' /\ Copies' /\ RowBehind' /\ Moving' /\ Claimed'
  <2>1. Owned => r = log[Main]
    BY <1>3, <1>12
  <2> QED BY <1>2, <1>10, <1>12, <2>1, MainLearns
<1>14. /\ \A v \in Workspaces : v # w => stream'[v] = stream[v]
       /\ stream'[w] = t
  BY <1>1, <1>10 DEF Typed
<1>15. Typed'
  BY <1>1, <1>2, <1>10, <1>13, <1>14 DEF Typed
<1>16. Messengers'
  <2> SUFFICES ASSUME NEW v \in Workspaces
               PROVE /\ \A i \in DOMAIN stream'[v] : Tells(log[v], stream'[v][i])
                     /\ \A i \in DOMAIN batch[v] : Tells(log[v], batch[v][i])
                     /\ InOrder(batch[v])
                     /\ batch[v] # <<>> => batch[v][1].seq <= Len(r) + 1
    BY <1>2, <1>13 DEF Messengers
  <2>1. /\ \A i \in DOMAIN batch[v] : Tells(log[v], batch[v][i])
        /\ \A i \in DOMAIN stream[v] : Tells(log[v], stream[v][i])
        /\ InOrder(batch[v])
    BY <1>1 DEF Messengers
  <2>2. batch[v] # <<>> => batch[v][1].seq <= Len(r) + 1
    <3>1. batch[v] \in Seq(Messages)
      BY <1>1 DEF Typed
    <3>2. batch[v] # <<>> => batch[v][1].seq \in Nat
      BY <3>1, MessagesAre
    <3>3. batch[v] # <<>> => batch[v][1].seq <= Len(log[Main]) + 1
      BY <1>1 DEF Messengers
    <3> QED BY <1>4, <1>13, <3>2, <3>3
  <2>3. \A i \in DOMAIN stream'[v] : Tells(log[v], stream'[v][i])
    <3>1. CASE v # w
      BY <1>14, <2>1, <3>1
    <3>2. CASE v = w
      <4>1. ASSUME NEW i \in 1..Len(t) PROVE Tells(log[w], t[i])
        <5>1. i + 1 \in 1..Len(s) /\ t[i] = s[i + 1]
          BY <1>6, <1>7
        <5> QED BY <1>5, <1>6, <2>1, <3>2, <5>1
      <4> QED BY <1>7, <1>14, <3>2, <4>1
    <3> QED BY <3>1, <3>2
  <2> QED BY <2>1, <2>2, <2>3
<1>17. Following'
  <2> SUFFICES ASSUME ~Owned, NEW v \in Workspaces, up[v] \in {"history", "live"}
               PROVE  StreamFits(v)' /\ AllSent(v)'
    BY <1>2 DEF Following, Owned
  <2>1. StreamFits(v) /\ AllSent(v)
    BY <1>1 DEF Following
  <2>2. ASSUME NEW n \in Int, Reached(v, n) PROVE Reached(v, n)'
    <3>1. CASE n <= Len(log[Main])
      BY <1>4, <1>13, <3>1 DEF Reached
    <3>2. CASE ~(n <= Len(log[Main]))
      BY <1>2, <2>2, <3>2 DEF Reached
    <3> QED BY <3>1, <3>2
  <2>3. CASE v # w
    <3>1. stream'[v] = stream[v] /\ Len(log[v]) \in Int /\ stream[v] \in Seq(Messages)
      BY <1>1, <1>14, <2>3, Logs
    <3>2. AllSent(v)'
      BY <1>13, <2>1, <2>2, <3>1 DEF AllSent
    <3>3. ASSUME NEW i \in DOMAIN stream[v], Reached(v, stream[v][i].seq - 1)
          PROVE  \E n \in Int : n = stream[v][i].seq - 1 /\ Reached(v, n)'
      <4>1. PICK n \in Int : n = stream[v][i].seq - 1
        <5>1. stream[v][i].seq \in Nat
          BY <3>1, MessagesAre
        <5> QED BY <5>1
      <4>2. Reached(v, n)'
        BY <2>2, <3>3, <4>1
      <4> QED BY <4>1, <4>2
    <3>4. StreamFits(v)'
      BY <2>1, <3>1, <3>3 DEF StreamFits, Reached
    <3> QED BY <3>2, <3>4
  <2>4. CASE v = w
    <3>1. m.seq <= Len(r)
      <4>1. batch[w] = <<>>
        BY <1>1, <1>2 DEF Typed
      <4>2. Reached(w, m.seq - 1)
        <5>1. \A i \in DOMAIN s : Reached(w, s[i].seq - 1) \/ (i > 1 /\ s[i].seq - 1 <= s[i - 1].seq)
          BY <1>5, <2>1, <2>4 DEF StreamFits
        <5> QED BY <1>6, <1>8, <5>1
      <4>3. m.seq - 1 <= Len(log[Main])
        BY <4>1, <4>2 DEF Reached
      <4>4. ~owned
        BY <1>3
      <4> QED BY <1>4, <1>8, <1>12, <4>3, <4>4
    <3>2. AllSent(w)'
      <4>1. CASE Reached(w, Len(log[w]))
        <5>1. Reached(w, Len(log[w]))'
          <6>1. PICK n \in Int : n = Len(log[w])
            BY <1>4
          <6>2. Reached(w, n)'
            BY <2>2, <2>4, <4>1, <6>1
          <6> QED BY <1>13, <6>1, <6>2 DEF Reached
        <5> QED BY <5>1 DEF AllSent
      <4>2. CASE Len(log[w]) <= s[Len(s)].seq
        <5>1. CASE Len(s) = 1
          <6>1. Len(log[w]) <= Len(r)
            BY <1>4, <1>8, <1>13, <3>1, <4>2, <5>1
          <6> QED BY <1>13, <6>1 DEF AllSent, Reached
        <5>2. CASE Len(s) # 1
          <6>1. Len(t) \in 1..Len(t) /\ Len(t) + 1 = Len(s)
            BY <1>6, <1>7, <5>2
          <6>2. t # <<>> /\ t[Len(t)] = s[Len(s)]
            <7>1. PICK q \in 1..Len(t) : q = Len(t) /\ q + 1 = Len(s)
              BY <6>1
            <7>2. t[q] = s[q + 1]
              BY <1>7, <7>1
            <7>3. t # <<>>
              <8>1. Len(<<>>) = 0
                OBVIOUS
              <8> QED BY <7>1, <8>1
            <7> QED BY <7>1, <7>2, <7>3
          <6> QED BY <1>13, <1>14, <4>2, <6>2 DEF AllSent
        <5> QED BY <5>1, <5>2
      <4> QED BY <1>5, <2>1, <2>4, <4>1, <4>2 DEF AllSent
    <3>3. ASSUME NEW i \in 1..Len(t)
          PROVE  (\E n \in Int : n = t[i].seq - 1 /\ Reached(w, n)') \/ (i > 1 /\ t[i].seq - 1 <= t[i - 1].seq)
      <4>1. i + 1 \in 1..Len(s) /\ t[i] = s[i + 1] /\ (i + 1) - 1 = i
        BY <1>6, <1>7
      <4>2. Reached(w, s[i + 1].seq - 1) \/ s[i + 1].seq - 1 <= s[(i + 1) - 1].seq
        BY <1>5, <1>6, <2>1, <2>4, <4>1 DEF StreamFits
      <4>3. PICK n \in Int : n = t[i].seq - 1
        BY <1>6, <4>1
      <4>4. CASE Reached(w, n)
        BY <2>2, <2>4, <4>3, <4>4
      <4>5. CASE n <= s[i].seq /\ i = 1
        <5>1. n <= Len(r)
          BY <1>6, <1>8, <1>13, <3>1, <4>5
        <5>2. Reached(w, n)'
          BY <1>13, <5>1 DEF Reached
        <5> QED BY <4>3, <5>2
      <4>6. CASE n <= s[i].seq /\ i # 1
        <5>1. i - 1 \in 1..Len(t) /\ (i - 1) + 1 = i
          BY <1>7, <4>6
        <5>2. t[i - 1] = s[i]
          BY <1>7, <5>1
        <5> QED BY <4>3, <4>6, <5>2
      <4> QED BY <4>1, <4>2, <4>3, <4>4, <4>5, <4>6
    <3>4. StreamFits(w)'
      BY <1>7, <1>14, <3>3 DEF StreamFits, Reached
    <3> QED BY <2>4, <3>2, <3>4
  <2> QED BY <2>3, <2>4
<1>18. [Single!Next]_log
  BY <1>1, <1>10, <1>12, LearnIs DEF Devices
<1> QED BY <1>18, <1>13, <1>15, <1>16, <1>17 DEF IInv

\* The last history brings everything, then the old place is claimed against.
LEMMA LeaveStep ==
  ASSUME IInv, Careful, NEW a \in trouble.answers, WarpLeave(a)
  PROVE  IInv' /\ [Single!Next]_log
<1>1. Typed /\ Copies /\ OneWriter /\ Messengers /\ Moving /\ Claimed
  BY DEF IInv
<1>2. /\ warp.at = "leave" /\ holder # Main /\ Where(log[Main]) = holder /\ NoMoves /\ ~Owned
      /\ warp.to # holder /\ warp.to \in Devices /\ ~trouble.oneWay
  BY <1>1 DEF WarpLeave, Moving, Claimed, Typed, Warps
<1>3. a = TRUE
  BY <1>1, <1>2 DEF Careful, Typed
<1>4. holder \in Workspaces
  BY <1>1, <1>2 DEF Typed, Devices
<1>5. /\ UNCHANGED <<holder, active, up, stream, batch, trouble, events>>
      /\ owner' = warp.to /\ warp' = [warp EXCEPT !.at = "move"]
      /\ log' = [log EXCEPT ![Main] = ReplayAll(log[Main], Owned, Asked(holder))]
  BY <1>1, <1>2, <1>3 DEF WarpLeave, syncVars, counters, Typed
<1>6. /\ log[Main] \in Seq(Events) /\ log[holder] \in Seq(Events)
      /\ Starts(log[Main], log[holder]) /\ Len(log[Main]) \in Nat /\ Len(log[holder]) \in Nat
      /\ Len(log[Main]) <= Len(log[holder]) /\ Len(log[holder]) <= MaxEvents
      /\ DOMAIN log[holder] = 1..Len(log[holder]) /\ Main \in Devices /\ Workspaces \subseteq Devices
  BY <1>1, Logs DEF Typed, Copies
<1>7. PICK n \in Nat : n = Len(log[Main])
  BY <1>6
<1>8. PICK b : b = Rows(log[holder], n)
  OBVIOUS
<1>9. Asked(holder) = b
  BY <1>2, <1>7, <1>8 DEF Asked
<1>10. /\ b \in Seq(Messages) /\ DOMAIN b = 1..Len(b)
       /\ Len(b) = IF n < Len(log[holder]) THEN Len(log[holder]) - n ELSE 0
       /\ \A i \in 1..Len(b) : b[i].seq = n + i /\ b[i].event = log[holder][n + i]
  BY <1>6, <1>8, RowsAre
<1>11. InOrder(b) /\ \A i \in DOMAIN b : Tells(log[holder], b[i])
  <2>1. ASSUME NEW i \in DOMAIN b PROVE b[i].seq = b[1].seq + i - 1 /\ Tells(log[holder], b[i])
    <3>1. n + i \in 1..Len(log[holder]) /\ 1 \in 1..Len(b) /\ n + i = (n + 1) + i - 1
      BY <1>6, <1>10
    <3> QED BY <1>6, <1>10, <3>1 DEF Tells
  <2> QED BY <2>1 DEF InOrder
<1>12. PICK r : r = ReplayAll(log[Main], FALSE, b)
  OBVIOUS
<1>13. log' = [log EXCEPT ![Main] = r]
  <2>1. Owned = FALSE
    BY <1>2 DEF Owned
  <2> QED BY <1>5, <1>9, <1>12, <2>1
<1>14. r = log[holder]
  <2>1. LET q == ReplayAll(log[Main], FALSE, b) IN
        /\ q \in Seq(Events) /\ Starts(log[Main], q) /\ Starts(q, log[holder])
        /\ FALSE \/ b = <<>> => q = log[Main]
        /\ ~FALSE /\ b # <<>> /\ b[1].seq <= Len(log[Main]) + 1 => b[Len(b)].seq <= Len(q)
    BY <1>6, <1>10, <1>11, ReplayAllIs
  <2>2. r \in Seq(Events) /\ Starts(r, log[holder])
    BY <1>12, <2>1
  <2>3. Len(log[holder]) <= Len(r)
    <3>1. CASE n < Len(log[holder])
      <4>1. 1 \in 1..Len(b) /\ Len(b) \in 1..Len(b) /\ b # <<>> /\ n + Len(b) = Len(log[holder])
        BY <1>6, <1>10, <3>1
      <4>2. b[1].seq <= Len(log[Main]) + 1 /\ b[Len(b)].seq = Len(log[holder])
        <5>1. b[1].seq = n + 1 /\ b[Len(b)].seq = n + Len(b)
          BY <1>10, <4>1
        <5> QED BY <1>6, <1>7, <4>1, <5>1
      <4> QED BY <1>12, <2>1, <4>1, <4>2
    <3>2. CASE ~(n < Len(log[holder]))
      <4>1. b = <<>>
        BY <1>10, <3>2
      <4>2. r = log[Main]
        BY <1>12, <2>1, <4>1
      <4> QED BY <1>6, <1>7, <3>2, <4>2
    <3> QED BY <3>1, <3>2
  <2> QED BY <1>6, <2>2, <2>3, StartsIs
<1>15. /\ log' \in [Devices -> Seq(Events)] /\ log'[Main] = log[holder] /\ log'[holder] = log[holder]
       /\ \A d \in Devices : d # Main => log'[d] = log[d]
       /\ \A w \in Workspaces : log'[w] = log[w]
  BY <1>1, <1>2, <1>6, <1>13, <1>14, MainAssumption DEF Typed
<1>16. warp'.at = "move" /\ warp'.to = warp.to /\ warp' \in Warps
  BY <1>1, <1>5 DEF Typed, Warps
<1>17. Typed' /\ OneWriter'
  BY <1>1, <1>2, <1>5, <1>15, <1>16 DEF Typed, OneWriter
<1>18. Copies'
  <2>1. Starts(log[holder], log[holder])
    BY <1>6 DEF Starts
  <2>2. \A d \in Devices : Starts(log'[d], log[holder])
    <3> SUFFICES ASSUME NEW d \in Devices PROVE Starts(log'[d], log[holder])
      OBVIOUS
    <3>1. CASE d = Main
      BY <1>15, <2>1, <3>1
    <3>2. CASE d # Main
      BY <1>1, <1>15, <3>2 DEF Copies
    <3> QED BY <3>1, <3>2
  <2> QED BY <1>1, <1>5, <1>15, <2>2 DEF Copies
<1>19. Messengers'
  <2>1. ASSUME NEW w \in Workspaces, batch[w] # <<>> PROVE batch[w][1].seq <= Len(log'[Main]) + 1
    <3>1. batch[w][1].seq \in Nat /\ batch[w][1].seq <= Len(log[Main]) + 1
      BY <1>1, <2>1, MessagesAre DEF Typed, Messengers
    <3> QED BY <1>6, <1>15, <3>1
  <2> QED BY <1>1, <1>5, <1>15, <2>1 DEF Messengers
<1>20. Where(log'[Main]) = holder
  BY <1>2, <1>6, <1>15, WhereSame DEF NoMoves
<1>21. Following' /\ Claimed'
  <2>1. Owned'
    BY <1>2, <1>5, NamesAssumption DEF Owned
  <2> QED BY <1>2, <1>5, <1>16, <1>20, <2>1 DEF Following, Claimed
<1>22. RowBehind' /\ Moving'
  BY <1>2, <1>5, <1>6, <1>15, <1>16, <1>20 DEF RowBehind, Moving
<1>23. [Single!Next]_log
  <2>1. Starts(log[holder], log[holder])
    BY <1>6 DEF Starts
  <2>2. log' = [log EXCEPT ![Main] = log[holder]]
    BY <1>13, <1>14
  <2> QED BY <1>1, <1>6, <2>1, <2>2, LearnIs
<1> QED BY <1>23, <1>17, <1>18, <1>19, <1>21, <1>22 DEF IInv

----------------------------------------------------------------------------
(* Posting the log, and the steps that write.                              *)

LEMMA PartOf ==
  ASSUME NEW s \in Seq(Messages), NEW n \in Nat \ {0}
  PROVE  /\ First(s, n) \in Seq(Messages) /\ Cut(s, n) \in Seq(Messages)
         /\ DOMAIN First(s, n) = 1..Len(First(s, n)) /\ DOMAIN Cut(s, n) = 1..Len(Cut(s, n))
         /\ Len(First(s, n)) = IF Len(s) <= n THEN Len(s) ELSE n
         /\ Len(Cut(s, n)) = IF Len(s) <= n THEN 0 ELSE Len(s) - n
         /\ \A i \in 1..Len(First(s, n)) : First(s, n)[i] = s[i]
         /\ \A i \in 1..Len(Cut(s, n)) : Cut(s, n)[i] = s[n + i]
<1>1. Len(s) \in Nat /\ DOMAIN s = 1..Len(s)
  OBVIOUS
<1>2. CASE Len(s) <= n
  <2>1. First(s, n) = s
    BY <1>2 DEF First
  <2>2. Cut(s, n) = <<>>
    BY <1>1, <1>2 DEF Cut
  <2>3. <<>> \in Seq(Messages) /\ Len(<<>>) = 0 /\ DOMAIN <<>> = 1..0
    OBVIOUS
  <2> QED BY <1>1, <1>2, <2>1, <2>2, <2>3
<1>3. CASE ~(Len(s) <= n)
  <2>1. First(s, n) = SubSeq(s, 1, n)
    BY <1>3 DEF First
  <2>2. /\ SubSeq(s, 1, n) \in Seq(Messages) /\ Len(SubSeq(s, 1, n)) = n
        /\ \A i \in 1..n : SubSeq(s, 1, n)[i] = s[i]
    <3>1. /\ SubSeq(s, 1, n) \in Seq(Messages)
          /\ Len(SubSeq(s, 1, n)) = IF 1 <= n THEN n - 1 + 1 ELSE 0
          /\ \A i \in 1..(n - 1 + 1) : SubSeq(s, 1, n)[i] = s[1 + i - 1]
      BY <1>1, <1>3, SubSeqProperties
    <3>2. n - 1 + 1 = n /\ \A i \in 1..n : 1 + i - 1 = i
      OBVIOUS
    <3> QED BY <3>1, <3>2
  <2>3. /\ Cut(s, n) \in Seq(Messages) /\ Len(Cut(s, n)) = Len(s) - n
        /\ \A i \in 1..(Len(s) - n) : Cut(s, n)[i] = s[n + i]
    <3>1. /\ SubSeq(s, n + 1, Len(s)) \in Seq(Messages)
          /\ Len(SubSeq(s, n + 1, Len(s))) = IF n + 1 <= Len(s) THEN Len(s) - (n + 1) + 1 ELSE 0
          /\ \A i \in 1..(Len(s) - (n + 1) + 1) : SubSeq(s, n + 1, Len(s))[i] = s[(n + 1) + i - 1]
      BY <1>1, <1>3, SubSeqProperties
    <3>2. Len(s) - (n + 1) + 1 = Len(s) - n /\ \A i \in 1..(Len(s) - n) : (n + 1) + i - 1 = n + i
      BY <1>1
    <3> QED BY <1>1, <1>3, <3>1, <3>2 DEF Cut
  <2>4. Len(s) - n \in Nat
    BY <1>1, <1>3
  <2> QED BY <1>3, <2>1, <2>2, <2>3, <2>4
<1> QED BY <1>2, <1>3

LEMMA PlaceAfter ==
  \A n, a, b, m \in Nat : \A i \in 1..m :
     b + m = a => b + i \in 1..a /\ n - a + (b + i) = n - m + i
  OBVIOUS

\* What is left to post after one POST.
LEMMA PostingGoesOn ==
  ASSUME NEW l \in Seq(Events), NEW n \in Nat, NEW rows \in Seq(Messages), rows # <<>>,
         NEW held \in Nat, NEW more \in Nat, Len(rows) <= n, n - Len(rows) <= held,
         \A i \in DOMAIN rows : rows[i].seq = n - Len(rows) + i,
         held <= more,
         First(rows, BatchSize)[1].seq <= held + 1
           => First(rows, BatchSize)[Len(First(rows, BatchSize))].seq <= more
  PROVE  /\ First(rows, BatchSize) # <<>> /\ Len(Cut(rows, BatchSize)) <= n
         /\ n - Len(Cut(rows, BatchSize)) <= more
         /\ \A i \in DOMAIN Cut(rows, BatchSize) :
              /\ BatchSize + i \in DOMAIN rows
              /\ Cut(rows, BatchSize)[i] = rows[BatchSize + i]
              /\ rows[BatchSize + i].seq = n - Len(Cut(rows, BatchSize)) + i
<1> DEFINE f == First(rows, BatchSize)
           c == Cut(rows, BatchSize)
<1>1. /\ f \in Seq(Messages) /\ c \in Seq(Messages)
      /\ DOMAIN f = 1..Len(f) /\ DOMAIN c = 1..Len(c)
      /\ Len(f) = IF Len(rows) <= BatchSize THEN Len(rows) ELSE BatchSize
      /\ Len(c) = IF Len(rows) <= BatchSize THEN 0 ELSE Len(rows) - BatchSize
      /\ \A i \in 1..Len(f) : f[i] = rows[i]
      /\ \A i \in 1..Len(c) : c[i] = rows[BatchSize + i]
  BY PartOf, BatchAssumption
<1> HIDE DEF f, c
<1>2. PICK a \in Nat : a # 0 /\ a = Len(rows) /\ DOMAIN rows = 1..a
  OBVIOUS
<1>3. PICK b \in Nat : b # 0 /\ b = BatchSize
  BY BatchAssumption
<1>4. PICK k \in Nat, m \in Nat :
        /\ k = Len(f) /\ m = Len(c) /\ k \in 1..a /\ k + m = a /\ (m # 0 => k = b)
  <2>1. /\ Len(f) = IF a <= b THEN a ELSE b
        /\ Len(c) = IF a <= b THEN 0 ELSE a - b
    BY <1>1, <1>2, <1>3
  <2> DEFINE k == IF a <= b THEN a ELSE b
             m == IF a <= b THEN 0 ELSE a - b
  <2>2. k \in Nat /\ m \in Nat /\ k \in 1..a /\ k + m = a /\ (m # 0 => k = b)
    BY <1>2, <1>3
  <2>3. k = Len(f) /\ m = Len(c)
    BY <2>1
  <2> HIDE DEF k, m
  <2> QED BY <2>2, <2>3
<1>5. 1 \in 1..k /\ k \in 1..k /\ 1 \in 1..a /\ f # <<>>
  <2>1. Len(<<>>) = 0
    OBVIOUS
  <2> QED BY <1>4, <2>1
<1>6. f[1].seq = n - a + 1 /\ f[Len(f)].seq = n - a + k
  <2>1. f[1] = rows[1] /\ f[k] = rows[k]
    BY <1>1, <1>4, <1>5
  <2>2. rows[1].seq = n - a + 1 /\ rows[k].seq = n - a + k
    BY <1>2, <1>4, <1>5
  <2> QED BY <1>4, <2>1, <2>2
<1>7. n - a + k <= more
  <2>1. n - a <= held
    BY <1>2
  <2>2. f[1].seq <= held + 1
    BY <1>6, <2>1
  <2>3. f[Len(f)].seq <= more
    BY <2>2 DEF f
  <2> QED BY <1>6, <2>3
<1>8. m <= n /\ n - m <= more
  BY <1>2, <1>4, <1>7
<1>9. ASSUME NEW i \in DOMAIN c
      PROVE  /\ BatchSize + i \in DOMAIN rows /\ c[i] = rows[BatchSize + i]
             /\ rows[BatchSize + i].seq = n - Len(c) + i
  <2>1. i \in 1..m /\ k = b
    BY <1>1, <1>4
  <2>2. b + i \in 1..a /\ n - a + (b + i) = n - m + i
    <3>1. b + m = a /\ i \in 1..m
      BY <1>4, <2>1
    <3>2. \A j \in 1..m : b + m = a => b + j \in 1..a /\ n - a + (b + j) = n - m + j
      BY PlaceAfter
    <3> QED BY <3>1, <3>2, Zenon
  <2>3. c[i] = rows[b + i]
    BY <1>1, <1>3, <1>4, <2>1
  <2>4. rows[b + i].seq = n - a + (b + i)
    BY <1>2, <2>2
  <2> QED BY <1>2, <1>3, <1>4, <2>2, <2>3, <2>4
<1> QED BY <1>4, <1>5, <1>8, <1>9 DEF f, c

LEMMA PostStep ==
  ASSUME IInv, WarpPost
  PROVE  IInv' /\ [Single!Next]_log
<1>1. Typed /\ Copies /\ OneWriter /\ Messengers /\ Following /\ Moving /\ Claimed
  BY DEF IInv
<1>2. /\ warp.at = "post" /\ warp.rows # <<>> /\ warp.to \in Devices /\ warp.to # Main
      /\ warp.rows \in Seq(Messages) /\ warp \in Warps
      /\ log[Main] = log[holder] /\ Posting(warp.rows, Len(log[Main]), warp.to)
      /\ warp.to # Where(log[Main])
  BY <1>1 DEF WarpPost, Moving, Typed, Warps, Posting
<1>3. PICK to \in Devices, rows \in Seq(Messages) :
        /\ to = warp.to /\ rows = warp.rows /\ rows # <<>> /\ to # Main
  BY <1>2
<1>4. PICK f, c : f = First(rows, BatchSize) /\ c = Cut(rows, BatchSize)
  OBVIOUS
<1>5. PICK r : r = ReplayAll(log[to], FALSE, f)
  OBVIOUS
<1>6. /\ UNCHANGED <<owner, holder, active, up, stream, batch, trouble, events>>
      /\ log' = [log EXCEPT ![to] = r] /\ warp' = [warp EXCEPT !.rows = c]
  <2>1. /\ log' = [log EXCEPT ![warp.to] = ReplayAll(@, FALSE, First(warp.rows, BatchSize))]
        /\ warp' = [warp EXCEPT !.rows = Cut(@, BatchSize)]
        /\ UNCHANGED <<owner, holder, active, up, stream, batch, trouble, events>>
    BY DEF WarpPost, syncVars, counters
  <2>2. log' = [log EXCEPT ![to] = ReplayAll(log[to], FALSE, f)]
    BY <1>1, <1>3, <1>4, <2>1 DEF Typed
  <2>3. warp' = [warp EXCEPT !.rows = Cut(rows, BatchSize)]
    BY <1>2, <1>3, <2>1 DEF Warps
  <2> QED BY <1>4, <1>5, <2>1, <2>2, <2>3
<1>7. /\ log[Main] \in Seq(Events) /\ log[holder] \in Seq(Events) /\ log[to] \in Seq(Events)
      /\ Starts(log[to], log[holder]) /\ Len(log[Main]) \in Nat /\ Len(log[to]) \in Nat
      /\ Main \in Devices /\ Workspaces \subseteq Devices /\ holder \in Devices
      /\ log \in [Devices -> Seq(Events)]
  BY <1>1, Logs DEF Typed, Copies
<1>8. /\ f \in Seq(Messages) /\ c \in Seq(Messages)
      /\ DOMAIN f = 1..Len(f) /\ DOMAIN c = 1..Len(c)
      /\ Len(f) = IF Len(rows) <= BatchSize THEN Len(rows) ELSE BatchSize
      /\ \A i \in 1..Len(f) : f[i] = rows[i]
  BY <1>4, PartOf, BatchAssumption
<1>9. /\ Len(rows) \in Nat /\ Len(rows) <= Len(log[Main]) /\ Len(log[Main]) - Len(rows) <= Len(log[to])
      /\ DOMAIN rows = 1..Len(rows)
      /\ \A i \in DOMAIN rows :
           rows[i].seq = Len(log[Main]) - Len(rows) + i /\ Tells(log[holder], rows[i])
  <2>1. /\ Len(rows) <= Len(log[Main]) /\ Len(log[Main]) - Len(rows) <= Len(log[to])
        /\ \A i \in DOMAIN rows :
             rows[i].seq = Len(log[Main]) - Len(rows) + i /\ Tells(log[Main], rows[i])
    BY <1>2, <1>3 DEF Posting
  <2>2. Len(rows) \in Nat /\ DOMAIN rows = 1..Len(rows)
    OBVIOUS
  <2> QED BY <1>2, <2>1, <2>2
<1>10. InOrder(f) /\ \A i \in DOMAIN f : Tells(log[holder], f[i])
  <2>1. Len(f) \in Nat /\ Len(f) <= Len(rows)
    BY <1>8, <1>9, BatchAssumption
  <2>2. ASSUME NEW i \in 1..Len(f) PROVE f[i].seq = f[1].seq + i - 1 /\ Tells(log[holder], f[i])
    <3>1. i \in DOMAIN rows /\ 1 \in DOMAIN rows /\ f[i] = rows[i] /\ f[1] = rows[1]
      BY <1>8, <1>9, <2>1
    <3>2. PICK n \in Nat, k \in Nat : n = Len(log[Main]) /\ k = Len(rows)
      BY <1>7, <1>9
    <3>3. rows[i].seq = n - k + i /\ rows[1].seq = n - k + 1 /\ Tells(log[holder], rows[i])
      BY <1>9, <3>1, <3>2
    <3> QED BY <3>1, <3>2, <3>3
  <2> QED BY <1>8, <2>2 DEF InOrder
<1>11. /\ r \in Seq(Events) /\ Starts(log[to], r) /\ Starts(r, log[holder])
       /\ f # <<>> /\ f[1].seq <= Len(log[to]) + 1 => f[Len(f)].seq <= Len(r)
  <2>1. LET q == ReplayAll(log[to], FALSE, f) IN
        /\ q \in Seq(Events) /\ Starts(log[to], q) /\ Starts(q, log[holder])
        /\ FALSE \/ f = <<>> => q = log[to]
        /\ ~FALSE /\ f # <<>> /\ f[1].seq <= Len(log[to]) + 1 => f[Len(f)].seq <= Len(q)
    BY <1>7, <1>8, <1>10, ReplayAllIs
  <2> QED BY <1>5, <2>1
<1>12. /\ Len(r) \in Nat /\ Len(log[to]) <= Len(r) /\ Len(r) <= Len(log[holder])
       /\ DOMAIN r = 1..Len(r) /\ DOMAIN log[to] = 1..Len(log[to])
       /\ \A i \in 1..Len(log[to]) : log[to][i] = r[i]
       /\ Len(log[holder]) <= Len(r) => r = log[holder]
  BY <1>7, <1>11, StartsIs
<1>13. /\ log' \in [Devices -> Seq(Events)] /\ log'[to] = r
       /\ \A d \in Devices : d # to => log'[d] = log[d]
       /\ log'[Main] = log[Main]
  BY <1>3, <1>6, <1>7, <1>11
<1>14. log'[holder] = log[holder]
  <2>1. CASE holder = to
    BY <1>12, <1>13, <2>1
  <2>2. CASE holder # to
    BY <1>7, <1>13, <2>2
  <2> QED BY <2>1, <2>2
<1>15. warp'.at = "post" /\ warp'.to = to /\ warp'.rows = c /\ warp' \in Warps
  BY <1>2, <1>3, <1>6, <1>8 DEF Warps
<1>16. Typed' /\ OneWriter'
  BY <1>1, <1>2, <1>6, <1>13, <1>15 DEF Typed, OneWriter
<1>17. Copies'
  <2>1. ASSUME NEW d \in Devices PROVE Starts(log'[d], log[holder])
    <3>1. CASE d = to
      BY <1>11, <1>13, <3>1
    <3>2. CASE d # to
      BY <1>1, <1>13, <3>2 DEF Copies
    <3> QED BY <3>1, <3>2
  <2> QED BY <1>1, <1>6, <1>14, <2>1 DEF Copies
<1>18. Messengers'
  <2> SUFFICES ASSUME NEW w \in Workspaces
               PROVE /\ \A i \in DOMAIN stream[w] : Tells(log'[w], stream[w][i])
                     /\ \A i \in DOMAIN batch[w] : Tells(log'[w], batch[w][i])
                     /\ InOrder(batch[w])
                     /\ batch[w] # <<>> => batch[w][1].seq <= Len(log[Main]) + 1
    BY <1>6, <1>13 DEF Messengers
  <2>1. /\ \A i \in DOMAIN stream[w] : Tells(log[w], stream[w][i])
        /\ \A i \in DOMAIN batch[w] : Tells(log[w], batch[w][i])
        /\ InOrder(batch[w])
        /\ batch[w] # <<>> => batch[w][1].seq <= Len(log[Main]) + 1
    BY <1>1 DEF Messengers
  <2>2. ASSUME NEW m, Tells(log[w], m) PROVE Tells(log'[w], m)
    <3>1. CASE w = to
      BY <1>7, <1>11, <1>13, <2>2, <3>1, TellsMore
    <3>2. CASE w # to
      BY <1>7, <1>13, <2>2, <3>2
    <3> QED BY <3>1, <3>2
  <2> QED BY <2>1, <2>2
<1>19. Following'
  <2> SUFFICES ASSUME ~Owned, NEW w \in Workspaces, up[w] \in {"history", "live"}
               PROVE  StreamFits(w)' /\ AllSent(w)'
    BY <1>6 DEF Following, Owned
  <2>1. StreamFits(w)
    BY <1>1 DEF Following
  <2>2. StreamFits(w)'
    BY <1>6, <1>13, <2>1 DEF StreamFits, Reached
  <2>3. Len(log'[w]) <= Len(log'[Main])
    <3>1. Typed' /\ Copies'
      BY <1>16, <1>17
    <3>2. Len(log[w]) <= Len(log[holder])
      BY <1>1, Logs
    <3>3. CASE w = to
      BY <1>2, <1>12, <1>13, <3>3
    <3>4. CASE w # to
      BY <1>2, <1>7, <1>13, <3>2, <3>4
    <3> QED BY <3>3, <3>4
  <2> QED BY <2>2, <2>3 DEF AllSent, Reached
<1>20. Posting(c, Len(log[Main]), to)'
  <2>1. /\ First(rows, BatchSize) # <<>> /\ Len(Cut(rows, BatchSize)) <= Len(log[Main])
        /\ Len(log[Main]) - Len(Cut(rows, BatchSize)) <= Len(r)
        /\ \A i \in DOMAIN Cut(rows, BatchSize) :
             /\ BatchSize + i \in DOMAIN rows
             /\ Cut(rows, BatchSize)[i] = rows[BatchSize + i]
             /\ rows[BatchSize + i].seq = Len(log[Main]) - Len(Cut(rows, BatchSize)) + i
    <3>1. f # <<>>
      <4>1. Len(rows) # 0 /\ Len(<<>>) = 0
        BY <1>3
      <4> QED BY <1>8, <1>9, <4>1, BatchAssumption
    <3>2. First(rows, BatchSize)[1].seq <= Len(log[to]) + 1
            => First(rows, BatchSize)[Len(First(rows, BatchSize))].seq <= Len(r)
      BY <1>4, <1>11, <3>1
    <3>3. \A i \in DOMAIN rows : rows[i].seq = Len(log[Main]) - Len(rows) + i
      BY <1>9
    <3>4. /\ Len(log[Main]) \in Nat /\ Len(log[to]) \in Nat /\ Len(r) \in Nat
          /\ Len(log[to]) <= Len(r) /\ Len(rows) <= Len(log[Main])
          /\ Len(log[Main]) - Len(rows) <= Len(log[to]) /\ rows # <<>>
      BY <1>3, <1>7, <1>9, <1>12
    <3>5. PICK n \in Nat, held \in Nat, more \in Nat :
            n = Len(log[Main]) /\ held = Len(log[to]) /\ more = Len(r)
      BY <3>4
    <3>6. /\ rows # <<>> /\ Len(rows) <= n /\ n - Len(rows) <= held /\ held <= more
          /\ \A i \in DOMAIN rows : rows[i].seq = n - Len(rows) + i
          /\ First(rows, BatchSize)[1].seq <= held + 1
               => First(rows, BatchSize)[Len(First(rows, BatchSize))].seq <= more
      BY <3>2, <3>3, <3>4, <3>5
    <3>7. /\ First(rows, BatchSize) # <<>> /\ Len(Cut(rows, BatchSize)) <= n
          /\ n - Len(Cut(rows, BatchSize)) <= more
          /\ \A i \in DOMAIN Cut(rows, BatchSize) :
               /\ BatchSize + i \in DOMAIN rows
               /\ Cut(rows, BatchSize)[i] = rows[BatchSize + i]
               /\ rows[BatchSize + i].seq = n - Len(Cut(rows, BatchSize)) + i
      BY <1>7, <3>6, PostingGoesOn, ZenonT(60)
    <3> QED BY <3>5, <3>7
  <2>2. /\ Len(c) <= Len(log[Main]) /\ Len(log[Main]) - Len(c) <= Len(r)
        /\ \A i \in DOMAIN c : BatchSize + i \in DOMAIN rows /\ c[i] = rows[BatchSize + i]
                               /\ rows[BatchSize + i].seq = Len(log[Main]) - Len(c) + i
    BY <1>4, <2>1
  <2>3. \A i \in DOMAIN c : c[i].seq = Len(log[Main]) - Len(c) + i /\ Tells(log[Main], c[i])
    BY <1>2, <1>9, <2>2
  <2> QED BY <1>3, <1>13, <2>2, <2>3 DEF Posting
<1>21. Moving' /\ RowBehind' /\ Claimed'
  <2>1. Moving'
    BY <1>2, <1>3, <1>6, <1>13, <1>14, <1>15, <1>20 DEF Moving, Posting
  <2>2. RowBehind'
    <3>1. log'[holder] = log'[Main] /\ DOMAIN log[Main] = 1..Len(log[Main])
      BY <1>2, <1>7, <1>13, <1>14
    <3> QED BY <1>6, <1>7, <1>13, <3>1 DEF RowBehind
  <2>3. Claimed'
    BY <1>1, <1>2, <1>3, <1>6, <1>13, <1>15 DEF Claimed, Owned
  <2> QED BY <2>1, <2>2, <2>3
<1>22. [Single!Next]_log
  BY <1>1, <1>6, <1>11, LearnIs
<1> QED BY <1>22, <1>16, <1>17, <1>18, <1>19, <1>21 DEF IInv

LEMMA AppendIs ==
  ASSUME NEW X, NEW s \in Seq(X), NEW e \in X
  PROVE  /\ Append(s, e) \in Seq(X) /\ Len(Append(s, e)) = Len(s) + 1
         /\ DOMAIN Append(s, e) = 1..(Len(s) + 1) /\ Len(s) \in Nat /\ DOMAIN s = 1..Len(s)
         /\ Append(s, e)[Len(s) + 1] = e
         /\ \A i \in 1..Len(s) : Append(s, e)[i] = s[i]
  OBVIOUS

LEMMA StartsMore ==
  ASSUME NEW s \in Seq(Events), NEW t \in Seq(Events), NEW e \in Events, Starts(s, t)
  PROVE  Starts(s, Append(t, e))
<1>1. /\ Len(s) \in Nat /\ Len(t) \in Nat /\ Len(s) <= Len(t) /\ DOMAIN s = 1..Len(s)
      /\ \A i \in 1..Len(s) : s[i] = t[i]
  BY StartsIs
<1>2. /\ Len(Append(t, e)) = Len(t) + 1
      /\ \A i \in 1..Len(t) : Append(t, e)[i] = t[i]
  BY AppendIs
<1> QED BY <1>1, <1>2 DEF Starts

LEMMA TellsNew ==
  ASSUME NEW l \in Seq(Events), NEW e \in Events
  PROVE  Tells(Append(l, e), [seq |-> Len(l) + 1, event |-> e])
<1>1. /\ DOMAIN Append(l, e) = 1..(Len(l) + 1) /\ Append(l, e)[Len(l) + 1] = e /\ Len(l) \in Nat
  BY AppendIs
<1>2. PICK m : m = [seq |-> Len(l) + 1, event |-> e]
  OBVIOUS
<1>3. m.seq = Len(l) + 1 /\ m.event = e
  BY <1>2
<1>4. Tells(Append(l, e), m)
  BY <1>1, <1>3 DEF Tells
<1> QED BY <1>2, <1>4

\* A device that has everything appends an event.
LEMMA Appends ==
  ASSUME IInv, NEW d \in Devices, NEW to \in Devices \cup {Stay}, Run(d, to),
         log[d] = log[holder], holder' = d, UNCHANGED <<owner, up, batch>>
  PROVE  /\ \E e \in Events : e.to = to /\ log' = [log EXCEPT ![d] = Append(log[d], e)]
         /\ log' \in [Devices -> Seq(Events)] /\ stream' \in [Workspaces -> Seq(Messages)]
         /\ events' \in 0..MaxEvents
         /\ \A w \in Workspaces : up[w] = "down" => stream'[w] = <<>>
         /\ Copies' /\ Messengers' /\ Following'
<1>1. Typed /\ Copies /\ Messengers /\ Following
  BY DEF IInv
<1>2. PICK e : e = [id |-> events + 1, to |-> to]
  OBVIOUS
<1>3. /\ events < MaxEvents /\ events' = events + 1
      /\ log' = [log EXCEPT ![d] = Append(@, e)]
      /\ stream' = IF d \in Workspaces /\ up[d] # "down"
                   THEN [stream EXCEPT ![d] = Append(@, [seq |-> Len(log[d]) + 1, event |-> e])]
                   ELSE stream
  BY <1>2 DEF Run
<1>4. events \in Nat /\ events' \in 0..MaxEvents /\ events + 1 \in 1..MaxEvents
  BY <1>1, <1>3 DEF Typed
<1>5. e \in Events /\ e.to = to
  BY <1>2, <1>4 DEF Events
<1>6. /\ log[d] \in Seq(Events) /\ Len(log[d]) \in Nat /\ Len(log[d]) <= events
      /\ Main \in Devices /\ Workspaces \subseteq Devices
      /\ log \in [Devices -> Seq(Events)] /\ stream \in [Workspaces -> Seq(Messages)]
  BY <1>1, Logs DEF Typed
<1>7. PICK l \in Seq(Events) : l = log[d] /\ Len(l) \in Nat /\ Len(l) <= events
  BY <1>6
<1>8. PICK k : k = Append(l, e)
  OBVIOUS
<1>9. /\ k \in Seq(Events) /\ Len(k) = Len(l) + 1 /\ k[Len(l) + 1] = e
      /\ DOMAIN k = 1..(Len(l) + 1) /\ Starts(l, k) /\ Starts(k, k)
  <2>1. /\ Append(l, e) \in Seq(Events) /\ Len(Append(l, e)) = Len(l) + 1
        /\ DOMAIN Append(l, e) = 1..(Len(l) + 1)
        /\ Append(l, e)[Len(l) + 1] = e
    BY <1>5, AppendIs
  <2>2. Starts(l, l) /\ Starts(k, k)
    BY <1>7, <1>8, <2>1 DEF Starts
  <2>3. Starts(l, Append(l, e))
    BY <1>5, <2>2, StartsMore
  <2> QED BY <1>8, <2>1, <2>2, <2>3
<1>10. log' = [log EXCEPT ![d] = k]
  BY <1>3, <1>6, <1>7, <1>8
<1>11. /\ log' \in [Devices -> Seq(Events)] /\ log'[d] = k
       /\ \A c \in Devices : c # d => log'[c] = log[c]
  BY <1>6, <1>9, <1>10
<1>12. PICK m : m = [seq |-> Len(l) + 1, event |-> e]
  OBVIOUS
<1>13. m \in Messages /\ m.seq = Len(l) + 1 /\ Tells(k, m)
  <2>1. Len(l) + 1 \in 1..MaxEvents
    BY <1>3, <1>4, <1>7
  <2>2. m.seq = Len(l) + 1 /\ m \in Messages
    BY <1>5, <1>12, <2>1 DEF Messages
  <2>3. Tells(Append(l, e), [seq |-> Len(l) + 1, event |-> e])
    BY <1>5, TellsNew
  <2> QED BY <1>8, <1>12, <2>2, <2>3
<1>14. stream' = IF d \in Workspaces /\ up[d] # "down"
                 THEN [stream EXCEPT ![d] = Append(stream[d], m)] ELSE stream
  <2>1. stream' = IF d \in Workspaces /\ up[d] # "down"
                  THEN [stream EXCEPT ![d] = Append(@, m)] ELSE stream
    BY <1>3, <1>7, <1>12
  <2> QED BY <1>6, <2>1
<1>15. ASSUME d \in Workspaces, up[d] # "down"
       PROVE  /\ stream'[d] = Append(stream[d], m) /\ stream'[d] \in Seq(Messages)
              /\ Len(stream'[d]) = Len(stream[d]) + 1 /\ DOMAIN stream'[d] = 1..(Len(stream[d]) + 1)
              /\ stream'[d][Len(stream[d]) + 1] = m /\ Len(stream[d]) \in Nat
              /\ DOMAIN stream[d] = 1..Len(stream[d])
              /\ \A i \in 1..Len(stream[d]) : stream'[d][i] = stream[d][i]
  <2>1. stream[d] \in Seq(Messages) /\ stream'[d] = Append(stream[d], m)
    BY <1>6, <1>14, <1>15
  <2>2. PICK s \in Seq(Messages) : s = stream[d]
    BY <2>1
  <2>3. /\ Append(s, m) \in Seq(Messages) /\ Len(Append(s, m)) = Len(s) + 1
        /\ DOMAIN Append(s, m) = 1..(Len(s) + 1) /\ Len(s) \in Nat /\ DOMAIN s = 1..Len(s)
        /\ Append(s, m)[Len(s) + 1] = m
        /\ \A i \in 1..Len(s) : Append(s, m)[i] = s[i]
    BY <1>13, AppendIs
  <2> QED BY <2>1, <2>2, <2>3
<1>16. \A w \in Workspaces : w # d \/ up[w] = "down" => stream'[w] = stream[w]
  BY <1>6, <1>14
<1>17. stream' \in [Workspaces -> Seq(Messages)]
  <2>1. CASE d \in Workspaces /\ up[d] # "down"
    <3>1. stream' = [stream EXCEPT ![d] = Append(stream[d], m)] /\ Append(stream[d], m) \in Seq(Messages)
      BY <1>14, <1>15, <2>1
    <3> QED BY <1>6, <3>1
  <2>2. CASE ~(d \in Workspaces /\ up[d] # "down")
    BY <1>6, <1>14, <2>2
  <2> QED BY <2>1, <2>2
<1>18. \A w \in Workspaces : up[w] = "down" => stream'[w] = <<>>
  BY <1>1, <1>16 DEF Typed
<1>19. Copies'
  <2>1. ASSUME NEW c \in Devices PROVE Starts(log'[c], k)
    <3>1. CASE c = d
      BY <1>9, <1>11, <3>1
    <3>2. CASE c # d
      <4>1. log[c] \in Seq(Events) /\ Starts(log[c], l)
        BY <1>1, <1>6, <1>7 DEF Copies
      <4>2. Starts(log[c], Append(l, e))
        BY <1>5, <4>1, StartsMore
      <4> QED BY <1>8, <1>11, <3>2, <4>2
    <3> QED BY <3>1, <3>2
  <2>2. Len(k) <= events'
    BY <1>3, <1>4, <1>7, <1>9
  <2> QED BY <1>11, <2>1, <2>2 DEF Copies
<1>20. Len(log[Main]) \in Nat /\ Len(log'[Main]) \in Nat /\ Len(log[Main]) <= Len(log'[Main])
  <2>1. Len(log[Main]) \in Nat
    BY <1>1, <1>6, Logs
  <2>2. CASE Main = d
    BY <1>7, <1>9, <1>11, <2>1, <2>2
  <2>3. CASE Main # d
    BY <1>6, <1>11, <2>1, <2>3
  <2> QED BY <2>1, <2>2, <2>3
<1>21. ASSUME NEW w \in Workspaces, NEW q, Tells(log[w], q) PROVE Tells(log'[w], q)
  <2>1. CASE w = d
    BY <1>7, <1>9, <1>11, <1>21, <2>1, TellsMore
  <2>2. CASE w # d
    BY <1>6, <1>11, <1>21, <2>2
  <2> QED BY <2>1, <2>2
<1>22. Messengers'
  <2> SUFFICES ASSUME NEW w \in Workspaces
               PROVE /\ \A i \in DOMAIN stream'[w] : Tells(log'[w], stream'[w][i])
                     /\ \A i \in DOMAIN batch[w] : Tells(log'[w], batch[w][i])
                     /\ InOrder(batch[w])
                     /\ batch[w] # <<>> => batch[w][1].seq <= Len(log'[Main]) + 1
    BY DEF Messengers
  <2>1. /\ \A i \in DOMAIN stream[w] : Tells(log[w], stream[w][i])
        /\ \A i \in DOMAIN batch[w] : Tells(log[w], batch[w][i])
        /\ InOrder(batch[w])
    BY <1>1 DEF Messengers
  <2>2. batch[w] # <<>> => batch[w][1].seq <= Len(log'[Main]) + 1
    <3>1. batch[w] \in Seq(Messages)
      BY <1>1 DEF Typed
    <3>2. batch[w] # <<>> => batch[w][1].seq \in Nat
      BY <3>1, MessagesAre
    <3>3. batch[w] # <<>> => batch[w][1].seq <= Len(log[Main]) + 1
      BY <1>1 DEF Messengers
    <3> QED BY <1>20, <3>2, <3>3
  <2>3. \A i \in DOMAIN stream'[w] : Tells(log'[w], stream'[w][i])
    <3>1. CASE w # d \/ up[w] = "down"
      BY <1>16, <1>21, <2>1, <3>1
    <3>2. CASE w = d /\ up[w] # "down"
      <4>1. ASSUME NEW i \in 1..(Len(stream[d]) + 1) PROVE Tells(k, stream'[d][i])
        <5>1. CASE i = Len(stream[d]) + 1
          BY <1>13, <1>15, <3>2, <5>1
        <5>2. CASE i # Len(stream[d]) + 1
          <6>1. i \in DOMAIN stream[d] /\ stream'[d][i] = stream[d][i]
            BY <1>15, <3>2, <5>2
          <6>2. Tells(log'[d], stream[d][i])
            BY <1>21, <2>1, <3>2, <6>1
          <6> QED BY <1>11, <6>1, <6>2
        <5> QED BY <5>1, <5>2
      <4> QED BY <1>11, <1>15, <3>2, <4>1
    <3> QED BY <3>1, <3>2
  <2> QED BY <1>21, <2>1, <2>2, <2>3
<1>23. Following'
  <2> SUFFICES ASSUME ~Owned, NEW w \in Workspaces, up[w] \in {"history", "live"}
               PROVE  StreamFits(w)' /\ AllSent(w)'
    BY DEF Following, Owned
  <2>1. StreamFits(w) /\ AllSent(w)
    BY <1>1 DEF Following
  <2>2. ASSUME NEW n \in Int, Reached(w, n) PROVE Reached(w, n)'
    <3>1. CASE n <= Len(log[Main])
      BY <1>20, <3>1 DEF Reached
    <3>2. CASE ~(n <= Len(log[Main]))
      BY <2>2, <3>2 DEF Reached
    <3> QED BY <3>1, <3>2
  <2>3. ASSUME NEW i \in DOMAIN stream[w], Reached(w, stream[w][i].seq - 1)
        PROVE  \E n \in Int : n = stream[w][i].seq - 1 /\ Reached(w, n)'
    <3>1. stream[w] \in Seq(Messages)
      BY <1>6
    <3>2. stream[w][i].seq \in Nat
      BY <3>1, MessagesAre
    <3>3. PICK n \in Int : n = stream[w][i].seq - 1
      BY <3>2
    <3>4. Reached(w, n)'
      BY <2>2, <2>3, <3>3
    <3> QED BY <3>3, <3>4
  <2>4. CASE w # d
    <3>1. stream'[w] = stream[w] /\ log'[w] = log[w]
      BY <1>6, <1>11, <1>16, <2>4
    <3>2. PICK n \in Int : n = Len(log[w])
      BY <1>1, Logs
    <3>3. AllSent(w)'
      <4>1. CASE Reached(w, n)
        <5>1. Reached(w, n)'
          BY <2>2, <4>1
        <5> QED BY <3>1, <3>2, <5>1 DEF AllSent, Reached
      <4>2. CASE ~Reached(w, n)
        BY <2>1, <3>1, <3>2, <4>2 DEF AllSent
      <4> QED BY <4>1, <4>2
    <3>4. StreamFits(w)'
      BY <2>1, <2>3, <3>1 DEF StreamFits, Reached
    <3> QED BY <3>3, <3>4
  <2>5. CASE w = d
    <3>1. d \in Workspaces /\ up[d] # "down"
      BY <2>5
    <3>2. PICK h \in Nat : h = Len(stream[d])
      BY <1>15, <3>1
    <3>3. /\ Len(stream'[d]) = h + 1 /\ DOMAIN stream'[d] = 1..(h + 1) /\ stream'[d][h + 1] = m
          /\ DOMAIN stream[d] = 1..h /\ stream'[d] \in Seq(Messages)
          /\ \A i \in 1..h : stream'[d][i] = stream[d][i]
      BY <1>15, <3>1, <3>2
    <3>4. AllSent(w)'
      <4>1. Len(log'[d]) <= stream'[d][Len(stream'[d])].seq
        BY <1>7, <1>9, <1>11, <1>13, <3>3
      <4>2. stream'[d] # <<>>
        <5>1. Len(<<>>) = 0
          OBVIOUS
        <5> QED BY <3>3, <5>1
      <4> QED BY <2>5, <4>1, <4>2 DEF AllSent
    <3>5. ASSUME NEW i \in 1..(h + 1)
          PROVE  \/ \E n \in Int : n = stream'[d][i].seq - 1 /\ Reached(d, n)'
                 \/ i > 1 /\ stream'[d][i].seq - 1 <= stream'[d][i - 1].seq
      <4>1. CASE i \in 1..h
        <5>1. stream'[d][i] = stream[d][i] /\ i \in DOMAIN stream[d]
          BY <3>3, <4>1
        <5>2. i > 1 => i - 1 \in 1..h
          BY <4>1
        <5>3. i > 1 => stream'[d][i - 1] = stream[d][i - 1]
          BY <3>3, <5>2
        <5>4. \/ Reached(d, stream[d][i].seq - 1)
              \/ i > 1 /\ stream[d][i].seq - 1 <= stream[d][i - 1].seq
          BY <2>1, <2>5, <5>1 DEF StreamFits
        <5> QED BY <2>3, <2>5, <5>1, <5>3, <5>4
      <4>2. CASE i = h + 1
        <5>1. PICK n \in Int : n = m.seq - 1 /\ n = Len(log[d])
          BY <1>7, <1>13
        <5>2. CASE Reached(d, n)
          BY <2>2, <2>5, <3>3, <4>2, <5>1, <5>2
        <5>3. CASE ~Reached(d, n)
          <6>1. stream[d] # <<>> /\ n <= stream[d][h].seq
            BY <2>1, <2>5, <3>2, <5>1, <5>3 DEF AllSent
          <6>2. h # 0
            BY <1>6, <3>1, <3>2, <6>1
          <6>3. h \in 1..h /\ i - 1 = h /\ i > 1
            BY <4>2, <6>2
          <6>4. stream'[d][h] = stream[d][h]
            BY <3>3, <6>3
          <6> QED BY <3>3, <4>2, <5>1, <6>1, <6>3, <6>4
        <5> QED BY <5>2, <5>3
      <4> QED BY <4>1, <4>2
    <3>6. StreamFits(w)'
      BY <2>5, <3>3, <3>5 DEF StreamFits, Reached
    <3> QED BY <3>4, <3>6
  <2> QED BY <2>4, <2>5
<1>24. \E x \in Events : x.to = to /\ log' = [log EXCEPT ![d] = Append(log[d], x)]
  BY <1>5, <1>7, <1>8, <1>10
<1> QED BY <1>4, <1>11, <1>17, <1>18, <1>19, <1>22, <1>23, <1>24

LEMMA WriteStep ==
  ASSUME IInv, NEW d \in Devices, Write(d)
  PROVE  IInv' /\ [Single!Next]_log
<1>1. Typed /\ OneWriter /\ RowBehind /\ Moving /\ Claimed /\ Copies
  BY DEF IInv
<1>2. /\ d = holder /\ warp.at = "idle" /\ Run(d, Stay)
      /\ UNCHANGED <<owner, holder, active, up, batch, warp, trouble>>
  BY <1>1 DEF Write, OneWriter
<1>3. /\ \E e \in Events : e.to = Stay /\ log' = [log EXCEPT ![d] = Append(log[d], e)]
      /\ log' \in [Devices -> Seq(Events)] /\ stream' \in [Workspaces -> Seq(Messages)]
      /\ events' \in 0..MaxEvents
      /\ \A w \in Workspaces : up[w] = "down" => stream'[w] = <<>>
      /\ Copies' /\ Messengers' /\ Following'
  <2>1. Stay \in Devices \cup {Stay} /\ log[d] = log[holder] /\ holder' = d
    BY <1>2
  <2> QED BY <1>2, <2>1, Appends
<1>4. PICK e \in Events : e.to = Stay /\ log' = [log EXCEPT ![d] = Append(log[d], e)]
  BY <1>3
<1>5. Typed' /\ OneWriter'
  BY <1>1, <1>2, <1>3 DEF Typed, OneWriter
<1>6. log[d] \in Seq(Events) /\ log \in [Devices -> Seq(Events)] /\ Main \in Devices
      /\ log[Main] \in Seq(Events)
  BY <1>1, Logs DEF Typed
<1>7. PICK l \in Seq(Events) : l = log[d]
  BY <1>6
<1>a. PICK k : k = Append(l, e)
  OBVIOUS
<1>8. /\ k \in Seq(Events) /\ Len(k) = Len(l) + 1 /\ DOMAIN k = 1..(Len(l) + 1)
      /\ Len(l) \in Nat /\ DOMAIN l = 1..Len(l) /\ k[Len(l) + 1] = e
      /\ \A i \in 1..Len(l) : k[i] = l[i]
  BY <1>a, AppendIs
<1>9. log'[d] = k /\ \A c \in Devices : c # d => log'[c] = log[c]
  BY <1>4, <1>6, <1>7, <1>a
<1>10. Starts(l, k) /\ \A j \in DOMAIN k : j > Len(l) => k[j].to = Stay
  BY <1>4, <1>8 DEF Starts
<1>11. Where(log'[Main]) = Where(log[Main])
  <2>1. CASE d = Main
    BY <1>7, <1>8, <1>9, <1>10, <2>1, WhereSame
  <2>2. CASE d # Main
    BY <1>6, <1>9, <2>2
  <2> QED BY <2>1, <2>2
<1>12. RowBehind'
  <2> SUFFICES ASSUME NEW j \in DOMAIN k, j > Len(log'[Main]), k[j].to # Stay
               PROVE  j = Len(log'[Main]) + 1 /\ Where(log'[Main]) # holder
    BY <1>2, <1>9 DEF RowBehind
  <2>1. j \in DOMAIN l /\ k[j] = l[j]
    BY <1>8, <1>10
  <2>2. CASE d = Main
    BY <1>8, <1>9, <2>2
  <2>3. CASE d # Main
    <3>1. log'[Main] = log[Main]
      BY <1>6, <1>9, <2>3
    <3> QED BY <1>1, <1>2, <1>7, <2>1, <3>1 DEF RowBehind
  <2> QED BY <2>2, <2>3
<1>13. Moving' /\ Claimed'
  BY <1>1, <1>2, <1>11 DEF Moving, Claimed, Owned
<1>14. [Single!Next]_log
  BY <1>1, <1>2, <1>4, WriteIs
<1> QED BY <1>14, <1>3, <1>5, <1>12, <1>13 DEF IInv

\* The writer's log is Main's and the target's when a warp ends.
LEMMA ArriveStep ==
  ASSUME IInv, WarpHome \/ WarpSteal
  PROVE  IInv' /\ [Single!Next]_log
<1>1. Typed /\ OneWriter /\ RowBehind /\ Moving /\ Claimed /\ Copies
  BY DEF IInv
<1>2. PICK d \in Devices : d = warp.to
  BY <1>1 DEF Typed, Warps
<1>3. /\ warp.at \in {"move", "post"} /\ Run(d, d) /\ holder' = d /\ warp' = NoWarp
      /\ UNCHANGED <<owner, active, up, batch, trouble>>
      /\ d = Main \/ (warp.at = "post" /\ warp.rows = <<>>)
  BY <1>2 DEF WarpHome, WarpSteal
<1>4. log[Main] = log[holder] /\ active = {} /\ d # Where(log[Main])
  BY <1>1, <1>2, <1>3 DEF Moving, OneWriter
<1>5. /\ \A c \in Devices : /\ log[c] \in Seq(Events) /\ Len(log[c]) \in Nat
                            /\ Len(log[holder]) <= Len(log[c]) => log[c] = log[holder]
      /\ Main \in Devices /\ holder \in Devices /\ log \in [Devices -> Seq(Events)]
  BY <1>1, Logs DEF Typed
<1>6. log[d] = log[holder]
  <2>1. CASE d = Main
    BY <1>4, <2>1
  <2>2. CASE warp.at = "post" /\ warp.rows = <<>>
    <3>1. Posting(<<>>, Len(log[Main]), d)
      BY <1>1, <1>2, <2>2 DEF Moving
    <3>2. Len(log[Main]) - Len(<<>>) <= Len(log[d]) /\ Len(<<>>) = 0
      BY <3>1 DEF Posting
    <3>3. Len(log[holder]) <= Len(log[d])
      BY <1>4, <1>5, <3>2
    <3> QED BY <1>5, <3>3
  <2> QED BY <1>3, <2>1, <2>2
<1>7. /\ \E e \in Events : e.to = d /\ log' = [log EXCEPT ![d] = Append(log[d], e)]
      /\ log' \in [Devices -> Seq(Events)] /\ stream' \in [Workspaces -> Seq(Messages)]
      /\ events' \in 0..MaxEvents
      /\ \A w \in Workspaces : up[w] = "down" => stream'[w] = <<>>
      /\ Copies' /\ Messengers' /\ Following'
  <2>1. d \in Devices \cup {Stay}
    OBVIOUS
  <2> QED BY <1>3, <1>6, <2>1, Appends
<1>8. PICK e \in Events : e.to = d /\ log' = [log EXCEPT ![d] = Append(log[d], e)]
  BY <1>7
<1>9. PICK l \in Seq(Events) : l = log[d]
  BY <1>5
<1>a. PICK k : k = Append(l, e)
  OBVIOUS
<1>10. /\ k \in Seq(Events) /\ Len(k) = Len(l) + 1 /\ DOMAIN k = 1..(Len(l) + 1)
       /\ Len(l) \in Nat /\ DOMAIN l = 1..Len(l)
  BY <1>a, AppendIs
<1>11. log'[d] = k /\ (d # Main => log'[Main] = l) /\ log[Main] = l
  BY <1>4, <1>5, <1>6, <1>8, <1>9, <1>a
<1>12. NoWarp \in Warps /\ warp'.at = "idle"
  <2>1. <<>> \in Seq(Messages)
    OBVIOUS
  <2> QED BY <1>3, <1>5, <2>1 DEF NoWarp, Warps
<1>13. Typed' /\ OneWriter'
  <2>1. Typed'
    BY <1>1, <1>3, <1>7, <1>12 DEF Typed
  <2> QED BY <1>3, <1>4, <1>12, <2>1 DEF OneWriter
<1>14. d = Main => Where(log'[Main]) = Main
  <2>1. ASSUME d = Main PROVE Where(Append(l, e)) = d
    BY <1>8, <2>1, NamesAssumption, WhereMoved
  <2> QED BY <1>a, <1>11, <2>1
<1>15. RowBehind'
  <2> SUFFICES ASSUME NEW j \in DOMAIN k, j > Len(log'[Main])
               PROVE  j = Len(log'[Main]) + 1 /\ Where(log'[Main]) # d
    BY <1>3, <1>11 DEF RowBehind
  <2>1. d # Main
    BY <1>10, <1>11
  <2> QED BY <1>4, <1>10, <1>11, <2>1
<1>16. Moving'
  BY <1>12 DEF Moving
<1>17. Claimed'
  <2>1. d # Main => Where(log'[Main]) = Where(log[Main])
    BY <1>11
  <2> QED BY <1>1, <1>3, <1>4, <1>12, <1>14, <2>1 DEF Claimed, Owned
<1>18. [Single!Next]_log
  BY <1>1, <1>6, <1>8, WriteIs
<1> QED BY <1>18, <1>2, <1>7, <1>13, <1>15, <1>16, <1>17 DEF IInv

LEMMA StepInv == Careful /\ IInv /\ [Next]_vars => IInv' /\ [Single!Next]_log
<1> SUFFICES ASSUME Careful, IInv, [Next]_vars PROVE IInv' /\ [Single!Next]_log
  OBVIOUS
<1>1. CASE UNCHANGED vars
  BY <1>1 DEF vars, syncVars, counters, IInv, Typed, OneWriter, Copies, Messengers, Following,
     StreamFits, AllSent, Reached, Owned, RowBehind, Moving, NoMoves, Posting, Claimed
<1>2. CASE Prompt \/ \E d \in Devices : Stop(d)
  BY <1>2, PromptStep
<1>3. CASE WarpStep
  BY <1>3, LeaveStep, ArriveStep, ReadStep, PostStep DEF WarpStep
<1>4. CASE WarpFail
  BY <1>4, ReadStep
<1>5. CASE \E d \in Devices : Write(d) \/ WarpStart(d)
  BY <1>5, WriteStep, StartStep
<1>6. CASE \E w \in Workspaces : SyncLoop(w) \/ Drop(w)
  BY <1>6, ConnectStep, FetchStep, ReplayHistoryStep, ReadStreamStep, DropStep DEF SyncLoop
<1> QED BY <1>1, <1>2, <1>3, <1>4, <1>5, <1>6 DEF Next

\* The inductive invariant holds of every careful control plane.
THEOREM Invariant == Careful => (Spec => []IInv)
<1> SUFFICES ASSUME Careful PROVE Spec => []IInv
  OBVIOUS
<1>1. IInv /\ [Next]_vars => IInv'
  BY StepInv
<1> QED BY <1>1, InitInv, PTL DEF Spec

----------------------------------------------------------------------------
LEMMA InvGivesAgreement == IInv => LogsAgree
<1> SUFFICES ASSUME IInv PROVE LogsAgree
  OBVIOUS
<1>1. Typed /\ Copies /\ Following
  BY DEF IInv
<1>2. TypeOK
  <2>1. \A d \in Devices : \A i \in DOMAIN log[d] : log[d][i] \in Events
    BY <1>1, Logs
  <2>2. /\ \A w \in Workspaces : \A i \in DOMAIN stream[w] : stream[w][i] \in Messages
        /\ \A w \in Workspaces : \A i \in DOMAIN batch[w] : batch[w][i] \in Messages
    <3>1. \A w \in Workspaces : stream[w] \in Seq(Messages) /\ batch[w] \in Seq(Messages)
      BY <1>1, Logs
    <3> QED BY <3>1
  <2> QED BY <1>1, <2>1, <2>2 DEF TypeOK, Typed, Warps
<1>3. SameSeqSameEvent
  BY <1>1, Logs DEF SameSeqSameEvent
<1>4. NoGaps
  <2> SUFFICES ASSUME NEW w \in Workspaces, ~Owned, up[w] = "live", stream[w] # <<>>
               PROVE  Head(stream[w]).seq <= Len(log[Main]) + 1
    BY DEF NoGaps
  <2>1. PICK s \in Seq(Messages) : s = stream[w] /\ s # <<>>
    BY <1>1, Logs
  <2>2. 1 \in DOMAIN s /\ s[1].seq \in Nat
    <3>1. Len(s) \in Nat /\ DOMAIN s = 1..Len(s) /\ \A i \in 1..Len(s) : s[i].seq \in Nat
      BY MessagesAre
    <3>2. Len(s) # 0
      BY <2>1
    <3> QED BY <3>1, <3>2
  <2>3. Head(stream[w]) = s[1]
    BY <2>1
  <2>4. batch[w] = <<>>
    BY <1>1 DEF Typed
  <2>5. Reached(w, s[1].seq - 1)
    <3>1. StreamFits(w)
      BY <1>1 DEF Following
    <3> QED BY <2>1, <2>2, <3>1 DEF StreamFits
  <2>6. Len(log[Main]) \in Nat
    BY <1>1, Logs
  <2>7. s[1].seq - 1 <= Len(log[Main])
    BY <2>4, <2>5 DEF Reached
  <2> QED BY <2>2, <2>3, <2>6, <2>7
<1> QED BY <1>2, <1>3, <1>4 DEF LogsAgree

\* What Main and the workspaces hold and have sent agrees.
THEOREM LogsAgreeTheorem == Careful => (Spec => []LogsAgree)
BY Invariant, InvGivesAgreement, PTL

LEMMA InvGivesFollowed == IInv => MovedAwayIsFollowed
<1> SUFFICES ASSUME IInv, trouble.oneWay,
                    \A w \in Workspaces : up[w] = "live" /\ stream[w] = <<>>
             PROVE  log[Main] = log[holder]
  BY DEF MovedAwayIsFollowed, MovedIsFollowed
<1>1. Typed /\ Copies /\ Following /\ Claimed
  BY DEF IInv
<1>2. CASE holder = Main
  BY <1>2
<1>3. CASE holder # Main
  <2>1. holder \in Workspaces
    BY <1>1, <1>3 DEF Typed, Devices
  <2>2. batch[holder] = <<>> /\ ~Owned
    BY <1>1, <2>1 DEF Typed, Claimed
  <2>3. Reached(holder, Len(log[holder]))
    BY <1>1, <2>1, <2>2 DEF Following, AllSent
  <2>4. Len(log[holder]) <= Len(log[Main])
    BY <2>2, <2>3 DEF Reached
  <2> QED BY <1>1, <2>4, Logs
<1> QED BY <1>2, <1>3

\* A session that only ever leaves Main is followed to its end.
THEOREM MovedAwayIsFollowedTheorem == Careful => (Spec => []MovedAwayIsFollowed)
BY Invariant, InvGivesFollowed, PTL

\* The devices implement a log with one writer: nobody appends who does not
\* have everything, and what a device gets is the next events of the writer's.
THEOREM ImplementsTheorem == Careful => (Spec => ImplementsOneWriterLog)
<1> SUFFICES ASSUME Careful PROVE Spec => ImplementsOneWriterLog
  OBVIOUS
<1>1. Init => Single!Init
  BY DEF Init, Single!Init
<1>2. IInv /\ [Next]_vars => IInv' /\ [Single!Next]_log
  BY StepInv
<1>3. Spec => Single!Spec
  BY <1>1, <1>2, InitInv, PTL DEF Spec, Single!Spec
<1> QED BY <1>3 DEF ImplementsOneWriterLog
=============================================================================
