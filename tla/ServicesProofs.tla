--------------------------- MODULE ServicesProofs ---------------------------
(***************************************************************************)
(* What holds of the share queue, the tokens of an account, identifiers    *)
(* and the instance store, for every number of updates, calls, callers,    *)
(* tokens, ticks, files and directories; that the store implements         *)
(* OneInstance; and what Permission and SessionRunner bring to Services,   *)
(* with the types of all its components.                                   *)
(***************************************************************************)
EXTENDS ConversationProofs, ServersProofs, Integers

----------------------------------------------------------------------------
(* The share queue: no update is forgotten.                                *)

\* The calls under way are among those made.
Counted == creating + removing <= calls

ShareIInv == Share!TypeOK /\ Counted /\ Share!NoUpdateForgotten

LEMMA ShareInitInv == Share!ConstantAssumption /\ Share!Init => ShareIInv
  BY DEF Share!ConstantAssumption, Share!Init, ShareIInv, Share!TypeOK, Counted, Share!NoUpdateForgotten, Share!Waiting

\* What a queue or a batch holds are updates.
LEMMA Batches ==
  ASSUME Share!TypeOK
  PROVE  /\ Share!Waiting \in SUBSET Share!Updates
         /\ \A b \in flights : b \in SUBSET Share!Updates
         /\ queue # Nil => Share!Waiting = queue
         /\ Share!Cached \in {"null", "share"}
  BY DEF Share!TypeOK, Share!Waiting, Share!Cached

\* Queueing items forgets none of those that wait, and leaves a flush behind.
LEMMA SyncKeeps ==
  ASSUME Share!ConstantAssumption, Share!TypeOK, Share!NoUpdateForgotten, NEW items \in SUBSET Share!Updates, Share!Sync(items)
  PROVE  /\ queue' \in (SUBSET Share!Updates) \cup {Nil} /\ timers' \in Nat
         /\ accepted' \in SUBSET Share!Updates /\ shared' \in {"null", "share"}
         /\ queue' # Nil => timers' > 0
         /\ accepted' \subseteq accepted \cup items
         /\ Share!Waiting \subseteq Share!Waiting'
         /\ accepted' # accepted => items \subseteq Share!Waiting'
<1>1. Share!Waiting \in SUBSET Share!Updates /\ Share!Cached \in {"null", "share"}
  BY Batches
<1>2. CASE Share!Cached = "share"
  <2>1. queue' = Share!Waiting \cup items /\ accepted' = accepted \cup items
    BY <1>2 DEF Share!Sync
  <2>2. queue' \in SUBSET Share!Updates /\ queue' # Nil
    <3>1. queue' \in SUBSET Share!Updates
      BY <1>1, <2>1
    <3>2. queue' # Nil
      BY <3>1, Zenon DEF Share!ConstantAssumption, Share!Updates
    <3> QED BY <3>1, <3>2
  <2>3. Share!Waiting' = Share!Waiting \cup items
    BY <2>1, <2>2 DEF Share!Waiting
  <2>4. timers' \in Nat /\ timers' > 0
    BY <1>2 DEF Share!Sync, Share!TypeOK, Share!NoUpdateForgotten
  <2>5. shared' \in {"null", "share"}
    BY <1>1, <1>2 DEF Share!Sync
  <2>6. accepted' \in SUBSET Share!Updates /\ accepted' \subseteq accepted \cup items
    BY <2>1 DEF Share!TypeOK
  <2>7. Share!Waiting \subseteq Share!Waiting' /\ items \subseteq Share!Waiting'
    BY <2>3
  <2> QED BY <2>2, <2>4, <2>5, <2>6, <2>7
<1>3. CASE Share!Cached # "share"
  <2>1. UNCHANGED <<queue, timers, accepted>> /\ shared' = "null"
    BY <1>1, <1>3 DEF Share!Sync
  <2>2. Share!Waiting' = Share!Waiting /\ (queue # Nil => timers > 0)
    BY <2>1 DEF Share!Waiting, Share!NoUpdateForgotten
  <2>3. /\ queue' \in (SUBSET Share!Updates) \cup {Nil} /\ timers' \in Nat
        /\ accepted' \in SUBSET Share!Updates
    <3>1. /\ queue \in (SUBSET Share!Updates) \cup {Nil} /\ timers \in Nat
          /\ accepted \in SUBSET Share!Updates
      BY DEF Share!TypeOK
    <3> QED BY <2>1, <3>1
  <2>4. queue' # Nil => timers' > 0
    BY <2>1, <2>2
  <2>5. accepted' = accepted /\ Share!Waiting \subseteq Share!Waiting'
    BY <2>1, <2>2
  <2> QED BY <2>1, <2>3, <2>4, <2>5
<1> QED BY <1>2, <1>3

\* A step that brings every update from one place to a later one forgets none.
LEMMA ShareMoved ==
  ASSUME Share!NoUpdateForgotten,
         accepted' \subseteq accepted \cup Share!Waiting',
         Share!Waiting \cup (UNION flights) \subseteq
             Share!Waiting' \cup (UNION flights') \cup sent' \cup dropped',
         sent \subseteq sent', dropped \subseteq dropped',
         queue' # Nil => timers' > 0
  PROVE  Share!NoUpdateForgotten'
  BY DEF Share!NoUpdateForgotten

LEMMA CountsTyped ==
  ASSUME MaxShareCalls \in Nat, NEW c \in Nat, NEW r \in Nat, NEW n \in 0..MaxShareCalls, c + r <= n
  PROVE  c \in 0..MaxShareCalls /\ r \in 0..MaxShareCalls
  OBVIOUS

LEMMA ShareStepInv ==
  ASSUME Share!ConstantAssumption, ShareIInv, [Share!Next]_(Share!vars)
  PROVE  ShareIInv'
<1> USE DEF ShareIInv
<1>0. /\ creating \in Nat /\ removing \in Nat /\ calls \in Nat /\ timers \in Nat
      /\ MaxShareCalls \in Nat /\ calls <= MaxShareCalls
      /\ creating + removing <= calls
  BY DEF Share!TypeOK, Counted, Share!ConstantAssumption
<1>1. CASE UNCHANGED Share!vars
  BY <1>1 DEF Share!vars, Share!mapVars, Share!serverVars, Share!callVars, Share!TypeOK, Counted, Share!NoUpdateForgotten, Share!Waiting
<1>2. CASE Share!Update
  <2>1. /\ Share!Sync({updates + 1}) /\ updates' = updates + 1
        /\ UNCHANGED <<row, flights, sent, dropped, creating, reading, removing, calls>>
        /\ {updates + 1} \in SUBSET Share!Updates /\ updates + 1 \in 0..MaxUpdates
    BY <1>2 DEF Share!Update, Share!TypeOK, Share!ConstantAssumption, Share!Updates, Share!serverVars, Share!callVars
  <2>2. Share!TypeOK' /\ Counted'
    <3>1. /\ queue' \in (SUBSET Share!Updates) \cup {Nil} /\ timers' \in Nat
          /\ accepted' \in SUBSET Share!Updates /\ shared' \in {"null", "share"}
      BY <2>1, SyncKeeps
    <3>2. Counted' /\ creating' \in 0..MaxShareCalls /\ removing' \in 0..MaxShareCalls /\ calls' \in 0..MaxShareCalls
      BY <2>1 DEF Share!TypeOK, Counted
    <3>3. /\ updates' \in 0..MaxUpdates /\ row' \in BOOLEAN /\ flights' \subseteq SUBSET Share!Updates
          /\ sent' \subseteq Share!Updates /\ dropped' \subseteq Share!Updates /\ reading' \subseteq 0..MaxUpdates
      BY <2>1 DEF Share!TypeOK
    <3>4. Share!TypeOK'
      <4>1. accepted' \subseteq Share!Updates
        BY <3>1
      <4>2. shared' \in {"unknown", "null", "share"}
        BY <3>1
      <4>3. queue' \in (SUBSET Share!Updates) \cup {Nil} /\ timers' \in Nat
        BY <3>1
      <4> QED BY ZenonT(30), <3>2, <3>3, <4>1, <4>2, <4>3 DEF Share!TypeOK
    <3> QED BY <3>2, <3>4
  <2>3. Share!NoUpdateForgotten'
    BY <2>1, SyncKeeps, ShareMoved
  <2> QED BY <2>2, <2>3
<1>3. CASE Share!Flush
  <2>1. /\ timers' = timers - 1 /\ timers' \in Nat /\ queue' = Nil
        /\ UNCHANGED <<updates, accepted, row, sent, Share!callVars>>
    BY <1>3 DEF Share!Flush, Share!TypeOK
  <2>2. \/ UNCHANGED <<shared, flights, dropped>> /\ Share!Waiting = {}
        \/ flights' = flights \cup {queue} /\ dropped' = dropped /\ queue # Nil
           /\ shared' \in {"null", "share"}
        \/ dropped' = dropped \cup queue /\ flights' = flights /\ queue # Nil
           /\ shared' \in {"null", "share"}
    BY <1>3, Batches DEF Share!Flush, Share!Waiting
  <2>3. Share!TypeOK' /\ Counted'
    BY <2>1, <2>2 DEF Share!TypeOK, Counted, Share!callVars
  <2>4. Share!Waiting \cup (UNION flights) \subseteq (UNION flights') \cup dropped' /\ dropped \subseteq dropped'
    BY <2>2, Batches
  <2>5. Share!NoUpdateForgotten'
    BY <2>1, <2>4, ShareMoved
  <2> QED BY <2>3, <2>5
<1>4. ASSUME NEW b \in flights, Share!Posted(b) PROVE ShareIInv'
  <2>1. /\ flights' = flights \ {b} /\ sent' = sent \cup b
        /\ UNCHANGED <<updates, accepted, row, shared, queue, timers, dropped, Share!callVars>>
        /\ b \in SUBSET Share!Updates
    BY <1>4, Batches DEF Share!Posted, Share!mapVars
  <2>2. Share!Waiting' = Share!Waiting
    BY <2>1 DEF Share!Waiting
  <2>3. (UNION flights) \subseteq (UNION flights') \cup sent'
    <3> SUFFICES ASSUME NEW c \in flights, NEW u \in c PROVE u \in (UNION flights') \cup sent'
      OBVIOUS
    <3> QED BY <2>1
  <2>4. Share!TypeOK' /\ Counted'
    BY <2>1 DEF Share!TypeOK, Counted, Share!callVars
  <2>5. Share!NoUpdateForgotten'
    BY <2>1, <2>2, <2>3, ShareMoved DEF Share!NoUpdateForgotten
  <2> QED BY <2>4, <2>5
<1>5. CASE Share!Create \/ Share!Created \/ Share!CreateFails \/ Share!RemoveFails
  <2>1. /\ UNCHANGED <<updates, accepted, queue, timers, flights, sent, dropped>>
        /\ row' \in {row, TRUE} /\ shared' \in {shared, "share"}
        /\ reading' \in {reading, reading \cup {updates}}
    BY <1>5 DEF Share!Create, Share!Created, Share!CreateFails, Share!RemoveFails, Share!mapVars, Share!serverVars
  <2>2. /\ creating' \in Nat /\ removing' \in Nat /\ calls' \in 0..MaxShareCalls
        /\ creating' + removing' <= calls'
    BY <1>0, <1>5 DEF Share!Create, Share!Created, Share!CreateFails, Share!RemoveFails
  <2>3. Share!TypeOK' /\ Counted'
    BY <1>0, <2>1, <2>2, CountsTyped DEF Share!TypeOK, Counted
  <2>4. Share!NoUpdateForgotten'
    BY <2>1 DEF Share!NoUpdateForgotten, Share!Waiting
  <2> QED BY <2>3, <2>4
<1>6. ASSUME NEW n \in reading, Share!FullSync(n) PROVE ShareIInv'
  <2>1. /\ Share!Sync(1..n) /\ reading' = reading \ {n} /\ 1..n \in SUBSET Share!Updates
        /\ UNCHANGED <<updates, row, flights, sent, dropped, creating, removing, calls>>
    BY <1>6 DEF Share!FullSync, Share!TypeOK, Share!ConstantAssumption, Share!Updates, Share!serverVars
  <2>2. Share!TypeOK' /\ Counted'
    <3>1. /\ queue' \in (SUBSET Share!Updates) \cup {Nil} /\ timers' \in Nat
          /\ accepted' \in SUBSET Share!Updates /\ shared' \in {"null", "share"}
      BY <2>1, SyncKeeps
    <3>2. Counted' /\ creating' \in 0..MaxShareCalls /\ removing' \in 0..MaxShareCalls /\ calls' \in 0..MaxShareCalls
      BY <2>1 DEF Share!TypeOK, Counted
    <3>3. /\ updates' \in 0..MaxUpdates /\ row' \in BOOLEAN /\ flights' \subseteq SUBSET Share!Updates
          /\ sent' \subseteq Share!Updates /\ dropped' \subseteq Share!Updates /\ reading' \subseteq 0..MaxUpdates
      BY <2>1 DEF Share!TypeOK
    <3>4. Share!TypeOK'
      <4>1. accepted' \subseteq Share!Updates
        BY <3>1
      <4>2. shared' \in {"unknown", "null", "share"}
        BY <3>1
      <4>3. queue' \in (SUBSET Share!Updates) \cup {Nil} /\ timers' \in Nat
        BY <3>1
      <4> QED BY ZenonT(30), <3>2, <3>3, <4>1, <4>2, <4>3 DEF Share!TypeOK
    <3> QED BY <3>2, <3>4
  <2>3. Share!NoUpdateForgotten'
    BY <2>1, SyncKeeps, ShareMoved
  <2> QED BY <2>2, <2>3
<1>7. ASSUME NEW n \in reading, Share!FullSyncFails(n) PROVE ShareIInv'
  BY <1>7 DEF Share!FullSyncFails, Share!mapVars, Share!serverVars, Share!TypeOK, Counted, Share!NoUpdateForgotten, Share!Waiting
<1>8. CASE Share!Remove \/ Share!Removed
  <2>1. /\ UNCHANGED <<updates, accepted, timers, flights, sent, creating, reading>>
        /\ row' \in {row, FALSE} /\ shared' \in {"unknown", "share"}
        /\ \/ queue' = queue /\ dropped' = dropped
           \/ queue' = Nil /\ dropped' = dropped \cup Share!Waiting
    BY <1>8 DEF Share!Remove, Share!Removed, Share!Forget, Share!serverVars
  <2>2. removing' \in Nat /\ calls' \in 0..MaxShareCalls /\ creating + removing' <= calls'
    BY <1>0, <1>8 DEF Share!Remove, Share!Removed
  <2>3. Share!TypeOK' /\ Counted'
    BY <1>0, <2>1, <2>2, Batches, CountsTyped DEF Share!TypeOK, Counted
  <2>4. Share!NoUpdateForgotten'
    <3>1. CASE queue' = queue /\ dropped' = dropped
      BY <2>1, <3>1 DEF Share!NoUpdateForgotten, Share!Waiting
    <3>2. CASE queue' = Nil /\ dropped' = dropped \cup Share!Waiting
      BY <2>1, <3>2, ShareMoved
    <3> QED BY <2>1, <3>1, <3>2
  <2> QED BY <2>3, <2>4
<1> HIDE DEF ShareIInv
<1> QED BY <1>1, <1>2, <1>3, <1>4, <1>5, <1>6, <1>7, <1>8 DEF Share!Next

LEMMA ShareInvGives == ShareIInv => Share!TypeOK /\ Share!NoUpdateForgotten
  BY DEF ShareIInv

\* A step of the services is a step of this component or leaves it alone.
LEMMA ShareMoves == [Next]_vars => [Share!Next]_(Share!vars)
  BY DEF Next, Others, vars, shareVars, Share!vars, Share!mapVars, Share!serverVars, Share!callVars

LEMMA ShareInvariant == Spec => []ShareIInv
<1>1. Init => ShareIInv
  BY ComponentAssumptions, ShareInitInv DEF Init
<1>2. ShareIInv /\ [Next]_vars => ShareIInv'
  BY ComponentAssumptions, ShareMoves, ShareStepInv
<1> QED BY <1>1, <1>2, PTL DEF Spec

\* Every update that was queued is waiting, on its way, sent or given up with the
\* share.
THEOREM NoUpdateForgottenTheorem == Spec => []NoUpdateForgotten
<1>1. ShareIInv => NoUpdateForgotten
  BY ShareInvGives DEF NoUpdateForgotten
<1>2. Spec => []ShareIInv
  BY ShareInvariant
<1> QED BY <1>1, <1>2, PTL

----------------------------------------------------------------------------
(* The refresh of an access token (Account).                               *)

\* Every pair that is held or has been taken is one that the server has issued.
TokenNumbered ==
    /\ tokenRow # Nil => tokenRow <= issued
    /\ \A p \in spent : p <= issued
    /\ lookup \in {"sent", "answered"} => tokenSent \in Token!Pairs /\ tokenSent <= issued

\* The answer that waits to be stored is a new pair.
AnswerIsNew == lookup = "answered" => answer \in Token!Pairs \ spent /\ answer <= issued

\* The row holds a token that has been taken only until the answer is stored.
SpentRow == tokenRow \in spent => lost \/ lookup = "answered"

TokenIInv == Token!TypeOK /\ TokenNumbered /\ AnswerIsNew /\ SpentRow /\ Token!RefreshUsedOnce

LEMMA TokenInitInv ==
  ASSUME Token!ConstantAssumption, Token!Init
  PROVE  TokenIInv
<1>1. issued \in 0..MaxTokens
  BY DEF Token!ConstantAssumption, Token!Init
<1>2. Token!TypeOK
  BY <1>1 DEF Token!Init, Token!TypeOK
<1> QED BY <1>2 DEF Token!Init, TokenIInv, TokenNumbered, AnswerIsNew, SpentRow, Token!RefreshUsedOnce

LEMMA NextPair ==
  ASSUME Token!ConstantAssumption, Token!TypeOK, TokenNumbered, issued < MaxTokens
  PROVE  /\ issued + 1 \in Token!Pairs /\ issued + 1 \in 0..MaxTokens /\ issued \in Nat
         /\ issued + 1 \notin spent
  BY DEF Token!ConstantAssumption, Token!TypeOK, TokenNumbered, Token!Pairs

LEMMA OverTyped ==
  ASSUME Token!TypeOK, Token!RefreshOver
  PROVE  /\ caller' \in [TokenCallers -> {"idle", "read", "joined"}]
         /\ lookup' = "none" /\ leader' = Nil /\ tokenSent' = Nil /\ answer' = Nil
  BY DEF Token!TypeOK, Token!RefreshOver

LEMMA TokenStepInv ==
  ASSUME Token!ConstantAssumption, TokenIInv, [Token!Next]_(Token!vars)
  PROVE  TokenIInv'
<1> USE DEF TokenIInv, Token!refreshing, Token!history
<1>0. issued \in Nat /\ Nil \notin Nat /\ MaxTokens \in Nat
  BY DEF Token!ConstantAssumption, Token!TypeOK
<1>a. Nil \notin spent
  <2>1. spent \subseteq Token!Pairs
    BY DEF Token!TypeOK
  <2>2. Token!Pairs \subseteq Nat
    BY <1>0 DEF Token!Pairs
  <2> QED BY <1>0, <2>1, <2>2
<1>1. CASE UNCHANGED Token!vars
  BY <1>1 DEF Token!vars, Token!TypeOK, TokenNumbered, AnswerIsNew, SpentRow, Token!RefreshUsedOnce
<1>2. CASE Token!PersistAccount
  <2>1. tokenRow' = issued + 1 /\ issued' = issued + 1 /\ issued < MaxTokens
        /\ fresh' = TRUE /\ UNCHANGED <<caller, lookup, leader, tokenSent, answer, spent, reused, lost>>
    BY <1>2 DEF Token!PersistAccount
  <2>2. Token!TypeOK'
    BY <2>1, NextPair DEF Token!TypeOK
  <2>3. TokenNumbered' /\ AnswerIsNew'
    BY <1>0, <2>1 DEF TokenNumbered, AnswerIsNew, Token!Pairs, Token!TypeOK
  <2> QED BY <2>1, <2>2, <2>3, NextPair DEF SpentRow, Token!RefreshUsedOnce
<1>3. CASE Token!Remove \/ Token!Expires
  <2>2. UNCHANGED <<issued, caller, lookup, leader, tokenSent, answer, spent, reused, lost>>
        /\ tokenRow' \in {tokenRow, Nil} /\ fresh' = FALSE
    BY <1>3 DEF Token!Remove, Token!Expires
  <2> QED BY <1>a, <2>2 DEF Token!TypeOK, TokenNumbered, AnswerIsNew, SpentRow, Token!RefreshUsedOnce
<1>4. ASSUME NEW c \in TokenCallers,
             Token!ResolveAccess(c) \/ Token!JoinRefresh(c) \/ Token!StartRefresh(c) \/ Token!Leave(c)
      PROVE  TokenIInv'
  <2>1. /\ UNCHANGED <<tokenRow, fresh, issued, tokenSent, answer, spent, reused, lost>>
        /\ \/ lookup' = lookup /\ leader' = leader
           \/ lookup = "none" /\ lookup' = "start" /\ leader' = c
        /\ \E at \in {"idle", "read", "joined"} : caller' = [caller EXCEPT ![c] = at]
    BY <1>4 DEF Token!ResolveAccess, Token!JoinRefresh, Token!StartRefresh, Token!Leave
  <2> QED BY <2>1 DEF Token!TypeOK, TokenNumbered, AnswerIsNew, SpentRow, Token!RefreshUsedOnce
<1>5. CASE Token!LookupEnds \/ Token!RequestFails
  <2>1. /\ Token!RefreshOver /\ lookup \in {"start", "sent"}
        /\ UNCHANGED <<tokenRow, fresh, issued, spent, reused, lost>>
    BY <1>5 DEF Token!LookupEnds, Token!RequestFails
  <2> QED BY <2>1, OverTyped DEF Token!TypeOK, TokenNumbered, AnswerIsNew, SpentRow, Token!RefreshUsedOnce
<1>6. CASE Token!SendRefresh
  <2>1. tokenRow \in Token!Pairs /\ lookup = "start"
    BY <1>6 DEF Token!SendRefresh, Token!NeedsRefresh, Token!TypeOK
  <2>2. /\ lookup' = "sent" /\ tokenSent' = tokenRow /\ reused' = (reused \/ tokenRow \in spent)
        /\ UNCHANGED <<tokenRow, fresh, issued, caller, leader, answer, spent, lost>>
    BY <1>6 DEF Token!SendRefresh
  <2>3. tokenRow <= issued /\ tokenRow # Nil
    BY <1>0, <2>1 DEF TokenNumbered, Token!Pairs
  <2>4. Token!TypeOK'
    BY <2>1, <2>2 DEF Token!TypeOK
  <2>5. TokenNumbered' /\ AnswerIsNew'
    BY <2>1, <2>2, <2>3 DEF TokenNumbered, AnswerIsNew
  <2> QED BY <2>1, <2>2, <2>4, <2>5 DEF SpentRow, Token!RefreshUsedOnce
<1>7. CASE Token!ServerAnswers
  <2>1. /\ lookup = "sent" /\ lookup' = "answered" /\ tokenSent \in Token!Pairs /\ tokenSent <= issued
        /\ spent' = spent \cup {tokenSent} /\ issued' = issued + 1 /\ answer' = issued + 1
        /\ UNCHANGED <<tokenRow, fresh, caller, leader, tokenSent, reused, lost>> /\ issued < MaxTokens
    BY <1>7 DEF Token!ServerAnswers, TokenNumbered
  <2>2. Token!TypeOK'
    BY <2>1, NextPair DEF Token!TypeOK
  <2>3. TokenNumbered'
    BY <1>0, <2>1 DEF TokenNumbered, Token!TypeOK, Token!Pairs
  <2>4. AnswerIsNew'
    BY <1>0, <2>1, NextPair DEF AnswerIsNew
  <2> QED BY <2>1, <2>2, <2>3, <2>4 DEF SpentRow, Token!RefreshUsedOnce
<1>8. CASE Token!PersistToken
  <2>1. /\ Token!RefreshOver /\ lookup = "answered" /\ tokenRow' \in {Nil, answer} /\ fresh' \in BOOLEAN
        /\ UNCHANGED <<issued, spent, reused, lost>>
    BY <1>8 DEF Token!PersistToken
  <2>2. tokenRow' \notin spent /\ tokenRow' \in Token!Pairs \cup {Nil} /\ (tokenRow' # Nil => tokenRow' <= issued)
    BY <1>a, <2>1 DEF AnswerIsNew
  <2> QED BY <2>1, <2>2, OverTyped DEF Token!TypeOK, TokenNumbered, AnswerIsNew, SpentRow, Token!RefreshUsedOnce
<1>9. CASE Token!RefreshLost
  <2>1. /\ Token!RefreshOver /\ lost' = (lost \/ lookup = "answered")
        /\ UNCHANGED <<tokenRow, fresh, issued, spent, reused>>
    BY <1>9 DEF Token!RefreshLost
  <2> QED BY <2>1, OverTyped DEF Token!TypeOK, TokenNumbered, AnswerIsNew, SpentRow, Token!RefreshUsedOnce
<1> QED BY <1>1, <1>2, <1>3, <1>4, <1>5, <1>6, <1>7, <1>8, <1>9 DEF Token!Next

LEMMA TokenInvGives == TokenIInv => Token!TypeOK /\ Token!RefreshUsedOnce
  BY DEF TokenIInv

\* A step of the services is a step of this component or leaves it alone.
LEMMA TokenMoves == [Next]_vars => [Token!Next]_(Token!vars)
  BY DEF Next, Others, vars, tokenVars, Token!vars

LEMMA TokenInvariant == Spec => []TokenIInv
<1>1. Init => TokenIInv
  BY ComponentAssumptions, TokenInitInv DEF Init
<1>2. TokenIInv /\ [Next]_vars => TokenIInv'
  BY ComponentAssumptions, TokenMoves, TokenStepInv
<1> QED BY <1>1, <1>2, PTL DEF Spec

\* A refresh token that the server has taken is not sent again, unless the answer
\* to it was lost.
THEOREM RefreshUsedOnceTheorem == Spec => []RefreshUsedOnce
<1>1. TokenIInv => RefreshUsedOnce
  BY TokenInvGives DEF RefreshUsedOnce
<1>2. Spec => []TokenIInv
  BY TokenInvariant
<1> QED BY <1>1, <1>2, PTL

----------------------------------------------------------------------------
(* Identifiers: they ascend.                                               *)

\* Six bytes hold the numbers of k milliseconds, and what the process sees of
\* the time lies between the wraps e and e + 1.
Window(e, k) ==
    /\ IdSpan = k * CounterSpan
    /\ e * k <= FirstClock - Retention /\ MaxClock < (e + 1) * k

BetweenWraps == \E e, k \in Nat : Window(e, k)

\* The last of the wraps before the process, and the numbers up to it.
Wraps == CHOOSE e \in Nat : \E k \in Nat : Window(e, k)
Passed == Wraps * IdSpan

\* The number of an identifier that was made at the time ts.
OfTime(id, ts) == ts * CounterSpan < id + Passed /\ id + Passed < ts * CounterSpan + CounterSpan

StampsEntries == [id : Stamps!Id, at : FirstClock..MaxClock, cleanups : 0..MaxIds]

StampsOrdered ==
    /\ \A i \in DOMAIN ids :
        /\ OfTime(ids[i].id, ids[i].at)
        /\ ids[i].at <= clock /\ ids[i].cleanups <= cleanups
    /\ \A i, j \in DOMAIN ids :
        i < j => ids[i].at <= ids[j].at /\ ids[i].cleanups <= ids[j].cleanups

\* The counter is ahead of all identifiers of this millisecond that were made
\* since the last cleanup.
CounterAhead ==
    /\ counter < CounterSpan
    /\ \A i \in DOMAIN ids :
        ids[i].at = clock /\ ids[i].cleanups = cleanups =>
            lastTimestamp = clock /\ ids[i].id + Passed <= clock * CounterSpan + counter

FilesOfTime ==
    /\ \A f \in outputs : OfTime(f.id, f.at)
    /\ early = {}

StampsIInv == Stamps!TypeOK /\ StampsOrdered /\ CounterAhead /\ Stamps!IdsAscend /\ FilesOfTime

LEMMA StampsInitInv ==
  ASSUME Stamps!ConstantAssumption, Stamps!Init
  PROVE  StampsIInv
<1> USE DEF Stamps!ConstantAssumption
<1>1. ids = <<>> /\ DOMAIN ids = {}
  BY DEF Stamps!Init
<1>2. clock \in FirstClock..MaxClock /\ counter \in 0..CounterSpan /\ counter < CounterSpan
      /\ lastTimestamp \in -Retention..MaxClock /\ cleanups \in 0..MaxIds
  BY DEF Stamps!Init
<1>3. Stamps!TypeOK
  BY <1>1, <1>2 DEF Stamps!Init, Stamps!TypeOK
<1> QED BY <1>1, <1>2, <1>3 DEF StampsIInv, Stamps!Init, StampsOrdered, CounterAhead, Stamps!IdsAscend, FilesOfTime

LEMMA Product ==
  ASSUME NEW x \in Nat, NEW y \in Nat, NEW s \in Nat, x < y
  PROVE  x * s + s <= y * s /\ x * s \in Nat /\ y * s \in Nat
<1>1. PICK d \in Nat : y = x + 1 + d
  <2>1. y - x - 1 \in Nat /\ y = x + 1 + (y - x - 1)
    OBVIOUS
  <2> QED BY <2>1
<1>2. y * s = x * s + s + d * s /\ d * s \in Nat /\ x * s \in Nat
  BY <1>1
<1> QED BY <1>1, <1>2

LEMMA WindowIs ==
  ASSUME BetweenWraps
  PROVE  Wraps \in Nat /\ \E k \in Nat : Window(Wraps, k)
<1>1. \E e \in Nat : \E k \in Nat : Window(e, k)
  BY DEF BetweenWraps
<1> QED BY <1>1 DEF Wraps

LEMMA Remainder ==
  ASSUME NEW e \in Nat, NEW s \in Nat \ {0}, NEW r \in 0..s - 1
  PROVE  (e * s + r) % s = r
<1> QED OBVIOUS

\* Between two wraps the number of a time is the one of its place there.
LEMMA EncodeExact ==
  ASSUME Stamps!ConstantAssumption, BetweenWraps,
         NEW ts \in Nat, FirstClock - Retention <= ts, ts <= MaxClock,
         NEW n \in 1..CounterSpan, n < CounterSpan
  PROVE  /\ Passed \in Nat
         /\ Stamps!Encode(ts, n) + Passed = ts * CounterSpan + n
         /\ Stamps!Encode(ts, n) \in Stamps!Id
         /\ OfTime(Stamps!Encode(ts, n), ts)
<1>1. Wraps \in Nat /\ IdSpan \in Nat \ {0} /\ CounterSpan \in Nat \ {0} /\ MaxClock \in Nat
      /\ FirstClock - Retention \in Nat
  BY WindowIs DEF Stamps!ConstantAssumption
<1>2. PICK k \in Nat : Window(Wraps, k)
  BY WindowIs
<1>3. PICK w \in Nat, u \in Nat : w = Wraps * k /\ u = (Wraps + 1) * k
  BY <1>1
<1>4. w * CounterSpan = Passed /\ u * CounterSpan = Passed + IdSpan /\ Passed \in Nat
  <2>1. w * CounterSpan = Wraps * (k * CounterSpan) /\ u * CounterSpan = Wraps * (k * CounterSpan) + k * CounterSpan
    BY <1>1, <1>3
  <2>2. k * CounterSpan = IdSpan /\ Wraps * IdSpan \in Nat
    BY <1>1, <1>2 DEF Window
  <2> QED BY <2>1, <2>2 DEF Passed
<1>5. w <= ts /\ ts < u
  BY <1>1, <1>2, <1>3 DEF Window
<1> DEFINE m == ts * CounterSpan
<1>6. m \in Nat /\ Passed <= m /\ m + CounterSpan <= Passed + IdSpan
  <2>1. m + CounterSpan <= u * CounterSpan /\ m \in Nat
    BY <1>1, <1>5, Product
  <2>2. w * CounterSpan <= m
    <3>1. CASE w = ts
      BY <1>1, <3>1
    <3>2. CASE w < ts
      <4>1. w * CounterSpan + CounterSpan <= m /\ w * CounterSpan \in Nat /\ m \in Nat
        BY <1>1, <3>2, Product
      <4> HIDE DEF m
      <4> QED BY <1>1, <4>1
    <3> QED BY <1>5, <3>1, <3>2
  <2> QED BY <1>4, <2>1, <2>2
<1> HIDE DEF m
<1>7. PICK r \in 0..IdSpan - 1 : m + n = Passed + r
  <2>1. m + n - Passed \in 0..IdSpan - 1 /\ m + n = Passed + (m + n - Passed)
    BY <1>1, <1>4, <1>6
  <2> QED BY <2>1
<1>8. (m + n) % IdSpan = r
  BY <1>1, <1>7, Remainder DEF Passed
<1>9. Stamps!Encode(ts, n) = r
  BY <1>8 DEF Stamps!Encode, m
<1>10. OfTime(r, ts)
  BY <1>1, <1>4, <1>6, <1>7 DEF OfTime, m
<1> QED BY <1>4, <1>7, <1>9, <1>10 DEF Stamps!Id, m

\* The time in an identifier is the one since the last wrap.
LEMMA TimestampExact ==
  ASSUME Stamps!ConstantAssumption, BetweenWraps, NEW k \in Nat, Window(Wraps, k),
         NEW ts \in Nat, FirstClock - Retention <= ts, NEW id \in Stamps!Id, OfTime(id, ts)
  PROVE  Stamps!Timestamp(id) = ts - Wraps * k
<1>1. Wraps \in Nat /\ IdSpan \in Nat \ {0} /\ CounterSpan \in Nat \ {0}
      /\ FirstClock - Retention \in Nat /\ id \in Nat
  BY WindowIs DEF Stamps!ConstantAssumption, Stamps!Id
<1>2. PICK w \in Nat : w = Wraps * k
  BY <1>1
<1>3. w <= ts /\ w * CounterSpan = Passed
  <2>1. w * CounterSpan = Wraps * (k * CounterSpan)
    BY <1>1, <1>2
  <2> QED BY <1>1, <1>2, <2>1 DEF Passed, Window
<1>4. PICK t \in Nat : ts = w + t
  <2>1. ts - w \in Nat /\ ts = w + (ts - w)
    BY <1>3
  <2> QED BY <2>1
<1>5. ts * CounterSpan = Passed + t * CounterSpan /\ t * CounterSpan \in Nat /\ Passed \in Nat
  <2>1. (w + t) * CounterSpan = w * CounterSpan + t * CounterSpan /\ t * CounterSpan \in Nat /\ w * CounterSpan \in Nat
    BY <1>1
  <2> QED BY <1>3, <1>4, <2>1
<1> DEFINE m == t * CounterSpan
<1>6. m < id /\ id < m + CounterSpan
  BY <1>1, <1>5 DEF OfTime
<1>7. PICK r \in Nat : id = m + r /\ r < CounterSpan
  <2> HIDE DEF m
  <2>1. m \in Nat
    BY <1>5 DEF m
  <2>2. id - m \in Nat /\ id = m + (id - m) /\ id - m < CounterSpan
    BY <1>1, <1>6, <2>1
  <2> QED BY <2>2
<1>8. id = t * CounterSpan + r /\ r \in 0..CounterSpan - 1
  BY <1>1, <1>7
<1>9. Stamps!Timestamp(id) = t
  BY <1>1, <1>8 DEF Stamps!Timestamp
<1> QED BY <1>2, <1>4, <1>9

\* A new identifier is greater than all those that it is to follow.
LEMMA AppendInv ==
  ASSUME Stamps!ConstantAssumption, BetweenWraps, StampsIInv, Stamps!Count(clock) < CounterSpan,
         Stamps!Stamp(clock), ids' = Append(ids, Stamps!Entry(clock)), UNCHANGED <<clock, cleanups>>
  PROVE  /\ ids' \in Seq(StampsEntries)
         /\ lastTimestamp' \in -Retention..MaxClock /\ counter' \in 0..CounterSpan
         /\ Stamps!Entry(clock).id \in Stamps!Id /\ OfTime(Stamps!Entry(clock).id, clock)
         /\ StampsOrdered' /\ CounterAhead' /\ Stamps!IdsAscend'
<1> DEFINE n == Stamps!Count(clock)
           e == Stamps!Entry(clock)
           k == Len(ids) + 1
<1>1. /\ clock \in Nat /\ clock <= MaxClock /\ clock \in FirstClock..MaxClock
      /\ cleanups \in 0..MaxIds /\ cleanups \in Nat /\ ids \in Seq(StampsEntries)
      /\ CounterSpan \in Nat \ {0} /\ MaxClock \in Nat /\ Retention \in Nat
      /\ IdSpan \in Nat \ {0} /\ FirstClock - Retention <= clock
  BY DEF StampsIInv, Stamps!TypeOK, Stamps!ConstantAssumption, StampsEntries
<1>2. n \in 1..CounterSpan /\ n < CounterSpan
  BY <1>1 DEF Stamps!Count, StampsIInv, Stamps!TypeOK
<1>3. /\ e.id + Passed = clock * CounterSpan + n /\ Passed \in Nat /\ e.at = clock /\ e.cleanups = cleanups
      /\ e.id \in Stamps!Id /\ OfTime(e.id, clock) /\ e \in StampsEntries
  <2>1. /\ Passed \in Nat /\ Stamps!Encode(clock, n) + Passed = clock * CounterSpan + n
        /\ Stamps!Encode(clock, n) \in Stamps!Id
        /\ OfTime(Stamps!Encode(clock, n), clock)
    BY <1>1, <1>2, EncodeExact
  <2> QED BY <1>1, <2>1 DEF Stamps!Entry, StampsEntries
<1>4. lastTimestamp' = clock /\ counter' = n
  BY DEF Stamps!Stamp
<1> HIDE DEF n, e
<1>5. /\ Len(ids) \in Nat /\ DOMAIN ids = 1..Len(ids) /\ DOMAIN ids' = 1..k
      /\ ids'[k] = e /\ \A i \in DOMAIN ids : ids'[i] = ids[i]
      /\ ids' \in Seq(StampsEntries)
  BY <1>1, <1>3 DEF e
<1>6. \A i \in DOMAIN ids' : i = k \/ (i \in DOMAIN ids /\ i < k)
  BY <1>5
<1>7. \A i \in DOMAIN ids : ids[i] \in StampsEntries /\ ids[i].id \in Nat /\ ids[i].at \in Nat
                            /\ ids[i].cleanups \in Nat
  <2>1. \A i \in DOMAIN ids : ids[i] \in StampsEntries
    BY <1>1, <1>5
  <2>2. Stamps!Id \subseteq Nat /\ FirstClock..MaxClock \subseteq Nat /\ 0..MaxIds \subseteq Nat
    BY DEF Stamps!Id, Stamps!ConstantAssumption
  <2> QED BY <2>1, <2>2 DEF StampsEntries
<1>8. StampsOrdered'
  <2>1. \A i \in DOMAIN ids : /\ OfTime(ids[i].id, ids[i].at)
                              /\ ids[i].at <= clock /\ ids[i].cleanups <= cleanups
    BY DEF StampsIInv, StampsOrdered
  <2>2. \A i, j \in DOMAIN ids :
            i < j => ids[i].at <= ids[j].at /\ ids[i].cleanups <= ids[j].cleanups
    BY DEF StampsIInv, StampsOrdered
  <2>3. \A i \in DOMAIN ids' :
            /\ OfTime(ids'[i].id, ids'[i].at)
            /\ ids'[i].at <= clock /\ ids'[i].cleanups <= cleanups
    BY <1>1, <1>3, <1>5, <1>6, <2>1
  <2>4. ASSUME NEW i \in DOMAIN ids', NEW j \in DOMAIN ids', i < j
        PROVE  ids'[i].at <= ids'[j].at /\ ids'[i].cleanups <= ids'[j].cleanups
    <3>1. i \in DOMAIN ids
      BY <1>5, <2>4
    <3>2. CASE j = k
      BY <1>3, <1>5, <2>1, <3>1, <3>2
    <3>3. CASE j \in DOMAIN ids
      BY <1>5, <2>2, <2>4, <3>1, <3>3
    <3> QED BY <1>6, <3>2, <3>3
  <2> QED BY <2>3, <2>4 DEF StampsOrdered, OfTime
<1>9. \A i \in DOMAIN ids : ids[i].at < clock \/ ids[i].cleanups = cleanups => ids[i].id < e.id
  <2> SUFFICES ASSUME NEW i \in DOMAIN ids, ids[i].at < clock \/ ids[i].cleanups = cleanups
               PROVE  ids[i].id < e.id
    OBVIOUS
  <2>1. ids[i].at <= clock /\ OfTime(ids[i].id, ids[i].at)
    BY DEF StampsIInv, StampsOrdered
  <2>2. clock * CounterSpan \in Nat /\ ids[i].at * CounterSpan \in Nat /\ n \in Nat /\ n > 0
    BY <1>1, <1>2, <1>7
  <2>3. CASE ids[i].at < clock
    <3>1. ids[i].at * CounterSpan + CounterSpan <= clock * CounterSpan
      BY <1>1, <1>7, <2>3, Product
    <3>2. ids[i].id + Passed < ids[i].at * CounterSpan + CounterSpan
      BY <2>1 DEF OfTime
    <3>3. PICK x \in Nat, y \in Nat : x = ids[i].at * CounterSpan /\ y = clock * CounterSpan
      BY <2>2
    <3>4. x + CounterSpan <= y /\ ids[i].id + Passed < x + CounterSpan /\ e.id + Passed = y + n
      BY <1>3, <3>1, <3>2, <3>3
    <3>5. ids[i].id \in Nat /\ e.id \in Nat /\ CounterSpan \in Nat /\ n \in Nat /\ Passed \in Nat
      BY <1>1, <1>3, <1>7, <2>2 DEF Stamps!Id
    <3> QED BY <3>4, <3>5
  <2>4. CASE ids[i].at = clock /\ ids[i].cleanups = cleanups
    <3>1. lastTimestamp = clock /\ ids[i].id + Passed <= clock * CounterSpan + counter
      BY <2>4 DEF StampsIInv, CounterAhead
    <3>2. n = counter + 1 /\ counter \in Nat
      BY <1>1, <3>1 DEF n, Stamps!Count, StampsIInv, Stamps!TypeOK
    <3>3. e.id \in Nat /\ Passed \in Nat
      BY <1>1, <1>3 DEF Stamps!Id
    <3> QED BY <1>3, <1>7, <2>2, <3>1, <3>2, <3>3
  <2> QED BY <1>1, <1>7, <2>1, <2>3, <2>4
<1>10. CounterAhead'
  <2>1. \A i \in DOMAIN ids' :
            ids'[i].at = clock /\ ids'[i].cleanups = cleanups =>
                ids'[i].id + Passed <= clock * CounterSpan + n
    <3>1. \A i \in DOMAIN ids : ids[i].cleanups = cleanups => ids[i].id <= e.id
      BY <1>3, <1>7, <1>9 DEF Stamps!Id
    <3>2. e.id \in Nat /\ Passed \in Nat /\ e.id + Passed <= clock * CounterSpan + n
      BY <1>1, <1>2, <1>3 DEF Stamps!Id
    <3>3. \A i \in DOMAIN ids' : ids'[i].cleanups = cleanups => ids'[i].id \in Nat /\ ids'[i].id <= e.id
      BY <1>3, <1>5, <1>6, <1>7, <3>1, <3>2
    <3>4. PICK c \in Nat : c = clock * CounterSpan + n
      BY <1>1, <1>2
    <3>5. \A i \in DOMAIN ids' : ids'[i].cleanups = cleanups => ids'[i].id + Passed <= c
      BY <3>2, <3>3, <3>4
    <3> QED BY <3>4, <3>5
  <2> QED BY <1>2, <1>4, <2>1 DEF CounterAhead
<1>11. Stamps!IdsAscend'
  <2> SUFFICES ASSUME NEW i \in DOMAIN ids', NEW j \in DOMAIN ids', i < j,
                      ids'[i].at < ids'[j].at \/ ids'[i].cleanups = ids'[j].cleanups
               PROVE  /\ ids'[i].id < ids'[j].id
                      /\ Stamps!Descending(ids'[j].id) < Stamps!Descending(ids'[i].id)
    BY DEF Stamps!IdsAscend, Stamps!Descending
  <2>1. i \in DOMAIN ids
    BY <1>5
  <2>2. CASE j = k
    <3>1. ids'[i].id < ids'[j].id
      BY <1>3, <1>5, <1>9, <2>1, <2>2
    <3> QED BY <1>1, <1>3, <1>5, <1>7, <2>1, <2>2, <3>1 DEF Stamps!Descending, Stamps!Id
  <2>3. CASE j \in DOMAIN ids
    BY <1>5, <2>1, <2>3 DEF StampsIInv, Stamps!IdsAscend, Stamps!Descending
  <2> QED BY <1>6, <2>2, <2>3
<1>12. lastTimestamp' \in -Retention..MaxClock /\ counter' \in 0..CounterSpan
  BY <1>1, <1>2, <1>4
<1> QED BY <1>3, <1>5, <1>8, <1>10, <1>11, <1>12 DEF e

LEMMA StampsStepInv ==
  ASSUME Stamps!ConstantAssumption, BetweenWraps, StampsIInv, [Stamps!Next]_(Stamps!vars)
  PROVE  StampsIInv'
<1>0. /\ clock \in Nat /\ cleanups \in Nat /\ MaxClock \in Nat /\ MaxIds \in Nat
      /\ counter \in Nat /\ Retention \in Nat /\ CounterSpan \in Nat /\ FirstClock \in Nat
      /\ Retention < FirstClock /\ FirstClock <= clock /\ clock <= MaxClock
  BY DEF StampsIInv, Stamps!TypeOK, Stamps!ConstantAssumption
<1>a. /\ DOMAIN ids = 1..Len(ids) /\ \A i \in DOMAIN ids : ids[i] \in StampsEntries
      /\ \A i \in DOMAIN ids : ids[i].at \in Nat /\ ids[i].cleanups \in Nat
  <2>1. ids \in Seq(StampsEntries)
    BY DEF StampsIInv, Stamps!TypeOK, StampsEntries
  <2>2. FirstClock..MaxClock \subseteq Nat /\ 0..MaxIds \subseteq Nat
    BY DEF Stamps!ConstantAssumption
  <2>3. DOMAIN ids = 1..Len(ids) /\ \A i \in DOMAIN ids : ids[i] \in StampsEntries
    BY <2>1
  <2> QED BY <2>2, <2>3 DEF StampsEntries
<1>1. CASE UNCHANGED Stamps!vars
  BY <1>1 DEF Stamps!vars, StampsIInv, Stamps!TypeOK, StampsOrdered, OfTime, CounterAhead, Stamps!IdsAscend, Stamps!Descending, FilesOfTime
<1>2. ASSUME NEW t \in FirstClock..MaxClock, Stamps!Tick(t) PROVE StampsIInv'
  <2>1. /\ clock' = t /\ clock < t /\ t \in Nat
        /\ UNCHANGED <<lastTimestamp, counter, ids, cleanups, outputs, early>>
    BY <1>0, <1>2 DEF Stamps!Tick
  <2>2. StampsOrdered' /\ CounterAhead'
    BY <1>0, <1>a, <2>1 DEF StampsIInv, StampsOrdered, OfTime, CounterAhead
  <2>3. Stamps!TypeOK' /\ Stamps!IdsAscend' /\ FilesOfTime'
    BY <1>2, <2>1 DEF StampsIInv, Stamps!TypeOK, Stamps!IdsAscend, Stamps!Descending, FilesOfTime, OfTime
  <2> QED BY <2>2, <2>3 DEF StampsIInv
<1>3. CASE Stamps!Create
  <2>1. /\ Stamps!Count(clock) < CounterSpan /\ Stamps!Stamp(clock) /\ ids' = Append(ids, Stamps!Entry(clock))
        /\ UNCHANGED <<clock, cleanups, outputs, early>>
    BY <1>3 DEF Stamps!Create
  <2>2. /\ ids' \in Seq(StampsEntries)
        /\ lastTimestamp' \in -Retention..MaxClock /\ counter' \in 0..CounterSpan
        /\ StampsOrdered' /\ CounterAhead' /\ Stamps!IdsAscend'
    BY <2>1, AppendInv
  <2> QED BY <2>1, <2>2 DEF StampsIInv, Stamps!TypeOK, StampsEntries, FilesOfTime, OfTime
<1>4. CASE Stamps!Write
  <2>1. /\ Stamps!Count(clock) < CounterSpan /\ Stamps!Stamp(clock) /\ ids' = Append(ids, Stamps!Entry(clock))
        /\ outputs' = outputs \cup {[id |-> Stamps!Entry(clock).id, at |-> clock]}
        /\ UNCHANGED <<clock, cleanups, early>>
    BY <1>4 DEF Stamps!Write
  <2>2. /\ ids' \in Seq(StampsEntries)
        /\ lastTimestamp' \in -Retention..MaxClock /\ counter' \in 0..CounterSpan
        /\ Stamps!Entry(clock).id \in Stamps!Id /\ OfTime(Stamps!Entry(clock).id, clock)
        /\ StampsOrdered' /\ CounterAhead' /\ Stamps!IdsAscend'
    BY <2>1, AppendInv
  <2>3. clock \in FirstClock..MaxClock
    BY DEF StampsIInv, Stamps!TypeOK
  <2> QED BY <2>1, <2>2, <2>3 DEF StampsIInv, Stamps!TypeOK, StampsEntries, FilesOfTime, OfTime
<1>5. CASE Stamps!CleanUp
  <2> DEFINE past == clock - Retention
             cutoff == Stamps!Timestamp(Stamps!Encode(past, Stamps!Count(past)))
  <2>1. /\ Stamps!Count(past) < CounterSpan /\ Stamps!Stamp(past) /\ cleanups' = cleanups + 1
        /\ cleanups < MaxIds /\ UNCHANGED <<clock, ids>>
        /\ outputs' = {f \in outputs : Stamps!Timestamp(f.id) >= cutoff}
        /\ early' = early \cup {f \in outputs \ outputs' : f.at >= past}
    BY <1>5 DEF Stamps!CleanUp
  <2>2. past \in Nat /\ past <= MaxClock /\ FirstClock - Retention <= past /\ past \in -Retention..MaxClock
    BY <1>0
  <2>3. Stamps!Count(past) \in 1..CounterSpan
    BY <1>0, <2>1 DEF Stamps!Count
  <2>t. PICK k \in Nat : Window(Wraps, k)
    BY WindowIs
  <2>4. cutoff = past - Wraps * k
    <3>1. Stamps!Encode(past, Stamps!Count(past)) \in Stamps!Id /\ OfTime(Stamps!Encode(past, Stamps!Count(past)), past)
      BY <2>1, <2>2, <2>3, EncodeExact
    <3> QED BY <2>2, <2>t, <3>1, TimestampExact
  <2> HIDE DEF past, cutoff
  <2>5. outputs' \subseteq outputs
    BY <2>1
  <2>6. early' = {}
    <3>1. ASSUME NEW f \in outputs, f.at >= past PROVE f \in outputs'
      <4>1. f.id \in Stamps!Id /\ f.at \in Nat /\ FirstClock - Retention <= f.at /\ OfTime(f.id, f.at)
        <5>1. f \in [id : Stamps!Id, at : FirstClock..MaxClock] /\ OfTime(f.id, f.at)
          BY DEF StampsIInv, Stamps!TypeOK, FilesOfTime
        <5>2. f.id \in Stamps!Id /\ f.at \in FirstClock..MaxClock
          BY <5>1
        <5> QED BY <1>0, <5>1, <5>2
      <4>2. Stamps!Timestamp(f.id) = f.at - Wraps * k
        BY <2>t, <4>1, TimestampExact
      <4>3. Wraps * k \in Nat
        BY WindowIs, <2>t
      <4> QED BY <2>1, <2>2, <2>4, <3>1, <4>1, <4>2, <4>3
    <3>2. early = {}
      BY DEF StampsIInv, FilesOfTime
    <3> QED BY <2>1, <3>1, <3>2
  <2>7. lastTimestamp' = past /\ counter' = Stamps!Count(past)
    BY <2>1 DEF Stamps!Stamp
  <2>8. Stamps!TypeOK'
    BY <1>0, <2>1, <2>2, <2>3, <2>5, <2>6, <2>7 DEF StampsIInv, Stamps!TypeOK
  <2>9. StampsOrdered' /\ CounterAhead'
    BY <1>0, <1>a, <2>1, <2>7 DEF StampsIInv, StampsOrdered, OfTime, CounterAhead
  <2>10. Stamps!IdsAscend'
    BY <2>1 DEF StampsIInv, Stamps!IdsAscend, Stamps!Descending
  <2>11. FilesOfTime'
    BY <2>5, <2>6 DEF StampsIInv, FilesOfTime, OfTime
  <2> QED BY <2>8, <2>9, <2>10, <2>11 DEF StampsIInv
<1> QED BY <1>1, <1>2, <1>3, <1>4, <1>5 DEF Stamps!Next

LEMMA StampsInvGives == StampsIInv => Stamps!TypeOK /\ Stamps!IdsAscend
  BY DEF StampsIInv

\* A step of the services is a step of this component or leaves it alone.
LEMMA StampsMoves == [Next]_vars => [Stamps!Next]_(Stamps!vars)
  BY DEF Next, Others, vars, stampsVars, Stamps!vars

LEMMA StampsInvariant == BetweenWraps => (Spec => []StampsIInv)
<1> SUFFICES ASSUME BetweenWraps PROVE Spec => []StampsIInv
  OBVIOUS
<1>1. Init => StampsIInv
  BY ComponentAssumptions, StampsInitInv DEF Init
<1>2. StampsIInv /\ [Next]_vars => StampsIInv'
  BY ComponentAssumptions, StampsMoves, StampsStepInv
<1> QED BY <1>1, <1>2, PTL DEF Spec

\* Between two wraps identifiers ascend.
THEOREM IdsAscendTheorem == BetweenWraps => (Spec => []IdsAscend)
<1> SUFFICES ASSUME BetweenWraps PROVE Spec => []IdsAscend
  OBVIOUS
<1>1. StampsIInv => IdsAscend
  BY StampsInvGives DEF IdsAscend
<1>2. Spec => []StampsIInv
  BY StampsInvariant
<1> QED BY <1>1, <1>2, PTL

\* Between two wraps a cleanup removes no file of tool output that is younger
\* than the retention: the time in the name of a file and the one that it is
\* compared with have lost the same wraps.
THEOREM RecentFilesKeptTheorem == BetweenWraps => (Spec => []Stamps!RecentFilesKept)
<1> SUFFICES ASSUME BetweenWraps PROVE Spec => []Stamps!RecentFilesKept
  OBVIOUS
<1>1. StampsIInv => Stamps!RecentFilesKept
  BY DEF StampsIInv, FilesOfTime, Stamps!RecentFilesKept
<1>2. Spec => []StampsIInv
  BY StampsInvariant
<1> QED BY <1>1, <1>2, PTL

----------------------------------------------------------------------------
(* The instance store: a directory has one live instance.                  *)

StoreSegment == \E n \in 0..MaxEntries : Store!Used = 1..n

StorePlaced == \A e \in Store!Used : dir[e] \in Dirs

\* An instance that does not live and will not.
StoreDead(e) == stage[e] = "failed" \/ (stage[e] = "ready" /\ e \in retired)

\* Whoever does not wait for the entry before it has no living one before it.
OlderDead ==
    \A e, f \in Store!Used : e < f /\ dir[e] = dir[f] /\ stage[f] # "await" => StoreDead(e)

\* A reload waits for the entry of its directory that was made before it.
WaitsForLast ==
    \A f \in Store!Used : stage[f] = "await" =>
        /\ prev[f] \in Store!Used /\ prev[f] < f /\ dir[prev[f]] = dir[f]
        /\ \A e \in Store!Used : dir[e] = dir[f] /\ e < f => e <= prev[f]

\* The cache holds the newest entry of a directory; when it holds none, none
\* of them lives.
CacheIsNewest ==
    \A d \in Dirs :
        /\ cache[d] = Nil => \A e \in Store!Used : dir[e] = d => StoreDead(e)
        /\ cache[d] # Nil =>
            /\ cache[d] \in Store!Used /\ dir[cache[d]] = d
            /\ \A e \in Store!Used : dir[e] = d => e <= cache[d]

StoreRetired(e) == e \in Store!Used /\ stage[e] = "ready" /\ e \in retired

CallsHold ==
    \A c \in StoreCallers :
        /\ call[c].at \in {"use", "await", "dispose"} => call[c].ctx \in Store!Used
        /\ call[c].at = "use" => call[c].entry = Nil
        /\ call[c].at \in {"load", "await"} => call[c].entry \in Store!Used
        /\ call[c].at = "dispose" /\ call[c].entry # Nil => StoreRetired(call[c].entry)

SweepHolds ==
    /\ sweep.todo \subseteq Store!Used
    /\ sweep.at # Nil => sweep.at \in Store!Used
    /\ sweep.disposing => sweep.at # Nil /\ StoreRetired(sweep.at)

StoreIInv == /\ Store!TypeOK /\ StoreSegment /\ StorePlaced /\ OlderDead /\ WaitsForLast /\ CacheIsNewest
             /\ CallsHold /\ SweepHolds

LEMMA EntriesAreNumbers ==
  ASSUME Store!ConstantAssumption
  PROVE  /\ Store!Entries \subseteq Nat /\ Store!Used \subseteq Store!Entries /\ Nil \notin Store!Entries
         /\ Nil \notin StoreCallers
  BY DEF Store!ConstantAssumption, Store!Entries, Store!Used

\* The entry made next is the first that is not used.
LEMMA FreshIsNext ==
  ASSUME Store!ConstantAssumption, StoreSegment
  PROVE  /\ Store!Fresh \in Nat /\ Store!Fresh \notin Store!Used
         /\ \A e \in Store!Used : e < Store!Fresh
         /\ Store!Used = 1..Store!Fresh - 1
<1>1. PICK n \in 0..MaxEntries : Store!Used = 1..n
  BY DEF StoreSegment
<1>2. n \in Nat
  BY DEF Store!ConstantAssumption
<1>3. n + 1 \in 1..MaxEntries + 1 /\ n + 1 - 1 = n
  BY <1>2 DEF Store!ConstantAssumption
<1>4. PICK e \in 1..MaxEntries + 1 : e = Store!Fresh /\ Store!Used = 1..e - 1
  BY <1>1, <1>3 DEF Store!Fresh
<1>5. e \in Nat
  BY <1>4 DEF Store!ConstantAssumption
<1> QED BY <1>4, <1>5

LEMMA StoreInitInv ==
  ASSUME Store!ConstantAssumption, Store!Init
  PROVE  StoreIInv
<1>1. Store!Used = {}
  BY DEF Store!Init, Store!Used
<1>2. Store!TypeOK
  BY DEF Store!Init, Store!TypeOK, Store!Idle, Store!NoSweep, Store!Stages
<1>3. StoreSegment
  <2>1. 0 \in 0..MaxEntries /\ 1..0 = {}
    BY DEF Store!ConstantAssumption
  <2> QED BY <1>1, <2>1 DEF StoreSegment
<1>4. CallsHold /\ SweepHolds
  BY <1>1 DEF Store!Init, CallsHold, SweepHolds, Store!Idle, Store!NoSweep
<1> QED BY <1>1, <1>2, <1>3, <1>4
        DEF StoreIInv, Store!Init, StorePlaced, OlderDead, WaitsForLast, CacheIsNewest

----------------------------------------------------------------------------
(* The entries: what each kind of step does to them.                       *)

StoreCore == StoreSegment /\ StorePlaced /\ OlderDead /\ WaitsForLast /\ CacheIsNewest

\* Entries stay used and the dead stay dead.
StoreOnward ==
    /\ \A e \in Store!Used : e \in Store!Used' /\ dir'[e] = dir[e]
    /\ \A e \in Store!Used : StoreRetired(e) => StoreRetired(e)'

\* An entry is made for a directory and put into the cache.
LEMMA NewEntryInv ==
  ASSUME Store!ConstantAssumption, Store!TypeOK, StoreCore, NEW d \in Dirs, Store!NewEntry(d, cache[d]),
         retired' = retired
  PROVE  /\ StoreCore' /\ StoreOnward /\ Store!Fresh \in Store!Used' /\ Store!Fresh \in Store!Entries
         /\ cache' \in [Dirs -> Store!Entries \cup {Nil}]
         /\ dir' \in [Store!Entries -> Dirs \cup {Nil}]
         /\ stage' \in [Store!Entries -> Store!Stages]
         /\ prev' \in [Store!Entries -> Store!Entries \cup {Nil}]
<1> DEFINE n == Store!Fresh
           p == cache[d]
<1>1. /\ n \in Nat /\ n \notin Store!Used /\ n \in Store!Entries
      /\ \A e \in Store!Used : e < n
      /\ Store!Used = 1..n - 1
  BY FreshIsNext DEF StoreCore, Store!NewEntry
<1>2. /\ cache' = [cache EXCEPT ![d] = n]
      /\ dir' = [dir EXCEPT ![n] = d]
      /\ prev' = [prev EXCEPT ![n] = p]
      /\ stage' = [stage EXCEPT ![n] = IF p = Nil THEN "lookup" ELSE "await"]
  BY DEF Store!NewEntry
<1>3. Store!Entries \subseteq Nat /\ Store!Used \subseteq Store!Entries /\ Nil \notin Store!Entries
  BY EntriesAreNumbers
<1> HIDE DEF n
<1>4. /\ cache' \in [Dirs -> Store!Entries \cup {Nil}]
      /\ dir' \in [Store!Entries -> Dirs \cup {Nil}]
      /\ stage' \in [Store!Entries -> Store!Stages]
      /\ prev' \in [Store!Entries -> Store!Entries \cup {Nil}]
  BY <1>1, <1>2 DEF Store!TypeOK, Store!Stages
<1>5. Store!Used' = Store!Used \cup {n}
  BY <1>1, <1>2 DEF Store!Used, Store!TypeOK
<1>6. /\ \A e \in Store!Used : dir'[e] = dir[e] /\ stage'[e] = stage[e] /\ prev'[e] = prev[e]
      /\ dir'[n] = d /\ prev'[n] = p
      /\ stage'[n] = IF p = Nil THEN "lookup" ELSE "await"
      /\ cache'[d] = n /\ \A x \in Dirs : x # d => cache'[x] = cache[x]
  BY <1>1, <1>2, <1>3 DEF Store!TypeOK
<1>7. \A e \in Store!Used : StoreDead(e) => StoreDead(e)'
  BY <1>6 DEF StoreDead
<1>8. StoreSegment'
  <2>1. n \in 0..MaxEntries /\ Store!Used' = 1..n
    BY <1>1, <1>5 DEF Store!Entries, Store!ConstantAssumption
  <2> QED BY <2>1 DEF StoreSegment
<1>9. StorePlaced'
  BY <1>5, <1>6 DEF StoreCore, StorePlaced
<1>10. OlderDead'
  <2> SUFFICES ASSUME NEW e \in Store!Used', NEW f \in Store!Used', e < f, dir'[e] = dir'[f],
                      stage'[f] # "await"
               PROVE  StoreDead(e)'
    BY DEF OlderDead
  <2>1. e \in Store!Used
    BY <1>1, <1>3, <1>5
  <2>2. CASE f \in Store!Used
    BY <1>6, <1>7, <2>1, <2>2 DEF StoreCore, OlderDead
  <2>3. CASE f = n
    BY <1>6, <1>7, <2>1, <2>3 DEF StoreCore, CacheIsNewest
  <2> QED BY <1>5, <2>2, <2>3
<1>11. WaitsForLast'
  <2> SUFFICES ASSUME NEW f \in Store!Used', stage'[f] = "await"
               PROVE  /\ prev'[f] \in Store!Used' /\ prev'[f] < f /\ dir'[prev'[f]] = dir'[f]
                      /\ \A e \in Store!Used' : dir'[e] = dir'[f] /\ e < f => e <= prev'[f]
    BY DEF WaitsForLast
  <2>1. CASE f \in Store!Used
    <3>1. \A e \in Store!Used' : e < f => e \in Store!Used
      BY <1>1, <1>3, <1>5, <2>1
    <3> QED BY <1>5, <1>6, <2>1, <3>1 DEF StoreCore, WaitsForLast
  <2>2. CASE f = n
    <3>1. p # Nil
      BY <1>6, <2>2
    <3>2. p \in Store!Used /\ dir[p] = d /\ \A e \in Store!Used : dir[e] = d => e <= p
      BY <3>1 DEF StoreCore, CacheIsNewest
    <3> QED BY <1>1, <1>3, <1>5, <1>6, <2>2, <3>2
  <2> QED BY <1>5, <2>1, <2>2
<1>12. CacheIsNewest'
  <2> SUFFICES ASSUME NEW x \in Dirs
               PROVE  /\ cache'[x] = Nil => \A e \in Store!Used' : dir'[e] = x => StoreDead(e)'
                      /\ cache'[x] # Nil =>
                            /\ cache'[x] \in Store!Used' /\ dir'[cache'[x]] = x
                            /\ \A e \in Store!Used' : dir'[e] = x => e <= cache'[x]
    BY DEF CacheIsNewest
  <2>1. CASE x = d
    BY <1>1, <1>3, <1>5, <1>6, <2>1
  <2>2. CASE x # d
    BY <1>5, <1>6, <1>7, <2>2 DEF StoreCore, CacheIsNewest
  <2> QED BY <2>1, <2>2
<1>13. StoreOnward
  BY <1>5, <1>6 DEF StoreOnward, StoreRetired
<1> QED BY <1>1, <1>4, <1>5, <1>8, <1>9, <1>10, <1>11, <1>12, <1>13 DEF StoreCore, n

\* The entries stay, or more of them are retired.
LEMMA RetireInv ==
  ASSUME StoreCore, UNCHANGED <<cache, dir, prev, stage>>, retired \subseteq retired'
  PROVE  StoreCore' /\ StoreOnward
<1>1. Store!Used' = Store!Used
  BY DEF Store!Used
<1>2. \A e \in Store!Used : StoreDead(e) => StoreDead(e)'
  BY DEF StoreDead
<1>3. StoreSegment' /\ StorePlaced' /\ WaitsForLast'
  BY <1>1 DEF StoreCore, StoreSegment, StorePlaced, WaitsForLast
<1>4. OlderDead' /\ CacheIsNewest'
  BY <1>1, <1>2 DEF StoreCore, OlderDead, CacheIsNewest
<1> QED BY <1>1, <1>3, <1>4 DEF StoreCore, StoreOnward, StoreRetired

\* A fiber that is past the disposers goes on.
LEMMA AdvanceInv ==
  ASSUME Store!TypeOK, StoreCore, NEW e \in Store!Entries, NEW st \in {"lookup", "init", "ready"},
         stage[e] \in {"dispose", "lookup", "init"},
         stage' = [stage EXCEPT ![e] = st], UNCHANGED <<cache, dir, prev, retired>>
  PROVE  StoreCore' /\ StoreOnward
<1>1. /\ Store!Used' = Store!Used /\ e \in Store!Used /\ stage' \in [Store!Entries -> Store!Stages]
      /\ stage'[e] = st /\ \A f \in Store!Entries : f # e => stage'[f] = stage[f]
  BY DEF Store!Used, Store!TypeOK, Store!Stages
<1>2. ~StoreDead(e)
  BY DEF StoreDead
<1>3. \A f \in Store!Used : StoreDead(f) => StoreDead(f)'
  BY <1>1, <1>2 DEF StoreDead, Store!Used
<1>4. StoreSegment' /\ StorePlaced' /\ WaitsForLast'
  BY <1>1 DEF StoreCore, StoreSegment, StorePlaced, WaitsForLast, Store!Used
<1>5. OlderDead' /\ CacheIsNewest'
  <2>1. \A f \in Store!Used : stage'[f] # "await" => stage[f] # "await"
    BY <1>1 DEF Store!Used
  <2> QED BY <1>1, <1>3, <2>1 DEF StoreCore, OlderDead, CacheIsNewest
<1>6. StoreOnward
  BY <1>1 DEF StoreOnward, StoreRetired, Store!Used
<1> QED BY <1>4, <1>5, <1>6 DEF StoreCore

\* The disposers run for a reload, once the entry before it is complete.
LEMMA ReloadDisposesInv ==
  ASSUME Store!ConstantAssumption, Store!TypeOK, StoreCore, NEW e \in Store!Entries, Store!ReloadDisposes(e)
  PROVE  StoreCore' /\ StoreOnward
<1>1. /\ stage[e] = "await" /\ Store!Done(prev[e])
      /\ prev' = [prev EXCEPT ![e] = Nil]
      /\ stage' = [stage EXCEPT ![e] = "dispose"]
      /\ retired' = retired \cup {f \in Store!Entries : dir[f] = dir[e] /\ stage[f] = "ready"}
      /\ UNCHANGED <<cache, dir>>
  BY DEF Store!ReloadDisposes, Store!RunDisposers
<1>2. /\ Store!Used' = Store!Used /\ e \in Store!Used
      /\ stage'[e] = "dispose" /\ \A f \in Store!Entries : f # e => stage'[f] = stage[f]
      /\ \A f \in Store!Entries : f # e => prev'[f] = prev[f]
  BY <1>1 DEF Store!Used, Store!TypeOK
<1>3. Store!Entries \subseteq Nat /\ Store!Used \subseteq Store!Entries
  BY EntriesAreNumbers
<1>4. \A f \in Store!Used : StoreDead(f) => StoreDead(f)'
  BY <1>1, <1>2, <1>3 DEF StoreDead
<1>5. StoreSegment' /\ StorePlaced'
  BY <1>1, <1>2 DEF StoreCore, StoreSegment, StorePlaced
<1>6. WaitsForLast'
  BY <1>1, <1>2, <1>3 DEF StoreCore, WaitsForLast
<1>7. \A f \in Store!Used : f < e /\ dir[f] = dir[e] => StoreDead(f)'
  <2> SUFFICES ASSUME NEW f \in Store!Used, f < e, dir[f] = dir[e] PROVE StoreDead(f)'
    OBVIOUS
  <2>1. PICK p \in Store!Used : p = prev[e] /\ p < e /\ dir[p] = dir[e] /\ f <= p
    BY <1>1, <1>2 DEF StoreCore, WaitsForLast
  <2>2. stage[p] \in {"ready", "failed"}
    BY <1>1, <2>1 DEF Store!Done
  <2>3. StoreDead(p)'
    BY <1>1, <1>2, <1>3, <2>1, <2>2 DEF StoreDead
  <2>4. CASE f < p
    BY <1>4, <2>1, <2>2, <2>4 DEF StoreCore, OlderDead
  <2> QED BY <1>3, <2>1, <2>3, <2>4
<1>8. OlderDead'
  BY <1>1, <1>2, <1>3, <1>4, <1>7 DEF StoreCore, OlderDead
<1>9. CacheIsNewest'
  BY <1>1, <1>2, <1>4 DEF StoreCore, CacheIsNewest
<1>10. StoreOnward
  BY <1>1, <1>2, <1>3 DEF StoreOnward, StoreRetired
<1> QED BY <1>5, <1>6, <1>8, <1>9, <1>10 DEF StoreCore

\* A dead entry leaves the cache: the directory has no living one then.
LEMMA RemoveInv ==
  ASSUME Store!ConstantAssumption, Store!TypeOK, StoreCore, NEW d, NEW e \in Store!Used, StoreDead(e),
         Store!RemoveEntry(d, e), UNCHANGED <<dir, prev, stage, retired>>
  PROVE  StoreCore' /\ StoreOnward /\ cache' \in [Dirs -> Store!Entries \cup {Nil}]
<1>1. Store!Used' = Store!Used /\ \A f \in Store!Used : StoreDead(f)' = StoreDead(f)
  BY DEF Store!Used, StoreDead
<1>2. Store!Entries \subseteq Nat /\ Store!Used \subseteq Store!Entries /\ Nil \notin Store!Entries
  BY EntriesAreNumbers
<1>3. cache' \in [Dirs -> Store!Entries \cup {Nil}]
  BY DEF Store!TypeOK, Store!RemoveEntry
<1>4. \A x \in Dirs : cache'[x] = cache[x] \/ (cache[x] = e /\ cache'[x] = Nil)
  BY DEF Store!TypeOK, Store!RemoveEntry
<1>5. StoreSegment' /\ StorePlaced' /\ OlderDead' /\ WaitsForLast'
  BY <1>1 DEF StoreCore, StoreSegment, StorePlaced, OlderDead, WaitsForLast
<1>6. ASSUME NEW x \in Dirs, cache[x] = e, NEW f \in Store!Used, dir[f] = x
      PROVE  StoreDead(f)
  <2>1. e # Nil /\ dir[e] = x /\ f <= e
    BY <1>2, <1>6 DEF StoreCore, CacheIsNewest
  <2>2. stage[e] # "await"
    BY DEF StoreDead
  <2>3. CASE f < e
    BY <1>6, <2>1, <2>2, <2>3 DEF StoreCore, OlderDead
  <2> QED BY <1>2, <2>1, <2>3
<1>7. CacheIsNewest'
  BY <1>1, <1>4, <1>6 DEF StoreCore, CacheIsNewest
<1> QED BY <1>1, <1>3, <1>5, <1>7 DEF StoreCore, StoreOnward, StoreRetired

LEMMA BootFailsInv ==
  ASSUME Store!ConstantAssumption, Store!TypeOK, StoreCore, NEW e \in Store!Entries, Store!BootFails(e)
  PROVE  /\ StoreCore' /\ StoreOnward /\ cache' \in [Dirs -> Store!Entries \cup {Nil}]
         /\ stage' \in [Store!Entries -> Store!Stages]
<1>1. /\ stage[e] \in {"lookup", "init"} /\ stage' = [stage EXCEPT ![e] = "failed"]
      /\ Store!RemoveEntry(dir[e], e) /\ UNCHANGED <<dir, prev, retired>>
  BY DEF Store!BootFails, Store!Booting, Store!entryVars
<1>2. /\ Store!Used' = Store!Used /\ e \in Store!Used /\ stage' \in [Store!Entries -> Store!Stages]
      /\ stage'[e] = "failed" /\ \A f \in Store!Entries : f # e => stage'[f] = stage[f]
  BY <1>1 DEF Store!Used, Store!TypeOK, Store!Stages
<1>3. Store!Entries \subseteq Nat /\ Store!Used \subseteq Store!Entries /\ Nil \notin Store!Entries
  BY EntriesAreNumbers
<1>4. cache' \in [Dirs -> Store!Entries \cup {Nil}]
  BY <1>1 DEF Store!TypeOK, Store!RemoveEntry
<1>5. \A x \in Dirs : cache'[x] = cache[x] \/ (cache[x] = e /\ cache'[x] = Nil)
  BY <1>1 DEF Store!TypeOK, Store!RemoveEntry
<1>6. (\A f \in Store!Used : StoreDead(f) => StoreDead(f)') /\ StoreDead(e)'
  BY <1>1, <1>2, <1>3 DEF StoreDead
<1>7. StoreSegment' /\ StorePlaced' /\ WaitsForLast'
  BY <1>1, <1>2, <1>3 DEF StoreCore, StoreSegment, StorePlaced, WaitsForLast
<1>8. OlderDead'
  BY <1>1, <1>2, <1>3, <1>6 DEF StoreCore, OlderDead
<1>9. ASSUME NEW x \in Dirs, cache[x] = e, NEW f \in Store!Used, dir[f] = x
      PROVE  StoreDead(f)'
  <2>1. dir[e] = x /\ f <= e
    BY <1>3, <1>9 DEF StoreCore, CacheIsNewest
  <2>2. CASE f < e
    BY <1>1, <1>2, <1>6, <1>9, <2>1, <2>2 DEF StoreCore, OlderDead
  <2> QED BY <1>3, <1>6, <2>1, <2>2
<1>10. CacheIsNewest'
  BY <1>1, <1>2, <1>5, <1>6, <1>9 DEF StoreCore, CacheIsNewest
<1>11. StoreOnward
  BY <1>1, <1>2, <1>3 DEF StoreOnward, StoreRetired
<1> QED BY <1>2, <1>4, <1>7, <1>8, <1>10, <1>11 DEF StoreCore

----------------------------------------------------------------------------
(* The callers and the sweep.                                              *)

StoreCallType == [at : {"idle", "load", "use", "await", "dispose", "sweep"},
                  entry : Store!Entries \cup {Nil}, ctx : Store!Entries \cup {Nil},
                  closes : Store!Entries \cup {Nil}]
StoreSweepType == [on : BOOLEAN, todo : SUBSET Store!Entries, at : Store!Entries \cup {Nil},
                   closes : Store!Entries \cup {Nil}, disposing : BOOLEAN]

\* What a caller holds fits to where it is.
StoreCallFits(r) ==
    /\ r.at \in {"use", "await", "dispose"} => r.ctx \in Store!Used
    /\ r.at = "use" => r.entry = Nil
    /\ r.at \in {"load", "await"} => r.entry \in Store!Used
    /\ r.at = "dispose" /\ r.entry # Nil => StoreRetired(r.entry)

\* What held before the step holds after it, of what has not changed.
LEMMA OnwardKeeps ==
  ASSUME StoreOnward, CallsHold, SweepHolds
  PROVE  /\ call' = call => CallsHold'
         /\ sweep' = sweep => SweepHolds'
  BY DEF StoreOnward, CallsHold, SweepHolds, StoreRetired

LEMMA StoreOneCall ==
  ASSUME Store!TypeOK, StoreOnward, CallsHold, NEW c \in StoreCallers, NEW r \in StoreCallType,
         call' = [call EXCEPT ![c] = r],
         /\ r.at \in {"use", "await", "dispose"} => r.ctx \in Store!Used'
         /\ r.at = "use" => r.entry = Nil
         /\ r.at \in {"load", "await"} => r.entry \in Store!Used'
         /\ r.at = "dispose" /\ r.entry # Nil => StoreRetired(r.entry)'
  PROVE  call' \in [StoreCallers -> StoreCallType] /\ CallsHold'
<1>1. /\ call'[c] = r /\ \A x \in StoreCallers : x # c => call'[x] = call[x]
      /\ call' \in [StoreCallers -> StoreCallType]
  BY DEF Store!TypeOK, StoreCallType
<1>2. ASSUME NEW x \in StoreCallers, x # c PROVE StoreCallFits(call[x])'
  <2>1. call'[x] = call[x]
    BY <1>1, <1>2
  <2>2. StoreCallFits(call[x])
    BY DEF CallsHold, StoreCallFits
  <2> QED BY <2>1, <2>2 DEF StoreOnward, StoreCallFits, StoreRetired
<1>3. StoreCallFits(call[c])'
  BY <1>1 DEF StoreCallFits
<1>4. \A x \in StoreCallers : StoreCallFits(call[x])'
  BY <1>2, <1>3
<1> QED BY <1>1, <1>4 DEF CallsHold, StoreCallFits

LEMMA DisposersTyped ==
  ASSUME Store!TypeOK, NEW d \in Dirs, Store!RunDisposers(d)
  PROVE  /\ svc' \in [Dirs -> Store!Entries \cup {Nil}] /\ closing' \subseteq Store!Entries
         /\ retired' \subseteq Store!Entries /\ retired \subseteq retired'
         /\ \A e \in Store!Entries : dir[e] = d /\ stage[e] = "ready" => e \in retired'
         /\ svc[d] \in Store!Entries \cup {Nil}
<1>1. svc' \in [Dirs -> Store!Entries \cup {Nil}]
  BY DEF Store!TypeOK, Store!RunDisposers
<1>2. retired' \subseteq Store!Entries /\ retired \subseteq retired'
      /\ \A e \in Store!Entries : dir[e] = d /\ stage[e] = "ready" => e \in retired'
  BY DEF Store!TypeOK, Store!RunDisposers
<1>3. closing' \subseteq Store!Entries
  BY DEF Store!TypeOK, Store!RunDisposers
<1> QED BY <1>1, <1>2, <1>3 DEF Store!TypeOK

LEMMA StoreStepInv ==
  ASSUME Store!ConstantAssumption, StoreIInv, [Store!Next]_(Store!vars)
  PROVE  StoreIInv'
<1>0. Store!TypeOK /\ StoreCore /\ CallsHold /\ SweepHolds
  BY DEF StoreIInv, StoreCore
<1>a. /\ Store!Entries \subseteq Nat /\ Store!Used \subseteq Store!Entries /\ Nil \notin Store!Entries
      /\ \A e \in Store!Used : dir[e] \in Dirs /\ stage[e] # "unused"
  BY <1>0, EntriesAreNumbers DEF StoreCore, StorePlaced, Store!Used
<1>b. call \in [StoreCallers -> StoreCallType] /\ sweep \in StoreSweepType
  BY <1>0 DEF Store!TypeOK, StoreCallType, StoreSweepType
<1> USE DEF Store!entryVars
<1>1. CASE UNCHANGED Store!vars
  <2>1. StoreCore' /\ StoreOnward
    BY <1>0, <1>1, RetireInv DEF Store!vars
  <2>2. CallsHold' /\ SweepHolds'
    BY <1>0, <1>1, <2>1, OnwardKeeps DEF Store!vars
  <2>3. Store!TypeOK'
    BY <1>0, <1>1 DEF Store!vars, Store!TypeOK
  <2> QED BY <2>1, <2>2, <2>3 DEF StoreIInv, StoreCore
<1>2. ASSUME NEW e \in Store!Entries, Store!ReloadDisposes(e) PROVE StoreIInv'
  <2>1. StoreCore' /\ StoreOnward
    BY <1>0, <1>2, ReloadDisposesInv
  <2>2. CallsHold' /\ SweepHolds'
    BY <1>0, <1>2, <2>1, OnwardKeeps DEF Store!ReloadDisposes
  <2>3. dir[e] \in Dirs
    BY <1>a, <1>2 DEF Store!ReloadDisposes, Store!Used
  <2>4. /\ svc' \in [Dirs -> Store!Entries \cup {Nil}] /\ closing' \subseteq Store!Entries
        /\ retired' \subseteq Store!Entries /\ svc[dir[e]] \in Store!Entries \cup {Nil}
    BY <1>0, <1>2, <2>3, DisposersTyped DEF Store!ReloadDisposes
  <2>5. Store!TypeOK'
    BY <1>0, <1>2, <2>4 DEF Store!ReloadDisposes, Store!TypeOK, Store!Stages
  <2> QED BY <2>1, <2>2, <2>5 DEF StoreIInv, StoreCore
<1>3. ASSUME NEW e \in Store!Entries, Store!ReloadBoots(e) \/ Store!BootServices(e) \/ Store!BootSucceeds(e)
      PROVE  StoreIInv'
  <2>1. PICK st \in {"lookup", "init", "ready"} :
            /\ stage[e] \in {"dispose", "lookup", "init"}
            /\ stage' = [stage EXCEPT ![e] = st]
            /\ UNCHANGED <<cache, dir, prev, closing, call, sweep, retired>>
            /\ taken' = [taken EXCEPT ![e] = Nil] \/ taken' = taken
            /\ svc' = [svc EXCEPT ![dir[e]] = e] \/ svc' = svc
    BY <1>3 DEF Store!ReloadBoots, Store!BootServices, Store!BootSucceeds
  <2>2. StoreCore' /\ StoreOnward
    BY <1>0, <2>1, AdvanceInv
  <2>3. CallsHold' /\ SweepHolds'
    BY <1>0, <2>1, <2>2, OnwardKeeps
  <2>4. Store!TypeOK'
    BY <1>0, <2>1 DEF Store!TypeOK, Store!Stages
  <2> QED BY <2>2, <2>3, <2>4 DEF StoreIInv, StoreCore
<1>4. ASSUME NEW e \in Store!Entries, Store!BootFails(e) PROVE StoreIInv'
  <2>1. /\ StoreCore' /\ StoreOnward /\ cache' \in [Dirs -> Store!Entries \cup {Nil}]
        /\ stage' \in [Store!Entries -> Store!Stages]
    BY <1>0, <1>4, BootFailsInv
  <2>2. CallsHold' /\ SweepHolds'
    BY <1>0, <1>4, <2>1, OnwardKeeps DEF Store!BootFails
  <2>3. Store!TypeOK'
    BY <1>0, <1>4, <2>1 DEF Store!BootFails, Store!TypeOK
  <2> QED BY <2>1, <2>2, <2>3 DEF StoreIInv, StoreCore
<1>5. ASSUME NEW e \in Store!Entries, Store!Finalized(e) PROVE StoreIInv'
  <2>1. StoreCore' /\ StoreOnward
    BY <1>0, <1>5, RetireInv DEF Store!Finalized
  <2>2. CallsHold' /\ SweepHolds'
    BY <1>0, <1>5, <2>1, OnwardKeeps DEF Store!Finalized
  <2>3. Store!TypeOK'
    BY <1>0, <1>5 DEF Store!Finalized, Store!TypeOK
  <2> QED BY <2>1, <2>2, <2>3 DEF StoreIInv, StoreCore
<1>6. ASSUME NEW c \in StoreCallers, NEW d \in Dirs, Store!Load(c, d) PROVE StoreIInv'
  <2>0. UNCHANGED <<svc, closing, sweep, retired>>
    BY <1>6 DEF Store!Load
  <2>1. CASE /\ cache[d] # Nil
             /\ call' = [call EXCEPT ![c].at = "load", ![c].entry = cache[d]]
             /\ UNCHANGED <<cache, dir, prev, taken, stage>>
    <3>1. StoreCore' /\ StoreOnward
      BY <1>0, <2>0, <2>1, RetireInv
    <3>2. cache[d] \in Store!Used
      BY <1>0, <2>1 DEF StoreCore, CacheIsNewest
    <3> DEFINE r == [call[c] EXCEPT !.at = "load", !.entry = cache[d]]
    <3>3. r \in StoreCallType /\ r.at = "load" /\ r.entry = cache[d]
      BY <1>a, <1>b, <3>2 DEF StoreCallType
    <3>4. call' = [call EXCEPT ![c] = r]
      BY <1>b, <2>1
    <3>5. cache[d] \in Store!Used'
      BY <3>1, <3>2 DEF StoreOnward
    <3> HIDE DEF r
    <3>6. call' \in [StoreCallers -> StoreCallType] /\ CallsHold'
      BY <1>0, <3>1, <3>3, <3>4, <3>5, StoreOneCall
    <3>7. SweepHolds'
      BY <1>0, <2>0, <3>1, OnwardKeeps
    <3>8. Store!TypeOK'
      BY <1>0, <2>0, <2>1, <3>6 DEF Store!TypeOK, StoreCallType
    <3> QED BY <3>1, <3>6, <3>7, <3>8 DEF StoreIInv, StoreCore
  <2>2. CASE /\ cache[d] = Nil /\ Store!NewEntry(d, Nil)
             /\ call' = [call EXCEPT ![c].at = "load", ![c].entry = Store!Fresh]
             /\ UNCHANGED taken
    <3>1. /\ StoreCore' /\ StoreOnward /\ Store!Fresh \in Store!Used' /\ Store!Fresh \in Store!Entries
          /\ cache' \in [Dirs -> Store!Entries \cup {Nil}]
          /\ dir' \in [Store!Entries -> Dirs \cup {Nil}]
          /\ stage' \in [Store!Entries -> Store!Stages]
          /\ prev' \in [Store!Entries -> Store!Entries \cup {Nil}]
      BY <1>0, <2>0, <2>2, NewEntryInv
    <3>2. PICK n \in Store!Entries : n = Store!Fresh
      BY <3>1
    <3> DEFINE r == [call[c] EXCEPT !.at = "load", !.entry = n]
    <3>3. r \in StoreCallType /\ r.at = "load" /\ r.entry = n
      BY <1>b DEF StoreCallType
    <3>4. call' = [call EXCEPT ![c] = r]
      BY <1>b, <2>2, <3>2
    <3> HIDE DEF r
    <3>5. call' \in [StoreCallers -> StoreCallType] /\ CallsHold'
      BY <1>0, <3>1, <3>2, <3>3, <3>4, StoreOneCall
    <3>6. SweepHolds'
      BY <1>0, <2>0, <3>1, OnwardKeeps
    <3>7. Store!TypeOK'
      BY <1>0, <2>0, <2>2, <3>1, <3>5 DEF Store!TypeOK, StoreCallType
    <3> QED BY <3>1, <3>5, <3>6, <3>7 DEF StoreIInv, StoreCore
  <2> QED BY <1>6, <2>1, <2>2 DEF Store!Load
<1>7. ASSUME NEW c \in StoreCallers, Store!Reload(c) PROVE StoreIInv'
  <2>1. call[c].ctx \in Store!Used /\ dir[call[c].ctx] \in Dirs
    BY <1>0, <1>a, <1>7 DEF Store!Reload, CallsHold
  <2>2. PICK d \in Dirs : Store!NewEntry(d, cache[d])
    BY <1>7, <2>1 DEF Store!Reload
  <2>3. /\ call' = [call EXCEPT ![c] = [Store!Idle EXCEPT !.at = "load", !.entry = Store!Fresh]]
        /\ UNCHANGED <<taken, svc, closing, sweep, retired>>
    BY <1>7 DEF Store!Reload
  <2>4. /\ StoreCore' /\ StoreOnward /\ Store!Fresh \in Store!Used' /\ Store!Fresh \in Store!Entries
        /\ cache' \in [Dirs -> Store!Entries \cup {Nil}]
        /\ dir' \in [Store!Entries -> Dirs \cup {Nil}]
        /\ stage' \in [Store!Entries -> Store!Stages]
        /\ prev' \in [Store!Entries -> Store!Entries \cup {Nil}]
    BY <1>0, <2>2, <2>3, NewEntryInv
  <2>5. PICK n \in Store!Entries : n = Store!Fresh
    BY <2>4
  <2> DEFINE r == [Store!Idle EXCEPT !.at = "load", !.entry = n]
  <2>6. r \in StoreCallType /\ r.at = "load" /\ r.entry = n
    BY DEF StoreCallType, Store!Idle
  <2>7. call' = [call EXCEPT ![c] = r]
    BY <2>3, <2>5
  <2> HIDE DEF r
  <2>8. call' \in [StoreCallers -> StoreCallType] /\ CallsHold'
    BY <1>0, <2>4, <2>5, <2>6, <2>7, StoreOneCall
  <2>9. SweepHolds'
    BY <1>0, <2>3, <2>4, OnwardKeeps
  <2>10. Store!TypeOK'
    BY <1>0, <2>3, <2>4, <2>8 DEF Store!TypeOK, StoreCallType
  <2> QED BY <2>4, <2>8, <2>9, <2>10 DEF StoreIInv, StoreCore
<1>8. ASSUME NEW c \in StoreCallers, Store!Loaded(c) \/ Store!Leave(c) PROVE StoreIInv'
  <2>0. UNCHANGED <<cache, dir, prev, taken, stage, svc, closing, sweep, retired>>
    BY <1>8 DEF Store!Loaded, Store!Leave
  <2>1. StoreCore' /\ StoreOnward
    BY <1>0, <2>0, RetireInv
  <2>2. Store!Idle \in StoreCallType /\ Store!Idle.at = "idle"
    BY DEF StoreCallType, Store!Idle
  <2>3. PICK r \in StoreCallType :
            /\ call' = [call EXCEPT ![c] = r]
            /\ \/ r.at = "idle"
               \/ r.at = "use" /\ r.entry = Nil /\ r.ctx \in Store!Used
    <3>1. CASE call' = [call EXCEPT ![c] = Store!Idle]
      BY <2>2, <3>1
    <3>2. CASE /\ call[c].at = "load"
               /\ call' = [call EXCEPT ![c] = [Store!Idle EXCEPT !.at = "use", !.ctx = call[c].entry]]
      <4>1. call[c].entry \in Store!Used
        BY <1>0, <3>2 DEF CallsHold
      <4> DEFINE r == [Store!Idle EXCEPT !.at = "use", !.ctx = call[c].entry]
      <4>2. r \in StoreCallType /\ r.at = "use" /\ r.entry = Nil /\ r.ctx = call[c].entry
        BY <1>a, <4>1 DEF StoreCallType, Store!Idle
      <4> HIDE DEF r
      <4>3. call' = [call EXCEPT ![c] = r]
        BY <3>2 DEF r
      <4> QED BY <4>1, <4>2, <4>3
    <3> QED BY <1>8, <3>1, <3>2 DEF Store!Loaded, Store!Leave
  <2>4. r.at = "use" => r.ctx \in Store!Used'
    BY <2>1, <2>3 DEF StoreOnward
  <2>5. call' \in [StoreCallers -> StoreCallType] /\ CallsHold'
    BY <1>0, <2>1, <2>3, <2>4, StoreOneCall
  <2>6. SweepHolds'
    BY <1>0, <2>0, <2>1, OnwardKeeps
  <2>7. Store!TypeOK'
    BY <1>0, <2>0, <2>5 DEF Store!TypeOK, StoreCallType
  <2> QED BY <2>1, <2>5, <2>6, <2>7 DEF StoreIInv, StoreCore
<1>9. ASSUME NEW c \in StoreCallers, Store!Touch(c) PROVE StoreIInv'
  <2>1. StoreCore' /\ StoreOnward
    BY <1>0, <1>9, RetireInv DEF Store!Touch
  <2>2. CallsHold' /\ SweepHolds'
    BY <1>0, <1>9, <2>1, OnwardKeeps DEF Store!Touch
  <2>3. call[c].ctx \in Store!Entries
    BY <1>0, <1>a, <1>9 DEF Store!Touch, CallsHold
  <2>4. Store!TypeOK'
    BY <1>0, <1>9, <2>3 DEF Store!Touch, Store!TypeOK
  <2> QED BY <2>1, <2>2, <2>4 DEF StoreIInv, StoreCore
<1>10. ASSUME NEW c \in StoreCallers, Store!Dispose(c) PROVE StoreIInv'
  <2>0. UNCHANGED <<cache, dir, prev, taken, stage, sweep>>
    BY <1>10 DEF Store!Dispose
  <2>1. PICK d \in Dirs : d = dir[call[c].ctx]
    BY <1>0, <1>a, <1>10 DEF Store!Dispose, CallsHold
  <2>2. call[c].at = "use" /\ call[c].ctx \in Store!Used /\ call[c].entry = Nil
    BY <1>0, <1>10 DEF Store!Dispose, CallsHold
  <2>3. \/ /\ Store!RunDisposers(d)
           /\ call' = [call EXCEPT ![c].at = "dispose", ![c].closes = svc[d]]
        \/ /\ cache[d] # Nil
           /\ call' = [call EXCEPT ![c].at = "await", ![c].entry = cache[d]]
           /\ UNCHANGED <<svc, closing, retired>>
    BY <1>10, <2>1 DEF Store!Dispose
  <2>4. /\ svc' \in [Dirs -> Store!Entries \cup {Nil}] /\ closing' \subseteq Store!Entries
        /\ retired' \subseteq Store!Entries /\ retired \subseteq retired'
        /\ svc[d] \in Store!Entries \cup {Nil}
    BY <1>0, <2>3, DisposersTyped DEF Store!TypeOK
  <2>5. StoreCore' /\ StoreOnward
    BY <1>0, <2>0, <2>4, RetireInv
  <2>6. PICK r \in StoreCallType :
            /\ call' = [call EXCEPT ![c] = r]
            /\ r.ctx \in Store!Used
            /\ \/ r.at = "dispose" /\ r.entry = Nil
               \/ r.at = "await" /\ r.entry \in Store!Used
    <3>1. CASE call' = [call EXCEPT ![c].at = "dispose", ![c].closes = svc[d]]
      <4> DEFINE r == [call[c] EXCEPT !.at = "dispose", !.closes = svc[d]]
      <4>1. /\ r \in StoreCallType /\ r.ctx = call[c].ctx /\ r.at = "dispose"
            /\ r.entry = call[c].entry
        BY <1>b, <2>4 DEF StoreCallType
      <4>2. call' = [call EXCEPT ![c] = r]
        BY <1>b, <3>1
      <4> HIDE DEF r
      <4> QED BY <2>2, <4>1, <4>2
    <3>2. CASE cache[d] # Nil /\ call' = [call EXCEPT ![c].at = "await", ![c].entry = cache[d]]
      <4>1. cache[d] \in Store!Used
        BY <1>0, <3>2 DEF StoreCore, CacheIsNewest
      <4> DEFINE r == [call[c] EXCEPT !.at = "await", !.entry = cache[d]]
      <4>2. /\ r \in StoreCallType /\ r.ctx = call[c].ctx /\ r.at = "await"
            /\ r.entry = cache[d]
        BY <1>a, <1>b, <4>1 DEF StoreCallType
      <4>3. call' = [call EXCEPT ![c] = r]
        BY <1>b, <3>2
      <4> HIDE DEF r
      <4> QED BY <2>2, <4>1, <4>2, <4>3
    <3> QED BY <2>3, <3>1, <3>2
  <2>7. r.ctx \in Store!Used' /\ (r.at = "await" => r.entry \in Store!Used')
    BY <2>5, <2>6 DEF StoreOnward
  <2>8. call' \in [StoreCallers -> StoreCallType] /\ CallsHold'
    BY <1>0, <2>5, <2>6, <2>7, StoreOneCall
  <2>9. SweepHolds'
    BY <1>0, <2>0, <2>5, OnwardKeeps
  <2>10. Store!TypeOK'
    BY <1>0, <2>0, <2>4, <2>8 DEF Store!TypeOK, StoreCallType
  <2> QED BY <2>5, <2>8, <2>9, <2>10 DEF StoreIInv, StoreCore
<1>11. ASSUME NEW c \in StoreCallers, Store!DisposeAwaited(c) PROVE StoreIInv'
  <2>0. /\ UNCHANGED <<dir, prev, taken, stage, sweep>> /\ call[c].at = "await"
        /\ call[c].ctx \in Store!Used /\ call[c].entry \in Store!Used
    BY <1>0, <1>11 DEF Store!DisposeAwaited, CallsHold
  <2>1. PICK d \in Dirs : d = dir[call[c].ctx]
    BY <1>a, <2>0
  <2>2. CASE /\ Store!MayDispose(c) /\ Store!RunDisposers(d)
             /\ call' = [call EXCEPT ![c].at = "dispose", ![c].closes = svc[d]]
             /\ UNCHANGED cache
    <3>1. /\ svc' \in [Dirs -> Store!Entries \cup {Nil}] /\ closing' \subseteq Store!Entries
          /\ retired' \subseteq Store!Entries /\ retired \subseteq retired'
          /\ \A e \in Store!Entries : dir[e] = d /\ stage[e] = "ready" => e \in retired'
          /\ svc[d] \in Store!Entries \cup {Nil}
      BY <1>0, <2>2, DisposersTyped
    <3>2. StoreCore' /\ StoreOnward
      BY <1>0, <2>0, <2>2, <3>1, RetireInv
    <3>3. PICK r \in StoreCallType :
              /\ call' = [call EXCEPT ![c] = r]
              /\ r.at = "dispose" /\ r.ctx = call[c].ctx /\ r.entry = call[c].entry
      <4> DEFINE r == [call[c] EXCEPT !.at = "dispose", !.closes = svc[d]]
      <4>1. /\ r \in StoreCallType /\ r.ctx = call[c].ctx /\ r.at = "dispose"
            /\ r.entry = call[c].entry
        BY <1>b, <3>1 DEF StoreCallType
      <4>2. call' = [call EXCEPT ![c] = r]
        BY <1>b, <2>2
      <4> HIDE DEF r
      <4> QED BY <4>1, <4>2
    <3>4. PICK x \in Store!Used : x = call[c].entry /\ x = call[c].ctx /\ stage[x] = "ready"
      BY <2>0, <2>2 DEF Store!MayDispose
    <3>5. StoreRetired(x)'
      BY <1>a, <2>0, <2>1, <3>1, <3>2, <3>4 DEF StoreRetired, StoreOnward
    <3>6. x \in Store!Used' /\ r.ctx = x /\ r.entry = x
      BY <3>2, <3>3, <3>4 DEF StoreOnward
    <3>7. r.at = "dispose" /\ r.entry # Nil => StoreRetired(r.entry)'
      BY <3>5, <3>6
    <3>8. call' \in [StoreCallers -> StoreCallType] /\ CallsHold'
      BY <1>0, <3>2, <3>3, <3>6, <3>7, StoreOneCall
    <3>9. SweepHolds'
      BY <1>0, <2>0, <3>2, OnwardKeeps
    <3>10. Store!TypeOK'
      BY <1>0, <2>0, <2>2, <3>1, <3>8 DEF Store!TypeOK, StoreCallType
    <3> QED BY <3>2, <3>8, <3>9, <3>10 DEF StoreIInv, StoreCore
  <2>3. CASE /\ IF stage[call[c].entry] = "failed"
                THEN Store!RemoveEntry(d, call[c].entry)
                ELSE UNCHANGED cache
             /\ call' = [call EXCEPT ![c] = Store!Idle]
             /\ UNCHANGED <<svc, closing, retired>>
    <3>1. StoreCore' /\ StoreOnward /\ cache' \in [Dirs -> Store!Entries \cup {Nil}]
      <4>1. CASE stage[call[c].entry] = "failed"
        BY <1>0, <2>0, <2>3, <4>1, RemoveInv DEF StoreDead
      <4>2. CASE UNCHANGED cache
        BY <1>0, <2>0, <2>3, <4>2, RetireInv DEF Store!TypeOK
      <4> QED BY <2>3, <4>1, <4>2
    <3>2. Store!Idle \in StoreCallType /\ Store!Idle.at = "idle"
      BY DEF StoreCallType, Store!Idle
    <3>3. call' \in [StoreCallers -> StoreCallType] /\ CallsHold'
      BY <1>0, <2>3, <3>1, <3>2, StoreOneCall
    <3>4. SweepHolds'
      BY <1>0, <2>0, <3>1, OnwardKeeps
    <3>5. Store!TypeOK'
      BY <1>0, <2>0, <2>3, <3>1, <3>3 DEF Store!TypeOK, StoreCallType
    <3> QED BY <3>1, <3>3, <3>4, <3>5 DEF StoreIInv, StoreCore
  <2> QED BY <1>11, <2>1, <2>2, <2>3 DEF Store!DisposeAwaited
<1>12. ASSUME NEW c \in StoreCallers, Store!Disposed(c) PROVE StoreIInv'
  <2>0. /\ UNCHANGED <<dir, prev, taken, stage, svc, closing, sweep, retired>>
        /\ call[c].at = "dispose" /\ call[c].ctx \in Store!Used
        /\ call' = [call EXCEPT ![c] = Store!Idle]
    BY <1>0, <1>12 DEF Store!Disposed, CallsHold
  <2>1. StoreCore' /\ StoreOnward /\ cache' \in [Dirs -> Store!Entries \cup {Nil}]
    <3>1. CASE call[c].entry = Nil
      BY <1>0, <1>12, <2>0, <3>1, RetireInv DEF Store!Disposed, Store!TypeOK
    <3>2. CASE call[c].entry # Nil
      <4>1. PICK x \in Store!Used : x = call[c].entry /\ StoreDead(x)
        BY <1>0, <2>0, <3>2 DEF CallsHold, StoreRetired, StoreDead
      <4>2. Store!RemoveEntry(dir[call[c].ctx], x)
        BY <1>12, <3>2, <4>1 DEF Store!Disposed
      <4> QED BY <1>0, <2>0, <4>1, <4>2, RemoveInv
    <3> QED BY <3>1, <3>2
  <2>2. Store!Idle \in StoreCallType /\ Store!Idle.at = "idle"
    BY DEF StoreCallType, Store!Idle
  <2>3. call' \in [StoreCallers -> StoreCallType] /\ CallsHold'
    BY <1>0, <2>0, <2>1, <2>2, StoreOneCall
  <2>4. SweepHolds'
    BY <1>0, <2>0, <2>1, OnwardKeeps
  <2>5. Store!TypeOK'
    BY <1>0, <2>0, <2>1, <2>3 DEF Store!TypeOK, StoreCallType
  <2> QED BY <2>1, <2>3, <2>4, <2>5 DEF StoreIInv, StoreCore
<1>13. ASSUME NEW c \in StoreCallers, Store!DisposeAll(c) PROVE StoreIInv'
  <2>0. UNCHANGED <<cache, dir, prev, taken, stage, svc, closing, retired>>
    BY <1>13 DEF Store!DisposeAll
  <2>1. StoreCore' /\ StoreOnward
    BY <1>0, <2>0, RetireInv
  <2> DEFINE r == [call[c] EXCEPT !.at = "sweep"]
  <2>2. r \in StoreCallType /\ r.at = "sweep"
    BY <1>b DEF StoreCallType
  <2>3. call' = [call EXCEPT ![c] = r]
    BY <1>b, <1>13 DEF Store!DisposeAll
  <2> HIDE DEF r
  <2>4. call' \in [StoreCallers -> StoreCallType] /\ CallsHold'
    BY <1>0, <2>1, <2>2, <2>3, StoreOneCall
  <2>5. SweepHolds' /\ sweep' \in StoreSweepType
    <3>1. CASE sweep' = sweep
      BY <1>0, <1>b, <2>1, <3>1, OnwardKeeps
    <3>2. CASE sweep' = [Store!NoSweep EXCEPT !.on = TRUE, !.todo = {cache[d] : d \in Dirs} \ {Nil}]
      <4>1. {cache[d] : d \in Dirs} \ {Nil} \subseteq Store!Used
        BY <1>0 DEF StoreCore, CacheIsNewest
      <4>2. /\ sweep'.on = TRUE /\ sweep'.todo = {cache[d] : d \in Dirs} \ {Nil}
            /\ sweep'.at = Nil /\ ~sweep'.disposing /\ sweep'.closes = Nil
        BY <3>2 DEF Store!NoSweep
      <4>3. sweep' \in StoreSweepType
        BY <1>a, <3>2, <4>1 DEF StoreSweepType, Store!NoSweep
      <4>4. sweep'.todo \subseteq Store!Used'
        BY <2>1, <4>1, <4>2 DEF StoreOnward
      <4> QED BY <4>2, <4>3, <4>4 DEF SweepHolds
    <3> QED BY <1>13, <3>1, <3>2 DEF Store!DisposeAll
  <2>6. Store!TypeOK'
    BY <1>0, <2>0, <2>4, <2>5 DEF Store!TypeOK, StoreCallType, StoreSweepType
  <2> QED BY <2>1, <2>4, <2>5, <2>6 DEF StoreIInv, StoreCore
<1>14. ASSUME NEW e \in Store!Entries, Store!SweepNext(e) PROVE StoreIInv'
  <2>0. /\ UNCHANGED <<cache, dir, prev, taken, stage, svc, closing, call, retired>>
        /\ sweep' = [sweep EXCEPT !.at = e, !.todo = @ \ {e}] /\ e \in Store!Used
        /\ sweep.at = Nil
    BY <1>0, <1>14 DEF Store!SweepNext, SweepHolds
  <2>1. StoreCore' /\ StoreOnward
    BY <1>0, <2>0, RetireInv
  <2>2. CallsHold'
    BY <1>0, <2>0, <2>1, OnwardKeeps
  <2>3. /\ sweep' \in StoreSweepType /\ sweep'.at = e /\ sweep'.todo \subseteq sweep.todo
        /\ sweep'.disposing = sweep.disposing
    BY <1>b, <2>0 DEF StoreSweepType
  <2>4. SweepHolds'
    BY <1>0, <2>0, <2>1, <2>3 DEF SweepHolds, StoreOnward
  <2>5. Store!TypeOK'
    BY <1>0, <2>0, <2>3 DEF Store!TypeOK, StoreSweepType
  <2> QED BY <2>1, <2>2, <2>4, <2>5 DEF StoreIInv, StoreCore
<1>15. CASE Store!SweepAwaited
  <2>0. /\ UNCHANGED <<dir, prev, taken, stage, call>>
        /\ sweep.at \in Store!Used /\ ~sweep.disposing
    BY <1>0, <1>15 DEF Store!SweepAwaited, SweepHolds
  <2>1. PICK e \in Store!Used, d \in Dirs : e = sweep.at /\ d = dir[e]
    BY <1>a, <2>0
  <2>2. CASE /\ stage[e] = "ready" /\ Store!RunDisposers(d)
             /\ sweep' = [sweep EXCEPT !.disposing = TRUE, !.closes = svc[d]]
             /\ UNCHANGED cache
    <3>1. /\ svc' \in [Dirs -> Store!Entries \cup {Nil}] /\ closing' \subseteq Store!Entries
          /\ retired' \subseteq Store!Entries /\ retired \subseteq retired'
          /\ \A f \in Store!Entries : dir[f] = d /\ stage[f] = "ready" => f \in retired'
          /\ svc[d] \in Store!Entries \cup {Nil}
      BY <1>0, <2>2, DisposersTyped
    <3>2. StoreCore' /\ StoreOnward
      BY <1>0, <2>0, <2>2, <3>1, RetireInv
    <3>3. StoreRetired(e)'
      BY <1>a, <2>0, <2>1, <2>2, <3>1, <3>2 DEF StoreRetired, StoreOnward
    <3>4. /\ sweep' \in StoreSweepType /\ sweep'.at = e /\ sweep'.todo = sweep.todo
      BY <1>b, <2>1, <2>2, <3>1 DEF StoreSweepType
    <3>5. SweepHolds'
      BY <1>0, <1>a, <3>2, <3>3, <3>4 DEF SweepHolds, StoreOnward, StoreRetired
    <3>6. CallsHold'
      BY <1>0, <2>0, <3>2, OnwardKeeps
    <3>7. Store!TypeOK'
      BY <1>0, <2>0, <2>2, <3>1, <3>4 DEF Store!TypeOK, StoreSweepType
    <3> QED BY <3>2, <3>5, <3>6, <3>7 DEF StoreIInv, StoreCore
  <2>3. CASE /\ IF stage[e] = "failed" THEN Store!RemoveEntry(d, e) ELSE UNCHANGED cache
             /\ sweep' = [sweep EXCEPT !.at = Nil]
             /\ UNCHANGED <<svc, closing, retired>>
    <3>1. StoreCore' /\ StoreOnward /\ cache' \in [Dirs -> Store!Entries \cup {Nil}]
      <4>1. CASE stage[e] = "failed"
        BY <1>0, <2>0, <2>3, <4>1, RemoveInv DEF StoreDead
      <4>2. CASE UNCHANGED cache
        BY <1>0, <2>0, <2>3, <4>2, RetireInv DEF Store!TypeOK
      <4> QED BY <2>3, <4>1, <4>2
    <3>2. /\ sweep' \in StoreSweepType /\ sweep'.at = Nil /\ sweep'.todo = sweep.todo
          /\ sweep'.disposing = sweep.disposing
      BY <1>b, <2>3 DEF StoreSweepType
    <3>3. SweepHolds'
      BY <1>0, <2>0, <3>1, <3>2 DEF SweepHolds, StoreOnward
    <3>4. CallsHold'
      BY <1>0, <2>0, <3>1, OnwardKeeps
    <3>5. Store!TypeOK'
      BY <1>0, <2>0, <2>3, <3>1, <3>2 DEF Store!TypeOK, StoreSweepType
    <3> QED BY <3>1, <3>3, <3>4, <3>5 DEF StoreIInv, StoreCore
  <2> QED BY <1>15, <2>1, <2>2, <2>3 DEF Store!SweepAwaited
<1>16. CASE Store!SweepDisposed
  <2>0. /\ UNCHANGED <<dir, prev, taken, stage, svc, closing, call, retired>>
        /\ sweep' = [sweep EXCEPT !.at = Nil, !.disposing = FALSE, !.closes = Nil]
    BY <1>16 DEF Store!SweepDisposed
  <2>1. PICK e \in Store!Used : e = sweep.at /\ StoreDead(e) /\ Store!RemoveEntry(dir[e], e)
    BY <1>0, <1>16 DEF Store!SweepDisposed, SweepHolds, StoreRetired, StoreDead
  <2>2. StoreCore' /\ StoreOnward /\ cache' \in [Dirs -> Store!Entries \cup {Nil}]
    BY <1>0, <2>0, <2>1, RemoveInv
  <2>3. /\ sweep' \in StoreSweepType /\ sweep'.at = Nil /\ sweep'.todo = sweep.todo
        /\ ~sweep'.disposing
    BY <1>b, <2>0 DEF StoreSweepType
  <2>4. SweepHolds'
    BY <1>0, <2>2, <2>3 DEF SweepHolds, StoreOnward
  <2>5. CallsHold'
    BY <1>0, <2>0, <2>2, OnwardKeeps
  <2>6. Store!TypeOK'
    BY <1>0, <2>0, <2>2, <2>3 DEF Store!TypeOK, StoreSweepType
  <2> QED BY <2>2, <2>4, <2>5, <2>6 DEF StoreIInv, StoreCore
<1>17. CASE Store!SweepEnds
  <2>0. /\ UNCHANGED <<cache, dir, prev, taken, stage, svc, closing, retired>>
        /\ sweep' = Store!NoSweep
        /\ call' = [c \in StoreCallers |-> IF call[c].at = "sweep" THEN Store!Idle ELSE call[c]]
    BY <1>17 DEF Store!SweepEnds
  <2>1. StoreCore' /\ StoreOnward
    BY <1>0, <2>0, RetireInv
  <2>2. Store!Idle \in StoreCallType /\ Store!Idle.at = "idle"
    BY DEF StoreCallType, Store!Idle
  <2>3. \A c \in StoreCallers : call'[c] = Store!Idle \/ call'[c] = call[c]
    BY <2>0
  <2>4. call' \in [StoreCallers -> StoreCallType]
    BY <1>b, <2>0, <2>2
  <2>5. CallsHold'
    BY <1>0, <2>1, <2>2, <2>3 DEF CallsHold, StoreOnward, StoreRetired
  <2>6. SweepHolds' /\ sweep' \in StoreSweepType
    BY <2>0 DEF SweepHolds, StoreSweepType, Store!NoSweep
  <2>7. Store!TypeOK'
    BY <1>0, <2>0, <2>4, <2>6 DEF Store!TypeOK, StoreCallType, StoreSweepType
  <2> QED BY <2>1, <2>5, <2>6, <2>7 DEF StoreIInv, StoreCore
<1> QED BY <1>1, <1>2, <1>3, <1>4, <1>5, <1>6, <1>7, <1>8, <1>9, <1>10, <1>11, <1>12, <1>13,
           <1>14, <1>15, <1>16, <1>17
        DEF Store!Next, Store!EntryStep, Store!CallerStep, Store!SweepStep

----------------------------------------------------------------------------

LEMMA StoreInvGives == Store!ConstantAssumption /\ StoreIInv => Store!OneLiveInstance
<1> SUFFICES ASSUME Store!ConstantAssumption, StoreIInv, NEW e \in Store!Entries, NEW f \in Store!Entries,
                    Store!Live(e), Store!Live(f), dir[e] = dir[f]
             PROVE  e = f
  BY DEF Store!OneLiveInstance
<1>1. e \in Store!Used /\ f \in Store!Used /\ Store!Entries \subseteq Nat
  BY EntriesAreNumbers DEF Store!Live, Store!Booting, Store!Used
<1>2. stage[e] # "await" /\ stage[f] # "await" /\ ~StoreDead(e) /\ ~StoreDead(f)
  BY DEF Store!Live, Store!Booting, StoreDead
<1> QED BY <1>1, <1>2 DEF StoreIInv, OlderDead

\* The state of a complete current instance goes only for its own disposal.
LEMMA OwnDisposalStep ==
  ASSUME Store!ConstantAssumption, StoreIInv, [Store!Next]_(Store!vars), NEW d \in Dirs,
         cache[d] # Nil, svc[d] # Nil, svc'[d] # svc[d], stage[cache[d]] = "ready"
  PROVE  \/ sweep.at = cache[d]
         \/ \E c \in StoreCallers : call[c].at = "await" /\ call[c].ctx = cache[d]
<1>1. /\ cache[d] \in Store!Used /\ dir[cache[d]] = d /\ svc \in [Dirs -> Store!Entries \cup {Nil}]
      /\ \A e \in Store!Used : dir[e] = d => e <= cache[d]
      /\ Store!Entries \subseteq Nat /\ Store!Used \subseteq Store!Entries
  BY EntriesAreNumbers DEF StoreIInv, Store!TypeOK, CacheIsNewest
<1>2. CASE UNCHANGED svc
  BY <1>2
<1>3. ASSUME NEW e \in Store!Entries, Store!ReloadDisposes(e) PROVE FALSE
  <2>1. svc' = [svc EXCEPT ![dir[e]] = Nil] /\ stage[e] = "await" /\ e \in Store!Used
    BY <1>3 DEF Store!ReloadDisposes, Store!RunDisposers, Store!Used
  <2>2. dir[e] = d
    BY <1>1, <2>1
  <2>3. PICK x \in Store!Used : x = cache[d] /\ stage[x] = "ready" /\ dir[x] = d /\ e <= x
    BY <1>1, <2>1, <2>2
  <2>4. e # x
    BY <2>1, <2>3
  <2>5. e < x
    BY <1>1, <2>1, <2>3, <2>4
  <2> QED BY <2>1, <2>2, <2>3, <2>5 DEF StoreIInv, OlderDead, StoreDead
<1>4. ASSUME NEW e \in Store!Entries, Store!BootServices(e) PROVE FALSE
  BY <1>1, <1>4 DEF Store!BootServices
<1>5. ASSUME NEW c \in StoreCallers, Store!Touch(c) PROVE FALSE
  BY <1>1, <1>5 DEF Store!Touch
<1>6. ASSUME NEW c \in StoreCallers, Store!Dispose(c) PROVE FALSE
  BY <1>1, <1>6 DEF Store!Dispose, Store!RunDisposers
<1>7. ASSUME NEW c \in StoreCallers, Store!DisposeAwaited(c)
      PROVE  call[c].at = "await" /\ call[c].ctx = cache[d]
  BY <1>1, <1>7 DEF Store!DisposeAwaited, Store!RunDisposers, Store!MayDispose
<1>8. CASE Store!SweepAwaited
  BY <1>1, <1>8 DEF Store!SweepAwaited, Store!RunDisposers
<1>9. ASSUME ~\E e \in Store!Entries : Store!ReloadDisposes(e) \/ Store!BootServices(e),
             ~\E c \in StoreCallers : Store!Touch(c) \/ Store!Dispose(c) \/ Store!DisposeAwaited(c),
             ~Store!SweepAwaited
      PROVE  UNCHANGED svc
  BY <1>9 DEF Store!Next, Store!vars, Store!EntryStep, Store!CallerStep, Store!SweepStep, Store!ReloadBoots, Store!BootSucceeds, Store!BootFails,
       Store!Finalized, Store!Load, Store!Reload, Store!Loaded, Store!Leave, Store!Disposed, Store!DisposeAll, Store!SweepNext, Store!SweepDisposed,
       Store!SweepEnds
<1> QED BY <1>2, <1>3, <1>4, <1>5, <1>6, <1>7, <1>8, <1>9

\* A step of the services is a step of this component or leaves it alone.
LEMMA StoreMoves == [Next]_vars => [Store!Next]_(Store!vars)
  BY DEF Next, Others, vars, storeVars, Store!vars

LEMMA StoreInvariant == Spec => []StoreIInv
<1>1. Init => StoreIInv
  BY ComponentAssumptions, StoreInitInv DEF Init
<1>2. StoreIInv /\ [Next]_vars => StoreIInv'
  BY ComponentAssumptions, StoreMoves, StoreStepInv
<1> QED BY <1>1, <1>2, PTL DEF Spec

\* A directory has at most one live instance.
THEOREM OneLiveInstanceTheorem == Spec => []OneLiveInstance
<1>1. StoreIInv => OneLiveInstance
  BY ComponentAssumptions, StoreInvGives DEF OneLiveInstance
<1>2. Spec => []StoreIInv
  BY StoreInvariant
<1> QED BY <1>1, <1>2, PTL

OwnDisposal ==
    \A d \in Dirs :
        LET x == cache[d] IN
        (x # Nil /\ svc[d] # Nil /\ svc'[d] # svc[d] /\ stage[x] = "ready")
        => \/ sweep.at = x
           \/ \E c \in StoreCallers : call[c].at = "await" /\ call[c].ctx = x

\* An instance is torn down only by those who hold it or by the sweep.
THEOREM OnlyItsOwnDisposalTheorem == Spec => OnlyItsOwnDisposal
<1>1. StoreIInv /\ [Next]_vars => [OwnDisposal]_(Store!vars)
  BY ComponentAssumptions, StoreMoves, OwnDisposalStep DEF OwnDisposal
<1>2. Spec => []StoreIInv
  BY StoreInvariant
<1> QED BY <1>1, <1>2, PTL DEF Spec, OnlyItsOwnDisposal, Store!OnlyItsOwnDisposal, OwnDisposal

----------------------------------------------------------------------------
(* The store implements OneInstance.                                       *)

\* Only what has come up is disposed.
RetiredReady == \A e \in retired : stage[e] = "ready"

HeldBy(c) == IF call[c].at = "use" THEN call[c].ctx ELSE Nil

FateKept(e) == Store!Fate(e)' = Store!Fate(e) /\ (Store!Fate(e) # "new" => dir'[e] = dir[e])

LEMMA HoldersKeep ==
  ASSUME \A c \in StoreCallers : HeldBy(c)' = HeldBy(c)
  PROVE  Store!Lives!Kept
  BY DEF HeldBy, Store!Lives!Kept

LEMMA HolderLetsGo ==
  ASSUME NEW c \in StoreCallers, HeldBy(c)' = Nil,
         \A x \in StoreCallers : x # c => HeldBy(x)' = HeldBy(x)
  PROVE  Store!Lives!Kept
<1>1. Store!Lives!LetGo(c)
  BY DEF HeldBy, Store!Lives!LetGo
<1> QED BY <1>1 DEF Store!Lives!Kept

LEMMA FatesRest ==
  ASSUME \A e \in Store!Entries : FateKept(e)
  PROVE  Store!Lives!Rest
  BY DEF FateKept, Store!Lives!Rest

LEMMA FateGoes ==
  ASSUME NEW e \in Store!Entries, Store!Lives!Kept, dir'[e] = dir[e],
         NEW from, NEW to, <<from, to>> \in {<<"booting", "up">>, <<"booting", "failed">>, <<"up", "over">>},
         Store!Fate(e) = from, Store!Fate(e)' = to,
         \A x \in Store!Entries : x # e => FateKept(x)
  PROVE  Store!Lives!Next
<1>1. Store!Lives!Goes(e, from, to)
  BY DEF FateKept, Store!Lives!Goes
<1> QED BY <1>1 DEF Store!Lives!Next

LEMMA FateBegins ==
  ASSUME NEW e \in Store!Entries, NEW d \in Dirs, Store!Lives!Kept,
         Store!Fate(e) = "new", Store!Fate(e)' = "booting", dir'[e] = d,
         \A x \in Store!Entries : x # e => FateKept(x),
         \A x \in Store!Entries : dir[x] = d => Store!Fate(x) \notin {"booting", "up"}
  PROVE  Store!Lives!Next
<1>1. Store!Lives!Begin(d, e)
  BY DEF FateKept, Store!Lives!Begin, Store!Lives!Lives
<1> QED BY <1>1 DEF Store!Lives!Next

LEMMA FateHanded ==
  ASSUME NEW c \in StoreCallers, NEW e \in Store!Entries, Store!Fate(e) \in {"up", "over"},
         \A x \in Store!Entries : FateKept(x),
         HeldBy(c) = Nil, HeldBy(c)' = e, \A x \in StoreCallers : x # c => HeldBy(x)' = HeldBy(x)
  PROVE  Store!Lives!Next
<1>1. Store!Lives!Rest
  BY FatesRest
<1>2. Store!Lives!Hand(c, e)
  BY <1>1 DEF HeldBy, Store!Lives!Hand
<1> QED BY <1>2 DEF Store!Lives!Next

\* The disposers run for a directory: one instance of it is over, or none is up.
LEMMA DisposersStep ==
  ASSUME Store!ConstantAssumption, StoreIInv, NEW d \in Dirs, Store!RunDisposers(d), dir' = dir,
         Store!Lives!Kept,
         \A e \in Store!Entries : stage'[e] = stage[e] \/ (stage[e] = "await" /\ stage'[e] = "dispose")
  PROVE  Store!Lives!Next
<1> DEFINE Up(e) == e \in Store!Entries /\ dir[e] = d /\ Store!Fate(e) = "up"
<1>1. retired' = retired \cup {e \in Store!Entries : dir[e] = d /\ stage[e] = "ready"}
  BY DEF Store!RunDisposers
<1>2. \A e \in Store!Entries : Up(e) => Store!Fate(e)' = "over"
  BY <1>1 DEF Store!Fate, Store!Booting, StoreIInv, Store!TypeOK, Store!Stages
<1>3. \A e \in Store!Entries : ~Up(e) => FateKept(e)
  BY <1>1 DEF FateKept, Store!Fate, Store!Booting
<1>4. ASSUME NEW e, Up(e), NEW f, Up(f) PROVE e = f
  <2>1. /\ e \in Store!Used /\ f \in Store!Used /\ ~StoreDead(e) /\ ~StoreDead(f)
        /\ stage[e] # "await" /\ stage[f] # "await" /\ Store!Entries \subseteq Nat
    BY <1>4, EntriesAreNumbers DEF Store!Fate, Store!Booting, Store!Used, StoreDead, StoreIInv, Store!TypeOK
  <2> QED BY <1>4, <2>1 DEF StoreIInv, OlderDead
<1>5. CASE \E e : Up(e)
  <2>1. PICK e : Up(e)
    BY <1>5
  <2>2. \A x \in Store!Entries : x # e => FateKept(x)
    BY <1>3, <1>4, <2>1
  <2> QED BY <1>2, <2>1, <2>2, FateGoes
<1>6. CASE ~\E e : Up(e)
  BY <1>3, <1>6, FatesRest DEF Store!Lives!Next
<1> QED BY <1>5, <1>6

\* An entry is made: its instance begins at once when no other is waited for.
LEMMA NewEntryStep ==
  ASSUME Store!ConstantAssumption, StoreIInv, RetiredReady, NEW d \in Dirs, Store!NewEntry(d, cache[d]),
         retired' = retired, Store!Lives!Kept
  PROVE  Store!Lives!Next /\ RetiredReady'
<1>1. PICK n :
      /\ n \notin Store!Used /\ n \in Store!Entries
      /\ dir' = [dir EXCEPT ![n] = d]
      /\ stage' = [stage EXCEPT ![n] = IF cache[d] = Nil THEN "lookup" ELSE "await"]
  BY FreshIsNext DEF StoreIInv, Store!NewEntry
<1>2. /\ stage[n] = "unused" /\ dir'[n] = d
      /\ stage'[n] = IF cache[d] = Nil THEN "lookup" ELSE "await"
      /\ \A x \in Store!Entries : x # n => dir'[x] = dir[x] /\ stage'[x] = stage[x]
  BY <1>1 DEF StoreIInv, Store!TypeOK, Store!Used
<1>3. \A x \in Store!Entries : x # n => FateKept(x)
  BY <1>2 DEF FateKept, Store!Fate, Store!Booting
<1>4. RetiredReady'
  BY <1>2 DEF RetiredReady, StoreIInv, Store!TypeOK
<1>5. CASE cache[d] = Nil
  <2>1. \A x \in Store!Entries : dir[x] = d => Store!Fate(x) \notin {"booting", "up"}
    BY <1>5 DEF StoreIInv, CacheIsNewest, StoreDead, Store!Used, Store!Fate, Store!Booting
  <2>2. Store!Fate(n) = "new" /\ Store!Fate(n)' = "booting"
    BY <1>2, <1>5 DEF Store!Fate, Store!Booting
  <2> QED BY <1>1, <1>2, <1>3, <1>4, <2>1, <2>2, FateBegins
<1>6. CASE cache[d] # Nil
  <2>1. FateKept(n)
    BY <1>2, <1>6 DEF FateKept, Store!Fate, Store!Booting
  <2> QED BY <1>3, <1>4, <2>1, FatesRest DEF Store!Lives!Next
<1> QED BY <1>5, <1>6

LEMMA StoreStepLives ==
  ASSUME Store!ConstantAssumption, StoreIInv, RetiredReady, [Store!Next]_(Store!vars)
  PROVE  [Store!Lives!Next]_(Store!Lives!vars) /\ RetiredReady'
<1>a. /\ Store!Entries \subseteq Nat /\ Store!Used \subseteq Store!Entries /\ Nil \notin Store!Entries
      /\ \A e \in Store!Used : dir[e] \in Dirs
      /\ \A e \in Store!Entries : stage[e] # "unused" => e \in Store!Used
  BY EntriesAreNumbers DEF StoreIInv, StorePlaced, Store!Used
<1>b. /\ call \in [StoreCallers -> StoreCallType]
      /\ stage \in [Store!Entries -> Store!Stages] /\ retired \subseteq Store!Entries
  BY DEF StoreIInv, Store!TypeOK, StoreCallType
<1>c. UNCHANGED <<dir, stage, retired>> => \A e \in Store!Entries : FateKept(e)
  BY DEF FateKept, Store!Fate, Store!Booting
<1>d. UNCHANGED call => Store!Lives!Kept
  BY HoldersKeep DEF HeldBy
<1>e. ASSUME UNCHANGED <<dir, stage, retired>>, Store!Lives!Kept
      PROVE  Store!Lives!Next /\ RetiredReady'
  BY <1>c, <1>e, FatesRest DEF Store!Lives!Next, RetiredReady
<1>f. \A d : Store!RunDisposers(d) =>
        retired' = retired \cup {e \in Store!Entries : dir[e] = d /\ stage[e] = "ready"}
  BY DEF Store!RunDisposers
<1>g. ASSUME NEW d \in Dirs, Store!RunDisposers(d), UNCHANGED <<dir, stage>>, Store!Lives!Kept
      PROVE  Store!Lives!Next /\ RetiredReady'
  BY <1>f, <1>g, DisposersStep DEF RetiredReady
<1>h. ASSUME NEW c \in StoreCallers, call' = [call EXCEPT ![c] = call'[c]], call'[c].at # "use"
      PROVE  Store!Lives!Kept
  <2>1. \A x \in StoreCallers : x # c => HeldBy(x)' = HeldBy(x)
    BY <1>b, <1>h DEF HeldBy
  <2> QED BY <1>h, <2>1, HolderLetsGo DEF HeldBy
<1> USE DEF Store!entryVars
<1>1. CASE UNCHANGED Store!vars
  BY <1>1 DEF Store!vars, Store!Lives!vars, Store!Fate, Store!Booting, RetiredReady
<1>2. ASSUME NEW e \in Store!Entries, Store!ReloadDisposes(e)
      PROVE  Store!Lives!Next /\ RetiredReady'
  <2>1. /\ stage[e] = "await" /\ stage' = [stage EXCEPT ![e] = "dispose"] /\ dir' = dir
        /\ Store!RunDisposers(dir[e]) /\ Store!Lives!Kept
    BY <1>2, <1>d DEF Store!ReloadDisposes
  <2>2. dir[e] \in Dirs
    BY <1>a, <2>1
  <2>3. /\ stage'[e] = "dispose" /\ \A x \in Store!Entries : x # e => stage'[x] = stage[x]
    BY <1>b, <2>1
  <2>4. RetiredReady'
    BY <1>b, <1>f, <2>1, <2>3 DEF RetiredReady
  <2> QED BY <2>1, <2>2, <2>3, <2>4, DisposersStep
<1>3. ASSUME NEW e \in Store!Entries, Store!ReloadBoots(e)
      PROVE  Store!Lives!Next /\ RetiredReady'
  <2>1. /\ stage[e] = "dispose" /\ stage' = [stage EXCEPT ![e] = "lookup"]
        /\ UNCHANGED <<dir, retired>> /\ Store!Lives!Kept
    BY <1>3, <1>d DEF Store!ReloadBoots
  <2>2. /\ e \in Store!Used /\ dir[e] \in Dirs /\ stage'[e] = "lookup"
        /\ \A x \in Store!Entries : x # e => stage'[x] = stage[x]
    BY <1>a, <1>b, <2>1
  <2>3. RetiredReady'
    BY <1>b, <2>1, <2>2 DEF RetiredReady
  <2>4. /\ Store!Fate(e) = "new" /\ Store!Fate(e)' = "booting"
        /\ \A x \in Store!Entries : x # e => FateKept(x)
    BY <2>1, <2>2 DEF Store!Fate, Store!Booting, FateKept
  <2>5. ASSUME NEW x \in Store!Entries, dir[x] = dir[e], Store!Fate(x) \in {"booting", "up"}
        PROVE  FALSE
    <3>1. /\ x \in Store!Used /\ x # e /\ ~StoreDead(x) /\ stage[x] # "await"
      BY <1>a, <1>b, <2>4, <2>5 DEF Store!Fate, Store!Booting, StoreDead, Store!Stages
    <3>2. ~StoreDead(e) /\ stage[e] # "await"
      BY <2>1 DEF StoreDead
    <3>3. x < e \/ e < x
      BY <1>a, <3>1
    <3> QED BY <2>2, <2>5, <3>1, <3>2, <3>3 DEF StoreIInv, OlderDead
  <2> QED BY <2>1, <2>2, <2>3, <2>4, <2>5, FateBegins
<1>4. ASSUME NEW e \in Store!Entries, Store!BootServices(e)
      PROVE  Store!Lives!Next /\ RetiredReady'
  <2>1. /\ stage[e] = "lookup" /\ stage' = [stage EXCEPT ![e] = "init"]
        /\ UNCHANGED <<dir, retired>> /\ Store!Lives!Kept
    BY <1>4, <1>d DEF Store!BootServices
  <2>2. stage'[e] = "init" /\ \A x \in Store!Entries : x # e => stage'[x] = stage[x]
    BY <1>b, <2>1
  <2>3. RetiredReady'
    BY <1>b, <2>1, <2>2 DEF RetiredReady
  <2>4. \A x \in Store!Entries : FateKept(x)
    BY <2>1, <2>2 DEF Store!Fate, Store!Booting, FateKept
  <2> QED BY <2>1, <2>3, <2>4, FatesRest DEF Store!Lives!Next
<1>5. ASSUME NEW e \in Store!Entries, Store!BootSucceeds(e)
      PROVE  Store!Lives!Next /\ RetiredReady'
  <2>1. /\ stage[e] = "init" /\ stage' = [stage EXCEPT ![e] = "ready"]
        /\ UNCHANGED <<dir, retired>> /\ Store!Lives!Kept
    BY <1>5, <1>d DEF Store!BootSucceeds
  <2>2. /\ e \notin retired /\ stage'[e] = "ready"
        /\ \A x \in Store!Entries : x # e => stage'[x] = stage[x]
    BY <1>b, <2>1 DEF RetiredReady
  <2>3. RetiredReady'
    BY <1>b, <2>1, <2>2 DEF RetiredReady
  <2>4. /\ Store!Fate(e) = "booting" /\ Store!Fate(e)' = "up"
        /\ \A x \in Store!Entries : x # e => FateKept(x)
    BY <2>1, <2>2 DEF Store!Fate, Store!Booting, FateKept
  <2> QED BY <2>1, <2>3, <2>4, FateGoes
<1>6. ASSUME NEW e \in Store!Entries, Store!BootFails(e)
      PROVE  Store!Lives!Next /\ RetiredReady'
  <2>1. /\ stage[e] \in {"lookup", "init"} /\ stage' = [stage EXCEPT ![e] = "failed"]
        /\ UNCHANGED <<dir, retired>> /\ Store!Lives!Kept
    BY <1>6, <1>d DEF Store!BootFails, Store!Booting
  <2>2. stage'[e] = "failed" /\ \A x \in Store!Entries : x # e => stage'[x] = stage[x]
    BY <1>b, <2>1
  <2>3. RetiredReady'
    BY <1>b, <2>1, <2>2 DEF RetiredReady
  <2>4. /\ Store!Fate(e) = "booting" /\ Store!Fate(e)' = "failed"
        /\ \A x \in Store!Entries : x # e => FateKept(x)
    BY <2>1, <2>2 DEF Store!Fate, Store!Booting, FateKept
  <2> QED BY <2>1, <2>3, <2>4, FateGoes
<1>7. ASSUME NEW e \in Store!Entries, Store!Finalized(e)
      PROVE  Store!Lives!Next /\ RetiredReady'
  BY <1>7, <1>d, <1>e DEF Store!Finalized
<1>8. ASSUME NEW c \in StoreCallers, NEW d \in Dirs, Store!Load(c, d)
      PROVE  Store!Lives!Next /\ RetiredReady'
  <2>1. call[c].at = "idle" /\ retired' = retired
    BY <1>8 DEF Store!Load
  <2>2. \E x : call' = [call EXCEPT ![c].at = "load", ![c].entry = x]
    BY <1>8 DEF Store!Load
  <2>3. Store!Lives!Kept
    BY <1>b, <2>1, <2>2, HoldersKeep DEF HeldBy, StoreCallType
  <2>4. CASE cache[d] # Nil
    BY <1>8, <2>1, <2>3, <2>4, <1>e DEF Store!Load
  <2>5. CASE cache[d] = Nil
    <3>1. Store!NewEntry(d, cache[d])
      BY <1>8, <2>5 DEF Store!Load
    <3> QED BY <2>1, <2>3, <3>1, NewEntryStep
  <2> QED BY <2>4, <2>5
<1>9. ASSUME NEW c \in StoreCallers, Store!Reload(c)
      PROVE  Store!Lives!Next /\ RetiredReady'
  <2>1. /\ call[c].at = "use" /\ call[c].ctx \in Store!Used
        /\ Store!NewEntry(dir[call[c].ctx], cache[dir[call[c].ctx]]) /\ retired' = retired
        /\ call' = [call EXCEPT ![c] = [Store!Idle EXCEPT !.at = "load", !.entry = Store!Fresh]]
    BY <1>9 DEF Store!Reload, StoreIInv, CallsHold
  <2>2. call' = [call EXCEPT ![c] = call'[c]] /\ call'[c].at = "load"
    BY <1>b, <2>1 DEF Store!Idle
  <2>3. Store!Lives!Kept
    BY <2>2, <1>h
  <2> QED BY <1>a, <2>1, <2>3, NewEntryStep
<1>10. ASSUME NEW c \in StoreCallers, Store!Loaded(c)
       PROVE  Store!Lives!Next /\ RetiredReady'
  <2>1. /\ call[c].at = "load" /\ UNCHANGED <<dir, stage, retired>>
        /\ call[c].entry \in Store!Used
    BY <1>10 DEF Store!Loaded, StoreIInv, CallsHold
  <2>2. /\ call' = [call EXCEPT ![c] = call'[c]]
        /\ call'[c] = IF stage[call[c].entry] = "ready"
                      THEN [Store!Idle EXCEPT !.at = "use", !.ctx = call[c].entry] ELSE Store!Idle
    BY <1>b, <1>10 DEF Store!Loaded
  <2>3. CASE stage[call[c].entry] = "ready"
    <3>1. /\ HeldBy(c) = Nil /\ HeldBy(c)' = call[c].entry
          /\ \A x \in StoreCallers : x # c => HeldBy(x)' = HeldBy(x)
      BY <1>b, <2>1, <2>2, <2>3 DEF HeldBy, Store!Idle
    <3>2. Store!Fate(call[c].entry) \in {"up", "over"}
      BY <2>3 DEF Store!Fate, Store!Booting
    <3>3. Store!Lives!Next
      BY <1>a, <1>c, <2>1, <3>1, <3>2, FateHanded
    <3> QED BY <2>1, <3>3 DEF RetiredReady
  <2>4. CASE stage[call[c].entry] # "ready"
    BY <1>e, <1>h, <2>1, <2>2, <2>4 DEF Store!Idle
  <2> QED BY <2>3, <2>4
<1>11. ASSUME NEW c \in StoreCallers, Store!Touch(c)
       PROVE  Store!Lives!Next /\ RetiredReady'
  BY <1>11, <1>d, <1>e DEF Store!Touch
<1>12. ASSUME NEW c \in StoreCallers, Store!Leave(c)
       PROVE  Store!Lives!Next /\ RetiredReady'
  <2>1. call' = [call EXCEPT ![c] = call'[c]] /\ call'[c].at = "idle"
    BY <1>b, <1>12 DEF Store!Leave, Store!Idle
  <2>2. Store!Lives!Kept
    BY <1>h, <2>1
  <2> QED BY <1>12, <1>e, <2>2 DEF Store!Leave
<1>13. ASSUME NEW c \in StoreCallers, Store!Dispose(c)
       PROVE  Store!Lives!Next /\ RetiredReady'
  <2>1. call[c].at = "use" /\ call[c].ctx \in Store!Used /\ UNCHANGED <<dir, stage>>
    BY <1>13 DEF Store!Dispose, StoreIInv, CallsHold
  <2>2. call' = [call EXCEPT ![c] = call'[c]] /\ call'[c].at \in {"dispose", "await"}
    BY <1>b, <1>13 DEF Store!Dispose, StoreCallType
  <2>3. Store!Lives!Kept
    BY <1>h, <2>2
  <2>4. CASE Store!RunDisposers(dir[call[c].ctx])
    BY <1>a, <1>g, <2>1, <2>3, <2>4
  <2>5. CASE retired' = retired
    BY <1>e, <2>1, <2>3, <2>5
  <2> QED BY <1>13, <2>4, <2>5 DEF Store!Dispose
<1>14. ASSUME NEW c \in StoreCallers, Store!DisposeAll(c)
       PROVE  Store!Lives!Next /\ RetiredReady'
  <2>1. call[c].at = "idle" /\ call' = [call EXCEPT ![c].at = "sweep"]
    BY <1>14 DEF Store!DisposeAll
  <2>2. Store!Lives!Kept
    BY <1>b, <2>1, HoldersKeep DEF HeldBy, StoreCallType
  <2> QED BY <1>14, <1>e, <2>2 DEF Store!DisposeAll
<1>15. ASSUME NEW c \in StoreCallers, Store!DisposeAwaited(c)
       PROVE  Store!Lives!Next /\ RetiredReady'
  <2>1. call[c].at = "await" /\ call[c].ctx \in Store!Used /\ UNCHANGED <<dir, stage>>
    BY <1>15 DEF Store!DisposeAwaited, StoreIInv, CallsHold
  <2>2. call' = [call EXCEPT ![c] = call'[c]] /\ call'[c].at \in {"dispose", "idle"}
    BY <1>b, <1>15 DEF Store!DisposeAwaited, Store!Idle, StoreCallType
  <2>3. Store!Lives!Kept
    BY <1>h, <2>2
  <2>4. CASE Store!RunDisposers(dir[call[c].ctx])
    BY <1>a, <1>g, <2>1, <2>3, <2>4
  <2>5. CASE retired' = retired
    BY <1>e, <2>1, <2>3, <2>5
  <2> QED BY <1>15, <2>4, <2>5 DEF Store!DisposeAwaited
<1>16. ASSUME NEW c \in StoreCallers, Store!Disposed(c)
       PROVE  Store!Lives!Next /\ RetiredReady'
  <2>1. call' = [call EXCEPT ![c] = call'[c]] /\ call'[c].at = "idle"
    BY <1>b, <1>16 DEF Store!Disposed, Store!Idle
  <2>2. Store!Lives!Kept
    BY <1>h, <2>1
  <2> QED BY <1>16, <1>e, <2>2 DEF Store!Disposed
<1>17. CASE Store!SweepAwaited
  <2>1. sweep.at \in Store!Used /\ UNCHANGED <<dir, stage>> /\ Store!Lives!Kept
    BY <1>17, <1>d DEF Store!SweepAwaited, StoreIInv, SweepHolds
  <2>2. CASE Store!RunDisposers(dir[sweep.at])
    BY <1>a, <1>g, <2>1, <2>2
  <2>3. CASE retired' = retired
    BY <1>e, <2>1, <2>3
  <2> QED BY <1>17, <2>2, <2>3 DEF Store!SweepAwaited
<1>18. CASE (\E e \in Store!Entries : Store!SweepNext(e)) \/ Store!SweepDisposed
  BY <1>18, <1>d, <1>e DEF Store!SweepNext, Store!SweepDisposed
<1>19. CASE Store!SweepEnds
  <2>1. call' = [c \in StoreCallers |-> IF call[c].at = "sweep" THEN Store!Idle ELSE call[c]]
    BY <1>19 DEF Store!SweepEnds
  <2>2. Store!Lives!Kept
    BY <2>1, HoldersKeep DEF HeldBy, Store!Idle
  <2> QED BY <1>19, <1>e, <2>2 DEF Store!SweepEnds
<1> QED BY <1>1, <1>2, <1>3, <1>4, <1>5, <1>6, <1>7, <1>8, <1>9, <1>10, <1>11, <1>12, <1>13,
           <1>14, <1>15, <1>16, <1>17, <1>18, <1>19
        DEF Store!Next, Store!EntryStep, Store!CallerStep, Store!SweepStep

LEMMA LivesStarts == Store!Init => Store!Lives!Init /\ RetiredReady
  BY EntriesAreNumbers DEF Store!Init, Store!Lives!Init, Store!Fate, Store!Idle, Store!Booting, RetiredReady

\* The instances of a directory live one after another and none begins twice;
\* who works with an instance was given it by a load whose boot succeeded.
THEOREM ImplementsOneInstanceTheorem == Spec => ImplementsOneInstance
<1>1. Init => Store!Lives!Init /\ StoreIInv /\ RetiredReady
  BY ComponentAssumptions, StoreInitInv, LivesStarts DEF Init
<1>2. StoreIInv /\ RetiredReady /\ [Next]_vars
      => StoreIInv' /\ RetiredReady' /\ [Store!Lives!Next]_(Store!Lives!vars)
  BY ComponentAssumptions, StoreMoves, StoreStepInv, StoreStepLives
<1> QED BY <1>1, <1>2, PTL DEF Spec, ImplementsOneInstance, Store!ImplementsOneInstance, Store!Lives!Spec

----------------------------------------------------------------------------
(* Permission and SessionRunner: what their own modules prove of a step    *)
(* holds of the components here.  The two instances have the same          *)
(* definitions, so a leaf expands both.                                    *)

Asking == INSTANCE PermissionProofs WITH Preemptive <- ReplyYields, session <- asker

Running == INSTANCE SessionRunnerProofs WITH calls <- runCalls, pending <- queuedRun

LEMMA AskingStarts == Prompts!Init => Asking!Init
  BY DEF Prompts!Init, Prompts!Gens, Prompts!Requests, Prompts!NoInput, Prompts!Nobody, Prompts!NoReply, Prompts!None, Asking!Init, Asking!Gens, Asking!Requests, Asking!NoInput, Asking!Nobody, Asking!NoReply, Asking!None

LEMMA AskingSteps == [Prompts!Next]_(Prompts!vars) => [Asking!Next]_(Asking!vars)
<1>1. UNCHANGED Prompts!vars => UNCHANGED Asking!vars
  BY DEF Prompts!vars, Prompts!mapVars, Prompts!askVars, Prompts!replyVars, Asking!vars, Asking!mapVars, Asking!askVars, Asking!replyVars
<1>2. Prompts!NewAsk => Asking!NewAsk
  BY DEF Prompts!NewAsk, Prompts!Free, Prompts!Ask, Prompts!MidAsk, Prompts!MidReply, Prompts!Decide, Prompts!PreCheck, Prompts!mapVars, Prompts!replyVars, Prompts!Requests, Prompts!Evaluate, Prompts!RiskAction, Asking!NewAsk, Asking!Free, Asking!Ask, Asking!MidAsk, Asking!MidReply, Asking!Decide, Asking!PreCheck, Asking!mapVars, Asking!replyVars, Asking!Requests, Asking!Evaluate, Asking!RiskAction
<1>3. Prompts!NewReply => Asking!NewReply
  BY DEF Prompts!NewReply, Prompts!Requests, Prompts!Free, Prompts!Reply, Prompts!MidAsk, Prompts!MidReply, Prompts!askVars, Asking!NewReply, Asking!Requests, Asking!Free, Asking!Reply, Asking!MidAsk, Asking!MidReply, Asking!askVars
<1>4. Prompts!NewAbort => Asking!NewAbort
  BY DEF Prompts!NewAbort, Prompts!Requests, Prompts!Free, Prompts!Abort, Prompts!MidAsk, Prompts!MidReply, Prompts!MayAbort, Prompts!Forget, Prompts!replyVars, Asking!NewAbort, Asking!Requests, Asking!Free, Asking!Abort, Asking!MidAsk, Asking!MidReply, Asking!MayAbort, Asking!Forget, Asking!replyVars
<1>5. Prompts!DisposeFree => Asking!DisposeFree
  BY DEF Prompts!DisposeFree, Prompts!Free, Prompts!Dispose, Prompts!MidAsk, Prompts!MidReply, Prompts!Requests, Prompts!replyVars, Asking!DisposeFree, Asking!Free, Asking!Dispose, Asking!MidAsk, Asking!MidReply, Asking!Requests, Asking!replyVars
<1>6. Prompts!Rest => Asking!Rest
  BY DEF Prompts!Rest, Prompts!MidReply, Prompts!Requests, Prompts!vars, Prompts!mapVars, Prompts!askVars, Prompts!replyVars, Asking!Rest, Asking!MidReply, Asking!Requests, Asking!vars, Asking!mapVars, Asking!askVars, Asking!replyVars
<1>7. (\E n \in Prompts!Requests : Prompts!AskStep(n)) => (\E n \in Asking!Requests : Asking!AskStep(n))
  <2>1. ASSUME NEW n PROVE Prompts!AskStep(n) => Asking!AskStep(n)
    BY DEF Prompts!AskStep, Prompts!AskTurn, Prompts!Register, Prompts!Await, Prompts!AskReturns, Prompts!MidAsk, Prompts!MidReply, Prompts!replyVars, Prompts!mapVars, Prompts!Forget, Prompts!Requests, Asking!AskStep, Asking!AskTurn, Asking!Register, Asking!Await, Asking!AskReturns, Asking!MidAsk, Asking!MidReply, Asking!replyVars, Asking!mapVars, Asking!Forget, Asking!Requests
  <2> QED BY <2>1 DEF Prompts!Requests, Asking!Requests
<1>8. (\E r \in Repliers : Prompts!ReplyStep(r)) => (\E r \in Repliers : Asking!ReplyStep(r))
  <2>1. ASSUME NEW r PROVE Prompts!ReplyStep(r) => Asking!ReplyStep(r)
    BY DEF Prompts!ReplyStep, Prompts!ReplyTurn, Prompts!Settle, Prompts!LoopEnd, Prompts!Requests, Prompts!LoopTake, Prompts!LoopSkip, Prompts!MidReply, Prompts!MidAsk, Prompts!None, Prompts!Left, Prompts!mapVars, Prompts!askVars, Prompts!Takes, Prompts!Same, Prompts!Covered, Asking!ReplyStep, Asking!ReplyTurn, Asking!Settle, Asking!LoopEnd, Asking!Requests, Asking!LoopTake, Asking!LoopSkip, Asking!MidReply, Asking!MidAsk, Asking!None, Asking!Left, Asking!mapVars, Asking!askVars, Asking!Takes, Asking!Same, Asking!Covered
  <2> QED BY <2>1
<1>9. Prompts!Next => Asking!Next
  BY <1>2, <1>3, <1>4, <1>5, <1>6, <1>7, <1>8 DEF Prompts!Next, Asking!Next
<1> QED BY <1>1, <1>9

LEMMA AskingAssumed == Asking!ConstantAssumption
  BY ComponentAssumptions DEF Prompts!ConstantAssumption, Asking!ConstantAssumption

\* A step of the services is a step of this component or leaves it alone.
LEMMA PromptsMoves == [Next]_vars => [Prompts!Next]_(Prompts!vars)
  BY DEF Next, Others, vars, promptVars, Prompts!vars, Prompts!mapVars, Prompts!askVars, Prompts!replyVars

LEMMA PromptsTyped == Spec => []Prompts!TypeOK
<1>1. Init => Asking!IInv
  BY AskingAssumed, AskingStarts, Asking!InitInv DEF Init
<1>2. Asking!IInv /\ [Next]_vars => Asking!IInv'
  BY AskingAssumed, PromptsMoves, AskingSteps, Asking!StepInv
<1>3. Asking!IInv => Prompts!TypeOK
  BY DEF Asking!IInv, Prompts!TypeOK, Prompts!Gens, Prompts!Requests, Prompts!NoInput, Prompts!Nobody, Prompts!None, Asking!TypeOK, Asking!Gens, Asking!Requests, Asking!NoInput, Asking!Nobody, Asking!None
<1> QED BY <1>1, <1>2, <1>3, PTL DEF Spec

\* No request waits where nobody can answer it and nothing is granted without a
\* reason, whatever replies, aborts and restarts of the instance come between,
\* also where fibers are preempted at every step, as long as no instance is
\* disposed in the middle of an ask.
THEOREM PromptsHoldTheorem == Asking!AsksEndInTheirInstance => (Spec => []PromptsHold)
<1> SUFFICES ASSUME Asking!AsksEndInTheirInstance PROVE Spec => []PromptsHold
  OBVIOUS
<1>1. Init => Asking!WInv
  <2>1. Asking!Init => Asking!WInv
    BY AskingAssumed, Asking!InitInv DEF Asking!WInv, Asking!Init, Asking!Attended, Asking!OfThisInstance
  <2> QED BY <2>1, AskingStarts DEF Init
<1>2. Asking!WInv /\ [Next]_vars => Asking!WInv'
  BY AskingAssumed, PromptsMoves, AskingSteps, Asking!StepPrompts
<1>3. Asking!WInv => PromptsHold
  <2>1. Asking!WInv => Asking!PromptsHold
    BY DEF Asking!WInv, Asking!Attended, Asking!WaitingCanBeAnswered, Asking!IInv, Asking!Reasoned,
           Asking!Excused, Asking!GrantsAreJustified, Asking!PromptsHold
  <2>2. Asking!PromptsHold => Prompts!PromptsHold
    BY DEF Prompts!PromptsHold, Prompts!WaitingCanBeAnswered, Prompts!GrantsAreJustified, Prompts!Requests, Asking!PromptsHold, Asking!WaitingCanBeAnswered, Asking!GrantsAreJustified, Asking!Requests
  <2> QED BY <2>1, <2>2 DEF PromptsHold
<1> QED BY <1>1, <1>2, <1>3, PTL DEF Spec

LEMMA RunningStarts == Runner!Init => Running!Init
  BY DEF Runner!Init, Runner!None, Runner!Calls, Running!Init, Running!None, Running!Calls

LEMMA RunningSteps == [Runner!Next]_(Runner!vars) => [Running!Next]_(Running!vars)
<1>1. UNCHANGED Runner!vars => UNCHANGED Running!vars
  BY DEF Runner!vars, Runner!runnerVars, Runner!workVars, Runner!clientVars, Running!vars, Running!runnerVars, Running!workVars, Running!clientVars
<1>2. ASSUME NEW c PROVE Runner!ClientTurn(c) => Running!ClientTurn(c)
  BY DEF Runner!ClientTurn, Runner!MidClients, Runner!MidWork, Runner!Calls, Running!ClientTurn, Running!MidClients, Running!MidWork, Running!Calls
<1>3. ASSUME NEW c PROVE Runner!ClientCall(c) => Running!ClientCall(c)
  BY DEF Runner!ClientCall, Runner!CallLoop, Runner!CallShell, Runner!CancelNothing, Runner!CancelBusy, Runner!Lookup, Runner!Busy, Runner!Goto, Runner!runnerVars, Runner!workVars, Runner!None, Running!ClientCall, Running!CallLoop, Running!CallShell, Running!CancelNothing, Running!CancelBusy, Running!Lookup, Running!Busy, Running!Goto, Running!runnerVars, Running!workVars, Running!None
<1>4. ASSUME NEW c PROVE Runner!ClientStep(c) => Running!ClientStep(c)
  BY DEF Runner!ClientStep, Runner!EnsureRunning, Runner!AwaitDone, Runner!ShellBusy, Runner!StartShell, Runner!AwaitShell, Runner!Cancel, Runner!StopReady, Runner!Interrupt, Runner!AwaitFiber, Runner!FailPending, Runner!IdleIfCurrent, Runner!ClientIdleDelete, Runner!ClientIdleStatus, Runner!JoinRun, Runner!QueueRun, Runner!StartRun, Runner!Goto, Runner!None, Runner!runnerVars, Runner!workVars, Runner!Create, Runner!CancelIdle, Runner!CancelRun, Runner!CancelShell, Runner!CancelShellThenRun, Runner!AwaitRun, Runner!TakeFrom, Running!ClientStep, Running!EnsureRunning, Running!AwaitDone, Running!ShellBusy, Running!StartShell, Running!AwaitShell, Running!Cancel, Running!StopReady, Running!Interrupt, Running!AwaitFiber, Running!FailPending, Running!IdleIfCurrent, Running!ClientIdleDelete, Running!ClientIdleStatus, Running!JoinRun, Running!QueueRun, Running!StartRun, Running!Goto, Running!None, Running!runnerVars, Running!workVars, Running!Create, Running!CancelIdle, Running!CancelRun, Running!CancelShell, Running!CancelShellThenRun, Running!AwaitRun, Running!TakeFrom
<1>5. ASSUME NEW w PROVE Runner!WorkTurn(w) => Running!WorkTurn(w)
  BY DEF Runner!WorkTurn, Runner!MidClients, Runner!MidWork, Runner!Calls, Running!WorkTurn, Running!MidClients, Running!MidWork, Running!Calls
<1>6. ASSUME NEW w PROVE Runner!WorkStep(w) => Running!WorkStep(w)
  BY DEF Runner!WorkStep, Runner!RunBusy, Runner!ShellReady, Runner!Exit, Runner!Finalize, Runner!runnerVars, Runner!workVars, Runner!clientVars, Runner!FinishRun, Runner!FinishOldRun, Runner!FinishShell, Runner!HandOff, Runner!FinishOldShell, Runner!WorkIdleDelete, Runner!WorkIdleStatus, Runner!Complete, Runner!CurrentRun, Runner!CurrentShell, Runner!None, Running!WorkStep, Running!RunBusy, Running!ShellReady, Running!Exit, Running!Finalize, Running!runnerVars, Running!workVars, Running!clientVars, Running!FinishRun, Running!FinishOldRun, Running!FinishShell, Running!HandOff, Running!FinishOldShell, Running!WorkIdleDelete, Running!WorkIdleStatus, Running!Complete, Running!CurrentRun, Running!CurrentShell, Running!None
<1>7. Runner!Next => Running!Next
  BY <1>2, <1>3, <1>4, <1>5, <1>6 DEF Runner!Next, Running!Next, Runner!Calls, Running!Calls
<1> QED BY <1>1, <1>7

\* A step of the services is a step of this component or leaves it alone.
LEMMA RunnerMoves == [Next]_vars => [Runner!Next]_(Runner!vars)
  BY DEF Next, Others, vars, runnerVars, Runner!vars, Runner!runnerVars, Runner!workVars, Runner!clientVars

LEMMA RunnerTyped == Spec => []Runner!TypeOK
<1>0. MaxCalls \in Nat /\ Preemptive \in BOOLEAN
  BY ComponentAssumptions
<1>1. Init => Running!IInv
  BY <1>0, RunningStarts, Running!InitIInv DEF Init
<1>2. Running!IInv /\ [Next]_vars => Running!IInv'
  BY <1>0, RunnerMoves, RunningSteps, Running!NextIInv
<1>3. Running!IInv => Runner!TypeOK
  BY DEF Running!IInv, Runner!TypeOK, Runner!Calls, Runner!None, Runner!WorkStates, Runner!ClientStates, Running!TypeOK, Running!Calls, Running!None, Running!WorkStates, Running!ClientStates
<1> QED BY <1>1, <1>2, <1>3, PTL DEF Spec

----------------------------------------------------------------------------
(* Types.                                                                  *)

\* The types of the identifiers hold whatever the clock says.
LEMMA StampsTypeStep ==
  ASSUME Stamps!ConstantAssumption, Stamps!TypeOK, [Stamps!Next]_(Stamps!vars)
  PROVE  Stamps!TypeOK'
<1>0. /\ clock \in FirstClock..MaxClock /\ cleanups \in 0..MaxIds /\ counter \in 0..CounterSpan
      /\ lastTimestamp \in -Retention..MaxClock /\ ids \in Seq(StampsEntries)
      /\ outputs \cup early \subseteq [id : Stamps!Id, at : FirstClock..MaxClock]
      /\ FirstClock \in Nat /\ MaxClock \in Nat /\ Retention \in Nat /\ MaxIds \in Nat
      /\ CounterSpan \in Nat \ {0} /\ IdSpan \in Nat \ {0} /\ Retention < FirstClock
  BY DEF Stamps!TypeOK, Stamps!ConstantAssumption, StampsEntries
<1>1. ASSUME NEW ts \in Nat, Stamps!Count(ts) < CounterSpan
      PROVE  Stamps!Count(ts) \in 0..CounterSpan /\ Stamps!Encode(ts, Stamps!Count(ts)) \in Stamps!Id
  <2>1. PICK n \in Nat : n = Stamps!Count(ts) /\ n \in 0..CounterSpan
    BY <1>0, <1>1 DEF Stamps!Count
  <2>2. PICK m \in Nat : m = ts * CounterSpan + n
    BY <1>0, <2>1
  <2>3. m % IdSpan \in 0..IdSpan - 1
    BY <1>0
  <2> QED BY <2>1, <2>2, <2>3 DEF Stamps!Encode, Stamps!Id
<1>2. ASSUME Stamps!Count(clock) < CounterSpan, Stamps!Stamp(clock), ids' = Append(ids, Stamps!Entry(clock)),
             UNCHANGED <<clock, cleanups>>
      PROVE  /\ ids' \in Seq(StampsEntries) /\ lastTimestamp' \in -Retention..MaxClock
             /\ counter' \in 0..CounterSpan /\ Stamps!Entry(clock).id \in Stamps!Id
  <2>1. clock \in Nat /\ clock \in -Retention..MaxClock
    BY <1>0
  <2>2. Stamps!Entry(clock) \in StampsEntries /\ Stamps!Entry(clock).id \in Stamps!Id
    BY <1>0, <1>1, <1>2, <2>1 DEF Stamps!Entry, StampsEntries
  <2> QED BY <1>0, <1>1, <1>2, <2>1, <2>2 DEF Stamps!Stamp
<1>3. CASE UNCHANGED Stamps!vars
  BY <1>3 DEF Stamps!vars, Stamps!TypeOK
<1>4. ASSUME NEW t \in FirstClock..MaxClock, Stamps!Tick(t) PROVE Stamps!TypeOK'
  BY <1>4 DEF Stamps!Tick, Stamps!TypeOK
<1>5. CASE Stamps!Create
  BY <1>0, <1>2, <1>5 DEF Stamps!Create, Stamps!TypeOK, StampsEntries
<1>6. CASE Stamps!Write
  BY <1>0, <1>2, <1>6 DEF Stamps!Write, Stamps!TypeOK, StampsEntries
<1>7. CASE Stamps!CleanUp
  <2>1. /\ Stamps!Count(clock - Retention) < CounterSpan /\ Stamps!Stamp(clock - Retention)
        /\ cleanups < MaxIds /\ cleanups' = cleanups + 1 /\ UNCHANGED <<clock, ids>>
        /\ outputs' \subseteq outputs /\ early' \subseteq early \cup outputs
    BY <1>7 DEF Stamps!CleanUp
  <2>2. clock - Retention \in Nat /\ clock - Retention \in -Retention..MaxClock
    BY <1>0
  <2>3. lastTimestamp' \in -Retention..MaxClock /\ counter' \in 0..CounterSpan
    BY <1>1, <2>1, <2>2 DEF Stamps!Stamp
  <2>4. cleanups' \in 0..MaxIds
    BY <1>0, <2>1
  <2> QED BY <1>0, <2>1, <2>3, <2>4 DEF Stamps!TypeOK, StampsEntries
<1> QED BY <1>3, <1>4, <1>5, <1>6, <1>7 DEF Stamps!Next

LEMMA StampsTyped == Spec => []Stamps!TypeOK
<1>1. Init => Stamps!TypeOK
  BY ComponentAssumptions, StampsInitInv, StampsInvGives DEF Init
<1>2. Stamps!TypeOK /\ [Next]_vars => Stamps!TypeOK'
  BY ComponentAssumptions, StampsMoves, StampsTypeStep
<1> QED BY <1>1, <1>2, PTL DEF Spec

LEMMA StarterTyped == Spec => []Starter!TypeOK
<1>1. Init => Starter!TypeOK
  BY StarterInitInv DEF Init, StarterIInv
<1>2. Starter!TypeOK /\ [Next]_vars => Starter!TypeOK'
  BY StarterMoves, StarterTypeStep
<1> QED BY <1>1, <1>2, PTL DEF Spec

\* Every variable of every component keeps its type, for every number of
\* whatever the component counts, whatever the clock says and whether or not a
\* prompt comes while a revert is under way.
THEOREM TypesOKTheorem == Spec => []TypesOK
<1> DEFINE Typed ==
             /\ StoreIInv /\ AnswerIInv /\ Undo!TypeOK /\ ScreenIInv /\ LanguageIInv /\ McpIInv
             /\ Starter!TypeOK /\ ShareIInv /\ Stamps!TypeOK /\ Prompts!TypeOK /\ Runner!TypeOK
             /\ DigestIInv /\ TokenIInv /\ SubIInv
<1>1. Spec => []Typed
  BY StoreInvariant, AnswerInvariant, UndoTyped, ScreenInvariant, LanguageInvariant, McpInvariant,
     StarterTyped, ShareInvariant, StampsTyped, PromptsTyped, RunnerTyped, DigestInvariant,
     TokenInvariant, SubInvariant, PTL
<1>2. Typed /\ focus \in Components => TypesOK
  BY ComponentAssumptions, ScreenInvGives, ShareInvGives, TokenInvGives
     DEF TypesOK, Components, StoreIInv, AnswerIInv, LanguageIInv, McpIInv, DigestIInv,
         DigestTypes, SubIInv
<1>3. Spec => [](focus \in Components)
  <2>1. Init => focus \in Components
    BY DEF Init
  <2>2. focus \in Components /\ [Next]_vars => (focus \in Components)'
    BY DEF Next, Others, vars
  <2> QED BY <2>1, <2>2, PTL DEF Spec
<1> QED BY <1>1, <1>2, <1>3, PTL
=============================================================================
