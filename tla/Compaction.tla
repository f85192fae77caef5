----------------------------- MODULE Compaction -----------------------------
(***************************************************************************)
(* session/compaction.ts, filterCompacted of session/message-v2.ts and the *)
(* loop of session/prompt.ts around them: what of a session's conversation *)
(* the model still sees after it has been summed up, or is told by the     *)
(* summary.                                                                *)
(*                                                                         *)
(* A message's identifier is its place in msgs.  The tokens are left out:  *)
(* how much of the conversation fits into the budget and whether an answer *)
(* has filled the context are chosen freely.                               *)
(***************************************************************************)
EXTENDS Naturals, Sequences, FiniteSets

CONSTANTS
    TailTurns,   \* DEFAULT_TAIL_TURNS
    MaxMsgs,     \* bound on the messages of the session
    Failing      \* whether a call of the model for a summary may fail for good

ConstantAssumption == TailTurns \in Nat \ {0} /\ MaxMsgs \in Nat /\ Failing \in BOOLEAN

VARIABLES
    msgs,     \* the messages, oldest first
    pc,       \* what the loop does: "rest", "top", "reply" or "digest"
    cur,      \* the compaction at work, see Work
    told,     \* history: what the summaries were made from
    dropped,  \* history: what gave way to a replayed prompt
    failed    \* history: a call for a summary has failed

vars == <<msgs, pc, cur, told, dropped, failed>>

Ids == 1..MaxMsgs

\* fin: "none" until the answer is complete, "calls" when tools are to be
\* called.  big: its tokens fill the context.
Messages ==
    [kind : {"prompt"}, of : Ids \cup {0}]
        \cup [kind : {"compaction"}, tail : Ids \cup {0}, auto : BOOLEAN, overflow : BOOLEAN]
        \cup [kind : {"answer"}, parent : Ids, fin : {"none", "calls", "stop"}, big : BOOLEAN]
        \cup [kind : {"summary"}, parent : Ids, fin : {"none", "stop"}, error : BOOLEAN]

User(m) == msgs[m].kind \in {"prompt", "compaction"}
Assistant(m) == msgs[m].kind \in {"answer", "summary"}
Asks(m) == msgs[m].kind = "compaction"
Finished(m) == Assistant(m) /\ msgs[m].fin # "none"

\* A summary that counts.
Sums(s) == msgs[s].kind = "summary" /\ msgs[s].fin # "none" /\ ~msgs[s].error

\* The compaction at work: whether the loop goes on after it by itself, where
\* the tail that it keeps begins, what it sums up, which summary it updates,
\* the prompt that is to be replayed and what gives way to that (0: none).
Work == [auto : BOOLEAN, keep : Ids \cup {0}, head : SUBSET Ids, anchor : Ids \cup {0},
         replay : Ids \cup {0}, given : SUBSET Ids]

NoWork == [auto |-> FALSE, keep |-> 0, head |-> {}, anchor |-> 0, replay |-> 0, given |-> {}]

TypeOK ==
    /\ msgs \in Seq(Messages) /\ Len(msgs) <= MaxMsgs
    /\ pc \in {"rest", "top", "reply", "digest"}
    /\ cur \in Work
    /\ told \subseteq Ids /\ dropped \subseteq Ids
    /\ failed \in BOOLEAN

Largest(S) == CHOOSE n \in S : \A k \in S : k <= n
Least(S) == CHOOSE n \in S : \A k \in S : n <= k

From(i, j) == [n \in 1..(IF j < i THEN 0 ELSE j - i + 1) |-> i + n - 1]
Elements(s) == {s[i] : i \in DOMAIN s}
PlaceOf(s, m) == Least({i \in DOMAIN s : s[i] = m} \cup {Len(s) + 1})

----------------------------------------------------------------------------
\* What filterCompacted leaves: nothing older than the newest compaction that
\* has its summary, or than the tail that this one keeps.
Boundary ==
    LET done == {m \in DOMAIN msgs : Asks(m) /\ \E s \in DOMAIN msgs : Sums(s) /\ msgs[s].parent = m}
        c == Largest(done)
    IN  IF done = {} THEN 1
        ELSE IF msgs[c].tail = 0 THEN c
        ELSE IF msgs[c].tail <= c THEN msgs[c].tail ELSE 1

\* The last compaction with a tail and its first summary are put before that tail.
FilterCompacted ==
    LET recent == Boundary..Len(msgs)
        tailed == {m \in recent : Asks(m) /\ msgs[m].tail # 0}
        c == Largest(tailed)
        sums == {s \in recent : s > c /\ msgs[s].kind = "summary" /\ msgs[s].parent = c}
        tail == msgs[c].tail
    IN  IF tailed # {} /\ sums # {} /\ tail >= Boundary /\ tail < c
        THEN From(c, Least(sums)) \o From(tail, c - 1) \o From(Least(sums) + 1, Len(msgs))
        ELSE From(Boundary, Len(msgs))

----------------------------------------------------------------------------
\* The loop's scan of what it sees, from the end.
LastOf(s, P(_)) ==
    LET found == {i \in DOMAIN s : P(s[i])} IN IF found = {} THEN 0 ELSE Largest(found)

LastUser(seen) == seen[LastOf(seen, User)]
LastFinished(seen) == LastOf(seen, Finished)
LastAssistant(seen) == LastOf(seen, Assistant)

\* The compactions asked for since the last finished answer; the oldest is
\* popped first.
Tasks(seen) == {i \in DOMAIN seen : i > LastFinished(seen) /\ Asks(seen[i])}

Exits(seen) ==
    LET last == seen[LastAssistant(seen)] IN
    LastAssistant(seen) # 0 /\ msgs[last].fin = "stop" /\ LastUser(seen) < last

FillsContext(seen) ==
    LET last == seen[LastFinished(seen)] IN
    LastFinished(seen) # 0 /\ msgs[last].kind = "answer" /\ msgs[last].big

----------------------------------------------------------------------------
\* An overflowing request: the prompt before the compaction p is to be replayed
\* and only what is older is summed up, if that has a prompt at all.
ReplayFrom(seen, p, overflow) ==
    LET prompts == {i \in DOMAIN seen : i < PlaceOf(seen, p) /\ msgs[seen[i]].kind = "prompt"} IN
    IF overflow /\ (\E i \in prompts : i < Largest(prompts)) THEN Largest(prompts) ELSE 0

\* The compactions of a conversation that have their summaries.
Prior(h) == {i \in DOMAIN h : Sums(h[i]) /\ msgs[h[i]].parent \in Elements(h) /\ Asks(msgs[h[i]].parent)}

\* What is left of a conversation without those and their summaries.
Shown(h) ==
    LET hidden == {h[i] : i \in Prior(h)} \cup {msgs[h[i]].parent : i \in Prior(h)} IN
    {i \in DOMAIN h : h[i] \notin hidden}

\* The last TailTurns turns of the user's.
RecentTurns(h) ==
    LET turns == {i \in Shown(h) : msgs[h[i]].kind = "prompt"}
    IN  {i \in turns : Cardinality({j \in turns : j > i}) < TailTurns}

\* Where the tail may begin: at any message of these, as far as the budget
\* reaches, but the first one; at 0 there is no tail.
KeepFrom(h) ==
    {0} \cup {i \in Shown(h) : /\ RecentTurns(h) # {} /\ i >= Least(RecentTurns(h))
                             /\ i > Least(Shown(h))}

\* Mutant of Older: the message before the tail is left out.
OlderShort(h, k) == {h[i] : i \in {j \in Shown(h) : k = 0 \/ \E l \in Shown(h) : j < l /\ l < k}}

\* What is summed up: all that is older than the tail.
Older(h, k) == {h[i] : i \in {j \in Shown(h) : k = 0 \/ j < k}}

\* processCompaction up to its call of the model.
Digests(seen, p, part) ==
    LET i == ReplayFrom(seen, p, part.overflow)
        input == IF i = 0 THEN seen ELSE SubSeq(seen, 1, i - 1)
        own == Asks(p) /\ input # <<>> /\ input[Len(input)] = p
        history == IF own THEN SubSeq(input, 1, Len(input) - 1) ELSE input
        prior == Prior(history)
    IN  {[auto |-> part.auto,
          keep |-> IF k = 0 THEN 0 ELSE history[k],
          head |-> Older(history, k),
          anchor |-> IF prior = {} THEN 0 ELSE history[Largest(prior)],
          replay |-> IF i = 0 THEN 0 ELSE seen[i],
          given |-> IF i = 0 THEN {} ELSE Elements(SubSeq(seen, i, PlaceOf(seen, p) - 1))] :
            k \in KeepFrom(history)}

----------------------------------------------------------------------------
NewPrompt(of) == [kind |-> "prompt", of |-> of]

NewCompaction(auto, overflow) ==
    [kind |-> "compaction", tail |-> 0, auto |-> auto, overflow |-> overflow]

Room(n) == Len(msgs) + n <= MaxMsgs

Init ==
    /\ msgs = <<>> /\ pc = "rest" /\ cur = NoWork
    /\ told = {} /\ dropped = {} /\ failed = FALSE

\* A prompt of the user, which may ask for no reply, and the request to sum the
\* session up, with auto left at its default.
Arrives(m) ==
    /\ Room(1)
    /\ msgs' = Append(msgs, m)
    /\ UNCHANGED <<pc, cur, told, dropped, failed>>

Prompt == Arrives(NewPrompt(0))

Summarize == Arrives(NewCompaction(FALSE, FALSE))

\* The loop is started for one of them, or once more for a call that has waited.
Loop ==
    /\ pc = "rest" /\ msgs # <<>>
    /\ pc' = "top"
    /\ UNCHANGED <<msgs, cur, told, dropped, failed>>

\* One pass of the loop, up to its call of the model.
Exit(seen) == pc' = "rest" /\ UNCHANGED <<msgs, cur>>

StartDigest(seen) ==
    LET p == LastUser(seen) IN
    /\ Room(1)
    /\ cur' \in Digests(seen, p, msgs[seen[Least(Tasks(seen))]])
    /\ msgs' = Append(msgs, [kind |-> "summary", parent |-> p, fin |-> "none", error |-> FALSE])
    /\ pc' = "digest"

Overflow ==
    /\ Room(1)
    /\ msgs' = Append(msgs, NewCompaction(TRUE, FALSE))
    /\ UNCHANGED <<pc, cur>>

StartReply(seen) ==
    /\ Room(1)
    /\ msgs' = Append(msgs, [kind |-> "answer", parent |-> LastUser(seen), fin |-> "none", big |-> FALSE])
    /\ pc' = "reply"
    /\ UNCHANGED cur

Top ==
    /\ pc = "top"
    /\ LET seen == FilterCompacted IN
       \/ Exits(seen) /\ Exit(seen)
       \/ ~Exits(seen) /\ Tasks(seen) # {} /\ StartDigest(seen)
       \/ ~Exits(seen) /\ Tasks(seen) = {} /\ FillsContext(seen) /\ Overflow
       \/ ~Exits(seen) /\ Tasks(seen) = {} /\ ~FillsContext(seen) /\ StartReply(seen)
    /\ UNCHANGED <<told, dropped, failed>>

----------------------------------------------------------------------------
\* What the call of the model makes of the answer, which is the newest message
\* of its kind.
Newest(kind) == Largest({m \in DOMAIN msgs : msgs[m].kind = kind})

Replies ==
    /\ pc = "reply"
    /\ \E fin \in {"calls", "stop"} : msgs' = [msgs EXCEPT ![Newest("answer")].fin = fin]
    /\ pc' = "top"
    /\ UNCHANGED <<cur, told, dropped, failed>>

\* The answer has filled the context, or the request was too large for it.
ReplyOverflows ==
    /\ pc = "reply" /\ Room(1)
    /\ \E fin \in {"none", "calls", "stop"} :
        msgs' = Append([msgs EXCEPT ![Newest("answer")].fin = fin, ![Newest("answer")].big = fin # "none"],
                       NewCompaction(TRUE, fin = "none"))
    /\ pc' = "top"
    /\ UNCHANGED <<cur, told, dropped, failed>>

\* An error or the user ends the loop.
ReplyStops ==
    /\ pc = "reply"
    /\ pc' = "rest"
    /\ UNCHANGED <<msgs, cur, told, dropped, failed>>

\* The rest of processCompaction.
Ended(fin, error) == [msgs EXCEPT ![Newest("summary")].fin = fin, ![Newest("summary")].error = error]

\* The compaction part gets the tail if the message that is answered bears one.
Tailed(ms) ==
    LET p == ms[Newest("summary")].parent IN
    IF Asks(p) /\ cur.keep # 0 THEN [ms EXCEPT ![p].tail = cur.keep] ELSE ms

Followups ==
    IF ~cur.auto THEN {<<>>}
    ELSE IF cur.replay # 0 THEN {<<NewPrompt(cur.replay)>>}
    ELSE {<<>>, <<NewPrompt(0)>>}

DigestReturns ==
    /\ pc = "digest"
    /\ \E f \in Followups :
        /\ Room(Len(f))
        /\ msgs' = Tailed(Ended("stop", FALSE)) \o f
    /\ told' = told \cup cur.head
    /\ dropped' = dropped \cup cur.given
    /\ pc' = "top" /\ cur' = NoWork
    /\ UNCHANGED failed

\* The conversation is too large for its summary.
DigestOverflows ==
    /\ pc = "digest"
    /\ msgs' = Ended("stop", TRUE)
    /\ pc' = "rest" /\ cur' = NoWork
    /\ UNCHANGED <<told, dropped, failed>>

\* The tail is recorded before the error is looked at.
DigestFails ==
    /\ pc = "digest" /\ Failing
    /\ msgs' = Tailed(Ended("none", TRUE))
    /\ pc' = "rest" /\ cur' = NoWork /\ failed' = TRUE
    /\ UNCHANGED <<told, dropped>>

DigestInterrupted ==
    /\ pc = "digest"
    /\ msgs' = Ended("none", TRUE)
    /\ pc' = "rest" /\ cur' = NoWork
    /\ UNCHANGED <<told, dropped, failed>>

Next ==
    \/ Prompt \/ Summarize \/ Loop
    \/ Top
    \/ Replies \/ ReplyOverflows \/ ReplyStops
    \/ DigestReturns \/ DigestOverflows \/ DigestFails \/ DigestInterrupted

Spec == Init /\ [][Next]_vars

----------------------------------------------------------------------------
\* Nothing falls between a summary and the tail that is kept: what the model
\* does not see has gone into a summary, or gave way to a prompt that is
\* replayed.  A summary that has failed hides what it did not tell, so this is
\* claimed where none has (session/message-v2.ts, session/compaction.ts).
NothingFallsBetween ==
    ~failed => \A m \in DOMAIN msgs :
        msgs[m].kind \in {"prompt", "answer"} =>
            m \in Elements(FilterCompacted) \cup told \cup dropped

\* A compaction updates the newest summary there is.
NewestIsAnchor ==
    LET sums == {s \in DOMAIN msgs : Sums(s) /\ Asks(msgs[s].parent)} IN
    pc = "digest" /\ sums # {} => cur.anchor = Largest(sums)
=============================================================================
