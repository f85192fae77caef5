----------------------------- MODULE Identifier -----------------------------
(***************************************************************************)
(* Identifiers that sort by time, as one process makes them, and the files *)
(* of truncated tool output that are kept by the time in their names.      *)
(*                                                                         *)
(* Source: packages/opencode/src/id/id.ts and                              *)
(*         packages/opencode/src/tool/truncate.ts.                         *)
(*                                                                         *)
(* An identifier is the number in its six bytes of time; the random bytes  *)
(* after it do not make two equal numbers ordered.  The clock does not go  *)
(* back.                                                                   *)
(***************************************************************************)
EXTENDS Integers, Sequences

CONSTANTS
    CounterSpan,  \* 2^12: numbers per millisecond
    IdSpan,       \* 2^48: what six bytes hold
    Retention,    \* how long a file of tool output is kept
    FirstClock,   \* the time at which the process starts
    MaxClock,     \* bound: the time up to which it is followed
    MaxIds        \* bound: identifiers made, and cleanups

ConstantAssumption ==
    /\ CounterSpan \in Nat \ {0} /\ IdSpan \in Nat \ {0}
    /\ Retention \in Nat /\ FirstClock \in Nat /\ MaxClock \in Nat
    /\ Retention < FirstClock /\ FirstClock <= MaxClock
    /\ MaxIds \in Nat

VARIABLES
    clock,          \* Date.now()
    lastTimestamp,  \* the timestamp of the last identifier
    counter,        \* how many identifiers it has been used for
    ids,            \* the identifiers of the present, in the order of their making
    cleanups,       \* cleanups so far
    outputs,        \* the files of tool output: their identifiers and times of writing
    early           \* the files removed by a cleanup before the retention was over

vars == <<clock, lastTimestamp, counter, ids, cleanups, outputs, early>>

Id == 0..IdSpan - 1

TypeOK ==
    /\ clock \in FirstClock..MaxClock
    /\ lastTimestamp \in -Retention..MaxClock
    /\ counter \in 0..CounterSpan
    /\ ids \in Seq([id : Id, at : FirstClock..MaxClock, cleanups : 0..MaxIds])
    /\ cleanups \in 0..MaxIds
    /\ outputs \cup early \subseteq [id : Id, at : FirstClock..MaxClock]

Init ==
    /\ clock = FirstClock
    /\ lastTimestamp = 0
    /\ counter = 0
    /\ ids = <<>>
    /\ cleanups = 0
    /\ outputs = {} /\ early = {}

----------------------------------------------------------------------------
(* create().                                                               *)

\* Mutant of Count: the counter starts again with every identifier.
CountFromOne(ts) == 1

\* The counter starts again when the timestamp is another one.
Count(ts) == IF ts = lastTimestamp THEN counter + 1 ELSE 1

\* The number in six bytes.
Encode(ts, n) == (ts * CounterSpan + n) % IdSpan

\* timestamp(): what an identifier says of its time.
Timestamp(id) == id \div CounterSpan

\* A descending identifier has the complement in its six bytes.
Descending(id) == IdSpan - 1 - id

Stamp(ts) ==
    /\ lastTimestamp' = ts
    /\ counter' = Count(ts)

Entry(ts) == [id |-> Encode(ts, Count(ts)), at |-> ts, cleanups |-> cleanups]

Tick(t) ==
    /\ t > clock
    /\ clock' = t
    /\ UNCHANGED <<lastTimestamp, counter, ids, cleanups, outputs, early>>

\* ascending(): a millisecond is too short for CounterSpan of them.
Create ==
    /\ Len(ids) < MaxIds
    /\ Count(clock) < CounterSpan
    /\ Stamp(clock)
    /\ ids' = Append(ids, Entry(clock))
    /\ UNCHANGED <<clock, cleanups, outputs, early>>

----------------------------------------------------------------------------
(* Truncated tool output.                                                  *)

Write ==
    /\ Len(ids) < MaxIds
    /\ Count(clock) < CounterSpan
    /\ Stamp(clock)
    /\ ids' = Append(ids, Entry(clock))
    /\ outputs' = outputs \cup {[id |-> Entry(clock).id, at |-> clock]}
    /\ UNCHANGED <<clock, cleanups, early>>

\* cleanup() makes an identifier of the past to know what to compare with.
CleanUp ==
    /\ cleanups < MaxIds
    /\ Count(clock - Retention) < CounterSpan
    /\ LET past == clock - Retention
           cutoff == Timestamp(Encode(past, Count(past)))
       IN /\ Stamp(past)
          /\ outputs' = {f \in outputs : Timestamp(f.id) >= cutoff}
          /\ early' = early \cup {f \in outputs \ outputs' : f.at >= past}
    /\ cleanups' = cleanups + 1
    /\ UNCHANGED <<clock, ids>>

----------------------------------------------------------------------------

Next ==
    \/ \E t \in FirstClock..MaxClock : Tick(t)
    \/ Create \/ Write \/ CleanUp

Spec == Init /\ [][Next]_vars

----------------------------------------------------------------------------
(* Properties.                                                             *)

\* Messages, parts and events are ordered by their identifiers: of two of one
\* process the later is the greater, within a millisecond as well unless a
\* cleanup came between them, and descending identifiers are ordered the other
\* way round.
IdsAscend ==
    \A i, j \in DOMAIN ids :
        /\ i < j
        /\ ids[i].at < ids[j].at \/ ids[i].cleanups = ids[j].cleanups
        => /\ ids[i].id < ids[j].id
           /\ Descending(ids[j].id) < Descending(ids[i].id)

\* A cleanup removes no file of tool output that is younger than the retention.
RecentFilesKept == early = {}
=============================================================================
