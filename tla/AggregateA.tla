----------------------------- MODULE AggregateA -----------------------------
(***************************************************************************)
(* Activity summaries of text5/a: batches of snapshots, rebuilds and the   *)
(* clean-up of raw rows, for one employee and one week. A snapshot is its  *)
(* minute and its content; a summary is the set of the snapshots it        *)
(* counts, and an absent summary counts none. A batch holds the advisory   *)
(* lock of each day it has recomputed until it commits.                    *)
(***************************************************************************)
EXTENDS Naturals, Sequences, FiniteSets

CONSTANTS
    Days,           \* 1, 2, ...
    Day,            \* local_date of each minute
    Batches,        \* sequences of snapshots that agents send
    Requests        \* batches in flight at most

VARIABLES
    raw,            \* committed rows of raw_snapshots
    daily,          \* daily_summaries
    weekly,         \* weekly_summaries
    retained,       \* raw_retained_from, 0 for NULL
    request,        \* transactions of Process
    rebuild,        \* what a rebuild still has to do
    history         \* accepted snapshots; days that got some after a clean-up

vars == <<raw, daily, weekly, retained, request, rebuild, history>>

Idle == [phase |-> "idle", batch |-> <<>>, new |-> {}, done |-> {}, sums |-> {}]
Quiet == [phase |-> "idle", days |-> {}, span |-> {}]

Init ==
    /\ raw = {}
    /\ daily = [d \in Days |-> {}]
    /\ weekly = {}
    /\ retained = 0
    /\ request = [r \in Requests |-> Idle]
    /\ rebuild = Quiet
    /\ history = [accepted |-> {}, late |-> {}]

OnDay(rows, d) == {row \in rows : Day[row[1]] = d}
SameMinute(rows, row) == {other \in rows : other[1] = row[1]}
Week(days) == UNION {days[d] : d \in Days}

Begin(r, batch) ==
    /\ request[r] = Idle
    /\ request' = [request EXCEPT ![r] = [@ EXCEPT !.phase = "open", !.batch = batch]]
    /\ UNCHANGED <<raw, daily, weekly, retained, rebuild, history>>

\* A minute that another open transaction inserts is waited for.
Insert(r) ==
    /\ request[r].batch # <<>>
    /\ \A other \in Requests \ {r} :
           SameMinute(request[other].new, Head(request[r].batch)) = {}
    /\ LET q == request[r]
           row == Head(q.batch)
           there == SameMinute(raw \cup q.new, row)
       IN request' = [request EXCEPT ![r] =
            IF there \subseteq {row}
            THEN [q EXCEPT !.batch = Tail(q.batch), !.new = q.new \cup ({row} \ there)]
            ELSE Idle]
    /\ UNCHANGED <<raw, daily, weekly, retained, rebuild, history>>

Affected(r) == {Day[row[1]] : row \in request[r].new}
LockFree(d) == \A r \in Requests : d \notin request[r].done

RecomputeDailyTx(r, d) ==
    /\ request[r].phase = "open" /\ request[r].batch = <<>>
    /\ d \in Affected(r) \ request[r].done
    /\ LockFree(d)
    /\ LET q == request[r]
       IN request' = [request EXCEPT ![r] = [q EXCEPT
              !.done = q.done \cup {d},
              !.sums = q.sums \cup OnDay(raw \cup q.new, d)]]
    /\ UNCHANGED <<raw, daily, weekly, retained, rebuild, history>>

\* The week is recomputed under its lock right before the commit.
Commit(r) ==
    /\ request[r].phase = "open" /\ request[r].batch = <<>>
    /\ request[r].done = Affected(r)
    /\ raw' = raw \cup request[r].new
    /\ daily' = [d \in Days |-> IF d \in request[r].done THEN OnDay(request[r].sums, d)
                                ELSE daily[d]]
    /\ weekly' = IF request[r].done = {} THEN weekly ELSE Week(daily')
    /\ history' = [accepted |-> history.accepted \cup request[r].new,
                   late |-> history.late \cup {d \in request[r].done : d < retained}]
    /\ request' = [request EXCEPT ![r] = Idle]
    /\ UNCHANGED <<retained, rebuild>>

\* A lost connection, a crash, or the victim of a deadlock
Abort(r) ==
    /\ request[r] # Idle
    /\ request' = [request EXCEPT ![r] = Idle]
    /\ UNCHANGED <<raw, daily, weekly, retained, rebuild, history>>

Rebuild(from, to) ==
    /\ rebuild = Quiet
    /\ retained <= from
    /\ rebuild' = [phase |-> "open", span |-> from .. to,
                   days |-> {d \in from .. to : OnDay(raw, d) # {}}]
    /\ UNCHANGED <<raw, daily, weekly, retained, request, history>>

\* A transaction of its own for each day; a day without raw rows is left alone.
RebuildDay(d) ==
    /\ d \in rebuild.days
    /\ \A other \in rebuild.days : d <= other
    /\ LockFree(d)
    /\ daily' = [daily EXCEPT ![d] = IF OnDay(raw, d) = {} THEN @ ELSE OnDay(raw, d)]
    /\ rebuild' = [rebuild EXCEPT !.days = @ \ {d}]
    /\ UNCHANGED <<raw, weekly, retained, request, history>>

RebuildWeek ==
    /\ rebuild.phase = "open" /\ rebuild.days = {}
    /\ weekly' = IF \E d \in rebuild.span : daily[d] # {} THEN Week(daily) ELSE weekly
    /\ rebuild' = Quiet
    /\ UNCHANGED <<raw, daily, retained, request, history>>

AbortRebuild ==
    /\ rebuild # Quiet
    /\ rebuild' = Quiet
    /\ UNCHANGED <<raw, daily, weekly, retained, request, history>>

Cleanup(before) ==
    /\ raw' = {row \in raw : Day[row[1]] >= before}
    /\ retained' = IF before > retained THEN before ELSE retained
    /\ UNCHANGED <<daily, weekly, request, rebuild, history>>

Next ==
    \/ \E r \in Requests, batch \in Batches : Begin(r, batch)
    \/ \E r \in Requests : Insert(r) \/ Commit(r) \/ Abort(r)
    \/ \E r \in Requests, d \in Days : RecomputeDailyTx(r, d)
    \/ \E from \in Days, to \in Days : from <= to /\ Rebuild(from, to)
    \/ \E d \in Days : RebuildDay(d) \/ Cleanup(d)
    \/ RebuildWeek
    \/ AbortRebuild

Spec == Init /\ [][Next]_vars
-----------------------------------------------------------------------------
\* A summary counts every accepted snapshot of its day once, with or without
\* its raw rows, and the week counts its days, whatever batches, rebuilds and
\* clean-ups run at once - until snapshots of a day arrive after its raw rows
\* were removed: Process recomputes that day from those alone, which the
\* watermark keeps Rebuild from doing (ingest.go:242-249, aggregate.go:40-185).
SummarySound ==
    /\ \A d \in Days \ history.late :
           /\ daily[d] = OnDay(history.accepted, d)
           /\ OnDay(weekly, d) = daily[d]
    /\ \A row \in history.accepted : Day[row[1]] >= retained => row \in raw
    /\ \A row \in raw : SameMinute(raw, row) = {row}
=============================================================================
