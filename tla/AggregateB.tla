----------------------------- MODULE AggregateB -----------------------------
(***************************************************************************)
(* Activity summaries of text5/b, for one employee and one week. A batch   *)
(* and a rebuild are transactions that read the sums of a day and write    *)
(* them with a second statement, which waits for the row of the summary;   *)
(* the week is computed before its statement waits for its row. Times are  *)
(* UTC, days are those of the employee's time zone. A snapshot is its      *)
(* minute and its content; a summary is the set of the snapshots it        *)
(* counts.                                                                 *)
(***************************************************************************)
EXTENDS Naturals, Sequences, FiniteSets

CONSTANTS
    Days,           \* 1, 2, ...
    Day,            \* day of each minute in the employee's time zone
    Midnight,       \* the first minute of each day in UTC
    Batches,        \* sequences of snapshots that agents send
    Requests        \* transactions in flight at most

VARIABLES
    raw,            \* committed rows of raw_snapshots
    daily,          \* employee_daily_summary
    weekly,         \* department_weekly_summary
    cutoff,         \* raw_cutoff, 0 for NULL
    request,        \* transactions of IngestBatch and Rebuild
    history         \* accepted snapshots; days whose summary was written from
                    \* sums that were no longer so, or with rows already gone

vars == <<raw, daily, weekly, cutoff, request, history>>

Idle == [phase |-> "idle", batch |-> <<>>, new |-> {}, days |-> {}, day |-> 0,
         read |-> {}, written |-> {}, sums |-> {}, week |-> {}, stale |-> {}]

Init ==
    /\ raw = {}
    /\ daily = [d \in Days |-> {}]
    /\ weekly = {}
    /\ cutoff = 0
    /\ request = [r \in Requests |-> Idle]
    /\ history = [accepted |-> {}, stale |-> {}]

OnDay(rows, d) == {row \in rows : Day[row[1]] = d}
SameMinute(rows, row) == {other \in rows : other[1] = row[1]}
Sees(r) == raw \cup request[r].new
Gone(d) == \E m \in DOMAIN Day : Day[m] = d /\ m < cutoff
\* The daily summaries that a transaction sees, its own included
Seen(r) == UNION {IF d \in request[r].written THEN OnDay(request[r].sums, d)
                  ELSE daily[d] : d \in Days}

Begin(r, batch) ==
    /\ request[r] = Idle
    /\ request' = [request EXCEPT ![r] = [@ EXCEPT !.phase = "insert", !.batch = batch]]
    /\ UNCHANGED <<raw, daily, weekly, cutoff, history>>

\* A minute that another open transaction inserts is waited for.
Insert(r) ==
    /\ request[r].batch # <<>>
    /\ \A other \in Requests \ {r} :
           SameMinute(request[other].new, Head(request[r].batch)) = {}
    /\ LET q == request[r]
           row == Head(q.batch)
           there == SameMinute(Sees(r), row)
           rest == Tail(q.batch)
           new == q.new \cup ({row} \ there)
       IN request' = [request EXCEPT ![r] =
            IF there \subseteq {row}
            THEN [q EXCEPT !.batch = rest, !.new = new,
                           !.phase = IF rest = <<>> THEN "days" ELSE "insert",
                           !.days = {Day[other[1]] : other \in new}]
            ELSE Idle]
    /\ UNCHANGED <<raw, daily, weekly, cutoff, history>>

Rebuildable(from) == Midnight[from] >= cutoff

Rebuild(r, from, to) ==
    /\ request[r] = Idle
    /\ Rebuildable(from)
    /\ request' = [request EXCEPT ![r] = [@ EXCEPT !.phase = "days",
           !.days = {d \in from .. to : OnDay(raw, d) # {}}]]
    /\ UNCHANGED <<raw, daily, weekly, cutoff, history>>

\* recomputeDay: the sums are read ...
ReadDay(r, d) ==
    LET q == request[r] IN
    /\ q.phase = "days" /\ d \in q.days
    /\ request' = [request EXCEPT ![r] = [q EXCEPT !.phase = "write",
           !.day = d, !.days = q.days \ {d}, !.read = OnDay(Sees(r), d)]]
    /\ UNCHANGED <<raw, daily, weekly, cutoff, history>>

\* ... and written when no other transaction holds the summary.
WriteDay(r) ==
    LET q == request[r]
        d == q.day
    IN
    /\ q.phase = "write"
    /\ \A other \in Requests \ {r} : d \notin request[other].written
    /\ request' = [request EXCEPT ![r] = [q EXCEPT !.phase = "week",
           !.written = q.written \cup {d}, !.sums = q.sums \cup q.read, !.read = {},
           !.stale = IF Gone(d) \/ ~(OnDay(Sees(r), d) \subseteq q.read)
                     THEN q.stale \cup {d} ELSE q.stale]]
    /\ UNCHANGED <<raw, daily, weekly, cutoff, history>>

\* recomputeWeek: the same in one statement; 0 stands for the week.
ReadWeek(r) ==
    /\ request[r].phase = "week"
    /\ request' = [request EXCEPT ![r] = [request[r] EXCEPT !.phase = "upsert",
                                                            !.read = Seen(r)]]
    /\ UNCHANGED <<raw, daily, weekly, cutoff, history>>

WriteWeek(r) ==
    LET q == request[r] IN
    /\ q.phase = "upsert"
    /\ \A other \in Requests \ {r} : 0 \notin request[other].written
    /\ request' = [request EXCEPT ![r] = [q EXCEPT !.phase = "days", !.day = 0,
           !.written = q.written \cup {0}, !.read = {},
           !.stale = IF q.read = Seen(r) THEN q.stale \ {0} ELSE q.stale \cup {0},
           !.week = q.read]]
    /\ UNCHANGED <<raw, daily, weekly, cutoff, history>>

Commit(r) ==
    LET q == request[r] IN
    /\ q.phase = "days" /\ q.days = {}
    /\ raw' = raw \cup q.new
    /\ daily' = [d \in Days |-> IF d \in q.written THEN OnDay(q.sums, d) ELSE daily[d]]
    /\ weekly' = IF 0 \in q.written THEN q.week ELSE weekly
    /\ history' = [accepted |-> history.accepted \cup q.new,
                   stale |-> (history.stale \ q.written) \cup q.stale]
    /\ request' = [request EXCEPT ![r] = Idle]
    /\ UNCHANGED cutoff

\* A lost connection, a crash, or the victim of a deadlock
Abort(r) ==
    /\ request[r] # Idle
    /\ request' = [request EXCEPT ![r] = Idle]
    /\ UNCHANGED <<raw, daily, weekly, cutoff, history>>

Cleanup(before) ==
    /\ raw' = {row \in raw : row[1] >= before}
    /\ cutoff' = IF before > cutoff THEN before ELSE cutoff
    /\ UNCHANGED <<daily, weekly, request, history>>

Next ==
    \/ \E r \in Requests, batch \in Batches : Begin(r, batch)
    \/ \E r \in Requests, from \in Days, to \in Days : from <= to /\ Rebuild(r, from, to)
    \/ \E r \in Requests, d \in Days : ReadDay(r, d)
    \/ \E r \in Requests :
          \/ Insert(r) \/ WriteDay(r) \/ ReadWeek(r) \/ WriteWeek(r)
          \/ Commit(r) \/ Abort(r)
    \/ \E before \in DOMAIN Day : Cleanup(before)

Spec == Init /\ [][Next]_vars
-----------------------------------------------------------------------------
\* A summary counts every accepted snapshot of its day once and the week counts
\* its days, in any order of batches, rebuilds and clean-ups - but for a day
\* written from sums that another batch had overtaken while the statement waited
\* (store.go:187-231), and for one recomputed when some of its rows were gone,
\* as when a clean-up cut through the day or its snapshots came late. The next
\* recomputation from complete rows repairs what was overtaken.
SummarySound ==
    /\ \A d \in Days \ history.stale : daily[d] = OnDay(history.accepted, d)
    /\ 0 \notin history.stale => weekly = UNION {daily[d] : d \in Days}
    /\ \A row \in history.accepted : row[1] >= cutoff => row \in raw
    /\ \A row \in raw : SameMinute(raw, row) = {row}
=============================================================================
