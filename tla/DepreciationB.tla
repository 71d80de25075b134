--------------------------- MODULE DepreciationB ---------------------------
(***************************************************************************)
(* Depreciation of one asset in text7/b (MySQL, REPEATABLE READ). A run    *)
(* holds the row of its period; it lists the assets before it locks them,  *)
(* so that it sees the entries as of then and the asset as of its lock.    *)
(* Nothing asks that periods are run in order. Amounts are in cents.       *)
(***************************************************************************)
EXTENDS Integers, FiniteSets

CONSTANTS
    Periods,        \* 1, 2, ..., after the month of commission
    Cost, Salvage, Life,    \* of the asset when it is created
    Costs, Lives,   \* parameters that adjustments set
    Requests        \* runs in flight at most

VARIABLES
    asset,          \* row of assets
    entries,        \* depreciation_entries, by period
    period,         \* fiscal_periods: "none", "open" or "closed"
    request,        \* runs that hold their period
    history         \* deltas of adjustments less those of entries; entries at
                    \* the close of a period; whether a run was out of order or
                    \* overtaken

vars == <<asset, entries, period, request, history>>

Idle == [period |-> 0, listed |-> FALSE, seen |-> {}]
DEPRECIABLE == {"IN_USE", "UNDER_REPAIR"}
ALLOWED == [IN_STOCK |-> {"IN_USE"}, IN_USE |-> {"UNDER_REPAIR", "RETIRED"},
            UNDER_REPAIR |-> {"IN_USE", "RETIRED"}, RETIRED |-> {"DISPOSED"},
            DISPOSED |-> {}]

Init ==
    /\ \E m \in {"straight", "declining"} :
           asset = [status |-> "IN_STOCK", cost |-> Cost, life |-> Life,
                    pending |-> 0, method |-> m]
    /\ entries = {}
    /\ period = [p \in Periods |-> "none"]
    /\ request = [r \in Requests |-> Idle]
    /\ history = [due |-> 0, atClose |-> {}, skewed |-> FALSE]

-----------------------------------------------------------------------------
HalfUp(x, parts) == (2 * x + parts) \div (2 * parts)
Least(a, b) == IF a < b THEN a ELSE b
Of(p, rows) == {e \in rows : e.period = p}
Before(p, rows) == {e \in rows : e.period < p}
Newest(rows) == CHOOSE e \in rows : \A other \in rows : other.period <= e.period
Closing(e) == e.opening - e.amount

\* DepreciationCalculator
straightLine(opening, remaining) ==
    IF opening <= Salvage THEN 0
    ELSE Least(HalfUp(opening - Salvage, remaining), opening - Salvage)
decliningBalance(opening, remaining, life) ==
    IF remaining <= 2 THEN straightLine(opening, remaining)
    ELSE IF opening <= Salvage THEN 0
    ELSE Least(HalfUp(2 * opening, life), opening - Salvage)

\* The new entry of period p, from the entries that the run sees
Entry(p, seen) ==
    LET remaining == asset.life - Cardinality(Before(p, seen))
        book == IF Before(p, seen) = {} THEN asset.cost ELSE Closing(Newest(Before(p, seen)))
        opening == book + asset.pending
    IN [period |-> p, opening |-> opening, delta |-> asset.pending,
        amount |-> IF asset.method = "straight" THEN straightLine(opening, remaining)
                   ELSE decliningBalance(opening, remaining, asset.life)]

PeriodFree(p) == \A r \in Requests : request[r].period # p

run(r, p) ==
    /\ request[r] = Idle
    /\ PeriodFree(p)
    /\ period[p] # "closed"
    /\ period' = [period EXCEPT ![p] = "open"]
    /\ request' = [request EXCEPT ![r] =
           [period |-> p, listed |-> asset.status \in DEPRECIABLE, seen |-> entries]]
    /\ UNCHANGED <<asset, entries, history>>

\* The asset is locked, loaded and posted; the run commits.
Posts(q) ==
    /\ q.listed /\ asset.status \in DEPRECIABLE
    /\ Of(q.period, q.seen) = {}
    /\ Cardinality(Before(q.period, q.seen)) < asset.life
doRun(r) ==
    LET q == request[r]
        e == Entry(q.period, q.seen)
    IN
    /\ q # Idle
    /\ request' = [request EXCEPT ![r] = Idle]
    /\ IF Posts(q)
       THEN /\ entries' = entries \cup {e}
            /\ asset' = [asset EXCEPT !.pending = 0]
            /\ history' = [history EXCEPT !.due = @ - e.delta,
                   !.skewed = @ \/ entries # q.seen \/ Before(q.period, entries) # entries]
       ELSE UNCHANGED <<asset, entries, history>>
    /\ UNCHANGED period

Abort(r) ==
    /\ request[r] # Idle
    /\ request' = [request EXCEPT ![r] = Idle]
    /\ UNCHANGED <<asset, entries, period, history>>

close(p) ==
    /\ period[p] = "open"
    /\ PeriodFree(p)
    /\ period' = [period EXCEPT ![p] = "closed"]
    /\ history' = [history EXCEPT !.atClose = @ \cup Of(p, entries)]
    /\ UNCHANGED <<asset, entries, request>>

\* Once something is posted, a new cost goes to the next entry as a delta.
adjust(cost, life) ==
    LET delta == IF entries = {} THEN 0 ELSE cost - asset.cost IN
    /\ asset.status # "DISPOSED"
    /\ cost >= Salvage /\ life > Cardinality(entries)
    /\ cost # asset.cost \/ life # asset.life
    /\ asset' = [asset EXCEPT !.cost = cost, !.life = life, !.pending = @ + delta]
    /\ history' = [history EXCEPT !.due = @ + delta]
    /\ UNCHANGED <<entries, period, request>>

transition(to) ==
    /\ to \in ALLOWED[asset.status]
    /\ asset' = [asset EXCEPT !.status = to]
    /\ UNCHANGED <<entries, period, request, history>>

Next ==
    \/ \E r \in Requests, p \in Periods : run(r, p)
    \/ \E r \in Requests : doRun(r) \/ Abort(r)
    \/ \E p \in Periods : close(p)
    \/ \E cost \in Costs, life \in Lives : adjust(cost, life)
    \/ \E to \in DOMAIN ALLOWED : transition(to)

Spec == Init /\ [][Next]_vars
-----------------------------------------------------------------------------
\* Whatever runs, adjustments, transitions and closings meet, a period has one
\* entry, which stays as it was when the period closed, and no adjustment of the
\* cost is lost or booked twice. While periods are run in order and one after
\* the other, the book value goes from entry to entry and is the salvage value
\* when the life ends, unless an adjustment has brought it below
\* (DepreciationService.java:62-118, AdjustmentService.java:38-78). A run that
\* lists its assets before another commits, or of an earlier period than what
\* is posted, takes its opening from entries it does not see.
DepreciationSound ==
    /\ history.due = asset.pending
    /\ \A p \in Periods :
           /\ Cardinality(Of(p, entries)) <= 1
           /\ period[p] = "closed" => Of(p, history.atClose) = Of(p, entries)
    /\ ~history.skewed =>
           /\ Cardinality(entries) <= asset.life
           /\ \A e \in entries :
                  /\ Before(e.period, entries) # {} =>
                         e.opening = Closing(Newest(Before(e.period, entries))) + e.delta
                  /\ e.amount >= 0 /\ (e.opening >= Salvage => Closing(e) >= Salvage)
           /\ Cardinality(entries) = asset.life => Closing(Newest(entries)) <= Salvage
=============================================================================
