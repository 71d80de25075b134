--------------------------- MODULE DepreciationA ---------------------------
(***************************************************************************)
(* Depreciation of one asset in text7/a (MySQL, REPEATABLE READ). A run or *)
(* an adjustment holds the lock of the asset; what it reads without a lock *)
(* it reads as of its first such read, before it waits for the mutex of a  *)
(* period. Periods are 1, 2, ..., from the first that depreciates;         *)
(* amounts are in units of the book scale. Of the status only the month of *)
(* retirement matters; a replayed request id changes nothing.              *)
(***************************************************************************)
EXTENDS Integers, Sequences

CONSTANTS
    Cost, Salvage, Life,    \* of the asset when it is created
    Cent,                   \* units of the posting scale
    Decline,                \* reciprocal of the monthly rate of DECLINING_BALANCE
    Lives, Salvages,        \* parameters that adjustments set
    MaxMonth,               \* bound: the calendar
    MaxAdjustments          \* bound: parameter_adjustment rows

VARIABLES
    month,          \* the current period
    entries,        \* depreciation_entry by period
    segments,       \* the asset's parameters, then those of each adjustment
    stop,           \* period of retirement or disposal, 0 if none
    closes,         \* period_close
    request,        \* the run or adjustment that holds the asset; closings
    history         \* entries at the close of a period; periods posted by a
                    \* run that could not see their close

vars == <<month, entries, segments, stop, closes, request, history>>

Periods == 1 .. MaxMonth
Idle == [kind |-> "idle", to |-> 0, seen |-> {}, posted |-> <<>>, blind |-> {}]

Init ==
    /\ month = 1
    /\ entries = <<>>
    /\ \E m \in {"straight", "declining"} :
           segments = <<[start |-> 1, months |-> Life, base |-> Cost,
                         salvage |-> Salvage, method |-> m]>>
    /\ stop = 0
    /\ closes = {}
    /\ request = [asset |-> Idle, closing |-> {}]
    /\ history = [atClose |-> [p \in Periods |-> FALSE], blind |-> {}]

-----------------------------------------------------------------------------
\* HALF_UP to the posting scale
Money(x, parts) == ((2 * x + Cent * parts) \div (2 * Cent * parts)) * Cent

Segment(p) == segments[CHOOSE i \in DOMAIN segments :
    segments[i].start <= p /\ \A j \in DOMAIN segments : j > i => segments[j].start > p]
Closing(e) == e.opening - e.amount

\* DepreciationCalculator.calculate
Amount(s, p, opening) ==
    LET headroom == opening - s.salvage
        regular == IF s.method = "straight" THEN Money(s.base - s.salvage, s.months)
                   ELSE Money(opening, Decline)
    IN IF headroom <= 0 THEN 0
       ELSE IF p - s.start + 1 >= s.months \/ regular > headroom THEN Money(headroom, 1)
       ELSE regular

computeEntry(p, before) ==
    LET s == Segment(p)
        opening == IF p = s.start THEN s.base ELSE Closing(before[p - 1])
    IN [opening |-> opening, amount |-> Amount(s, p, opening)]

FinalPeriod == segments[Len(segments)].start + segments[Len(segments)].months - 1

-----------------------------------------------------------------------------
Frozen(p, seen) == \E c \in seen : c >= p
Posted == entries \o request.asset.posted
NextPeriod == Len(Posted) + 1
\* period_mutex: a closing holds it to its commit, a run holds those it posted
MutexFree(p) ==
    /\ p \notin Len(entries) + 1 .. Len(Posted)
    /\ \A c \in request.closing : c.period # p

\* The asset's lock, and the first read without a lock
Begin(kind, to) ==
    /\ request.asset = Idle
    /\ request' = [request EXCEPT !.asset =
           [Idle EXCEPT !.kind = kind, !.to = to, !.seen = closes]]
    /\ UNCHANGED <<month, entries, segments, stop, closes, history>>

\* A period that has its entry is skipped; any refusal rolls the run back.
OutOfRange(p) == p > month \/ p > FinalPeriod \/ (stop # 0 /\ p > stop)

runDepreciation ==
    LET p == NextPeriod IN
    /\ request.asset.kind = "run" /\ p <= request.asset.to
    /\ OutOfRange(p) \/ MutexFree(p)
    /\ request' = [request EXCEPT !.asset =
           IF OutOfRange(p) \/ Frozen(p, request.asset.seen) THEN Idle
           ELSE [@ EXCEPT !.posted = Append(@, computeEntry(p, Posted)),
                          !.blind = @ \cup ({p} \cap (closes \ request.asset.seen))]]
    /\ UNCHANGED <<month, entries, segments, stop, closes, history>>

CommitRun ==
    /\ request.asset.kind = "run" /\ NextPeriod > request.asset.to
    /\ entries' = Posted
    /\ history' = [history EXCEPT !.blind = @ \cup request.asset.blind]
    /\ request' = [request EXCEPT !.asset = Idle]
    /\ UNCHANGED <<month, segments, stop, closes>>

\* The next period starts a new segment from the book value.
adjust(life, salvage) ==
    LET p == NextPeriod
        book == IF entries = <<>> THEN segments[1].base ELSE Closing(entries[Len(entries)])
    IN
    /\ request.asset.kind = "adjust"
    /\ Len(segments) <= MaxAdjustments
    /\ MutexFree(p)
    /\ segments' =
           IF stop # 0 \/ Frozen(p, request.asset.seen) \/ life <= Len(entries) \/ salvage > book
           THEN segments
           ELSE Append(segments, [start |-> p, months |-> life - Len(entries), base |-> book,
                                  salvage |-> salvage, method |-> segments[1].method])
    /\ request' = [request EXCEPT !.asset = Idle]
    /\ UNCHANGED <<month, entries, stop, closes, history>>

Abort ==
    /\ request.asset # Idle
    /\ request' = [request EXCEPT !.asset = Idle]
    /\ UNCHANGED <<month, entries, segments, stop, closes, history>>

Retire ==
    /\ request.asset = Idle /\ stop = 0
    /\ stop' = month
    /\ UNCHANGED <<month, entries, segments, closes, request, history>>

\* The mutex, and what is read then
BeginClose(p) ==
    /\ p <= month
    /\ MutexFree(p)
    /\ request' = [request EXCEPT !.closing = @ \cup {[period |-> p, seen |-> closes]}]
    /\ UNCHANGED <<month, entries, segments, stop, closes, history>>

close(c) ==
    LET p == c.period
        refused == p \in c.seen \/ (c.seen # {} /\ p - 1 \notin c.seen)
    IN
    /\ request' = [request EXCEPT !.closing = @ \ {c}]
    /\ IF refused THEN UNCHANGED <<closes, history>>
       ELSE /\ closes' = closes \cup {p}
            /\ history' = [history EXCEPT !.atClose[p] = p <= Len(entries)]
    /\ UNCHANGED <<month, entries, segments, stop>>

NewMonth ==
    /\ month < MaxMonth
    /\ month' = month + 1
    /\ UNCHANGED <<entries, segments, stop, closes, request, history>>

Next ==
    \/ \E to \in Periods : to > Len(entries) /\ Begin("run", to)
    \/ Begin("adjust", 0)
    \/ runDepreciation
    \/ CommitRun
    \/ \E life \in Lives, salvage \in Salvages : adjust(life, salvage)
    \/ Abort
    \/ Retire
    \/ \E p \in Periods : BeginClose(p)
    \/ \E c \in request.closing : close(c)
    \/ NewMonth

Spec == Init /\ [][Next]_vars
-----------------------------------------------------------------------------
\* Runs, adjustments, retirement and closings at once leave a closed period with
\* the entries it had - but for a run that could not see the close
\* (DepreciationService.java:149-154) - and the book value falls from entry to
\* entry to the salvage value in the last period, to half a cent
\* (DepreciationCalculator.java:66-89); nothing is posted after retirement.
DepreciationSound ==
    /\ \A p \in closes \ history.blind : history.atClose[p] = (p <= Len(entries))
    /\ \A p \in DOMAIN entries :
           /\ p > 1 => entries[p].opening = Closing(entries[p - 1])
           /\ entries[p].amount >= 0
           /\ 2 * Closing(entries[p]) >= 2 * Segment(p).salvage - Cent
           /\ p <= FinalPeriod
           /\ p = FinalPeriod => 2 * Closing(entries[p]) <= 2 * Segment(p).salvage + Cent
           /\ stop # 0 => p <= stop
=============================================================================
