------------------------------ MODULE LedgerB ------------------------------
(***************************************************************************)
(* The ledger of text10/b: fiscal periods, journal entries, and a budget   *)
(* with its expenditure requests. A posting locks the row of its period,   *)
(* an import those of its vouchers in the order of the file, each before   *)
(* it reads the status; all are held to the commit. The lines of an entry, *)
(* balanced if validate_lines lets them through, are left out.             *)
(***************************************************************************)
EXTENDS Integers, Sequences, FiniteSets, FiniteSetsExt

CONSTANTS
    Periods,        \* Period rows
    Keys,           \* Idempotency-Key headers, positive
    Clients,        \* requests that may be in flight
    Amounts,        \* amounts of expenditure requests
    BudgetAmount,   \* Budget.amount_cents
    MaxEntries,     \* bound: journal entries
    MaxRequests,    \* bound: expenditure requests
    MaxBatch        \* bound: vouchers of a CSV file

VARIABLES
    open,           \* Period.status = "open"
    entries,        \* JournalEntry rows; key 0: none, reverses 0: no reversal
    posting,        \* transactions: the entries to insert, the periods locked
    budget,         \* encumbered_cents and actual_cents of the Budget row
    requests,       \* ExpenditureRequest rows
    closing         \* history: entries of a period when it was last closed

vars == <<open, entries, posting, budget, requests, closing>>

Idle == [batch |-> <<>>, locked |-> {}]
Of(p) == {i \in DOMAIN entries : entries[i].period = p}

Init ==
    /\ open = [p \in Periods |-> TRUE]
    /\ entries = <<>>
    /\ posting = [c \in Clients |-> Idle]
    /\ budget = [encumbered |-> 0, actual |-> 0]
    /\ requests = <<>>
    /\ closing = [p \in Periods |-> {}]

-----------------------------------------------------------------------------
Posts == [key : Keys, period : Periods, reverses : {0}]
Imports == [key : {0}, period : Periods, reverses : {0}]
Reversals == [key : {0}, period : Periods, reverses : DOMAIN entries]

\* post_journal and reverse_journal send one entry, import_csv several
Send(c, batch) ==
    /\ posting[c] = Idle
    /\ Len(entries) < MaxEntries
    /\ posting' = [posting EXCEPT ![c].batch = batch]
    /\ UNCHANGED <<open, entries, budget, requests, closing>>

Locked(p) == \E c \in Clients : p \in posting[c].locked
Unlocked(c) ==
    {n \in DOMAIN posting[c].batch : posting[c].batch[n].period \notin posting[c].locked}
NextPeriod(c) == posting[c].batch[Min(Unlocked(c))].period

\* _lock_open_period: a closed period refuses the whole request, also the
\* retry of one that is posted.
LockOpenPeriod(c) ==
    /\ Unlocked(c) # {}
    /\ LET p == NextPeriod(c)
       IN  /\ ~Locked(p)
           /\ posting' = IF open[p] THEN [posting EXCEPT ![c].locked = @ \cup {p}]
                                    ELSE [posting EXCEPT ![c] = Idle]
    /\ UNCHANGED <<open, entries, budget, requests, closing>>

\* Two imports that wait for each other: the database ends one.
Deadlock(c) ==
    /\ Unlocked(c) # {}
    /\ \E d \in Clients \ {c} :
           /\ NextPeriod(c) \in posting[d].locked
           /\ Unlocked(d) # {} /\ NextPeriod(d) \in posting[c].locked
    /\ posting' = [posting EXCEPT ![c] = Idle]
    /\ UNCHANGED <<open, entries, budget, requests, closing>>

\* The checks before the insert, and the unique columns that repeat them
Insertable(e) ==
    \A i \in DOMAIN entries :
        /\ e.key # 0 => entries[i].key # e.key
        /\ e.reverses # 0 => entries[i].reverses # e.reverses

\* A used key is a replay or a conflict: neither adds an entry.
Commit(c) ==
    /\ posting[c].batch # <<>> /\ Unlocked(c) = {}
    /\ entries' = IF \A n \in DOMAIN posting[c].batch : Insertable(posting[c].batch[n])
                  THEN entries \o posting[c].batch ELSE entries
    /\ posting' = [posting EXCEPT ![c] = Idle]
    /\ UNCHANGED <<open, budget, requests, closing>>

-----------------------------------------------------------------------------
ClosePeriod(p) ==
    /\ open[p] /\ ~Locked(p)
    /\ open' = [open EXCEPT ![p] = FALSE]
    /\ closing' = [closing EXCEPT ![p] = Of(p)]
    /\ UNCHANGED <<entries, posting, budget, requests>>

ReopenPeriod(p) ==
    /\ ~open[p] /\ ~Locked(p)
    /\ open' = [open EXCEPT ![p] = TRUE]
    /\ UNCHANGED <<entries, posting, budget, requests, closing>>

-----------------------------------------------------------------------------
\* Expenditure requests lock their row, then the budget: one step each.
CreateRequest(a) ==
    /\ Len(requests) < MaxRequests
    /\ requests' = Append(requests, [amount |-> a, status |-> "pending"])
    /\ UNCHANGED <<open, entries, posting, budget, closing>>

\* The encumbered and the actual amount change, and the status, of request r
Move(r, status, encumbered, actual) ==
    /\ requests' = [requests EXCEPT ![r].status = status]
    /\ budget' = [encumbered |-> budget.encumbered + encumbered,
                  actual |-> budget.actual + actual]
    /\ UNCHANGED <<open, entries, posting, closing>>

Available == BudgetAmount - budget.encumbered - budget.actual

ApproveRequest(r) ==
    /\ requests[r].status = "pending" /\ Available >= requests[r].amount
    /\ Move(r, "approved", requests[r].amount, 0)

PostRequest(r) ==
    /\ requests[r].status = "approved"
    /\ Move(r, "posted", -requests[r].amount, requests[r].amount)

CancelRequest(r) ==
    /\ requests[r].status \in {"pending", "approved"}
    /\ Move(r, "cancelled",
            IF requests[r].status = "approved" THEN -requests[r].amount ELSE 0, 0)

Next ==
    \/ \E c \in Clients :
           \/ \E e \in Posts \cup Reversals : Send(c, <<e>>)
           \/ \E n \in 1 .. MaxBatch : \E batch \in [1 .. n -> Imports] : Send(c, batch)
           \/ LockOpenPeriod(c) \/ Deadlock(c) \/ Commit(c)
    \/ \E p \in Periods : ClosePeriod(p) \/ ReopenPeriod(p)
    \/ \E a \in Amounts : CreateRequest(a)
    \/ \E r \in DOMAIN requests : ApproveRequest(r) \/ PostRequest(r) \/ CancelRequest(r)

Spec == Init /\ [][Next]_vars
-----------------------------------------------------------------------------
Total(status) == MapThenSumSet(LAMBDA r : requests[r].amount,
                     {r \in DOMAIN requests : requests[r].status = status})

\* A key names one entry, an entry is reversed once and after it was posted, a
\* closed period keeps the entries it was closed with although postings were in
\* flight, and the budget agrees with the requests and is not overspent
\* (posting.py:98-235, importer.py:28-115, periods.py:22-42, budget.py:37-102).
LedgerSound ==
    /\ \A i, j \in DOMAIN entries : i # j =>
           /\ entries[i].key = entries[j].key => entries[i].key = 0
           /\ entries[i].reverses = entries[j].reverses => entries[i].reverses = 0
    /\ \A i \in DOMAIN entries : entries[i].reverses < i
    /\ \A p \in Periods : ~open[p] => Of(p) = closing[p]
    /\ budget = [encumbered |-> Total("approved"), actual |-> Total("posted")]
    /\ Available >= 0
=============================================================================
