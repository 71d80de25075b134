------------------------------ MODULE LedgerA ------------------------------
(***************************************************************************)
(* The ledger of text10/a: fiscal periods, journal entries, and one budget *)
(* with its encumbrances. Posting holds the lock of the period row, then   *)
(* of the encumbrance and of the budget; unique constraints decide what is *)
(* checked before a lock, hence one step each. An entry is what it comes   *)
(* to on the account of the budget; only balanced entries get that far.    *)
(***************************************************************************)
EXTENDS Integers, Sequences, FiniteSets, FiniteSetsExt

CONSTANTS
    Year,           \* FiscalPeriod.year of each period; the budget is for year 1
    Keys,           \* idempotency_key, chosen by the client
    Amounts,        \* amounts in cents
    BudgetAmount,   \* Budget.amount_cents
    MaxEntries,     \* bound: journal entries
    MaxEncumbrances,\* bound: encumbrances
    MaxBatch        \* bound: vouchers of a CSV file

VARIABLES
    open,           \* FiscalPeriod.status = "open"
    entries,        \* JournalEntry rows
    budget,         \* the Budget row; amount 0: not created yet
    encumbrances,   \* Encumbrance rows
    closing         \* history: entries of a period when it was last closed

vars == <<open, entries, budget, encumbrances, closing>>

Periods == DOMAIN Year
Of(es, p) == {i \in DOMAIN es : es[i].payload.period = p}

Init ==
    /\ open = [p \in Periods |-> TRUE]
    /\ entries = <<>>
    /\ budget = [amount |-> 0, encumbered |-> 0, actual |-> 0]
    /\ encumbrances = <<>>
    /\ closing = [p \in Periods |-> {}]

\* JournalCreate, with the encumbrance that it liquidates, if any
Payloads == [key : Keys, period : Periods, delta : Amounts \cup {-a : a \in Amounts},
             encumbrance : 0 .. Len(encumbrances), reverses : {0}]
Books == [entries |-> entries, budget |-> budget, encumbrances |-> encumbrances]

Available(b) == b.amount - b.encumbered - b.actual

\* _apply_budget_effects: the budget counts entries of its year since it exists.
Effect(b, payload) ==
    IF b.amount = 0 \/ Year[payload.period] # 1 THEN 0 ELSE payload.delta
Released(bs, e) == IF e = 0 THEN 0 ELSE bs.encumbrances[e].amount
Charged(bs, payload) ==
    [bs.budget EXCEPT !.actual = @ + Effect(bs.budget, payload),
                      !.encumbered = @ - Released(bs, payload.encumbrance)]

Replays(bs, payload) == \E i \in DOMAIN bs.entries : bs.entries[i].payload = payload

\* The checks of post_journal and the constraints of the tables
Liquidates(bs, payload) ==
    payload.encumbrance # 0 =>
        /\ bs.encumbrances[payload.encumbrance].status = "open"
        /\ Effect(bs.budget, payload) = bs.encumbrances[payload.encumbrance].amount
Accepts(bs, payload) ==
    \/ Replays(bs, payload)
    \/ /\ \A i \in DOMAIN bs.entries : bs.entries[i].payload.key # payload.key
       /\ \A i \in DOMAIN bs.entries : payload.reverses # 0 =>
              bs.entries[i].payload.reverses # payload.reverses
       /\ open[payload.period]
       /\ Liquidates(bs, payload)
       /\ LET b == Charged(bs, payload)
          IN  b.encumbered >= 0 /\ b.actual >= 0 /\ Available(b) >= 0

Posted(bs, payload) ==
    IF Replays(bs, payload) THEN bs ELSE
    [entries |-> Append(bs.entries,
         [payload |-> payload, charged |-> Effect(bs.budget, payload)]),
     budget |-> Charged(bs, payload),
     encumbrances |-> [e \in DOMAIN bs.encumbrances |->
         IF e = payload.encumbrance
         THEN [bs.encumbrances[e] EXCEPT !.status = "liquidated"]
         ELSE bs.encumbrances[e]]]

\* post_journal, or all vouchers of a CSV file
Post(batch) ==
    LET after[n \in 0 .. Len(batch)] ==
            IF n = 0 THEN Books ELSE Posted(after[n - 1], batch[n])
        books == after[Len(batch)]
    IN  /\ \A n \in DOMAIN batch : Accepts(after[n - 1], batch[n])
        /\ Len(books.entries) <= MaxEntries
        /\ entries' = books.entries
        /\ budget' = books.budget
        /\ encumbrances' = books.encumbrances
        /\ UNCHANGED <<open, closing>>

Reverse(i, key, p) ==
    Post(<<[key |-> key, period |-> p, delta |-> -entries[i].payload.delta,
            encumbrance |-> 0, reverses |-> i]>>)

-----------------------------------------------------------------------------
Close(p) ==
    /\ open[p]
    /\ open' = [open EXCEPT ![p] = FALSE]
    /\ closing' = [closing EXCEPT ![p] = Of(entries, p)]
    /\ UNCHANGED <<entries, budget, encumbrances>>

Reopen(p) ==
    /\ ~open[p]
    /\ open' = [open EXCEPT ![p] = TRUE]
    /\ UNCHANGED <<entries, budget, encumbrances, closing>>

CreateBudget ==
    /\ budget.amount = 0
    /\ budget' = [budget EXCEPT !.amount = BudgetAmount]
    /\ UNCHANGED <<open, entries, encumbrances, closing>>

ApproveEncumbrance(a) ==
    /\ budget.amount # 0 /\ Available(budget) >= a
    /\ Len(encumbrances) < MaxEncumbrances
    /\ budget' = [budget EXCEPT !.encumbered = @ + a]
    /\ encumbrances' = Append(encumbrances, [amount |-> a, status |-> "open"])
    /\ UNCHANGED <<open, entries, closing>>

CancelEncumbrance(e) ==
    /\ encumbrances[e].status = "open"
    /\ budget' = [budget EXCEPT !.encumbered = @ - encumbrances[e].amount]
    /\ encumbrances' = [encumbrances EXCEPT ![e].status = "cancelled"]
    /\ UNCHANGED <<open, entries, closing>>

Next ==
    \/ \E n \in 1 .. MaxBatch : \E batch \in [1 .. n -> Payloads] :
           /\ n > 1 => \A m \in 1 .. n : /\ batch[m].encumbrance = 0
                                         /\ batch[m].period = batch[1].period
           /\ Post(batch)
    \/ \E i \in DOMAIN entries, key \in Keys, p \in Periods : Reverse(i, key, p)
    \/ \E p \in Periods : Close(p) \/ Reopen(p)
    \/ CreateBudget
    \/ \E a \in Amounts : ApproveEncumbrance(a)
    \/ \E e \in DOMAIN encumbrances : CancelEncumbrance(e)

Spec == Init /\ [][Next]_vars
-----------------------------------------------------------------------------
\* The budget agrees with what stands behind it, the open encumbrances and the
\* entries charged to it, and is not overspent. An encumbrance is liquidated by
\* one entry, an entry is reversed by one, and a closed period keeps the entries
\* it was closed with (journals.py:25-282, budgets.py:8-81, periods.py:7-41).
LedgerSound ==
    /\ budget.encumbered = MapThenSumSet(LAMBDA e : encumbrances[e].amount,
           {e \in DOMAIN encumbrances : encumbrances[e].status = "open"})
    /\ budget.actual = MapThenSumSet(LAMBDA i : entries[i].charged, DOMAIN entries)
    /\ budget.actual >= 0 /\ Available(budget) >= 0
    /\ \A i, j \in DOMAIN entries : i # j =>
           /\ entries[i].payload.key # entries[j].payload.key
           /\ entries[i].payload.reverses \in {0} \cup 1 .. i - 1
           /\ entries[i].payload.reverses = entries[j].payload.reverses =>
                  entries[i].payload.reverses = 0
    /\ \A e \in DOMAIN encumbrances :
           Cardinality({i \in DOMAIN entries : entries[i].payload.encumbrance = e}) =
               (IF encumbrances[e].status = "liquidated" THEN 1 ELSE 0)
    /\ \A p \in Periods : ~open[p] => Of(entries, p) = closing[p]
=============================================================================
