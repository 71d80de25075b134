------------------------------- MODULE BoardB -------------------------------
(***************************************************************************)
(* The menu board of one store in text20/b (PostgreSQL, READ COMMITTED).   *)
(* A draft lists dishes; publishing copies it into a version, to which     *)
(* temporary prices are attached then or later. Publishing and scheduling  *)
(* hold the row of the store, publishing and the change of a draft the row *)
(* of the draft, so that each is a single step. A sale is several.         *)
(***************************************************************************)
EXTENDS Naturals, Sequences, FiniteSets, FiniteSetsExt, SequencesExt

CONSTANTS
    Dishes, Prices, Thresholds,
    Drafts,         \* sequences of [dish, price], price 0 to follow the dish
    Windows,        \* temporary prices of a request: sets of
                    \* [dish, price, from, to]
    Sales,          \* events that tills send: [id, dish, qty, at]
    Day,            \* local day of each instant
    Requests,       \* sales in flight at most
    MaxVersion

VARIABLES
    dishes,         \* rows of dishes with their sellout_thresholds, 0 for none
    draft,          \* draft_items, by position
    versions,       \* menu_versions with their items and temp_prices
    sales,          \* sales_events and daily_sales
    request,        \* sales in flight
    history         \* versions when they were superseded; dishes whose threshold
                    \* changed after a sale

vars == <<dishes, draft, versions, sales, request, history>>

Idle == [at |-> "idle"]
LocalDays == {Day[t] : t \in DOMAIN Day}

Init ==
    /\ \E p \in Prices : dishes = [d \in Dishes |-> [active |-> TRUE, price |-> p, threshold |-> 0]]
    /\ draft = <<>>
    /\ versions = <<>>
    /\ sales = [events |-> {}, qty |-> [l \in LocalDays, d \in Dishes |-> 0], soldOut |-> {}]
    /\ request = [r \in Requests |-> Idle]
    /\ history = [superseded |-> <<>>, moved |-> {}]

-----------------------------------------------------------------------------
(* Dishes and the draft *)
Sold(d) == \/ \E e \in sales.events : e.dish = d
           \/ \E r \in Requests : request[r] # Idle /\ request[r].event.dish = d

SetDishPrice(d, price) ==
    /\ dishes' = [dishes EXCEPT ![d].price = price]
    /\ UNCHANGED <<draft, versions, sales, request, history>>

SetDishActive(d, active) ==
    /\ dishes' = [dishes EXCEPT ![d].active = active]
    /\ UNCHANGED <<draft, versions, sales, request, history>>

SetThreshold(d, threshold) ==
    /\ dishes' = [dishes EXCEPT ![d].threshold = threshold]
    /\ history' = [history EXCEPT !.moved = IF Sold(d) THEN @ \cup {d} ELSE @]
    /\ UNCHANGED <<draft, versions, sales, request>>

\* Every item is accepted or none.
ReplaceDraft(items) ==
    /\ \A i, k \in DOMAIN items : items[i].dish = items[k].dish => i = k
    /\ \A i \in DOMAIN items : dishes[items[i].dish].active
    /\ draft' = items
    /\ UNCHANGED <<dishes, versions, sales, request, history>>

-----------------------------------------------------------------------------
(* Versions *)
DishesOf(items) == {items[i].dish : i \in DOMAIN items}
Overlap(w, x) == w.dish = x.dish /\ w.from < x.to /\ x.from < w.to
validateTempWindows(windows) ==
    /\ \A w \in windows : w.from < w.to
    /\ \A w, x \in windows : Overlap(w, x) => w = x

\* A dish that has been deactivated stays in the draft, and is published.
Publish(expected, windows) ==
    /\ Len(versions) < MaxVersion
    /\ validateTempWindows(windows)
    /\ expected = Len(versions)
    /\ draft # <<>>
    /\ \A w \in windows : w.dish \in DishesOf(draft)
    /\ versions' = Append(versions,
           [items |-> [i \in DOMAIN draft |-> [draft[i] EXCEPT !.price =
                IF @ = 0 THEN dishes[draft[i].dish].price ELSE @]],
            temps |-> windows])
    /\ history' = [history EXCEPT !.superseded =
           IF versions = <<>> THEN @ ELSE Append(@, Last(versions))]
    /\ UNCHANGED <<dishes, draft, sales, request>>

\* The prices of the latest version are replaced.
ScheduleTempPrices(windows) ==
    /\ validateTempWindows(windows)
    /\ versions # <<>>
    /\ \A w \in windows : w.dish \in DishesOf(Last(versions).items)
    /\ versions' = [versions EXCEPT ![Len(versions)].temps = windows]
    /\ UNCHANGED <<dishes, draft, sales, request, history>>

-----------------------------------------------------------------------------
(* Sales *)
Key(e) == <<Day[e.at], e.dish>>

\* An event that is there is a duplicate or a conflict, and changes nothing.
GetSalesEvent(r, e) ==
    /\ request[r] = Idle
    /\ \A other \in sales.events : other.id # e.id
    /\ request' = [request EXCEPT ![r] = [at |-> "new", event |-> e]]
    /\ UNCHANGED <<dishes, draft, versions, sales, history>>

\* The insert waits for that of another transaction. If the event is there
\* now, the statement that reads it again finds the transaction aborted: the
\* request is refused, whether the event is the same or not.
InsertSalesEvent(r) ==
    LET e == request[r].event IN
    /\ request[r].at = "new"
    /\ \A other \in Requests : request[other].at \in {"event", "counted"} =>
           request[other].event.id # e.id
    /\ request' = [request EXCEPT ![r] =
           IF \E other \in sales.events : other.id = e.id THEN Idle
           ELSE [at |-> "event", event |-> e]]
    /\ UNCHANGED <<dishes, draft, versions, sales, history>>

\* The row of the counter is held to the end; then the threshold is read.
UpsertDailySales(r) ==
    LET e == request[r].event
        qty == sales.qty[Key(e)] + e.qty
        threshold == dishes[e.dish].threshold
    IN
    /\ request[r].at = "event"
    /\ \A other \in Requests : request[other].at = "counted" => Key(request[other].event) # Key(e)
    /\ request' = [request EXCEPT ![r] = [at |-> "counted", event |-> e, qty |-> qty,
           mark |-> threshold > 0 /\ qty >= threshold]]
    /\ UNCHANGED <<dishes, draft, versions, sales, history>>

CommitSale(r) ==
    LET q == request[r] IN
    /\ q.at = "counted"
    /\ sales' = [events |-> sales.events \cup {q.event},
                 qty |-> [sales.qty EXCEPT ![Key(q.event)] = q.qty],
                 soldOut |-> sales.soldOut \cup (IF q.mark THEN {Key(q.event)} ELSE {})]
    /\ request' = [request EXCEPT ![r] = Idle]
    /\ UNCHANGED <<dishes, draft, versions, history>>

\* A statement fails, or the client or the server goes away.
Abort(r) ==
    /\ request[r] # Idle
    /\ request' = [request EXCEPT ![r] = Idle]
    /\ UNCHANGED <<dishes, draft, versions, sales, history>>

Next ==
    \/ \E d \in Dishes :
           \/ \E price \in Prices : SetDishPrice(d, price)
           \/ \E active \in BOOLEAN : SetDishActive(d, active)
           \/ \E threshold \in Thresholds : SetThreshold(d, threshold)
    \/ \E items \in Drafts : ReplaceDraft(items)
    \/ \E windows \in Windows :
           \/ \E expected \in 0 .. MaxVersion : Publish(expected, windows)
           \/ ScheduleTempPrices(windows)
    \/ \E r \in Requests :
           \/ \E e \in Sales : GetSalesEvent(r, e)
           \/ InsertSalesEvent(r) \/ UpsertDailySales(r) \/ CommitSale(r) \/ Abort(r)

Spec == Init /\ [][Next]_vars
-----------------------------------------------------------------------------
\* What GetScreenMenu answers to a request that came at that time; the ETag is
\* a digest of it.
Active(now) == {w \in Last(versions).temps : w.from <= now /\ now < w.to}
GetScreenMenu(now) ==
    {[dish |-> i.dish, soldOut |-> <<Day[now], i.dish>> \in sales.soldOut,
      price |-> IF \E w \in Active(now) : w.dish = i.dish
                THEN (CHOOSE w \in Active(now) : w.dish = i.dish).price ELSE i.price]
     : i \in ToSet(Last(versions).items)}

\* However sales meet: a counter is the sum of the events of its local day,
\* each id once, and a dish whose threshold stays is sold out from the sale
\* that reaches it. What is published, a version has one line and at any time
\* at most one temporary price for a dish, its screens show each dish once, and
\* a version stays as it was when the next one is published
\* (sales.go:44-168, publish.go:101-327, screens.go:123-189).
BoardSound ==
    /\ \A e, f \in sales.events : e.id = f.id => e = f
    /\ \A key \in DOMAIN sales.qty :
           /\ sales.qty[key] =
                  MapThenSumSet(LAMBDA e : e.qty, {e \in sales.events :
                         Day[e.at] = key[1] /\ e.dish = key[2]})
           /\ key[2] \notin history.moved =>
                  (key \in sales.soldOut <=>
                       /\ dishes[key[2]].threshold > 0
                       /\ sales.qty[key] > 0 /\ sales.qty[key] >= dishes[key[2]].threshold)
    /\ \A i \in DOMAIN history.superseded : versions[i] = history.superseded[i]
    /\ versions # <<>> =>
           \A now \in DOMAIN Day :
               /\ \A d \in Dishes : Cardinality({w \in Active(now) : w.dish = d}) <= 1
               /\ Cardinality(GetScreenMenu(now)) = Len(Last(versions).items)
               /\ \A line \in GetScreenMenu(now) : line.soldOut =>
                      \/ line.dish \in history.moved
                      \/ sales.qty[<<Day[now], line.dish>>] >= dishes[line.dish].threshold
=============================================================================
