------------------------------- MODULE BoardA -------------------------------
(***************************************************************************)
(* The menu board of one store in text20/a (PostgreSQL, READ COMMITTED).   *)
(* Dishes are a catalogue; publishing copies the active ones, with         *)
(* temporary prices, into a version that stays. Sales mark a dish sold out *)
(* for a local day, and a screen polls with the ETag of what it shows. A   *)
(* publish holds the row of the store and a screen reads one snapshot, so  *)
(* both are single steps; a sale and an edit of a dish are several.        *)
(***************************************************************************)
EXTENDS Naturals, Sequences, FiniteSets, FiniteSetsExt

CONSTANTS
    Skus, Prices,
    Limits,         \* of a day, 0 for none
    Windows,        \* temporary prices of a publish: sets of
                    \* [sku, price, from, to], without overlaps
    Sales,          \* events that tills send: [id, sku, qty, at]
    Day,            \* local day of each instant
    Requests,       \* sales and edits in flight at most
    MaxVersion

VARIABLES
    clock,
    dishes,         \* rows of dishes, by sku
    versions,       \* menu_versions with their items and temporary prices
    sales,          \* sales_events, daily_sales and sold_outs
    request,        \* sales and edits in flight
    screen,         \* ETag and menu that the screen keeps
    history         \* menu at the last poll; what was last asked of a dish;
                    \* dishes that a stale edit wrote; dishes whose limit
                    \* changed after a sale

vars == <<clock, dishes, versions, sales, request, screen, history>>

None == [active |-> FALSE, price |-> 0, limit |-> 0, there |-> FALSE]
Dish(active, price, limit) ==
    [active |-> active, price |-> price, limit |-> limit, there |-> TRUE]
Idle == [at |-> "idle"]
LocalDays == {Day[t] : t \in DOMAIN Day}
NoEtag == <<0, 0, {}, {}>>
NoMenu == [version |-> 0, day |-> 0, items |-> {}]

Init ==
    /\ clock = 1
    /\ dishes = [s \in Skus |-> None]
    /\ versions = <<>>
    /\ sales = [events |-> {}, daily |-> [d \in LocalDays, s \in Skus |-> 0], soldOut |-> {}]
    /\ request = [r \in Requests |-> Idle]
    /\ screen = [etag |-> NoEtag, menu |-> NoMenu]
    /\ history = [menu |-> NoMenu, asked |-> [s \in Skus |-> FALSE], stale |-> {},
                  moved |-> {}]

-----------------------------------------------------------------------------
(* Dishes *)
Sold(s) == \/ \E e \in sales.events : e.sku = s
           \/ \E r \in Requests : request[r].at \in {"event", "counted"}
                                  /\ request[r].event.sku = s
Moved(new) == {s \in Skus : Sold(s) /\ [new[s] EXCEPT !.price = 0] # [dishes[s] EXCEPT !.price = 0]}

\* The handler may set the dishes S (createDish, importDishes); a batch is one
\* transaction.
Put(S, active, price, limit) ==
    LET new == [s \in Skus |-> IF s \in S THEN Dish(active, price, limit) ELSE dishes[s]] IN
    /\ dishes' = new
    /\ history' = [history EXCEPT !.asked = [s \in Skus |-> IF s \in S THEN active ELSE @[s]],
                                  !.stale = @ \ S, !.moved = @ \cup Moved(new)]
    /\ UNCHANGED <<clock, versions, sales, request, screen>>

createDish(s, active, price, limit) ==
    /\ ~dishes[s].there
    /\ Put({s}, active, price, limit)

importDishes(S, active, price, limit) == S # {} /\ Put(S, active, price, limit)

\* The edits of the dish in flight will find no row.
deleteDish(s) ==
    LET new == [dishes EXCEPT ![s] = None] IN
    /\ dishes[s].there
    /\ dishes' = new
    /\ request' = [r \in Requests |->
           IF request[r].at = "edit" /\ request[r].sku = s THEN Idle ELSE request[r]]
    /\ history' = [history EXCEPT !.asked[s] = FALSE, !.stale = @ \ {s},
                                  !.moved = @ \cup Moved(new)]
    /\ UNCHANGED <<clock, versions, sales, screen>>

\* updateDish reads the dish ...
GetDish(r, s) ==
    /\ request[r] = Idle
    /\ dishes[s].there
    /\ request' = [request EXCEPT ![r] = [at |-> "edit", sku |-> s, seen |-> dishes[s].active]]
    /\ UNCHANGED <<clock, dishes, versions, sales, screen, history>>

\* ... and writes all of it: what it read, where the client leaves it out.
updateDish(r, given, active, price, limit) ==
    LET q == request[r]
        new == [dishes EXCEPT ![q.sku] = Dish(IF given THEN active ELSE q.seen, price, limit)]
    IN
    /\ q.at = "edit"
    /\ dishes' = new
    /\ request' = [request EXCEPT ![r] = Idle]
    /\ history' = [history EXCEPT
           !.asked[q.sku] = IF given THEN active ELSE @,
           !.stale = IF given THEN @ \ {q.sku}
                     ELSE IF q.seen = dishes[q.sku].active THEN @ ELSE @ \cup {q.sku},
           !.moved = @ \cup Moved(new)]
    /\ UNCHANGED <<clock, versions, sales, screen>>

-----------------------------------------------------------------------------
(* Versions *)
publishMenu(expected, windows) ==
    LET known == {s \in Skus : dishes[s].active} IN
    /\ Len(versions) < MaxVersion
    /\ expected = Len(versions)
    /\ \A w \in windows : w.sku \in known
    /\ versions' = Append(versions,
           [items |-> {[sku |-> s, price |-> dishes[s].price] : s \in known}, temps |-> windows])
    /\ UNCHANGED <<clock, dishes, sales, request, screen, history>>

-----------------------------------------------------------------------------
(* Sales *)
Key(e) == <<Day[e.at], e.sku>>

\* An event that is there already changes nothing, whether it is the same or a
\* conflict; one that another transaction inserts is waited for.
ingestSalesEvent(r, e) ==
    /\ request[r] = Idle
    /\ \A other \in sales.events : other.id # e.id
    /\ \A other \in Requests : request[other].at \in {"event", "counted"} =>
           request[other].event.id # e.id
    /\ request' = [request EXCEPT ![r] = [at |-> "event", event |-> e]]
    /\ UNCHANGED <<clock, dishes, versions, sales, screen, history>>

\* The row of the counter is held to the end; then the limit is read.
IncrementDailySales(r) ==
    LET q == request[r] IN
    /\ q.at = "event"
    /\ \A other \in Requests : request[other].at = "counted" =>
           Key(request[other].event) # Key(q.event)
    /\ LET dish == dishes[q.event.sku]
           qty == sales.daily[Key(q.event)] + q.event.qty
       IN request' = [request EXCEPT ![r] =
              [at |-> "counted", event |-> q.event, qty |-> qty,
               mark |-> dish.active /\ dish.limit > 0 /\ qty >= dish.limit]]
    /\ UNCHANGED <<clock, dishes, versions, sales, screen, history>>

CommitSale(r) ==
    LET q == request[r] IN
    /\ q.at = "counted"
    /\ sales' = [events |-> sales.events \cup {q.event},
                 daily |-> [sales.daily EXCEPT ![Key(q.event)] = q.qty],
                 soldOut |-> sales.soldOut \cup (IF q.mark THEN {Key(q.event)} ELSE {})]
    /\ request' = [request EXCEPT ![r] = Idle]
    /\ UNCHANGED <<clock, dishes, versions, screen, history>>

\* A statement fails, or the client or the server goes away.
Abort(r) ==
    /\ request[r] # Idle
    /\ request' = [request EXCEPT ![r] = Idle]
    /\ UNCHANGED <<clock, dishes, versions, sales, screen, history>>

-----------------------------------------------------------------------------
(* Screens *)
Version == versions[Len(versions)]
SoldOut(now) == {s \in Skus : <<Day[now], s>> \in sales.soldOut}
Active(now) == IF versions = <<>> THEN {}
               ELSE {w \in Version.temps : w.from <= now /\ now < w.to}

menuView(now) ==
    [version |-> Len(versions), day |-> Day[now],
     items |-> IF versions = <<>> THEN {} ELSE
         {[sku |-> i.sku, soldOut |-> i.sku \in SoldOut(now),
           price |-> IF \E w \in Active(now) : w.sku = i.sku
                     THEN (CHOOSE w \in Active(now) : w.sku = i.sku).price ELSE i.price]
          : i \in Version.items}]

computeETag(now) == <<Len(versions), Day[now], Active(now), SoldOut(now)>>

\* 304 leaves the screen with what it shows.
getScreenMenu ==
    /\ screen' = IF screen.etag = computeETag(clock) THEN screen
                 ELSE [etag |-> computeETag(clock), menu |-> menuView(clock)]
    /\ history' = [history EXCEPT !.menu = menuView(clock)]
    /\ UNCHANGED <<clock, dishes, versions, sales, request>>

Tick ==
    /\ clock + 1 \in DOMAIN Day
    /\ clock' = clock + 1
    /\ UNCHANGED <<dishes, versions, sales, request, screen, history>>

Next ==
    \/ \E active \in BOOLEAN, price \in Prices, limit \in Limits :
           \/ \E s \in Skus : createDish(s, active, price, limit)
           \/ \E S \in SUBSET Skus : importDishes(S, active, price, limit)
           \/ \E r \in Requests, given \in BOOLEAN :
                  updateDish(r, given, active, price, limit)
    \/ \E s \in Skus : deleteDish(s) \/ \E r \in Requests : GetDish(r, s)
    \/ \E expected \in 0 .. MaxVersion, windows \in Windows : publishMenu(expected, windows)
    \/ \E r \in Requests :
           \/ \E e \in Sales : ingestSalesEvent(r, e)
           \/ IncrementDailySales(r) \/ CommitSale(r) \/ Abort(r)
    \/ getScreenMenu
    \/ Tick

Spec == Init /\ [][Next]_vars
-----------------------------------------------------------------------------
OfDay(key) == {e \in sales.events : Day[e.at] = key[1] /\ e.sku = key[2]}
Total(events) == MapThenSumSet(LAMBDA e : e.qty, events)

\* However sales, edits, publishes and polls meet: a counter is the sum of the
\* events of its local day, each id once; a dish whose limit stays is sold out
\* from the sale that reaches it, and only on that day; a 304 means that the
\* screen shows what it would be sent; and a dish is active as it was last
\* asked to be, unless an edit that left it out wrote an old value over it
\* (sales.go:37-178, screen.go:52-177, dishes.go:108-151, 185-271).
BoardSound ==
    /\ \A e, f \in sales.events : e.id = f.id => e = f
    /\ \A key \in DOMAIN sales.daily :
           /\ sales.daily[key] = Total(OfDay(key))
           /\ key[2] \notin history.moved =>
                  (key \in sales.soldOut <=>
                       /\ dishes[key[2]].active /\ dishes[key[2]].limit > 0
                       /\ sales.daily[key] > 0 /\ sales.daily[key] >= dishes[key[2]].limit)
    /\ screen.menu = history.menu
    /\ \A i \in screen.menu.items : i.soldOut => <<screen.menu.day, i.sku>> \in sales.soldOut
    /\ \A s \in Skus \ history.stale : dishes[s].active = history.asked[s]
=============================================================================
