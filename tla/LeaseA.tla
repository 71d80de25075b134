------------------------------- MODULE LeaseA -------------------------------
(***************************************************************************)
(* Device sessions of the other CloudGate (text12/a): connect, heartbeat,  *)
(* close, revoke and the reaper. Each is one SERIALIZABLE transaction that *)
(* is retried on a conflict, hence one step; the times that connect and    *)
(* the reaper go by are read before it. The leases of a device have the    *)
(* generations 1, 2, ... in the order of their creation.                   *)
(***************************************************************************)
EXTENDS Naturals, Sequences, FiniteSets

CONSTANTS
    Devices,        \* devices of one tenant
    Points,         \* access points of the tenant
    Hosts,          \* assignable addresses of an access point, in order
    Capacity,       \* AccessPoint.capacity
    Timeout,        \* heartbeat_timeout_seconds
    MaxTime,        \* bound: the clock
    MaxGeneration   \* bound: leases of a device

VARIABLES
    clock,          \* utcnow
    status,         \* Device.status
    leases          \* Lease rows of each device, by generation

vars == <<clock, status, leases>>

Ids == Devices \X (1 .. MaxGeneration)
Exists(id) == id[2] \in DOMAIN leases[id[1]]
Lease(id) == leases[id[1]][id[2]]
Active == {id \in Ids : Exists(id) /\ Lease(id).status = "active"}
At(p) == {id \in Active : Lease(id).point = p}
Free_Alive(p) ==
    Hosts[p] \ {Lease(id).ip : id \in {i \in At(p) : Lease(i).seen + Timeout >= clock}}
Free(p) == Hosts[p] \ {Lease(id).ip : id \in At(p)}

Init ==
    /\ clock = 0
    /\ status = [d \in Devices |-> "active"]
    /\ leases = [d \in Devices |-> <<>>]

\* _terminate_locked: only an active lease ends, and ends once.
Terminated(ids, why) ==
    [d \in Devices |-> [g \in DOMAIN leases[d] |->
        IF <<d, g>> \in ids \cap Active
        THEN [leases[d][g] EXCEPT !.status = why] ELSE leases[d][g]]]

\* _establish_once: a device with an active lease gets that lease back, on
\* whichever access point it is.
Connect(d, p, t) ==
    /\ status[d] = "active"
    /\ \A id \in Active : id[1] # d
    /\ Cardinality(At(p)) < Capacity[p]
    /\ Len(leases[d]) < MaxGeneration
    /\ \E ip \in Free(p) :
           /\ \A other \in Free(p) : ip <= other
           /\ leases' = [leases EXCEPT ![d] = Append(@,
                  [point |-> p, ip |-> ip, status |-> "active", seen |-> t])]
    /\ UNCHANGED <<clock, status>>

\* A heartbeat of an ended lease is refused; one of an ended generation names
\* a lease that has ended.
Beats_AnyStatus(id) == Exists(id)
Beats(id) == id \in Active
Heartbeat(d, g) ==
    /\ Beats(<<d, g>>)
    /\ leases' = [leases EXCEPT ![d][g].status = "active", ![d][g].seen = clock]
    /\ UNCHANGED <<clock, status>>

Close(d, g) ==
    /\ leases' = Terminated({<<d, g>>}, "closed")
    /\ UNCHANGED <<clock, status>>

Revoke(d) ==
    /\ status' = [status EXCEPT ![d] = "revoked"]
    /\ leases' = Terminated({id \in Ids : id[1] = d}, "revoked")
    /\ UNCHANGED clock

\* The reaper skips the rows that other transactions have locked.
Reap(t, ids) ==
    /\ \A id \in ids : Lease(id).seen + Timeout < t
    /\ leases' = Terminated(ids, "expired")
    /\ UNCHANGED <<clock, status>>

Tick == clock < MaxTime /\ clock' = clock + 1 /\ UNCHANGED <<status, leases>>

Next ==
    \/ \E d \in Devices, p \in Points, t \in 0 .. clock : Connect(d, p, t)
    \/ \E d \in Devices, g \in 1 .. MaxGeneration : Heartbeat(d, g) \/ Close(d, g)
    \/ \E d \in Devices : Revoke(d)
    \/ \E t \in 0 .. clock, ids \in SUBSET Active : Reap(t, ids)
    \/ Tick

Spec == Init /\ [][Next]_vars
-----------------------------------------------------------------------------
\* The grants and generations that the lease rows stand for
held == {[holder |-> id[1], place |-> <<Lease(id).point, Lease(id).ip>>,
          generation |-> id[2]] : id \in Active}
issued == {[holder |-> id[1], generation |-> id[2]] : id \in {i \in Ids : Exists(i)}}

\* A device's active lease is its newest, revoked devices have none, and access
\* points stay within their capacity, whatever heartbeat, reaper or connect
\* comes late (lease_service.py:168-408).
LeaseSound ==
    /\ \A id \in Active : id[2] = Len(leases[id[1]]) /\ status[id[1]] = "active"
    /\ \A p \in Points : Cardinality(At(p)) <= Capacity[p]
=============================================================================
