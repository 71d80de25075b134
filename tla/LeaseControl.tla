---------------------------- MODULE LeaseControl ----------------------------
(***************************************************************************)
(* The lease control plane of CloudGate (text12/b): devices connect to     *)
(* VPN access points and hold an address of a pool while they send         *)
(* heartbeats; administrators revoke, reinstate and re-issue credentials;  *)
(* a sweeper releases the leases whose heartbeats have stopped.            *)
(*                                                                         *)
(* Every operation is one PostgreSQL transaction at READ COMMITTED. Its    *)
(* writes appear at its commit, so the model writes the tables in the      *)
(* committing step only; the steps before it load rows and take the row    *)
(* locks (SELECT ... FOR UPDATE) that make other transactions wait. The    *)
(* device row is loaded when the request is authenticated (deps.py:67) or  *)
(* its owner is checked (tenant.py:151), BEFORE it is locked. The lock     *)
(* query finds the object in the identity map of the same ORM session and  *)
(* leaves its attributes as they were first read: "seen" is that value of  *)
(* Device.revoked, and all that the operation knows of it.                 *)
(***************************************************************************)
EXTENDS Naturals, FiniteSets, FiniteSetsExt

CONSTANTS
    Devices,        \* device rows
    AccessPoints,   \* access point rows
    Addresses,      \* usable, unreserved pool addresses, ordered as numbers
    Keys,           \* idempotency keys a client may send
    NoKey,          \* no idempotency key
    Requests,       \* request handlers that run at the same time
    Sweepers,       \* sweeper loops, one per process
    Capacity,       \* AccessPoint.capacity
    Pool,           \* the addresses of the pool an access point draws from
    TenantPoints,   \* the access points of a device's own tenant
    MaxArrivals,    \* bound: requests ever received
    MaxCrashes      \* bound: process crashes

\* models.py:120 (ck_ap_capacity_positive) and 111-113: an access point
\* has a positive capacity and one pool.
ASSUME DeploymentAssumption ==
    /\ Addresses \subseteq Nat \ {0}
    /\ Capacity \in [AccessPoints -> Nat \ {0}]
    /\ Pool \in [AccessPoints -> SUBSET Addresses]
    /\ TenantPoints \in [Devices -> SUBSET AccessPoints]
    /\ NoKey \notin Keys
    /\ MaxArrivals \in Nat
    /\ MaxCrashes \in Nat

VARIABLES
    revoked,        \* Device.revoked
    credential,     \* whether Device.token_hash is of a token handed out
    lease,          \* rows of sessions
    termination,    \* rows of lease_terminations: the reason, by session
    address,        \* PoolAddress.status
    request,        \* the transaction of each request handler
    sweeping,       \* the session rows each sweeper has locked
    arrivals,       \* requests received so far
    crashes         \* crashes so far

vars == <<revoked, credential, lease, termination, address, request,
          sweeping, arrivals, crashes>>
tables == <<revoked, credential, lease, termination, address>>

SessionIds == 1 .. MaxArrivals
NoSession == 0
NoAddress == 0

TimeoutReason_NotInSchema == "timeout"
TimeoutReason == "heartbeat_timeout"

\* models.py:197-200, ck_termination_reason.
Reasons == {"client_close", "heartbeat_timeout", "revoked", "reconnect",
            "capacity_admin"}

DeviceOps == {"connect", "heartbeat", "close"}
AdminOps == {"revoke", "reissue", "reinstate"}

Lease == [device : Devices, ap : AccessPoints, address : Addresses,
          generation : Nat, key : Keys \cup {NoKey},
          status : {"active", "closed"}, fresh : BOOLEAN]
NoLease == [status |-> "none"]

\* What a transaction carries: the row images it read, the rows it locked.
Idle == [stage |-> "idle"]
Loaded ==
    [stage : {"loaded", "device", "ap"}, op : {"connect"}, device : Devices,
     seen : BOOLEAN, ap : AccessPoints, key : Keys \cup {NoKey}]
Reserved ==
    [stage : {"reserved"}, op : {"connect"}, device : Devices,
     ap : AccessPoints, key : Keys \cup {NoKey},
     session : SessionIds \cup {NoSession}, address : Addresses]
OfSession ==
    [stage : {"loaded", "device"}, op : {"heartbeat", "close"},
     device : Devices, session : SessionIds]
OfAdmin ==
    [stage : {"loaded", "device"}, op : AdminOps, device : Devices,
     seen : BOOLEAN]

----------------------------------------------------------------------------
(* Rows and the locks on them *)

Used(s) == lease[s].status # "none"
Active(s) == lease[s].status = "active"
LeasesOf(d) == {s \in SessionIds : Used(s) /\ lease[s].device = d}
ActiveOf(d) == {s \in LeasesOf(d) : Active(s)}

Running == {r \in Requests : request[r].stage # "idle"}

\* FOR UPDATE on the device row, held from the "device" stage to the commit.
DeviceFree_NotLocked(d) == TRUE
DeviceFree(d) ==
    \A r \in Running :
        request[r].device = d => request[r].stage = "loaded"

\* FOR UPDATE on the access point row, held by connect only.
PointFree_NotLocked(a) == TRUE
PointFree(a) ==
    \A r \in Running :
        request[r].stage \in {"ap", "reserved"} => request[r].ap # a

\* FOR UPDATE on a session row: by the sweeper, and by connect for the lease
\* it is about to supersede. The other operations lock and commit at once.
SessionFree(s) ==
    /\ \A w \in Sweepers : s \notin sweeping[w]
    /\ \A r \in Running :
           request[r].stage = "reserved" => request[r].session # s

\* leasing.py:118-137: free addresses of the pool that no transaction has
\* locked (SKIP LOCKED).
Reservable_Locked(a) == {x \in Pool[a] : address[x] = "free"}
Reservable(a) ==
    {x \in Pool[a] :
        /\ address[x] = "free"
        /\ \A r \in Running :
               request[r].stage = "reserved" => request[r].address # x}

\* leasing.py:193-201: what the other devices hold of the access point.
OthersAt(a, d) ==
    {s \in SessionIds : Active(s) /\ lease[s].ap = a /\ lease[s].device # d}

\* leasing.py:109-115.
NextGeneration_Active(d) ==
    1 + Max({0} \cup {lease[s].generation : s \in ActiveOf(d)})
NextGeneration(d) ==
    1 + Max({0} \cup {lease[s].generation : s \in LeasesOf(d)})

----------------------------------------------------------------------------
(* _release_once: the tables after the leases of S are released. A session *)
(* with a termination record is left alone (the unique constraint fails    *)
(* the insert and the savepoint is rolled back).                           *)

Unreleased(S) == {s \in S : termination[s] = "none"}

Closed_RecordOnly(S) == lease
Closed(S) ==
    [s \in SessionIds |->
        IF s \in Unreleased(S)
        THEN [lease[s] EXCEPT !.status = "closed"] ELSE lease[s]]

Terminated(S, why) ==
    [s \in SessionIds |-> IF s \in Unreleased(S) THEN why ELSE termination[s]]

Returned(S) ==
    [x \in Addresses |->
        IF \E s \in Unreleased(S) : lease[s].address = x
        THEN "free" ELSE address[x]]

Release(S, why) ==
    /\ lease' = Closed(S)
    /\ termination' = Terminated(S, why)
    /\ address' = Returned(S)

Finish_KeepsTransaction(r) == request' = request
Finish(r) == request' = [request EXCEPT ![r] = Idle]

Enter(r, tx) ==
    /\ request[r] = Idle
    /\ arrivals < MaxArrivals
    /\ arrivals' = arrivals + 1
    /\ request' = [request EXCEPT ![r] = tx]
    /\ UNCHANGED <<tables, sweeping, crashes>>

Init ==
    /\ revoked = [d \in Devices |-> FALSE]
    /\ credential = [d \in Devices |-> "issued"]
    /\ lease = [s \in SessionIds |-> NoLease]
    /\ termination = [s \in SessionIds |-> "none"]
    /\ address = [x \in Addresses |-> "free"]
    /\ request = [r \in Requests |-> Idle]
    /\ sweeping = [w \in Sweepers |-> {}]
    /\ arrivals = 0
    /\ crashes = 0

----------------------------------------------------------------------------
(* A request arrives: authentication or the owner check loads the device.  *)

\* deps.py:67-88, authenticate_device: the current token of a device that is
\* not revoked.
Authentic(d) == credential[d] = "issued" /\ ~revoked[d]

RequestConnect(r, d, a, k) ==
    /\ Authentic(d)
    /\ Enter(r, [stage |-> "loaded", op |-> "connect", device |-> d,
                 seen |-> revoked[d], ap |-> a, key |-> k])

\* A client that was given the lease sends its id, generation and token:
\* late or not, they match the session row (leasing.py:264-276).
RequestOnLease(r, s, op) ==
    /\ Used(s)
    /\ Authentic(lease[s].device)
    /\ Enter(r, [stage |-> "loaded", op |-> op, device |-> lease[s].device,
                 session |-> s])

\* routers/tenant.py:150-152, 164-166, 184-186.
RequestAdmin(r, d, op) ==
    Enter(r, [stage |-> "loaded", op |-> op, device |-> d,
              seen |-> revoked[d]])

\* leasing.py:152, 258, 297, 328, 354, 369: SELECT device FOR UPDATE.
LockDevice(r) ==
    /\ request[r].stage = "loaded"
    /\ DeviceFree(request[r].device)
    /\ request' = [request EXCEPT ![r].stage = "device"]
    /\ UNCHANGED <<tables, sweeping, arrivals, crashes>>

----------------------------------------------------------------------------
(* connect *)

At(r, op, stage) == request[r].stage = stage /\ request[r].op = op

Refuse(r) == Finish(r) /\ UNCHANGED <<tables, sweeping, arrivals, crashes>>

\* leasing.py:157-167: the revoked check (of the value seen), then the lock
\* on the access point; another tenant's access point is refused.
LockAccessPoint(r) ==
    /\ At(r, "connect", "device")
    /\ PointFree(request[r].ap)
    /\ IF /\ ~request[r].seen
          /\ request[r].ap \in TenantPoints[request[r].device]
       THEN /\ request' = [request EXCEPT ![r].stage = "ap"]
            /\ UNCHANGED <<tables, sweeping, arrivals, crashes>>
       ELSE Refuse(r)

\* leasing.py:170-186: a retry of the connect that opened the active lease.
Replays(q, S) ==
    \E s \in S : /\ q.key # NoKey
                 /\ lease[s].key = q.key
                 /\ lease[s].ap = q.ap

\* Locks the active session, then replays, refuses for capacity or for want
\* of an address, or locks the lowest address that is free.
ReserveAddress(r) ==
    LET q == request[r]
        held == ActiveOf(q.device)
        free == Reservable(q.ap)
    IN  /\ At(r, "connect", "ap")
        /\ \A s \in held : SessionFree(s)
        /\ \/ /\ \/ Replays(q, held)
                 \/ Cardinality(OthersAt(q.ap, q.device)) >= Capacity[q.ap]
                 \/ free = {}
              /\ Refuse(r)
           \/ /\ ~Replays(q, held)
              /\ Cardinality(OthersAt(q.ap, q.device)) < Capacity[q.ap]
              /\ \E x \in free, s \in held \cup {NoSession} :
                    /\ \A y \in free : x <= y
                    /\ held # {} => s # NoSession
                    /\ request' = [request EXCEPT ![r] =
                          [stage |-> "reserved", op |-> "connect",
                           device |-> q.device, ap |-> q.ap, key |-> q.key,
                           session |-> s, address |-> x]]
              /\ UNCHANGED <<tables, sweeping, arrivals, crashes>>

\* leasing.py:210-242: the old generation is released and its successor
\* inserted in one commit. The two partial unique indexes are not modelled:
\* CurrentLeaseIsNewest and AddressesMatchLeases hold without their help, so
\* the "lease_conflict" branch (238-241) is never taken.
CommitConnect(r) ==
    LET q == request[r]
        old == {q.session} \ {NoSession}
    IN  /\ At(r, "connect", "reserved")
        /\ \E n \in SessionIds :
              /\ ~Used(n) /\ \A m \in 1 .. n - 1 : Used(m)
              /\ lease' = [Closed(old) EXCEPT ![n] =
                    [device |-> q.device, ap |-> q.ap, address |-> q.address,
                     generation |-> NextGeneration(q.device), key |-> q.key,
                     status |-> "active", fresh |-> TRUE]]
        /\ termination' = Terminated(old, "reconnect")
        /\ address' = [Returned(old) EXCEPT ![q.address] = "allocated"]
        /\ Finish(r)
        /\ UNCHANGED <<revoked, credential, sweeping, arrivals, crashes>>

----------------------------------------------------------------------------
(* heartbeat, close *)

\* leasing.py:264-282. The session row is read under its lock; a closed one
\* is refused (277-278).
Beatable_AnyStatus(s) == TRUE
Beatable(s) == Active(s)

Heartbeat(r) ==
    LET s == request[r].session
    IN  /\ At(r, "heartbeat", "device")
        /\ SessionFree(s)
        /\ lease' = IF Beatable(s) THEN [lease EXCEPT ![s].fresh = TRUE]
                                   ELSE lease
        /\ Finish(r)
        /\ UNCHANGED <<revoked, credential, termination, address, sweeping,
                       arrivals, crashes>>

\* leasing.py:303-317.
CloseSession(r) ==
    LET s == request[r].session
    IN  /\ At(r, "close", "device")
        /\ SessionFree(s)
        /\ Release(IF Active(s) THEN {s} ELSE {}, "client_close")
        /\ Finish(r)
        /\ UNCHANGED <<revoked, credential, sweeping, arrivals, crashes>>

----------------------------------------------------------------------------
(* revoke, reissue, reinstate *)

\* An attribute is written back only when it differs from the value the
\* session read: setting Device.revoked to "value" leaves the row as it is
\* when "value" is what was seen.
RevokedSetTo(q, value) ==
    IF q.seen = value THEN revoked
                      ELSE [revoked EXCEPT ![q.device] = value]

\* leasing.py:334-350: the active lease is released in any case; a device
\* seen as revoked already is otherwise left alone.
RevokeDevice(r) ==
    LET q == request[r]
        held == ActiveOf(q.device)
    IN  /\ At(r, "revoke", "device")
        /\ \A s \in held : SessionFree(s)
        /\ Release(held, "revoked")
        /\ revoked' = RevokedSetTo(q, TRUE)
        /\ credential' = IF q.seen THEN credential
                         ELSE [credential EXCEPT ![q.device] = "unusable"]
        /\ Finish(r)
        /\ UNCHANGED <<sweeping, arrivals, crashes>>

Handed(d) == [credential EXCEPT ![d] = "issued"]

\* leasing.py:359-364.
ReissueToken(r) ==
    LET q == request[r]
    IN  /\ At(r, "reissue", "device")
        /\ credential' = IF q.seen THEN credential ELSE Handed(q.device)
        /\ Finish(r)
        /\ UNCHANGED <<revoked, lease, termination, address, sweeping,
                       arrivals, crashes>>

\* leasing.py:374-378.
Reinstated_TokenKept(d) == credential
Reinstated(d) == Handed(d)

ReinstateDevice(r) ==
    LET q == request[r]
    IN  /\ At(r, "reinstate", "device")
        /\ revoked' = RevokedSetTo(q, FALSE)
        /\ credential' = Reinstated(q.device)
        /\ Finish(r)
        /\ UNCHANGED <<lease, termination, address, sweeping, arrivals,
                       crashes>>

----------------------------------------------------------------------------
(* The sweeper, time, and the crash of the process *)

\* leasing.py:391-397: heartbeats older than the timeout.
Expired_OfTrusted(s) == Active(s) /\ ~lease[s].fresh /\ ~revoked[lease[s].device]
Expired(s) == Active(s) /\ ~lease[s].fresh

\* Rows another transaction holds are skipped (SKIP LOCKED).
SweepSelect(w) ==
    LET stale == {s \in SessionIds : Expired(s) /\ SessionFree(s)}
    IN  /\ sweeping[w] = {}
        /\ stale # {}
        /\ sweeping' = [sweeping EXCEPT ![w] = stale]
        /\ UNCHANGED <<tables, request, arrivals, crashes>>

\* leasing.py:399-410: one commit for all that were selected.
SweepCommit(w) ==
    /\ sweeping[w] # {}
    /\ Release(sweeping[w], TimeoutReason)
    /\ sweeping' = [sweeping EXCEPT ![w] = {}]
    /\ UNCHANGED <<revoked, credential, request, arrivals, crashes>>

\* heartbeat_timeout_seconds pass since the last heartbeat of session s.
Elapse(s) ==
    /\ Active(s) /\ lease[s].fresh
    /\ lease' = [lease EXCEPT ![s].fresh = FALSE]
    /\ UNCHANGED <<revoked, credential, termination, address, request,
                   sweeping, arrivals, crashes>>

\* The process dies: PostgreSQL rolls every open transaction back. The next
\* process sweeps at once (lifecycle.py:43-54); nothing else is recovered.
Crash ==
    /\ crashes < MaxCrashes
    /\ crashes' = crashes + 1
    /\ request' = [r \in Requests |-> Idle]
    /\ sweeping' = [w \in Sweepers |-> {}]
    /\ UNCHANGED <<tables, arrivals>>

Arrive(r) ==
    \/ \E d \in Devices, a \in AccessPoints, k \in Keys \cup {NoKey} :
           RequestConnect(r, d, a, k)
    \/ \E s \in SessionIds, op \in {"heartbeat", "close"} :
           RequestOnLease(r, s, op)
    \/ \E d \in Devices, op \in AdminOps : RequestAdmin(r, d, op)

Proceed(r) ==
    \/ LockDevice(r)
    \/ LockAccessPoint(r)
    \/ ReserveAddress(r)
    \/ CommitConnect(r)
    \/ Heartbeat(r)
    \/ CloseSession(r)
    \/ RevokeDevice(r)
    \/ ReissueToken(r)
    \/ ReinstateDevice(r)

\* The system at rest: no request is left to come and no lease to expire.
Rest ==
    /\ arrivals = MaxArrivals
    /\ Running = {}
    /\ \A s \in SessionIds : ~Active(s)
    /\ UNCHANGED vars

Next ==
    \/ \E r \in Requests : Arrive(r) \/ Proceed(r)
    \/ \E w \in Sweepers : SweepSelect(w) \/ SweepCommit(w)
    \/ \E s \in SessionIds : Elapse(s)
    \/ Crash
    \/ Rest

Spec == Init /\ [][Next]_vars

\* A thread runs its request, the sweeper loop runs every sweep_interval
\* (lifecycle.py:47-54), and time passes.
Fairness ==
    /\ \A r \in Requests : WF_vars(Proceed(r))
    /\ \A w \in Sweepers : WF_vars(SweepSelect(w)) /\ WF_vars(SweepCommit(w))
    /\ \A s \in SessionIds : WF_vars(Elapse(s))

FairSpec == Spec /\ Fairness

----------------------------------------------------------------------------
(* Properties *)

\* The tables hold what the schema allows, and each transaction the rows its
\* stage has read and locked.
TypeOK ==
    /\ revoked \in [Devices -> BOOLEAN]
    /\ credential \in [Devices -> {"issued", "unusable"}]
    /\ lease \in [SessionIds -> Lease \cup {NoLease}]
    /\ termination \in [SessionIds -> Reasons \cup {"none"}]
    /\ address \in [Addresses -> {"free", "allocated"}]
    /\ request \in
          [Requests -> {Idle} \cup Loaded \cup Reserved \cup OfSession \cup OfAdmin]
    /\ sweeping \in [Sweepers -> SUBSET SessionIds]
    /\ arrivals \in 0 .. MaxArrivals
    /\ crashes \in 0 .. MaxCrashes

\* An address is allocated exactly when one active lease holds it: none is
\* leaked by a race of close, expiry, revoke and reconnect, and none is freed
\* under, or handed out next to, the lease that holds it (leasing.py:9-17).
AddressesMatchLeases ==
    /\ \A x \in Addresses :
          address[x] = "allocated" <=>
              \E s \in SessionIds : Active(s) /\ lease[s].address = x
    /\ \A s, t \in SessionIds :
          Active(s) /\ Active(t) /\ lease[s].address = lease[t].address => s = t

\* A lease is closed exactly when its termination record exists, whoever of
\* close, sweep, revoke and reconnect got there first (leasing.py:79-106).
LedgerMatchesStatus ==
    \A s \in SessionIds :
        (Used(s) /\ ~Active(s)) <=> termination[s] # "none"

\* An access point never carries more active leases than its capacity, with
\* connects of different devices, reconnects and sweeps interleaved
\* (leasing.py:160-204).
CapacityRespected ==
    \A a \in AccessPoints :
        Cardinality({s \in SessionIds : Active(s) /\ lease[s].ap = a})
            <= Capacity[a]

\* The active lease of a device is the one of its highest generation, so it
\* has at most one and a generation is never used twice (leasing.py:13-20).
CurrentLeaseIsNewest ==
    \A s, t \in SessionIds :
        /\ Used(s) /\ Used(t) /\ s # t
        /\ lease[s].device = lease[t].device
        => /\ lease[s].generation # lease[t].generation
           /\ Active(s) => lease[s].generation > lease[t].generation

\* A device that is not revoked can always authenticate with the last token
\* handed out for it: no order of revoke, reissue and reinstate, each acting
\* on the value of "revoked" it saw earlier, locks it out (leasing.py:324-378).
NoLockout ==
    \A d \in Devices : ~revoked[d] => credential[d] = "issued"

\* What the session rows stand for: the grants in force and the generations
\* that were ever given.
GrantOf(s) == [holder |-> lease[s].device, place |-> lease[s].address,
               generation |-> lease[s].generation]
GenerationOf(s) == [holder |-> lease[s].device, generation |-> lease[s].generation]
Grants == {GrantOf(s) : s \in {t \in SessionIds : Active(t)}}
Issued == {GenerationOf(s) : s \in {t \in SessionIds : Used(t)}}

Exclusive == INSTANCE ExclusiveLease WITH held <- Grants, issued <- Issued

\* The transactions, their locks and the crashes implement the lease that is
\* exclusive and whose generations rise: an address is granted only after it was
\* released, and a connect ends what its device held (leasing.py:9-20, 142-246).
ExclusiveGrants == Exclusive!Spec

\* A heartbeat, however late, extends nothing but an active lease, and that
\* of the newest generation of its device; no session is ever reopened
\* (leasing.py:18-20, 273-278).
BeatsOnlyCurrent ==
    [][\A s \in SessionIds :
          Used(s) =>
            /\ Active(s)' => Active(s)
            /\ ~lease[s].fresh /\ lease'[s].fresh =>
                  /\ Active(s)
                  /\ \A t \in LeasesOf(lease[s].device) :
                        lease[t].generation <= lease[s].generation]_vars

\* Once its device falls silent (arrivals are bounded) every active lease is
\* released, after a crash and for a revoked device too (lifecycle.py:43-54).
SilentLeaseReleased ==
    \A s \in SessionIds : Active(s) ~> ~Active(s)

\* Every request ends: no two transactions wait for each other's locks
\* (leasing.py:5-8), and a refused one lets go of its locks.
RequestsEnd ==
    \A r \in Requests : request[r].stage # "idle" ~> request[r].stage = "idle"

\* README.md:16 and the module's header: revoking a device ends its active
\* session at once, and it cannot connect again until it is reinstated.
RevokedHasNoLease ==
    \A d \in Devices : revoked[d] => ActiveOf(d) = {}
=============================================================================
