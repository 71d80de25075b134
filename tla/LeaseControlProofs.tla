------------------------- MODULE LeaseControlProofs -------------------------
(***************************************************************************)
(* Theorems of LeaseControl, for any devices, access points, pools,        *)
(* request handlers and sweepers: the rows are well typed, addresses and   *)
(* termination records agree with the leases, a device's active lease is   *)
(* its newest and the only one a heartbeat extends, no access point is     *)
(* overfilled, no order of revoke and reinstate locks a device out, and    *)
(* the transactions implement ExclusiveLease.                              *)
(***************************************************************************)
EXTENDS LeaseControl, FiniteSetTheorems, TLAPS

(* The strengthening: what the row locks of the open transactions protect. *)

\* The lease of highest generation exists, so that max(generation) is one.
NewestExists ==
    \A d \in Devices :
        LeasesOf(d) # {} =>
            \E s \in LeasesOf(d) : \A t \in LeasesOf(d) :
                lease[t].generation <= lease[s].generation

OneHolderPerDevice ==
    \A p, r \in Requests :
        /\ request[p].stage \notin {"idle", "loaded"}
        /\ request[r].stage \notin {"idle", "loaded"}
        /\ request[p].device = request[r].device
        => p = r

SessionsOwned ==
    \A r \in Requests :
        request[r] \in OfSession =>
            /\ Used(request[r].session)
            /\ lease[request[r].session].device = request[r].device

ReservationHolds ==
    \A r \in Requests : request[r].stage = "reserved" =>
        /\ address[request[r].address] = "free"
        /\ \A s \in ActiveOf(request[r].device) : s = request[r].session
        /\ request[r].session # NoSession =>
              /\ request[r].session \in ActiveOf(request[r].device)
              /\ \A w \in Sweepers : request[r].session \notin sweeping[w]

OneHolderPerAddress ==
    \A p, r \in Requests :
        /\ request[p].stage = "reserved" /\ request[r].stage = "reserved"
        /\ request[p].address = request[r].address
        => p = r

SweepsHold ==
    /\ \A w \in Sweepers : \A s \in sweeping[w] : Active(s)
    /\ \A v, w \in Sweepers : v # w => sweeping[v] \cap sweeping[w] = {}

TableInv == AddressesMatchLeases /\ LedgerMatchesStatus
            /\ CurrentLeaseIsNewest /\ NewestExists
LockInv == OneHolderPerDevice /\ SessionsOwned /\ ReservationHolds
           /\ OneHolderPerAddress /\ SweepsHold
IInv == TypeOK /\ TableInv /\ LockInv

-----------------------------------------------------------------------------
(* Releasing a set of active leases changes their status, writes their     *)
(* termination records and returns their addresses, and nothing else.      *)

LEMMA ReleaseEffect ==
    ASSUME TypeOK, LedgerMatchesStatus, NEW S \in SUBSET SessionIds,
           \A s \in S : Active(s), NEW why \in Reasons
    PROVE  /\ Closed(S) \in [SessionIds -> Lease \cup {NoLease}]
           /\ \A s \in SessionIds :
                 /\ (Closed(S)[s].status = "active") <=> (Active(s) /\ s \notin S)
                 /\ (Closed(S)[s].status # "none") <=> Used(s)
                 /\ Used(s) => /\ Closed(S)[s].device = lease[s].device
                               /\ Closed(S)[s].address = lease[s].address
                               /\ Closed(S)[s].generation = lease[s].generation
                               /\ Closed(S)[s].fresh = lease[s].fresh
           /\ Terminated(S, why) \in [SessionIds -> Reasons \cup {"none"}]
           /\ \A s \in SessionIds :
                 Terminated(S, why)[s] # "none" <=> (termination[s] # "none" \/ s \in S)
           /\ Returned(S) \in [Addresses -> {"free", "allocated"}]
           /\ \A x \in Addresses :
                 Returned(S)[x] = "allocated" <=>
                     (address[x] = "allocated" /\ \A s \in S : lease[s].address # x)
  <1>1. Unreleased(S) = S
    BY DEF LedgerMatchesStatus, Unreleased, Active, Used
  <1>2. \A s \in SessionIds : lease[s] \in Lease \cup {NoLease}
    BY DEF TypeOK
  <1>3. \A s \in S : lease[s] \in Lease
    BY <1>2 DEF Active, NoLease
  <1>4. ASSUME NEW s \in SessionIds
        PROVE  /\ Closed(S)[s] \in Lease \cup {NoLease}
               /\ (Closed(S)[s].status = "active") <=> (Active(s) /\ s \notin S)
               /\ (Closed(S)[s].status # "none") <=> Used(s)
               /\ Used(s) => /\ Closed(S)[s].device = lease[s].device
                             /\ Closed(S)[s].address = lease[s].address
                             /\ Closed(S)[s].generation = lease[s].generation
                             /\ Closed(S)[s].fresh = lease[s].fresh
    <2>1. CASE s \in S
      <3>1. Closed(S)[s] = [lease[s] EXCEPT !.status = "closed"]
        BY <1>1, <2>1 DEF Closed
      <3> QED
        BY <3>1, <1>3, <2>1 DEF Lease, Active, Used
    <2>2. CASE s \notin S
      <3>1. Closed(S)[s] = lease[s]
        BY <1>1, <2>2 DEF Closed
      <3> QED
        BY <3>1, <1>2, <2>2 DEF Active, Used
    <2> QED
      BY <2>1, <2>2
  <1>5. Closed(S) \in [SessionIds -> Lease \cup {NoLease}]
    <2>1. Closed(S) = [s \in SessionIds |-> Closed(S)[s]]
      BY DEF Closed
    <2> QED
      BY <2>1, <1>4
  <1>6. /\ Terminated(S, why) \in [SessionIds -> Reasons \cup {"none"}]
        /\ \A s \in SessionIds :
              Terminated(S, why)[s] # "none" <=> (termination[s] # "none" \/ s \in S)
    <2>1. termination \in [SessionIds -> Reasons \cup {"none"}] /\ why # "none"
      BY DEF TypeOK, Reasons
    <2> QED
      BY <2>1, <1>1 DEF Terminated
  <1>7. /\ Returned(S) \in [Addresses -> {"free", "allocated"}]
        /\ \A x \in Addresses :
              Returned(S)[x] = "allocated" <=>
                  (address[x] = "allocated" /\ \A s \in S : lease[s].address # x)
    <2>1. address \in [Addresses -> {"free", "allocated"}]
      BY DEF TypeOK
    <2> QED
      BY <2>1, <1>1 DEF Returned
  <1> QED
    BY <1>4, <1>5, <1>6, <1>7

(* The next generation of a device exceeds every generation it has had. *)
LEMMA NextGenerationIsNewer ==
    ASSUME TypeOK, NewestExists, NEW d \in Devices
    PROVE  /\ NextGeneration(d) \in Nat
           /\ \A t \in LeasesOf(d) : lease[t].generation < NextGeneration(d)
  <1> DEFINE G == {0} \cup {lease[s].generation : s \in LeasesOf(d)}
  <1>1. \A s \in LeasesOf(d) : lease[s].generation \in Nat
    <2> SUFFICES ASSUME NEW s \in LeasesOf(d) PROVE lease[s].generation \in Nat
      OBVIOUS
    <2>1. s \in SessionIds /\ lease[s].status # "none"
      BY DEF LeasesOf, Used
    <2>2. lease[s] \in Lease \cup {NoLease}
      BY <2>1 DEF TypeOK
    <2> QED
      BY <2>1, <2>2 DEF Lease, NoLease
  <1>2. \E x \in G : \A y \in G : x >= y
    <2>1. CASE LeasesOf(d) = {}
      BY <2>1
    <2>2. CASE LeasesOf(d) # {}
      <3>1. PICK s \in LeasesOf(d) : \A t \in LeasesOf(d) :
                lease[t].generation <= lease[s].generation
        BY <2>2 DEF NewestExists
      <3>2. lease[s].generation \in G /\ \A y \in G : lease[s].generation >= y
        BY <3>1, <1>1
      <3> QED
        BY <3>2
    <2> QED
      BY <2>1, <2>2
  <1>3. Max(G) \in G /\ \A y \in G : Max(G) >= y
    BY <1>2 DEF Max
  <1>4. NextGeneration(d) = 1 + Max(G)
    BY DEF NextGeneration
  <1>5. G \subseteq Nat
    BY <1>1
  <1>6. \A t \in LeasesOf(d) : lease[t].generation \in G
    OBVIOUS
  <1> DEFINE m == Max(G)
  <1>7. m \in Nat /\ (\A y \in G : y <= m) /\ NextGeneration(d) = 1 + m
    BY <1>3, <1>4, <1>5
  <1> HIDE DEF m
  <1>8. \A t \in LeasesOf(d) : lease[t].generation \in Nat /\ lease[t].generation <= m
    BY <1>1, <1>6, <1>7
  <1> QED
    BY <1>7, <1>8

-----------------------------------------------------------------------------
(* The shape of a transaction at each stage *)

LEMMA Shapes ==
    ASSUME TypeOK, NEW r \in Requests
    PROVE  /\ request[r].stage = "idle" => request[r] = Idle
           /\ request[r].stage # "idle" => request[r].device \in Devices
           /\ request[r].stage = "reserved" => request[r] \in Reserved
           /\ At(r, "connect", "device") => request[r] \in Loaded
           /\ At(r, "connect", "ap") => request[r] \in Loaded
           /\ At(r, "connect", "reserved") => request[r] \in Reserved
           /\ \A op \in {"heartbeat", "close"} :
                 At(r, op, "device") => request[r] \in OfSession
           /\ \A op \in AdminOps : At(r, op, "device") => request[r] \in OfAdmin
           /\ request[r].stage = "loaded" =>
                 request[r] \in Loaded \cup OfSession \cup OfAdmin
           /\ request[r] \in OfSession =>
                 request[r].stage \in {"loaded", "device"}
  <1>1. request[r] \in {Idle} \cup Loaded \cup Reserved \cup OfSession \cup OfAdmin
    BY DEF TypeOK
  <1>2. CASE request[r] = Idle
    BY <1>2 DEF Idle, At, OfSession
  <1>3. CASE request[r] \in Loaded
    BY <1>3 DEF Loaded, At, AdminOps, OfSession
  <1>4. CASE request[r] \in Reserved
    BY <1>4 DEF Reserved, At, AdminOps, OfSession
  <1>5. CASE request[r] \in OfSession
    BY <1>5 DEF OfSession, At, AdminOps
  <1>6. CASE request[r] \in OfAdmin
    BY <1>6 DEF OfAdmin, At, AdminOps, OfSession
  <1> QED
    BY <1>1, <1>2, <1>3, <1>4, <1>5, <1>6

\* A transaction that gets its device row, or its access point, is otherwise
\* as it was.
LEMMA StageMoves ==
    ASSUME NEW tx, NEW st \in {"device", "ap"},
           \/ tx \in Loaded
           \/ tx \in OfSession \cup OfAdmin /\ st = "device"
    PROVE  /\ [tx EXCEPT !.stage = st] \in Loaded \cup OfSession \cup OfAdmin
           /\ [tx EXCEPT !.stage = st].stage = st
           /\ [tx EXCEPT !.stage = st].device = tx.device
           /\ [tx EXCEPT !.stage = st] \in OfSession =>
                 tx \in OfSession /\ [tx EXCEPT !.stage = st].session = tx.session
  <1>1. CASE tx \in Loaded
    BY <1>1 DEF Loaded, OfSession
  <1>2. CASE tx \in OfSession /\ st = "device"
    BY <1>2 DEF OfSession
  <1>3. CASE tx \in OfAdmin /\ st = "device"
    BY <1>3 DEF OfAdmin, OfSession
  <1> QED
    BY <1>1, <1>2, <1>3

-----------------------------------------------------------------------------
THEOREM InitEstablishes == Init => IInv
  <1> SUFFICES ASSUME Init PROVE IInv
    OBVIOUS
  <1>1. /\ \A r \in Requests : request[r] = Idle /\ request[r].stage = "idle"
        /\ \A s \in SessionIds : ~Used(s) /\ ~Active(s) /\ termination[s] = "none"
    BY DEF Init, Idle, NoLease, Used, Active
  <1>2. TypeOK
    BY DeploymentAssumption DEF Init, TypeOK
  <1>3. TableInv
    BY <1>1 DEF Init, TableInv, AddressesMatchLeases, LedgerMatchesStatus,
       CurrentLeaseIsNewest, NewestExists, LeasesOf
  <1>4. LockInv
    <2>1. Idle \notin OfSession
      BY DEF Idle, OfSession
    <2> QED
      BY <1>1, <2>1 DEF Init, LockInv, OneHolderPerDevice, SessionsOwned,
         ReservationHolds, OneHolderPerAddress, SweepsHold
  <1> QED
    BY <1>2, <1>3, <1>4 DEF IInv

-----------------------------------------------------------------------------
(* Frames: what a step keeps when it leaves most of the state alone *)

SameLeases ==
    \A s \in SessionIds :
        /\ Used(s)' <=> Used(s)
        /\ Active(s)' <=> Active(s)
        /\ lease'[s].device = lease[s].device
        /\ lease'[s].address = lease[s].address
        /\ lease'[s].generation = lease[s].generation

LEMMA TablesKept ==
    ASSUME TableInv, SameLeases, address' = address, termination' = termination
    PROVE  TableInv'
  <1>1. AddressesMatchLeases'
    BY DEF TableInv, AddressesMatchLeases, SameLeases
  <1>2. LedgerMatchesStatus'
    BY DEF TableInv, LedgerMatchesStatus, SameLeases
  <1>3. CurrentLeaseIsNewest'
    BY DEF TableInv, CurrentLeaseIsNewest, SameLeases
  <1>4. NewestExists'
    <2>1. ASSUME NEW d \in Devices
          PROVE LeasesOf(d)' = LeasesOf(d)
      BY DEF LeasesOf, SameLeases
    <2>2. \A d \in Devices : \A s \in LeasesOf(d) :
              lease'[s].generation = lease[s].generation
      BY DEF LeasesOf, SameLeases
    <2> QED
      BY <2>1, <2>2 DEF TableInv, NewestExists
  <1> QED
    BY <1>1, <1>2, <1>3, <1>4 DEF TableInv

LEMMA LocksKept ==
    ASSUME TypeOK, LockInv,
           \A p \in Requests : request'[p] = request[p] \/ request'[p] = Idle,
           \A s \in SessionIds :
              Used(s) => Used(s)' /\ lease'[s].device = lease[s].device,
           \A p \in Requests : request'[p].stage = "reserved" =>
              address'[request[p].address] = "free",
           \A p \in Requests, d \in Devices :
              request'[p].stage = "reserved" /\ request[p].device = d =>
                 ActiveOf(d)' = ActiveOf(d),
           \A w \in Sweepers : sweeping'[w] \subseteq sweeping[w],
           \A w \in Sweepers : \A s \in sweeping'[w] : Active(s)'
    PROVE  LockInv'
  <1>1. \A p \in Requests : request'[p].stage # "idle" => request'[p] = request[p]
    BY DEF Idle
  <1>2. \A p \in Requests : request'[p] \in OfSession =>
            request'[p] = request[p] /\ request[p].session \in SessionIds
    BY DEF Idle, OfSession
  <1>3. \A p \in Requests : request[p].stage # "idle" => request[p].device \in Devices
    BY Shapes
  <1>4. OneHolderPerDevice'
    BY <1>1 DEF LockInv, OneHolderPerDevice
  <1>5. SessionsOwned'
    BY <1>2 DEF LockInv, SessionsOwned
  <1>6. ReservationHolds'
    <2> SUFFICES ASSUME NEW p \in Requests, request'[p].stage = "reserved"
                 PROVE  /\ address'[request[p].address] = "free"
                        /\ \A s \in ActiveOf(request[p].device)' :
                              s = request[p].session
                        /\ request[p].session # NoSession =>
                              /\ request[p].session \in ActiveOf(request[p].device)'
                              /\ \A w \in Sweepers :
                                    request[p].session \notin sweeping'[w]
      BY <1>1 DEF ReservationHolds
    <2>1. request'[p] = request[p] /\ request[p].stage = "reserved"
      BY <1>1
    <2>2. PICK d \in Devices : d = request[p].device
      BY <1>3, <2>1
    <2>3. ActiveOf(d)' = ActiveOf(d)
      BY <2>2
    <2> QED
      BY <2>1, <2>2, <2>3 DEF LockInv, ReservationHolds
  <1>7. OneHolderPerAddress'
    BY <1>1 DEF LockInv, OneHolderPerAddress
  <1>8. SweepsHold'
    BY DEF LockInv, SweepsHold
  <1> QED
    BY <1>4, <1>5, <1>6, <1>7, <1>8 DEF LockInv

-----------------------------------------------------------------------------
(* Steps that only open transactions, move them or take locks *)

LEMMA TablesUnchanged ==
    ASSUME TableInv, UNCHANGED tables
    PROVE  TableInv' /\ SameLeases /\ \A d \in Devices : ActiveOf(d)' = ActiveOf(d)
  <1>1. SameLeases
    BY DEF SameLeases, tables, Used, Active
  <1>2. TableInv'
    BY <1>1, TablesKept DEF tables
  <1>3. \A d \in Devices : ActiveOf(d)' = ActiveOf(d)
    BY DEF tables, ActiveOf, LeasesOf, Used, Active
  <1> QED
    BY <1>1, <1>2, <1>3

\* Request r becomes tx, which holds no reservation, and takes no device row
\* that another transaction holds.
LEMMA EntersStage ==
    ASSUME TypeOK, TableInv, LockInv, NEW r \in Requests,
           UNCHANGED tables, sweeping' = sweeping,
           NEW tx, request' = [request EXCEPT ![r] = tx],
           tx \in Loaded \cup OfSession \cup OfAdmin,
           tx \in OfSession =>
              tx.session \in SessionIds /\ Used(tx.session)
              /\ lease[tx.session].device = tx.device,
           tx.stage # "loaded" =>
              \A p \in Requests \ {r} :
                 request[p].stage \in {"idle", "loaded"} \/ request[p].device # tx.device
    PROVE  TableInv' /\ LockInv'
           /\ request' \in [Requests -> {Idle} \cup Loaded \cup Reserved
                                          \cup OfSession \cup OfAdmin]
  <1>1. TableInv' /\ SameLeases /\ \A d \in Devices : ActiveOf(d)' = ActiveOf(d)
    BY TablesUnchanged
  <1>2. /\ request'[r] = tx
        /\ \A p \in Requests \ {r} : request'[p] = request[p]
        /\ request' \in [Requests -> {Idle} \cup Loaded \cup Reserved
                                      \cup OfSession \cup OfAdmin]
    BY DEF TypeOK
  <1>3. tx.stage # "reserved"
    BY DEF Loaded, OfSession, OfAdmin
  <1>4. OneHolderPerDevice'
    BY <1>2 DEF LockInv, OneHolderPerDevice
  <1>5. SessionsOwned'
    <2> SUFFICES ASSUME NEW p \in Requests, request'[p] \in OfSession
                 PROVE  /\ Used(request[p].session)'
                        /\ lease'[request'[p].session].device = request'[p].device
      BY DEF SessionsOwned
    <2>1. lease' = lease
      BY DEF tables
    <2>2. Used(request'[p].session) /\ lease[request'[p].session].device = request'[p].device
      BY <1>2 DEF LockInv, SessionsOwned
    <2> QED
      BY <2>1, <2>2 DEF Used
  <1>6. ReservationHolds'
    <2> SUFFICES ASSUME NEW p \in Requests, request'[p].stage = "reserved"
                 PROVE  /\ address'[request[p].address] = "free"
                        /\ \A s \in ActiveOf(request[p].device)' :
                              s = request[p].session
                        /\ request[p].session # NoSession =>
                              /\ request[p].session \in ActiveOf(request[p].device)'
                              /\ \A w \in Sweepers :
                                    request[p].session \notin sweeping'[w]
                        /\ request'[p] = request[p]
      BY <1>2, <1>3 DEF ReservationHolds
    <2>1. request'[p] = request[p] /\ request[p].stage = "reserved"
      BY <1>2, <1>3
    <2>2. PICK d \in Devices : d = request[p].device
      BY Shapes, <2>1
    <2>3. ActiveOf(d)' = ActiveOf(d)
      BY <1>1
    <2> QED
      BY <2>1, <2>2, <2>3 DEF LockInv, ReservationHolds, tables
  <1>7. OneHolderPerAddress'
    BY <1>2, <1>3 DEF LockInv, OneHolderPerAddress
  <1>8. SweepsHold'
    BY DEF LockInv, SweepsHold, tables, Active
  <1> QED
    BY <1>1, <1>2, <1>4, <1>5, <1>6, <1>7, <1>8 DEF LockInv

LEMMA ArriveStep ==
    ASSUME IInv, NEW r \in Requests, Arrive(r)
    PROVE  IInv'
  <1>0. TypeOK /\ TableInv /\ LockInv
    BY DEF IInv
  <1> SUFFICES ASSUME NEW tx, Enter(r, tx), tx.stage = "loaded",
                      tx \in Loaded \cup OfSession \cup OfAdmin,
                      tx \in OfSession =>
                          tx.session \in SessionIds /\ Used(tx.session)
                          /\ lease[tx.session].device = tx.device
               PROVE  IInv'
    <2>1. ASSUME NEW d \in Devices, NEW a \in AccessPoints, NEW k \in Keys \cup {NoKey},
                 RequestConnect(r, d, a, k)
          PROVE IInv'
      <3> DEFINE tx == [stage |-> "loaded", op |-> "connect", device |-> d,
                        seen |-> revoked[d], ap |-> a, key |-> k]
      <3>1. tx \in Loaded /\ tx \notin OfSession /\ tx.stage = "loaded"
        BY <1>0 DEF Loaded, OfSession, TypeOK
      <3>2. Enter(r, tx)
        BY <2>1 DEF RequestConnect
      <3> QED
        BY <3>1, <3>2
    <2>2. ASSUME NEW s \in SessionIds, NEW op \in {"heartbeat", "close"},
                 RequestOnLease(r, s, op)
          PROVE IInv'
      <3> DEFINE tx == [stage |-> "loaded", op |-> op, device |-> lease[s].device,
                        session |-> s]
      <3>1. lease[s].device \in Devices
        BY <1>0, <2>2 DEF RequestOnLease, TypeOK, Lease, NoLease, Used
      <3>2. tx \in OfSession /\ tx.stage = "loaded" /\ tx.session = s
            /\ tx.device = lease[s].device
        BY <3>1 DEF OfSession
      <3>3. Enter(r, tx) /\ Used(s)
        BY <2>2 DEF RequestOnLease
      <3> HIDE DEF tx
      <3> QED
        BY <3>2, <3>3
    <2>3. ASSUME NEW d \in Devices, NEW op \in AdminOps, RequestAdmin(r, d, op)
          PROVE IInv'
      <3> DEFINE tx == [stage |-> "loaded", op |-> op, device |-> d,
                        seen |-> revoked[d]]
      <3>1. tx \in OfAdmin /\ tx \notin OfSession /\ tx.stage = "loaded"
        BY <1>0 DEF OfAdmin, OfSession, TypeOK, AdminOps
      <3>2. Enter(r, tx)
        BY <2>3 DEF RequestAdmin
      <3> HIDE DEF tx
      <3> QED
        BY <3>1, <3>2
    <2> QED
      BY <2>1, <2>2, <2>3 DEF Arrive
  <1>1. /\ request' = [request EXCEPT ![r] = tx] /\ UNCHANGED tables
        /\ sweeping' = sweeping /\ arrivals' \in 0 .. MaxArrivals /\ crashes' = crashes
    BY <1>0, DeploymentAssumption DEF Enter, TypeOK
  <1>2. /\ TableInv' /\ LockInv'
        /\ request' \in [Requests -> {Idle} \cup Loaded \cup Reserved
                                       \cup OfSession \cup OfAdmin]
    BY <1>0, <1>1, EntersStage
  <1>3. TypeOK'
    BY <1>0, <1>1, <1>2 DEF TypeOK, tables
  <1> QED
    BY <1>2, <1>3 DEF IInv

LEMMA LockDeviceStep ==
    ASSUME IInv, NEW r \in Requests, LockDevice(r)
    PROVE  IInv'
  <1>0. TypeOK /\ TableInv /\ LockInv
    BY DEF IInv
  <1> DEFINE tx == [request[r] EXCEPT !.stage = "device"]
  <1>1. request[r] \in Loaded \cup OfSession \cup OfAdmin
    BY <1>0, Shapes DEF LockDevice
  <1>2. /\ tx \in Loaded \cup OfSession \cup OfAdmin
        /\ tx.stage = "device" /\ tx.device = request[r].device
        /\ tx \in OfSession => request[r] \in OfSession /\ tx.session = request[r].session
    BY <1>1, StageMoves
  <1>3. /\ request' = [request EXCEPT ![r] = tx] /\ UNCHANGED tables
        /\ sweeping' = sweeping /\ arrivals' = arrivals /\ crashes' = crashes
    BY DEF LockDevice
  <1>4. tx \in OfSession =>
            tx.session \in SessionIds /\ Used(tx.session)
            /\ lease[tx.session].device = tx.device
    BY <1>0, <1>2 DEF LockInv, SessionsOwned, OfSession
  <1>5. \A p \in Requests \ {r} :
            request[p].stage \in {"idle", "loaded"} \/ request[p].device # tx.device
    BY <1>2 DEF LockDevice, DeviceFree, Running
  <1> HIDE DEF tx
  <1>6. /\ TableInv' /\ LockInv'
        /\ request' \in [Requests -> {Idle} \cup Loaded \cup Reserved
                                       \cup OfSession \cup OfAdmin]
    BY <1>0, <1>2, <1>3, <1>4, <1>5, EntersStage
  <1>7. TypeOK'
    BY <1>0, <1>3, <1>6 DEF TypeOK, tables
  <1> QED
    BY <1>6, <1>7 DEF IInv

LEMMA FinishKeeps ==
    ASSUME TypeOK, NEW r \in Requests, Finish(r)
    PROVE  /\ request' \in [Requests -> {Idle} \cup Loaded \cup Reserved
                                          \cup OfSession \cup OfAdmin]
           /\ \A p \in Requests : request'[p] = request[p] \/ request'[p] = Idle
           /\ request'[r] = Idle
           /\ \A p \in Requests : p # r => request'[p] = request[p]
  BY DEF TypeOK, Finish

\* Transactions end or are cut off, the tables stay.
LEMMA DropStep ==
    ASSUME IInv, UNCHANGED tables,
           request' \in [Requests -> {Idle} \cup Loaded \cup Reserved
                                        \cup OfSession \cup OfAdmin],
           \A p \in Requests : request'[p] = request[p] \/ request'[p] = Idle,
           sweeping' \in [Sweepers -> SUBSET SessionIds],
           \A w \in Sweepers : sweeping'[w] \subseteq sweeping[w],
           arrivals' \in 0 .. MaxArrivals, crashes' \in 0 .. MaxCrashes
    PROVE  IInv'
  <1>0. TypeOK /\ TableInv /\ LockInv
    BY DEF IInv
  <1>1. TableInv' /\ SameLeases /\ \A d \in Devices : ActiveOf(d)' = ActiveOf(d)
    BY <1>0, TablesUnchanged
  <1>2. \A s \in SessionIds : Used(s) => Used(s)' /\ lease'[s].device = lease[s].device
    BY <1>1 DEF SameLeases
  <1>3. \A p \in Requests : request'[p].stage = "reserved" =>
            address'[request[p].address] = "free"
    <2> SUFFICES ASSUME NEW p \in Requests, request'[p].stage = "reserved"
                 PROVE  address'[request[p].address] = "free"
      OBVIOUS
    <2>1. request[p].stage = "reserved"
      BY DEF Idle
    <2> QED
      BY <1>0, <2>1 DEF LockInv, ReservationHolds, tables
  <1>4. \A w \in Sweepers : \A s \in sweeping'[w] : Active(s)'
    BY <1>0 DEF LockInv, SweepsHold, tables, Active
  <1>5. LockInv'
    BY <1>0, <1>1, <1>2, <1>3, <1>4, LocksKept
  <1>6. TypeOK'
    BY <1>0 DEF TypeOK, tables
  <1> QED
    BY <1>1, <1>5, <1>6 DEF IInv

LEMMA RefuseStep ==
    ASSUME IInv, NEW r \in Requests, Refuse(r)
    PROVE  IInv'
  <1>1. TypeOK /\ Finish(r) /\ UNCHANGED <<tables, sweeping, arrivals, crashes>>
    BY DEF IInv, Refuse
  <1>2. /\ sweeping' \in [Sweepers -> SUBSET SessionIds]
        /\ arrivals' \in 0 .. MaxArrivals /\ crashes' \in 0 .. MaxCrashes
        /\ \A w \in Sweepers : sweeping'[w] \subseteq sweeping[w]
    BY <1>1 DEF TypeOK
  <1> QED
    BY <1>1, <1>2, FinishKeeps, DropStep

LEMMA CrashStep ==
    ASSUME IInv, Crash
    PROVE  IInv'
  <1>1. TypeOK
    BY DEF IInv
  <1>2. crashes' \in 0 .. MaxCrashes /\ arrivals' \in 0 .. MaxArrivals
    BY <1>1, DeploymentAssumption DEF Crash, TypeOK
  <1>3. /\ UNCHANGED tables
        /\ \A p \in Requests : request'[p] = Idle
        /\ request' \in [Requests -> {Idle} \cup Loaded \cup Reserved
                                       \cup OfSession \cup OfAdmin]
        /\ sweeping' \in [Sweepers -> SUBSET SessionIds]
        /\ \A w \in Sweepers : sweeping'[w] \subseteq sweeping[w]
    BY DEF Crash
  <1> QED
    BY <1>2, <1>3, DropStep

LEMMA LockAccessPointStep ==
    ASSUME IInv, NEW r \in Requests, LockAccessPoint(r)
    PROVE  IInv'
  <1>0. TypeOK /\ TableInv /\ LockInv
    BY DEF IInv
  <1>1. CASE Refuse(r)
    BY <1>1, RefuseStep
  <1>2. CASE ~Refuse(r)
    <2> DEFINE tx == [request[r] EXCEPT !.stage = "ap"]
    <2>1. request[r] \in Loaded /\ request[r].stage = "device"
      BY <1>0, Shapes DEF LockAccessPoint, At
    <2>2. /\ tx \in Loaded \cup OfSession \cup OfAdmin
          /\ tx.stage = "ap" /\ tx.device = request[r].device
          /\ tx \in OfSession => request[r] \in OfSession
      BY <2>1, StageMoves
    <2>3. tx \notin OfSession
      BY <2>1, <2>2 DEF Loaded, OfSession
    <2>4. /\ request' = [request EXCEPT ![r] = tx] /\ UNCHANGED tables
          /\ sweeping' = sweeping /\ arrivals' = arrivals /\ crashes' = crashes
      BY <1>2 DEF LockAccessPoint
    <2>5. \A p \in Requests \ {r} :
              request[p].stage \in {"idle", "loaded"} \/ request[p].device # tx.device
      BY <1>0, <2>1, <2>2 DEF LockInv, OneHolderPerDevice
    <2> HIDE DEF tx
    <2>6. /\ TableInv' /\ LockInv'
          /\ request' \in [Requests -> {Idle} \cup Loaded \cup Reserved
                                         \cup OfSession \cup OfAdmin]
      BY <1>0, <2>2, <2>3, <2>4, <2>5, EntersStage
    <2>7. TypeOK'
      BY <1>0, <2>4, <2>6 DEF TypeOK, tables
    <2> QED
      BY <2>6, <2>7 DEF IInv
  <1> QED
    BY <1>1, <1>2

LEMMA ReserveAddressStep ==
    ASSUME IInv, NEW r \in Requests, ReserveAddress(r)
    PROVE  IInv'
  <1>0. TypeOK /\ TableInv /\ LockInv
    BY DEF IInv
  <1>1. CASE Refuse(r)
    BY <1>1, RefuseStep
  <1>2. CASE ~Refuse(r)
    <2> DEFINE q == request[r]
               held == ActiveOf(q.device)
    <2>1. q \in Loaded /\ q.stage = "ap"
      BY <1>0, Shapes DEF ReserveAddress, At
    <2>2. q.device \in Devices /\ q.ap \in AccessPoints /\ q.key \in Keys \cup {NoKey}
      BY <2>1 DEF Loaded
    <2>3. \A s \in held : SessionFree(s)
      BY <1>2 DEF ReserveAddress
    <2>4. PICK x \in Reservable(q.ap), s \in held \cup {NoSession} :
              /\ held # {} => s # NoSession
              /\ request' = [request EXCEPT ![r] =
                    [stage |-> "reserved", op |-> "connect",
                     device |-> q.device, ap |-> q.ap, key |-> q.key,
                     session |-> s, address |-> x]]
              /\ UNCHANGED <<tables, sweeping, arrivals, crashes>>
      BY <1>2 DEF ReserveAddress
    <2> DEFINE tx == [stage |-> "reserved", op |-> "connect",
                      device |-> q.device, ap |-> q.ap, key |-> q.key,
                      session |-> s, address |-> x]
    <2>5. /\ x \in Addresses /\ address[x] = "free"
          /\ \A p \in Running : request[p].stage = "reserved" => request[p].address # x
      BY <2>2, DeploymentAssumption DEF Reservable
    <2>6. held \subseteq SessionIds
      BY DEF ActiveOf, LeasesOf
    <2>7. tx \in Reserved /\ tx.stage = "reserved" /\ tx.device = q.device
          /\ tx.session = s /\ tx.address = x /\ tx \notin OfSession
      BY <2>2, <2>5, <2>6 DEF Reserved, OfSession
    <2>8. request' = [request EXCEPT ![r] = tx] /\ UNCHANGED tables
          /\ sweeping' = sweeping /\ arrivals' = arrivals /\ crashes' = crashes
      BY <2>4
    <2>9. \A t \in held : t = s
      <3>1. \A t, u \in held : t = u
        BY <1>0, <2>2 DEF TableInv, CurrentLeaseIsNewest, ActiveOf, LeasesOf,
           TypeOK, Lease, NoLease, Active, Used
      <3> QED
        BY <3>1, <2>4
    <2>10. s # NoSession => s \in held /\ \A w \in Sweepers : s \notin sweeping[w]
      BY <2>3, <2>4 DEF SessionFree
    <2> HIDE DEF tx
    <2>11. /\ request'[r] = tx
           /\ \A p \in Requests : p # r => request'[p] = request[p]
           /\ request' \in [Requests -> {Idle} \cup Loaded \cup Reserved
                                          \cup OfSession \cup OfAdmin]
      BY <1>0, <2>7, <2>8 DEF TypeOK
    <2>12. TableInv' /\ \A d \in Devices : ActiveOf(d)' = ActiveOf(d)
      BY <1>0, <2>8, TablesUnchanged
    <2>13. OneHolderPerDevice'
      BY <1>0, <2>1, <2>7, <2>11 DEF LockInv, OneHolderPerDevice
    <2>14. SessionsOwned'
      BY <1>0, <2>7, <2>8, <2>11 DEF LockInv, SessionsOwned, tables, Used
    <2>15. ReservationHolds'
      <3> SUFFICES ASSUME NEW p \in Requests, request'[p].stage = "reserved",
                          NEW d \in Devices, d = request'[p].device
                   PROVE  /\ address'[request'[p].address] = "free"
                          /\ \A t \in ActiveOf(d)' : t = request'[p].session
                          /\ request'[p].session # NoSession =>
                                /\ request'[p].session \in ActiveOf(d)'
                                /\ \A w \in Sweepers :
                                      request'[p].session \notin sweeping'[w]
        <4>1. \A p \in Requests : request'[p].stage = "reserved" =>
                  request'[p].device \in Devices
          BY <2>2, <2>7, <2>11, <1>0, Shapes
        <4> QED
          BY <4>1 DEF ReservationHolds
      <3>1. CASE p = r
        BY <3>1, <2>5, <2>7, <2>8, <2>9, <2>10, <2>11, <2>12 DEF tables
      <3>2. CASE p # r
        BY <3>2, <1>0, <2>8, <2>11, <2>12 DEF tables, LockInv, ReservationHolds
      <3> QED
        BY <3>1, <3>2
    <2>16. OneHolderPerAddress'
      BY <1>0, <2>5, <2>7, <2>11 DEF LockInv, OneHolderPerAddress, Running
    <2>17. SweepsHold'
      BY <1>0, <2>8 DEF LockInv, SweepsHold, tables, Active
    <2>18. TypeOK'
      BY <1>0, <2>8, <2>11 DEF TypeOK, tables
    <2> QED
      BY <2>12, <2>13, <2>14, <2>15, <2>16, <2>17, <2>18 DEF IInv, LockInv
  <1> QED
    BY <1>1, <1>2

LEMMA SweepSelectStep ==
    ASSUME IInv, NEW w \in Sweepers, SweepSelect(w)
    PROVE  IInv'
  <1>0. TypeOK /\ TableInv /\ LockInv
    BY DEF IInv
  <1> DEFINE stale == {s \in SessionIds : Expired(s) /\ SessionFree(s)}
  <1>1. /\ sweeping' = [sweeping EXCEPT ![w] = stale]
        /\ UNCHANGED <<tables, request, arrivals, crashes>>
    BY DEF SweepSelect
  <1>2. /\ \A s \in stale : Active(s) /\ \A v \in Sweepers : s \notin sweeping[v]
        /\ \A s \in stale : \A p \in Requests :
              request[p].stage = "reserved" => request[p].session # s
        /\ stale \in SUBSET SessionIds
    BY DEF Expired, SessionFree, Running
  <1> HIDE DEF stale
  <1>3. TypeOK' /\ sweeping'[w] = stale /\ \A v \in Sweepers : v # w => sweeping'[v] = sweeping[v]
    BY <1>0, <1>1, <1>2 DEF TypeOK, tables
  <1>4. TableInv' /\ \A d \in Devices : ActiveOf(d)' = ActiveOf(d)
    BY <1>0, <1>1, TablesUnchanged
  <1>5. OneHolderPerDevice' /\ SessionsOwned' /\ OneHolderPerAddress'
    BY <1>0, <1>1 DEF LockInv, OneHolderPerDevice, SessionsOwned,
       OneHolderPerAddress, tables, Used
  <1>6. ReservationHolds'
    <2> SUFFICES ASSUME NEW p \in Requests, request[p].stage = "reserved",
                        NEW d \in Devices, d = request[p].device
                 PROVE  /\ address'[request[p].address] = "free"
                        /\ \A t \in ActiveOf(d)' : t = request[p].session
                        /\ request[p].session # NoSession =>
                              /\ request[p].session \in ActiveOf(d)'
                              /\ \A v \in Sweepers :
                                    request[p].session \notin sweeping'[v]
      <3>1. \A p \in Requests : request[p].stage = "reserved" =>
                request[p].device \in Devices
        BY <1>0, Shapes
      <3> QED
        BY <1>1, <3>1 DEF ReservationHolds
    <2>1. ActiveOf(d)' = ActiveOf(d) /\ address' = address
      BY <1>1, <1>4 DEF tables
    <2> QED
      BY <2>1, <1>0, <1>2, <1>3 DEF LockInv, ReservationHolds
  <1>7. SweepsHold'
    BY <1>0, <1>1, <1>2, <1>3 DEF LockInv, SweepsHold, tables, Active
  <1> QED
    BY <1>3, <1>4, <1>5, <1>6, <1>7 DEF IInv, LockInv

-----------------------------------------------------------------------------
(* Steps that release leases *)

\* lease' and the other tables after a release, as the lemmas below use them.
LEMMA ReleaseKeepsTables ==
    ASSUME TypeOK, TableInv, NEW S \in SUBSET SessionIds, \A s \in S : Active(s),
           NEW why \in Reasons, Release(S, why)
    PROVE  /\ TableInv'
           /\ lease' \in [SessionIds -> Lease \cup {NoLease}]
           /\ termination' \in [SessionIds -> Reasons \cup {"none"}]
           /\ address' \in [Addresses -> {"free", "allocated"}]
           /\ \A s \in SessionIds :
                 /\ Used(s)' <=> Used(s)
                 /\ Active(s)' <=> (Active(s) /\ s \notin S)
                 /\ Used(s) => lease'[s].device = lease[s].device
           /\ \A x \in Addresses : address[x] = "free" => address'[x] = "free"
           /\ \A d \in Devices : ActiveOf(d)' = ActiveOf(d) \ S
  <1>0. lease' = Closed(S) /\ termination' = Terminated(S, why) /\ address' = Returned(S)
    BY DEF Release
  <1>1. LedgerMatchesStatus
    BY DEF TableInv
  <1>2. /\ lease' \in [SessionIds -> Lease \cup {NoLease}]
        /\ termination' \in [SessionIds -> Reasons \cup {"none"}]
        /\ address' \in [Addresses -> {"free", "allocated"}]
    BY <1>0, <1>1, ReleaseEffect
  <1>3. \A s \in SessionIds :
          /\ Used(s)' <=> Used(s)
          /\ Active(s)' <=> (Active(s) /\ s \notin S)
          /\ Used(s) => /\ lease'[s].device = lease[s].device
                        /\ lease'[s].address = lease[s].address
                        /\ lease'[s].generation = lease[s].generation
    BY <1>0, <1>1, ReleaseEffect DEF Used, Active
  <1>4. \A s \in SessionIds :
          termination'[s] # "none" <=> (termination[s] # "none" \/ s \in S)
    BY <1>0, <1>1, ReleaseEffect
  <1>5. \A x \in Addresses :
          address'[x] = "allocated" <=>
              (address[x] = "allocated" /\ \A s \in S : lease[s].address # x)
    BY <1>0, <1>1, ReleaseEffect
  <1>6. \A s \in SessionIds : Active(s) => Used(s)
    BY DEF Active, Used
  <1>7. AddressesMatchLeases'
    BY <1>3, <1>5, <1>6 DEF TableInv, AddressesMatchLeases
  <1>8. LedgerMatchesStatus'
    BY <1>3, <1>4, <1>6 DEF TableInv, LedgerMatchesStatus
  <1>9. CurrentLeaseIsNewest'
    BY <1>3 DEF TableInv, CurrentLeaseIsNewest
  <1>10. NewestExists'
    <2>1. \A d \in Devices : LeasesOf(d)' = LeasesOf(d)
      BY <1>3 DEF LeasesOf
    <2>2. \A d \in Devices : \A s \in LeasesOf(d) :
              lease'[s].generation = lease[s].generation
      BY <1>3 DEF LeasesOf
    <2> QED
      BY <2>1, <2>2 DEF TableInv, NewestExists
  <1>11. \A d \in Devices : ActiveOf(d)' = ActiveOf(d) \ S
    BY <1>3 DEF ActiveOf, LeasesOf
  <1>12. \A x \in Addresses : address[x] = "free" => address'[x] = "free"
    BY <1>2, <1>5
  <1> QED
    BY <1>2, <1>3, <1>7, <1>8, <1>9, <1>10, <1>11, <1>12 DEF TableInv

\* A transaction releases leases that no other transaction has reserved and
\* no sweeper has locked, and ends.
LEMMA ReleaseStep ==
    ASSUME IInv, NEW S \in SUBSET SessionIds, \A s \in S : Active(s),
           NEW why \in Reasons, Release(S, why),
           request' \in [Requests -> {Idle} \cup Loaded \cup Reserved
                                        \cup OfSession \cup OfAdmin],
           \A p \in Requests : request'[p] = request[p] \/ request'[p] = Idle,
           \A p \in Requests : request'[p].stage = "reserved" =>
               \A s \in S : lease[s].device # request[p].device \/ s # request[p].session,
           sweeping' \in [Sweepers -> SUBSET SessionIds],
           \A w \in Sweepers : sweeping'[w] \subseteq sweeping[w] \ S,
           revoked' \in [Devices -> BOOLEAN],
           credential' \in [Devices -> {"issued", "unusable"}],
           arrivals' = arrivals, crashes' = crashes
    PROVE  IInv'
  <1>0. TypeOK /\ TableInv /\ LockInv
    BY DEF IInv
  <1>1. /\ TableInv'
        /\ lease' \in [SessionIds -> Lease \cup {NoLease}]
        /\ termination' \in [SessionIds -> Reasons \cup {"none"}]
        /\ address' \in [Addresses -> {"free", "allocated"}]
        /\ \A s \in SessionIds :
              /\ Used(s)' <=> Used(s)
              /\ Active(s)' <=> (Active(s) /\ s \notin S)
              /\ Used(s) => lease'[s].device = lease[s].device
        /\ \A x \in Addresses : address[x] = "free" => address'[x] = "free"
        /\ \A d \in Devices : ActiveOf(d)' = ActiveOf(d) \ S
    BY <1>0, ReleaseKeepsTables
  <1>2. \A p \in Requests : request'[p].stage = "reserved" =>
            address'[request[p].address] = "free"
    <2> SUFFICES ASSUME NEW p \in Requests, request'[p].stage = "reserved"
                 PROVE  address'[request[p].address] = "free"
      OBVIOUS
    <2>1. request[p].stage = "reserved"
      BY DEF Idle
    <2>2. request[p].address \in Addresses
      BY <1>0, <2>1, Shapes DEF Reserved
    <2> QED
      BY <1>0, <1>1, <2>1, <2>2 DEF LockInv, ReservationHolds
  <1>3. \A p \in Requests, d \in Devices :
            request'[p].stage = "reserved" /\ request[p].device = d =>
                ActiveOf(d)' = ActiveOf(d)
    <2> SUFFICES ASSUME NEW p \in Requests, NEW d \in Devices,
                        request'[p].stage = "reserved", request[p].device = d
                 PROVE  ActiveOf(d) \cap S = {}
      BY <1>1
    <2>1. request[p].stage = "reserved"
      BY DEF Idle
    <2>2. \A s \in ActiveOf(d) : s = request[p].session
      BY <1>0, <2>1 DEF LockInv, ReservationHolds
    <2>3. \A s \in ActiveOf(d) : lease[s].device = d
      BY DEF ActiveOf, LeasesOf
    <2> QED
      BY <2>2, <2>3
  <1>4. \A w \in Sweepers : \A s \in sweeping'[w] : Active(s)'
    BY <1>0, <1>1 DEF LockInv, SweepsHold
  <1>5. \A s \in SessionIds : Used(s) => Used(s)' /\ lease'[s].device = lease[s].device
    BY <1>1
  <1>6. \A w \in Sweepers : sweeping'[w] \subseteq sweeping[w]
    OBVIOUS
  <1>7. LockInv'
    BY <1>0, <1>2, <1>3, <1>4, <1>5, <1>6, LocksKept
  <1>8. TypeOK'
    BY <1>0, <1>1 DEF TypeOK
  <1> QED
    BY <1>1, <1>7, <1>8 DEF IInv

LEMMA CloseSessionStep ==
    ASSUME IInv, NEW r \in Requests, CloseSession(r)
    PROVE  IInv'
  <1>0. TypeOK /\ TableInv /\ LockInv
    BY DEF IInv
  <1> DEFINE s == request[r].session
             S == IF Active(s) THEN {s} ELSE {}
  <1>1. request[r] \in OfSession /\ s \in SessionIds /\ request[r].stage = "device"
    BY <1>0, Shapes DEF CloseSession, OfSession, At
  <1>2. lease[s].device = request[r].device
    BY <1>0, <1>1 DEF LockInv, SessionsOwned
  <1>3. S \in SUBSET SessionIds /\ \A t \in S : Active(t) /\ t = s
    BY <1>1
  <1>4. /\ Release(S, "client_close") /\ Finish(r)
        /\ UNCHANGED <<revoked, credential, sweeping, arrivals, crashes>>
        /\ \A w \in Sweepers : s \notin sweeping[w]
    BY DEF CloseSession, SessionFree
  <1>5. /\ request' \in [Requests -> {Idle} \cup Loaded \cup Reserved
                                      \cup OfSession \cup OfAdmin]
        /\ \A p \in Requests : request'[p] = request[p] \/ request'[p] = Idle
        /\ request'[r] = Idle
        /\ \A p \in Requests : p # r => request'[p] = request[p]
    BY <1>0, <1>4, FinishKeeps
  <1>6. \A p \in Requests : request'[p].stage = "reserved" =>
            \A t \in S : lease[t].device # request[p].device \/ t # request[p].session
    <2>1. \A p \in Requests : request'[p].stage = "reserved" =>
              request[p].stage = "reserved" /\ p # r
      BY <1>5 DEF Idle
    <2>2. \A p \in Requests : request[p].stage = "reserved" /\ p # r =>
              request[p].device # request[r].device
      BY <1>0, <1>1 DEF LockInv, OneHolderPerDevice
    <2> QED
      BY <2>1, <2>2, <1>2, <1>3
  <1>7. /\ sweeping' \in [Sweepers -> SUBSET SessionIds]
        /\ \A w \in Sweepers : sweeping'[w] \subseteq sweeping[w] \ S
        /\ revoked' \in [Devices -> BOOLEAN]
        /\ credential' \in [Devices -> {"issued", "unusable"}]
        /\ arrivals' = arrivals /\ crashes' = crashes /\ "client_close" \in Reasons
    BY <1>0, <1>3, <1>4 DEF TypeOK, Reasons
  <1> HIDE DEF S
  <1> QED
    BY <1>3, <1>4, <1>5, <1>6, <1>7, ReleaseStep

LEMMA RevokeDeviceStep ==
    ASSUME IInv, NEW r \in Requests, RevokeDevice(r)
    PROVE  IInv'
  <1>0. TypeOK /\ TableInv /\ LockInv
    BY DEF IInv
  <1> DEFINE d == request[r].device
             S == ActiveOf(d)
  <1>1. request[r] \in OfAdmin /\ d \in Devices /\ request[r].seen \in BOOLEAN
        /\ request[r].stage = "device"
    BY <1>0, Shapes DEF RevokeDevice, OfAdmin, AdminOps, At
  <1>2. S \in SUBSET SessionIds /\ \A t \in S : Active(t) /\ lease[t].device = d
    BY DEF ActiveOf, LeasesOf
  <1>3. /\ Release(S, "revoked") /\ Finish(r)
        /\ UNCHANGED <<sweeping, arrivals, crashes>>
        /\ \A t \in S : \A w \in Sweepers : t \notin sweeping[w]
        /\ revoked' = RevokedSetTo(request[r], TRUE)
        /\ credential' = IF request[r].seen THEN credential
                         ELSE [credential EXCEPT ![d] = "unusable"]
    BY DEF RevokeDevice, SessionFree
  <1>4. /\ request' \in [Requests -> {Idle} \cup Loaded \cup Reserved
                                      \cup OfSession \cup OfAdmin]
        /\ \A p \in Requests : request'[p] = request[p] \/ request'[p] = Idle
        /\ request'[r] = Idle
        /\ \A p \in Requests : p # r => request'[p] = request[p]
    BY <1>0, <1>3, FinishKeeps
  <1>5. \A p \in Requests : request'[p].stage = "reserved" =>
            \A t \in S : lease[t].device # request[p].device \/ t # request[p].session
    <2>1. \A p \in Requests : request'[p].stage = "reserved" =>
              request[p].stage = "reserved" /\ p # r
      BY <1>4 DEF Idle
    <2>2. \A p \in Requests : request[p].stage = "reserved" /\ p # r =>
              request[p].device # d
      BY <1>0, <1>1 DEF LockInv, OneHolderPerDevice
    <2> QED
      BY <2>1, <2>2, <1>2
  <1>6. revoked' \in [Devices -> BOOLEAN]
    BY <1>0, <1>1, <1>3 DEF TypeOK, RevokedSetTo
  <1>7. credential' \in [Devices -> {"issued", "unusable"}]
    BY <1>0, <1>3 DEF TypeOK
  <1>8. /\ sweeping' \in [Sweepers -> SUBSET SessionIds]
        /\ \A w \in Sweepers : sweeping'[w] \subseteq sweeping[w] \ S
        /\ arrivals' = arrivals /\ crashes' = crashes /\ "revoked" \in Reasons
    BY <1>0, <1>3 DEF TypeOK, Reasons
  <1> HIDE DEF S
  <1> QED
    BY <1>2, <1>3, <1>4, <1>5, <1>6, <1>7, <1>8, ReleaseStep

LEMMA SweepCommitStep ==
    ASSUME IInv, NEW w \in Sweepers, SweepCommit(w)
    PROVE  IInv'
  <1>0. TypeOK /\ TableInv /\ LockInv
    BY DEF IInv
  <1> DEFINE S == sweeping[w]
  <1>1. S \in SUBSET SessionIds /\ \A s \in S : Active(s)
    BY <1>0 DEF LockInv, SweepsHold, TypeOK
  <1>2. /\ Release(S, "heartbeat_timeout") /\ "heartbeat_timeout" \in Reasons
        /\ sweeping' = [sweeping EXCEPT ![w] = {}]
        /\ UNCHANGED <<revoked, credential, request, arrivals, crashes>>
    BY DEF SweepCommit, TimeoutReason, Reasons
  <1>3. /\ request' \in [Requests -> {Idle} \cup Loaded \cup Reserved
                                      \cup OfSession \cup OfAdmin]
        /\ \A p \in Requests : request'[p] = request[p]
        /\ revoked' \in [Devices -> BOOLEAN]
        /\ credential' \in [Devices -> {"issued", "unusable"}]
    BY <1>0, <1>2 DEF TypeOK
  <1>4. sweeping' \in [Sweepers -> SUBSET SessionIds]
    BY <1>0, <1>2 DEF TypeOK
  <1>5. \A v \in Sweepers : sweeping'[v] \subseteq sweeping[v] \ S
    <2>1. \A v \in Sweepers : v # w => sweeping[v] \cap S = {}
      BY <1>0 DEF LockInv, SweepsHold
    <2>2. \A v \in Sweepers : sweeping'[v] = IF v = w THEN {} ELSE sweeping[v]
      BY <1>0, <1>2 DEF TypeOK
    <2> QED
      BY <2>1, <2>2
  <1>6. \A p \in Requests : request'[p].stage = "reserved" =>
            \A s \in S : lease[s].device # request[p].device \/ s # request[p].session
    <2>1. \A s \in S : s # NoSession
      BY <1>1 DEF SessionIds, NoSession
    <2> QED
      BY <2>1, <1>0, <1>3 DEF LockInv, ReservationHolds
  <1> HIDE DEF S
  <1> QED
    BY <1>1, <1>2, <1>3, <1>4, <1>5, <1>6, ReleaseStep

-----------------------------------------------------------------------------
(* The commit of connect: the old generation ends, its successor begins    *)

LEMMA CommitConnectStep ==
    ASSUME IInv, NEW r \in Requests, CommitConnect(r)
    PROVE  IInv'
  <1>0. TypeOK /\ TableInv /\ LockInv /\ LedgerMatchesStatus
    BY DEF IInv, TableInv
  <1> DEFINE q == request[r]
             d == q.device
             a == q.address
             old == {q.session} \ {NoSession}
  <1>1. /\ request[r] \in Reserved /\ q.stage = "reserved" /\ d \in Devices
        /\ a \in Addresses /\ q.ap \in AccessPoints /\ q.key \in Keys \cup {NoKey}
    BY <1>0, Shapes DEF CommitConnect, At, Reserved
  <1>2. /\ address[a] = "free"
        /\ \A s \in ActiveOf(d) : s \in old
        /\ \A s \in old : s \in ActiveOf(d) /\ \A w \in Sweepers : s \notin sweeping[w]
    <2>1. /\ address[a] = "free"
          /\ \A s \in ActiveOf(d) : s = q.session
          /\ q.session # NoSession =>
                q.session \in ActiveOf(d) /\ \A w \in Sweepers : q.session \notin sweeping[w]
      BY <1>0, <1>1 DEF LockInv, ReservationHolds
    <2>2. NoSession \notin ActiveOf(d)
      BY DEF ActiveOf, LeasesOf, SessionIds, NoSession
    <2> QED
      BY <2>1, <2>2
  <1>3. old \in SUBSET SessionIds /\ \A s \in old : Active(s) /\ lease[s].device = d
    BY <1>2 DEF ActiveOf, LeasesOf
  <1>4. PICK n \in SessionIds :
            /\ ~Used(n)
            /\ lease' = [Closed(old) EXCEPT ![n] =
                  [device |-> d, ap |-> q.ap, address |-> a,
                   generation |-> NextGeneration(d), key |-> q.key,
                   status |-> "active", fresh |-> TRUE]]
    BY DEF CommitConnect
  <1> DEFINE new == [device |-> d, ap |-> q.ap, address |-> a,
                     generation |-> NextGeneration(d), key |-> q.key,
                     status |-> "active", fresh |-> TRUE]
  <1>5. /\ termination' = Terminated(old, "reconnect")
        /\ address' = [Returned(old) EXCEPT ![a] = "allocated"]
        /\ Finish(r)
        /\ UNCHANGED <<revoked, credential, sweeping, arrivals, crashes>>
    BY DEF CommitConnect
  <1>6. "reconnect" \in Reasons
    BY DEF Reasons
  <1>7. /\ NextGeneration(d) \in Nat
        /\ \A t \in LeasesOf(d) : lease[t].generation < NextGeneration(d)
    BY <1>0, <1>1, NextGenerationIsNewer DEF TableInv
  <1>8. /\ new \in Lease /\ new.device = d /\ new.address = a /\ new.status = "active"
        /\ new.generation = NextGeneration(d) /\ lease' = [Closed(old) EXCEPT ![n] = new]
    BY <1>1, <1>4, <1>7 DEF Lease
  <1> HIDE DEF new, old
  <1>9. /\ lease' \in [SessionIds -> Lease \cup {NoLease}]
        /\ lease'[n] = new
        /\ Used(n)' /\ Active(n)'
        /\ \A s \in SessionIds : s # n =>
              /\ Used(s)' <=> Used(s)
              /\ Active(s)' <=> (Active(s) /\ s \notin old)
              /\ Used(s) => /\ lease'[s].device = lease[s].device
                            /\ lease'[s].address = lease[s].address
                            /\ lease'[s].generation = lease[s].generation
    BY <1>0, <1>3, <1>6, <1>8, ReleaseEffect DEF Used, Active
  <1>10. /\ termination' \in [SessionIds -> Reasons \cup {"none"}]
         /\ \A s \in SessionIds :
               termination'[s] # "none" <=> (termination[s] # "none" \/ s \in old)
    BY <1>0, <1>3, <1>5, <1>6, ReleaseEffect
  <1>11. /\ address' \in [Addresses -> {"free", "allocated"}]
         /\ \A x \in Addresses :
               address'[x] = "allocated" <=>
                   (x = a \/ (address[x] = "allocated" /\ \A s \in old : lease[s].address # x))
    <2>1. /\ Returned(old) \in [Addresses -> {"free", "allocated"}]
          /\ \A x \in Addresses :
                Returned(old)[x] = "allocated" <=>
                    (address[x] = "allocated" /\ \A s \in old : lease[s].address # x)
      BY <1>0, <1>3, <1>6, ReleaseEffect
    <2> QED
      BY <2>1, <1>1, <1>5
  <1>12. \A s \in SessionIds : Active(s) => Used(s)
    BY DEF Active, Used
  <1>13. AddressesMatchLeases'
    <2>1. \A s \in SessionIds : Active(s) => lease[s].address # a
      BY <1>0, <1>1, <1>2 DEF TableInv, AddressesMatchLeases
    <2>2. \A x \in Addresses :
              address[x] = "allocated" <=>
                  \E s \in SessionIds : Active(s) /\ lease[s].address = x
      BY <1>0 DEF TableInv, AddressesMatchLeases
    <2>3. \A s, t \in SessionIds :
              Active(s) /\ Active(t) /\ lease[s].address = lease[t].address => s = t
      BY <1>0 DEF TableInv, AddressesMatchLeases
    <2>4. \A s, t \in SessionIds :
              Active(s)' /\ Active(t)' /\ lease'[s].address = lease'[t].address => s = t
      BY <2>1, <2>3, <1>8, <1>9, <1>12
    <2>5. \A x \in Addresses :
              address'[x] = "allocated" <=>
                  \E s \in SessionIds : Active(s)' /\ lease'[s].address = x
      <3> SUFFICES ASSUME NEW x \in Addresses
                   PROVE  address'[x] = "allocated" <=>
                             \E s \in SessionIds : Active(s)' /\ lease'[s].address = x
        OBVIOUS
      <3>1. CASE x = a
        BY <3>1, <1>8, <1>9, <1>11
      <3>2. CASE x # a
        <4>1. ASSUME address[x] = "allocated", \A s \in old : lease[s].address # x
              PROVE  \E s \in SessionIds : Active(s)' /\ lease'[s].address = x
          <5>1. PICK s \in SessionIds : Active(s) /\ lease[s].address = x
            BY <4>1, <2>2
          <5>2. s \notin old /\ s # n
            BY <4>1, <5>1, <1>4, <1>12
          <5> QED
            BY <5>1, <5>2, <1>9, <1>12
        <4>2. ASSUME NEW s \in SessionIds, Active(s)', lease'[s].address = x
              PROVE  address[x] = "allocated" /\ \A t \in old : lease[t].address # x
          <5>1. s # n
            BY <4>2, <3>2, <1>8, <1>9
          <5>2. Active(s) /\ s \notin old /\ lease[s].address = x
            BY <4>2, <5>1, <1>9, <1>12
          <5> QED
            BY <5>2, <2>2, <2>3, <1>3
        <4> QED
          BY <3>2, <4>1, <4>2, <1>11
      <3> QED
        BY <3>1, <3>2
    <2> QED
      BY <2>4, <2>5 DEF AddressesMatchLeases
  <1>14. LedgerMatchesStatus'
    <2>1. \A s \in old : s # n
      BY <1>3, <1>4, <1>12
    <2>2. \A s \in SessionIds : (Used(s) /\ ~Active(s)) <=> termination[s] # "none"
      BY <1>0 DEF LedgerMatchesStatus
    <2>3. ASSUME NEW s \in SessionIds
          PROVE (Used(s)' /\ ~Active(s)') <=> termination'[s] # "none"
      <3>1. CASE s = n
        BY <3>1, <2>1, <2>2, <1>4, <1>9, <1>10
      <3>2. CASE s # n
        BY <3>2, <2>2, <1>3, <1>9, <1>10, <1>12
      <3> QED
        BY <3>1, <3>2
    <2> QED
      BY <2>3 DEF LedgerMatchesStatus
  <1>15. \A t \in SessionIds : t # n /\ Used(t)' /\ lease'[t].device = d =>
             lease'[t].generation < lease'[n].generation /\ ~Active(t)'
    <2> SUFFICES ASSUME NEW t \in SessionIds, t # n, Used(t)', lease'[t].device = d
                 PROVE  lease'[t].generation < lease'[n].generation /\ ~Active(t)'
      OBVIOUS
    <2>1. t \in LeasesOf(d) /\ lease'[t].generation = lease[t].generation
      BY <1>9 DEF LeasesOf
    <2>2. Active(t) => t \in old
      BY <1>2, <2>1 DEF ActiveOf
    <2> QED
      BY <2>1, <2>2, <1>7, <1>8, <1>9
  <1>16. \A s \in SessionIds : Used(s)' => lease'[s].generation \in Nat
    BY <1>9 DEF Lease, NoLease, Used
  <1>17. CurrentLeaseIsNewest'
    <2> SUFFICES ASSUME NEW s \in SessionIds, NEW t \in SessionIds,
                        Used(s)', Used(t)', s # t, lease'[s].device = lease'[t].device
                 PROVE  /\ lease'[s].generation # lease'[t].generation
                        /\ Active(s)' => lease'[s].generation > lease'[t].generation
      BY DEF CurrentLeaseIsNewest
    <2>1. CASE s = n
      BY <2>1, <1>8, <1>9, <1>15, <1>16
    <2>2. CASE t = n
      BY <2>2, <1>8, <1>9, <1>15, <1>16
    <2>3. CASE s # n /\ t # n
      BY <2>3, <1>0, <1>9 DEF TableInv, CurrentLeaseIsNewest
    <2> QED
      BY <2>1, <2>2, <2>3
  <1>18. NewestExists'
    <2> SUFFICES ASSUME NEW e \in Devices, LeasesOf(e)' # {}
                 PROVE  \E s \in LeasesOf(e)' : \A t \in LeasesOf(e)' :
                            lease'[t].generation <= lease'[s].generation
      BY DEF NewestExists
    <2>1. CASE e = d
      <3>1. n \in LeasesOf(e)'
        BY <2>1, <1>8, <1>9 DEF LeasesOf
      <3>2. \A t \in LeasesOf(e)' : t \in SessionIds /\ Used(t)' /\ lease'[t].device = d
        BY <2>1 DEF LeasesOf
      <3>3. \A t \in LeasesOf(e)' : lease'[t].generation <= lease'[n].generation
        BY <3>2, <1>9, <1>15, <1>16
      <3> QED
        BY <3>1, <3>3
    <2>2. CASE e # d
      <3>1. LeasesOf(e)' = LeasesOf(e)
        BY <2>2, <1>4, <1>8, <1>9 DEF LeasesOf
      <3>2. \A t \in LeasesOf(e) : lease'[t].generation = lease[t].generation
        BY <3>1, <1>4, <1>9 DEF LeasesOf
      <3> QED
        BY <3>1, <3>2, <1>0 DEF TableInv, NewestExists
    <2> QED
      BY <2>1, <2>2
  <1>19. /\ request' \in [Requests -> {Idle} \cup Loaded \cup Reserved
                                       \cup OfSession \cup OfAdmin]
         /\ \A p \in Requests : request'[p] = request[p] \/ request'[p] = Idle
         /\ request'[r] = Idle
         /\ \A p \in Requests : p # r => request'[p] = request[p]
    BY <1>0, <1>5, FinishKeeps
  <1>20. \A p \in Requests : request'[p].stage = "reserved" =>
             /\ request[p].stage = "reserved"
             /\ request[p].device # d /\ request[p].device \in Devices
             /\ request[p].address # a /\ request[p].address \in Addresses
    <2> SUFFICES ASSUME NEW p \in Requests, request'[p].stage = "reserved"
                 PROVE  /\ request[p].stage = "reserved"
                        /\ request[p].device # d /\ request[p].device \in Devices
                        /\ request[p].address # a /\ request[p].address \in Addresses
      OBVIOUS
    <2>1. request[p].stage = "reserved" /\ p # r
      BY <1>19 DEF Idle
    <2>2. request[p].device \in Devices /\ request[p].address \in Addresses
      BY <2>1, <1>0, Shapes DEF Reserved
    <2> QED
      BY <2>1, <2>2, <1>0, <1>1 DEF LockInv, OneHolderPerDevice, OneHolderPerAddress
  <1>21. \A p \in Requests : request'[p].stage = "reserved" =>
             address'[request[p].address] = "free"
    <2> SUFFICES ASSUME NEW p \in Requests, request'[p].stage = "reserved"
                 PROVE  address'[request[p].address] = "free"
      OBVIOUS
    <2>1. address[request[p].address] = "free"
      BY <1>0, <1>20 DEF LockInv, ReservationHolds
    <2> QED
      BY <2>1, <1>11, <1>20
  <1>22. \A e \in Devices : e # d => ActiveOf(e)' = ActiveOf(e)
    BY <1>3, <1>4, <1>8, <1>9, <1>12 DEF ActiveOf, LeasesOf
  <1>23. \A p \in Requests, e \in Devices :
             request'[p].stage = "reserved" /\ request[p].device = e =>
                 ActiveOf(e)' = ActiveOf(e)
    BY <1>20, <1>22
  <1>24. \A s \in SessionIds : Used(s) => Used(s)' /\ lease'[s].device = lease[s].device
    BY <1>4, <1>9
  <1>25. \A w \in Sweepers : \A s \in sweeping'[w] : Active(s)'
    <2> SUFFICES ASSUME NEW w \in Sweepers, NEW s \in sweeping'[w] PROVE Active(s)'
      OBVIOUS
    <2>1. s \in sweeping[w] /\ s \in SessionIds /\ Active(s)
      BY <1>0, <1>5 DEF LockInv, SweepsHold, TypeOK
    <2>2. s \notin old
      BY <1>2, <2>1
    <2> QED
      BY <2>1, <2>2, <1>4, <1>9, <1>12
  <1>26. \A w \in Sweepers : sweeping'[w] \subseteq sweeping[w]
    BY <1>5
  <1>27. LockInv'
    BY <1>0, <1>19, <1>21, <1>23, <1>24, <1>25, <1>26, LocksKept
  <1>28. TypeOK'
    BY <1>0, <1>5, <1>9, <1>10, <1>11, <1>19 DEF TypeOK
  <1> QED
    BY <1>13, <1>14, <1>17, <1>18, <1>27, <1>28 DEF IInv, TableInv

-----------------------------------------------------------------------------
(* Steps that keep every lease's status, and the theorems                  *)

\* Only "fresh" of one lease, or a device's flags, change.
LEMMA FlagStep ==
    ASSUME IInv,
           \/ lease' = lease
           \/ \E s \in SessionIds, b \in BOOLEAN :
                 Active(s) /\ lease' = [lease EXCEPT ![s].fresh = b],
           UNCHANGED <<termination, address, sweeping, arrivals, crashes>>,
           revoked' \in [Devices -> BOOLEAN],
           credential' \in [Devices -> {"issued", "unusable"}],
           request' \in [Requests -> {Idle} \cup Loaded \cup Reserved
                                        \cup OfSession \cup OfAdmin],
           \A p \in Requests : request'[p] = request[p] \/ request'[p] = Idle
    PROVE  IInv'
  <1>0. TypeOK /\ TableInv /\ LockInv
    BY DEF IInv
  <1>1. SameLeases /\ lease' \in [SessionIds -> Lease \cup {NoLease}]
    <2>1. CASE lease' = lease
      BY <1>0, <2>1 DEF SameLeases, Used, Active, TypeOK
    <2>2. CASE \E s \in SessionIds, b \in BOOLEAN :
                  Active(s) /\ lease' = [lease EXCEPT ![s].fresh = b]
      <3>1. PICK s \in SessionIds, b \in BOOLEAN :
                Active(s) /\ lease' = [lease EXCEPT ![s].fresh = b]
        BY <2>2
      <3> DEFINE new == [lease[s] EXCEPT !.fresh = b]
      <3>2. lease[s] \in Lease
        BY <1>0, <3>1 DEF TypeOK, Active, NoLease
      <3>3. /\ new \in Lease /\ new.device = lease[s].device
            /\ new.address = lease[s].address /\ new.generation = lease[s].generation
            /\ new.status = lease[s].status
        BY <3>2 DEF Lease
      <3>4. lease' = [lease EXCEPT ![s] = new]
        BY <3>1
      <3> HIDE DEF new
      <3> QED
        BY <3>3, <3>4, <1>0 DEF SameLeases, Used, Active, TypeOK
    <2> QED
      BY <2>1, <2>2
  <1>2. TableInv'
    BY <1>0, <1>1, TablesKept
  <1>3. \A s \in SessionIds : Used(s) => Used(s)' /\ lease'[s].device = lease[s].device
    BY <1>1 DEF SameLeases
  <1>4. \A d \in Devices : ActiveOf(d)' = ActiveOf(d)
    BY <1>1 DEF SameLeases, ActiveOf, LeasesOf
  <1>5. \A p \in Requests : request'[p].stage = "reserved" =>
            address'[request[p].address] = "free"
    <2> SUFFICES ASSUME NEW p \in Requests, request'[p].stage = "reserved"
                 PROVE  address'[request[p].address] = "free"
      OBVIOUS
    <2>1. request[p].stage = "reserved"
      BY DEF Idle
    <2> QED
      BY <1>0, <2>1 DEF LockInv, ReservationHolds
  <1>6. \A w \in Sweepers : \A s \in sweeping'[w] : Active(s)'
    <2>1. \A w \in Sweepers : \A s \in sweeping'[w] : s \in SessionIds /\ Active(s)
      BY <1>0 DEF LockInv, SweepsHold, TypeOK
    <2> QED
      BY <2>1, <1>1 DEF SameLeases
  <1>7. LockInv'
    BY <1>0, <1>3, <1>4, <1>5, <1>6, LocksKept
  <1>8. TypeOK'
    BY <1>0, <1>1 DEF TypeOK
  <1> QED
    BY <1>2, <1>7, <1>8 DEF IInv

LEMMA HeartbeatStep ==
    ASSUME IInv, NEW r \in Requests, Heartbeat(r)
    PROVE  IInv'
  <1>0. TypeOK
    BY DEF IInv
  <1> DEFINE s == request[r].session
  <1>1. s \in SessionIds
    BY <1>0, Shapes DEF Heartbeat, OfSession
  <1>2. /\ lease' = lease \/ (Active(s) /\ lease' = [lease EXCEPT ![s].fresh = TRUE])
        /\ Finish(r)
        /\ UNCHANGED <<revoked, credential, termination, address, sweeping,
                       arrivals, crashes>>
    BY DEF Heartbeat, Beatable
  <1>3. \/ lease' = lease
        \/ \E t \in SessionIds, b \in BOOLEAN :
              Active(t) /\ lease' = [lease EXCEPT ![t].fresh = b]
    <2> HIDE DEF s
    <2> QED
      BY <1>1, <1>2
  <1>4. /\ revoked' \in [Devices -> BOOLEAN]
        /\ credential' \in [Devices -> {"issued", "unusable"}]
    BY <1>0, <1>2 DEF TypeOK
  <1> QED
    BY <1>0, <1>2, <1>3, <1>4, FinishKeeps, FlagStep

LEMMA ElapseStep ==
    ASSUME IInv, NEW s \in SessionIds, Elapse(s)
    PROVE  IInv'
  <1>0. TypeOK
    BY DEF IInv
  <1>1. \E t \in SessionIds, b \in BOOLEAN :
            Active(t) /\ lease' = [lease EXCEPT ![t].fresh = b]
    BY DEF Elapse
  <1>2. UNCHANGED <<revoked, credential, termination, address, request,
                    sweeping, arrivals, crashes>>
    BY DEF Elapse
  <1>3. /\ revoked' \in [Devices -> BOOLEAN]
        /\ credential' \in [Devices -> {"issued", "unusable"}]
        /\ request' \in [Requests -> {Idle} \cup Loaded \cup Reserved
                                      \cup OfSession \cup OfAdmin]
        /\ \A p \in Requests : request'[p] = request[p] \/ request'[p] = Idle
    BY <1>0, <1>2 DEF TypeOK
  <1> QED
    BY <1>1, <1>2, <1>3, FlagStep

LEMMA CredentialStep ==
    ASSUME IInv, NEW r \in Requests, ReissueToken(r) \/ ReinstateDevice(r)
    PROVE  IInv'
  <1>0. TypeOK
    BY DEF IInv
  <1>1. request[r].device \in Devices
    BY <1>0, Shapes DEF ReissueToken, ReinstateDevice, At, AdminOps, OfAdmin
  <1>2. /\ Finish(r)
        /\ UNCHANGED <<lease, termination, address, sweeping, arrivals, crashes>>
    BY DEF ReissueToken, ReinstateDevice
  <1>3. revoked' \in [Devices -> BOOLEAN]
    BY <1>0 DEF ReissueToken, ReinstateDevice, RevokedSetTo, TypeOK
  <1>4. credential' \in [Devices -> {"issued", "unusable"}]
    BY <1>0 DEF ReissueToken, ReinstateDevice, Reinstated, Handed, TypeOK
  <1> QED
    BY <1>0, <1>2, <1>3, <1>4, FinishKeeps, FlagStep

\* The invariant is inductive.
THEOREM StepPreserves == IInv /\ [Next]_vars => IInv'
  <1> SUFFICES ASSUME IInv, [Next]_vars PROVE IInv'
    OBVIOUS
  <1>0. TypeOK
    BY DEF IInv
  <1>1. ASSUME NEW r \in Requests, Arrive(r) PROVE IInv'
    BY <1>1, ArriveStep
  <1>2. ASSUME NEW r \in Requests, Proceed(r) PROVE IInv'
    BY <1>2, LockDeviceStep, LockAccessPointStep, ReserveAddressStep,
       CommitConnectStep, HeartbeatStep, CloseSessionStep, RevokeDeviceStep,
       CredentialStep DEF Proceed
  <1>3. ASSUME NEW w \in Sweepers, SweepSelect(w) \/ SweepCommit(w) PROVE IInv'
    BY <1>3, SweepSelectStep, SweepCommitStep
  <1>4. ASSUME NEW s \in SessionIds, Elapse(s) PROVE IInv'
    BY <1>4, ElapseStep
  <1>5. CASE Crash
    BY <1>5, CrashStep
  <1>6. CASE UNCHANGED vars
    <2>1. /\ UNCHANGED tables /\ request' = request /\ sweeping' = sweeping
          /\ arrivals' = arrivals /\ crashes' = crashes
      BY <1>6 DEF vars, tables
    <2>2. /\ request' \in [Requests -> {Idle} \cup Loaded \cup Reserved
                                        \cup OfSession \cup OfAdmin]
          /\ sweeping' \in [Sweepers -> SUBSET SessionIds]
          /\ arrivals' \in 0 .. MaxArrivals /\ crashes' \in 0 .. MaxCrashes
      BY <1>0, <2>1 DEF TypeOK
    <2> QED
      BY <2>1, <2>2, DropStep
  <1> QED
    BY <1>1, <1>2, <1>3, <1>4, <1>5, <1>6 DEF Next, Rest

THEOREM Invariance == Spec => []IInv
  BY InitEstablishes, StepPreserves, PTL DEF Spec

\* The tables of leases, terminations and addresses and the open transactions
\* are well typed, whatever the interleaving (models.py:70-201).
THEOREM TypeCorrect == Spec => []TypeOK
  <1>1. IInv => TypeOK
    BY DEF IInv
  <1> QED
    BY <1>1, Invariance, PTL

\* No address is leaked, freed under its lease, or handed out twice
\* (leasing.py:9-17).
THEOREM AddressesAreLeased == Spec => []AddressesMatchLeases
  <1>1. IInv => AddressesMatchLeases
    BY DEF IInv, TableInv
  <1> QED
    BY <1>1, Invariance, PTL

\* A lease is closed exactly when its one termination record exists
\* (leasing.py:79-106).
THEOREM LedgerIsExact == Spec => []LedgerMatchesStatus
  <1>1. IInv => LedgerMatchesStatus
    BY DEF IInv, TableInv
  <1> QED
    BY <1>1, Invariance, PTL

\* A device has at most one active lease, of its highest generation, with or
\* without the partial unique index (leasing.py:13-20).
THEOREM CurrentIsNewest == Spec => []CurrentLeaseIsNewest
  <1>1. IInv => CurrentLeaseIsNewest
    BY DEF IInv, TableInv
  <1> QED
    BY <1>1, Invariance, PTL

-----------------------------------------------------------------------------
(* What a step may do to the leases: all of them but the commit of connect *)
(* only end leases, and none brings a used session row back.               *)

Shrinks ==
    \A s \in SessionIds : Active(s)' =>
        /\ Active(s)
        /\ lease'[s].ap = lease[s].ap
        /\ lease'[s].device = lease[s].device

Beats ==
    \A s \in SessionIds : Used(s) =>
        /\ Active(s)' => Active(s)
        /\ ~lease[s].fresh /\ lease'[s].fresh => Active(s)

\* Releasing keeps what a lease is of; ReleaseEffect says the rest.
LEMMA ReleaseKeepsPoint ==
    ASSUME TypeOK, NEW S \in SUBSET SessionIds, \A s \in S : Active(s)
    PROVE  \A s \in SessionIds : Used(s) => Closed(S)[s].ap = lease[s].ap
  <1> SUFFICES ASSUME NEW s \in SessionIds, Used(s)
               PROVE  Closed(S)[s].ap = lease[s].ap
    OBVIOUS
  <1>1. lease[s] \in Lease
    BY DEF TypeOK, Used, NoLease
  <1>2. Closed(S)[s] = [lease[s] EXCEPT !.status = "closed"] \/ Closed(S)[s] = lease[s]
    BY DEF Closed
  <1> QED
    BY <1>1, <1>2 DEF Lease

LEMMA ReleaseShrinks ==
    ASSUME TypeOK, LedgerMatchesStatus, NEW S \in SUBSET SessionIds,
           \A s \in S : Active(s), lease' = Closed(S)
    PROVE  Shrinks /\ Beats
  <1>1. "revoked" \in Reasons
    BY DEF Reasons
  <1>2. \A s \in SessionIds :
            /\ Active(s)' <=> (Active(s) /\ s \notin S)
            /\ Used(s) => /\ lease'[s].device = lease[s].device
                          /\ lease'[s].fresh = lease[s].fresh
    BY <1>1, ReleaseEffect DEF Active
  <1>3. \A s \in SessionIds : Used(s) => lease'[s].ap = lease[s].ap
    BY ReleaseKeepsPoint
  <1>4. \A s \in SessionIds : Active(s) => Used(s)
    BY DEF Active, Used
  <1> QED
    BY <1>2, <1>3, <1>4 DEF Shrinks, Beats

LEMMA FlagShrinks ==
    ASSUME TypeOK,
           \/ lease' = lease
           \/ \E s \in SessionIds, b \in BOOLEAN :
                 Active(s) /\ lease' = [lease EXCEPT ![s].fresh = b]
    PROVE  Shrinks /\ Beats
  <1>1. CASE lease' = lease
    BY <1>1 DEF Shrinks, Beats, Active
  <1>2. CASE \E s \in SessionIds, b \in BOOLEAN :
                Active(s) /\ lease' = [lease EXCEPT ![s].fresh = b]
    <2>1. PICK s \in SessionIds, b \in BOOLEAN :
              Active(s) /\ lease' = [lease EXCEPT ![s].fresh = b]
      BY <1>2
    <2> DEFINE new == [lease[s] EXCEPT !.fresh = b]
    <2>2. lease[s] \in Lease
      BY <2>1 DEF TypeOK, Active, NoLease
    <2>3. /\ new.ap = lease[s].ap /\ new.device = lease[s].device
          /\ new.status = lease[s].status
      BY <2>2 DEF Lease
    <2>4. lease' = [lease EXCEPT ![s] = new]
      BY <2>1
    <2> HIDE DEF new
    <2>5. lease'[s] = new /\ \A t \in SessionIds : t # s => lease'[t] = lease[t]
      BY <2>4 DEF TypeOK
    <2> QED
      BY <2>1, <2>3, <2>5 DEF Shrinks, Beats, Active
  <1> QED
    BY <1>1, <1>2

\* The commit of connect adds one lease, and no other lease of the device
\* stays active.
LEMMA ConnectAdds ==
    ASSUME IInv, NEW r \in Requests, CommitConnect(r)
    PROVE  /\ Beats
           /\ \E n \in SessionIds :
                 /\ lease'[n].ap = request[r].ap
                 /\ \A s \in SessionIds : s # n /\ Active(s)' =>
                       /\ Active(s)
                       /\ lease'[s].ap = lease[s].ap
                       /\ lease'[s].device = lease[s].device
                       /\ lease[s].device # request[r].device
                 /\ lease'[n].device = request[r].device
           /\ request[r].stage = "reserved"
           /\ request[r].ap \in AccessPoints
           /\ request[r].device \in Devices
           /\ \A p \in Requests : request'[p] = request[p] \/ request'[p] = Idle
           /\ request'[r] = Idle
  <1>0. TypeOK /\ TableInv /\ LockInv /\ LedgerMatchesStatus
    BY DEF IInv, TableInv
  <1> DEFINE q == request[r]
             d == q.device
             old == {q.session} \ {NoSession}
  <1>1. /\ request[r] \in Reserved /\ q.stage = "reserved" /\ d \in Devices
        /\ q.ap \in AccessPoints
    BY <1>0, Shapes DEF CommitConnect, At, Reserved
  <1>2. /\ \A s \in ActiveOf(d) : s \in old
        /\ \A s \in old : s \in ActiveOf(d)
    <2>1. /\ \A s \in ActiveOf(d) : s = q.session
          /\ q.session # NoSession => q.session \in ActiveOf(d)
      BY <1>0, <1>1 DEF LockInv, ReservationHolds
    <2>2. NoSession \notin ActiveOf(d)
      BY DEF ActiveOf, LeasesOf, SessionIds, NoSession
    <2> QED
      BY <2>1, <2>2
  <1>3. old \in SUBSET SessionIds /\ \A s \in old : Active(s)
    BY <1>2 DEF ActiveOf, LeasesOf
  <1>4. PICK n \in SessionIds :
            /\ ~Used(n)
            /\ lease' = [Closed(old) EXCEPT ![n] =
                  [device |-> d, ap |-> q.ap, address |-> q.address,
                   generation |-> NextGeneration(d), key |-> q.key,
                   status |-> "active", fresh |-> TRUE]]
    BY DEF CommitConnect
  <1> DEFINE new == [device |-> d, ap |-> q.ap, address |-> q.address,
                     generation |-> NextGeneration(d), key |-> q.key,
                     status |-> "active", fresh |-> TRUE]
  <1>5. new.device = d /\ new.ap = q.ap /\ lease' = [Closed(old) EXCEPT ![n] = new]
    BY <1>4
  <1> HIDE DEF new, old
  <1>6. "revoked" \in Reasons
    BY DEF Reasons
  <1>7. /\ Closed(old) \in [SessionIds -> Lease \cup {NoLease}]
        /\ \A s \in SessionIds :
              /\ (Closed(old)[s].status = "active") <=> (Active(s) /\ s \notin old)
              /\ Used(s) => /\ Closed(old)[s].device = lease[s].device
                            /\ Closed(old)[s].fresh = lease[s].fresh
    BY <1>0, <1>3, <1>6, ReleaseEffect
  <1>8. \A s \in SessionIds : Used(s) => Closed(old)[s].ap = lease[s].ap
    BY <1>0, <1>3, ReleaseKeepsPoint
  <1>9. lease'[n] = new /\ \A s \in SessionIds : s # n => lease'[s] = Closed(old)[s]
    BY <1>5, <1>7
  <1>10. \A s \in SessionIds : Active(s) => Used(s)
    BY DEF Active, Used
  <1>11. Beats
    BY <1>4, <1>7, <1>9 DEF Beats, Active
  <1>12. \A s \in SessionIds : s # n /\ Active(s)' =>
             /\ Active(s)
             /\ lease'[s].ap = lease[s].ap
             /\ lease'[s].device = lease[s].device
             /\ lease[s].device # d
    <2> SUFFICES ASSUME NEW s \in SessionIds, s # n, Active(s)'
                 PROVE  /\ Active(s)
                        /\ lease'[s].ap = lease[s].ap
                        /\ lease'[s].device = lease[s].device
                        /\ lease[s].device # d
      OBVIOUS
    <2>1. Active(s) /\ s \notin old /\ Used(s)
      BY <1>7, <1>9, <1>10 DEF Active
    <2>2. s \notin ActiveOf(d)
      BY <2>1, <1>2
    <2> QED
      BY <2>1, <2>2, <1>7, <1>8, <1>9 DEF ActiveOf, LeasesOf
  <1>13. Finish(r)
    BY DEF CommitConnect
  <1>14. /\ \A p \in Requests : request'[p] = request[p] \/ request'[p] = Idle
         /\ request'[r] = Idle
    BY <1>0, <1>13, FinishKeeps
  <1>15. lease'[n].ap = request[r].ap /\ lease'[n].device = request[r].device
    BY <1>5, <1>9
  <1> QED
    BY <1>1, <1>11, <1>12, <1>14, <1>15

-----------------------------------------------------------------------------
(* What a step does to the locks on access points *)

\* Nobody gets an access point, or an address.
NoNewHold ==
    \A p \in Requests :
        request'[p].stage \in {"ap", "reserved"} => request'[p] = request[p]

\* Requests end or stay as they are.
LEMMA FinishNoHold ==
    ASSUME \A p \in Requests : request'[p] = request[p] \/ request'[p] = Idle
    PROVE  NoNewHold
  BY DEF NoNewHold, Idle

LEMMA MovesNoHold ==
    ASSUME TypeOK, NEW r \in Requests, NEW tx,
           request' = [request EXCEPT ![r] = tx],
           tx.stage \notin {"ap", "reserved"}
    PROVE  NoNewHold
  BY DEF NoNewHold, TypeOK

LEMMA ArriveFrame ==
    ASSUME TypeOK, NEW r \in Requests, Arrive(r)
    PROVE  NoNewHold /\ UNCHANGED <<lease, revoked, credential>>
  <1>1. CASE \E d \in Devices, a \in AccessPoints, k \in Keys \cup {NoKey} :
                 RequestConnect(r, d, a, k)
    <2>1. PICK d \in Devices, a \in AccessPoints, k \in Keys \cup {NoKey} :
              RequestConnect(r, d, a, k)
      BY <1>1
    <2> DEFINE tx == [stage |-> "loaded", op |-> "connect", device |-> d,
                      seen |-> revoked[d], ap |-> a, key |-> k]
    <2>2. /\ request' = [request EXCEPT ![r] = tx] /\ tx.stage = "loaded"
          /\ UNCHANGED tables
      BY <2>1 DEF RequestConnect, Enter
    <2> HIDE DEF tx
    <2> QED
      BY <2>2, MovesNoHold DEF tables
  <1>2. CASE \E s \in SessionIds, op \in {"heartbeat", "close"} :
                 RequestOnLease(r, s, op)
    <2>1. PICK s \in SessionIds, op \in {"heartbeat", "close"} :
              RequestOnLease(r, s, op)
      BY <1>2
    <2> DEFINE tx == [stage |-> "loaded", op |-> op, device |-> lease[s].device,
                      session |-> s]
    <2>2. /\ request' = [request EXCEPT ![r] = tx] /\ tx.stage = "loaded"
          /\ UNCHANGED tables
      BY <2>1 DEF RequestOnLease, Enter
    <2> HIDE DEF tx
    <2> QED
      BY <2>2, MovesNoHold DEF tables
  <1>3. CASE \E d \in Devices, op \in AdminOps : RequestAdmin(r, d, op)
    <2>1. PICK d \in Devices, op \in AdminOps : RequestAdmin(r, d, op)
      BY <1>3
    <2> DEFINE tx == [stage |-> "loaded", op |-> op, device |-> d,
                      seen |-> revoked[d]]
    <2>2. /\ request' = [request EXCEPT ![r] = tx] /\ tx.stage = "loaded"
          /\ UNCHANGED tables
      BY <2>1 DEF RequestAdmin, Enter
    <2> HIDE DEF tx
    <2> QED
      BY <2>2, MovesNoHold DEF tables
  <1> QED
    BY <1>1, <1>2, <1>3 DEF Arrive

LEMMA LockDeviceFrame ==
    ASSUME TypeOK, NEW r \in Requests, LockDevice(r)
    PROVE  NoNewHold /\ UNCHANGED <<lease, revoked, credential>>
  <1> DEFINE tx == [request[r] EXCEPT !.stage = "device"]
  <1>1. request[r] \in Loaded \cup OfSession \cup OfAdmin
    BY Shapes DEF LockDevice
  <1>2. tx.stage = "device"
    BY <1>1, StageMoves
  <1>3. request' = [request EXCEPT ![r] = tx] /\ UNCHANGED tables
    BY DEF LockDevice
  <1> HIDE DEF tx
  <1> QED
    BY <1>2, <1>3, MovesNoHold DEF tables

LEMMA RefuseFrame ==
    ASSUME TypeOK, NEW r \in Requests, Refuse(r)
    PROVE  NoNewHold /\ UNCHANGED <<lease, revoked, credential>>
  <1>1. Finish(r) /\ UNCHANGED tables
    BY DEF Refuse
  <1> QED
    BY <1>1, FinishKeeps, FinishNoHold DEF tables

\* heartbeat, close, revoke, reissue, reinstate: what they do to the leases.
LEMMA OperationFrame ==
    ASSUME IInv, NEW r \in Requests,
           \/ Heartbeat(r) \/ CloseSession(r) \/ RevokeDevice(r)
           \/ ReissueToken(r) \/ ReinstateDevice(r)
    PROVE  Shrinks /\ Beats /\ NoNewHold
  <1>0. TypeOK /\ LedgerMatchesStatus
    BY DEF IInv, TableInv
  <1>1. Finish(r)
    BY DEF Heartbeat, CloseSession, RevokeDevice, ReissueToken, ReinstateDevice
  <1>2. NoNewHold
    BY <1>0, <1>1, FinishKeeps, FinishNoHold
  <1>3. CASE Heartbeat(r)
    <2> DEFINE s == request[r].session
    <2>1. s \in SessionIds
      BY <1>0, <1>3, Shapes DEF Heartbeat, OfSession
    <2>2. lease' = lease \/ (Active(s) /\ lease' = [lease EXCEPT ![s].fresh = TRUE])
      BY <1>3 DEF Heartbeat, Beatable
    <2> HIDE DEF s
    <2> QED
      BY <1>0, <1>2, <2>1, <2>2, FlagShrinks
  <1>4. CASE CloseSession(r)
    <2> DEFINE s == request[r].session
               S == IF Active(s) THEN {s} ELSE {}
    <2>1. s \in SessionIds
      BY <1>0, <1>4, Shapes DEF CloseSession, OfSession
    <2>2. S \in SUBSET SessionIds /\ \A t \in S : Active(t)
      BY <2>1
    <2>3. lease' = Closed(S)
      BY <1>4 DEF CloseSession, Release
    <2> HIDE DEF S
    <2> QED
      BY <1>0, <1>2, <2>2, <2>3, ReleaseShrinks
  <1>5. CASE RevokeDevice(r)
    <2> DEFINE S == ActiveOf(request[r].device)
    <2>1. S \in SUBSET SessionIds /\ \A t \in S : Active(t)
      BY DEF ActiveOf, LeasesOf
    <2>2. lease' = Closed(S)
      BY <1>5 DEF RevokeDevice, Release
    <2> HIDE DEF S
    <2> QED
      BY <1>0, <1>2, <2>1, <2>2, ReleaseShrinks
  <1>6. CASE ReissueToken(r) \/ ReinstateDevice(r)
    <2>1. lease' = lease
      BY <1>6 DEF ReissueToken, ReinstateDevice
    <2> QED
      BY <1>0, <1>2, <2>1, FlagShrinks
  <1> QED
    BY <1>3, <1>4, <1>5, <1>6

\* The sweepers, time and the crash.
LEMMA BackgroundFrame ==
    ASSUME IInv,
           \/ \E w \in Sweepers : SweepSelect(w) \/ SweepCommit(w)
           \/ \E s \in SessionIds : Elapse(s)
           \/ Crash
           \/ UNCHANGED vars
    PROVE  Shrinks /\ Beats /\ NoNewHold /\ UNCHANGED <<revoked, credential>>
  <1>0. TypeOK /\ LedgerMatchesStatus /\ SweepsHold
    BY DEF IInv, TableInv, LockInv
  <1>1. CASE \E w \in Sweepers : SweepSelect(w)
    <2>1. UNCHANGED <<tables, request>>
      BY <1>1 DEF SweepSelect
    <2> QED
      BY <1>0, <2>1, FlagShrinks, FinishNoHold DEF tables
  <1>2. CASE \E w \in Sweepers : SweepCommit(w)
    <2>1. PICK w \in Sweepers : SweepCommit(w)
      BY <1>2
    <2> DEFINE S == sweeping[w]
    <2>2. S \in SUBSET SessionIds /\ \A s \in S : Active(s)
      BY <1>0 DEF SweepsHold, TypeOK
    <2>3. lease' = Closed(S) /\ UNCHANGED <<revoked, credential, request>>
      BY <2>1 DEF SweepCommit, Release
    <2> HIDE DEF S
    <2> QED
      BY <1>0, <2>2, <2>3, ReleaseShrinks, FinishNoHold
  <1>3. CASE \E s \in SessionIds : Elapse(s)
    <2>1. UNCHANGED <<revoked, credential, request>>
      BY <1>3 DEF Elapse
    <2>2. \E s \in SessionIds, b \in BOOLEAN :
              Active(s) /\ lease' = [lease EXCEPT ![s].fresh = b]
      BY <1>3 DEF Elapse
    <2> QED
      BY <1>0, <2>1, <2>2, FlagShrinks, FinishNoHold
  <1>4. CASE Crash
    <2>1. request' = [r \in Requests |-> Idle] /\ UNCHANGED tables
      BY <1>4 DEF Crash
    <2>2. NoNewHold
      BY <2>1, FinishNoHold
    <2> QED
      BY <1>0, <2>1, <2>2, FlagShrinks DEF tables
  <1>5. CASE UNCHANGED vars
    <2>1. UNCHANGED <<revoked, credential, lease, request>>
      BY <1>5 DEF vars
    <2> QED
      BY <1>0, <2>1, FlagShrinks, FinishNoHold
  <1> QED
    BY <1>1, <1>2, <1>3, <1>4, <1>5

-----------------------------------------------------------------------------
(* A step is a connect, its two lock steps, or keeps the locks it finds.   *)
LEMMA StepFrames ==
    ASSUME IInv, [Next]_vars
    PROVE  \/ Shrinks /\ Beats /\ NoNewHold
           \/ \E r \in Requests :
                 \/ CommitConnect(r)
                 \/ /\ LockAccessPoint(r) \/ ReserveAddress(r)
                    /\ ~Refuse(r)
                    /\ Shrinks /\ Beats
  <1>0. TypeOK
    BY DEF IInv
  <1>1. ASSUME NEW r \in Requests, Arrive(r)
        PROVE  Shrinks /\ Beats /\ NoNewHold
    BY <1>0, <1>1, ArriveFrame, FlagShrinks
  <1>2. ASSUME NEW r \in Requests, Refuse(r)
        PROVE  Shrinks /\ Beats /\ NoNewHold
    BY <1>0, <1>2, RefuseFrame, FlagShrinks
  <1>3. ASSUME NEW r \in Requests, LockDevice(r)
        PROVE  Shrinks /\ Beats /\ NoNewHold
    BY <1>0, <1>3, LockDeviceFrame, FlagShrinks
  <1>4. ASSUME NEW r \in Requests, LockAccessPoint(r) \/ ReserveAddress(r), ~Refuse(r)
        PROVE  Shrinks /\ Beats
    <2>1. UNCHANGED tables
      BY <1>4 DEF LockAccessPoint, ReserveAddress
    <2> QED
      BY <1>0, <2>1, FlagShrinks DEF tables
  <1>5. ASSUME NEW r \in Requests, Proceed(r)
        PROVE  \/ Shrinks /\ Beats /\ NoNewHold
               \/ CommitConnect(r)
               \/ /\ LockAccessPoint(r) \/ ReserveAddress(r)
                  /\ ~Refuse(r)
                  /\ Shrinks /\ Beats
    <2>1. CASE LockDevice(r)
      BY <2>1, <1>3
    <2>2. CASE LockAccessPoint(r) \/ ReserveAddress(r)
      BY <2>2, <1>2, <1>4
    <2>3. CASE CommitConnect(r)
      BY <2>3
    <2>4. CASE \/ Heartbeat(r) \/ CloseSession(r) \/ RevokeDevice(r)
               \/ ReissueToken(r) \/ ReinstateDevice(r)
      BY <2>4, OperationFrame
    <2> QED
      BY <1>5, <2>1, <2>2, <2>3, <2>4 DEF Proceed
  <1> QED
    BY <1>1, <1>5, BackgroundFrame DEF Next, Rest

-----------------------------------------------------------------------------
(* Capacity: a connect that holds an address also holds its access point,  *)
(* so the room it counted is still there when it commits.                  *)

\* The row lock on the access point has one holder.
PointHolders ==
    \A p, r \in Requests :
        /\ request[p].stage \in {"ap", "reserved"}
        /\ request[r].stage \in {"ap", "reserved"}
        /\ request[p].ap = request[r].ap
        => p = r

RoomLeft ==
    \A r \in Requests : request[r].stage = "reserved" =>
        Cardinality(OthersAt(request[r].ap, request[r].device))
            < Capacity[request[r].ap]

CapInv == CapacityRespected /\ PointHolders /\ RoomLeft

LeasesAt(a) == {s \in SessionIds : Active(s) /\ lease[s].ap = a}

LEMMA FiniteSessions ==
    ASSUME NEW T \in SUBSET SessionIds, NEW U \in SUBSET T
    PROVE  /\ IsFiniteSet(T) /\ Cardinality(T) \in Nat
           /\ Cardinality(U) \in Nat /\ Cardinality(U) <= Cardinality(T)
  <1>1. IsFiniteSet(SessionIds)
    BY DeploymentAssumption, FS_Interval DEF SessionIds
  <1>2. IsFiniteSet(T)
    BY <1>1, FS_Subset
  <1>3. IsFiniteSet(U) /\ Cardinality(U) <= Cardinality(T)
    BY <1>2, FS_Subset
  <1> QED
    BY <1>2, <1>3, FS_CardinalityType

LEMMA CapInit == Init => CapInv
  <1> SUFFICES ASSUME Init PROVE CapInv
    OBVIOUS
  <1>1. /\ \A r \in Requests : request[r].stage = "idle"
        /\ \A s \in SessionIds : ~Active(s)
    BY DEF Init, Idle, NoLease, Active
  <1>2. ASSUME NEW a \in AccessPoints
        PROVE  Cardinality({s \in SessionIds : Active(s) /\ lease[s].ap = a})
                   <= Capacity[a]
    <2>1. {s \in SessionIds : Active(s) /\ lease[s].ap = a} = {}
      BY <1>1
    <2>2. Cardinality({s \in SessionIds : Active(s) /\ lease[s].ap = a}) = 0
      BY <2>1, FS_EmptySet, Zenon
    <2>3. Capacity[a] \in Nat \ {0}
      BY DeploymentAssumption
    <2> QED
      BY <2>2, <2>3
  <1> QED
    <2>1. CapacityRespected
      BY <1>2 DEF CapacityRespected
    <2>2. PointHolders /\ RoomLeft
      BY <1>1 DEF PointHolders, RoomLeft
    <2> QED
      BY <2>1, <2>2 DEF CapInv

\* While leases only end there is never less room.
LEMMA ShrinksKeepsRoom ==
    ASSUME Shrinks, NEW a \in AccessPoints, NEW d \in Devices
    PROVE  /\ Cardinality(LeasesAt(a)') \in Nat /\ Cardinality(LeasesAt(a)) \in Nat
           /\ Cardinality(LeasesAt(a)') <= Cardinality(LeasesAt(a))
           /\ Cardinality(OthersAt(a, d)') \in Nat /\ Cardinality(OthersAt(a, d)) \in Nat
           /\ Cardinality(OthersAt(a, d)') <= Cardinality(OthersAt(a, d))
  <1>1. LeasesAt(a)' \subseteq LeasesAt(a) /\ LeasesAt(a) \subseteq SessionIds
    BY DEF Shrinks, LeasesAt
  <1>2. OthersAt(a, d)' \subseteq OthersAt(a, d) /\ OthersAt(a, d) \subseteq SessionIds
    BY DEF Shrinks, OthersAt
  <1> QED
    BY <1>1, <1>2, FiniteSessions

LEMMA ShrinksKeepsCapacity ==
    ASSUME CapacityRespected, Shrinks
    PROVE  CapacityRespected'
  <1> SUFFICES ASSUME NEW a \in AccessPoints
               PROVE  Cardinality(LeasesAt(a)') <= Capacity[a]
    BY DEF CapacityRespected, LeasesAt
  <1>1. LeasesAt(a)' \subseteq LeasesAt(a) /\ LeasesAt(a) \subseteq SessionIds
    BY DEF Shrinks, LeasesAt
  <1>2. /\ Cardinality(LeasesAt(a)') \in Nat /\ Cardinality(LeasesAt(a)) \in Nat
        /\ Cardinality(LeasesAt(a)') <= Cardinality(LeasesAt(a))
    BY <1>1, FiniteSessions
  <1>3. Cardinality(LeasesAt(a)) <= Capacity[a] /\ Capacity[a] \in Nat
    BY DeploymentAssumption DEF CapacityRespected, LeasesAt
  <1> QED
    BY <1>2, <1>3

\* What a reserved transaction is of.
LEMMA ReservedFacts ==
    ASSUME TypeOK, NEW r \in Requests, request[r].stage = "reserved"
    PROVE  /\ request[r].ap \in AccessPoints /\ request[r].device \in Devices
           /\ Capacity[request[r].ap] \in Nat
  BY Shapes, DeploymentAssumption DEF Reserved

\* p keeps its reservation and the leases only end.
LEMMA RoomStays ==
    ASSUME TypeOK, RoomLeft, Shrinks, NEW p \in Requests,
           request'[p] = request[p], request[p].stage = "reserved"
    PROVE  Cardinality(OthersAt(request[p].ap, request[p].device)')
               < Capacity[request[p].ap]
  <1>1. PICK a \in AccessPoints : a = request[p].ap
    BY ReservedFacts
  <1>2. PICK d \in Devices : d = request[p].device
    BY ReservedFacts
  <1>3. Capacity[a] \in Nat
    BY DeploymentAssumption
  <1>4. Cardinality(OthersAt(a, d)) < Capacity[a]
    BY <1>1, <1>2 DEF RoomLeft
  <1>5. /\ Cardinality(OthersAt(a, d)') \in Nat /\ Cardinality(OthersAt(a, d)) \in Nat
        /\ Cardinality(OthersAt(a, d)') <= Cardinality(OthersAt(a, d))
    BY ShrinksKeepsRoom
  <1>6. Cardinality(OthersAt(a, d)') < Capacity[a]
    BY <1>3, <1>4, <1>5
  <1>7. request'[p].ap = a /\ request'[p].device = d
    BY <1>1, <1>2
  <1> QED
    BY <1>1, <1>2, <1>6, <1>7

LEMMA FrameKeepsCapacity ==
    ASSUME TypeOK, CapInv, Shrinks, NoNewHold
    PROVE  CapInv'
  <1>1. CapacityRespected'
    BY ShrinksKeepsCapacity DEF CapInv
  <1>2. PointHolders'
    BY DEF CapInv, PointHolders, NoNewHold
  <1>3. RoomLeft'
    <2> SUFFICES ASSUME NEW p \in Requests, request'[p].stage = "reserved"
                 PROVE  Cardinality(OthersAt(request[p].ap, request[p].device)')
                            < Capacity[request'[p].ap]
      BY DEF RoomLeft
    <2>1. request'[p] = request[p] /\ request[p].stage = "reserved"
      BY DEF NoNewHold
    <2> QED
      BY <2>1, RoomStays DEF CapInv
  <1> QED
    BY <1>1, <1>2, <1>3 DEF CapInv

\* Request r becomes tx, and the others stay.
LEMMA HoldsOnly ==
    ASSUME TypeOK, CapInv, Shrinks, NEW r \in Requests, NEW tx,
           request' = [request EXCEPT ![r] = tx],
           \A p \in Requests : p # r /\ request[p].stage \in {"ap", "reserved"} =>
               request[p].ap # tx.ap,
           tx.stage = "reserved" =>
               /\ tx.ap \in AccessPoints /\ tx.device \in Devices
               /\ Cardinality(OthersAt(tx.ap, tx.device)) < Capacity[tx.ap]
    PROVE  CapInv'
  <1>1. request'[r] = tx /\ \A p \in Requests : p # r => request'[p] = request[p]
    BY DEF TypeOK
  <1>2. CapacityRespected'
    BY ShrinksKeepsCapacity DEF CapInv
  <1>3. PointHolders'
    <2> SUFFICES ASSUME NEW p \in Requests, NEW q \in Requests,
                        request'[p].stage \in {"ap", "reserved"},
                        request'[q].stage \in {"ap", "reserved"},
                        request'[p].ap = request'[q].ap, p # q
                 PROVE  FALSE
      BY DEF PointHolders
    <2>1. CASE p = r
      BY <2>1, <1>1
    <2>2. CASE q = r
      BY <2>2, <1>1
    <2>3. CASE p # r /\ q # r
      BY <2>3, <1>1 DEF CapInv, PointHolders
    <2> QED
      BY <2>1, <2>2, <2>3
  <1>4. RoomLeft'
    <2> SUFFICES ASSUME NEW p \in Requests, request'[p].stage = "reserved"
                 PROVE  Cardinality(OthersAt(request[p].ap, request[p].device)')
                            < Capacity[request'[p].ap]
      BY DEF RoomLeft
    <2>1. CASE p # r
      <3>1. request'[p] = request[p] /\ request[p].stage = "reserved"
        BY <2>1, <1>1
      <3> QED
        BY <3>1, RoomStays DEF CapInv
    <2>2. CASE p = r
      <3>0. request'[p] = tx /\ tx.stage = "reserved"
        BY <2>2, <1>1
      <3>1. PICK a \in AccessPoints : a = tx.ap
        BY <3>0
      <3>2. PICK d \in Devices : d = tx.device
        BY <3>0
      <3>3. Capacity[a] \in Nat
        BY DeploymentAssumption
      <3>4. Cardinality(OthersAt(a, d)) < Capacity[a]
        BY <3>0, <3>1, <3>2
      <3>5. /\ Cardinality(OthersAt(a, d)') \in Nat /\ Cardinality(OthersAt(a, d)) \in Nat
            /\ Cardinality(OthersAt(a, d)') <= Cardinality(OthersAt(a, d))
        BY ShrinksKeepsRoom
      <3>6. Cardinality(OthersAt(a, d)') < Capacity[a]
        BY <3>3, <3>4, <3>5
      <3>7. request'[p].ap = a /\ request'[p].device = d
        BY <3>0, <3>1, <3>2
      <3> QED
        BY <3>6, <3>7
    <2> QED
      BY <2>1, <2>2
  <1> QED
    BY <1>2, <1>3, <1>4 DEF CapInv

LEMMA LockAccessPointCapacity ==
    ASSUME IInv, CapInv, Shrinks, NEW r \in Requests, LockAccessPoint(r), ~Refuse(r)
    PROVE  CapInv'
  <1>0. TypeOK
    BY DEF IInv
  <1> DEFINE tx == [request[r] EXCEPT !.stage = "ap"]
  <1>1. request[r] \in Loaded
    BY <1>0, Shapes DEF LockAccessPoint
  <1>2. tx.stage = "ap" /\ tx.ap = request[r].ap
    BY <1>1 DEF Loaded
  <1>3. request' = [request EXCEPT ![r] = tx]
    BY DEF LockAccessPoint
  <1>4. \A p \in Requests : request[p].stage \in {"ap", "reserved"} =>
            request[p].ap # request[r].ap
    BY DEF LockAccessPoint, PointFree, Running
  <1>5. \A p \in Requests : p # r /\ request[p].stage \in {"ap", "reserved"} =>
            request[p].ap # tx.ap
    BY <1>2, <1>4
  <1>6. tx.stage # "reserved"
    BY <1>2
  <1> HIDE DEF tx
  <1> QED
    BY <1>0, <1>3, <1>5, <1>6, HoldsOnly

LEMMA ReserveAddressCapacity ==
    ASSUME IInv, CapInv, Shrinks, NEW r \in Requests, ReserveAddress(r), ~Refuse(r)
    PROVE  CapInv'
  <1>0. TypeOK
    BY DEF IInv
  <1> DEFINE q == request[r]
             held == ActiveOf(q.device)
  <1>1. q \in Loaded /\ q.stage = "ap"
    BY <1>0, Shapes DEF ReserveAddress, At
  <1>2. q.device \in Devices /\ q.ap \in AccessPoints
    BY <1>1 DEF Loaded
  <1>3. Cardinality(OthersAt(q.ap, q.device)) < Capacity[q.ap]
    BY DEF ReserveAddress
  <1>4. PICK x, s :
            request' = [request EXCEPT ![r] =
                  [stage |-> "reserved", op |-> "connect",
                   device |-> q.device, ap |-> q.ap, key |-> q.key,
                   session |-> s, address |-> x]]
    BY DEF ReserveAddress
  <1> DEFINE tx == [stage |-> "reserved", op |-> "connect",
                    device |-> q.device, ap |-> q.ap, key |-> q.key,
                    session |-> s, address |-> x]
  <1>5. request' = [request EXCEPT ![r] = tx]
    BY <1>4
  <1>6. tx.ap = q.ap /\ tx.device = q.device
    OBVIOUS
  <1>7. \A p \in Requests : p # r /\ request[p].stage \in {"ap", "reserved"} =>
            request[p].ap # q.ap
    BY <1>1 DEF CapInv, PointHolders
  <1>8. /\ tx.ap \in AccessPoints /\ tx.device \in Devices
        /\ Cardinality(OthersAt(tx.ap, tx.device)) < Capacity[tx.ap]
    BY <1>2, <1>3, <1>6
  <1>9. \A p \in Requests : p # r /\ request[p].stage \in {"ap", "reserved"} =>
            request[p].ap # tx.ap
    BY <1>6, <1>7
  <1> HIDE DEF tx
  <1> QED
    BY <1>0, <1>5, <1>8, <1>9, HoldsOnly

\* The new lease takes the room that RoomLeft kept for it; every other lease
\* of the device ends in the same commit.
LEMMA CommitConnectCapacity ==
    ASSUME IInv, CapInv, NEW r \in Requests, CommitConnect(r)
    PROVE  CapInv'
  <1>0. TypeOK
    BY DEF IInv
  <1>1. /\ request[r].stage = "reserved"
        /\ request[r].ap \in AccessPoints /\ request[r].device \in Devices
        /\ \A p \in Requests : request'[p] = request[p] \/ request'[p] = Idle
        /\ request'[r] = Idle
    BY ConnectAdds
  <1>2. PICK a \in AccessPoints : a = request[r].ap
    BY <1>1
  <1>3. PICK d \in Devices : d = request[r].device
    BY <1>1
  <1>4. PICK n \in SessionIds :
            /\ lease'[n].ap = a /\ lease'[n].device = d
            /\ \A s \in SessionIds : s # n /\ Active(s)' =>
                  /\ Active(s)
                  /\ lease'[s].ap = lease[s].ap
                  /\ lease'[s].device = lease[s].device
                  /\ lease[s].device # d
    BY <1>2, <1>3, ConnectAdds
  <1>5. Cardinality(OthersAt(a, d)) < Capacity[a]
    BY <1>1, <1>2, <1>3 DEF CapInv, RoomLeft
  <1>6. \A b \in AccessPoints : Capacity[b] \in Nat
    BY DeploymentAssumption
  <1>7. CapacityRespected'
    <2> SUFFICES ASSUME NEW b \in AccessPoints
                 PROVE  Cardinality(LeasesAt(b)') <= Capacity[b]
      BY DEF CapacityRespected, LeasesAt
    <2>1. CASE b # a
      <3>1. LeasesAt(b)' \subseteq LeasesAt(b) /\ LeasesAt(b) \subseteq SessionIds
        BY <2>1, <1>4 DEF LeasesAt
      <3>2. /\ Cardinality(LeasesAt(b)') \in Nat /\ Cardinality(LeasesAt(b)) \in Nat
            /\ Cardinality(LeasesAt(b)') <= Cardinality(LeasesAt(b))
        BY <3>1, FiniteSessions
      <3>3. Cardinality(LeasesAt(b)) <= Capacity[b]
        BY DEF CapInv, CapacityRespected, LeasesAt
      <3> QED
        BY <3>2, <3>3, <1>6
    <2>2. CASE b = a
      <3> DEFINE O == OthersAt(a, d)
                 L == LeasesAt(b)'
      <3>1. L \subseteq O \cup {n}
        BY <2>2, <1>4 DEF LeasesAt, OthersAt
      <3>2. O \in SUBSET SessionIds /\ O \cup {n} \in SUBSET SessionIds
        BY DEF OthersAt
      <3> HIDE DEF O, L
      <3>3. IsFiniteSet(O) /\ Cardinality(O) \in Nat
        BY <3>2, FiniteSessions
      <3>4. Cardinality(O \cup {n}) <= Cardinality(O) + 1
        <4>1. Cardinality(O \cup {n}) =
                  IF n \in O THEN Cardinality(O) ELSE Cardinality(O) + 1
          BY <3>3, FS_AddElement
        <4> QED
          BY <3>3, <4>1
      <3>5. /\ Cardinality(L) \in Nat /\ Cardinality(O \cup {n}) \in Nat
            /\ Cardinality(L) <= Cardinality(O \cup {n})
        BY <3>1, <3>2, FiniteSessions
      <3>6. Cardinality(O) < Capacity[a]
        BY <1>5 DEF O
      <3>7. Cardinality(L) <= Capacity[a]
        BY <3>3, <3>4, <3>5, <3>6, <1>6
      <3> QED
        BY <3>7, <2>2 DEF L
    <2> QED
      BY <2>1, <2>2
  <1>8. PointHolders'
    BY <1>1 DEF CapInv, PointHolders, Idle
  <1>9. RoomLeft'
    <2> SUFFICES ASSUME NEW p \in Requests, request'[p].stage = "reserved"
                 PROVE  Cardinality(OthersAt(request[p].ap, request[p].device)')
                            < Capacity[request'[p].ap]
      BY DEF RoomLeft
    <2>1. request'[p] = request[p] /\ request[p].stage = "reserved" /\ p # r
      BY <1>1 DEF Idle
    <2>2. PICK b \in AccessPoints : b = request[p].ap
      BY <1>0, <2>1, ReservedFacts
    <2>3. PICK e \in Devices : e = request[p].device
      BY <1>0, <2>1, ReservedFacts
    <2>4. b # a
      BY <1>1, <1>2, <2>1, <2>2 DEF CapInv, PointHolders
    <2>5. OthersAt(b, e)' \subseteq OthersAt(b, e) /\ OthersAt(b, e) \subseteq SessionIds
      BY <2>4, <1>4 DEF OthersAt
    <2>6. /\ Cardinality(OthersAt(b, e)') \in Nat /\ Cardinality(OthersAt(b, e)) \in Nat
          /\ Cardinality(OthersAt(b, e)') <= Cardinality(OthersAt(b, e))
      BY <2>5, FiniteSessions
    <2>7. Cardinality(OthersAt(b, e)) < Capacity[b]
      BY <2>1, <2>2, <2>3 DEF CapInv, RoomLeft
    <2>8. Cardinality(OthersAt(b, e)') < Capacity[b]
      BY <2>6, <2>7, <1>6
    <2>9. request'[p].ap = b /\ request'[p].device = e
      BY <2>1, <2>2, <2>3
    <2> QED
      BY <2>8, <2>9
  <1> QED
    BY <1>7, <1>8, <1>9 DEF CapInv

LEMMA StepKeepsCapacity ==
    ASSUME IInv, CapInv, [Next]_vars
    PROVE  CapInv'
  <1>1. TypeOK
    BY DEF IInv
  <1> QED
    BY <1>1, StepFrames, FrameKeepsCapacity, CommitConnectCapacity,
       LockAccessPointCapacity, ReserveAddressCapacity

\* No interleaving of connects, reconnects and sweeps overfills an access
\* point: the lock on its row makes count and insert one step, for any
\* capacity and number of handlers (leasing.py:160-204).
THEOREM NeverOverfilled == Spec => []CapacityRespected
  <1>1. CapInv /\ IInv /\ [Next]_vars => CapInv'
    BY StepKeepsCapacity
  <1>2. CapInv => CapacityRespected
    BY DEF CapInv
  <1> QED
    BY <1>1, <1>2, CapInit, Invariance, PTL DEF Spec

\* A late heartbeat extends only the active lease of the newest generation,
\* and no session is ever reopened (leasing.py:18-20, 273-278).
THEOREM OnlyCurrentBeats == Spec => BeatsOnlyCurrent
  <1> DEFINE A ==
        \A s \in SessionIds :
          Used(s) =>
            /\ Active(s)' => Active(s)
            /\ ~lease[s].fresh /\ lease'[s].fresh =>
                  /\ Active(s)
                  /\ \A t \in LeasesOf(lease[s].device) :
                        lease[t].generation <= lease[s].generation
  <1>1. IInv /\ [Next]_vars => [A]_vars
    <2> SUFFICES ASSUME IInv, [Next]_vars PROVE A
      OBVIOUS
    <2>1. Beats
      BY StepFrames, ConnectAdds
    <2>2. ASSUME NEW s \in SessionIds, Active(s), NEW t \in LeasesOf(lease[s].device)
          PROVE  lease[t].generation <= lease[s].generation
      <3>1. /\ t \in SessionIds /\ Used(t) /\ lease[t].device = lease[s].device
            /\ Used(s)
        BY <2>2 DEF LeasesOf, Active, Used
      <3>2. lease[s].generation \in Nat /\ lease[t].generation \in Nat
        BY <3>1 DEF IInv, TypeOK, Used, Lease, NoLease
      <3> QED
        BY <2>2, <3>1, <3>2 DEF IInv, TableInv, CurrentLeaseIsNewest
    <2> QED
      BY <2>1, <2>2 DEF Beats
  <1>2. []IInv /\ [][Next]_vars => [][A]_vars
    BY <1>1, PTL
  <1> QED
    BY <1>2, Invariance, PTL DEF Spec, BeatsOnlyCurrent

-----------------------------------------------------------------------------
\* The steps that write a device's flags set both, or neither.
LEMMA FlagsAgree ==
    ASSUME IInv, NoLockout, [Next]_vars
    PROVE  NoLockout'
  <1>0. TypeOK
    BY DEF IInv
  <1>1. ASSUME UNCHANGED <<revoked, credential>> PROVE NoLockout'
    BY <1>1 DEF NoLockout
  <1>2. ASSUME NEW r \in Requests, RevokeDevice(r) PROVE NoLockout'
    <2> DEFINE d == request[r].device
    <2>1. d \in Devices /\ request[r].seen \in BOOLEAN
      BY <1>0, <1>2, Shapes DEF RevokeDevice, OfAdmin, AdminOps
    <2>2. /\ revoked' = IF request[r].seen = TRUE THEN revoked
                        ELSE [revoked EXCEPT ![d] = TRUE]
          /\ credential' = IF request[r].seen THEN credential
                           ELSE [credential EXCEPT ![d] = "unusable"]
      BY <1>2 DEF RevokeDevice, RevokedSetTo
    <2> HIDE DEF d
    <2> QED
      BY <1>0, <2>1, <2>2 DEF NoLockout, TypeOK
  <1>3. ASSUME NEW r \in Requests, ReissueToken(r) PROVE NoLockout'
    <2>1. /\ revoked' = revoked
          /\ credential' = credential
             \/ credential' = [credential EXCEPT ![request[r].device] = "issued"]
      BY <1>3 DEF ReissueToken, Handed
    <2> QED
      BY <1>0, <2>1 DEF NoLockout, TypeOK
  <1>4. ASSUME NEW r \in Requests, ReinstateDevice(r) PROVE NoLockout'
    <2>1. /\ revoked' = revoked
             \/ revoked' = [revoked EXCEPT ![request[r].device] = FALSE]
          /\ credential' = [credential EXCEPT ![request[r].device] = "issued"]
      BY <1>4 DEF ReinstateDevice, RevokedSetTo, Reinstated, Handed
    <2> QED
      BY <1>0, <2>1 DEF NoLockout, TypeOK
  <1>5. ASSUME NEW r \in Requests, Proceed(r) PROVE NoLockout'
    <2>1. CASE LockDevice(r)
      BY <2>1, <1>0, <1>1, LockDeviceFrame
    <2>2. CASE LockAccessPoint(r) \/ ReserveAddress(r)
      BY <2>2, <1>1 DEF LockAccessPoint, ReserveAddress, Refuse, tables
    <2>3. CASE CommitConnect(r) \/ Heartbeat(r) \/ CloseSession(r)
      BY <2>3, <1>1 DEF CommitConnect, Heartbeat, CloseSession
    <2> QED
      BY <1>2, <1>3, <1>4, <1>5, <2>1, <2>2, <2>3 DEF Proceed
  <1>6. ASSUME NEW r \in Requests, Arrive(r) PROVE NoLockout'
    BY <1>0, <1>1, <1>6, ArriveFrame
  <1> QED
    BY <1>1, <1>5, <1>6, BackgroundFrame DEF Next, Rest

\* Whatever value of "revoked" each of them saw, revoke, reissue and
\* reinstate leave a device that is not revoked with a token that opens a
\* session (leasing.py:324-378).
THEOREM NeverLockedOut == Spec => []NoLockout
  <1>1. Init => NoLockout
    BY DEF Init, NoLockout
  <1>2. NoLockout /\ IInv /\ [Next]_vars => NoLockout'
    BY FlagsAgree
  <1> QED
    BY <1>1, <1>2, Invariance, PTL DEF Spec
-----------------------------------------------------------------------------
(* LeaseControl implements ExclusiveLease: a connect grants, what releases  *)
(* leases releases grants, and every other step stutters.                   *)

LEMMA InitIsAbstract == Init => Exclusive!Init
  <1> SUFFICES ASSUME Init PROVE Grants = {} /\ Issued = {}
    BY DEF Exclusive!Init
  <1>1. \A s \in SessionIds : ~Used(s) /\ ~Active(s)
    BY DEF Init, NoLease, Used, Active
  <1> QED
    BY <1>1 DEF Grants, Issued

\* Rows that keep their device, address, generation and status stand for the
\* same grants.
LEMMA SameGrants ==
    ASSUME SameLeases
    PROVE  Grants' = Grants /\ Issued' = Issued
  <1>1. \A s \in SessionIds :
            /\ GrantOf(s)' = GrantOf(s) /\ GenerationOf(s)' = GenerationOf(s)
            /\ Active(s)' <=> Active(s)
            /\ Used(s)' <=> Used(s)
    BY DEF SameLeases, GrantOf, GenerationOf
  <1> QED
    BY <1>1 DEF Grants, Issued

LEMMA UnchangedLeases ==
    ASSUME lease' = lease
    PROVE  Grants' = Grants /\ Issued' = Issued
  BY DEF Grants, Issued, GrantOf, GenerationOf, Active, Used

\* A release gives grants up and forgets no generation.
LEMMA ReleaseReleases ==
    ASSUME IInv, NEW S \in SUBSET SessionIds, \A s \in S : Active(s),
           NEW why \in Reasons, lease' = Closed(S)
    PROVE  Exclusive!Release
  <1>1. \A s \in SessionIds :
            /\ Active(s)' <=> (Active(s) /\ s \notin S)
            /\ Used(s)' <=> Used(s)
            /\ Used(s) => /\ lease'[s].device = lease[s].device
                          /\ lease'[s].address = lease[s].address
                          /\ lease'[s].generation = lease[s].generation
    BY ReleaseEffect DEF IInv, TableInv, Active, Used
  <1>2. \A s \in SessionIds : Used(s) =>
            GrantOf(s)' = GrantOf(s) /\ GenerationOf(s)' = GenerationOf(s)
    BY <1>1 DEF GrantOf, GenerationOf
  <1>3. \A s \in SessionIds : Active(s) => Used(s)
    BY DEF Active, Used
  <1>4. Grants' \subseteq Grants
    BY <1>1, <1>2, <1>3 DEF Grants
  <1>5. Issued' = Issued
    BY <1>1, <1>2 DEF Issued
  <1> QED
    BY <1>4, <1>5 DEF Exclusive!Release

\* What releases leases does so to active ones.
LEMMA CloseReleases ==
    ASSUME IInv, NEW r \in Requests, CloseSession(r)
    PROVE  Exclusive!Release
  <1> DEFINE s == request[r].session
             S == IF Active(s) THEN {s} ELSE {}
  <1>1. s \in SessionIds
    BY Shapes DEF IInv, CloseSession, OfSession
  <1>2. S \in SUBSET SessionIds /\ \A t \in S : Active(t)
    BY <1>1
  <1>3. lease' = Closed(S) /\ "client_close" \in Reasons
    BY DEF CloseSession, Release, Reasons
  <1> HIDE DEF S
  <1> QED
    BY <1>2, <1>3, ReleaseReleases

LEMMA RevokeReleases ==
    ASSUME IInv, NEW r \in Requests, RevokeDevice(r)
    PROVE  Exclusive!Release
  <1> DEFINE S == ActiveOf(request[r].device)
  <1>1. S \in SUBSET SessionIds /\ \A t \in S : Active(t)
    BY DEF ActiveOf, LeasesOf
  <1>2. lease' = Closed(S) /\ "revoked" \in Reasons
    BY DEF RevokeDevice, Release, Reasons
  <1> HIDE DEF S
  <1> QED
    BY <1>1, <1>2, ReleaseReleases

LEMMA SweepReleases ==
    ASSUME IInv, NEW w \in Sweepers, SweepCommit(w)
    PROVE  Exclusive!Release
  <1>1. sweeping[w] \in SUBSET SessionIds /\ \A s \in sweeping[w] : Active(s)
    BY DEF IInv, LockInv, SweepsHold, TypeOK
  <1>2. lease' = Closed(sweeping[w]) /\ "heartbeat_timeout" \in Reasons
    BY DEF SweepCommit, Release, TimeoutReason, Reasons
  <1> QED
    BY <1>1, <1>2, ReleaseReleases

-----------------------------------------------------------------------------
\* The locks on the device and on the address make a connect a grant.
LEMMA ConnectGrants ==
    ASSUME IInv, NEW r \in Requests, CommitConnect(r)
    PROVE  \E h \in Grants' : Exclusive!Grant(h)
  <1>0. TypeOK /\ TableInv /\ LockInv /\ LedgerMatchesStatus
    BY DEF IInv, TableInv
  <1> DEFINE q == request[r]
             d == q.device
             a == q.address
             old == {q.session} \ {NoSession}
  <1>1. /\ request[r] \in Reserved /\ q.stage = "reserved" /\ d \in Devices
        /\ a \in Addresses
    BY <1>0, Shapes DEF CommitConnect, At, Reserved
  <1>2. /\ address[a] = "free"
        /\ \A s \in ActiveOf(d) : s \in old
        /\ \A s \in old : s \in ActiveOf(d)
    <2>1. /\ address[a] = "free"
          /\ \A s \in ActiveOf(d) : s = q.session
          /\ q.session # NoSession => q.session \in ActiveOf(d)
      BY <1>0, <1>1 DEF LockInv, ReservationHolds
    <2>2. NoSession \notin ActiveOf(d)
      BY DEF ActiveOf, LeasesOf, SessionIds, NoSession
    <2> QED
      BY <2>1, <2>2
  <1>3. /\ old \in SUBSET SessionIds
        /\ \A s \in old : Active(s)
        /\ \A s \in SessionIds : s \in old <=> (Active(s) /\ lease[s].device = d)
    BY <1>2 DEF ActiveOf, LeasesOf, Active, Used
  <1>4. PICK n \in SessionIds :
            /\ ~Used(n)
            /\ lease' = [Closed(old) EXCEPT ![n] =
                  [device |-> d, ap |-> q.ap, address |-> a,
                   generation |-> NextGeneration(d), key |-> q.key,
                   status |-> "active", fresh |-> TRUE]]
    BY DEF CommitConnect
  <1> DEFINE h == [holder |-> d, place |-> a, generation |-> NextGeneration(d)]
             i == [holder |-> d, generation |-> NextGeneration(d)]
  <1> HIDE DEF old
  <1>5. /\ "reconnect" \in Reasons /\ Closed(old) \in [SessionIds -> Lease \cup {NoLease}]
        /\ \A s \in SessionIds :
              /\ (Closed(old)[s].status = "active") <=> (Active(s) /\ s \notin old)
              /\ (Closed(old)[s].status # "none") <=> Used(s)
              /\ Used(s) => /\ Closed(old)[s].device = lease[s].device
                            /\ Closed(old)[s].address = lease[s].address
                            /\ Closed(old)[s].generation = lease[s].generation
    <2>1. "reconnect" \in Reasons
      BY DEF Reasons
    <2> QED
      BY <2>1, <1>0, <1>3, ReleaseEffect
  <1>6. /\ GrantOf(n)' = h /\ GenerationOf(n)' = i
        /\ Active(n)' /\ Used(n)' /\ ~Active(n) /\ ~Used(n)
    BY <1>4, <1>5 DEF GrantOf, GenerationOf, Active, Used
  <1>7. \A s \in SessionIds : s # n =>
            /\ Used(s)' <=> Used(s)
            /\ Active(s)' <=> (Active(s) /\ lease[s].device # d)
            /\ Used(s) => GrantOf(s)' = GrantOf(s) /\ GenerationOf(s)' = GenerationOf(s)
    BY <1>3, <1>4, <1>5 DEF GrantOf, GenerationOf, Active, Used
  <1>8. \A s \in SessionIds : Active(s) => Used(s)
    BY DEF Active, Used
  <1>9. \A s \in SessionIds : GrantOf(s).holder = lease[s].device
                              /\ GrantOf(s).place = lease[s].address
                              /\ GenerationOf(s).holder = lease[s].device
                              /\ GenerationOf(s).generation = lease[s].generation
    BY DEF GrantOf, GenerationOf
  <1>10. h \in Grants'
    BY <1>6 DEF Grants
  <1>11. Grants' = {g \in Grants : g.holder # d} \cup {h}
    <2>1. ASSUME NEW g \in Grants' PROVE g \in {x \in Grants : x.holder # d} \cup {h}
      <3>1. PICK s \in SessionIds : Active(s)' /\ g = GrantOf(s)'
        BY DEF Grants
      <3>2. CASE s = n
        BY <3>1, <3>2, <1>6
      <3>3. CASE s # n
        BY <3>1, <3>3, <1>7, <1>8, <1>9 DEF Grants
      <3> QED
        BY <3>2, <3>3
    <2>2. ASSUME NEW g \in Grants, g.holder # d PROVE g \in Grants'
      <3>1. PICK s \in SessionIds : Active(s) /\ g = GrantOf(s)
        BY DEF Grants
      <3> QED
        BY <3>1, <2>2, <1>6, <1>7, <1>8, <1>9 DEF Grants
    <2> QED
      BY <2>1, <2>2, <1>10
  <1>12. Issued' = Issued \cup {i}
    <2>1. ASSUME NEW g \in Issued' PROVE g \in Issued \cup {i}
      BY <1>6, <1>7 DEF Issued
    <2>2. ASSUME NEW g \in Issued \cup {i} PROVE g \in Issued'
      BY <1>6, <1>7 DEF Issued
    <2> QED
      BY <2>1, <2>2
  <1>13. \A g \in Grants : g.place # a
    <2>1. \A s \in SessionIds : Active(s) => lease[s].address # a
      BY <1>0, <1>1, <1>2 DEF TableInv, AddressesMatchLeases
    <2> QED
      BY <2>1, <1>9 DEF Grants
  <1>14. \A g \in Issued : g.holder = d => g.generation < NextGeneration(d)
    <2>1. \A t \in LeasesOf(d) : lease[t].generation < NextGeneration(d)
      BY <1>0, <1>1, NextGenerationIsNewer DEF TableInv
    <2> QED
      BY <2>1, <1>9 DEF Issued, LeasesOf
  <1>15. Exclusive!Grant(h)
    BY <1>11, <1>12, <1>13, <1>14 DEF Exclusive!Grant
  <1> QED
    BY <1>10, <1>15

-----------------------------------------------------------------------------
\* A heartbeat and the time that passes change the flag of one lease.
LEMMA FlagStutters ==
    ASSUME IInv,
           \/ \E r \in Requests : Heartbeat(r)
           \/ \E s \in SessionIds : Elapse(s)
    PROVE  Grants' = Grants /\ Issued' = Issued
  <1>1. \/ lease' = lease
        \/ \E s \in SessionIds, b \in BOOLEAN :
              Active(s) /\ lease' = [lease EXCEPT ![s].fresh = b]
    <2>1. ASSUME NEW r \in Requests, Heartbeat(r)
          PROVE  \/ lease' = lease
                 \/ \E s \in SessionIds, b \in BOOLEAN :
                       Active(s) /\ lease' = [lease EXCEPT ![s].fresh = b]
      <3> DEFINE s == request[r].session
      <3>1. s \in SessionIds
        BY <2>1, Shapes DEF IInv, Heartbeat, OfSession
      <3>2. lease' = lease \/ (Active(s) /\ lease' = [lease EXCEPT ![s].fresh = TRUE])
        BY <2>1 DEF Heartbeat, Beatable
      <3> HIDE DEF s
      <3> QED
        BY <3>1, <3>2
    <2>2. ASSUME NEW s \in SessionIds, Elapse(s)
          PROVE  \E t \in SessionIds, b \in BOOLEAN :
                    Active(t) /\ lease' = [lease EXCEPT ![t].fresh = b]
      BY <2>2 DEF Elapse
    <2> QED
      BY <2>1, <2>2
  <1>2. CASE lease' = lease
    BY <1>2, UnchangedLeases
  <1>3. CASE \E s \in SessionIds, b \in BOOLEAN :
                Active(s) /\ lease' = [lease EXCEPT ![s].fresh = b]
    <2>1. PICK s \in SessionIds, b \in BOOLEAN :
              Active(s) /\ lease' = [lease EXCEPT ![s].fresh = b]
      BY <1>3
    <2> DEFINE new == [lease[s] EXCEPT !.fresh = b]
    <2>2. lease \in [SessionIds -> Lease \cup {NoLease}] /\ lease[s] \in Lease
      BY <2>1 DEF IInv, TypeOK, Active, NoLease
    <2>3. /\ new.device = lease[s].device /\ new.address = lease[s].address
          /\ new.generation = lease[s].generation /\ new.status = lease[s].status
      BY <2>2 DEF Lease
    <2>4. lease' = [lease EXCEPT ![s] = new]
      BY <2>1
    <2> HIDE DEF new
    <2>5. SameLeases
      BY <2>2, <2>3, <2>4 DEF SameLeases, Used, Active
    <2> QED
      BY <2>5, SameGrants
  <1> QED
    BY <1>1, <1>2, <1>3

\* Requests that arrive, take locks, are refused or only write the device row
LEMMA OthersStutter ==
    ASSUME \/ \E r \in Requests :
                 \/ Arrive(r) \/ LockDevice(r) \/ LockAccessPoint(r)
                 \/ ReserveAddress(r) \/ ReissueToken(r) \/ ReinstateDevice(r)
           \/ \E w \in Sweepers : SweepSelect(w)
           \/ Crash \/ Rest \/ UNCHANGED vars
    PROVE  lease' = lease
  BY DEF Arrive, RequestConnect, RequestOnLease, RequestAdmin, Enter, LockDevice,
     LockAccessPoint, ReserveAddress, Refuse, ReissueToken, ReinstateDevice,
     SweepSelect, Crash, Rest, tables, vars

THEOREM StepIsAbstract ==
    IInv /\ [Next]_vars => [Exclusive!Next]_<<Grants, Issued>>
  <1> SUFFICES ASSUME IInv, [Next]_vars
               PROVE  Exclusive!Next \/ (Grants' = Grants /\ Issued' = Issued)
    OBVIOUS
  <1>1. ASSUME NEW r \in Requests, CommitConnect(r) PROVE Exclusive!Next
    BY <1>1, ConnectGrants DEF Exclusive!Next
  <1>2. ASSUME \/ \E r \in Requests : CloseSession(r) \/ RevokeDevice(r)
               \/ \E w \in Sweepers : SweepCommit(w)
        PROVE  Exclusive!Next
    BY <1>2, CloseReleases, RevokeReleases, SweepReleases DEF Exclusive!Next
  <1>3. ASSUME \/ \E r \in Requests : Heartbeat(r)
               \/ \E s \in SessionIds : Elapse(s)
        PROVE  Grants' = Grants /\ Issued' = Issued
    BY <1>3, FlagStutters
  <1>4. ASSUME \/ \E r \in Requests :
                     \/ Arrive(r) \/ LockDevice(r) \/ LockAccessPoint(r)
                     \/ ReserveAddress(r) \/ ReissueToken(r) \/ ReinstateDevice(r)
               \/ \E w \in Sweepers : SweepSelect(w)
               \/ Crash \/ Rest \/ UNCHANGED vars
        PROVE  Grants' = Grants /\ Issued' = Issued
    BY <1>4, OthersStutter, UnchangedLeases
  <1> QED
    BY <1>1, <1>2, <1>3, <1>4 DEF Next, Proceed

\* Every behaviour of the lease transactions is one of ExclusiveLease: no address
\* is granted twice, and no generation of a device given twice (leasing.py:9-20,
\* 142-246).
THEOREM GrantsAreExclusive == Spec => ExclusiveGrants
  <1>1. Init => Exclusive!Init
    BY InitIsAbstract
  <1>2. IInv /\ [Next]_vars => [Exclusive!Next]_<<Grants, Issued>>
    BY StepIsAbstract
  <1> QED
    BY <1>1, <1>2, Invariance, PTL
       DEF Spec, ExclusiveGrants, Exclusive!Spec, Exclusive!vars
=============================================================================
