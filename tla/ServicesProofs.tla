---------------------------- MODULE ServicesProofs ----------------------------
(***************************************************************************)
(* For any constants that Services allows: its invariants, and the logs    *)
(* and leases that its applications implement. A name X_Y is of the proof  *)
(* about application X. Those of training and workflows are lemmas of      *)
(* ApplicationProofs, those of evidence and jobs of the modules of proofs  *)
(* that Services instances.                                                *)
(***************************************************************************)
EXTENDS Services

-----------------------------------------------------------------------------
(* Leases (text12/a) *)

\* What the parameters may be
LeaseA_Parameters == LeaseAConfig.Capacity \in [LeaseAConfig.Points -> Nat] /\ LeaseAConfig.MaxGeneration \in Nat

LeaseA_Rows == [point : LeaseAConfig.Points, ip : UNION {LeaseAConfig.Hosts[p] : p \in LeaseAConfig.Points},
         status : {"active", "closed", "revoked", "expired"}, seen : Nat]

LeaseA_TypeInv ==
    /\ s1 \in Nat
    /\ s2 \in [LeaseAConfig.Devices -> {"active", "revoked"}]
    /\ s3 \in [LeaseAConfig.Devices -> Seq(LeaseA_Rows)]
    /\ \A d \in LeaseAConfig.Devices : Len(s3[d]) <= LeaseAConfig.MaxGeneration

\* The capacity of a point bounds a finite set.
LeaseA_Bounded ==
    \A p \in LeaseAConfig.Points : IsFiniteSet(LeaseA!At(p)) /\ Cardinality(LeaseA!At(p)) <= LeaseAConfig.Capacity[p]

\* A device's active lease is its newest.
LeaseA_Newest ==
    \A id \in LeaseA!Active : id[2] = Len(s3[id[1]]) /\ s2[id[1]] = "active"

\* Two active leases of one address are the same.
LeaseA_Single ==
    \A i, j \in LeaseA!Active :
        LeaseA!Lease(i).point = LeaseA!Lease(j).point /\ LeaseA!Lease(i).ip = LeaseA!Lease(j).ip => i = j

LeaseA_IInv == LeaseA_TypeInv /\ LeaseA_Bounded /\ LeaseA_Newest /\ LeaseA_Single

\* The service as ExclusiveLease sees it
LeaseA_Exclusive == INSTANCE ExclusiveLease WITH
    held <- LeaseA!held, issued <- LeaseA!issued

\* A step that changes no row's place, and makes none active
LeaseA_Shrinks ==
    /\ s3' \in [LeaseAConfig.Devices -> Seq(LeaseA_Rows)]
    /\ \A d \in LeaseAConfig.Devices :
           /\ Len(s3'[d]) = Len(s3[d])
           /\ \A g \in 1 .. Len(s3[d]) :
                  /\ s3'[d][g].point = s3[d][g].point
                  /\ s3'[d][g].ip = s3[d][g].ip
                  /\ s3'[d][g].status = "active" =>
                         s3[d][g].status = "active"

-----------------------------------------------------------------------------
LEMMA LeaseA_Counts == \A S : LeaseA!Cardinality(S) = Cardinality(S)
  BY DEF LeaseA!Cardinality, Cardinality

LEMMA LeaseA_Rowwise ==
    ASSUME LeaseA_TypeInv
    PROVE  /\ \A d \in LeaseAConfig.Devices :
                  /\ Len(s3[d]) \in Nat
                  /\ DOMAIN s3[d] = 1 .. Len(s3[d])
                  /\ \A g \in 1 .. Len(s3[d]) : s3[d][g] \in LeaseA_Rows
           /\ \A id \in LeaseA!Ids :
                  /\ id[1] \in LeaseAConfig.Devices
                  /\ id[2] \in 1 .. LeaseAConfig.MaxGeneration
                  /\ id = <<id[1], id[2]>>
                  /\ LeaseA!Exists(id) <=> id[2] \in 1 .. Len(s3[id[1]])
  <1>1. \A d \in LeaseAConfig.Devices : s3[d] \in Seq(LeaseA_Rows)
    BY DEF LeaseA_TypeInv
  <1>2. ASSUME NEW d \in LeaseAConfig.Devices
        PROVE  /\ Len(s3[d]) \in Nat
               /\ DOMAIN s3[d] = 1 .. Len(s3[d])
               /\ \A g \in 1 .. Len(s3[d]) : s3[d][g] \in LeaseA_Rows
    BY <1>1, LenProperties, ElementOfSeq
  <1> QED
    BY <1>2 DEF LeaseA!Ids, LeaseA!Exists

LEMMA LeaseA_InitInv == LeaseA_Parameters /\ LeaseA!Init => LeaseA_IInv /\ LeaseA_Exclusive!Init
  <1> SUFFICES ASSUME LeaseA_Parameters, LeaseA!Init PROVE LeaseA_IInv /\ LeaseA_Exclusive!Init
    OBVIOUS
  <1>1. \A d \in LeaseAConfig.Devices : s3[d] = <<>> /\ Len(s3[d]) = 0 /\ DOMAIN s3[d] = {}
    BY DEF LeaseA!Init
  <1>2. LeaseA_TypeInv
    BY <1>1, EmptySeq DEF LeaseA!Init, LeaseA_TypeInv, LeaseA_Parameters
  <1>3. \A id \in LeaseA!Ids : ~ LeaseA!Exists(id)
    BY <1>1, <1>2, LeaseA_Rowwise
  <1>4. LeaseA!Active = {} /\ LeaseA!issued = {}
    BY <1>3 DEF LeaseA!Active, LeaseA!issued
  <1>5. \A p \in LeaseAConfig.Points : LeaseA!At(p) = {}
    BY <1>4 DEF LeaseA!At
  <1>6. LeaseA_Bounded
    BY <1>5, FS_EmptySet DEF LeaseA_Bounded, LeaseA_Parameters
  <1> QED
    BY <1>2, <1>4, <1>6
       DEF LeaseA_IInv, LeaseA_Newest, LeaseA_Single, LeaseA_Exclusive!Init, LeaseA!held

\* What becomes of the leases when some end and none begins
LEMMA LeaseA_ShrinkEffect ==
    ASSUME LeaseA_IInv, LeaseA_Shrinks
    PROVE  /\ \A id \in LeaseA!Ids : LeaseA!Exists(id)' <=> LeaseA!Exists(id)
           /\ \A id \in LeaseA!Active' :
                  /\ id \in LeaseA!Active
                  /\ LeaseA!Lease(id)'.point = LeaseA!Lease(id).point
                  /\ LeaseA!Lease(id)'.ip = LeaseA!Lease(id).ip
  <1>1. ASSUME NEW d \in LeaseAConfig.Devices
        PROVE  DOMAIN s3'[d] = 1 .. Len(s3[d])
    BY LenProperties DEF LeaseA_Shrinks
  <1>2. \A id \in LeaseA!Ids : LeaseA!Exists(id)' <=> LeaseA!Exists(id)
    BY <1>1, LeaseA_Rowwise DEF LeaseA!Exists, LeaseA_IInv
  <1>3. ASSUME NEW id \in LeaseA!Active'
        PROVE  /\ id \in LeaseA!Active
               /\ LeaseA!Lease(id)'.point = LeaseA!Lease(id).point
               /\ LeaseA!Lease(id)'.ip = LeaseA!Lease(id).ip
    <2>1. id \in LeaseA!Ids /\ LeaseA!Exists(id) /\ LeaseA!Lease(id)'.status = "active"
      BY <1>2, <1>3 DEF LeaseA!Active
    <2>2. id[1] \in LeaseAConfig.Devices /\ id[2] \in 1 .. Len(s3[id[1]])
      BY <2>1, LeaseA_Rowwise DEF LeaseA_IInv
    <2> QED
      BY <2>1, <2>2 DEF LeaseA_Shrinks, LeaseA!Lease, LeaseA!Active
  <1> QED
    BY <1>2, <1>3

LEMMA LeaseA_ShrinkPreserves ==
    ASSUME LeaseA_IInv, LeaseA_Parameters, LeaseA_Shrinks, s1' \in Nat,
           s2' \in [LeaseAConfig.Devices -> {"active", "revoked"}],
           \A id \in LeaseA!Active' : s2'[id[1]] = "active"
    PROVE  LeaseA_IInv' /\ LeaseA_Exclusive!Release
  <1>1. LeaseA_TypeInv'
    BY DEF LeaseA_IInv, LeaseA_TypeInv, LeaseA_Shrinks
  <1>2. ASSUME NEW p \in LeaseAConfig.Points
        PROVE  LeaseA!At(p)' \subseteq LeaseA!At(p)
    BY LeaseA_ShrinkEffect DEF LeaseA!At
  <1>3. LeaseA_Bounded'
    <2> SUFFICES ASSUME NEW p \in LeaseAConfig.Points
                 PROVE  IsFiniteSet(LeaseA!At(p)') /\ Cardinality(LeaseA!At(p)') <= LeaseAConfig.Capacity[p]
      BY DEF LeaseA_Bounded
    <2>1. IsFiniteSet(LeaseA!At(p)) /\ Cardinality(LeaseA!At(p)) <= LeaseAConfig.Capacity[p] /\ LeaseAConfig.Capacity[p] \in Nat
      BY DEF LeaseA_IInv, LeaseA_Bounded, LeaseA_Parameters
    <2>2. IsFiniteSet(LeaseA!At(p)') /\ Cardinality(LeaseA!At(p)') <= Cardinality(LeaseA!At(p))
      BY <1>2, <2>1, FS_Subset
    <2>3. Cardinality(LeaseA!At(p)) \in Nat /\ Cardinality(LeaseA!At(p)') \in Nat
      BY <2>1, <2>2, FS_CardinalityType
    <2> QED
      BY <2>1, <2>2, <2>3
  <1>4. LeaseA_Newest'
    <2>1. \A id \in LeaseA!Active' : id[1] \in LeaseAConfig.Devices
      BY DEF LeaseA!Active, LeaseA!Ids
    <2> QED
      BY <2>1, LeaseA_ShrinkEffect DEF LeaseA_IInv, LeaseA_Newest, LeaseA_Shrinks
  <1>5. LeaseA_Single'
    BY LeaseA_ShrinkEffect DEF LeaseA_IInv, LeaseA_Single
  <1>6. LeaseA!held' \subseteq LeaseA!held
    BY LeaseA_ShrinkEffect DEF LeaseA!held
  <1>7. LeaseA!issued' = LeaseA!issued
    BY LeaseA_ShrinkEffect DEF LeaseA!issued, LeaseA!Ids
  <1> QED
    BY <1>1, <1>3, <1>4, <1>5, <1>6, <1>7 DEF LeaseA_IInv, LeaseA_Exclusive!Release

-----------------------------------------------------------------------------
(* Ending leases, and heartbeats *)

LEMMA LeaseA_TerminatedShrinks ==
    ASSUME LeaseA_IInv, NEW ids, NEW why \in {"closed", "revoked", "expired"},
           s3' = LeaseA!Terminated(ids, why)
    PROVE  /\ LeaseA_Shrinks
           /\ \A id \in LeaseA!Active' : id \notin ids
  <1>1. ASSUME NEW d \in LeaseAConfig.Devices
        PROVE  /\ s3'[d] \in Seq(LeaseA_Rows)
               /\ Len(s3'[d]) = Len(s3[d])
               /\ DOMAIN s3'[d] = 1 .. Len(s3[d])
               /\ \A g \in 1 .. Len(s3[d]) : s3'[d][g] =
                      IF <<d, g>> \in ids \cap LeaseA!Active
                      THEN [s3[d][g] EXCEPT !.status = why] ELSE s3[d][g]
    <2> DEFINE row(g) == IF <<d, g>> \in ids \cap LeaseA!Active
                         THEN [s3[d][g] EXCEPT !.status = why] ELSE s3[d][g]
    <2>1. /\ Len(s3[d]) \in Nat
          /\ DOMAIN s3[d] = 1 .. Len(s3[d])
          /\ \A g \in 1 .. Len(s3[d]) : s3[d][g] \in LeaseA_Rows
      BY LeaseA_Rowwise DEF LeaseA_IInv
    <2>2. \A g \in 1 .. Len(s3[d]) : row(g) \in LeaseA_Rows
      BY <2>1 DEF LeaseA_Rows
    <2>3. s3'[d] = [g \in 1 .. Len(s3[d]) |-> row(g)]
      BY <2>1 DEF LeaseA!Terminated
    <2> QED
      BY <2>1, <2>2, <2>3
  <1>2. s3' \in [LeaseAConfig.Devices -> Seq(LeaseA_Rows)]
    BY <1>1 DEF LeaseA!Terminated
  <1>3. LeaseA_Shrinks
    <2> SUFFICES ASSUME NEW d \in LeaseAConfig.Devices, NEW g \in 1 .. Len(s3[d])
                 PROVE  /\ s3'[d][g].point = s3[d][g].point
                        /\ s3'[d][g].ip = s3[d][g].ip
                        /\ s3'[d][g].status = "active" =>
                               s3[d][g].status = "active"
      BY <1>1, <1>2 DEF LeaseA_Shrinks
    <2>1. s3[d][g] \in LeaseA_Rows
      BY LeaseA_Rowwise DEF LeaseA_IInv
    <2>2. s3'[d][g] = s3[d][g] \/ s3'[d][g] = [s3[d][g] EXCEPT !.status = why]
      BY <1>1
    <2> QED
      BY <2>1, <2>2 DEF LeaseA_Rows
  <1>4. ASSUME NEW id \in LeaseA!Active', id \in ids
        PROVE  FALSE
    <2>1. id \in LeaseA!Active
      BY <1>3, LeaseA_ShrinkEffect
    <2>2. /\ id[1] \in LeaseAConfig.Devices /\ id[2] \in 1 .. Len(s3[id[1]])
          /\ id = <<id[1], id[2]>>
      BY <2>1, LeaseA_Rowwise DEF LeaseA_IInv, LeaseA!Active
    <2>3. s3[id[1]][id[2]] \in LeaseA_Rows
      BY <2>2, LeaseA_Rowwise DEF LeaseA_IInv
    <2>4. s3'[id[1]][id[2]].status = why
      <3>1. s3'[id[1]][id[2]] = [s3[id[1]][id[2]] EXCEPT !.status = why]
        BY <1>1, <1>4, <2>1, <2>2
      <3> QED
        BY <3>1, <2>3 DEF LeaseA_Rows
    <2>5. s3'[id[1]][id[2]].status = "active"
      BY DEF LeaseA!Active, LeaseA!Lease
    <2> QED
      BY <2>4, <2>5
  <1> QED
    BY <1>3, <1>4

LEMMA LeaseA_HeartbeatShrinks ==
    ASSUME LeaseA_IInv, NEW d \in LeaseAConfig.Devices,
           NEW g \in 1 .. LeaseAConfig.MaxGeneration, LeaseA!Heartbeat(d, g)
    PROVE  LeaseA_Shrinks
  <1>1. <<d, g>> \in LeaseA!Active /\ g \in 1 .. Len(s3[d])
    BY LeaseA_Rowwise DEF LeaseA!Heartbeat, LeaseA!Beats, LeaseA_IInv, LeaseA!Active
  <1>2. s3[d] \in Seq(LeaseA_Rows) /\ s3[d][g] \in LeaseA_Rows
    BY <1>1, LeaseA_Rowwise DEF LeaseA_IInv, LeaseA_TypeInv
  <1> DEFINE row == [s3[d][g] EXCEPT !.status = "active", !.seen = s1]
  <1>3. /\ row \in LeaseA_Rows /\ row.point = s3[d][g].point
        /\ row.ip = s3[d][g].ip
    BY <1>2 DEF LeaseA_Rows, LeaseA_IInv, LeaseA_TypeInv
  <1>4. s3' = [s3 EXCEPT ![d] = [s3[d] EXCEPT ![g] = row]]
    BY <1>2 DEF LeaseA!Heartbeat, LeaseA_IInv, LeaseA_TypeInv, LeaseA_Rows
  <1>5. s3[d][g].status = "active"
    BY <1>1 DEF LeaseA!Active, LeaseA!Lease
  <1>6. /\ [s3[d] EXCEPT ![g] = row] \in Seq(LeaseA_Rows)
        /\ Len([s3[d] EXCEPT ![g] = row]) = Len(s3[d])
        /\ \A h \in 1 .. Len(s3[d]) :
               [s3[d] EXCEPT ![g] = row][h] = IF h = g THEN row ELSE s3[d][h]
    BY <1>1, <1>2, <1>3, ExceptSeq
  <1> QED
    BY <1>3, <1>4, <1>5, <1>6 DEF LeaseA_Shrinks, LeaseA_IInv, LeaseA_TypeInv

-----------------------------------------------------------------------------
(* Connect *)

LEMMA LeaseA_ConnectGrants ==
    ASSUME LeaseA_IInv, LeaseA_Parameters, NEW d \in LeaseAConfig.Devices,
           NEW p \in LeaseAConfig.Points,
           NEW t \in 0 .. s1, LeaseA!Connect(d, p, t)
    PROVE  LeaseA_IInv' /\ \E h \in LeaseA!held' : LeaseA_Exclusive!Grant(h)
  <1>4. PICK n \in Nat :
            /\ n = Len(s3[d])
            /\ s3[d] \in Seq(LeaseA_Rows)
            /\ DOMAIN s3[d] = 1 .. n
    BY LeaseA_Rowwise DEF LeaseA_IInv, LeaseA_TypeInv
  <1> DEFINE new == <<d, n + 1>>
  <1>1. PICK ip \in LeaseA!Free(p) :
            s3' = [s3 EXCEPT ![d] = Append(@,
                [point |-> p, ip |-> ip, status |-> "active", seen |-> t])]
    BY DEF LeaseA!Connect
  <1> DEFINE row == [point |-> p, ip |-> ip, status |-> "active", seen |-> t]
  <1>2. /\ s2[d] = "active"
        /\ \A id \in LeaseA!Active : id[1] # d
        /\ Cardinality(LeaseA!At(p)) < LeaseAConfig.Capacity[p]
        /\ n < LeaseAConfig.MaxGeneration
        /\ UNCHANGED <<s1, s2>>
    BY <1>4, LeaseA_Counts DEF LeaseA!Connect
  <1>3. row \in LeaseA_Rows
    BY DEF LeaseA_Rows, LeaseA!Free, LeaseA_IInv, LeaseA_TypeInv
  <1>5. /\ s3'[d] \in Seq(LeaseA_Rows)
        /\ Len(s3'[d]) = n + 1
        /\ DOMAIN s3'[d] = 1 .. n + 1
        /\ \A g \in 1 .. n : s3'[d][g] = s3[d][g]
        /\ s3'[d][n + 1] = row
    <2>1. s3'[d] = Append(s3[d], row)
      BY <1>1 DEF LeaseA_IInv, LeaseA_TypeInv
    <2> QED
      BY <1>3, <1>4, <2>1
  <1>6. \A e \in LeaseAConfig.Devices : e # d => s3'[e] = s3[e]
    BY <1>1 DEF LeaseA_IInv, LeaseA_TypeInv
  <1>7. LeaseA_TypeInv'
    <2>1. s3' \in [LeaseAConfig.Devices -> Seq(LeaseA_Rows)]
      BY <1>1, <1>5, <1>6 DEF LeaseA_IInv, LeaseA_TypeInv
    <2>2. \A e \in LeaseAConfig.Devices : Len(s3'[e]) <= LeaseAConfig.MaxGeneration
      BY <1>2, <1>4, <1>5, <1>6 DEF LeaseA_IInv, LeaseA_TypeInv, LeaseA_Parameters
    <2> QED
      BY <1>2, <2>1, <2>2 DEF LeaseA_IInv, LeaseA_TypeInv
  <1>8. /\ new \in LeaseA!Ids /\ LeaseA!Exists(new)' /\ LeaseA!Lease(new)' = row /\ ~ LeaseA!Exists(new)
    BY <1>2, <1>4, <1>5 DEF LeaseA!Ids, LeaseA!Exists, LeaseA!Lease, LeaseA_Parameters
  <1>9. ASSUME NEW id \in LeaseA!Ids, id # new
        PROVE  /\ LeaseA!Exists(id)' <=> LeaseA!Exists(id)
               /\ LeaseA!Exists(id) => LeaseA!Lease(id)' = LeaseA!Lease(id)
    <2>1. id[1] \in LeaseAConfig.Devices /\ id[2] \in Nat /\ id = <<id[1], id[2]>>
      BY LeaseA_Rowwise DEF LeaseA_IInv
    <2>2. CASE id[1] = d
      <3>1. id[2] # n + 1
        BY <1>9, <2>1, <2>2
      <3>2. id[2] \in DOMAIN s3'[d] <=> id[2] \in DOMAIN s3[d]
        BY <1>4, <1>5, <2>1, <3>1
      <3>3. id[2] \in DOMAIN s3[d] => s3'[d][id[2]] = s3[d][id[2]]
        BY <1>4, <1>5
      <3> QED
        BY <1>4, <1>5, <2>1, <2>2, <3>2, <3>3 DEF LeaseA!Exists, LeaseA!Lease
    <2>3. CASE id[1] # d
      BY <1>6, <2>1, <2>3 DEF LeaseA!Exists, LeaseA!Lease
    <2> QED
      BY <2>2, <2>3
  <1>10. /\ LeaseA!Active' = LeaseA!Active \cup {new}
         /\ \A id \in LeaseA!Active : id # new /\ LeaseA!Lease(id)' = LeaseA!Lease(id)
    <2>1. \A id \in LeaseA!Active : id # new /\ id \in LeaseA!Ids /\ LeaseA!Exists(id)
      BY <1>8 DEF LeaseA!Active
    <2>2. new \in LeaseA!Active'
      BY <1>8 DEF LeaseA!Active
    <2> QED
      BY <1>9, <2>1, <2>2 DEF LeaseA!Active
  <1>11. LeaseA_Bounded'
    <2> SUFFICES ASSUME NEW q \in LeaseAConfig.Points
                 PROVE  IsFiniteSet(LeaseA!At(q)') /\ Cardinality(LeaseA!At(q)') <= LeaseAConfig.Capacity[q]
      BY DEF LeaseA_Bounded
    <2>1. IsFiniteSet(LeaseA!At(q)) /\ Cardinality(LeaseA!At(q)) <= LeaseAConfig.Capacity[q]
      BY DEF LeaseA_IInv, LeaseA_Bounded
    <2>2. CASE q # p
      <3>1. LeaseA!At(q)' = LeaseA!At(q)
        BY <1>8, <1>10, <2>2 DEF LeaseA!At
      <3> QED
        BY <2>1, <3>1
    <2>3. CASE q = p
      <3>1. LeaseA!At(q)' = LeaseA!At(q) \cup {new}
        BY <1>8, <1>10, <2>3 DEF LeaseA!At
      <3>2. new \notin LeaseA!At(q)
        BY <1>10 DEF LeaseA!At
      <3>3. /\ IsFiniteSet(LeaseA!At(q)')
            /\ Cardinality(LeaseA!At(q)') = Cardinality(LeaseA!At(q)) + 1
        BY <2>1, <3>1, <3>2, FS_AddElement
      <3>4. Cardinality(LeaseA!At(q)) \in Nat /\ LeaseAConfig.Capacity[q] \in Nat
        BY <2>1, FS_CardinalityType DEF LeaseA_Parameters
      <3> QED
        BY <1>2, <2>3, <3>3, <3>4
    <2> QED
      BY <2>2, <2>3
  <1>12. LeaseA_Newest'
    <2>1. ASSUME NEW id \in LeaseA!Active
          PROVE  id[2] = Len(s3'[id[1]]) /\ s2'[id[1]] = "active"
      <3>1. id[1] \in LeaseAConfig.Devices /\ id[1] # d
        BY <1>2 DEF LeaseA!Active, LeaseA!Ids
      <3> QED
        BY <1>2, <1>6, <3>1 DEF LeaseA_IInv, LeaseA_Newest
    <2> QED
      BY <1>2, <1>5, <1>10, <2>1 DEF LeaseA_Newest
  <1>13. ASSUME NEW id \in LeaseA!Active
         PROVE  ~ (LeaseA!Lease(id).point = p /\ LeaseA!Lease(id).ip = ip)
    BY DEF LeaseA!Free, LeaseA!At
  <1>14. LeaseA_Single'
    BY <1>8, <1>10, <1>13 DEF LeaseA_IInv, LeaseA_Single
  <1> DEFINE h == [holder |-> d, place |-> <<p, ip>>, generation |-> n + 1]
  <1>15. LeaseA!held' = LeaseA!held \cup {h}
    BY <1>8, <1>10 DEF LeaseA!held
  <1>16. \A other \in LeaseA!held : other.holder # d /\ other.place # h.place
    BY <1>2, <1>13 DEF LeaseA!held
  <1>17. LeaseA!issued' = LeaseA!issued \cup {[holder |-> d, generation |-> n + 1]}
    <2>1. {i \in LeaseA!Ids : LeaseA!Exists(i)}' = {i \in LeaseA!Ids : LeaseA!Exists(i)} \cup {new}
      BY <1>8, <1>9 DEF LeaseA!Ids
    <2> DEFINE G(id) == [holder |-> id[1], generation |-> id[2]]
    <2>2. LeaseA!issued = {G(id) : id \in {i \in LeaseA!Ids : LeaseA!Exists(i)}}
      BY DEF LeaseA!issued
    <2>3. LeaseA!issued' = {G(id) : id \in {i \in LeaseA!Ids : LeaseA!Exists(i)} \cup {new}}
      BY <2>1 DEF LeaseA!issued
    <2>4. G(new) = [holder |-> d, generation |-> n + 1]
      OBVIOUS
    <2> HIDE DEF G
    <2> QED
      BY <2>2, <2>3, <2>4
  <1>18. \A i \in LeaseA!issued : i.holder = d => i.generation < n + 1
    <2>1. ASSUME NEW id \in LeaseA!Ids, LeaseA!Exists(id), id[1] = d
          PROVE  id[2] < n + 1
      BY <1>4, <2>1, LeaseA_Rowwise DEF LeaseA_IInv
    <2> QED
      BY <2>1 DEF LeaseA!issued
  <1>19. LeaseA!held' = {other \in LeaseA!held : other.holder # d} \cup {h}
    BY <1>15, <1>16
  <1>20. h \in LeaseA!held' /\ LeaseA_Exclusive!Grant(h)
    BY <1>15, <1>16, <1>17, <1>18, <1>19 DEF LeaseA_Exclusive!Grant
  <1> QED
    BY <1>7, <1>11, <1>12, <1>14, <1>20 DEF LeaseA_IInv

-----------------------------------------------------------------------------
LEMMA LeaseA_NextPreserves ==
    ASSUME LeaseA_Parameters, LeaseA_IInv, [LeaseA!Next]_(LeaseA!vars)
    PROVE  LeaseA_IInv' /\ [LeaseA_Exclusive!Next]_(LeaseA_Exclusive!vars)
  <1>1. ASSUME NEW d \in LeaseAConfig.Devices, NEW p \in LeaseAConfig.Points,
               NEW t \in 0 .. s1,
               LeaseA!Connect(d, p, t)
        PROVE  LeaseA_IInv' /\ LeaseA_Exclusive!Next
    BY <1>1, LeaseA_ConnectGrants DEF LeaseA_Exclusive!Next
  <1>2. ASSUME NEW d \in LeaseAConfig.Devices, NEW g \in 1 .. LeaseAConfig.MaxGeneration,
               LeaseA!Heartbeat(d, g)
        PROVE  LeaseA_IInv' /\ LeaseA_Exclusive!Release
    <2>1. LeaseA_Shrinks /\ UNCHANGED <<s1, s2>>
      BY <1>2, LeaseA_HeartbeatShrinks DEF LeaseA!Heartbeat
    <2>2. \A id \in LeaseA!Active' : s2'[id[1]] = "active"
      BY <2>1, LeaseA_ShrinkEffect DEF LeaseA_IInv, LeaseA_Newest
    <2> QED
      BY <2>1, <2>2, LeaseA_ShrinkPreserves DEF LeaseA_IInv, LeaseA_TypeInv
  <1>3. ASSUME NEW ids, NEW why \in {"closed", "revoked", "expired"},
               s3' = LeaseA!Terminated(ids, why), UNCHANGED <<s1, s2>>
        PROVE  LeaseA_IInv' /\ LeaseA_Exclusive!Release
    <2>1. LeaseA_Shrinks
      BY <1>3, LeaseA_TerminatedShrinks
    <2>2. \A id \in LeaseA!Active' : s2'[id[1]] = "active"
      BY <1>3, <2>1, LeaseA_ShrinkEffect DEF LeaseA_IInv, LeaseA_Newest
    <2> QED
      BY <1>3, <2>1, <2>2, LeaseA_ShrinkPreserves DEF LeaseA_IInv, LeaseA_TypeInv
  <1>4. ASSUME NEW d \in LeaseAConfig.Devices, LeaseA!Revoke(d)
        PROVE  LeaseA_IInv' /\ LeaseA_Exclusive!Release
    <2>1. /\ LeaseA_Shrinks
          /\ \A id \in LeaseA!Active' : id \notin {i \in LeaseA!Ids : i[1] = d}
      BY <1>4, LeaseA_TerminatedShrinks DEF LeaseA!Revoke
    <2>2. /\ s2' \in [LeaseAConfig.Devices -> {"active", "revoked"}]
          /\ \A e \in LeaseAConfig.Devices : e # d => s2'[e] = s2[e]
          /\ s1' \in Nat
      BY <1>4 DEF LeaseA!Revoke, LeaseA_IInv, LeaseA_TypeInv
    <2>3. ASSUME NEW id \in LeaseA!Active'
          PROVE  s2'[id[1]] = "active"
      <3>1. id \in LeaseA!Active /\ id \in LeaseA!Ids /\ id[1] \in LeaseAConfig.Devices /\ id[1] # d
        BY <2>1, LeaseA_ShrinkEffect DEF LeaseA!Active, LeaseA!Ids
      <3> QED
        BY <2>2, <3>1 DEF LeaseA_IInv, LeaseA_Newest
    <2> QED
      BY <2>1, <2>2, <2>3, LeaseA_ShrinkPreserves
  <1>5. ASSUME s3' = s3, s2' = s2, s1' \in Nat
        PROVE  LeaseA_IInv' /\ UNCHANGED <<LeaseA!held, LeaseA!issued>>
    <2>1. LeaseA!Active' = LeaseA!Active /\ \A id : LeaseA!Lease(id)' = LeaseA!Lease(id)
      BY <1>5 DEF LeaseA!Active, LeaseA!Exists, LeaseA!Lease
    <2>2. \A p \in LeaseAConfig.Points : LeaseA!At(p)' = LeaseA!At(p)
      BY <2>1 DEF LeaseA!At
    <2>3. LeaseA_IInv'
      BY <1>5, <2>1, <2>2
         DEF LeaseA_IInv, LeaseA_TypeInv, LeaseA_Bounded, LeaseA_Newest, LeaseA_Single
    <2>4. LeaseA!held' = LeaseA!held /\ LeaseA!issued' = LeaseA!issued
      BY <1>5, <2>1 DEF LeaseA!held, LeaseA!issued, LeaseA!Exists
    <2> QED
      BY <2>3, <2>4
  <1>6. CASE UNCHANGED LeaseA!vars
    BY <1>5, <1>6 DEF LeaseA!vars, LeaseA_IInv, LeaseA_TypeInv, LeaseA_Exclusive!vars
  <1>7. CASE LeaseA!Tick
    BY <1>5, <1>7 DEF LeaseA!Tick, LeaseA_IInv, LeaseA_TypeInv, LeaseA_Exclusive!vars
  <1>8. ASSUME NEW d \in LeaseAConfig.Devices, NEW g \in 1 .. LeaseAConfig.MaxGeneration,
               LeaseA!Close(d, g)
        PROVE  LeaseA_IInv' /\ LeaseA_Exclusive!Release
    BY <1>3, <1>8 DEF LeaseA!Close
  <1>9. ASSUME NEW t \in 0 .. s1, NEW ids \in SUBSET LeaseA!Active, LeaseA!Reap(t, ids)
        PROVE  LeaseA_IInv' /\ LeaseA_Exclusive!Release
    BY <1>3, <1>9 DEF LeaseA!Reap
  <1> QED
    BY <1>1, <1>2, <1>4, <1>6, <1>7, <1>8, <1>9 DEF LeaseA!Next, LeaseA_Exclusive!Next

LEMMA LeaseA_Step ==
    ASSUME [Next]_vars, service' = "LeaseA"
    PROVE  service = "LeaseA" /\ [LeaseA!Next]_(LeaseA!vars)
  BY DEF Next, vars, LeaseA!vars

LEMMA LeaseA_Invariance ==
    /\ Init => (service = "LeaseA" => LeaseA_IInv)
    /\ (service = "LeaseA" => LeaseA_IInv) /\ [Next]_vars =>
           (service = "LeaseA" => LeaseA_IInv)'
  <1>1. Init => (service = "LeaseA" => LeaseA_IInv)
    BY LeaseAAssumption, LeaseA_InitInv DEF Init, LeaseA_Parameters
  <1> QED
    BY <1>1, LeaseAAssumption, LeaseA_Step, LeaseA_NextPreserves DEF LeaseA_Parameters

\* Whatever connects, heartbeats, closes, revocations and reapers run, with
\* whatever time they read before their transaction: a device's active lease is
\* its newest, a revoked device has none, and no access point leases more than
\* its capacity (text12/a lease_service.py:168-408).
THEOREM LeasesAreSound == Spec => []LeaseSound
  <1> DEFINE Inv == service = "LeaseA" => LeaseA_IInv
  <1>1. Inv => LeaseSound
    BY LeaseA_Counts
       DEF LeaseA_IInv, LeaseA_Newest, LeaseA_Bounded, LeaseSound, LeaseA!LeaseSound
  <1>2. Init => Inv
    BY LeaseA_Invariance
  <1>3. Inv /\ [Next]_vars => Inv'
    BY LeaseA_Invariance
  <1> HIDE DEF Inv
  <1> QED
    BY <1>1, <1>2, <1>3, PTL DEF Spec

LEMMA LeaseA_Exclude ==
    /\ Init => Exclusive!Init
    /\ (service = "LeaseA" => LeaseA_IInv) /\ [Next]_vars =>
           [Exclusive!Next]_(Exclusive!vars)
  <1>1. ASSUME Init
        PROVE  Exclusive!Init
    <2>1. service = "LeaseA" => LeaseA!Init
      BY <1>1 DEF Init
    <2>2. service = "LeaseA" => LeaseA_Exclusive!Init
      BY <2>1, LeaseAAssumption, LeaseA_InitInv DEF LeaseA_Parameters
    <2> QED
      BY <2>2 DEF Exclusive!Init, LeaseA_Exclusive!Init
  <1>2. ASSUME service = "LeaseA" => LeaseA_IInv, [Next]_vars
        PROVE  [Exclusive!Next]_(Exclusive!vars)
    <2>1. service' = service
      BY <1>2 DEF Next, vars
    <2>2. CASE service # "LeaseA"
      BY <2>1, <2>2 DEF Exclusive!vars
    <2>3. CASE service = "LeaseA"
      <3>1. [LeaseA!Next]_(LeaseA!vars)
        BY <1>2, <2>1, <2>3, LeaseA_Step
      <3>2. [LeaseA_Exclusive!Next]_(LeaseA_Exclusive!vars)
        BY <1>2, <2>3, <3>1, LeaseAAssumption, LeaseA_NextPreserves DEF LeaseA_Parameters
      <3> QED
        BY <2>1, <2>3, <3>2 DEF Exclusive!Next, LeaseA_Exclusive!Next, Exclusive!vars,
           LeaseA_Exclusive!vars, Exclusive!Release, LeaseA_Exclusive!Release,
           Exclusive!Grant, LeaseA_Exclusive!Grant
    <2> QED
      BY <2>2, <2>3
  <1> QED
    BY <1>1, <1>2

\* No address is leased to two devices, and a device never gets a generation
\* twice: LeaseA implements the lease service that LeaseControl implements too
\* (text12/a lease_service.py:168-408).
THEOREM LeasesExclude == Spec => LeasesAreExclusive
  <1> DEFINE Inv == service = "LeaseA" => LeaseA_IInv
  <1>1. Init => Inv /\ Exclusive!Init
    BY LeaseA_Invariance, LeaseA_Exclude
  <1>2. Inv /\ [Next]_vars => Inv' /\ [Exclusive!Next]_(Exclusive!vars)
    BY LeaseA_Invariance, LeaseA_Exclude
  <1> HIDE DEF Inv
  <1> QED
    BY <1>1, <1>2, PTL DEF Spec, LeasesAreExclusive, Exclusive!Spec

-----------------------------------------------------------------------------
(* Workflows (text8/b) *)

LEMMA WorkflowB_Invariance ==
    /\ Init => (service = "WorkflowB" => WorkflowB_IInv)
    /\ (service = "WorkflowB" => WorkflowB_IInv) /\ [Next]_vars =>
           (service = "WorkflowB" => WorkflowB_IInv)'
  <1>1. Init => (service = "WorkflowB" => WorkflowB_IInv)
    BY WorkflowB_InitIInv DEF Init
  <1>2. ASSUME [Next]_vars, service' = "WorkflowB"
        PROVE  service = "WorkflowB" /\ [WorkflowB!Next]_(WorkflowB!vars)
    BY <1>2 DEF Next, vars, WorkflowB!vars
  <1> QED
    BY <1>1, <1>2, WorkflowBAssumption, WorkflowB_NextIInv

\* However versions are published and rolled back while an instance runs, and
\* timeouts race approvals and withdrawals: the instance follows the version it
\* started with, and its open tasks are those of the node it waits in (text8/b
\* engine.py, timeouts.py).
THEOREM WorkflowsAreSound == Spec => []WorkflowSound
  <1> DEFINE Inv == service = "WorkflowB" => WorkflowB_IInv
  <1>1. Inv => WorkflowSound
    BY WorkflowBAssumption, WorkflowB_SoundFromIInv DEF WorkflowSound
  <1>2. Init => Inv
    BY WorkflowB_Invariance
  <1>3. Inv /\ [Next]_vars => Inv'
    BY WorkflowB_Invariance
  <1> HIDE DEF Inv
  <1> QED
    BY <1>1, <1>2, <1>3, PTL DEF Spec

-----------------------------------------------------------------------------
(* Evidence (text16/b) *)

LEMMA Log_Invariance ==
    /\ Init => (service = "Log" => Log!IInv)
    /\ (service = "Log" => Log!IInv) /\ [Next]_vars => (service = "Log" => Log!IInv)'
  <1>1. Init => (service = "Log" => Log!IInv)
    BY Log!InitInv DEF Init
  <1>2. ASSUME [Next]_vars, service' = "Log"
        PROVE  service = "Log" /\ [Log!Next]_(Log!vars)
    BY <1>2 DEF Next, vars, Log!vars
  <1> QED
    BY <1>1, <1>2, LogAssumption, Log!NextPreserves

LEMMA Chain_Invariance ==
    /\ Init => (service = "Chain" => Chain!IInv)
    /\ (service = "Chain" => Chain!IInv) /\ [Next]_vars => (service = "Chain" => Chain!IInv)'
  <1>1. Init => (service = "Chain" => Chain!IInv)
    BY Chain!InitInv DEF Init
  <1>2. ASSUME [Next]_vars, service' = "Chain"
        PROVE  service = "Chain" /\ [Chain!Next]_(Chain!vars)
    BY <1>2 DEF Next, vars, Chain!vars
  <1> QED
    BY <1>1, <1>2, ChainAssumption, Chain!NextPreserves

LEMMA LogRecords ==
    /\ Init => (service = "Log" => Log!Numbered) /\ AppendOnly!Init
    /\ (service = "Log" => Log!IInv /\ Log!Numbered) /\ [Next]_vars =>
           /\ (service = "Log" => Log!Numbered)'
           /\ [AppendOnly!Record]_<<IF service = "Log" THEN Log!log ELSE <<>>,
                                    IF service = "Log" THEN s2 ELSE 0>>
  <1>1. ASSUME Init
        PROVE  (service = "Log" => Log!Numbered) /\ AppendOnly!Init
    <2>1. service = "Log" => Log!Init
      BY <1>1 DEF Init
    <2>2. service = "Log" => Log!Numbered /\ Log!AsLog!Init
      BY <2>1, Log!InitNumbered
    <2> QED
      BY <2>2 DEF AppendOnly!Init, Log!AsLog!Init
  <1>2. ASSUME service = "Log" => Log!IInv /\ Log!Numbered, [Next]_vars
        PROVE  /\ (service = "Log" => Log!Numbered)'
               /\ [AppendOnly!Record]_<<IF service = "Log" THEN Log!log ELSE <<>>,
                                        IF service = "Log" THEN s2 ELSE 0>>
    <2>1. service' = service
      BY <1>2 DEF Next, vars
    <2>2. CASE service # "Log"
      BY <2>1, <2>2
    <2>3. CASE service = "Log"
      <3>1. [Log!Next]_(Log!vars)
        BY <1>2, <2>3 DEF Next, vars, Log!vars
      <3>2. Log!Numbered' /\ [Log!AsLog!Record]_<<Log!log, s2>>
        BY <1>2, <2>3, <3>1, LogAssumption, Log!StepRecords
      <3> QED
        BY <2>1, <2>3, <3>2 DEF AppendOnly!Record, Log!AsLog!Record
    <2> QED
      BY <2>2, <2>3
  <1> QED
    BY <1>1, <1>2

\* Transactions that take their time and read their giver before the lock
\* implement a log that only grows, numbered and dated in order, whose holder
\* changes with the event that says so (text16/b chain.go, chainops.go).
THEOREM ChainsAreLogs == Spec => ChainIsALog
  <1> DEFINE Inv == (service = "Log" => Log!IInv) /\ (service = "Log" => Log!Numbered)
  <1>1. Init => Inv /\ AppendOnly!Init
    BY Log_Invariance, LogRecords
  <1>2. Inv /\ [Next]_vars =>
            Inv' /\ [AppendOnly!Record]_<<IF service = "Log" THEN Log!log ELSE <<>>,
                                          IF service = "Log" THEN s2 ELSE 0>>
    BY Log_Invariance, LogRecords
  <1> HIDE DEF Inv
  <1> QED
    BY <1>1, <1>2, PTL DEF Spec, ChainIsALog, AppendOnly!Spec

-----------------------------------------------------------------------------
(* Datasets and jobs (text17/a, text16/a) *)


DatasetsA_RequestRows == [op : {"idle", "upload", "publish", "promote", "clean", "remove"},
                d : DatasetsA!Datasets \cup {0}, c : DatasetsA!Contents \cup {"none"}, live : BOOLEAN]

DatasetsA_TypeInv ==
    /\ s1 \in [DatasetsA!Datasets -> {"none", "uploading", "published", "deleted"}]
    /\ s4 = [rows |-> s4.rows, disk |-> s4.disk]
    /\ s6 \in [DatasetsAConfig.Requests -> DatasetsA_RequestRows]
    /\ s5 \in Seq([dataset : DatasetsA!Datasets, tried : BOOLEAN])

\* What a request carries to the content files is the content of its dataset.
DatasetsA_Carries ==
    \A r \in DatasetsAConfig.Requests :
        /\ s6[r].op # "idle" => s6[r].d \in DatasetsA!Datasets
        /\ s6[r].op \in {"publish", "promote", "remove"} =>
               s6[r].c = DatasetsAConfig.Declared[s6[r].d]
        /\ s6[r].op = "clean" =>
               s6[r].c \in {"none", DatasetsAConfig.Declared[s6[r].d]}

\* At most one client that is still there holds the lock of a content, and what
\* it is about to remove has no row.
DatasetsA_Holds(r) == s6[r].live /\ s6[r].op \in {"promote", "remove"}
DatasetsA_LocksExclude ==
    /\ \A r, s \in DatasetsAConfig.Requests :
           DatasetsA_Holds(r) /\ DatasetsA_Holds(s) /\ s6[r].c = s6[s].c => r = s
    /\ \A r \in DatasetsAConfig.Requests :
           DatasetsA_Holds(r) /\ s6[r].op = "remove" => s6[r].c \notin s4.rows

DatasetsA_IInv ==
    /\ DatasetsA_TypeInv
    /\ DatasetsA_Carries
    /\ DatasetsA_LocksExclude
    /\ DatasetsA!FilesSound

LEMMA DatasetsA_InitInv == DatasetsA!Init => DatasetsA_IInv
  <1> SUFFICES ASSUME DatasetsA!Init PROVE DatasetsA_IInv
    OBVIOUS
  <1>1. DatasetsA_TypeInv
    BY DEF DatasetsA!Init, DatasetsA_TypeInv, DatasetsA_RequestRows, DatasetsA!Idle,
           DatasetsA!Contents
  <1>2. DatasetsA_Carries /\ DatasetsA_LocksExclude
    BY DEF DatasetsA!Init, DatasetsA_Carries, DatasetsA_LocksExclude, DatasetsA_Holds,
           DatasetsA!Idle
  <1>3. DatasetsA!FilesSound
    BY DEF DatasetsA!Init, DatasetsA!FilesSound
  <1> QED
    BY <1>1, <1>2, <1>3 DEF DatasetsA_IInv

\* What a request does or how it ends, and that the others go on
LEMMA DatasetsA_RequestMoves ==
    ASSUME DatasetsA_IInv, NEW r \in DatasetsAConfig.Requests
    PROVE  /\ s6[r] \in DatasetsA_RequestRows
           /\ \A op, d, c : DatasetsA!Does(r, op, d, c) =>
                  /\ s6'[r] = [op |-> op, d |-> d, c |-> c, live |-> TRUE]
                  /\ \A s \in DatasetsAConfig.Requests : s # r => s6'[s] = s6[s]
                  /\ [op |-> op, d |-> d, c |-> c, live |-> TRUE] \in DatasetsA_RequestRows =>
                         s6' \in [DatasetsAConfig.Requests -> DatasetsA_RequestRows]
           /\ DatasetsA!Ends(r) =>
                  /\ s6'[r] = DatasetsA!Idle
                  /\ \A s \in DatasetsAConfig.Requests : s # r => s6'[s] = s6[s]
                  /\ s6' \in [DatasetsAConfig.Requests -> DatasetsA_RequestRows]
  <1>1. s6 \in [DatasetsAConfig.Requests -> DatasetsA_RequestRows]
    BY DEF DatasetsA_IInv, DatasetsA_TypeInv
  <1>2. DatasetsA!Idle \in DatasetsA_RequestRows
    BY DEF DatasetsA!Idle, DatasetsA_RequestRows
  <1> QED
    BY <1>1, <1>2 DEF DatasetsA!Does, DatasetsA!Ends

\* A step of one request that leaves the tables and the content files alone
LEMMA DatasetsA_OneMoves ==
    ASSUME DatasetsA_IInv, NEW r \in DatasetsAConfig.Requests,
           s6' \in [DatasetsAConfig.Requests -> DatasetsA_RequestRows],
           UNCHANGED <<s1, s4, s5, s7>>,
           \A s \in DatasetsAConfig.Requests : s # r => s6'[s] = s6[s],
           s6'[r].op # "idle" => s6'[r].d \in DatasetsA!Datasets,
           s6'[r].op \in {"publish", "promote", "remove"} =>
               s6'[r].c = DatasetsAConfig.Declared[s6'[r].d],
           s6'[r].op = "clean" =>
               s6'[r].c \in {"none", DatasetsAConfig.Declared[s6'[r].d]},
           s6'[r].live /\ s6'[r].op \in {"promote", "remove"} =>
               \/ s6'[r].c = s6[r].c /\ s6[r].live /\ s6'[r].op = s6[r].op
               \/ /\ DatasetsA!ContentFree(s6'[r].c)
                  /\ s6'[r].op = "remove" => s6'[r].c \notin s4.rows
    PROVE  DatasetsA_IInv'
  <1>1. DatasetsA_TypeInv'
    BY DEF DatasetsA_IInv, DatasetsA_TypeInv, DatasetsA!Datasets, DatasetsA!Contents
  <1>2. DatasetsA_Carries'
    BY DEF DatasetsA_IInv, DatasetsA_Carries, DatasetsA!Datasets
  <1>3. DatasetsA!ContentFree(s6'[r].c) => \A s \in DatasetsAConfig.Requests : DatasetsA_Holds(s) => s6[s].c # s6'[r].c
    BY DEF DatasetsA_IInv, DatasetsA_Carries, DatasetsA!ContentFree, DatasetsA_Holds
  <1>4. \A s \in DatasetsAConfig.Requests : s # r => (DatasetsA_Holds(s)' <=> DatasetsA_Holds(s)) /\ s6'[s].c = s6[s].c
    BY DEF DatasetsA_Holds
  <1>5. DatasetsA_Holds(r)' => \/ s6'[r].c = s6[r].c /\ DatasetsA_Holds(r) /\ s6'[r].op = s6[r].op
                               \/ /\ \A s \in DatasetsAConfig.Requests : DatasetsA_Holds(s) => s6[s].c # s6'[r].c
                                  /\ s6'[r].op = "remove" => s6'[r].c \notin s4.rows
    BY <1>3 DEF DatasetsA_Holds
  <1>6. DatasetsA_LocksExclude'
    BY <1>4, <1>5 DEF DatasetsA_IInv, DatasetsA_LocksExclude
  <1>7. DatasetsA!FilesSound'
    BY DEF DatasetsA_IInv, DatasetsA!FilesSound, DatasetsA!Datasets
  <1> QED
    BY <1>1, <1>2, <1>6, <1>7 DEF DatasetsA_IInv

LEMMA DatasetsA_UploadStep ==
    ASSUME DatasetsA_IInv, NEW r \in DatasetsAConfig.Requests,
           NEW d \in DatasetsA!Datasets, NEW c \in DatasetsA!Contents,
           DatasetsA!BeginUpload(r, d, c)
    PROVE  DatasetsA_IInv'
  <1>1. [op |-> "upload", d |-> d, c |-> c, live |-> TRUE] \in DatasetsA_RequestRows
    BY DEF DatasetsA_RequestRows
  <1> QED
    BY <1>1, DatasetsA_RequestMoves, DatasetsA_OneMoves
       DEF DatasetsA!BeginUpload, DatasetsA!UnchangedTables

LEMMA DatasetsA_WriteChunkStep ==
    ASSUME DatasetsA_IInv, NEW r \in DatasetsAConfig.Requests, DatasetsA!WriteChunk(r)
    PROVE  DatasetsA_IInv'
  BY DatasetsA_RequestMoves, DatasetsA_OneMoves
     DEF DatasetsA!WriteChunk, DatasetsA!UnchangedTables, DatasetsA!Idle

LEMMA DatasetsA_BeginPublishStep ==
    ASSUME DatasetsA_IInv, NEW r \in DatasetsAConfig.Requests,
           NEW d \in DatasetsA!Datasets, DatasetsA!BeginPublish(r, d)
    PROVE  DatasetsA_IInv'
  <1>1. [op |-> "publish", d |-> d, c |-> DatasetsAConfig.Declared[d], live |-> TRUE] \in DatasetsA_RequestRows
    BY DEF DatasetsA_RequestRows, DatasetsA!Contents
  <1> QED
    BY <1>1, DatasetsA_RequestMoves, DatasetsA_OneMoves
       DEF DatasetsA!BeginPublish, DatasetsA!UnchangedTables

LEMMA DatasetsA_LockContentStep ==
    ASSUME DatasetsA_IInv, NEW r \in DatasetsAConfig.Requests, DatasetsA!LockContent(r)
    PROVE  DatasetsA_IInv'
  <1> DEFINE q == s6[r]
  <1>1. /\ q \in DatasetsA_RequestRows /\ q.op = "publish"
        /\ q.d \in DatasetsA!Datasets /\ q.c = DatasetsAConfig.Declared[q.d]
    BY DatasetsA_RequestMoves DEF DatasetsA!LockContent, DatasetsA_IInv, DatasetsA_Carries
  <1>2. UNCHANGED <<s1, s4, s5, s7>>
    BY DEF DatasetsA!LockContent, DatasetsA!UnchangedTables
  <1>3. [op |-> "promote", d |-> q.d, c |-> q.c, live |-> TRUE] \in DatasetsA_RequestRows
    BY <1>1 DEF DatasetsA_RequestRows
  <1>4. CASE q.live
    <2>1. DatasetsA!ContentFree(q.c) /\ DatasetsA!Does(r, "promote", q.d, q.c)
      BY <1>4 DEF DatasetsA!LockContent
    <2>2. /\ s6'[r] = [op |-> "promote", d |-> q.d, c |-> q.c, live |-> TRUE]
          /\ \A s \in DatasetsAConfig.Requests : s # r => s6'[s] = s6[s]
          /\ s6' \in [DatasetsAConfig.Requests -> DatasetsA_RequestRows]
      BY <1>3, <2>1, DatasetsA_RequestMoves
    <2> HIDE DEF q
    <2> QED
      BY <1>1, <1>2, <2>1, <2>2, DatasetsA_OneMoves
  <1>5. CASE ~ q.live
    BY <1>2, <1>5, DatasetsA_RequestMoves, DatasetsA_OneMoves
       DEF DatasetsA!LockContent, DatasetsA!Idle
  <1> QED
    BY <1>4, <1>5

LEMMA DatasetsA_RemoveChunkDirStep ==
    ASSUME DatasetsA_IInv, NEW r \in DatasetsAConfig.Requests, DatasetsA!RemoveChunkDir(r)
    PROVE  DatasetsA_IInv'
  <1> DEFINE q == s6[r]
  <1>1. /\ q \in DatasetsA_RequestRows /\ q.op = "clean"
        /\ q.d \in DatasetsA!Datasets /\ q.c \in {"none", DatasetsAConfig.Declared[q.d]}
    BY DatasetsA_RequestMoves
       DEF DatasetsA!RemoveChunkDir, DatasetsA_IInv, DatasetsA_Carries
  <1>2. UNCHANGED <<s1, s4, s5, s7>>
    BY DEF DatasetsA!RemoveChunkDir, DatasetsA!UnchangedTables
  <1>3. [op |-> "remove", d |-> q.d, c |-> q.c, live |-> TRUE] \in DatasetsA_RequestRows
    BY <1>1 DEF DatasetsA_RequestRows
  <1>4. CASE DatasetsA!Collects(q)
    <2>1. /\ q.c # "none" /\ q.c = DatasetsAConfig.Declared[q.d] /\ q.c \notin s4.rows
          /\ DatasetsA!ContentFree(q.c) /\ DatasetsA!Does(r, "remove", q.d, q.c)
      BY <1>1, <1>4 DEF DatasetsA!RemoveChunkDir, DatasetsA!Collects
    <2>2. /\ s6'[r] = [op |-> "remove", d |-> q.d, c |-> q.c, live |-> TRUE]
          /\ \A s \in DatasetsAConfig.Requests : s # r => s6'[s] = s6[s]
          /\ s6' \in [DatasetsAConfig.Requests -> DatasetsA_RequestRows]
      BY <1>3, <2>1, DatasetsA_RequestMoves
    <2> HIDE DEF q
    <2> QED
      BY <1>1, <1>2, <2>1, <2>2, DatasetsA_OneMoves
  <1>5. CASE ~ DatasetsA!Collects(q)
    BY <1>2, <1>5, DatasetsA_RequestMoves, DatasetsA_OneMoves
       DEF DatasetsA!RemoveChunkDir, DatasetsA!Idle
  <1> QED
    BY <1>4, <1>5

LEMMA DatasetsA_CancelStep ==
    ASSUME DatasetsA_IInv, NEW r \in DatasetsAConfig.Requests, DatasetsA!Cancel(r)
    PROVE  DatasetsA_IInv'
  <1> DEFINE q == s6[r]
  <1>1. q \in DatasetsA_RequestRows
    BY DatasetsA_RequestMoves
  <1>2. /\ s6'[r] = [q EXCEPT !.live = FALSE]
        /\ \A s \in DatasetsAConfig.Requests : s # r => s6'[s] = s6[s]
        /\ s6' \in [DatasetsAConfig.Requests -> DatasetsA_RequestRows]
    BY <1>1 DEF DatasetsA!Cancel, DatasetsA_IInv, DatasetsA_TypeInv, DatasetsA_RequestRows
  <1>3. /\ s6'[r].op = q.op /\ s6'[r].d = q.d /\ s6'[r].c = q.c
        /\ ~ s6'[r].live
    BY <1>1, <1>2 DEF DatasetsA_RequestRows
  <1>4. /\ q.op # "idle" => q.d \in DatasetsA!Datasets
        /\ q.op \in {"publish", "promote", "remove"} =>
               q.c = DatasetsAConfig.Declared[q.d]
        /\ q.op = "clean" => q.c \in {"none", DatasetsAConfig.Declared[q.d]}
    BY DEF DatasetsA_IInv, DatasetsA_Carries
  <1>5. UNCHANGED <<s1, s4, s5, s7>>
    BY DEF DatasetsA!Cancel, DatasetsA!UnchangedTables
  <1> HIDE DEF q
  <1> QED
    BY <1>2, <1>3, <1>4, <1>5, DatasetsA_OneMoves

LEMMA DatasetsA_VersionRows ==
    ASSUME DatasetsA_IInv
    PROVE  /\ Len(s5) \in Nat /\ DOMAIN s5 = 1 .. Len(s5)
           /\ \A v \in DOMAIN s5 :
                  s5[v] \in [dataset : DatasetsA!Datasets, tried : BOOLEAN]
  <1> DEFINE T == [dataset : DatasetsA!Datasets, tried : BOOLEAN]
  <1>1. s5 \in Seq(T)
    BY DEF DatasetsA_IInv, DatasetsA_TypeInv
  <1> HIDE DEF T
  <1>2. Len(s5) \in Nat /\ DOMAIN s5 = 1 .. Len(s5)
    BY <1>1
  <1>3. \A v \in 1 .. Len(s5) : s5[v] \in T
    BY <1>1
  <1> QED
    BY <1>2, <1>3 DEF T

\* Steps that end requests, or none, and take rows away
LEMMA DatasetsA_Unlocks ==
    ASSUME DatasetsA_IInv, s6' \in [DatasetsAConfig.Requests -> DatasetsA_RequestRows],
           s4'.rows \subseteq s4.rows,
           \A s \in DatasetsAConfig.Requests : s6'[s] = s6[s] \/ s6'[s] = DatasetsA!Idle
    PROVE  DatasetsA_Carries' /\ DatasetsA_LocksExclude'
  <1>1. \A s \in DatasetsAConfig.Requests : s6'[s].op # "idle" => s6'[s] = s6[s]
    BY DEF DatasetsA!Idle
  <1>2. DatasetsA_Carries'
    BY <1>1 DEF DatasetsA_IInv, DatasetsA_Carries, DatasetsA!Datasets
  <1>3. \A s \in DatasetsAConfig.Requests : DatasetsA_Holds(s)' => DatasetsA_Holds(s) /\ s6'[s] = s6[s]
    BY <1>1 DEF DatasetsA_Holds
  <1> QED
    BY <1>2, <1>3 DEF DatasetsA_IInv, DatasetsA_LocksExclude

LEMMA DatasetsA_CreateStep ==
    ASSUME DatasetsA_IInv, NEW d \in DatasetsA!Datasets, DatasetsA!Create(d)
    PROVE  DatasetsA_IInv'
  <1>1. /\ s1' = [s1 EXCEPT ![d] = "uploading"] /\ s1[d] = "none"
        /\ UNCHANGED <<s4, s5, s6, s7>>
    BY DEF DatasetsA!Create
  <1>2. DatasetsA_TypeInv'
    BY <1>1 DEF DatasetsA_IInv, DatasetsA_TypeInv, DatasetsA!Datasets, DatasetsA!Contents
  <1>3. DatasetsA_Carries' /\ DatasetsA_LocksExclude'
    BY <1>1, DatasetsA_Unlocks DEF DatasetsA_IInv, DatasetsA_TypeInv
  <1>4. \A e \in DatasetsA!Datasets : s1'[e] = "published" <=> s1[e] = "published"
    BY <1>1 DEF DatasetsA_IInv, DatasetsA_TypeInv
  <1>5. \A v \in DOMAIN s5 : s5[v].dataset \in DatasetsA!Datasets
    BY DatasetsA_VersionRows
  <1>6. DatasetsA!FilesSound'
    BY <1>1, <1>4, <1>5 DEF DatasetsA_IInv, DatasetsA!FilesSound, DatasetsA!Datasets
  <1> QED
    BY <1>2, <1>3, <1>6 DEF DatasetsA_IInv

LEMMA DatasetsA_PromoteStep ==
    ASSUME DatasetsA_IInv, NEW r \in DatasetsAConfig.Requests, DatasetsA!Promote(r)
    PROVE  DatasetsA_IInv'
  <1> DEFINE q == s6[r]
             shared == q.c \in s4.rows
             done == q.live /\ (shared \/ q.d \in s3)
  <1>1. /\ q \in DatasetsA_RequestRows /\ q.op = "promote"
        /\ q.d \in DatasetsA!Datasets /\ q.c = DatasetsAConfig.Declared[q.d]
    BY DatasetsA_RequestMoves DEF DatasetsA!Promote, DatasetsA_IInv, DatasetsA_Carries
  <1>2. /\ s4' = [rows |-> IF done THEN s4.rows \cup {q.c} ELSE s4.rows,
                     disk |-> IF q.d \in s3 /\ ~(q.live /\ shared)
                              THEN s4.disk \cup {q.c} ELSE s4.disk]
        /\ s1' = IF done THEN [s1 EXCEPT ![q.d] = "published"] ELSE s1
        /\ UNCHANGED <<s5, s7>>
    BY DEF DatasetsA!Promote
  <1>3. /\ s6'[r] = DatasetsA!Idle
        /\ \A s \in DatasetsAConfig.Requests : s # r => s6'[s] = s6[s]
        /\ s6' \in [DatasetsAConfig.Requests -> DatasetsA_RequestRows]
    BY DatasetsA_RequestMoves DEF DatasetsA!Promote
  <1>4. /\ s4'.rows = IF done THEN s4.rows \cup {q.c} ELSE s4.rows
        /\ s4'.disk = IF q.d \in s3 /\ ~(q.live /\ shared)
                         THEN s4.disk \cup {q.c} ELSE s4.disk
        /\ s4' = [rows |-> s4'.rows, disk |-> s4'.disk]
    BY <1>2
  <1>5. \A e \in DatasetsA!Datasets : s1'[e] = "published" <=>
                s1[e] = "published" \/ (done /\ e = q.d)
    BY <1>1, <1>2 DEF DatasetsA_IInv, DatasetsA_TypeInv
  <1>6. DatasetsA_TypeInv'
    BY <1>1, <1>2, <1>3, <1>4
       DEF DatasetsA_IInv, DatasetsA_TypeInv, DatasetsA!Datasets, DatasetsA!Contents
  <1>7. \A s \in DatasetsAConfig.Requests : s6'[s].op # "idle" => s # r /\ s6'[s] = s6[s]
    BY <1>3 DEF DatasetsA!Idle
  <1>8. DatasetsA_Carries'
    BY <1>7 DEF DatasetsA_IInv, DatasetsA_Carries, DatasetsA!Datasets
  <1>9. \A s \in DatasetsAConfig.Requests : DatasetsA_Holds(s)' => s # r /\ DatasetsA_Holds(s) /\ s6'[s] = s6[s]
    BY <1>7 DEF DatasetsA_Holds
  <1>10. done => DatasetsA_Holds(r)
    BY <1>1 DEF DatasetsA_Holds
  <1>11. \A s \in DatasetsAConfig.Requests : DatasetsA_Holds(s)' /\ s6'[s].op = "remove" =>
                s6'[s].c \notin s4'.rows
    BY <1>4, <1>9, <1>10 DEF DatasetsA_IInv, DatasetsA_LocksExclude
  <1>12. DatasetsA_LocksExclude'
    BY <1>9, <1>11 DEF DatasetsA_IInv, DatasetsA_LocksExclude
  <1>13. s4'.rows = {DatasetsAConfig.Declared[d] : d \in {e \in DatasetsA!Datasets : s1'[e] = "published"}}
    BY <1>1, <1>4, <1>5 DEF DatasetsA_IInv, DatasetsA!FilesSound
  <1>14. s4'.rows \subseteq s4'.disk \cup s7'
    BY <1>2, <1>4 DEF DatasetsA_IInv, DatasetsA!FilesSound
  <1>15. \A v \in DOMAIN s5' : s1'[s5'[v].dataset] = "published"
    <2>1. \A v \in DOMAIN s5 : s5[v].dataset \in DatasetsA!Datasets
      BY DatasetsA_VersionRows
    <2> QED
      BY <1>2, <1>5, <2>1 DEF DatasetsA_IInv, DatasetsA!FilesSound
  <1>16. DatasetsA!FilesSound'
    BY <1>13, <1>14, <1>15 DEF DatasetsA!FilesSound, DatasetsA!Datasets
  <1> QED
    BY <1>6, <1>8, <1>12, <1>16 DEF DatasetsA_IInv

LEMMA DatasetsA_DeleteStep ==
    ASSUME DatasetsA_IInv, NEW r \in DatasetsAConfig.Requests,
           NEW d \in DatasetsA!Datasets, DatasetsA!Delete(r, d)
    PROVE  DatasetsA_IInv'
  <1> DEFINE last == s1[d] = "published" /\ DatasetsA!Others(d) = {}
             c == IF last THEN DatasetsAConfig.Declared[d] ELSE "none"
  <1>1. /\ s1' = [s1 EXCEPT ![d] = "deleted"]
        /\ s4' = IF last THEN [s4 EXCEPT !.rows = @ \ {DatasetsAConfig.Declared[d]}] ELSE s4
        /\ DatasetsA!Does(r, "clean", d, c)
        /\ UNCHANGED <<s5, s7>>
        /\ s1[d] \in {"uploading", "published"} /\ ~ DatasetsA!Bound(d)
    BY DEF DatasetsA!Delete
  <1>2. [op |-> "clean", d |-> d, c |-> c, live |-> TRUE] \in DatasetsA_RequestRows
    BY DEF DatasetsA_RequestRows, DatasetsA!Contents
  <1>3. /\ s6'[r] = [op |-> "clean", d |-> d, c |-> c, live |-> TRUE]
        /\ \A s \in DatasetsAConfig.Requests : s # r => s6'[s] = s6[s]
        /\ s6' \in [DatasetsAConfig.Requests -> DatasetsA_RequestRows]
    BY <1>1, <1>2, DatasetsA_RequestMoves
  <1>4. /\ s4'.rows = IF last THEN s4.rows \ {DatasetsAConfig.Declared[d]} ELSE s4.rows
        /\ s4'.disk = s4.disk
        /\ s4' = [rows |-> s4'.rows, disk |-> s4'.disk]
    BY <1>1 DEF DatasetsA_IInv, DatasetsA_TypeInv
  <1>5. \A e \in DatasetsA!Datasets : s1'[e] = "published" <=> s1[e] = "published" /\ e # d
    BY <1>1 DEF DatasetsA_IInv, DatasetsA_TypeInv
  <1>6. DatasetsA_TypeInv'
    BY <1>1, <1>3, <1>4
       DEF DatasetsA_IInv, DatasetsA_TypeInv, DatasetsA!Datasets, DatasetsA!Contents
  <1>7. DatasetsA_Carries'
    BY <1>3 DEF DatasetsA_IInv, DatasetsA_Carries, DatasetsA!Datasets
  <1>8. \A s \in DatasetsAConfig.Requests : DatasetsA_Holds(s)' => s # r /\ DatasetsA_Holds(s) /\ s6'[s] = s6[s]
    BY <1>3 DEF DatasetsA_Holds
  <1>9. s4'.rows \subseteq s4.rows
    BY <1>4
  <1>10. DatasetsA_LocksExclude'
    BY <1>8, <1>9 DEF DatasetsA_IInv, DatasetsA_LocksExclude
  <1>11. s4'.rows = {DatasetsAConfig.Declared[e] : e \in {f \in DatasetsA!Datasets : s1'[f] = "published"}}
    <2>1. s4.rows = {DatasetsAConfig.Declared[e] : e \in {f \in DatasetsA!Datasets : s1[f] = "published"}}
      BY DEF DatasetsA_IInv, DatasetsA!FilesSound
    <2>2. CASE last
      <3>1. \A e \in DatasetsA!Datasets : s1[e] = "published" /\ e # d => DatasetsAConfig.Declared[e] # DatasetsAConfig.Declared[d]
        BY <2>2 DEF DatasetsA!Others
      <3> QED
        BY <1>4, <1>5, <2>1, <2>2, <3>1
    <2>3. CASE ~ last
      <3>1. s1[d] = "published" => \E e \in DatasetsA!Datasets :
                 e # d /\ s1[e] = "published" /\ DatasetsAConfig.Declared[e] = DatasetsAConfig.Declared[d]
        BY <2>3 DEF DatasetsA!Others
      <3> QED
        BY <1>4, <1>5, <2>1, <2>3, <3>1
    <2> QED
      BY <2>2, <2>3
  <1>12. s4'.rows \subseteq s4'.disk \cup s7'
    BY <1>1, <1>4 DEF DatasetsA_IInv, DatasetsA!FilesSound
  <1>13. \A v \in DOMAIN s5' : s1'[s5'[v].dataset] = "published"
    <2>1. \A v \in DOMAIN s5 : s5[v].dataset \in DatasetsA!Datasets /\ s5[v].dataset # d
      BY <1>1, DatasetsA_VersionRows DEF DatasetsA!Bound
    <2> QED
      BY <1>1, <1>5, <2>1 DEF DatasetsA_IInv, DatasetsA!FilesSound
  <1>14. DatasetsA!FilesSound'
    BY <1>11, <1>12, <1>13 DEF DatasetsA!FilesSound, DatasetsA!Datasets
  <1> QED
    BY <1>6, <1>7, <1>10, <1>14 DEF DatasetsA_IInv

LEMMA DatasetsA_RemoveFileStep ==
    ASSUME DatasetsA_IInv, NEW r \in DatasetsAConfig.Requests, DatasetsA!RemoveFile(r)
    PROVE  DatasetsA_IInv'
  <1>1. /\ s6[r] \in DatasetsA_RequestRows /\ s6[r].op = "remove"
        /\ s4' = [s4 EXCEPT !.disk = @ \ {s6[r].c}]
        /\ s7' = IF s6[r].live THEN s7 ELSE s7 \cup {s6[r].c}
        /\ UNCHANGED <<s1, s5>>
    BY DatasetsA_RequestMoves DEF DatasetsA!RemoveFile
  <1>2. /\ s6'[r] = DatasetsA!Idle
        /\ \A s \in DatasetsAConfig.Requests : s # r => s6'[s] = s6[s]
        /\ s6' \in [DatasetsAConfig.Requests -> DatasetsA_RequestRows]
    BY DatasetsA_RequestMoves DEF DatasetsA!RemoveFile
  <1>3. /\ s4'.rows = s4.rows /\ s4'.disk = s4.disk \ {s6[r].c}
        /\ s4' = [rows |-> s4'.rows, disk |-> s4'.disk]
    BY <1>1 DEF DatasetsA_IInv, DatasetsA_TypeInv
  <1>4. DatasetsA_TypeInv'
    BY <1>1, <1>2, <1>3
       DEF DatasetsA_IInv, DatasetsA_TypeInv, DatasetsA!Datasets, DatasetsA!Contents
  <1>5. DatasetsA_Carries' /\ DatasetsA_LocksExclude'
    BY <1>2, <1>3, DatasetsA_Unlocks
  <1>6. s6[r].live => s6[r].c \notin s4.rows
    BY <1>1 DEF DatasetsA_IInv, DatasetsA_LocksExclude, DatasetsA_Holds
  <1>7. DatasetsA!FilesSound'
    BY <1>1, <1>3, <1>6 DEF DatasetsA_IInv, DatasetsA!FilesSound, DatasetsA!Datasets
  <1> QED
    BY <1>4, <1>5, <1>7 DEF DatasetsA_IInv

LEMMA DatasetsA_RestartStep ==
    ASSUME DatasetsA_IInv, DatasetsA!Restart
    PROVE  DatasetsA_IInv'
  <1>1. /\ s6' = [s \in DatasetsAConfig.Requests |-> DatasetsA!Idle] /\ DatasetsA!Idle \in DatasetsA_RequestRows
        /\ s4' = [s4 EXCEPT !.disk = @ \cap s4.rows]
        /\ UNCHANGED <<s1, s5, s7>>
    BY DEF DatasetsA!Restart, DatasetsA!UnchangedTables, DatasetsA!Idle,
           DatasetsA_RequestRows
  <1>2. /\ s4'.rows = s4.rows /\ s4'.disk = s4.disk \cap s4.rows
        /\ s4' = [rows |-> s4'.rows, disk |-> s4'.disk]
    BY <1>1 DEF DatasetsA_IInv, DatasetsA_TypeInv
  <1>3. DatasetsA_TypeInv'
    BY <1>1, <1>2
       DEF DatasetsA_IInv, DatasetsA_TypeInv, DatasetsA!Datasets, DatasetsA!Contents
  <1>4. DatasetsA_Carries' /\ DatasetsA_LocksExclude'
    BY <1>1, <1>2, DatasetsA_Unlocks
  <1>5. DatasetsA!FilesSound'
    BY <1>1, <1>2 DEF DatasetsA_IInv, DatasetsA!FilesSound, DatasetsA!Datasets
  <1> QED
    BY <1>3, <1>4, <1>5 DEF DatasetsA_IInv

-----------------------------------------------------------------------------
\* Steps on the versions of the model
LEMMA DatasetsA_VersionsMove ==
    ASSUME DatasetsA_IInv, DatasetsA!UnchangedFiles,
           s5' \in Seq([dataset : DatasetsA!Datasets, tried : BOOLEAN]),
           \A v \in DOMAIN s5' : s1[s5'[v].dataset] = "published"
    PROVE  DatasetsA_IInv'
  <1>1. DatasetsA_TypeInv'
    BY DEF DatasetsA_IInv, DatasetsA_TypeInv, DatasetsA!UnchangedFiles,
           DatasetsA!Datasets, DatasetsA!Contents
  <1>2. DatasetsA_Carries' /\ DatasetsA_LocksExclude'
    BY DatasetsA_Unlocks DEF DatasetsA!UnchangedFiles, DatasetsA_IInv, DatasetsA_TypeInv
  <1>3. DatasetsA!FilesSound'
    BY DEF DatasetsA_IInv, DatasetsA!FilesSound, DatasetsA!UnchangedFiles,
           DatasetsA!Datasets
  <1> QED
    BY <1>1, <1>2, <1>3 DEF DatasetsA_IInv

LEMMA DatasetsA_CreateVersionStep ==
    ASSUME DatasetsA_IInv, NEW d \in DatasetsA!Datasets, DatasetsA!CreateVersion(d)
    PROVE  DatasetsA_IInv'
  <1> DEFINE row == [dataset |-> d, tried |-> FALSE]
  <1>1. s5 \in Seq([dataset : DatasetsA!Datasets, tried : BOOLEAN]) /\ Len(s5) \in Nat
    BY DEF DatasetsA_IInv, DatasetsA_TypeInv
  <1>2. s5' = Append(s5, row) /\ DatasetsA!UnchangedFiles /\ s1[d] = "published"
    BY DEF DatasetsA!CreateVersion
  <1>3. /\ s5' \in Seq([dataset : DatasetsA!Datasets, tried : BOOLEAN])
        /\ DOMAIN s5' = 1 .. Len(s5) + 1
        /\ \A v \in 1 .. Len(s5) : s5'[v] = s5[v]
        /\ s5'[Len(s5) + 1] = row
    BY <1>1, <1>2
  <1>4. \A v \in 1 .. Len(s5) : s1[s5[v].dataset] = "published"
    BY <1>1 DEF DatasetsA_IInv, DatasetsA!FilesSound
  <1>5. \A v \in DOMAIN s5' : s1[s5'[v].dataset] = "published"
    BY <1>1, <1>2, <1>3, <1>4
  <1> QED
    BY <1>2, <1>3, <1>5, DatasetsA_VersionsMove

LEMMA DatasetsA_ExperimentStep ==
    ASSUME DatasetsA_IInv, NEW v \in DOMAIN s5, NEW tried \in BOOLEAN,
           DatasetsA!Experiment(v, tried)
    PROVE  DatasetsA_IInv'
  <1>1. /\ s5 \in Seq([dataset : DatasetsA!Datasets, tried : BOOLEAN]) /\ Len(s5) \in Nat
        /\ DOMAIN s5 = 1 .. Len(s5)
        /\ \A w \in DOMAIN s5 : s5[w] \in [dataset : DatasetsA!Datasets, tried : BOOLEAN]
    BY DatasetsA_VersionRows DEF DatasetsA_IInv, DatasetsA_TypeInv
  <1> DEFINE row == [s5[v] EXCEPT !.tried = tried]
  <1>2. s5' = [s5 EXCEPT ![v] = row] /\ DatasetsA!UnchangedFiles
    BY DEF DatasetsA!Experiment
  <1>3. row \in [dataset : DatasetsA!Datasets, tried : BOOLEAN] /\ row.dataset = s5[v].dataset
    BY <1>1
  <1> HIDE DEF row
  <1>4. /\ DOMAIN s5' = DOMAIN s5
        /\ \A w \in DOMAIN s5 : s5'[w] = IF w = v THEN row ELSE s5[w]
        /\ s5' \in Seq([dataset : DatasetsA!Datasets, tried : BOOLEAN])
    BY <1>1, <1>2, <1>3
  <1>5. \A w \in DOMAIN s5' : s1[s5'[w].dataset] = "published"
    BY <1>3, <1>4 DEF DatasetsA_IInv, DatasetsA!FilesSound
  <1> QED
    BY <1>2, <1>4, <1>5, DatasetsA_VersionsMove

LEMMA DatasetsA_NextPreserves ==
    ASSUME DatasetsA_IInv, [DatasetsA!Next]_(DatasetsA!vars)
    PROVE  DatasetsA_IInv'
  <1>1. CASE UNCHANGED DatasetsA!vars
    <2>1. DatasetsA!UnchangedFiles /\ s5' = s5
      BY <1>1 DEF DatasetsA!vars, DatasetsA!UnchangedFiles
    <2> QED
      BY <2>1, DatasetsA_VersionsMove
         DEF DatasetsA_IInv, DatasetsA_TypeInv, DatasetsA!FilesSound
  <1>2. CASE DatasetsA!DeleteModel
    BY <1>2, DatasetsA_VersionsMove DEF DatasetsA!DeleteModel
  <1> QED
    BY <1>1, <1>2, DatasetsA_CreateStep, DatasetsA_CreateVersionStep,
       DatasetsA_UploadStep, DatasetsA_WriteChunkStep, DatasetsA_BeginPublishStep,
       DatasetsA_LockContentStep, DatasetsA_PromoteStep, DatasetsA_DeleteStep,
       DatasetsA_RemoveChunkDirStep, DatasetsA_RemoveFileStep, DatasetsA_CancelStep,
       DatasetsA_RestartStep, DatasetsA_ExperimentStep DEF DatasetsA!Next


LEMMA DatasetsA_Invariance ==
    /\ Init => (service = "DatasetsA" => DatasetsA_IInv)
    /\ (service = "DatasetsA" => DatasetsA_IInv) /\ [Next]_vars =>
           (service = "DatasetsA" => DatasetsA_IInv)'
  <1>1. Init => (service = "DatasetsA" => DatasetsA_IInv)
    BY DatasetsA_InitInv DEF Init
  <1>2. ASSUME [Next]_vars, service' = "DatasetsA"
        PROVE  service = "DatasetsA" /\ [DatasetsA!Next]_(DatasetsA!vars)
    BY <1>2 DEF Next, vars, DatasetsA!vars
  <1> QED
    BY <1>1, <1>2, DatasetsA_NextPreserves

LEMMA JobsA_Invariance ==
    /\ Init => (service = "JobsA" => JobsA!IInv)
    /\ (service = "JobsA" => JobsA!IInv) /\ [Next]_vars =>
           (service = "JobsA" => JobsA!IInv)'
  <1>1. Init => (service = "JobsA" => JobsA!IInv)
    BY JobsAAssumption, JobsA!IInvInit DEF Init
  <1>2. ASSUME [Next]_vars, service' = "JobsA"
        PROVE  service = "JobsA" /\ [JobsA!Next]_(JobsA!vars)
    BY <1>2 DEF Next, vars, JobsA!vars
  <1> QED
    BY <1>1, <1>2, JobsAAssumption, JobsA!IInvStep

LEMMA TwoJobsA_Invariance ==
    /\ Init => (service = "TwoJobsA" => TwoJobsA!IInv)
    /\ (service = "TwoJobsA" => TwoJobsA!IInv) /\ [Next]_vars =>
           (service = "TwoJobsA" => TwoJobsA!IInv)'
  <1>1. Init => (service = "TwoJobsA" => TwoJobsA!IInv)
    BY JobsAAssumption, TwoJobsA!IInvInit DEF Init
  <1>2. ASSUME [Next]_vars, service' = "TwoJobsA"
        PROVE  service = "TwoJobsA" /\ [TwoJobsA!Next]_(TwoJobsA!vars)
    BY <1>2 DEF Next, vars, TwoJobsA!vars
  <1> QED
    BY <1>1, <1>2, JobsAAssumption, TwoJobsA!IInvStep

LEMMA AggregateA_Invariance ==
    /\ Init => (service = "AggregateA" => AggregateA_IInv)
    /\ (service = "AggregateA" => AggregateA_IInv) /\ [Next]_vars => (service = "AggregateA" => AggregateA_IInv)'
  <1>1. Init => (service = "AggregateA" => AggregateA_IInv)
    BY AggregateA_InitInv DEF Init
  <1>2. ASSUME [Next]_vars, service' = "AggregateA"
        PROVE  service = "AggregateA" /\ [AggregateA!Next]_(AggregateA!vars)
    BY <1>2 DEF Next, vars, AggregateA!vars
  <1> QED
    BY <1>1, <1>2, AggregateA_NextPreserves

LEMMA AggregateB_Invariance ==
    /\ Init => (service = "AggregateB" => AggregateB_IInv)
    /\ (service = "AggregateB" => AggregateB_IInv) /\ [Next]_vars => (service = "AggregateB" => AggregateB_IInv)'
  <1>1. Init => (service = "AggregateB" => AggregateB_IInv)
    BY AggregateB_InitInv DEF Init
  <1>2. ASSUME [Next]_vars, service' = "AggregateB"
        PROVE  service = "AggregateB" /\ [AggregateB!Next]_(AggregateB!vars)
    BY <1>2 DEF Next, vars, AggregateB!vars
  <1> QED
    BY <1>1, <1>2, AggregateB_NextPreserves

LEMMA LedgerA_Invariance ==
    /\ Init => (service = "LedgerA" => LedgerA_IInv)
    /\ (service = "LedgerA" => LedgerA_IInv) /\ [Next]_vars => (service = "LedgerA" => LedgerA_IInv)'
  <1>1. Init => (service = "LedgerA" => LedgerA_IInv)
    BY LedgerA_InitInv DEF Init
  <1>2. ASSUME [Next]_vars, service' = "LedgerA"
        PROVE  service = "LedgerA" /\ [LedgerA!Next]_(LedgerA!vars)
    BY <1>2 DEF Next, vars, LedgerA!vars
  <1> QED
    BY <1>1, <1>2, LedgerA_NextPreserves

LEMMA LedgerB_Invariance ==
    /\ Init => (service = "LedgerB" => LedgerB_IInv)
    /\ (service = "LedgerB" => LedgerB_IInv) /\ [Next]_vars => (service = "LedgerB" => LedgerB_IInv)'
  <1>1. Init => (service = "LedgerB" => LedgerB_IInv)
    BY LedgerB_InitInv DEF Init
  <1>2. ASSUME [Next]_vars, service' = "LedgerB"
        PROVE  service = "LedgerB" /\ [LedgerB!Next]_(LedgerB!vars)
    BY <1>2 DEF Next, vars, LedgerB!vars
  <1> QED
    BY <1>1, <1>2, LedgerB_NextPreserves

LEMMA ConsentB_Invariance ==
    /\ Init => (service = "ConsentB" => ConsentB_IInv)
    /\ (service = "ConsentB" => ConsentB_IInv) /\ [Next]_vars
          => (service = "ConsentB" => ConsentB_IInv)'
  <1>1. Init => (service = "ConsentB" => ConsentB_IInv)
    BY ConsentB_InitInv DEF Init
  <1>2. ASSUME [Next]_vars, service' = "ConsentB"
        PROVE  service = "ConsentB" /\ [ConsentB!Next]_(ConsentB!vars)
    BY <1>2 DEF Next, vars, ConsentB!vars
  <1> QED
    BY <1>1, <1>2, ConsentB_NextPreserves

\* Whatever is edited from outside, Verify answers what is so, and the custodian
\* is the receiver of the last transfer; a published dataset has its content on
\* disk unless a collector without its lock removed it; a verdict is of what the
\* image contained when it was read; a summary counts each snapshot of its day
\* once, unless snapshots of the day came late or its sums were overtaken; a
\* budget is the sum of its entries and encumbrances and not overspent, and a
\* closed period keeps its entries; the state of a consent is that of its events,
\* which alternate between grants and withdrawals, and an erased subject has only
\* the export copies of requests that had checked it before (text16/b chain.go,
\* chainops.go; text17/a datasets.go, files.go; text16/a service.go; text5/a
\* ingest.go, aggregate.go; text5/b store.go; text10/a journals.py, budgets.py;
\* text10/b posting.py, budget.py; text6/b consent.py, subjects.py).
THEOREM WhatIsStoredIsSound == Spec => []StoredSound
  <1> DEFINE Inv == /\ service = "Log" => Log!IInv
                    /\ service = "Chain" => Chain!IInv
                    /\ service = "DatasetsA" => DatasetsA_IInv
                    /\ service = "JobsA" => JobsA!IInv
                    /\ service = "TwoJobsA" => TwoJobsA!IInv
                    /\ service = "ConsentB" => ConsentB_IInv
                    /\ service = "LedgerB" => LedgerB_IInv
                    /\ service = "LedgerA" => LedgerA_IInv
                    /\ service = "AggregateB" => AggregateB_IInv
                    /\ service = "AggregateA" => AggregateA_IInv
  <1>1. Inv => StoredSound
    BY Log!HolderIsReceiver, Chain!HolderIsReceiver, JobsA!IInvSound,
       TwoJobsA!IInvSound, ConsentB_Sound, LedgerB_Sound, LedgerA_Sound, AggregateB_Sound, AggregateA_Sound
       DEF StoredSound, Log!IInv, Chain!IInv, DatasetsA_IInv
  <1>2. Init => Inv
    BY Log_Invariance, Chain_Invariance, DatasetsA_Invariance, JobsA_Invariance,
       TwoJobsA_Invariance, ConsentB_Invariance, LedgerB_Invariance, LedgerA_Invariance,
       AggregateB_Invariance, AggregateA_Invariance
  <1>3. Inv /\ [Next]_vars => Inv'
    BY Log_Invariance, Chain_Invariance, DatasetsA_Invariance, JobsA_Invariance,
       TwoJobsA_Invariance, ConsentB_Invariance, LedgerB_Invariance, LedgerA_Invariance,
       AggregateB_Invariance, AggregateA_Invariance
  <1> HIDE DEF Inv
  <1> QED
    BY <1>1, <1>2, <1>3, PTL DEF Spec

-----------------------------------------------------------------------------
(* Reviews and incidents (text15, text18) *)

LEMMA ReviewA_Counts == \A S : ReviewA!Cardinality(S) = Cardinality(S)
  BY DEF ReviewA!Cardinality, Cardinality

ReviewA_Verdicts == [status : {"pending", "pass", "fail", "na"}, version : Nat]
ReviewA_Rows == [id : Nat, status : {"active", "superseded"}, item : [ReviewAConfig.Items -> ReviewA_Verdicts],
         completed : SUBSET ReviewAConfig.Reviewers, comment : [ReviewAConfig.Reviewers -> Nat]]

ReviewA_TypeInv ==
    /\ s1 \in [status : {"in_review", "approved"}, current : Nat]
    /\ s2 \in Seq(ReviewA_Rows)
    /\ s3 \in Nat \ {0}

\* Ids grow with the versions, and the job names the id of the newest.
ReviewA_IdsGrow ==
    /\ \A v \in 1 .. Len(s2) : s2[v].id \in 1 .. s3 - 1
    /\ \A v, w \in 1 .. Len(s2) : s2[v].id = s2[w].id => v = w
    /\ s1.current = IF s2 = <<>> THEN 0 ELSE s2[Len(s2)].id

ReviewA_IInv == ReviewA_TypeInv /\ ReviewA_IdsGrow /\ ReviewA!ReviewSound

LEMMA ReviewA_InitInv == ReviewA!Init => ReviewA_IInv
  <1> SUFFICES ASSUME ReviewA!Init PROVE ReviewA_IInv
    OBVIOUS
  <1>1. ReviewA_TypeInv
    BY DEF ReviewA!Init, ReviewA_TypeInv
  <1>2. Len(s2) = 0 /\ DOMAIN s2 = {}
    BY DEF ReviewA!Init
  <1>3. ReviewA_IdsGrow
    BY <1>2 DEF ReviewA!Init, ReviewA_IdsGrow
  <1>4. ReviewA!ReviewSound
    BY <1>2
       DEF ReviewA!Init, ReviewA!ReviewSound, ReviewA!Versions, ReviewA!Current,
           ReviewA!Ids
  <1> QED
    BY <1>1, <1>3, <1>4 DEF ReviewA_IInv

LEMMA ReviewA_RevisionRows ==
    ASSUME ReviewA_TypeInv
    PROVE  /\ Len(s2) \in Nat /\ ReviewA!Versions = 1 .. Len(s2)
           /\ \A v \in ReviewA!Versions : s2[v] \in ReviewA_Rows
           /\ s2 = <<>> <=> Len(s2) = 0
  <1>1. s2 \in Seq(ReviewA_Rows)
    BY DEF ReviewA_TypeInv
  <1> HIDE DEF ReviewA_Rows
  <1>2. Len(s2) \in Nat /\ ReviewA!Versions = 1 .. Len(s2)
    BY <1>1 DEF ReviewA!Versions
  <1>3. \A v \in 1 .. Len(s2) : s2[v] \in ReviewA_Rows
    BY <1>1
  <1>4. s2 = <<>> <=> Len(s2) = 0
    BY <1>1
  <1> QED
    BY <1>2, <1>3, <1>4

\* The current revision of a job is its newest one.
LEMMA ReviewA_CurrentIsNewest ==
    ASSUME ReviewA_TypeInv, ReviewA_IdsGrow
    PROVE  ReviewA!Current = {v \in ReviewA!Versions : v = Len(s2)}
  BY ReviewA_RevisionRows DEF ReviewA!Current, ReviewA_IdsGrow

\* While a job is in review, one row of its newest revision changes
LEMMA ReviewA_RowMoves ==
    ASSUME ReviewA_IInv, NEW v, ReviewA!LockRevision(v), NEW row \in ReviewA_Rows,
           row.id = s2[v].id, row.status = s2[v].status,
           s2' = [s2 EXCEPT ![v] = row],
           UNCHANGED <<s1, s3, s4, s5>>
    PROVE  ReviewA_IInv'
  <1>1. v \in ReviewA!Versions /\ s4 = {}
    BY DEF ReviewA!LockRevision, ReviewA!LockJob, ReviewA!Current, ReviewA_IInv,
           ReviewA!ReviewSound
  <1>2. /\ Len(s2) \in Nat /\ DOMAIN s2 = 1 .. Len(s2)
        /\ s2 \in Seq(ReviewA_Rows) /\ ReviewA!Versions = 1 .. Len(s2)
    BY ReviewA_RevisionRows DEF ReviewA_IInv, ReviewA_TypeInv, ReviewA!Versions
  <1> HIDE DEF ReviewA_Rows
  <1>3. /\ s2' \in Seq(ReviewA_Rows) /\ Len(s2') = Len(s2)
        /\ ReviewA!Versions' = ReviewA!Versions
        /\ \A w \in ReviewA!Versions : s2'[w] = IF w = v THEN row ELSE s2[w]
    BY <1>1, <1>2 DEF ReviewA!Versions
  <1>4. /\ \A w \in ReviewA!Versions : s2'[w].id = s2[w].id
        /\ \A w \in ReviewA!Versions : s2'[w].status = s2[w].status
    BY <1>3
  <1>5. ReviewA_TypeInv'
    BY <1>3 DEF ReviewA_IInv, ReviewA_TypeInv
  <1>6. s2' = <<>> <=> s2 = <<>>
    BY <1>2, <1>3
  <1>7. ReviewA_IdsGrow'
    BY <1>2, <1>3, <1>4, <1>6 DEF ReviewA_IInv, ReviewA_IdsGrow
  <1>8. ReviewA!Current' = {w \in ReviewA!Versions' : w = Len(s2)'}
    BY <1>5, <1>7, ReviewA_RevisionRows, ReviewA_CurrentIsNewest
       DEF ReviewA!Current, ReviewA_IdsGrow, ReviewA!Versions
  <1>9. ReviewA!Ids' \subseteq s5'
    BY <1>3, <1>4 DEF ReviewA_IInv, ReviewA!ReviewSound, ReviewA!Ids
  <1>10. \A w \in ReviewA!Versions' : s2'[w].status = "active" <=> w = Len(s2)'
    BY <1>3, <1>4 DEF ReviewA_IInv, ReviewA!ReviewSound
  <1>11. s4' = {} /\ s1'.status # "approved"
    BY <1>1 DEF ReviewA!LockRevision, ReviewA!LockJob
  <1>12. ReviewA!ReviewSound'
    BY <1>8, <1>9, <1>10, <1>11 DEF ReviewA!ReviewSound
  <1> QED
    BY <1>5, <1>7, <1>12 DEF ReviewA_IInv

LEMMA ReviewA_ItemStep ==
    ASSUME ReviewA_IInv, NEW v \in ReviewA!Versions, NEW i \in ReviewAConfig.Items,
           NEW s \in {"pass", "fail", "na"},
           NEW n \in 1 .. ReviewAConfig.MaxVersion, ReviewA!UpdateChecklistItem(v, i, s, n)
    PROVE  ReviewA_IInv'
  <1>1. s2[v] \in ReviewA_Rows
    BY ReviewA_RevisionRows DEF ReviewA_IInv
  <1> DEFINE row == [s2[v] EXCEPT !.item =
                         [@ EXCEPT ![i] = [status |-> s, version |-> n + 1]]]
  <1>2. row \in ReviewA_Rows /\ row.id = s2[v].id /\ row.status = s2[v].status
    BY <1>1 DEF ReviewA_Rows, ReviewA_Verdicts
  <1>3. s2' = [s2 EXCEPT ![v] = row]
    BY DEF ReviewA!UpdateChecklistItem
  <1> HIDE DEF row
  <1> QED
    BY <1>2, <1>3, ReviewA_RowMoves DEF ReviewA!UpdateChecklistItem

LEMMA ReviewA_CommentStep ==
    ASSUME ReviewA_IInv, NEW v \in ReviewA!Versions, NEW r \in ReviewAConfig.Reviewers,
           NEW n \in 0 .. ReviewAConfig.MaxVersion - 1,
           ReviewA!AddOrUpdateComment(v, r, n)
    PROVE  ReviewA_IInv'
  <1>1. s2[v] \in ReviewA_Rows
    BY ReviewA_RevisionRows DEF ReviewA_IInv
  <1> DEFINE row == [s2[v] EXCEPT !.comment = [@ EXCEPT ![r] = n + 1]]
  <1>2. row \in ReviewA_Rows /\ row.id = s2[v].id /\ row.status = s2[v].status
    BY <1>1 DEF ReviewA_Rows
  <1>3. s2' = [s2 EXCEPT ![v] = row]
    BY DEF ReviewA!AddOrUpdateComment
  <1> HIDE DEF row
  <1> QED
    BY <1>2, <1>3, ReviewA_RowMoves DEF ReviewA!AddOrUpdateComment

LEMMA ReviewA_CompleteStep ==
    ASSUME ReviewA_IInv, NEW v \in ReviewA!Versions, NEW r \in ReviewAConfig.Reviewers,
           ReviewA!CompleteReview(v, r)
    PROVE  ReviewA_IInv'
  <1>1. s2[v] \in ReviewA_Rows
    BY ReviewA_RevisionRows DEF ReviewA_IInv
  <1> DEFINE row == [s2[v] EXCEPT !.completed = @ \cup {r}]
  <1>2. row \in ReviewA_Rows /\ row.id = s2[v].id /\ row.status = s2[v].status
    BY <1>1 DEF ReviewA_Rows
  <1>3. s2' = [s2 EXCEPT ![v] = row]
    BY DEF ReviewA!CompleteReview
  <1> HIDE DEF row
  <1> QED
    BY <1>2, <1>3, ReviewA_RowMoves DEF ReviewA!CompleteReview

LEMMA ReviewA_SubmitStep ==
    ASSUME ReviewA_IInv, ReviewA!SubmitRevision
    PROVE  ReviewA_IInv'
  <1> DEFINE row == ReviewA!NewRevision(s3)
             n == Len(s2) + 1
  <1>1. /\ s3 \in Nat \ {0} /\ s3' = s3 + 1
        /\ s1.status = "in_review" /\ s4 = {} /\ s4' = {}
        /\ s2 \in Seq(ReviewA_Rows)
    BY DEF ReviewA!SubmitRevision, ReviewA!LockJob, ReviewA_IInv, ReviewA_TypeInv,
           ReviewA!ReviewSound
  <1>2. /\ Len(s2) \in Nat /\ DOMAIN s2 = 1 .. Len(s2)
        /\ ReviewA!Versions = 1 .. Len(s2)
        /\ \A v \in ReviewA!Versions : s2[v] \in ReviewA_Rows
    BY ReviewA_RevisionRows DEF ReviewA_IInv, ReviewA!Versions
  <1>3. CASE /\ s2' = Append(ReviewA!Superseded(s2), row)
             /\ s1' = [s1 EXCEPT !.current = s3]
             /\ s5' = s5 \cup {s3}
    <2>1. row \in ReviewA_Rows /\ row.id = s3 /\ row.status = "active"
      BY <1>1 DEF ReviewA!NewRevision, ReviewA_Rows, ReviewA_Verdicts
    <2> DEFINE old == ReviewA!Superseded(s2)
    <2>2. /\ old \in [1 .. Len(s2) -> ReviewA_Rows]
          /\ \A v \in ReviewA!Versions : old[v].id = s2[v].id /\ old[v].status = "superseded"
      <3>1. \A v \in ReviewA!Versions : /\ old[v] \in ReviewA_Rows /\ old[v].id = s2[v].id
                                        /\ old[v].status = "superseded"
        BY <1>2 DEF ReviewA!Superseded, ReviewA_Rows
      <3>2. old = [v \in 1 .. Len(s2) |-> old[v]]
        BY <1>2 DEF ReviewA!Superseded
      <3> HIDE DEF old, ReviewA_Rows
      <3> QED
        BY <1>2, <3>1, <3>2
    <2> HIDE DEF row, old, ReviewA_Rows
    <2>3. old \in Seq(ReviewA_Rows) /\ Len(old) = Len(s2)
      BY <1>2, <2>2
    <2>4. /\ s2' \in Seq(ReviewA_Rows) /\ Len(s2') = n
          /\ ReviewA!Versions' = 1 .. n
          /\ \A v \in ReviewA!Versions : s2'[v] = old[v]
          /\ s2'[n] = row
      BY <1>2, <1>3, <2>1, <2>3 DEF ReviewA!Versions, old, row
    <2>5. /\ \A v \in ReviewA!Versions : /\ s2'[v].id = s2[v].id
                                         /\ s2'[v].status = "superseded"
          /\ s2'[n].id = s3 /\ s2'[n].status = "active"
      BY <2>1, <2>2, <2>4
    <2>6. /\ s1' \in [status : {"in_review", "approved"}, current : Nat]
          /\ s1'.status = "in_review" /\ s1'.current = s3
      BY <1>1, <1>3 DEF ReviewA_IInv, ReviewA_TypeInv
    <2>7. ReviewA_TypeInv'
      BY <1>1, <2>4, <2>6 DEF ReviewA_TypeInv
    <2>8. s2' # <<>>
      BY <1>2, <2>4
    <2>9. ReviewA_IdsGrow'
      <3>1. /\ \A v \in 1 .. Len(s2) : s2[v].id \in 1 .. s3 - 1
            /\ \A v, w \in 1 .. Len(s2) : s2[v].id = s2[w].id => v = w
        BY DEF ReviewA_IInv, ReviewA_IdsGrow
      <3>2. \A v \in 1 .. n : /\ v = n \/ v \in 1 .. Len(s2)
                             /\ s2'[v].id = IF v = n THEN s3 ELSE s2[v].id
        BY <1>2, <2>4, <2>5
      <3>3. \A v \in 1 .. n : s2'[v].id \in 1 .. s3' - 1
        BY <1>1, <3>1, <3>2
      <3>4. \A v \in 1 .. Len(s2) : s2[v].id # s3
        BY <1>1, <3>1
      <3>5. \A v, w \in 1 .. n : s2'[v].id = s2'[w].id => v = w
        BY <3>1, <3>2, <3>4, Zenon
      <3>6. s1'.current = s2'[Len(s2')].id
        BY <2>4, <2>5, <2>6
      <3> QED
        BY <2>4, <2>8, <3>3, <3>5, <3>6 DEF ReviewA_IdsGrow
    <2>10. ReviewA!Current' = {w \in ReviewA!Versions' : w = Len(s2)'}
      <3>1. \A w \in ReviewA!Versions' : s2'[w].id = s1'.current <=> w = n
        BY <1>1, <1>2, <2>4, <2>5, <2>6 DEF ReviewA_IInv, ReviewA_IdsGrow
      <3> QED
        BY <2>4, <3>1 DEF ReviewA!Current
    <2>11. ReviewA!Ids' \subseteq s5'
      BY <1>2, <1>3, <2>4, <2>5 DEF ReviewA_IInv, ReviewA!ReviewSound, ReviewA!Ids
    <2>12. ReviewA!ReviewSound'
      BY <1>1, <1>2, <2>4, <2>5, <2>6, <2>10, <2>11 DEF ReviewA!ReviewSound
    <2> QED
      BY <2>7, <2>9, <2>12 DEF ReviewA_IInv
  <1>4. CASE UNCHANGED <<s2, s1>> /\ s5 \subseteq s5'
    <2>1. ReviewA_TypeInv'
      BY <1>1, <1>4 DEF ReviewA_IInv, ReviewA_TypeInv
    <2>2. ReviewA_IdsGrow'
      BY <1>1, <1>4 DEF ReviewA_IInv, ReviewA_IdsGrow
    <2>3. ReviewA!ReviewSound'
      BY <1>1, <1>4
         DEF ReviewA_IInv, ReviewA!ReviewSound, ReviewA!Versions, ReviewA!Current,
             ReviewA!Ids
    <2> QED
      BY <2>1, <2>2, <2>3 DEF ReviewA_IInv
  <1> QED
    BY <1>3, <1>4 DEF ReviewA!SubmitRevision

LEMMA ReviewA_ApproveStep == ASSUME ReviewA_IInv, ReviewA!Approve PROVE ReviewA_IInv'
  <1> DEFINE n == Len(s2)
  <1>1. /\ s1.status = "in_review" /\ s4 = {} /\ s1' = [s1 EXCEPT !.status = "approved"]
        /\ s4' = {s1.current} /\ UNCHANGED <<s2, s3, s5>>
    BY DEF ReviewA!Approve, ReviewA!LockJob, ReviewA_IInv, ReviewA!ReviewSound
  <1>2. /\ n \in ReviewA!Versions /\ ReviewA!Bad(s2[n]) = {} /\ s1.current = s2[n].id
        /\ Cardinality(s2[n].completed) >= Cardinality(ReviewAConfig.Reviewers)
    BY ReviewA_Counts
       DEF ReviewA!Approve, ReviewA_IInv, ReviewA!ReviewSound, ReviewA!Current
  <1>3. s2[n].completed \subseteq ReviewAConfig.Reviewers
    BY <1>2, ReviewA_RevisionRows DEF ReviewA_IInv, ReviewA_Rows
  <1>4. s2[n].completed = ReviewAConfig.Reviewers
    BY <1>2, <1>3, ReviewAAssumption, FS_Subset, FS_CardinalityType
  <1>5. /\ s1' \in [status : {"in_review", "approved"}, current : Nat]
        /\ s1'.status = "approved" /\ s1'.current = s1.current
    BY <1>1 DEF ReviewA_IInv, ReviewA_TypeInv
  <1>6. ReviewA_TypeInv'
    BY <1>1, <1>5 DEF ReviewA_IInv, ReviewA_TypeInv
  <1>7. ReviewA_IdsGrow'
    BY <1>1, <1>5 DEF ReviewA_IInv, ReviewA_IdsGrow
  <1>8. ReviewA!ReviewSound'
    BY <1>1, <1>2, <1>4, <1>5
       DEF ReviewA_IInv, ReviewA!ReviewSound, ReviewA!Versions, ReviewA!Current,
           ReviewA!Ids, ReviewA!Bad
  <1> QED
    BY <1>6, <1>7, <1>8 DEF ReviewA_IInv

LEMMA ReviewA_NextPreserves ==
    ASSUME ReviewA_IInv, [ReviewA!Next]_(ReviewA!vars)
    PROVE  ReviewA_IInv'
  <1>1. CASE UNCHANGED ReviewA!vars
    BY <1>1
       DEF ReviewA!vars, ReviewA_IInv, ReviewA_TypeInv, ReviewA_IdsGrow,
           ReviewA!ReviewSound, ReviewA!Versions, ReviewA!Current, ReviewA!Ids,
           ReviewA!Bad
  <1> QED
    BY <1>1, ReviewA_SubmitStep, ReviewA_ItemStep, ReviewA_CommentStep,
       ReviewA_CompleteStep, ReviewA_ApproveStep DEF ReviewA!Next

LEMMA ReviewA_Invariance ==
    /\ Init => (service = "ReviewA" => ReviewA_IInv)
    /\ (service = "ReviewA" => ReviewA_IInv) /\ [Next]_vars
           => (service = "ReviewA" => ReviewA_IInv)'
  <1>1. Init => (service = "ReviewA" => ReviewA_IInv)
    BY ReviewA_InitInv DEF Init
  <1>2. ASSUME [Next]_vars, service' = "ReviewA"
        PROVE  service = "ReviewA" /\ [ReviewA!Next]_(ReviewA!vars)
    BY <1>2 DEF Next, vars, ReviewA!vars
  <1> QED
    BY <1>1, <1>2, ReviewA_NextPreserves

ReviewB_Opinions == [verdict : {"none", "pass", "fail", "na"}, row : Nat]
ReviewB_Rows == [status : {"open", "superseded", "approved"},
         opinion : [ReviewBConfig.Reviewers -> [ReviewBConfig.Items -> ReviewB_Opinions]]]

ReviewB_TypeInv == s2 \in Seq(ReviewB_Rows)

\* An approved version is signed off; only failed uploads remove files.
ReviewB_Rests ==
    /\ \A v \in ReviewB!Versions : s2[v].status = "approved" => v \in s3
    /\ s5 \subseteq s6

ReviewB_IInv == ReviewB_TypeInv /\ ReviewB_Rests /\ ReviewB!ReviewSound

LEMMA ReviewB_InitInv == ReviewB!Init => ReviewB_IInv
  BY DEF ReviewB!Init, ReviewB_IInv, ReviewB_TypeInv, ReviewB_Rests, ReviewB!ReviewSound,
         ReviewB!Versions

LEMMA ReviewB_VersionRows ==
    ASSUME ReviewB_TypeInv
    PROVE  /\ Len(s2) \in Nat /\ ReviewB!Versions = 1 .. Len(s2)
           /\ \A v \in ReviewB!Versions : s2[v] \in ReviewB_Rows
  <1>1. s2 \in Seq(ReviewB_Rows)
    BY DEF ReviewB_TypeInv
  <1> HIDE DEF ReviewB_Rows
  <1> QED
    BY <1>1 DEF ReviewB!Versions

LEMMA ReviewB_NextVersion ==
    ASSUME ReviewB_IInv
    PROVE  LET n == Len(s2) + 1
           IN  /\ ReviewB!Activated \in Seq(ReviewB_Rows)
               /\ Len(ReviewB!Activated) = n /\ DOMAIN ReviewB!Activated = 1 .. n
               /\ s1 = "in_review" => \A v \in 1 .. n :
                      ReviewB!Activated[v].status = IF v = n THEN "open" ELSE "superseded"
  <1> DEFINE n == Len(s2) + 1
             old == [v \in ReviewB!Versions |-> [s2[v] EXCEPT !.status =
                         IF @ = "open" THEN "superseded" ELSE @]]
  <1>1. /\ Len(s2) \in Nat /\ ReviewB!Versions = 1 .. Len(s2)
        /\ \A v \in ReviewB!Versions : s2[v] \in ReviewB_Rows
    BY ReviewB_VersionRows DEF ReviewB_IInv
  <1>2. ReviewB!Open \in ReviewB_Rows /\ ReviewB!Open.status = "open"
    BY DEF ReviewB!Open, ReviewB!None, ReviewB_Rows, ReviewB_Opinions
  <1>3. \A v \in ReviewB!Versions : /\ old[v] \in ReviewB_Rows
                                    /\ s1 = "in_review" => old[v].status = "superseded"
    <2> SUFFICES ASSUME NEW v \in ReviewB!Versions
                 PROVE  /\ old[v] \in ReviewB_Rows
                        /\ s1 = "in_review" => old[v].status = "superseded"
      OBVIOUS
    <2>1. /\ old[v] \in ReviewB_Rows
          /\ old[v].status = IF s2[v].status = "open" THEN "superseded"
                             ELSE s2[v].status
      BY <1>1 DEF ReviewB_Rows
    <2>2. s1 = "in_review" => s2[v].status # "approved"
      BY DEF ReviewB_IInv, ReviewB_Rests, ReviewB!ReviewSound
    <2>3. s2[v].status \in {"open", "superseded", "approved"}
      BY <1>1 DEF ReviewB_Rows
    <2> QED
      BY <2>1, <2>2, <2>3
  <1>4. old = [v \in 1 .. Len(s2) |-> old[v]]
    BY <1>1
  <1>5. ReviewB!Activated = Append(old, ReviewB!Open)
    BY DEF ReviewB!Activated
  <1> HIDE DEF old, ReviewB_Rows
  <1>6. old \in Seq(ReviewB_Rows) /\ Len(old) = Len(s2)
    BY <1>1, <1>3, <1>4
  <1> QED
    BY <1>1, <1>2, <1>3, <1>5, <1>6

LEMMA ReviewB_UploadStep ==
    ASSUME ReviewB_IInv, ReviewB!UploadRevision
    PROVE  ReviewB_IInv'
  <1> DEFINE n == Len(s2) + 1
  <1>1. /\ s7 /\ s7' = s7 /\ s1 = "in_review" /\ s3 = {}
        /\ UNCHANGED <<s1, s3>>
        /\ s4' = s4 \cup {n}
    BY DEF ReviewB!UploadRevision, ReviewB!InReview, ReviewB_IInv, ReviewB!ReviewSound
  <1>2. /\ s5' \subseteq s6' /\ s6 \subseteq s6'
        /\ s2' \in {s2, ReviewB!Activated}
    BY DEF ReviewB!UploadRevision, ReviewB_IInv, ReviewB_Rests
  <1>3. CASE s2' = s2
    <2>1. ReviewB!Versions' = ReviewB!Versions
      BY <1>3 DEF ReviewB!Versions
    <2> QED
      BY <1>1, <1>2, <1>3, <2>1
         DEF ReviewB_IInv, ReviewB_TypeInv, ReviewB_Rests, ReviewB!ReviewSound
  <1>4. CASE s2' = ReviewB!Activated
    <2>1. /\ Len(s2) \in Nat /\ ReviewB!Versions = 1 .. Len(s2)
          /\ ReviewB!Versions' = 1 .. n /\ Len(s2') = n
          /\ s2' \in Seq(ReviewB_Rows)
          /\ \A v \in 1 .. n : s2'[v].status = IF v = n THEN "open" ELSE "superseded"
      BY <1>1, <1>4, ReviewB_NextVersion, ReviewB_VersionRows
         DEF ReviewB_IInv, ReviewB!Versions
    <2>2. ReviewB!Versions' \ s6' \subseteq s4'
      BY <1>1, <1>2, <2>1 DEF ReviewB_IInv, ReviewB!ReviewSound
    <2>3. ReviewB_Rests'
      BY <1>2, <2>1 DEF ReviewB_Rests
    <2>4. ReviewB!ReviewSound'
      BY <1>1, <2>1, <2>2 DEF ReviewB!ReviewSound
    <2> QED
      BY <2>1, <2>3, <2>4 DEF ReviewB_IInv, ReviewB_TypeInv
  <1> QED
    BY <1>2, <1>3, <1>4

LEMMA ReviewB_RemoveFailedStep ==
    ASSUME ReviewB_IInv, NEW n \in s5, ReviewB!RemoveFailed(n)
    PROVE  ReviewB_IInv'
  BY DEF ReviewB!RemoveFailed, ReviewB_IInv, ReviewB_TypeInv, ReviewB_Rests,
         ReviewB!ReviewSound, ReviewB!Versions, ReviewB!Settled

LEMMA ReviewB_RestartStep == ASSUME ReviewB_IInv, ReviewB!Restart PROVE ReviewB_IInv'
  BY DEF ReviewB!Restart, ReviewB_IInv, ReviewB_TypeInv, ReviewB_Rests,
         ReviewB!ReviewSound, ReviewB!Versions, ReviewB!Settled

LEMMA ReviewB_OpinionStep ==
    ASSUME ReviewB_IInv, NEW r \in ReviewBConfig.Reviewers, NEW v \in ReviewB!Versions,
           NEW asked \in SUBSET ReviewBConfig.Items,
           NEW verdict \in [asked -> {"pass", "fail", "na"}],
           NEW expected \in [asked -> 0 .. ReviewBConfig.MaxRow - 1],
           ReviewB!SubmitOpinions(r, v, asked, verdict, expected)
    PROVE  ReviewB_IInv'
  <1> DEFINE given == [i \in ReviewBConfig.Items |->
                 IF i \in asked THEN [verdict |-> verdict[i], row |-> expected[i] + 1]
                 ELSE s2[v].opinion[r][i]]
             row == [s2[v] EXCEPT !.opinion = [@ EXCEPT ![r] = given]]
  <1>1. /\ Len(s2) \in Nat /\ ReviewB!Versions = 1 .. Len(s2)
        /\ \A w \in ReviewB!Versions : s2[w] \in ReviewB_Rows
    BY ReviewB_VersionRows DEF ReviewB_IInv
  <1>2. s2' = [s2 EXCEPT ![v] = row] /\ s2[v].status = "open"
        /\ UNCHANGED <<s1, s3, s4, s5, s6, s7>>
    BY <1>1 DEF ReviewB!SubmitOpinions
  <1>3. given \in [ReviewBConfig.Items -> ReviewB_Opinions]
    <2> SUFFICES ASSUME NEW i \in ReviewBConfig.Items PROVE given[i] \in ReviewB_Opinions
      OBVIOUS
    <2>1. CASE i \in asked
      <3>1. verdict[i] \in {"pass", "fail", "na"} /\ expected[i] + 1 \in Nat
        BY <2>1
      <3> QED
        BY <2>1, <3>1 DEF ReviewB_Opinions
    <2>2. CASE i \notin asked
      <3>1. s2[v].opinion[r][i] \in ReviewB_Opinions
        BY <1>1 DEF ReviewB_Rows
      <3> QED
        BY <2>2, <3>1
    <2> QED
      BY <2>1, <2>2
  <1> HIDE DEF given
  <1>4. row \in ReviewB_Rows /\ row.status = "open"
    BY <1>1, <1>2, <1>3 DEF ReviewB_Rows
  <1>5. s2 \in Seq(ReviewB_Rows) /\ DOMAIN s2 = 1 .. Len(s2)
    BY <1>1 DEF ReviewB_IInv, ReviewB_TypeInv, ReviewB!Versions
  <1> HIDE DEF row, ReviewB_Rows
  <1>6. /\ s2' \in Seq(ReviewB_Rows) /\ Len(s2') = Len(s2) /\ ReviewB!Versions' = ReviewB!Versions
        /\ \A w \in ReviewB!Versions : s2'[w] = IF w = v THEN row ELSE s2[w]
    BY <1>1, <1>2, <1>4, <1>5 DEF ReviewB!Versions
  <1>7. \A w \in ReviewB!Versions : s2'[w].status = s2[w].status
    BY <1>2, <1>4, <1>6
  <1>8. \A w \in s3 : w # v /\ w \in ReviewB!Versions
    BY <1>1, <1>2 DEF ReviewB_IInv, ReviewB!ReviewSound
  <1>9. \A w \in s3 : ReviewB!Settled(w)'
    BY <1>6, <1>8 DEF ReviewB_IInv, ReviewB!ReviewSound, ReviewB!Settled
  <1>10. ReviewB!ReviewSound'
    BY <1>2, <1>6, <1>7, <1>8, <1>9 DEF ReviewB_IInv, ReviewB!ReviewSound
  <1>11. ReviewB_TypeInv' /\ ReviewB_Rests'
    BY <1>2, <1>6, <1>7 DEF ReviewB_IInv, ReviewB_TypeInv, ReviewB_Rests
  <1> QED
    BY <1>10, <1>11 DEF ReviewB_IInv

LEMMA ReviewB_SignOffStep == ASSUME ReviewB_IInv, ReviewB!SignOff PROVE ReviewB_IInv'
  <1> DEFINE v == Len(s2)
             row == [s2[v] EXCEPT !.status = "approved"]
  <1>1. /\ Len(s2) \in Nat /\ ReviewB!Versions = 1 .. Len(s2)
        /\ \A w \in ReviewB!Versions : s2[w] \in ReviewB_Rows
    BY ReviewB_VersionRows DEF ReviewB_IInv
  <1>2. /\ s2' = [s2 EXCEPT ![v] = row] /\ v \in ReviewB!Versions
        /\ s1 = "in_review" /\ s3 = {} /\ s3' = {v} /\ s1' = "approved"
        /\ ReviewB!Settled(v) /\ UNCHANGED <<s4, s5, s6, s7>>
    BY DEF ReviewB!SignOff, ReviewB!InReview, ReviewB_IInv, ReviewB!ReviewSound
  <1>3. row \in ReviewB_Rows /\ row.status = "approved" /\ row.opinion = s2[v].opinion
    BY <1>1, <1>2 DEF ReviewB_Rows
  <1>4. s2 \in Seq(ReviewB_Rows) /\ DOMAIN s2 = 1 .. Len(s2)
    BY <1>1 DEF ReviewB_IInv, ReviewB_TypeInv, ReviewB!Versions
  <1> HIDE DEF row, ReviewB_Rows
  <1>5. /\ s2' \in Seq(ReviewB_Rows) /\ Len(s2') = Len(s2) /\ ReviewB!Versions' = ReviewB!Versions
        /\ \A w \in ReviewB!Versions : s2'[w] = IF w = v THEN row ELSE s2[w]
    BY <1>1, <1>2, <1>3, <1>4 DEF ReviewB!Versions
  <1>6. ReviewB!Settled(v)'
    BY <1>2, <1>3, <1>5 DEF ReviewB!Settled
  <1>7. ReviewB!ReviewSound'
    BY <1>2, <1>3, <1>5, <1>6 DEF ReviewB_IInv, ReviewB!ReviewSound, ReviewB!Settled
  <1>8. ReviewB_TypeInv' /\ ReviewB_Rests'
    BY <1>2, <1>5 DEF ReviewB_IInv, ReviewB_TypeInv, ReviewB_Rests
  <1> QED
    BY <1>7, <1>8 DEF ReviewB_IInv

LEMMA ReviewB_NextPreserves ==
    ASSUME ReviewB_IInv, [ReviewB!Next]_(ReviewB!vars)
    PROVE  ReviewB_IInv'
  <1>1. CASE UNCHANGED ReviewB!vars
    BY <1>1
       DEF ReviewB!vars, ReviewB_IInv, ReviewB_TypeInv, ReviewB_Rests,
           ReviewB!ReviewSound, ReviewB!Versions, ReviewB!Settled
  <1> QED
    BY <1>1, ReviewB_UploadStep, ReviewB_RemoveFailedStep, ReviewB_RestartStep,
       ReviewB_OpinionStep, ReviewB_SignOffStep DEF ReviewB!Next

LEMMA ReviewB_Invariance ==
    /\ Init => (service = "ReviewB" => ReviewB_IInv)
    /\ (service = "ReviewB" => ReviewB_IInv) /\ [Next]_vars
           => (service = "ReviewB" => ReviewB_IInv)'
  <1>1. Init => (service = "ReviewB" => ReviewB_IInv)
    BY ReviewB_InitInv DEF Init
  <1>2. ASSUME [Next]_vars, service' = "ReviewB"
        PROVE  service = "ReviewB" /\ [ReviewB!Next]_(ReviewB!vars)
    BY <1>2 DEF Next, vars, ReviewB!vars
  <1> QED
    BY <1>1, <1>2, ReviewB_NextPreserves

IncidentsA_Schedules == [due : Nat, version : Nat, status : {"open", "done", "canceled"}]
IncidentsA_Reminders == [item : DOMAIN s5, version : Nat, due : Nat, at : Nat]

IncidentsA_TypeInv ==
    /\ s1 \in Nat
    /\ s2 = [version |-> s2.version, rootCause |-> s2.rootCause,
                   members |-> s2.members]
    /\ s3 \in Seq(0 .. s1)
    /\ Len(s3) \in 1 .. 7
    /\ s4 \in Seq(s7 \cup {0})
    /\ s5 \in Seq(IncidentsA_Schedules)
    /\ s6 \subseteq IncidentsA_Reminders

IncidentsA_IInv == IncidentsA_TypeInv /\ IncidentsA!IncidentSound

LEMMA IncidentsA_InitInv == IncidentsA!Init => IncidentsA_IInv
  <1> SUFFICES ASSUME IncidentsA!Init PROVE IncidentsA_IInv
    OBVIOUS
  <1>1. IncidentsA_TypeInv
    BY DEF IncidentsA!Init, IncidentsA_TypeInv
  <1>2. Len(s3) = 1 /\ Len(s4) = 0 /\ DOMAIN s4 = {}
    BY DEF IncidentsA!Init
  <1>3. IncidentsA!Status # "closed"
    BY <1>2 DEF IncidentsA!Status, IncidentsA!Stages
  <1>4. IncidentsA!IncidentSound
    BY <1>2, <1>3, IncidentsAAssumption DEF IncidentsA!Init, IncidentsA!IncidentSound
  <1> QED
    BY <1>1, <1>4 DEF IncidentsA_IInv

LEMMA IncidentsA_ScheduleRows ==
    ASSUME IncidentsA_IInv
    PROVE  /\ s5 \in Seq(IncidentsA_Schedules) /\ Len(s5) \in Nat /\ DOMAIN s5 = 1 .. Len(s5)
           /\ \A i \in DOMAIN s5 : s5[i] \in IncidentsA_Schedules
  <1>1. s5 \in Seq(IncidentsA_Schedules)
    BY DEF IncidentsA_IInv, IncidentsA_TypeInv
  <1> HIDE DEF IncidentsA_Schedules
  <1> QED
    BY <1>1

\* What is said of stages, evidence and reminders, one by one
IncidentsA_StagesSound ==
    /\ s2.version = Len(s3)
    /\ \A p \in 1 .. Len(s3) - 1 : s3[p] <= s3[p + 1]
    /\ IncidentsA!Status = "closed" => s2.rootCause /\ s5 # <<>>
IncidentsA_EvidenceSound ==
    /\ \A m, n \in DOMAIN s4 : s4[m] = s4[n] => m = n \/ s4[m] = 0
    /\ Len(s4) <= IncidentsAConfig.MaxEvidence
IncidentsA_RemindersSound ==
    /\ \A r, q \in s6 : r.item = q.item /\ r.version = q.version => r = q
    /\ \A r \in s6 :
           /\ r.due <= r.at
           /\ r.version <= s5[r.item].version
           /\ r.version = s5[r.item].version => r.due = s5[r.item].due

LEMMA IncidentsA_Parts ==
    IncidentsA!IncidentSound <=>
        IncidentsA_StagesSound /\ IncidentsA_EvidenceSound /\ IncidentsA_RemindersSound
  BY DEF IncidentsA!IncidentSound, IncidentsA_StagesSound, IncidentsA_EvidenceSound,
         IncidentsA_RemindersSound

LEMMA IncidentsA_MutatesGrows ==
    ASSUME IncidentsA_IInv, NEW id, IncidentsA!Mutates(id)
    PROVE  /\ s7 \subseteq s7' /\ id \notin s7 /\ id \in s7' \cup {0}
           /\ s4 \in Seq(s7' \cup {0})
  <1>1. s7 \subseteq s7' /\ id \notin s7 /\ id \in s7' \cup {0}
    BY DEF IncidentsA!Mutates
  <1>2. s4 \in Seq(s7 \cup {0})
    BY DEF IncidentsA_IInv, IncidentsA_TypeInv
  <1>3. \A n \in DOMAIN s4 : s4[n] \in s7' \cup {0}
    BY <1>1, <1>2
  <1> QED
    BY <1>1, <1>2, <1>3

LEMMA IncidentsA_StageNames ==
    /\ IncidentsA!Stages[7] = "closed"
    /\ \A n \in 1 .. 6 : IncidentsA!Stages[n] # "closed"
  BY DEF IncidentsA!Stages

LEMMA IncidentsA_StillOpen ==
    ASSUME IncidentsA_IInv, IncidentsA!Status # "closed"
    PROVE  /\ Len(s3) \in 1 .. 6 /\ s1 \in Nat /\ s3 \in Seq(0 .. s1)
           /\ s2.version = Len(s3)
  <1>1. Len(s3) # 7
    BY IncidentsA_StageNames DEF IncidentsA!Status
  <1>2. Len(s3) \in 1 .. 7
    BY DEF IncidentsA_IInv, IncidentsA_TypeInv
  <1>3. s1 \in Nat /\ s3 \in Seq(0 .. s1)
    BY DEF IncidentsA_IInv, IncidentsA_TypeInv
  <1>4. s2.version = Len(s3)
    BY DEF IncidentsA_IInv, IncidentsA!IncidentSound
  <1> QED
    BY <1>1, <1>2, <1>3, <1>4

\* The incident enters its next stage
LEMMA IncidentsA_StageEnters ==
    ASSUME IncidentsA_IInv, NEW id, IncidentsA!Mutates(id), IncidentsA!Status # "closed",
           NEW next, next = s2.version + 1,
           NEW given, s2' = [s2 EXCEPT !.version = next, !.rootCause = given],
           s3' = Append(s3, s1), UNCHANGED <<s1, s4, s5, s6>>,
           IncidentsA!Stages[Len(s3) + 1] = "closed" => given = TRUE /\ s5 # <<>>
    PROVE  IncidentsA_IInv'
  <1>2. /\ Len(s3) \in 1 .. 6 /\ s1 \in Nat /\ s3 \in Seq(0 .. s1)
        /\ s2.version = Len(s3)
    BY IncidentsA_StillOpen
  <1>3. /\ s2'.version = s2.version + 1
        /\ s2'.rootCause = given
        /\ s2' = [version |-> s2'.version, rootCause |-> s2'.rootCause,
                        members |-> s2'.members]
    BY DEF IncidentsA_IInv, IncidentsA_TypeInv
  <1>4. /\ s3' \in Seq(0 .. s1) /\ Len(s3') = Len(s3) + 1
        /\ \A p \in 1 .. Len(s3) : s3'[p] = s3[p] /\ s3[p] \in 0 .. s1
        /\ s3'[Len(s3) + 1] = s1
    BY <1>2
  <1> DEFINE m == Len(s3)
  <1>11. m + 1 \in 1 .. 7 /\ (m # 6 => m + 1 \in 1 .. 6)
    <2>1. m \in 1 .. 6
      BY <1>2
    <2> HIDE DEF m
    <2> QED
      BY <2>1
  <1>5. IncidentsA_TypeInv'
    <2>1. /\ s4' \in Seq(s7' \cup {0})
          /\ s5' \in Seq(IncidentsA_Schedules)
          /\ s6' \subseteq IncidentsA_Reminders'
      BY IncidentsA_MutatesGrows
         DEF IncidentsA_IInv, IncidentsA_TypeInv, IncidentsA_Reminders
    <2> QED
      BY <1>2, <1>3, <1>4, <1>11, <2>1, Zenon DEF IncidentsA_TypeInv
  <1>6. \A p \in 1 .. Len(s3') - 1 : s3'[p] <= s3'[p + 1]
    BY <1>2, <1>4 DEF IncidentsA_IInv, IncidentsA!IncidentSound
  <1>7. IncidentsA!Status' = "closed" => s2'.rootCause /\ s5' # <<>>
    <2>1. CASE Len(s3) = 6
      BY <1>3, <2>1, IncidentsA_StageNames
    <2>2. CASE Len(s3) # 6
      <3>1. Len(s3') \in 1 .. 6
        BY <1>4, <1>11, <2>2, Zenon
      <3> QED
        BY <3>1, IncidentsA_StageNames DEF IncidentsA!Status
    <2> QED
      BY <2>1, <2>2
  <1>8. IncidentsA_StagesSound'
    BY <1>2, <1>3, <1>4, <1>6, <1>7 DEF IncidentsA_StagesSound
  <1>9. IncidentsA_EvidenceSound' /\ IncidentsA_RemindersSound'
    BY IncidentsA_Parts
       DEF IncidentsA_IInv, IncidentsA_EvidenceSound, IncidentsA_RemindersSound
  <1>10. IncidentsA!IncidentSound'
    BY <1>8, <1>9
       DEF IncidentsA!IncidentSound, IncidentsA_StagesSound, IncidentsA_EvidenceSound,
           IncidentsA_RemindersSound
  <1> QED
    BY <1>5, <1>10 DEF IncidentsA_IInv

LEMMA IncidentsA_TransitionStep ==
    ASSUME IncidentsA_IInv, NEW u, NEW id, NEW n, NEW rootCause \in BOOLEAN,
           IncidentsA!Transition(u, id, n, rootCause)
    PROVE  IncidentsA_IInv'
  <1> DEFINE next == s2.version + 1
             given == s2.rootCause \/ rootCause
  <1>1. /\ IncidentsA!Mutates(id) /\ IncidentsA!Status # "closed"
        /\ s2' = [s2 EXCEPT !.version = next, !.rootCause = given]
        /\ s3' = Append(s3, s1) /\ UNCHANGED <<s1, s4, s5, s6>>
    BY Zenon DEF IncidentsA!Transition
  <1>2. IncidentsA!Gates(IncidentsA!Stages[Len(s3) + 1], rootCause)
    BY Zenon DEF IncidentsA!Transition
  <1>3. DOMAIN s5 # {} => s5 # <<>>
    OBVIOUS
  <1>4. IncidentsA!Stages[Len(s3) + 1] = "closed" => given = TRUE /\ s5 # <<>>
    BY <1>2, <1>3, Zenon DEF IncidentsA!Gates
  <1>5. next = s2.version + 1
    OBVIOUS
  <1> HIDE DEF next, given
  <1> QED
    BY <1>1, <1>4, <1>5, IncidentsA_StageEnters, Zenon

LEMMA IncidentsA_AssignStep ==
    ASSUME IncidentsA_IInv, NEW u, NEW member, NEW role,
           IncidentsA!AssignMember(u, member, role)
    PROVE  IncidentsA_IInv'
  <1>1. /\ s2'.version = s2.version /\ s2'.rootCause = s2.rootCause
        /\ s2' = [version |-> s2'.version, rootCause |-> s2'.rootCause,
                        members |-> s2'.members]
        /\ UNCHANGED <<s1, s3, s4, s5, s6, s7>>
    BY DEF IncidentsA!AssignMember, IncidentsA_IInv, IncidentsA_TypeInv
  <1> QED
    BY <1>1
       DEF IncidentsA_IInv, IncidentsA_TypeInv, IncidentsA!IncidentSound,
           IncidentsA_Reminders, IncidentsA!Status

LEMMA IncidentsA_EvidenceStep ==
    ASSUME IncidentsA_IInv, NEW u, NEW id, IncidentsA!AddEvidence(u, id)
    PROVE  IncidentsA_IInv'
  <1>1. /\ IncidentsA!Mutates(id) /\ s4' = Append(s4, id) /\ Len(s4) < IncidentsAConfig.MaxEvidence
        /\ UNCHANGED <<s1, s2, s3, s5, s6>>
    BY DEF IncidentsA!AddEvidence
  <1>2. /\ s4 \in Seq(s7 \cup {0}) /\ s4 \in Seq(s7' \cup {0})
        /\ id \notin s7 /\ id \in s7' \cup {0}
    BY <1>1, IncidentsA_MutatesGrows DEF IncidentsA_IInv, IncidentsA_TypeInv
  <1>3. /\ s4' \in Seq(s7' \cup {0}) /\ Len(s4') = Len(s4) + 1
        /\ Len(s4) \in Nat /\ DOMAIN s4 = 1 .. Len(s4)
        /\ DOMAIN s4' = 1 .. Len(s4) + 1
        /\ \A n \in 1 .. Len(s4) : s4'[n] = s4[n]
        /\ s4'[Len(s4) + 1] = id
    BY <1>1, <1>2
  <1>4. \A n \in 1 .. Len(s4) : s4[n] = id => id = 0
    BY <1>2
  <1>5. \A m, n \in DOMAIN s4' : s4'[m] = s4'[n] => m = n \/ s4'[m] = 0
    BY <1>3, <1>4 DEF IncidentsA_IInv, IncidentsA!IncidentSound
  <1>6. IncidentsA_EvidenceSound'
    BY <1>1, <1>3, <1>5, IncidentsAAssumption DEF IncidentsA_EvidenceSound
  <1>7. IncidentsA_TypeInv' /\ IncidentsA_StagesSound' /\ IncidentsA_RemindersSound'
    BY <1>1, <1>3, IncidentsA_Parts
       DEF IncidentsA_IInv, IncidentsA_TypeInv, IncidentsA_Reminders,
           IncidentsA_StagesSound, IncidentsA_RemindersSound, IncidentsA!Status
  <1> QED
    BY <1>6, <1>7
       DEF IncidentsA_IInv, IncidentsA!IncidentSound, IncidentsA_StagesSound,
           IncidentsA_EvidenceSound, IncidentsA_RemindersSound

\* Steps on the action items: one is added, or one changes and its due time only
\* with its version.
LEMMA IncidentsA_ItemsMove ==
    ASSUME IncidentsA_IInv, UNCHANGED <<s1, s2, s3, s4, s6>>,
           s7 \subseteq s7', s4 \in Seq(s7' \cup {0}),
           s5' \in Seq(IncidentsA_Schedules), DOMAIN s5 \subseteq DOMAIN s5', s5' # <<>>,
           \A i \in DOMAIN s5 :
               /\ s5'[i].version >= s5[i].version
               /\ s5'[i].version = s5[i].version => s5'[i].due = s5[i].due
    PROVE  IncidentsA_IInv'
  <1>1. IncidentsA_TypeInv'
    BY DEF IncidentsA_IInv, IncidentsA_TypeInv, IncidentsA_Reminders
  <1>2. \A r \in s6 : r.item \in DOMAIN s5 /\ r.version \in Nat
    BY DEF IncidentsA_IInv, IncidentsA_TypeInv, IncidentsA_Reminders
  <1>3. \A i \in DOMAIN s5 : s5[i].version \in Nat
    BY IncidentsA_ScheduleRows DEF IncidentsA_Schedules
  <1>4. \A i \in DOMAIN s5' : s5'[i].version \in Nat
    <2>1. s5' \in Seq(IncidentsA_Schedules)
      OBVIOUS
    <2> HIDE DEF IncidentsA_Schedules
    <2>2. \A i \in DOMAIN s5' : s5'[i] \in IncidentsA_Schedules
      BY <2>1
    <2> QED
      BY <2>2 DEF IncidentsA_Schedules
  <1>5. IncidentsA_RemindersSound'
    BY <1>2, <1>3, <1>4, IncidentsA_Parts DEF IncidentsA_IInv, IncidentsA_RemindersSound
  <1>6. IncidentsA_StagesSound' /\ IncidentsA_EvidenceSound'
    BY IncidentsA_Parts
       DEF IncidentsA_IInv, IncidentsA_StagesSound, IncidentsA_EvidenceSound,
           IncidentsA!Status
  <1> QED
    BY <1>1, <1>5, <1>6
       DEF IncidentsA_IInv, IncidentsA!IncidentSound, IncidentsA_StagesSound,
           IncidentsA_EvidenceSound, IncidentsA_RemindersSound

LEMMA IncidentsA_CreateItemStep ==
    ASSUME IncidentsA_IInv, NEW u, NEW id, NEW due \in 0 .. IncidentsAConfig.MaxTime,
           IncidentsA!CreateActionItem(u, id, due)
    PROVE  IncidentsA_IInv'
  <1> DEFINE row == [due |-> due, version |-> 1, status |-> "open"]
  <1>1. /\ IncidentsA!Mutates(id) /\ s5' = Append(s5, row)
        /\ UNCHANGED <<s1, s2, s3, s4, s6>>
    BY DEF IncidentsA!CreateActionItem
  <1>2. row \in IncidentsA_Schedules
    BY IncidentsAAssumption DEF IncidentsA_Schedules
  <1>3. \A i \in DOMAIN s5 : s5[i].version \in Nat
    BY IncidentsA_ScheduleRows DEF IncidentsA_Schedules
  <1> HIDE DEF row, IncidentsA_Schedules
  <1>4. /\ s5' \in Seq(IncidentsA_Schedules) /\ DOMAIN s5 \subseteq DOMAIN s5' /\ s5' # <<>>
        /\ \A i \in DOMAIN s5 : s5'[i] = s5[i]
    BY <1>1, <1>2, IncidentsA_ScheduleRows
  <1> QED
    BY <1>1, <1>3, <1>4, IncidentsA_MutatesGrows, IncidentsA_ItemsMove

LEMMA IncidentsA_ItemMoves ==
    ASSUME IncidentsA_IInv, UNCHANGED <<s1, s2, s3, s4, s6>>,
           s7 \subseteq s7', s4 \in Seq(s7' \cup {0}),
           NEW i \in DOMAIN s5, NEW row \in IncidentsA_Schedules,
           s5' = [s5 EXCEPT ![i] = row],
           \/ row.version = s5[i].version /\ row.due = s5[i].due
           \/ row.version = s5[i].version + 1
    PROVE  IncidentsA_IInv'
  <1>1. \A j \in DOMAIN s5 : s5[j].version \in Nat
    BY IncidentsA_ScheduleRows DEF IncidentsA_Schedules
  <1> HIDE DEF IncidentsA_Schedules
  <1>2. /\ s5' \in Seq(IncidentsA_Schedules) /\ DOMAIN s5 \subseteq DOMAIN s5' /\ s5' # <<>>
        /\ \A j \in DOMAIN s5 : s5'[j] = IF j = i THEN row ELSE s5[j]
    BY IncidentsA_ScheduleRows
  <1> QED
    BY <1>1, <1>2, IncidentsA_ItemsMove

LEMMA IncidentsA_RescheduleStep ==
    ASSUME IncidentsA_IInv, NEW u, NEW id, NEW i \in DOMAIN s5,
           NEW due \in 0 .. IncidentsAConfig.MaxTime,
           IncidentsA!RescheduleActionItem(u, id, i, due)
    PROVE  IncidentsA_IInv'
  <1> DEFINE next == s5[i].version + 1
             row == [s5[i] EXCEPT !.due = due, !.version = next]
  <1>1. /\ IncidentsA!Mutates(id) /\ s5' = [s5 EXCEPT ![i] = row]
        /\ UNCHANGED <<s1, s2, s3, s4, s6>>
    BY IncidentsA_ScheduleRows DEF IncidentsA!RescheduleActionItem
  <1>2. row \in IncidentsA_Schedules /\ row.version = s5[i].version + 1
    <2>1. s5[i] \in IncidentsA_Schedules
      BY IncidentsA_ScheduleRows
    <2>2. due \in Nat
      BY IncidentsAAssumption
    <2>3. next \in Nat /\ next = s5[i].version + 1
      BY <2>1 DEF IncidentsA_Schedules
    <2> HIDE DEF next
    <2> QED
      BY <2>1, <2>2, <2>3 DEF IncidentsA_Schedules
  <1> HIDE DEF row
  <1> QED
    BY <1>1, <1>2, IncidentsA_MutatesGrows, IncidentsA_ItemMoves

LEMMA IncidentsA_SetStatusStep ==
    ASSUME IncidentsA_IInv, NEW u, NEW i \in DOMAIN s5,
           NEW status \in {"done", "canceled"},
           IncidentsA!SetActionItemStatus(u, i, status)
    PROVE  IncidentsA_IInv'
  <1> DEFINE row == [s5[i] EXCEPT !.status = status]
  <1>1. /\ s5' = [s5 EXCEPT ![i] = row]
        /\ UNCHANGED <<s1, s2, s3, s4, s6, s7>>
    BY DEF IncidentsA!SetActionItemStatus
  <1>2. row \in IncidentsA_Schedules /\ row.version = s5[i].version /\ row.due = s5[i].due
    BY IncidentsA_ScheduleRows DEF IncidentsA_Schedules
  <1>3. s4 \in Seq(s7' \cup {0})
    BY <1>1 DEF IncidentsA_IInv, IncidentsA_TypeInv
  <1> HIDE DEF row
  <1> QED
    BY <1>1, <1>2, <1>3, IncidentsA_ItemMoves

LEMMA IncidentsA_SweepStep ==
    ASSUME IncidentsA_IInv, NEW now \in 0 .. s1, NEW locked,
           IncidentsA!SweepDueOnce(now, locked)
    PROVE  IncidentsA_IInv'
  <1> DEFINE row(i) == [item |-> i, version |-> s5[i].version,
                        due |-> s5[i].due, at |-> s1]
             chosen == {i \in IncidentsA!DueActionItems(now, locked) : ~IncidentsA!Reminded(i)}
  <1>1. /\ s6' = s6 \cup {row(i) : i \in chosen}
        /\ UNCHANGED <<s1, s2, s3, s4, s5, s7>>
    BY DEF IncidentsA!SweepDueOnce
  <1>2. /\ s1 \in Nat
        /\ \A i \in DOMAIN s5 : s5[i].due \in Nat /\ s5[i].version \in Nat
    BY IncidentsA_ScheduleRows
       DEF IncidentsA_IInv, IncidentsA_TypeInv, IncidentsA_Schedules
  <1>3. \A i \in chosen : i \in DOMAIN s5 /\ s5[i].due <= s1 /\ ~IncidentsA!Reminded(i)
    BY <1>2 DEF IncidentsA!DueActionItems
  <1> HIDE DEF chosen
  <1>4. \A i \in chosen : row(i) \in IncidentsA_Reminders
    BY <1>2, <1>3 DEF IncidentsA_Reminders
  <1>5. IncidentsA_TypeInv'
    BY <1>1, <1>4 DEF IncidentsA_IInv, IncidentsA_TypeInv, IncidentsA_Reminders
  <1>6. \A r, q \in s6' : r.item = q.item /\ r.version = q.version => r = q
    <2>1. \A r, q \in s6 : r.item = q.item /\ r.version = q.version => r = q
      BY DEF IncidentsA_IInv, IncidentsA!IncidentSound
    <2>2. \A r \in s6, i \in chosen : ~ (r.item = i /\ r.version = s5[i].version)
      BY <1>3 DEF IncidentsA!Reminded
    <2>3. \A i \in chosen : row(i).item = i /\ row(i).version = s5[i].version
      OBVIOUS
    <2>4. \A i, j \in chosen : row(i).item = row(j).item => row(i) = row(j)
      OBVIOUS
    <2> HIDE DEF row
    <2> QED
      BY <1>1, <2>1, <2>2, <2>3, <2>4
  <1>7. \A r \in s6' : /\ r.due <= r.at
                       /\ r.version <= s5[r.item].version
                       /\ r.version = s5[r.item].version => r.due = s5[r.item].due
    <2>1. \A r \in s6 : /\ r.due <= r.at
                        /\ r.version <= s5[r.item].version
                        /\ r.version = s5[r.item].version =>
                               r.due = s5[r.item].due
      BY DEF IncidentsA_IInv, IncidentsA!IncidentSound
    <2>2. \A i \in chosen : LET r == row(i) IN
                               /\ r.due <= r.at
                               /\ r.version <= s5[r.item].version
                               /\ r.version = s5[r.item].version =>
                                      r.due = s5[r.item].due
      BY <1>2, <1>3
    <2> HIDE DEF row
    <2> QED
      BY <1>1, <2>1, <2>2
  <1>8. IncidentsA_RemindersSound'
    BY <1>1, <1>6, <1>7 DEF IncidentsA_RemindersSound
  <1>9. IncidentsA_StagesSound' /\ IncidentsA_EvidenceSound'
    BY <1>1, IncidentsA_Parts
       DEF IncidentsA_IInv, IncidentsA_StagesSound, IncidentsA_EvidenceSound,
           IncidentsA!Status
  <1> QED
    BY <1>5, <1>8, <1>9
       DEF IncidentsA_IInv, IncidentsA!IncidentSound, IncidentsA_StagesSound,
           IncidentsA_EvidenceSound, IncidentsA_RemindersSound

LEMMA IncidentsA_TickStep ==
    ASSUME IncidentsA_IInv, IncidentsA!Tick
    PROVE  IncidentsA_IInv'
  <1>1. /\ s1' = s1 + 1 /\ UNCHANGED <<s2, s3, s4, s5, s6, s7>>
        /\ s1 \in Nat
    BY DEF IncidentsA!Tick, IncidentsA_IInv, IncidentsA_TypeInv
  <1>2. s3' \in Seq(0 .. s1')
    <2>1. s3 \in Seq(0 .. s1)
      BY DEF IncidentsA_IInv, IncidentsA_TypeInv
    <2>2. \A p \in 1 .. Len(s3) : s3[p] \in 0 .. s1'
      BY <1>1, <2>1
    <2> QED
      BY <1>1, <2>1, <2>2
  <1>3. IncidentsA_TypeInv'
    BY <1>1, <1>2 DEF IncidentsA_IInv, IncidentsA_TypeInv, IncidentsA_Reminders
  <1>4. IncidentsA!IncidentSound'
    BY <1>1 DEF IncidentsA_IInv, IncidentsA!IncidentSound, IncidentsA!Status
  <1> QED
    BY <1>3, <1>4 DEF IncidentsA_IInv

LEMMA IncidentsA_NextPreserves ==
    ASSUME IncidentsA_IInv, [IncidentsA!Next]_(IncidentsA!vars)
    PROVE  IncidentsA_IInv'
  <1>1. CASE UNCHANGED IncidentsA!vars
    BY <1>1
       DEF IncidentsA!vars, IncidentsA_IInv, IncidentsA_TypeInv,
           IncidentsA!IncidentSound, IncidentsA_Reminders, IncidentsA!Status
  <1>2. CASE \E u \in IncidentsA!Users, id \in IncidentsAConfig.Requests \cup {0} :
                 \/ \E rootCause \in BOOLEAN : IncidentsA!Transition(u, id, s2.version, rootCause)
                 \/ IncidentsA!AddEvidence(u, id)
                 \/ \E due \in 0 .. IncidentsAConfig.MaxTime :
                        \/ IncidentsA!CreateActionItem(u, id, due)
                        \/ \E i \in DOMAIN s5 : IncidentsA!RescheduleActionItem(u, id, i, due)
    BY <1>2, IncidentsA_TransitionStep, IncidentsA_EvidenceStep,
       IncidentsA_CreateItemStep, IncidentsA_RescheduleStep
  <1> QED
    BY <1>1, <1>2, IncidentsA_AssignStep, IncidentsA_SetStatusStep, IncidentsA_SweepStep,
       IncidentsA_TickStep DEF IncidentsA!Next

LEMMA IncidentsA_Invariance ==
    /\ Init => (service = "IncidentsA" => IncidentsA_IInv)
    /\ (service = "IncidentsA" => IncidentsA_IInv) /\ [Next]_vars
           => (service = "IncidentsA" => IncidentsA_IInv)'
  <1>1. Init => (service = "IncidentsA" => IncidentsA_IInv)
    BY IncidentsA_InitInv DEF Init
  <1>2. ASSUME [Next]_vars, service' = "IncidentsA"
        PROVE  service = "IncidentsA" /\ [IncidentsA!Next]_(IncidentsA!vars)
    BY <1>2 DEF Next, vars, IncidentsA!vars
  <1> QED
    BY <1>1, <1>2, IncidentsA_NextPreserves

LEMMA IncidentsB_Counts == \A S : IncidentsB!Cardinality(S) = Cardinality(S)
  BY DEF IncidentsB!Cardinality, Cardinality

IncidentsB_Names == {"detected", "triaged", "contained", "eradicated", "recovered", "postmortem",
          "closed"}
IncidentsB_Moves == [from : IncidentsB_Names, to : IncidentsB_Names, version : Nat]
IncidentsB_Schedules == [due : Nat, version : Nat, status : {"open", "done", "cancelled"}]
IncidentsB_Notes == [item : Nat, reserved : Nat, version : Nat]

IncidentsB_TypeInv ==
    /\ s1 \in Nat
    /\ s2 = [stage |-> s2.stage, version |-> s2.version,
                   responder |-> s2.responder, texts |-> s2.texts]
    /\ s2.stage \in 1 .. 7
    /\ s3 \in Seq(IncidentsB_Moves)
    /\ s4 \in Seq(s7.answered \cup {0})
    /\ s5 \in Seq(IncidentsB_Schedules)
    /\ s6 = [dispatched |-> s6.dispatched,
                    notifications |-> s6.notifications]
    /\ s6.notifications \in Seq(IncidentsB_Notes)
    /\ IsFiniteSet(s6.dispatched)
    /\ s7 = [answered |-> s7.answered, due |-> s7.due]
    /\ s7.due \in [IncidentsBConfig.Schedulers -> Seq(Nat \X Nat)]

\* What is said of stages, evidence and notifications, one by one
IncidentsB_StagesSound ==
    /\ s2.stage = Len(s3) + 1 /\ s2.version = s2.stage
    /\ \A e \in DOMAIN s3 : /\ s3[e].from = IncidentsB!OrderedStages[e]
                            /\ s3[e].to = IncidentsB!OrderedStages[e + 1]
                            /\ s3[e].version = e + 1
    /\ IncidentsB!Stage = "closed" => s2.texts /\ s5 # <<>>
IncidentsB_EvidenceSound ==
    /\ Len(s4) <= IncidentsBConfig.MaxEvidence
    /\ \A m, n \in DOMAIN s4 : s4[m] = s4[n] => m = n \/ s4[m] = 0
IncidentsB_Sent(sent) ==
    /\ sent.item \in DOMAIN s5
    /\ IncidentsB!Dispatched(sent.item, sent.reserved)
    /\ sent.reserved <= sent.version /\ sent.version <= s5[sent.item].version
    /\ sent.reserved = s5[sent.item].version => s5[sent.item].due <= s1
IncidentsB_NotesSound ==
    /\ Len(s6.notifications) = Cardinality(s6.dispatched)
    /\ \A n \in DOMAIN s6.notifications : IncidentsB_Sent(s6.notifications[n])

\* What a scheduler holds is an item with a version that it had, and if it has
\* it still, it is due.
IncidentsB_Held(x) ==
    /\ x[1] \in DOMAIN s5
    /\ x[2] <= s5[x[1]].version
    /\ x[2] = s5[x[1]].version => s5[x[1]].due <= s1
IncidentsB_HeldSound ==
    \A s \in IncidentsBConfig.Schedulers : \A n \in DOMAIN s7.due[s] : IncidentsB_Held(s7.due[s][n])

IncidentsB_IInv ==
    /\ IncidentsB_TypeInv
    /\ IncidentsB_StagesSound
    /\ IncidentsB_EvidenceSound
    /\ IncidentsB_NotesSound
    /\ IncidentsB_HeldSound

LEMMA IncidentsB_IInvSound == IncidentsB_IInv => IncidentsB!IncidentSound
  BY IncidentsB_Counts
     DEF IncidentsB_IInv, IncidentsB!IncidentSound, IncidentsB_StagesSound,
         IncidentsB_EvidenceSound, IncidentsB_NotesSound, IncidentsB_Sent,
         IncidentsB_HeldSound, IncidentsB_Held

LEMMA IncidentsB_StageNames ==
    /\ IncidentsB!OrderedStages[1] = "detected" /\ IncidentsB!OrderedStages[7] = "closed"
    /\ \A n \in 1 .. 6 : IncidentsB!OrderedStages[n] # "closed"
    /\ \A n \in 1 .. 7 : IncidentsB!OrderedStages[n] \in IncidentsB_Names
  BY DEF IncidentsB!OrderedStages, IncidentsB_Names

LEMMA IncidentsB_InitInv == IncidentsB!Init => IncidentsB_IInv
  <1> SUFFICES ASSUME IncidentsB!Init PROVE IncidentsB_IInv
    OBVIOUS
  <1>1. /\ Len(s3) = 0 /\ DOMAIN s3 = {} /\ Len(s4) = 0 /\ DOMAIN s4 = {}
        /\ s6.notifications = <<>> /\ s6.dispatched = {}
        /\ s2.stage = 1 /\ s2.version = 1
        /\ s7.due = [s \in IncidentsBConfig.Schedulers |-> <<>>]
    BY DEF IncidentsB!Init
  <1>2. IncidentsB_TypeInv
    <2>1. IsFiniteSet(s6.dispatched)
      BY <1>1, FS_EmptySet
    <2> QED
      BY <2>1 DEF IncidentsB!Init, IncidentsB_TypeInv
  <1>3. IncidentsB!Stage # "closed"
    BY <1>1, IncidentsB_StageNames DEF IncidentsB!Stage
  <1>4. IncidentsB_StagesSound /\ IncidentsB_EvidenceSound
    BY <1>1, <1>3, IncidentsBAssumption
       DEF IncidentsB_StagesSound, IncidentsB_EvidenceSound
  <1>5. IncidentsB_NotesSound
    BY <1>1, FS_EmptySet DEF IncidentsB_NotesSound
  <1>6. IncidentsB_HeldSound
    BY <1>1 DEF IncidentsB_HeldSound
  <1> QED
    BY <1>2, <1>4, <1>5, <1>6 DEF IncidentsB_IInv

LEMMA IncidentsB_ScheduleRows ==
    ASSUME IncidentsB_IInv
    PROVE  /\ s5 \in Seq(IncidentsB_Schedules) /\ Len(s5) \in Nat /\ DOMAIN s5 = 1 .. Len(s5)
           /\ \A i \in DOMAIN s5 : s5[i] \in IncidentsB_Schedules
  <1>1. s5 \in Seq(IncidentsB_Schedules)
    BY DEF IncidentsB_IInv, IncidentsB_TypeInv
  <1> HIDE DEF IncidentsB_Schedules
  <1> QED
    BY <1>1

LEMMA IncidentsB_ExecutesGrows ==
    ASSUME IncidentsB_IInv, NEW id, IncidentsB!Executes(id)
    PROVE  /\ s7'.due = s7.due
           /\ s7' = [answered |-> s7'.answered, due |-> s7'.due]
           /\ id \notin s7.answered /\ id \in s7'.answered \cup {0}
           /\ s4 \in Seq(s7'.answered \cup {0})
  <1> DEFINE known == IF id = 0 THEN s7.answered ELSE s7.answered \cup {id}
  <1>1. s7' = [s7 EXCEPT !.answered = known] /\ id \notin s7.answered
    BY DEF IncidentsB!Executes
  <1>2. s7.answered \subseteq known /\ id \in known \cup {0}
    OBVIOUS
  <1> HIDE DEF known
  <1>3. /\ s7'.due = s7.due /\ s7'.answered = known
        /\ s7' = [answered |-> s7'.answered, due |-> s7'.due]
    BY <1>1 DEF IncidentsB_IInv, IncidentsB_TypeInv
  <1>4. s4 \in Seq(s7.answered \cup {0})
    BY DEF IncidentsB_IInv, IncidentsB_TypeInv
  <1>5. \A n \in DOMAIN s4 : s4[n] \in known \cup {0}
    BY <1>2, <1>4
  <1>6. s4 \in Seq(known \cup {0})
    BY <1>4, <1>5
  <1> QED
    BY <1>1, <1>2, <1>3, <1>6

\* A call that changes nothing but the incident, and that not in its stage
LEMMA IncidentsB_CallEnds ==
    ASSUME IncidentsB_IInv, NEW id, IncidentsB!Executes(id),
           UNCHANGED <<s1, s3, s4, s5, s6>>,
           s2' = [stage |-> s2.stage, version |-> s2.version,
                        responder |-> s2'.responder, texts |-> s2.texts]
    PROVE  IncidentsB_IInv'
  <1>1. s2'.stage = s2.stage /\ s2'.version = s2.version
        /\ s2'.texts = s2.texts
    OBVIOUS
  <1>2. IncidentsB_TypeInv'
    BY <1>1, IncidentsB_ExecutesGrows DEF IncidentsB_IInv, IncidentsB_TypeInv
  <1>3. IncidentsB_StagesSound' /\ IncidentsB_EvidenceSound'
    BY <1>1
       DEF IncidentsB_IInv, IncidentsB_StagesSound, IncidentsB_EvidenceSound,
           IncidentsB!Stage
  <1>4. IncidentsB_NotesSound' /\ IncidentsB_HeldSound'
    BY IncidentsB_ExecutesGrows
       DEF IncidentsB_IInv, IncidentsB_NotesSound, IncidentsB_HeldSound, IncidentsB_Sent,
           IncidentsB_Held, IncidentsB!Dispatched
  <1> QED
    BY <1>2, <1>3, <1>4 DEF IncidentsB_IInv

LEMMA IncidentsB_RefusedStep ==
    ASSUME IncidentsB_IInv, NEW id, IncidentsB!Refused(id)
    PROVE  IncidentsB_IInv'
  BY IncidentsB_CallEnds DEF IncidentsB!Refused, IncidentsB_IInv, IncidentsB_TypeInv

LEMMA IncidentsB_AssignStep ==
    ASSUME IncidentsB_IInv, NEW id, NEW role, IncidentsB!AssignPerson(id, role)
    PROVE  IncidentsB_IInv'
  <1> DEFINE given == s2.responder \/ role = "responder"
  <1>1. /\ IncidentsB!Executes(id) /\ s2' = [s2 EXCEPT !.responder = given]
        /\ UNCHANGED <<s1, s3, s4, s5, s6>>
    BY Zenon DEF IncidentsB!AssignPerson
  <1> HIDE DEF given
  <1>2. s2' = [stage |-> s2.stage, version |-> s2.version,
                     responder |-> s2'.responder, texts |-> s2.texts]
    BY <1>1 DEF IncidentsB_IInv, IncidentsB_TypeInv
  <1> QED
    BY <1>1, <1>2, IncidentsB_CallEnds

LEMMA IncidentsB_EvidenceStep ==
    ASSUME IncidentsB_IInv, NEW id, IncidentsB!AddEvidence(id)
    PROVE  IncidentsB_IInv'
  <1>1. /\ IncidentsB!Executes(id) /\ s4' = Append(s4, id) /\ Len(s4) < IncidentsBConfig.MaxEvidence
        /\ UNCHANGED <<s1, s2, s3, s5, s6>>
    BY DEF IncidentsB!AddEvidence
  <1>2. /\ s4 \in Seq(s7.answered \cup {0}) /\ s4 \in Seq(s7'.answered \cup {0})
        /\ id \notin s7.answered /\ id \in s7'.answered \cup {0}
    BY <1>1, IncidentsB_ExecutesGrows DEF IncidentsB_IInv, IncidentsB_TypeInv
  <1>3. /\ s4' \in Seq(s7'.answered \cup {0}) /\ Len(s4') = Len(s4) + 1
        /\ Len(s4) \in Nat /\ DOMAIN s4 = 1 .. Len(s4)
        /\ DOMAIN s4' = 1 .. Len(s4) + 1
        /\ \A n \in 1 .. Len(s4) : s4'[n] = s4[n]
        /\ s4'[Len(s4) + 1] = id
    BY <1>1, <1>2
  <1>4. \A n \in 1 .. Len(s4) : s4[n] = id => id = 0
    BY <1>2
  <1>5. \A m, n \in DOMAIN s4' : s4'[m] = s4'[n] => m = n \/ s4'[m] = 0
    BY <1>3, <1>4 DEF IncidentsB_IInv, IncidentsB_EvidenceSound
  <1>6. IncidentsB_EvidenceSound'
    BY <1>1, <1>3, <1>5, IncidentsBAssumption DEF IncidentsB_EvidenceSound
  <1>7. IncidentsB_TypeInv'
    BY <1>1, <1>3, IncidentsB_ExecutesGrows DEF IncidentsB_IInv, IncidentsB_TypeInv
  <1>8. IncidentsB_StagesSound'
    BY <1>1 DEF IncidentsB_IInv, IncidentsB_StagesSound, IncidentsB!Stage
  <1>9. IncidentsB_NotesSound' /\ IncidentsB_HeldSound'
    BY <1>1, IncidentsB_ExecutesGrows
       DEF IncidentsB_IInv, IncidentsB_NotesSound, IncidentsB_HeldSound, IncidentsB_Sent,
           IncidentsB_Held, IncidentsB!Dispatched
  <1> QED
    BY <1>6, <1>7, <1>8, <1>9 DEF IncidentsB_IInv

LEMMA IncidentsB_StillOpen ==
    ASSUME IncidentsB_IInv, IncidentsB!Stage # "closed"
    PROVE  /\ s2.stage \in 1 .. 6
           /\ Len(s3) \in Nat /\ s3 \in Seq(IncidentsB_Moves)
           /\ s2.stage = Len(s3) + 1 /\ s2.version = s2.stage
  <1>1. s2.stage # 7
    BY IncidentsB_StageNames DEF IncidentsB!Stage
  <1>2. s2.stage \in 1 .. 7 /\ s3 \in Seq(IncidentsB_Moves)
    BY DEF IncidentsB_IInv, IncidentsB_TypeInv
  <1>3. s2.stage = Len(s3) + 1 /\ s2.version = s2.stage
    BY DEF IncidentsB_IInv, IncidentsB_StagesSound
  <1> HIDE DEF IncidentsB_Moves
  <1>4. Len(s3) \in Nat
    BY <1>2
  <1> QED
    BY <1>1, <1>2, <1>3, <1>4

\* The incident enters its next stage
LEMMA IncidentsB_StageEnters ==
    ASSUME IncidentsB_IInv, NEW id, IncidentsB!Executes(id), IncidentsB!Stage # "closed",
           NEW next, next = s2.stage + 1, NEW more, more = s2.version + 1,
           NEW given,
           s2' = [s2 EXCEPT !.stage = next, !.version = more, !.texts = given],
           NEW row, row = [from |-> IncidentsB!Stage,
           to |-> IncidentsB!OrderedStages[next], version |-> more],
           s3' = Append(s3, row), UNCHANGED <<s1, s4, s5, s6>>,
           IncidentsB!OrderedStages[next] = "closed" => given = TRUE /\ s5 # <<>>
    PROVE  IncidentsB_IInv'
  <1> DEFINE k == Len(s3)
  <1>1. /\ s2.stage \in 1 .. 6 /\ k \in Nat /\ s3 \in Seq(IncidentsB_Moves)
        /\ s2.stage = k + 1 /\ s2.version = s2.stage
    BY IncidentsB_StillOpen
  <1>2. /\ next = k + 2 /\ more = k + 2 /\ next \in 2 .. 7
    BY <1>1
  <1>3. /\ s2'.stage = next /\ s2'.version = more /\ s2'.texts = given
        /\ s2' = [stage |-> s2'.stage, version |-> s2'.version,
                        responder |-> s2'.responder, texts |-> s2'.texts]
    BY DEF IncidentsB_IInv, IncidentsB_TypeInv
  <1>4. row \in IncidentsB_Moves
    <2>1. IncidentsB!Stage \in IncidentsB_Names /\ IncidentsB!OrderedStages[next] \in IncidentsB_Names /\ more \in Nat
      BY <1>1, <1>2, IncidentsB_StageNames DEF IncidentsB!Stage
    <2> QED
      BY <2>1 DEF IncidentsB_Moves
  <1>5. /\ row.from = IncidentsB!OrderedStages[k + 1] /\ row.to = IncidentsB!OrderedStages[k + 2]
        /\ row.version = k + 2
    BY <1>1, <1>2 DEF IncidentsB!Stage
  <1> HIDE DEF IncidentsB_Moves
  <1>6. /\ s3' \in Seq(IncidentsB_Moves) /\ Len(s3') = k + 1
        /\ DOMAIN s3 = 1 .. k /\ DOMAIN s3' = 1 .. k + 1
        /\ \A e \in 1 .. k : s3'[e] = s3[e]
        /\ s3'[k + 1] = row
    BY <1>1, <1>4
  <1>7. IncidentsB_TypeInv'
    BY <1>2, <1>3, <1>6, IncidentsB_ExecutesGrows DEF IncidentsB_IInv, IncidentsB_TypeInv
  <1>8. \A e \in DOMAIN s3' : /\ s3'[e].from = IncidentsB!OrderedStages[e]
                              /\ s3'[e].to = IncidentsB!OrderedStages[e + 1]
                              /\ s3'[e].version = e + 1
    BY <1>1, <1>5, <1>6 DEF IncidentsB_IInv, IncidentsB_StagesSound
  <1>9. IncidentsB!Stage' = IncidentsB!OrderedStages[next]
    BY <1>3 DEF IncidentsB!Stage
  <1>10. IncidentsB_StagesSound'
    BY <1>2, <1>3, <1>6, <1>8, <1>9 DEF IncidentsB_StagesSound
  <1>11. IncidentsB_EvidenceSound'
    BY DEF IncidentsB_IInv, IncidentsB_EvidenceSound
  <1>12. IncidentsB_NotesSound' /\ IncidentsB_HeldSound'
    BY IncidentsB_ExecutesGrows
       DEF IncidentsB_IInv, IncidentsB_NotesSound, IncidentsB_HeldSound, IncidentsB_Sent,
           IncidentsB_Held, IncidentsB!Dispatched
  <1> QED
    BY <1>7, <1>10, <1>11, <1>12 DEF IncidentsB_IInv

LEMMA IncidentsB_TransitionStep ==
    ASSUME IncidentsB_IInv, NEW id, NEW n, NEW texts \in BOOLEAN,
           IncidentsB!Transition(id, n, texts)
    PROVE  IncidentsB_IInv'
  <1> DEFINE next == s2.stage + 1
             more == s2.version + 1
             given == s2.texts \/ IncidentsB!OrderedStages[next] \in {"postmortem", "closed"}
             row == [from |-> IncidentsB!Stage, to |-> IncidentsB!OrderedStages[next], version |-> more]
  <1>1. /\ IncidentsB!Executes(id) /\ IncidentsB!Stage # "closed"
        /\ s2' = [s2 EXCEPT !.stage = next, !.version = more, !.texts = given]
        /\ s3' = Append(s3, row) /\ UNCHANGED <<s1, s4, s5, s6>>
    BY Zenon DEF IncidentsB!Transition
  <1>2. IncidentsB!Gates(IncidentsB!OrderedStages[next], texts)
    BY Zenon DEF IncidentsB!Transition
  <1>3. IncidentsB!OrderedStages[next] = "closed" => given = TRUE /\ s5 # <<>>
    BY <1>2, Zenon DEF IncidentsB!Gates
  <1>4. /\ next = s2.stage + 1 /\ more = s2.version + 1
        /\ row = [from |-> IncidentsB!Stage, to |-> IncidentsB!OrderedStages[next], version |-> more]
    OBVIOUS
  <1> HIDE DEF next, more, given, row
  <1> QED
    BY <1>1, <1>3, <1>4, IncidentsB_StageEnters, Zenon

\* Steps on the action items: one is added, or one changes and its due time only
\* with its version.
LEMMA IncidentsB_ItemsMove ==
    ASSUME IncidentsB_IInv, NEW id, IncidentsB!Executes(id),
           UNCHANGED <<s1, s2, s3, s4, s6>>,
           s5' \in Seq(IncidentsB_Schedules), DOMAIN s5 \subseteq DOMAIN s5', s5' # <<>>,
           \A i \in DOMAIN s5 :
               /\ s5'[i].version >= s5[i].version
               /\ s5'[i].version = s5[i].version => s5'[i].due = s5[i].due
    PROVE  IncidentsB_IInv'
  <1>1. IncidentsB_TypeInv'
    BY IncidentsB_ExecutesGrows DEF IncidentsB_IInv, IncidentsB_TypeInv
  <1>2. \A i \in DOMAIN s5 : s5[i].version \in Nat
    BY IncidentsB_ScheduleRows DEF IncidentsB_Schedules
  <1>3. \A i \in DOMAIN s5' : s5'[i].version \in Nat
    <2>1. s5' \in Seq(IncidentsB_Schedules)
      OBVIOUS
    <2> HIDE DEF IncidentsB_Schedules
    <2>2. \A i \in DOMAIN s5' : s5'[i] \in IncidentsB_Schedules
      BY <2>1
    <2> QED
      BY <2>2 DEF IncidentsB_Schedules
  <1>4. \A i \in DOMAIN s5, v \in Nat :
            v <= s5[i].version =>
                /\ v <= s5'[i].version
                /\ v = s5'[i].version =>
                       v = s5[i].version /\ s5'[i].due = s5[i].due
    BY <1>2, <1>3
  <1>5. \A sent \in IncidentsB_Notes : IncidentsB_Sent(sent) => IncidentsB_Sent(sent)'
    <2> SUFFICES ASSUME NEW sent \in IncidentsB_Notes, IncidentsB_Sent(sent) PROVE IncidentsB_Sent(sent)'
      OBVIOUS
    <2>1. /\ sent.item \in DOMAIN s5 /\ sent.reserved \in Nat /\ sent.version \in Nat
          /\ sent.reserved <= sent.version /\ sent.version <= s5[sent.item].version
          /\ IncidentsB!Dispatched(sent.item, sent.reserved)'
      BY DEF IncidentsB_Sent, IncidentsB_Notes, IncidentsB!Dispatched
    <2>2. sent.reserved <= s5[sent.item].version /\ s5[sent.item].version \in Nat
      BY <1>2, <2>1
    <2>3. sent.reserved = s5'[sent.item].version => s5'[sent.item].due <= s1
      BY <1>4, <2>1, <2>2 DEF IncidentsB_Sent
    <2> QED
      BY <1>4, <2>1, <2>3 DEF IncidentsB_Sent
  <1>6. IncidentsB_NotesSound'
    <2>1. \A n \in DOMAIN s6.notifications : s6.notifications[n] \in IncidentsB_Notes
      <3>1. s6.notifications \in Seq(IncidentsB_Notes)
        BY DEF IncidentsB_IInv, IncidentsB_TypeInv
      <3> HIDE DEF IncidentsB_Notes
      <3> QED
        BY <3>1
    <2> QED
      BY <1>5, <2>1 DEF IncidentsB_IInv, IncidentsB_NotesSound
  <1>7. IncidentsB_HeldSound'
    <2>1. \A x \in Nat \X Nat : IncidentsB_Held(x) => IncidentsB_Held(x)'
      BY <1>4 DEF IncidentsB_Held
    <2>2. \A s \in IncidentsBConfig.Schedulers : \A n \in DOMAIN s7.due[s] : s7.due[s][n] \in Nat \X Nat
      BY DEF IncidentsB_IInv, IncidentsB_TypeInv
    <2> QED
      BY <2>1, <2>2, IncidentsB_ExecutesGrows DEF IncidentsB_IInv, IncidentsB_HeldSound
  <1>8. IncidentsB_StagesSound' /\ IncidentsB_EvidenceSound'
    BY DEF IncidentsB_IInv, IncidentsB_StagesSound, IncidentsB_EvidenceSound,
           IncidentsB!Stage
  <1> QED
    BY <1>1, <1>6, <1>7, <1>8 DEF IncidentsB_IInv

LEMMA IncidentsB_CreateItemStep ==
    ASSUME IncidentsB_IInv, NEW id, NEW due \in 0 .. IncidentsBConfig.MaxTime + 1,
           IncidentsB!CreateActionItem(id, due)
    PROVE  IncidentsB_IInv'
  <1> DEFINE row == [due |-> due, version |-> 1, status |-> "open"]
  <1>1. /\ IncidentsB!Executes(id) /\ s5' = Append(s5, row)
        /\ UNCHANGED <<s1, s2, s3, s4, s6>>
    BY DEF IncidentsB!CreateActionItem
  <1>2. row \in IncidentsB_Schedules
    BY IncidentsBAssumption DEF IncidentsB_Schedules
  <1>3. \A i \in DOMAIN s5 : s5[i].version \in Nat
    BY IncidentsB_ScheduleRows DEF IncidentsB_Schedules
  <1> HIDE DEF row, IncidentsB_Schedules
  <1>4. /\ s5' \in Seq(IncidentsB_Schedules) /\ DOMAIN s5 \subseteq DOMAIN s5' /\ s5' # <<>>
        /\ \A i \in DOMAIN s5 : s5'[i] = s5[i]
    BY <1>1, <1>2, IncidentsB_ScheduleRows
  <1> QED
    BY <1>1, <1>3, <1>4, IncidentsB_ItemsMove

LEMMA IncidentsB_ItemMoves ==
    ASSUME IncidentsB_IInv, NEW id, IncidentsB!Executes(id),
           UNCHANGED <<s1, s2, s3, s4, s6>>,
           NEW i \in DOMAIN s5, NEW row \in IncidentsB_Schedules,
           s5' = [s5 EXCEPT ![i] = row],
           \/ row.version = s5[i].version /\ row.due = s5[i].due
           \/ row.version = s5[i].version + 1
    PROVE  IncidentsB_IInv'
  <1>1. \A j \in DOMAIN s5 : s5[j].version \in Nat
    BY IncidentsB_ScheduleRows DEF IncidentsB_Schedules
  <1> HIDE DEF IncidentsB_Schedules
  <1>2. /\ s5' \in Seq(IncidentsB_Schedules) /\ DOMAIN s5 \subseteq DOMAIN s5' /\ s5' # <<>>
        /\ \A j \in DOMAIN s5 : s5'[j] = IF j = i THEN row ELSE s5[j]
    BY IncidentsB_ScheduleRows
  <1> QED
    BY <1>1, <1>2, IncidentsB_ItemsMove

LEMMA IncidentsB_RescheduleStep ==
    ASSUME IncidentsB_IInv, NEW id, NEW i \in DOMAIN s5,
           NEW due \in 0 .. IncidentsBConfig.MaxTime + 1, NEW n,
           IncidentsB!RescheduleActionItem(id, i, due, n)
    PROVE  IncidentsB_IInv'
  <1> DEFINE next == s5[i].version + 1
             row == [s5[i] EXCEPT !.due = due, !.version = next]
  <1>1. /\ IncidentsB!Executes(id) /\ s5' = [s5 EXCEPT ![i] = row]
        /\ UNCHANGED <<s1, s2, s3, s4, s6>>
    BY IncidentsB_ScheduleRows DEF IncidentsB!RescheduleActionItem
  <1>2. row \in IncidentsB_Schedules /\ row.version = s5[i].version + 1
    <2>1. s5[i] \in IncidentsB_Schedules
      BY IncidentsB_ScheduleRows
    <2>2. due \in Nat
      BY IncidentsBAssumption
    <2>3. next \in Nat /\ next = s5[i].version + 1
      BY <2>1 DEF IncidentsB_Schedules
    <2> HIDE DEF next
    <2> QED
      BY <2>1, <2>2, <2>3 DEF IncidentsB_Schedules
  <1> HIDE DEF row
  <1> QED
    BY <1>1, <1>2, IncidentsB_ItemMoves

LEMMA IncidentsB_SetStatusStep ==
    ASSUME IncidentsB_IInv, NEW id, NEW i \in DOMAIN s5,
           NEW status \in {"open", "done", "cancelled"},
           IncidentsB!UpdateActionItemStatus(id, i, status)
    PROVE  IncidentsB_IInv'
  <1> DEFINE row == [s5[i] EXCEPT !.status = status]
  <1>1. /\ IncidentsB!Executes(id) /\ s5' = [s5 EXCEPT ![i] = row]
        /\ UNCHANGED <<s1, s2, s3, s4, s6>>
    BY DEF IncidentsB!UpdateActionItemStatus
  <1>2. row \in IncidentsB_Schedules /\ row.version = s5[i].version /\ row.due = s5[i].due
    BY IncidentsB_ScheduleRows DEF IncidentsB_Schedules
  <1> HIDE DEF row
  <1> QED
    BY <1>1, <1>2, IncidentsB_ItemMoves

\* A scheduler holds something else, and notifications stay
LEMMA IncidentsB_SchedulerMoves ==
    ASSUME IncidentsB_IInv, NEW s \in IncidentsBConfig.Schedulers,
           NEW queue \in Seq(Nat \X Nat),
           s7' = [s7 EXCEPT !.due[s] = queue],
           UNCHANGED <<s1, s2, s3, s4, s5>>,
           \A n \in DOMAIN queue : IncidentsB_Held(queue[n])
    PROVE  /\ IncidentsB_NotesSound' /\ IncidentsB_TypeInv' => IncidentsB_IInv'
           /\ s6' = s6 => IncidentsB_IInv'
           /\ s7' = [answered |-> s7.answered, due |-> s7'.due]
           /\ s7'.due \in [IncidentsBConfig.Schedulers -> Seq(Nat \X Nat)]
  <1>1. /\ s7 = [answered |-> s7.answered, due |-> s7.due]
        /\ s7.due \in [IncidentsBConfig.Schedulers -> Seq(Nat \X Nat)]
    BY DEF IncidentsB_IInv, IncidentsB_TypeInv
  <1> DEFINE T == Seq(Nat \X Nat)
             due == [s7.due EXCEPT ![s] = queue]
  <1>2. due \in [IncidentsBConfig.Schedulers -> T] /\ \A t \in IncidentsBConfig.Schedulers : due[t] = IF t = s THEN queue ELSE s7.due[t]
    <2> HIDE DEF T
    <2>1. queue \in T /\ s7.due \in [IncidentsBConfig.Schedulers -> T]
      BY <1>1 DEF T
    <2> QED
      BY <2>1
  <1>3. s7' = [s7 EXCEPT !.due = due]
    OBVIOUS
  <1> HIDE DEF due
  <1>4. s7' = [answered |-> s7.answered, due |-> due] /\ s7'.due = due
        /\ s7'.answered = s7.answered
    BY <1>1, <1>3
  <1>5. s7' = [answered |-> s7.answered, due |-> s7'.due]
        /\ s7'.due \in [IncidentsBConfig.Schedulers -> Seq(Nat \X Nat)]
    BY <1>2, <1>4
  <1>6. \A x : IncidentsB_Held(x)' <=> IncidentsB_Held(x)
    BY DEF IncidentsB_Held
  <1>7. IncidentsB_HeldSound'
    BY <1>2, <1>4, <1>6 DEF IncidentsB_IInv, IncidentsB_HeldSound
  <1>8. IncidentsB_StagesSound' /\ IncidentsB_EvidenceSound'
    BY DEF IncidentsB_IInv, IncidentsB_StagesSound, IncidentsB_EvidenceSound,
           IncidentsB!Stage
  <1>9. IncidentsB_NotesSound' /\ IncidentsB_TypeInv' => IncidentsB_IInv'
    BY <1>7, <1>8 DEF IncidentsB_IInv
  <1>10. ASSUME s6' = s6 PROVE IncidentsB_NotesSound' /\ IncidentsB_TypeInv'
    <2>1. IncidentsB_NotesSound'
      BY <1>10
         DEF IncidentsB_IInv, IncidentsB_NotesSound, IncidentsB_Sent,
             IncidentsB!Dispatched
    <2>2. IncidentsB_TypeInv'
      BY <1>4, <1>5, <1>10 DEF IncidentsB_IInv, IncidentsB_TypeInv
    <2> QED
      BY <2>1, <2>2
  <1> QED
    BY <1>5, <1>9, <1>10

LEMMA IncidentsB_ReadStep ==
    ASSUME IncidentsB_IInv, NEW s \in IncidentsBConfig.Schedulers,
           NEW order \in IncidentsB!SetToSeqs(IncidentsB!Due), IncidentsB!Read(s, order)
    PROVE  IncidentsB_IInv'
  <1> DEFINE N == Cardinality(IncidentsB!Due)
             m == IF Len(order) < IncidentsBConfig.Batch THEN Len(order) ELSE IncidentsBConfig.Batch
             queue == [n \in 1 .. m |-> <<order[n], s5[order[n]].version>>]
  <1>1. /\ Len(s5) \in Nat /\ IncidentsB!Due \subseteq 1 .. Len(s5)
        /\ \A i \in DOMAIN s5 : s5[i].due \in Nat /\ s5[i].version \in Nat
    BY IncidentsB_ScheduleRows DEF IncidentsB!Due, IncidentsB_Schedules
  <1>2. N \in Nat
    <2>1. IsFiniteSet(1 .. Len(s5))
      BY <1>1, FS_Interval
    <2>2. IsFiniteSet(IncidentsB!Due)
      BY <1>1, <2>1, FS_Subset
    <2> QED
      BY <2>2, FS_CardinalityType
  <1>3. order \in [1 .. N -> IncidentsB!Due]
    BY IncidentsB_Counts DEF IncidentsB!SetToSeqs
  <1> HIDE DEF N
  <1>4. Len(order) = N
    BY <1>2, <1>3
  <1>5. m \in Nat /\ m <= N
    BY <1>2, <1>4, IncidentsBAssumption
  <1>6. s7' = [s7 EXCEPT !.due[s] = queue] /\ UNCHANGED <<s1, s2, s3, s4, s5, s6>>
    BY DEF IncidentsB!Read
  <1> HIDE DEF m
  <1>7. \A n \in 1 .. m : order[n] \in IncidentsB!Due
    BY <1>2, <1>3, <1>5
  <1>8. \A n \in 1 .. m : queue[n] \in Nat \X Nat /\ IncidentsB_Held(queue[n])
    <2> SUFFICES ASSUME NEW n \in 1 .. m PROVE queue[n] \in Nat \X Nat /\ IncidentsB_Held(queue[n])
      OBVIOUS
    <2>1. /\ order[n] \in DOMAIN s5 /\ order[n] \in Nat
          /\ s5[order[n]].version \in Nat /\ s5[order[n]].due <= s1
      BY <1>1, <1>7 DEF IncidentsB!Due
    <2>2. queue[n] = <<order[n], s5[order[n]].version>>
      OBVIOUS
    <2> QED
      BY <2>1, <2>2 DEF IncidentsB_Held
  <1>9. queue \in Seq(Nat \X Nat) /\ DOMAIN queue = 1 .. m
    <2>1. queue \in [1 .. m -> Nat \X Nat]
      BY <1>8
    <2> HIDE DEF queue
    <2> QED
      BY <1>5, <2>1
  <1> HIDE DEF queue
  <1> QED
    BY <1>6, <1>8, <1>9, IncidentsB_SchedulerMoves

LEMMA IncidentsB_EmptySequence == ASSUME NEW T PROVE <<>> \in Seq(T) /\ DOMAIN <<>> = {}
  OBVIOUS

LEMMA IncidentsB_QueueTurns ==
    ASSUME NEW T, NEW queue \in Seq(T), queue # <<>>
    PROVE  /\ Head(queue) = queue[1] /\ Head(queue) \in T /\ 1 \in DOMAIN queue
           /\ Tail(queue) \in Seq(T)
           /\ \A n \in DOMAIN Tail(queue) :
                  n + 1 \in DOMAIN queue /\ Tail(queue)[n] = queue[n + 1]
  OBVIOUS

LEMMA IncidentsB_RestartStep ==
    ASSUME IncidentsB_IInv, NEW s \in IncidentsBConfig.Schedulers, IncidentsB!Restart(s)
    PROVE  IncidentsB_IInv'
  <1>1. /\ s7' = [s7 EXCEPT !.due[s] = <<>>]
        /\ UNCHANGED <<s1, s2, s3, s4, s5, s6>>
    BY DEF IncidentsB!Restart
  <1>2. PICK queue \in Seq(Nat \X Nat) : queue = <<>> /\ DOMAIN queue = {}
    BY IncidentsB_EmptySequence
  <1> QED
    BY <1>1, <1>2, IncidentsB_SchedulerMoves

\* A version is reserved and its notification written
LEMMA IncidentsB_Reserves ==
    ASSUME IncidentsB_IInv, NEW i \in DOMAIN s5, NEW v \in Nat,
           IncidentsB_Held(<<i, v>>), ~ IncidentsB!Dispatched(i, v),
           NEW note, note = [item |-> i, reserved |-> v, version |-> s5[i].version],
           s6' = [dispatched |-> s6.dispatched \cup {<<i, v>>},
                         notifications |-> Append(s6.notifications, note)],
           UNCHANGED <<s1, s2, s3, s4, s5>>
    PROVE  /\ IncidentsB_NotesSound'
           /\ s6' = [dispatched |-> s6'.dispatched,
                            notifications |-> s6'.notifications]
           /\ s6'.notifications \in Seq(IncidentsB_Notes)
           /\ IsFiniteSet(s6'.dispatched)
  <1> DEFINE d == s6.dispatched
             ns == s6.notifications
             more == Append(ns, note)
  <1>1. /\ s6'.dispatched = d \cup {<<i, v>>} /\ <<i, v>> \notin d
        /\ s6'.notifications = more
        /\ s6' = [dispatched |-> s6'.dispatched,
                         notifications |-> s6'.notifications]
    BY DEF IncidentsB!Dispatched
  <1>2. /\ i \in Nat /\ s5[i].version \in Nat /\ v <= s5[i].version
        /\ v = s5[i].version => s5[i].due <= s1
    BY IncidentsB_ScheduleRows DEF IncidentsB_Held, IncidentsB_Schedules
  <1>3. note \in IncidentsB_Notes /\ note.item = i /\ note.reserved = v /\ note.version = s5[i].version
    BY <1>2 DEF IncidentsB_Notes
  <1>4. ns \in Seq(IncidentsB_Notes) /\ IsFiniteSet(d) /\ Len(ns) = Cardinality(d)
    BY DEF IncidentsB_IInv, IncidentsB_TypeInv, IncidentsB_NotesSound
  <1>5. /\ IsFiniteSet(s6'.dispatched)
        /\ Cardinality(s6'.dispatched) = Cardinality(d) + 1
    BY <1>1, <1>4, FS_AddElement
  <1> HIDE DEF IncidentsB_Notes
  <1>6. /\ more \in Seq(IncidentsB_Notes) /\ Len(more) = Len(ns) + 1 /\ DOMAIN more = 1 .. Len(ns) + 1
        /\ Len(ns) \in Nat /\ DOMAIN ns = 1 .. Len(ns)
        /\ \A n \in 1 .. Len(ns) : more[n] = ns[n]
        /\ more[Len(ns) + 1] = note
    BY <1>3, <1>4
  <1> HIDE DEF more
  <1>7. \A sent : IncidentsB_Sent(sent) => IncidentsB_Sent(sent)'
    BY <1>1 DEF IncidentsB_Sent, IncidentsB!Dispatched
  <1>8. IncidentsB_Sent(note)'
    BY <1>1, <1>2, <1>3 DEF IncidentsB_Sent, IncidentsB!Dispatched
  <1>9. \A n \in DOMAIN more : more[n] = note \/ \E m \in DOMAIN ns : more[n] = ns[m]
    BY <1>6
  <1>10. \A n \in DOMAIN ns : IncidentsB_Sent(ns[n])
    BY DEF IncidentsB_IInv, IncidentsB_NotesSound
  <1>11. \A x : (x = note \/ \E m \in DOMAIN ns : x = ns[m]) => IncidentsB_Sent(x)'
    BY <1>7, <1>8, <1>10
  <1>12. IncidentsB_NotesSound'
    BY <1>1, <1>4, <1>5, <1>6, <1>9, <1>11 DEF IncidentsB_NotesSound
  <1> QED
    BY <1>1, <1>5, <1>6, <1>12

LEMMA IncidentsB_DispatchStep ==
    ASSUME IncidentsB_IInv, NEW s \in IncidentsBConfig.Schedulers,
           IncidentsB!DispatchNext(s)
    PROVE  IncidentsB_IInv'
  <1>1. /\ s7.due[s] # <<>> /\ s7.due[s] \in Seq(Nat \X Nat)
        /\ s6' = IncidentsB!Dispatch(Head(s7.due[s])[1], Head(s7.due[s])[2])
        /\ s7' = [s7 EXCEPT !.due[s] = Tail(s7.due[s])]
        /\ UNCHANGED <<s1, s2, s3, s4, s5>>
    BY DEF IncidentsB!DispatchNext, IncidentsB_IInv, IncidentsB_TypeInv
  <1>2. /\ Head(s7.due[s]) = s7.due[s][1] /\ Head(s7.due[s]) \in Nat \X Nat
        /\ 1 \in DOMAIN s7.due[s] /\ Tail(s7.due[s]) \in Seq(Nat \X Nat)
        /\ \A n \in DOMAIN Tail(s7.due[s]) :
               /\ n + 1 \in DOMAIN s7.due[s]
               /\ Tail(s7.due[s])[n] = s7.due[s][n + 1]
    BY <1>1, IncidentsB_QueueTurns
  <1>3. PICK i \in Nat, v \in Nat : Head(s7.due[s]) = <<i, v>>
    BY <1>2
  <1>10. PICK rest \in Seq(Nat \X Nat) : rest = Tail(s7.due[s])
    BY <1>2, Zenon
  <1>4. /\ <<i, v>> = s7.due[s][1] /\ 1 \in DOMAIN s7.due[s]
        /\ \A n \in DOMAIN rest : n + 1 \in DOMAIN s7.due[s] /\ rest[n] = s7.due[s][n + 1]
    BY <1>2, <1>3, <1>10, Zenon
  <1>11. /\ s6' = IncidentsB!Dispatch(i, v)
        /\ s7' = [s7 EXCEPT !.due[s] = rest]
    <2>1. <<i, v>>[1] = i /\ <<i, v>>[2] = v
      OBVIOUS
    <2> QED
      BY <1>1, <1>3, <1>10, <2>1, Zenon
  <1>5. IncidentsB_Held(<<i, v>>) /\ \A n \in DOMAIN rest : IncidentsB_Held(rest[n])
    BY <1>4 DEF IncidentsB_IInv, IncidentsB_HeldSound
  <1>6. i \in DOMAIN s5
    BY <1>5 DEF IncidentsB_Held
  <1>7. /\ IncidentsB_NotesSound' /\ IncidentsB_TypeInv' => IncidentsB_IInv'
        /\ s6' = s6 => IncidentsB_IInv'
        /\ s7' = [answered |-> s7.answered, due |-> s7'.due]
        /\ s7'.due \in [IncidentsBConfig.Schedulers -> Seq(Nat \X Nat)]
    BY <1>1, <1>11, <1>5, IncidentsB_SchedulerMoves, Zenon
  <1>8. CASE IncidentsB!Dispatched(i, v)
    BY <1>11, <1>7, <1>8, Zenon DEF IncidentsB!Dispatch
  <1>9. CASE ~ IncidentsB!Dispatched(i, v)
    <2>1. PICK note : note = [item |-> i, reserved |-> v, version |-> s5[i].version]
      OBVIOUS
    <2>2. s6' = [dispatched |-> s6.dispatched \cup {<<i, v>>},
                        notifications |-> Append(s6.notifications, note)]
      BY <1>11, <1>9, <2>1, Zenon DEF IncidentsB!Dispatch
    <2>3. /\ IncidentsB_NotesSound'
          /\ s6' = [dispatched |-> s6'.dispatched,
                           notifications |-> s6'.notifications]
          /\ s6'.notifications \in Seq(IncidentsB_Notes)
          /\ IsFiniteSet(s6'.dispatched)
      BY <1>1, <1>5, <1>6, <1>9, <2>1, <2>2, IncidentsB_Reserves, Zenon
    <2>4. s7'.answered = s7.answered
      BY <1>7
    <2>5. IncidentsB_TypeInv'
      <3>1. UNCHANGED <<s1, s2, s3, s4, s5>>
        BY <1>1, Zenon
      <3> QED
        BY <1>7, <2>3, <2>4, <3>1 DEF IncidentsB_IInv, IncidentsB_TypeInv
    <2> QED
      BY <1>7, <2>3, <2>5
  <1> QED
    BY <1>8, <1>9

LEMMA IncidentsB_TickStep ==
    ASSUME IncidentsB_IInv, IncidentsB!Tick
    PROVE  IncidentsB_IInv'
  <1>1. /\ s1' = s1 + 1 /\ s1 \in Nat
        /\ UNCHANGED <<s2, s3, s4, s5, s6, s7>>
    BY DEF IncidentsB!Tick, IncidentsB_IInv, IncidentsB_TypeInv
  <1>2. IncidentsB_TypeInv'
    BY <1>1 DEF IncidentsB_IInv, IncidentsB_TypeInv
  <1>3. \A i \in DOMAIN s5 : s5[i].due \in Nat
    BY IncidentsB_ScheduleRows DEF IncidentsB_Schedules
  <1>4. \A i \in DOMAIN s5 : s5[i].due <= s1 => s5[i].due <= s1'
    BY <1>1, <1>3
  <1>5. IncidentsB_NotesSound' /\ IncidentsB_HeldSound'
    BY <1>1, <1>4
       DEF IncidentsB_IInv, IncidentsB_NotesSound, IncidentsB_HeldSound, IncidentsB_Sent,
           IncidentsB_Held, IncidentsB!Dispatched
  <1>6. IncidentsB_StagesSound' /\ IncidentsB_EvidenceSound'
    BY <1>1
       DEF IncidentsB_IInv, IncidentsB_StagesSound, IncidentsB_EvidenceSound,
           IncidentsB!Stage
  <1> QED
    BY <1>2, <1>5, <1>6 DEF IncidentsB_IInv

LEMMA IncidentsB_NextPreserves ==
    ASSUME IncidentsB_IInv, [IncidentsB!Next]_(IncidentsB!vars)
    PROVE  IncidentsB_IInv'
  <1>1. CASE UNCHANGED IncidentsB!vars
    BY <1>1
       DEF IncidentsB!vars, IncidentsB_IInv, IncidentsB_TypeInv, IncidentsB_StagesSound,
           IncidentsB_EvidenceSound, IncidentsB_NotesSound, IncidentsB_HeldSound,
           IncidentsB_Sent, IncidentsB_Held, IncidentsB!Dispatched, IncidentsB!Stage
  <1>2. CASE \E id \in IncidentsBConfig.Requests \cup {0} :
                 \/ IncidentsB!Refused(id) \/ IncidentsB!AddEvidence(id)
                 \/ \E role \in {"analyst", "responder"} : IncidentsB!AssignPerson(id, role)
                 \/ \E texts \in BOOLEAN : IncidentsB!Transition(id, s2.version, texts)
                 \/ \E due \in 0 .. IncidentsBConfig.MaxTime + 1 :
                        \/ IncidentsB!CreateActionItem(id, due)
                        \/ \E i \in DOMAIN s5 :
                               IncidentsB!RescheduleActionItem(id, i, due, s5[i].version)
                 \/ \E i \in DOMAIN s5, status \in {"open", "done", "cancelled"} :
                        IncidentsB!UpdateActionItemStatus(id, i, status)
    BY <1>2, IncidentsB_RefusedStep, IncidentsB_EvidenceStep, IncidentsB_AssignStep,
       IncidentsB_TransitionStep, IncidentsB_CreateItemStep, IncidentsB_RescheduleStep,
       IncidentsB_SetStatusStep
  <1>3. CASE \E s \in IncidentsBConfig.Schedulers : \/ \E order \in IncidentsB!SetToSeqs(IncidentsB!Due) : IncidentsB!Read(s, order)
                                                    \/ IncidentsB!DispatchNext(s) \/ IncidentsB!Restart(s)
    BY <1>3, IncidentsB_ReadStep, IncidentsB_DispatchStep, IncidentsB_RestartStep
  <1> QED
    BY <1>1, <1>2, <1>3, IncidentsB_TickStep DEF IncidentsB!Next

LEMMA IncidentsB_Invariance ==
    /\ Init => (service = "IncidentsB" => IncidentsB_IInv)
    /\ (service = "IncidentsB" => IncidentsB_IInv) /\ [Next]_vars
           => (service = "IncidentsB" => IncidentsB_IInv)'
  <1>1. Init => (service = "IncidentsB" => IncidentsB_IInv)
    BY IncidentsB_InitInv DEF Init
  <1>2. ASSUME [Next]_vars, service' = "IncidentsB"
        PROVE  service = "IncidentsB" /\ [IncidentsB!Next]_(IncidentsB!vars)
    BY <1>2 DEF Next, vars, IncidentsB!vars
  <1> QED
    BY <1>1, <1>2, IncidentsB_NextPreserves

\* An approval is of the newest revision, with every reviewer done, and that has
\* its file; stages and phases of an incident move together, a request id has one
\* effect, and a reminder is of a schedule that was due (text15/a service.go;
\* text15/b uploads.go, reviews.go; text18/a transitions.go, actions.go; text18/b
\* incidents.go, scheduler.go).
THEOREM CasesAreSound == Spec => []CasesSound
  <1> DEFINE Inv == /\ service = "ReviewA" => ReviewA_IInv
                    /\ service = "ReviewB" => ReviewB_IInv
                    /\ service = "IncidentsA" => IncidentsA_IInv
                    /\ service = "IncidentsB" => IncidentsB_IInv
  <1>1. Inv => CasesSound
    BY IncidentsB_IInvSound DEF CasesSound, ReviewA_IInv, ReviewB_IInv, IncidentsA_IInv
  <1>2. Init => Inv
    BY ReviewA_Invariance, ReviewB_Invariance, IncidentsA_Invariance,
       IncidentsB_Invariance
  <1>3. Inv /\ [Next]_vars => Inv'
    BY ReviewA_Invariance, ReviewB_Invariance, IncidentsA_Invariance,
       IncidentsB_Invariance
  <1> HIDE DEF Inv
  <1> QED
    BY <1>1, <1>2, <1>3, PTL DEF Spec

-----------------------------------------------------------------------------
(* Training (text4) *)

LEMMA SeatsA_Invariance ==
    /\ Init => (service = "SeatsA" => SeatsA_IInv)
    /\ (service = "SeatsA" => SeatsA_IInv) /\ [Next]_vars => (service = "SeatsA" => SeatsA_IInv)'
  <1>1. Init => (service = "SeatsA" => SeatsA_IInv)
    BY SeatsA_InitInv DEF Init
  <1>2. ASSUME [Next]_vars, service' = "SeatsA"
        PROVE  service = "SeatsA" /\ [SeatsA!Next]_(SeatsA!vars)
    BY <1>2 DEF Next, vars, SeatsA!vars
  <1> QED
    BY <1>1, <1>2, SeatsA_NextPreserves

LEMMA SeatsB_Invariance ==
    /\ Init => (service = "SeatsB" => SeatsB_IInv)
    /\ (service = "SeatsB" => SeatsB_IInv) /\ [Next]_vars => (service = "SeatsB" => SeatsB_IInv)'
  <1>1. Init => (service = "SeatsB" => SeatsB_IInv)
    BY SeatsB_InitInv DEF Init
  <1>2. ASSUME [Next]_vars, service' = "SeatsB"
        PROVE  service = "SeatsB" /\ [SeatsB!Next]_(SeatsB!vars)
    BY <1>2 DEF Next, vars, SeatsB!vars
  <1> QED
    BY <1>1, <1>2, SeatsB_NextPreserves

LEMMA ProgressB_Invariance ==
    /\ Init => (service = "ProgressB" => ProgressB_IInv)
    /\ (service = "ProgressB" => ProgressB_IInv) /\ [Next]_vars => (service = "ProgressB" => ProgressB_IInv)'
  <1>1. Init => (service = "ProgressB" => ProgressB_IInv)
    BY ProgressB_InitInv DEF Init
  <1>2. ASSUME [Next]_vars, service' = "ProgressB"
        PROVE  service = "ProgressB" /\ [ProgressB!Next]_(ProgressB!vars)
    BY <1>2 DEF Next, vars, ProgressB!vars
  <1> QED
    BY <1>1, <1>2, ProgressB_NextPreserves

LEMMA VersionsB_Invariance ==
    /\ Init => (service = "VersionsB" => VersionsB_IInv)
    /\ (service = "VersionsB" => VersionsB_IInv) /\ [Next]_vars => (service = "VersionsB" => VersionsB_IInv)'
  <1>1. Init => (service = "VersionsB" => VersionsB_IInv)
    BY VersionsB_InitInv DEF Init
  <1>2. ASSUME [Next]_vars, service' = "VersionsB"
        PROVE  service = "VersionsB" /\ [VersionsB!Next]_(VersionsB!vars)
    BY <1>2 DEF Next, vars, VersionsB!vars
  <1> QED
    BY <1>1, <1>2, VersionsB_NextPreserves

\* Seats are within the capacity and their holders' own, the queue has places of
\* its own, and a certificate is of passed steps and of a confirmed seat; a
\* published version keeps its steps (text4/a enrollments.py, progress.py; text4/b
\* enrollment_service.py, progress_service.py, versions_service.py).
THEOREM TrainingIsSound == Spec => []TrainingSound
  <1> DEFINE Inv == /\ service = "SeatsA" => SeatsA_IInv
                    /\ service = "SeatsB" => SeatsB_IInv
                    /\ service = "ProgressB" => ProgressB_IInv
                    /\ service = "VersionsB" => VersionsB_IInv
  <1>1. Inv => TrainingSound
    BY SeatsA_Sound, SeatsB_Sound, VersionsB_Sound DEF TrainingSound, ProgressB_IInv
  <1>2. Init => Inv
    BY SeatsA_Invariance, SeatsB_Invariance, ProgressB_Invariance, VersionsB_Invariance
  <1>3. Inv /\ [Next]_vars => Inv'
    BY SeatsA_Invariance, SeatsB_Invariance, ProgressB_Invariance, VersionsB_Invariance
  <1> HIDE DEF Inv
  <1> QED
    BY <1>1, <1>2, <1>3, PTL DEF Spec
=============================================================================
