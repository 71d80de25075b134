--------------------------- MODULE MCLeaseControl ---------------------------
(* Two devices of one tenant, two access points of capacity one that draw  *)
(* from one pool of two addresses, and a third of another tenant.          *)
EXTENDS LeaseControl, TLC

CONSTANTS d1, d2, a1, a2, foreign, k, r1, r2, w1

MCCapacity == [a \in AccessPoints |-> 1]
MCPool == [a \in AccessPoints |-> {1, 2}]
MCTenantPoints == [d \in Devices |-> AccessPoints \ {foreign}]

\* Devices are interchangeable, and so are request handlers and sweepers.
MCSymmetry == Permutations(Requests) \cup Permutations(Devices)
=============================================================================
