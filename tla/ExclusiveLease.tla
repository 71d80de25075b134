--------------------------- MODULE ExclusiveLease ---------------------------
(***************************************************************************)
(* What a lease service promises, whatever its locks and its database:     *)
(* an address that is held is granted to no one else before it is          *)
(* released, a device holds one address, and each grant to a device has a  *)
(* generation of its own, above all that it was given before.              *)
(***************************************************************************)
EXTENDS Naturals

VARIABLES
    held,       \* the grants in force: who, where, of which generation
    issued      \* every generation that a device was ever given

vars == <<held, issued>>

Init == held = {} /\ issued = {}

Release == held' \subseteq held /\ UNCHANGED issued

\* What the device held before ends with the new grant h.
Grant(h) ==
    /\ \A other \in held : other.place # h.place
    /\ \A i \in issued : i.holder = h.holder => i.generation < h.generation
    /\ held' = {other \in held : other.holder # h.holder} \cup {h}
    /\ issued' = issued \cup {[holder |-> h.holder, generation |-> h.generation]}

Next == Release \/ \E h \in held' : Grant(h)

Spec == Init /\ [][Next]_vars
=============================================================================
