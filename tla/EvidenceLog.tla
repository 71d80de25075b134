---------------------------- MODULE EvidenceLog ----------------------------
(***************************************************************************)
(* What an evidence chain promises: a log that only grows, one event at a  *)
(* time, whose events are numbered and dated in order, and a holder that   *)
(* changes together with the event that hands the evidence over.           *)
(***************************************************************************)
EXTENDS Naturals, Sequences

VARIABLES log, holder

Init == log = <<>> /\ holder = 0

Record ==
    /\ Len(log') = Len(log) + 1
    /\ SubSeq(log', 1, Len(log)) = log
    /\ LET event == log'[Len(log')]
       IN  /\ event.sequence = Len(log')
           /\ log # <<>> => event.at >= log[Len(log)].at
           /\ holder' = IF event.type = "transfer" THEN event.to ELSE holder

Spec == Init /\ [][Record]_<<log, holder>>
=============================================================================
