---------------------------- MODULE MCVerifyJobs ----------------------------
(* Two jobs of one image of two chunks, two workers, two requests.         *)
EXTENDS VerifyJobs, TLC

CONSTANTS e1, w1, w2, r1, r2, main

MCEvidenceOf == [j \in Jobs |-> e1]

\* Workers are interchangeable, and so are requests.
MCSymmetry == Permutations(Workers) \cup Permutations(Requests)
=============================================================================
