--------------------------- MODULE MCApprovalFlow ---------------------------
(* Small instances of ApprovalFlow for TLC. *)
EXTENDS ApprovalFlow, TLC

Start(next) == [type |-> "start", next |-> next]
Approval(mode, assignees, targets, next) ==
    [type |-> "approval", mode |-> mode, assignees |-> assignees,
     targets |-> targets, next |-> next]
Condition(when, then, default) ==
    [type |-> "condition", default |-> default,
     branches |-> <<[when |-> when, raises |-> {"bare"}, next |-> then]>>]
End == [type |-> "end"]

(* Two approvals with time-outs, the second only for big contexts: an "all" *)
(* node of two people escalated to one, and an "any" node of two people.    *)
Leave ==
    [start |-> "s",
     nodes |-> [s |-> Start("a"),
                a |-> Approval("all", <<"u1", "u2">>, <<"u2">>, "c"),
                c |-> Condition({"big"}, "b", "e"),
                b |-> Approval("any", <<"u1", "u2">>, <<"u1">>, "e"),
                e |-> End]]

(* Accepted too: start_node is not the node of type "start".                *)
Skewed ==
    [start |-> "b",
     nodes |-> [b |-> Approval("all", <<"u1">>, <<>>, "c"),
                c |-> Condition({"big"}, "s", "a"),
                a |-> Approval("all", <<"u1">>, <<>>, "s"),
                s |-> Start("e"),
                e |-> End]]

(* Not accepted: the approval leads back to itself. *)
Looping ==
    [start |-> "s",
     nodes |-> [s |-> Start("c"),
                a |-> Approval("any", <<"u1">>, <<>>, "c"),
                c |-> Condition({"big"}, "a", "e"),
                e |-> End]]

MCDefinition == <<Leave, Skewed, Looping>>

(* One "all" node with a time-out, for the runs about escalation. *)
Short ==
    [start |-> "s",
     nodes |-> [s |-> Start("a"),
                a |-> Approval("all", <<"u1", "u2">>, <<"u2">>, "e"),
                e |-> End]]
MCShort == <<Short>>

(* Sessions are interchangeable; only runs without liveness use this. *)
SessionSymmetry == Permutations(Sessions)
=============================================================================
