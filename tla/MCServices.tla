----------------------------- MODULE MCServices -----------------------------
(***************************************************************************)
(* Small instances of the applications that stand alone: those of Services *)
(* and those that are only model-checked, which keep plans, book values,   *)
(* consents and menus and are joined here in the same way. Two instances of *)
(* one module show what one of a feasible size could not.                  *)
(***************************************************************************)
EXTENDS Services

\* Definitions for WorkflowB: a condition before an escalating countersigned
\* approval and an any-of approval that times out; one that replaces it while
\* instances run; one with a node that goes back.
EndNode(outcome) == [type |-> "end", outcome |-> outcome]
Approval(mode, approvers, timeout, to, next, reject) ==
    [type |-> "approval", mode |-> mode, approvers |-> approvers, timeout |-> timeout,
     to |-> to, next |-> next, reject |-> reject]
Good == [start |-> "c", nodes |->
    [c |-> [type |-> "condition", when |-> <<FALSE, TRUE>>, to |-> <<"yes", "a">>,
            default |-> "no"],
     a |-> Approval("all", {1, 2}, "escalate", {3}, "b", {"b"}),
     b |-> Approval("any", {1, 2}, "approve", {}, "yes", {"none"}),
     yes |-> EndNode("approved"), no |-> EndNode("rejected")]]
Other == [start |-> "a", nodes |->
    [a |-> Approval("all", {2, 3}, "reject", {}, "yes", {"none"}),
     yes |-> EndNode("approved")]]
Broken == [start |-> "a", nodes |->
    [a |-> Approval("all", {2, 3}, "never", {}, "b", {"none"}),
     b |-> Approval("any", {1}, "never", {}, "yes", {"a"}),
     yes |-> EndNode("approved")]]
MCSeatsA == [
    Learners |-> 1 .. 3, Diligent |-> {1}, Capacity |-> 1, Steps |-> {1, 2},
    Prerequisites |-> <<{}, {1}>>, Hold |-> 1, Deadline |-> 2, MaxTime |-> 3]
MCSeatsB == [
    Learners |-> 1 .. 3, Capacity |-> 1, Hold |-> 1, Deadline |-> 1,
    MaxTime |-> 2, MaxRows |-> 3]
MCProgressB == [
    Steps |-> {1, 2}, Prerequisites |-> <<{}, {1}>>, Requests |-> {1, 2}]
MCVersionsB == [
    Payloads |-> {<<{}>>, <<{}, {1}>>, <<{2}, {1}>>, <<{1}>>}, MaxSteps |-> 2,
    MaxVersions |-> 2]
MCLog == [
    Requests |-> {1, 2}, People |-> {1, 2}, MaxTime |-> 1, MaxEvents |-> 3,
    Tampering |-> FALSE]
MCChain == [
    Requests |-> {1, 2}, People |-> {1}, MaxTime |-> 1, MaxEvents |-> 2,
    Tampering |-> TRUE]
MCLeaseA == [
    Devices |-> {1, 2}, Points |-> {1, 2}, Hosts |-> <<{1, 2}, {1}>>,
    Capacity |-> <<1, 2>>, Timeout |-> 0, MaxTime |-> 1, MaxGeneration |-> 2]
MCWorkflowB == [
    Definitions |-> {Good, Other, Broken}, MaxVersions |-> 2]
MCDatasetsA == [
    Declared |-> <<"a", "a">>, Requests |-> {1, 2}, MaxVersions |-> 1]
MCReviewA == [
    Reviewers |-> {1, 2}, Items |-> {1}, MaxId |-> 2, MaxVersion |-> 1]
MCReviewB == [
    Reviewers |-> {1, 2}, Items |-> {1}, MaxVersions |-> 2, MaxRow |-> 1,
    MaxFaults |-> 1]
MCIncidentsA == [
    Role |-> <<"responder", "admin">>, Severity |-> "P1", Requests |-> {1},
    MaxEvidence |-> 1, Batch |-> 1, MaxTime |-> 1, MaxItems |-> 1,
    MaxVersion |-> 1]
MCIncidentsB == [
    Severity |-> "P1", Requests |-> {1}, Schedulers |-> {1, 2},
    MaxEvidence |-> 1, Batch |-> 1, MaxTime |-> 1, MaxItems |-> 1,
    MaxVersion |-> 2]
MCJobsA == [
    Contents |-> {<<"x", "y">>, <<"y", "y">>, <<"x">>}, Requests |-> {1},
    MaxStamp |-> 2, MaxRows |-> 3, MaxEvents |-> 2]
MCTwoJobsA == [
    Contents |-> {<<"x", "y">>, <<"y", "y">>}, Requests |-> {1, 2},
    MaxStamp |-> 1, MaxRows |-> 2, MaxEvents |-> 1]
MCNursingA == [
    Plans |-> {1}, Caregivers |-> {1, 2}, Start |-> <<1>>,
    Prerequisite |-> <<0>>, Rest |-> 1, Week |-> 10, Cap |-> 2, Ttl |-> 1,
    MaxTime |-> 1, MaxVersion |-> 1, MaxOffers |-> 2]
MCPlansA == [
    Plans |-> {1, 2}, Caregivers |-> {1}, Start |-> <<1, 2>>,
    Prerequisite |-> <<0, 1>>, Rest |-> 1, Week |-> 10, Cap |-> 2, Ttl |-> 1,
    MaxTime |-> 0, MaxVersion |-> 2, MaxOffers |-> 1]
MCNursingB == [
    Tasks |-> {1}, Workers |-> {1, 2}, Start |-> <<1>>, Moves |-> {2},
    Prerequisite |-> <<{}>>, Rest |-> 1, Week |-> 10, Cap |-> 2, Ttl |-> 1,
    MaxTime |-> 1, MaxRows |-> 2]
MCPlansB == [
    Tasks |-> {1, 2}, Workers |-> {1}, Start |-> <<1, 3>>, Moves |-> {2},
    Prerequisite |-> <<{}, {1}>>, Rest |-> 1, Week |-> 10, Cap |-> 2,
    Ttl |-> 1, MaxTime |-> 0, MaxRows |-> 2]
MCConsentA == [
    Subjects |-> {1}, EventIds |-> {1, 2, 3}, Expiries |-> {0, 1},
    MaxTime |-> 1, MaxVersion |-> 1, MaxPolicies |-> 1, MaxBatch |-> 2]
MCConsentB == [
    Subjects |-> {1}, EventIds |-> {1, 2}, Expiries |-> {0, 1},
    Requests |-> {1, 2}, MaxTime |-> 1, MaxBatch |-> 2]
MCLedgerA == [
    Year |-> <<1, 2>>, Keys |-> {1, 2}, Amounts |-> {1}, BudgetAmount |-> 2,
    MaxEntries |-> 2, MaxEncumbrances |-> 2, MaxBatch |-> 2]
MCLedgerB == [
    Periods |-> {1, 2}, Keys |-> {1}, Clients |-> {1, 2}, Amounts |-> {1},
    BudgetAmount |-> 1, MaxEntries |-> 2, MaxRequests |-> 1, MaxBatch |-> 2]
MCAggregateA == [
    Days |-> {1, 2}, Day |-> <<1, 1, 2>>, Requests |-> {1, 2},
    Batches |-> {<<<<1, 1>>, <<3, 1>>>>, <<<<2, 1>>>>, <<<<1, 2>>>>}]
MCAggregateB == [
    Days |-> {1, 2}, Day |-> <<1, 1, 2>>, Midnight |-> <<1, 3>>,
    Requests |-> {1, 2}, Batches |-> {<<<<1, 1>>>>, <<<<2, 1>>, <<3, 1>>>>}]
MCDepreciationA == [
    Cost |-> 21, Salvage |-> 2, Life |-> 2, Cent |-> 2, Decline |-> 4,
    Lives |-> {2}, Salvages |-> {0, 13}, MaxMonth |-> 2, MaxAdjustments |-> 2]
MCDepreciationB == [
    Cost |-> 10, Salvage |-> 1, Life |-> 2, Periods |-> {1, 2},
    Lives |-> {2, 3}, Costs |-> {10, 4}, Requests |-> {1, 2}]
MCBoardA == [
    Skus |-> {1}, Prices |-> {5}, Limits |-> {0, 1}, Day |-> <<1, 1, 2>>,
    Windows |-> {{}, {[sku |-> 1, price |-> 4, from |-> 2, to |-> 3]}},
    Sales |-> {[id |-> 1, sku |-> 1, qty |-> 1, at |-> 1]}, Requests |-> {1},
    MaxVersion |-> 2]
MCSalesA == [
    Skus |-> {1}, Prices |-> {5}, Limits |-> {0, 2}, Day |-> <<1, 2>>,
    Windows |-> {},
    Sales |-> {[id |-> 1, sku |-> 1, qty |-> 1, at |-> 1], [id |-> 2, sku |-> 1, qty |-> 1, at |-> 1], [id |-> 2, sku |-> 1, qty |-> 2, at |-> 2]},
    Requests |-> {1, 2}, MaxVersion |-> 0]
MCBoardB == [
    Dishes |-> {1, 2}, Prices |-> {5, 6}, Thresholds |-> {1},
    Day |-> <<1, 2>>,
    Drafts |-> {<<[dish |-> 1, price |-> 0]>>, <<[dish |-> 2, price |-> 7], [dish |-> 1, price |-> 0]>>, <<[dish |-> 1, price |-> 0], [dish |-> 1, price |-> 1]>>},
    Windows |-> {{}, {[dish |-> 1, price |-> 4, from |-> 1, to |-> 2], [dish |-> 1, price |-> 3, from |-> 2, to |-> 3]}, {[dish |-> 1, price |-> 4, from |-> 1, to |-> 3], [dish |-> 1, price |-> 3, from |-> 2, to |-> 3]}},
    Sales |-> {}, Requests |-> {1}, MaxVersion |-> 2]
MCSalesB == [
    Dishes |-> {1}, Prices |-> {5}, Thresholds |-> {1, 2}, Day |-> <<1, 2>>,
    Drafts |-> {<<[dish |-> 1, price |-> 0]>>}, Windows |-> {{}},
    Sales |-> {[id |-> 1, dish |-> 1, qty |-> 1, at |-> 1], [id |-> 2, dish |-> 1, qty |-> 1, at |-> 1], [id |-> 2, dish |-> 1, qty |-> 2, at |-> 2]},
    Requests |-> {1, 2}, MaxVersion |-> 1]

-----------------------------------------------------------------------------
NursingA == INSTANCE NursingA WITH
    clock <- s1, db <- s2, held <- s3, overtaken <- s4,
    Plans <- MCNursingA.Plans, Caregivers <- MCNursingA.Caregivers,
    Start <- MCNursingA.Start,
    Prerequisite <- MCNursingA.Prerequisite, Rest <- MCNursingA.Rest,
    Week <- MCNursingA.Week, Cap <- MCNursingA.Cap,
    Ttl <- MCNursingA.Ttl, MaxTime <- MCNursingA.MaxTime,
    MaxVersion <- MCNursingA.MaxVersion,
    MaxOffers <- MCNursingA.MaxOffers

PlansA == INSTANCE NursingA WITH
    clock <- s1, db <- s2, held <- s3, overtaken <- s4,
    Plans <- MCPlansA.Plans, Caregivers <- MCPlansA.Caregivers,
    Start <- MCPlansA.Start, Prerequisite <- MCPlansA.Prerequisite,
    Rest <- MCPlansA.Rest, Week <- MCPlansA.Week,
    Cap <- MCPlansA.Cap, Ttl <- MCPlansA.Ttl,
    MaxTime <- MCPlansA.MaxTime, MaxVersion <- MCPlansA.MaxVersion,
    MaxOffers <- MCPlansA.MaxOffers

NursingB == INSTANCE NursingB WITH
    clock <- s1, db <- s2, held <- s3, overtaken <- s4,
    Tasks <- MCNursingB.Tasks, Workers <- MCNursingB.Workers,
    Start <- MCNursingB.Start, Moves <- MCNursingB.Moves,
    Prerequisite <- MCNursingB.Prerequisite, Rest <- MCNursingB.Rest,
    Week <- MCNursingB.Week, Cap <- MCNursingB.Cap,
    Ttl <- MCNursingB.Ttl, MaxTime <- MCNursingB.MaxTime,
    MaxRows <- MCNursingB.MaxRows

PlansB == INSTANCE NursingB WITH
    clock <- s1, db <- s2, held <- s3, overtaken <- s4,
    Tasks <- MCPlansB.Tasks, Workers <- MCPlansB.Workers,
    Start <- MCPlansB.Start, Moves <- MCPlansB.Moves,
    Prerequisite <- MCPlansB.Prerequisite, Rest <- MCPlansB.Rest,
    Week <- MCPlansB.Week, Cap <- MCPlansB.Cap,
    Ttl <- MCPlansB.Ttl, MaxTime <- MCPlansB.MaxTime,
    MaxRows <- MCPlansB.MaxRows

ConsentA == INSTANCE ConsentA WITH
    clock <- s1, policies <- s2, db <- s3, copies <- s4,
    Subjects <- MCConsentA.Subjects, EventIds <- MCConsentA.EventIds,
    Expiries <- MCConsentA.Expiries, MaxTime <- MCConsentA.MaxTime,
    MaxVersion <- MCConsentA.MaxVersion,
    MaxPolicies <- MCConsentA.MaxPolicies,
    MaxBatch <- MCConsentA.MaxBatch

DepreciationA == INSTANCE DepreciationA WITH
    month <- s1, entries <- s2, segments <- s3, stop <- s4, closes <- s5,
    request <- s6, history <- s7,
    Cost <- MCDepreciationA.Cost, Salvage <- MCDepreciationA.Salvage,
    Life <- MCDepreciationA.Life, Cent <- MCDepreciationA.Cent,
    Decline <- MCDepreciationA.Decline,
    Lives <- MCDepreciationA.Lives,
    Salvages <- MCDepreciationA.Salvages,
    MaxMonth <- MCDepreciationA.MaxMonth,
    MaxAdjustments <- MCDepreciationA.MaxAdjustments

DepreciationB == INSTANCE DepreciationB WITH
    asset <- s1, entries <- s2, period <- s3, request <- s4, history <- s5,
    Cost <- MCDepreciationB.Cost, Salvage <- MCDepreciationB.Salvage,
    Life <- MCDepreciationB.Life, Periods <- MCDepreciationB.Periods,
    Lives <- MCDepreciationB.Lives, Costs <- MCDepreciationB.Costs,
    Requests <- MCDepreciationB.Requests

BoardA == INSTANCE BoardA WITH
    clock <- s1, dishes <- s2, versions <- s3, sales <- s4, request <- s5,
    screen <- s6, history <- s7,
    Skus <- MCBoardA.Skus, Prices <- MCBoardA.Prices,
    Limits <- MCBoardA.Limits, Day <- MCBoardA.Day,
    Windows <- MCBoardA.Windows, Sales <- MCBoardA.Sales,
    Requests <- MCBoardA.Requests, MaxVersion <- MCBoardA.MaxVersion

SalesA == INSTANCE BoardA WITH
    clock <- s1, dishes <- s2, versions <- s3, sales <- s4, request <- s5,
    screen <- s6, history <- s7,
    Skus <- MCSalesA.Skus, Prices <- MCSalesA.Prices,
    Limits <- MCSalesA.Limits, Day <- MCSalesA.Day,
    Windows <- MCSalesA.Windows, Sales <- MCSalesA.Sales,
    Requests <- MCSalesA.Requests, MaxVersion <- MCSalesA.MaxVersion

BoardB == INSTANCE BoardB WITH
    dishes <- s1, draft <- s2, versions <- s3, sales <- s4, request <- s5,
    history <- s6,
    Dishes <- MCBoardB.Dishes, Prices <- MCBoardB.Prices,
    Thresholds <- MCBoardB.Thresholds, Day <- MCBoardB.Day,
    Drafts <- MCBoardB.Drafts, Windows <- MCBoardB.Windows,
    Sales <- MCBoardB.Sales, Requests <- MCBoardB.Requests,
    MaxVersion <- MCBoardB.MaxVersion

SalesB == INSTANCE BoardB WITH
    dishes <- s1, draft <- s2, versions <- s3, sales <- s4, request <- s5,
    history <- s6,
    Dishes <- MCSalesB.Dishes, Prices <- MCSalesB.Prices,
    Thresholds <- MCSalesB.Thresholds, Day <- MCSalesB.Day,
    Drafts <- MCSalesB.Drafts, Windows <- MCSalesB.Windows,
    Sales <- MCSalesB.Sales, Requests <- MCSalesB.Requests,
    MaxVersion <- MCSalesB.MaxVersion

OtherInit ==
    \/ service = "NursingA" /\ NursingA!Init /\ Unused(4)
    \/ service = "PlansA" /\ PlansA!Init /\ Unused(4)
    \/ service = "NursingB" /\ NursingB!Init /\ Unused(4)
    \/ service = "PlansB" /\ PlansB!Init /\ Unused(4)
    \/ service = "ConsentA" /\ ConsentA!Init /\ Unused(4)
    \/ service = "DepreciationA" /\ DepreciationA!Init
    \/ service = "DepreciationB" /\ DepreciationB!Init /\ Unused(5)
    \/ service = "BoardA" /\ BoardA!Init
    \/ service = "SalesA" /\ SalesA!Init
    \/ service = "BoardB" /\ BoardB!Init /\ Unused(6)
    \/ service = "SalesB" /\ SalesB!Init /\ Unused(6)

OtherNext ==
    \/ service = "NursingA" /\ NursingA!Next /\ UNCHANGED <<service, s5, s6, s7>>
    \/ service = "PlansA" /\ PlansA!Next /\ UNCHANGED <<service, s5, s6, s7>>
    \/ service = "NursingB" /\ NursingB!Next /\ UNCHANGED <<service, s5, s6, s7>>
    \/ service = "PlansB" /\ PlansB!Next /\ UNCHANGED <<service, s5, s6, s7>>
    \/ service = "ConsentA" /\ ConsentA!Next /\ UNCHANGED <<service, s5, s6, s7>>
    \/ service = "DepreciationA" /\ DepreciationA!Next /\ UNCHANGED service
    \/ service = "DepreciationB" /\ DepreciationB!Next /\ UNCHANGED <<service, s6, s7>>
    \/ service = "BoardA" /\ BoardA!Next /\ UNCHANGED service
    \/ service = "SalesA" /\ SalesA!Next /\ UNCHANGED service
    \/ service = "BoardB" /\ BoardB!Next /\ UNCHANGED <<service, s7>>
    \/ service = "SalesB" /\ SalesB!Next /\ UNCHANGED <<service, s7>>

AllInit == Init \/ OtherInit
AllNext == Next \/ OtherNext
AllSpec == AllInit /\ [][AllNext]_vars

-----------------------------------------------------------------------------
\* text2, text6/a, text7 and text20: tasks, invitations and assignments agree unless
\* a late request wrote over them; the state of a consent is that of its events,
\* book values agree with the entries, an erased subject or a closed period stays
\* so, and counters and screens agree with sales and menus (text2/a assignment.py,
\* scheduling.py; text2/b scheduling.py; text6/a services.py; text7
\* DepreciationService.java; text20 sales.go, publish.go, screen.go, screens.go).
RecordsSound ==
    /\ service = "NursingA" => NursingA!NursingSound
    /\ service = "PlansA" => PlansA!NursingSound
    /\ service = "NursingB" => NursingB!NursingSound
    /\ service = "PlansB" => PlansB!NursingSound
    /\ service = "BoardA" => BoardA!BoardSound
    /\ service = "SalesA" => SalesA!BoardSound
    /\ service = "BoardB" => BoardB!BoardSound
    /\ service = "SalesB" => SalesB!BoardSound
    /\ service = "ConsentA" => ConsentA!ConsentSound
    /\ service = "DepreciationA" => DepreciationA!DepreciationSound
    /\ service = "DepreciationB" => DepreciationB!DepreciationSound
=============================================================================
