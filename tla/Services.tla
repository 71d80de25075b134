------------------------------ MODULE Services ------------------------------
(***************************************************************************)
(* Applications that stand alone. They share no state: a behaviour is one  *)
(* of one application, chosen at the start; s1 to s7 are its variables,    *)
(* in the order of its module. The constant XConfig is a record of the     *)
(* constants of X. Training, workflows, summaries, ledgers and consents    *)
(* have their instances and proofs in ApplicationProofs; evidence and jobs *)
(* are instanced with a module of proofs, so that its theorems can be cited. *)
(***************************************************************************)
EXTENDS ApplicationProofs

CONSTANTS
    LogConfig, ChainConfig, LeaseAConfig, DatasetsAConfig,
    ReviewAConfig, ReviewBConfig, IncidentsAConfig, IncidentsBConfig,
    JobsAConfig, TwoJobsAConfig

VARIABLE service

vars == <<service, s1, s2, s3, s4, s5, s6, s7>>

Log == INSTANCE EvidenceChainProofs WITH
    clock <- s1, custodian <- s2, events <- s3, request <- s4, tampered <- s5,
    Requests <- LogConfig.Requests, People <- LogConfig.People,
    MaxTime <- LogConfig.MaxTime, MaxEvents <- LogConfig.MaxEvents,
    Tampering <- LogConfig.Tampering

Chain == INSTANCE EvidenceChainProofs WITH
    clock <- s1, custodian <- s2, events <- s3, request <- s4, tampered <- s5,
    Requests <- ChainConfig.Requests, People <- ChainConfig.People,
    MaxTime <- ChainConfig.MaxTime, MaxEvents <- ChainConfig.MaxEvents,
    Tampering <- ChainConfig.Tampering

LeaseA == INSTANCE LeaseA WITH
    clock <- s1, status <- s2, leases <- s3,
    Devices <- LeaseAConfig.Devices, Points <- LeaseAConfig.Points,
    Hosts <- LeaseAConfig.Hosts, Capacity <- LeaseAConfig.Capacity,
    Timeout <- LeaseAConfig.Timeout, MaxTime <- LeaseAConfig.MaxTime,
    MaxGeneration <- LeaseAConfig.MaxGeneration

DatasetsA == INSTANCE DatasetsA WITH
    status <- s1, chunk <- s2, tmp <- s3, files <- s4, versions <- s5,
    request <- s6, torn <- s7,
    Declared <- DatasetsAConfig.Declared,
    Requests <- DatasetsAConfig.Requests,
    MaxVersions <- DatasetsAConfig.MaxVersions

ReviewA == INSTANCE ReviewA WITH
    job <- s1, revision <- s2, nextId <- s3, approval <- s4, files <- s5,
    Reviewers <- ReviewAConfig.Reviewers, Items <- ReviewAConfig.Items,
    MaxId <- ReviewAConfig.MaxId, MaxVersion <- ReviewAConfig.MaxVersion

ReviewB == INSTANCE ReviewB WITH
    status <- s1, version <- s2, signoff <- s3, files <- s4, removing <- s5,
    doomed <- s6, up <- s7,
    Reviewers <- ReviewBConfig.Reviewers, Items <- ReviewBConfig.Items,
    MaxVersions <- ReviewBConfig.MaxVersions, MaxRow <- ReviewBConfig.MaxRow,
    MaxFaults <- ReviewBConfig.MaxFaults

IncidentsA == INSTANCE IncidentsA WITH
    clock <- s1, incident <- s2, phases <- s3, evidence <- s4, items <- s5,
    reminders <- s6, used <- s7,
    Role <- IncidentsAConfig.Role, Severity <- IncidentsAConfig.Severity,
    Requests <- IncidentsAConfig.Requests,
    MaxEvidence <- IncidentsAConfig.MaxEvidence,
    Batch <- IncidentsAConfig.Batch, MaxTime <- IncidentsAConfig.MaxTime,
    MaxItems <- IncidentsAConfig.MaxItems,
    MaxVersion <- IncidentsAConfig.MaxVersion

IncidentsB == INSTANCE IncidentsB WITH
    clock <- s1, incident <- s2, events <- s3, evidence <- s4, items <- s5,
    reminders <- s6, server <- s7,
    Severity <- IncidentsBConfig.Severity,
    Requests <- IncidentsBConfig.Requests,
    Schedulers <- IncidentsBConfig.Schedulers,
    MaxEvidence <- IncidentsBConfig.MaxEvidence,
    Batch <- IncidentsBConfig.Batch, MaxTime <- IncidentsBConfig.MaxTime,
    MaxItems <- IncidentsBConfig.MaxItems,
    MaxVersion <- IncidentsBConfig.MaxVersion

JobsA == INSTANCE JobsAProofs WITH
    inodes <- s1, evidence <- s2, job <- s3, chunks <- s4, events <- s5,
    request <- s6, history <- s7,
    Contents <- JobsAConfig.Contents, Requests <- JobsAConfig.Requests,
    MaxStamp <- JobsAConfig.MaxStamp, MaxRows <- JobsAConfig.MaxRows,
    MaxEvents <- JobsAConfig.MaxEvents

TwoJobsA == INSTANCE JobsAProofs WITH
    inodes <- s1, evidence <- s2, job <- s3, chunks <- s4, events <- s5,
    request <- s6, history <- s7,
    Contents <- TwoJobsAConfig.Contents, Requests <- TwoJobsAConfig.Requests,
    MaxStamp <- TwoJobsAConfig.MaxStamp, MaxRows <- TwoJobsAConfig.MaxRows,
    MaxEvents <- TwoJobsAConfig.MaxEvents

\* What the constants may be. Person 9 is the one who edits evidence from outside.
ASSUME LogAssumption == LogConfig.Tampering = FALSE /\ 9 \notin LogConfig.People
ASSUME ChainAssumption == 9 \notin ChainConfig.People
ASSUME LeaseAAssumption ==
    /\ LeaseAConfig.Capacity \in [LeaseAConfig.Points -> Nat]
    /\ LeaseAConfig.MaxGeneration \in Nat
ASSUME ReviewAAssumption == IsFiniteSet(ReviewAConfig.Reviewers)
ASSUME IncidentsAAssumption ==
    IncidentsAConfig.MaxEvidence \in Nat /\ IncidentsAConfig.MaxTime \in Nat
ASSUME IncidentsBAssumption ==
    /\ IncidentsBConfig.MaxEvidence \in Nat /\ IncidentsBConfig.MaxTime \in Nat
    /\ IncidentsBConfig.Batch \in Nat
ASSUME JobsAAssumption == JobsA!Parameters /\ TwoJobsA!Parameters

Unused(n) ==
    /\ n < 4 => s4 = 0
    /\ n < 5 => s5 = 0
    /\ n < 6 => s6 = 0
    /\ n < 7 => s7 = 0

Init ==
    \/ service = "SeatsA" /\ SeatsA!Init /\ Unused(4)
    \/ service = "SeatsB" /\ SeatsB!Init /\ Unused(4)
    \/ service = "ProgressB" /\ ProgressB!Init /\ Unused(5)
    \/ service = "VersionsB" /\ VersionsB!Init /\ Unused(3)
    \/ service = "Log" /\ Log!Init /\ Unused(5)
    \/ service = "Chain" /\ Chain!Init /\ Unused(5)
    \/ service = "LeaseA" /\ LeaseA!Init /\ Unused(3)
    \/ service = "WorkflowB" /\ WorkflowB!Init /\ Unused(5)
    \/ service = "AggregateA" /\ AggregateA!Init
    \/ service = "AggregateB" /\ AggregateB!Init /\ Unused(6)
    \/ service = "LedgerA" /\ LedgerA!Init /\ Unused(5)
    \/ service = "LedgerB" /\ LedgerB!Init /\ Unused(6)
    \/ service = "ConsentB" /\ ConsentB!Init /\ Unused(6)
    \/ service = "DatasetsA" /\ DatasetsA!Init
    \/ service = "ReviewA" /\ ReviewA!Init /\ Unused(5)
    \/ service = "ReviewB" /\ ReviewB!Init
    \/ service = "IncidentsA" /\ IncidentsA!Init
    \/ service = "IncidentsB" /\ IncidentsB!Init
    \/ service = "JobsA" /\ JobsA!Init
    \/ service = "TwoJobsA" /\ TwoJobsA!Init

Next ==
    \/ service = "SeatsA" /\ SeatsA!Next /\ UNCHANGED <<service, s5, s6, s7>>
    \/ service = "SeatsB" /\ SeatsB!Next /\ UNCHANGED <<service, s5, s6, s7>>
    \/ service = "ProgressB" /\ ProgressB!Next /\ UNCHANGED <<service, s6, s7>>
    \/ service = "VersionsB" /\ VersionsB!Next /\ UNCHANGED <<service, s4, s5, s6, s7>>
    \/ service = "Log" /\ Log!Next /\ UNCHANGED <<service, s6, s7>>
    \/ service = "Chain" /\ Chain!Next /\ UNCHANGED <<service, s6, s7>>
    \/ service = "LeaseA" /\ LeaseA!Next /\ UNCHANGED <<service, s4, s5, s6, s7>>
    \/ service = "WorkflowB" /\ WorkflowB!Next /\ UNCHANGED <<service, s6, s7>>
    \/ service = "AggregateA" /\ AggregateA!Next /\ UNCHANGED service
    \/ service = "AggregateB" /\ AggregateB!Next /\ UNCHANGED <<service, s7>>
    \/ service = "LedgerA" /\ LedgerA!Next /\ UNCHANGED <<service, s6, s7>>
    \/ service = "LedgerB" /\ LedgerB!Next /\ UNCHANGED <<service, s7>>
    \/ service = "ConsentB" /\ ConsentB!Next /\ UNCHANGED <<service, s7>>
    \/ service = "DatasetsA" /\ DatasetsA!Next /\ UNCHANGED service
    \/ service = "ReviewA" /\ ReviewA!Next /\ UNCHANGED <<service, s6, s7>>
    \/ service = "ReviewB" /\ ReviewB!Next /\ UNCHANGED service
    \/ service = "IncidentsA" /\ IncidentsA!Next /\ UNCHANGED service
    \/ service = "IncidentsB" /\ IncidentsB!Next /\ UNCHANGED service
    \/ service = "JobsA" /\ JobsA!Next /\ UNCHANGED service
    \/ service = "TwoJobsA" /\ TwoJobsA!Next /\ UNCHANGED service

Spec == Init /\ [][Next]_vars

-----------------------------------------------------------------------------
\* text4: seats, queue and certificates agree, and a published version keeps
\* its steps (text4/a enrollments.py, progress.py; text4/b
\* enrollment_service.py, progress_service.py, versions_service.py).
TrainingSound ==
    /\ service = "SeatsA" => SeatsA!SeatsSound /\ SeatsA!CertificateSound
    /\ service = "SeatsB" => SeatsB!SeatsSound
    /\ service = "ProgressB" => ProgressB!CertificateSound
    /\ service = "VersionsB" => VersionsB!VersionsSound

\* text5, text6/b, text10, text16 and text17/a: what Verify answers is true of the stored
\* events, the custodian is the receiver of the last transfer, a verdict is of
\* what the file contained, what is published has its content, a summary counts
\* each snapshot of its day once, budgets agree with their entries, of which a
\* closed period gets no more, and the state of a consent is that of its events,
\* which alternate (text16/b chain.go, chainops.go; text16/a service.go; text17/a
\* datasets.go, files.go; text5/a ingest.go, aggregate.go; text5/b store.go;
\* text10/a journals.py, budgets.py; text10/b posting.py, budget.py; text6/b
\* consent.py, subjects.py).
StoredSound ==
    /\ service = "Log" => Log!VerifySound /\ Log!LastTransfer
    /\ service = "Chain" => Chain!VerifySound /\ Chain!LastTransfer
    /\ service = "DatasetsA" => DatasetsA!FilesSound
    /\ service = "JobsA" => JobsA!JobsSound
    /\ service = "TwoJobsA" => TwoJobsA!JobsSound
    /\ service = "AggregateA" => AggregateA!SummarySound
    /\ service = "AggregateB" => AggregateB!SummarySound
    /\ service = "LedgerA" => LedgerA!LedgerSound
    /\ service = "LedgerB" => LedgerB!LedgerSound
    /\ service = "ConsentB" => ConsentB!ConsentSound

\* text16/b: unless somebody edits the database, EvidenceChain implements the
\* append-only log of EvidenceLog (chain.go, chainops.go).
AppendOnly == INSTANCE EvidenceLog WITH
    log <- IF service = "Log" THEN Log!log ELSE <<>>,
    holder <- IF service = "Log" THEN s2 ELSE 0
ChainIsALog == AppendOnly!Spec

\* text12/a: leases, capacities and the status of the devices agree
\* (lease_service.py).
LeaseSound == service = "LeaseA" => LeaseA!LeaseSound

\* text12/a: no address is leased twice, and no generation given twice: LeaseA
\* implements ExclusiveLease (lease_service.py).
Exclusive == INSTANCE ExclusiveLease WITH
    held <- IF service = "LeaseA" THEN LeaseA!held ELSE {},
    issued <- IF service = "LeaseA" THEN LeaseA!issued ELSE {}
LeasesAreExclusive == Exclusive!Spec

\* text8/b: an instance follows the version it started with, and its open tasks
\* are those of the node it waits in (engine.py, timeouts.py).
WorkflowSound == service = "WorkflowB" => WorkflowB!WorkflowSound

\* text15 and text18: an approval is of the newest revision, which has its file,
\* and an incident's stages, evidence and reminders agree (text15/a service.go;
\* text15/b uploads.go, reviews.go; text18/a transitions.go, actions.go; text18/b
\* incidents.go, scheduler.go).
CasesSound ==
    /\ service = "ReviewA" => ReviewA!ReviewSound
    /\ service = "ReviewB" => ReviewB!ReviewSound
    /\ service = "IncidentsA" => IncidentsA!IncidentSound
    /\ service = "IncidentsB" => IncidentsB!IncidentSound
=============================================================================
