CONSTANTS
    SeatsAConfig <- MCSeatsA
    SeatsBConfig <- MCSeatsB
    ProgressBConfig <- MCProgressB
    VersionsBConfig <- MCVersionsB
    LogConfig <- MCLog
    ChainConfig <- MCChain
    LeaseAConfig <- MCLeaseA
    WorkflowBConfig <- MCWorkflowB
    AggregateAConfig <- MCAggregateA
    AggregateBConfig <- MCAggregateB
    LedgerAConfig <- MCLedgerA
    LedgerBConfig <- MCLedgerB
    ConsentBConfig <- MCConsentB
    DatasetsAConfig <- MCDatasetsA
    ReviewAConfig <- MCReviewA
    ReviewBConfig <- MCReviewB
    IncidentsAConfig <- MCIncidentsA
    IncidentsBConfig <- MCIncidentsB
    JobsAConfig <- MCJobsA
    TwoJobsAConfig <- MCTwoJobsA
SPECIFICATION AllSpec
INVARIANTS
    
    
    LeaseSound
    WorkflowSound
    
    
PROPERTIES
    ChainIsALog
    LeasesAreExclusive
CHECK_DEADLOCK FALSE
