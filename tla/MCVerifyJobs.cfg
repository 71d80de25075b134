CONSTANTS
    e1 = e1
    w1 = w1
    w2 = w2
    r1 = r1
    r2 = r2
    main = main
    Jobs = {1, 2}
    Evidence = {e1}
    EvidenceOf <- MCEvidenceOf
    ChunkCount = 2
    Workers = {w1, w2}
    Requests = {r1, r2}
    Starter = main
    QueueCapacity = 1
    MaxUpsets = 1
SPECIFICATION Spec
SYMMETRY MCSymmetry
INVARIANTS
    TypeOK
    OneRunner
    VerdictMatchesRow
    VerifiedIsWhole
    WaitingIsHeld
    NoFalseAlarm
    ChangeIsNoticed
    MarkIsHeld
PROPERTIES
    JobsAreJudged
