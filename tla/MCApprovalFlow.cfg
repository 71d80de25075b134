CONSTANTS
    Versions = {1, 2}
    Nodes = {"s", "a", "b", "c", "e"}
    Users = {"u1", "u2"}
    Submitters = {"u1"}
    Contexts = {"small", "big", "bare"}
    Definition <- MCDefinition
    Instances = {1}
    Slots = {1, 2}
    Sessions = {s1, s2}
    Workers = {w1}
    RequestIds = {1, 2, 3, 4}
    BatchLimit = 2
    MaxRounds = 2
    MaxFaults = 1
SYMMETRY SessionSymmetry
SPECIFICATION Spec
INVARIANTS
    TypeOK
    LiveWorkMatchesInstance
    RequestAppliedOnce
    HistoryClosesOnce
PROPERTIES
    LeavesOnlyWhenPassed
    SettledStaysSettled
CHECK_DEADLOCK FALSE
