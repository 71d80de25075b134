CONSTANTS
    Versions = {1}
    Nodes = {"s", "a", "b", "c", "e"}
    Users = {"u1", "u2"}
    Submitters = {"u1"}
    Contexts = {"small"}
    Definition <- MCShort
    Instances = {1, 2}
    Slots = {1, 2}
    Sessions = {s1}
    Workers = {w1, w2}
    RequestIds = {1, 2}
    BatchLimit = 2
    MaxRounds = 2
    MaxFaults = 0
SPECIFICATION Spec
INVARIANTS
    EscalatedOnce
CHECK_DEADLOCK FALSE
