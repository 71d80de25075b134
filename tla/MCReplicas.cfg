CONSTANTS
    Versions = {1}
    Nodes = {"s", "a", "e"}
    Users = {"u1", "u2"}
    Submitters = {"u1"}
    Contexts = {"small"}
    Definition <- MCShort
    Instances = {1, 2}
    Slots = {1, 2}
    Sessions = {s1}
    Workers = {w1, w2}
    RequestIds = {1, 2, 3}
    BatchLimit = 2
    MaxRounds = 2
    MaxFaults = 1
SPECIFICATION FairSpec
PROPERTIES
    EscalationSettles
CHECK_DEADLOCK FALSE
