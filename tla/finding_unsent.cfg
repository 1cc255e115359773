SPECIFICATION CwSpec
CONSTANTS
    Workers = {w1}
    Instances = {i1}
    MaxDeliveries = 2
    MaxEvents = 3
    MaxOld = 0
INVARIANTS
    UnsentIsDeleted
CHECK_DEADLOCK FALSE
