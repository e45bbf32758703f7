SPECIFICATION StoreSpec
CONSTANTS
    File = {f1, f2}
    Object = {o1}
    Name = {n1}
    Worker = {w1}
    MaxOps = 2
    MaxFaults = 1
SYMMETRY Symmetry
INVARIANTS
    ReportFollowsPurge
CHECK_DEADLOCK FALSE
