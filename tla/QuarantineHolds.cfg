SPECIFICATION StoreSpec
CONSTANTS
    File = {f1, f2}
    Object = {o1}
    Name = {n1}
    Worker = {w1, w2}
    MaxOps = 1
    MaxFaults = 2
SYMMETRY Symmetry
PROPERTIES
    QuarantineHolds
CHECK_DEADLOCK FALSE
