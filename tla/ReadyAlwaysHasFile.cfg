SPECIFICATION StoreSpec
CONSTANTS
    File = {f1, f2, f3}
    Object = {o1}
    Name = {n1}
    Worker = {w1, w2}
    MaxOps = 0
    MaxFaults = 1
SYMMETRY Symmetry
INVARIANTS
    ReadyAlwaysHasFile
CHECK_DEADLOCK FALSE
