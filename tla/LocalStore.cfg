SPECIFICATION FairStoreSpec
CONSTANTS
    File = {f1, f2}
    Object = {o1}
    Name = {n1, n2}
    Worker = {w1, w2}
    MaxOps = 1
    MaxFaults = 1
INVARIANTS
    StoreTypeOK
    ActiveNamesUnique
    ReadyHasFile
PROPERTIES
    PurgeFinishes
CHECK_DEADLOCK FALSE
