SPECIFICATION FairExecSpec
CONSTANTS
    Device = {d1, d2}
    Agents = {d1}
    Object = {o1}
    Priority = {0}
    MaxTasks = 1
    MaxVersion <- VersionBound
    RetryLimit = 2
    NoDevice = NoDevice
    MaxFaults = 2
    MaxChurn = 1
INVARIANTS
    ExecTypeOK
    ReplicaIsStored
    StaleReportsRejected
    LocalEndIsReal
PROPERTIES
    TerminalIsFinal TransferEnds
