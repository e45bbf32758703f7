SPECIFICATION ExecSpec
CONSTANTS
    Device = {d1, d2}
    Agents = {d1}
    Object = {o1}
    Priority = {0}
    MaxTasks = 1
    MaxVersion <- VersionBound
    RetryLimit = 2
    NoDevice = NoDevice
    MaxFaults = 0
    MaxChurn = 0
PROPERTIES
    ConfirmedCancelHolds
