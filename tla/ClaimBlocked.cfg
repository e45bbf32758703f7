SPECIFICATION FairExecSpec
CONSTANTS
    Device = {d1, d2}
    Agents = {d1}
    Object = {o1, o2}
    Priority = {0}
    MaxTasks = 2
    MaxVersion <- VersionBound
    RetryLimit = 3
    NoDevice = NoDevice
    MaxFaults = 0
    MaxChurn = 1
PROPERTIES
    ReadyTaskIsServed
