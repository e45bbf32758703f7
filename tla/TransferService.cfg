SPECIFICATION Spec
CONSTANTS
    Device = {d1, d2}
    Object = {o1}
    Priority = {0}
    MaxTasks = 2
    MaxVersion <- VersionBound
    RetryLimit = 2
    NoDevice = NoDevice
SYMMETRY Symmetry
INVARIANTS
    TypeOK
    OneLiveTask
    LeaseMatchesState
PROPERTIES
    VersionFencesRow
    OnlyTheHolderReports
