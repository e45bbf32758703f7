SPECIFICATION Spec
CONSTANTS
    d1 = d1
    d2 = d2
    f1 = f1
    f2 = f2
    n1 = n1
    n2 = n2
    Device = {d1, d2}
    File = {f1, f2}
    Origin <- EachItsOwn
    Name = {n1, n2}
    Fresh = {}
    MaxChanges = 2
    MaxActions = 1
    MaxLosses = 0
    MaxAttempts = 1
    NoName = NoName
    Client = Client
INVARIANT ActionsAreAuthoritative
CHECK_DEADLOCK FALSE
