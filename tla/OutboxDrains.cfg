SPECIFICATION LiveSpec
CONSTANTS
    d1 = d1
    d2 = d2
    f1 = f1
    f2 = f2
    n1 = n1
    n2 = n2
    Device = {d1, d2}
    File = {f1, f2}
    Origin <- EachItsOwn
    Name = {n1}
    Fresh = {}
    MaxChanges = 2
    MaxActions = 1
    MaxLosses = 1
    MaxAttempts = 2
    NoName = NoName
    Client = Client
PROPERTY OutboxDrains
CHECK_DEADLOCK FALSE
