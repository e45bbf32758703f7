SPECIFICATION Spec
CONSTANTS
    Agent = {a1}
    Phone = {p1}
    Request = {r1, r2}
    MaxSessions = 4
    MaxEvents = 2
    NoDevice = NoDevice
    NoCall = NoCall
INVARIANTS TypeOK OneLivePerFamily LockoutHasCause
PROPERTY DeadFamilyStaysDead
SYMMETRY Symmetry
CHECK_DEADLOCK FALSE
