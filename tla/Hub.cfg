SPECIFICATION LiveSpec
CONSTANTS
    a1 = a1
    a2 = a2
    c1 = c1
    Everyone = Everyone
    Conn = {c1, c2}
    Account <- Accounts
    AccountOf <- Owner
    Publisher = {p1}
    Capacity = 1
    MaxMessages = 3
INVARIANTS NoPanic NoGaps
PROPERTY ConnectionsEnd
CHECK_DEADLOCK FALSE
