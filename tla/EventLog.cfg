SPECIFICATION LiveSpec
CONSTANTS
    Event = {e1, e2}
    Writer = {w1, w2, w3}
    Reader = {r1}
    MaxEvents = 4
    Page = 2
    NoEvent = NoEvent
INVARIANT CollisionIsAcrossLocks
PROPERTIES ImplementsLog EventsArrive
CHECK_DEADLOCK FALSE
