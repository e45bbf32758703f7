SPECIFICATION Spec
CONSTANTS
    p1 = p1
    s1 = s1
    Nobody = Nobody
    Process = {p1, p2, p3, p4}
    Ships <- ShipsOf
    Server = {s1, s2}
    Expected <- ExpectedBy
INVARIANTS AppliedOnceInOrder NeverDirty ReadyHasSchema
