SPECIFICATION Spec
CONSTANTS
    Callers = {c1, c2}
    Beater = hb
    MaxId = 3
    Byte = 2
    MaxReq = 3
INVARIANT TypeOK
INVARIANT NoDanglingSemaphore
INVARIANT OutputBearsOwnSession
INVARIANT DistinctInWindow
INVARIANT LostOnlyWhenShared
SYMMETRY CallerSymmetry
