SPECIFICATION Spec
CONSTANTS
    Callers = {c1, c2}
    Beater = hb
    MaxId = 4
    Byte = 2
    MaxReq = 2
INVARIANT SessionsNotRepeated
