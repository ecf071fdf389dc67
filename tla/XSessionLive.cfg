SPECIFICATION FairSpec
CONSTANTS
    Callers = {c1, c2}
    Beater = hb
    MaxId = 3
    Byte = 2
    MaxReq = 2
PROPERTY EveryCallReturns
PROPERTY ImplementsSyncCall
