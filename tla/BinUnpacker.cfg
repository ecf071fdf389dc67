SPECIFICATION Spec
CONSTANTS
    HeaderLen = 3
    BuffLen = 7
    MaxMsgLen = 10
    Slack = 1
    Byte = 3
    BodyLens = {0, 2, 5, 9, 10}
    MaxPack = 4
    MaxConn = 2
INVARIANT TypeOK
INVARIANT StreamConserved
PROPERTY HeldUntilNextRead
