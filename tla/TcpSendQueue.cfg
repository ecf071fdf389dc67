SPECIFICATION Spec
CONSTANTS
    Senders = {s1, s2}
    MAX_MSG_NUM = 0
    MaxMsgs = 3
    MaxConns = 2
    MaxClosers = 2
INVARIANT QueueBound
INVARIANT OneWrite
INVARIANT OrderKept
INVARIANT QueuedIsKept
PROPERTY Drains
CHECK_DEADLOCK FALSE
