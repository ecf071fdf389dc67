SPECIFICATION Spec
CONSTANTS
    Senders = {s1, s2}
    MAX_MSG_NUM = 1
    MaxMsgs = 4
    MaxConns = 2
    MaxClosers = 2
INVARIANT AcceptedIsQueued
CHECK_DEADLOCK FALSE
