SPECIFICATION Spec
CONSTANTS
    Writers = {w1, w2}
    MaxMsgs = 2
    capacity_ = 0
    m_max_log_num = 0
    MaxRuns = 2
INVARIANT NothingVanishes
PROPERTY QueueDrains
CHECK_DEADLOCK FALSE
