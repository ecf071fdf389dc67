SPECIFICATION Spec
CONSTANTS
    MAX_9528_CHIP_SIZE = 2
    MAX_PWM_CHIP_SIZE = 1
    MAX_SERDES_SIZE = 2
    UTP_REGISTER_NUM = 2
    MAX_MULTI_SIZE = 2
    MAX_UTP_CHIPS = 2
    MAX_IDS = 2
    local_ip = 1
    Calls <- ApiCalls
    Values <- ApiValues
    Sends <- ApiSends
    ErrCodes <- ApiErrCodes
INVARIANT RequestArrivesIntact
INVARIANT AnswerArrivesIntact
INVARIANT BoardAsked
INVARIANT SuccessMeansAnswered
INVARIANT ReportsMeasured
INVARIANT IntervalComplete
INVARIANT FitsArray
INVARIANT OwnBoardOnly
