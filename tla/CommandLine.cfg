SPECIFICATION Spec
CONSTANTS
    Programs = {p1, p2}
    Times = {0, 2}
    Commands = {"otaupgrade", "test1", "test2", "read_cal", "write_asic_reg", "read_asic_reg"}
    Full = 2
    MaxCmds = 3
INVARIANT UpgradeClosed
INVARIANT OwnAnswer
PROPERTY CommandEnds
CHECK_DEADLOCK FALSE
