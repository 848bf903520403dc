SPECIFICATION UserSpec
CONSTANTS
    MaxTasks = 1
    Sleepers = {1}
    Number = {"SYS_PUTS", "SYS_GET_TICKS"}
INVARIANTS
    NumberArrives
