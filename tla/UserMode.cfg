SPECIFICATION UserFairSpec
CONSTANTS
    MaxTasks = 3
    Sleepers = {1, 3}
    Number = {"SYS_PUTS", "SYS_GET_TICKS"}
INVARIANTS
    OwnStack
    RegsKept
    ArgumentsArrive
    ProgramKeepsRegs
PROPERTIES
    TakesTurns
    KeyHandled
    EveryTaskRuns
    CallReturns
    TimerGoesOn
