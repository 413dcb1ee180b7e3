SPECIFICATION CooperativeSpec
CONSTANTS
    MaxTasks = 5
    XT = {x1, x2}
    NULL = NULL
    NotRun = NotRun
    TickMod = 2
INVARIANTS
    RingOrder
    OneRunning
    CpuOnCurrent
    ExitNeverReturns
    ForkRunsItsToken
PROPERTIES
    NoOvertaking
    ReadyRuns
