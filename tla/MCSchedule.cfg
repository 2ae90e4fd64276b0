CONSTANTS
    i1 = i1
    c1 = c1
    Regs = {i1, c1}
    CronRegs = {c1}
    Immediate = {i1}
    Pausable = {c1}
    Id <- MCId
    Expr <- MCExpr
    Clock <- MCClock
    CronLoop = CronLoop
    MaxGen = 2
    MaxMinute = 1
SPECIFICATION FairSpec
INVARIANTS TypeOK ListedOrCancelled EveryJobServed OneLoopEach OncePerMinute
PROPERTIES LoopsLeave
CHECK_DEADLOCK FALSE
