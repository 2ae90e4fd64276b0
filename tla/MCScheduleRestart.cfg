CONSTANTS
    i1 = i1
    c1 = c1
    Regs = {i1, c1}
    CronRegs = {c1}
    Immediate = {i1}
    Pausable = {}
    Id <- MCId
    Expr <- MCExpr
    Clock <- MCClock
    CronLoop = CronLoop
    MaxGen = 2
    MaxMinute = 0
SPECIFICATION Spec
PROPERTIES StartRestoresNothing
CHECK_DEADLOCK FALSE
