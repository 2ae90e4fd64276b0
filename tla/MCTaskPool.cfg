CONSTANTS
    Tasks = {t1, t2, t3}
    NoTask = NoTask
    QueueCap = 2
    PoolMax = 2
SPECIFICATION FairSpec
INVARIANTS TypeOK AliveCounts
PROPERTIES AbsSpec ExecutedOrStranded NextCallRescues
CHECK_DEADLOCK FALSE
