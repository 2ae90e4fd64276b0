CONSTANTS
    Tasks = {t1, t2, t3}
    NoTask = NoTask
    QueueCap = 2
    PoolMax = 2
SPECIFICATION FairSpec
PROPERTIES NeverLost
CHECK_DEADLOCK FALSE
