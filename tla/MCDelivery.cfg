CONSTANTS
    r1 = r1
    r2 = r2
    e1 = e1
    Sends = {r1, r2}
    Triggers = {e1}
    ReplyTo <- MCReplyTo
    ReplyLimit = 5
    HttpTries = 2
    BusinessTries = 2
    Workers = 2
    NoSend = NoSend
    MaxFaults = 2
    RateLimitMax = 2
    RateLimitWindow = 3
SPECIFICATION FairSpec
INVARIANTS TypeOK SentOnce NoStaleWaiter OneFetchPerLapse
PROPERTIES EveryWorkerReturns
CHECK_DEADLOCK FALSE
