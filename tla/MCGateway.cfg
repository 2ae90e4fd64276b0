CONSTANTS
    s1 = s1
    s2 = s2
    Sessions = {s1, s2}
    NoSession = NoSession
    MaxSeq = 4
    StrikeLimit = 5
SPECIFICATION FairSpec
INVARIANTS TypeOK SeqOfSession OnlineIsReady BoundedResumes
PROPERTIES StreamSpec DeadSessionDropped MuteAbandoned StopReturnsOrMisses
CHECK_DEADLOCK FALSE
