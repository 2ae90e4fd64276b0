CONSTANTS
    Procs = {p1, p2}
    Ops = {o1}
    NoProc = NoProc
    Default = Default
    Configured = Configured
    MaxOpens = 3
SPECIFICATION FairSpec
INVARIANTS TypeOK TogetherOnlyBriefly
PROPERTIES FileFollowsMain OneRemains
CHECK_DEADLOCK FALSE
