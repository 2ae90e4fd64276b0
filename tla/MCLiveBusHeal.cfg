CONSTANTS
    a = a
    b = b
    j = j
    Subs = {a, b}
    Changes = {j}
    QueueCap = 2
    LogCap = 1
    TTLRemember = 4
    TTLShort = 2
    Unprotected = ""
SPECIFICATION Spec
INVARIANTS SelfHealing
CHECK_DEADLOCK FALSE
