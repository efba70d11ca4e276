SPECIFICATION FairSpec
CONSTANTS
    a1 = a1
    a2 = a2
    a3 = a3
    t1 = t1
    t2 = t2
    e1 = e1
    e2 = e2
    r1 = r1
    r2 = r2
    r3 = r3
    r4 = r4
    s1 = s1
    w = w
    ip = ip
    None = None
    AccountIds = {a1, a2, a3}
    Tokens = {t1, t2}
    Emails = {e1, e2}
    Requests = {r1, r2, r3, r4}
    Worker = w
    Slots = {s1}
    Ip = ip
    Starts <- MCStarts
    MaxClock = 3
    MaxFaults = 1
    Timeout = 1
    Settle = 3
    CodeTtl = 2
    MaxWrong = 2
    Limit <- MCLimit
    SendWindow = 3
    MaxTries = 3
INVARIANT AccountsReachable
INVARIANT CodesHold
INVARIANT PurgedClean
PROPERTY ImplementsContract
PROPERTY PurgeFinishes
CHECK_DEADLOCK FALSE
