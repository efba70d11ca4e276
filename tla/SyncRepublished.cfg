SPECIFICATION Spec
CONSTANTS
    t1 = t1
    t2 = t2
    a1 = a1
    a2 = a2
    ga = ga
    gb = gb
    gc = gc
    None = None
    Tabs = {t1, t2}
    Accounts = {a1, a2}
    Guesses = {ga, gb, gc}
    Key <- MCKey
    Goal <- MCGoal
    Cap = 3
    MaxEdition = 2
    MaxDevices = 3
    Starts <- MCRepublished
INVARIANT StoredForItsSentence
CHECK_DEADLOCK FALSE
