SPECIFICATION Spec
CONSTANTS
    task = task
    other = other
    Processes <- MCProcesses
    Pairings = {other}
    Ttl = 6
    RenewPeriod = 2
    MaxClock = 9
INVARIANT OneHolder
CHECK_DEADLOCK FALSE
