SPECIFICATION Spec
CONSTANTS
    t1 = t1
    t2 = t2
    None = None
    Tabs = {t1, t2}
    MaxToken = 4
    MaxDevice = 4
    Starts <- MCStarts
INVARIANT TabsSound
INVARIANT OneAccount
PROPERTY NeverBack
PROPERTY NewerKept
CHECK_DEADLOCK FALSE
