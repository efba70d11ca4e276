SPECIFICATION FairSpec
CONSTANTS
    p1 = p1
    p2 = p2
    p3 = p3
    g1 = g1
    g2 = g2
    r1 = r1
    r2 = r2
    r3 = r3
    None = None
    Players = {p1, p2, p3}
    GroupIds = {g1, g2}
    Requests = {r1, r2, r3}
    Starts <- MCStarts
    MembersMax = 3
    GroupsMax = 1
    Attempts = 2
    Passes = 2
    MaxConflicts = 1
INVARIANT OwnerIsMember
INVARIANT RowsArePaired
INVARIANT DepartedForGood
PROPERTY DepartureConverges
CHECK_DEADLOCK FALSE
