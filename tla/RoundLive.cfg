SPECIFICATION FairSpec
CONSTANTS
    ga = ga
    gb = gb
    gx = gx
    h1 = h1
    h2 = h2
    r1 = r1
    r2 = r2
    r3 = r3
    Requests <- MCRequests
    Guesses <- MCGuesses
    Batches <- MCSingles
    Holes <- MCHoles
    MaxEdition = 1
    MaxClock = 2
    MaxFaults = 0
    Cap = 3
    MinGap = 0
    MaxAttempts = 2
    Day = {0, 1}
    Rank <- MCRank
    Progress <- MCProgress
    Tries <- MCTries
INVARIANT SummarySettles
PROPERTY SolveIsRecorded
CHECK_DEADLOCK FALSE
