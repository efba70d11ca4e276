SPECIFICATION Spec
CONSTANTS
    ga = ga
    gb = gb
    gx = gx
    h1 = h1
    h2 = h2
    r1 = r1
    r2 = r2
    r3 = r3
    Requests <- MCPair
    Guesses <- MCGuesses
    Batches <- MCBatches
    Holes <- MCHoles
    MaxEdition = 2
    MaxClock = 3
    MaxFaults = 2
    Cap = 3
    MinGap = 0
    MaxAttempts = 2
    Day = {0, 1, 2}
    Rank <- MCRank
    Progress <- MCProgress
    Tries <- MCTries
SYMMETRY Symmetric
INVARIANT AcknowledgedKept
INVARIANT SolveAnswerIsDurable
INVARIANT RewardsAreEarned
PROPERTY ImplementsContract
CHECK_DEADLOCK FALSE
