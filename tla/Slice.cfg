SPECIFICATION ReplaySpec
CONSTANTS
    sa = sa
    sb = sb
    sc = sc
    MaxLog = 3
    Farthest = 2
    Ln <- MCLn
    Slugs <- MCSlugs
    Sentences <- Puzzles
INVARIANT SliceIsEnough
INVARIANT TriesReplayTheBoard
PROPERTY ProgressOnlyRises
CHECK_DEADLOCK FALSE
