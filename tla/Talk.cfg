SPECIFICATION FairSpec
CONSTANTS
    Messages <- Messages_
    At <- At_
    DayOf <- DayOf_
    Shape <- Shape_
    Sender <- Sender_
    Days <- Days_
    None = none
    Gap = 10
    MaxUnasked = 1
    GroupLimit = 2
    CallCeiling = 3
    MaxRounds = 1
    Starts <- Starts_
INVARIANT UnaskedBounded
INVARIANT LinesRemembered
INVARIANT DiarySound
PROPERTY TurnsEnd
CHECK_DEADLOCK FALSE
