SPECIFICATION FairSpec
CONSTANTS
    p = p
    q = q
    fr = fr
    en = en
    None = None
    Messages = {1, 2, 3, 4, 5, 6}
    SenderOf <- MCSenderOf
    SharesOf <- MCSharesOf
    Own = fr
    Langs = {fr, en}
    Capped = 9
    WriteAttempts = 2
    Deliveries = 2
    MaxReceives = 3
    Batch = 2
    MaxQueue = 3
    Podium <- MCPodium
    Plans <- MCPlans
INVARIANT LatestStands
INVARIANT ShareIsThanked
INVARIANT LeadIsBest
INVARIANT LeadChangedHands
PROPERTY NeverRepeated
PROPERTY SaidOrSeen
CHECK_DEADLOCK FALSE
