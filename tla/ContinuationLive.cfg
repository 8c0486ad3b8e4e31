SPECIFICATION FairSpec
CONSTANTS
    q1 = q1
    q2 = q2
    q3 = q3
    k1 = k1
    k2 = k2
    r1 = r1
    r2 = r2
    r3 = r3
    Replies = {q1, q2}
    Keys = {k1, k2}
    RunIds = {r1, r2, r3}
    KeyOf <- SameKeyAll
    RunOf <- RetryRun
    Bound <- AllBound
    AskedFor <- OnePrompt
    Lease = 1
    TicketTTL = 3
    JoinCap = 2
    MaxTurn = 2
    MaxTime = 6
    MaxCrashes = 1
PROPERTIES
    EveryReplyAnswered
CHECK_DEADLOCK FALSE
