SPECIFICATION Spec
CONSTANTS
    q1 = q1
    q2 = q2
    q3 = q3
    k1 = k1
    k2 = k2
    r1 = r1
    r2 = r2
    r3 = r3
    Replies = {q1, q2, q3}
    Keys = {k1, k2}
    RunIds = {r1, r2, r3}
    KeyOf <- KeyOfAll
    RunOf <- RetryRun
    Bound <- AllBound
    AskedFor <- AllChoices
    Lease = 3
    TicketTTL = 4
    JoinCap = 1
    MaxTurn = 2
    MaxTime = 5
    MaxCrashes = 0
INVARIANTS
    TypeOK
    AtMostOneRunner
    ReplayFaithful
    
    
PROPERTIES
    SingleUseSpec
CHECK_DEADLOCK FALSE
