SPECIFICATION FairSpec
CONSTANTS
    a1 = a1
    a2 = a2
    r1 = r1
    i1 = i1
    i2 = i2
    u1 = u1
    u2 = u2
    c1 = c1
    c2 = c2
    Attempts = {a1}
    Runs = {r1}
    Instances = {i1, i2}
    Users = {u1}
    Cancels = {c1}
    RunOf <- RunOfAll
    InstOf <- InstOfAll
    UserOf <- UserOfAll
    MaxPolls = 2
    FinalizeTries = 2
    MaxExpiries = 0
    MaxFaults = 0
PROPERTIES
    CancelEventuallyStops
CHECK_DEADLOCK FALSE
