CONSTANTS
    a = a
    b = b
    c = c
    s1 = s1
    s2 = s2
    Requests = {a, b, c}
    Scopes = {s1, s2}
    MaxExchanges = 2
    MaxTries = 2
    Lifetime = 1
    MaxNow = 2
SPECIFICATION Spec
SYMMETRY Alike
INVARIANTS TypeOK OwnMemory 
 
CHECK_DEADLOCK FALSE
