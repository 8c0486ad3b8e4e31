CONSTANTS
    a = a
    b = b
    c = c
    s1 = s1
    s2 = s2
    Requests = {a, b, c}
    Scopes = {s1}
    MaxExchanges = 2
    MaxTries = 2
    Lifetime = 2
    MaxNow = 0
SPECIFICATION Spec
PROPERTIES RowsGiveBack
CHECK_DEADLOCK FALSE
