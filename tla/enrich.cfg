SPECIFICATION Spec
CONSTANTS
    d1 = d1
    d2 = d2
    c1 = c1
    c2 = c2
    w1 = w1
    w2 = w2
    p1 = p1
    Devices = {d1, d2}
    Known = {d2}
    Callers = {c1}
    Workers = {w1, w2}
    Providers = {p1}
    QueueSize = 1
    MaxRetries = 1
INVARIANTS
    TypeOK
    OneHolder
    RetryLimit
CHECK_DEADLOCK FALSE
PROPERTIES
    Released
