\* Two requests on one key over three seconds and two minutes, with Redis errors and killed replicas.
SPECIFICATION Spec
CONSTANTS
    u1 = u1
    k1 = k1
    Request = {r1, r2}
    Heavy = {r2}
    Token = {k1}
    User = {u1}
    TokenOf <- MCTokenOf
    OwnerOf <- MCOwnerOf
    Limit <- MCLimit
    Weight <- MCWeight
    LastSecond = 2
    SecondsPerMinute = 2
    Faults = {"redisError", "kill"}
INVARIANTS
    TypeOK
    WindowBound
    ServingBound
    CounterBalance
    KeyShieldsUser
