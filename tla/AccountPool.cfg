\* Two requests, one of them in a session, race for one account in two minutes,
\* with Redis errors, killed replicas and administrators.
SPECIFICATION Spec
CONSTANTS
    a1 = a1
    s1 = s1
    None = None
    Request = {r1, r2}
    Loose = {}
    Account = {a1}
    Session = {s1}
    SessionOf <- MCSessionOf
    Priority <- MCPriority
    ConcurrencyLimit <- MCConcurrencyLimit
    RPMLimit <- MCRPMLimit
    LastMinute = 1
    Faults = {"redisError", "kill", "admin"}
SYMMETRY Symmetric
INVARIANTS
    TypeOK
    LeaseBound
    CounterBalance
    RPMBound
