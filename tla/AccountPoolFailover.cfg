\* Two requests of one session fail over between two accounts.
SPECIFICATION FairSpec
CONSTANTS
    a1 = a1
    s1 = s1
    None = None
    Request = {r1, r2}
    Loose = {}
    Account = {a1, a2}
    Session = {s1}
    SessionOf <- MCSessionOf
    Priority <- MCPriority
    ConcurrencyLimit <- MCConcurrencyLimit
    RPMLimit <- MCNoRPMLimit
    LastMinute = 0
    Faults = {}
INVARIANTS
    SentOnce
    CounterBalance
PROPERTIES
    FailoverEnds
