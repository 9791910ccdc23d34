\* A refused request, without any fault, leaves its slot of the account taken.
SPECIFICATION Spec
CONSTANTS
    a1 = a1
    s1 = s1
    None = None
    Request = {r1, r2}
    Loose = {r1, r2}
    Account = {a1}
    Session = {}
    SessionOf <- MCSessionOf
    Priority <- MCPriority
    ConcurrencyLimit <- MCConcurrencyLimit
    RPMLimit <- MCNoRPMLimit
    LastMinute = 0
    Faults = {}
INVARIANTS
    LoadIsReal
