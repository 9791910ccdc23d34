\* Three requests on the key of an invited user, two at a time, every fault.
SPECIFICATION Spec
CONSTANTS
    invitee = invitee
    inviter = inviter
    k1 = k1
    k2 = k2
    NoUser = NoUser
    Request = {r1, r2, r3}
    OnKey2 = {}
    User = {invitee, inviter}
    Token = {k1}
    TokenOf <- MCTokenOf
    OwnerOf <- MCOwnerOf
    InviterOf <- MCInviterOf
    InitQuota <- MCInitQuota
    InitRemain <- MCInitRemain
    Remains = {0, 2}
    Estimates = {0, 2}
    MaxEstimate = 2
    Costs = {1, 3}
    Percents = {100}
    ConcurrencyLimit = 2
    Faults = {"dbError", "crash", "ackLost"}
SYMMETRY Symmetric
INVARIANTS
    TypeOK
    Conservation
    TokenBalance
    OverdraftBound
    TokenOverdraftBound
