\* Two concurrent requests on one key, with no fault at all.
SPECIFICATION Spec
CONSTANTS
    invitee = invitee
    inviter = inviter
    k1 = k1
    k2 = k2
    NoUser = NoUser
    Request = {r1, r2}
    OnKey2 = {}
    User = {invitee, inviter}
    Token = {k1}
    TokenOf <- MCTokenOf
    OwnerOf <- MCOwnerOf
    InviterOf <- MCInviterOf
    InitQuota <- MCInitQuota
    InitRemain <- MCInitRemain
    Remains = {}
    Estimates = {2}
    MaxEstimate = 2
    Costs = {1, 2}
    Percents = {100}
    ConcurrencyLimit = 2
    Faults = {}
INVARIANTS
    NoOverdraft
