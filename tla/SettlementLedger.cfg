\* One request of an invited user and one of his inviter, whose quota the
\* reward raises; the reward percentage changes; no lost acknowledgements.
SPECIFICATION FairSpec
CONSTANTS
    invitee = invitee
    inviter = inviter
    k1 = k1
    k2 = k2
    NoUser = NoUser
    Request = {r1, r2}
    OnKey2 = {r2}
    User = {invitee, inviter}
    Token = {k1, k2}
    TokenOf <- MCTokenOf
    OwnerOf <- MCOwnerOf
    InviterOf <- MCInviterOf
    InitQuota <- MCInitQuota
    InitRemain <- MCInitRemain
    Remains = {2}
    Estimates = {0, 2}
    MaxEstimate = 2
    Costs = {0, 1, 3}
    Percents = {0, 50}
    ConcurrencyLimit = 1
    Faults = {"dbError", "crash"}
INVARIANTS
    RewardsBalance
PROPERTIES
    ImplementsLedger
    AnswerIsSettled
