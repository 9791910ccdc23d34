\* Three calls at a time on one code and one order, with every fault.
SPECIFICATION FairSpec
CONSTANTS
    u1 = u1
    u2 = u2
    Call = {c1, c2, c3}
    User = {u1, u2}
    Code = {k1}
    Order = {o1}
    AmountOf <- MCAmountOf
    OwnerOf <- MCOwnerOf
    Production = FALSE
    Faults = {"dbError", "ackLost", "crash"}
INVARIANTS
    TypeOK
    RedeemBound
    CreditedOnce
    SuccessMeansCredit
PROPERTIES
    PaidIsCredited
