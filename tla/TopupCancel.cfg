\* The owner cancels an order while its payment is reported, with no fault.
SPECIFICATION Spec
CONSTANTS
    u1 = u1
    u2 = u2
    Call = {c1, c2}
    User = {u1, u2}
    Code = {k1}
    Order = {o1}
    AmountOf <- MCAmountOf
    OwnerOf <- MCOwnerOf
    Production = TRUE
    Faults = {}
PROPERTIES
    OnlyPendingIsCancelled
