\* One tab, two users.
SPECIFICATION FairSpec
CONSTANTS
    User = {ann, bob}
    Admins = {ann}
    Nobody = Nobody
    NewUser = bob
    MaxCalls = 4
    Cooldown = 2
    Budgets <- MCBudgets
CHECK_DEADLOCK FALSE
INVARIANTS
    TypeOK
    NoLoginLoop
    ShownIsSignedIn
    CallbackErrorIsFinal
    LatestCodeWorks
    BonusOnce
PROPERTIES
    SpinnerEnds
    CodeCanBeResent
