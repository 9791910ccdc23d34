\* Ten lists of nine pages, with two ids each.
SPECIFICATION FairSpec
CONSTANTS
    Pages = {"tokens", "users", "models", "groups", "announcements", "codes",
             "channels", "accounts", "settings", "topup"}
    Id = {1, 2}
    MaxCalls = 2
    Budgets <- MCBudgets
CHECK_DEADLOCK FALSE
INVARIANTS
    TypeOK
    OneSubmission
    BusyMeansAwaited
    ClicksUndoNothing
PROPERTIES
    OnlySwitchErasesNotes
    SecretIsRead
    AckedIsShown
