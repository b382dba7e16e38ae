SPECIFICATION Spec
CONSTANTS
    p = p
    q = q
    Accounts = {a}
    Guest = Guest
    Nobody = Nobody
    Pages = {w1}
    Products = {p, q}
    Amounts <- MCAmounts
    DraftAmounts <- MCDraftAmounts
    MaxLines = 1
    LegacyLists <- MCLegacyLists
    Keys = {k1}
    NoKey = NoKey
    MaxRevision = 1
PROPERTIES
    NothingEntersTwice
    SignInLosesNothing
    EditsReachTheCartShown
CHECK_DEADLOCK FALSE
