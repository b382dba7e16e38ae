SPECIFICATION PagesSpec
CONSTANTS
    Tabs = {t1}
    Accounts = {a, b}
    Challenges = {c1}
    NoChallenge = NoChallenge
    Nobody = Nobody
    MaxOrphans = 1
    Texts = {question1}
    NoText = NoText
    PageSize = 1
    MaxIds = 3
    MaxSaid = 4
    MaxLost = 1
    MaxReloads = 1
INVARIANTS
    AskedOnce
PROPERTIES
    ImplementsApprovedSignIn
    PageNeverStuck
    PageCatchesUp
CHECK_DEADLOCK FALSE
