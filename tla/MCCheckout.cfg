SPECIFICATION Spec
CONSTANTS
    CheckoutPages = {w}
    ChatCarts = {c}
    Products = {a, b}
    Quantities = {1}
    Prices = {1, 2}
    Contacts = {home, work}
    Keys = {1, 2}
    MaxRevision = 3
SYMMETRY Symmetry
INVARIANTS
    OneSalePerRevision
PROPERTIES
    RetriesAreNotRefused
    SellsWhatWasConfirmed
CHECK_DEADLOCK FALSE
