SPECIFICATION Spec
CONSTANTS
    fanera = fanera
    N = 2
    Retired = {2}
    Phrases = {fanera}
    Meant <- FaneraMeans
    Decision <- FaneraIsAsked
    Guess <- FaneraLooksLike
    Quantities = {1}
    MaxQty = 2
    MaxLines = 2
    Places = {home}
    NoPlace = NoPlace
    Outside = {}
    Labels = {cheapest, fewest}
    MaxBook = 2
    Goods = {1}
    Withdrawn = {1}
    Amounts = {1}
    Answers <- GivenAnswers
    Account <- KnownAccount
    LastRevision = 3
    MaxKeys = 2
    MaxLeft = 2
INVARIANTS
    OrderedOnceAtLivePrices
PROPERTIES
    
    RequestIsWhatWasConfirmed
