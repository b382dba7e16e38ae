SPECIFICATION AssistantSpec
CONSTANTS
  Districts = {d1}
  None = None
  MaxRevision = 2
  MaxJobs = 2
  MaxCalls = 2
  MaxGeneration = 2
  MaxCrashes = 1
  c1 = c1
  c2 = c2
  Chats = {c1, c2}
  MaxMessages <- Lengths
  Nobody = Nobody
  Me = Me
  Other = Other
  Held = {c1}
  Asking = {c2}
  PageSize = 1
  MaxTyped = 1
  MaxPending = 2
  MaxLost = 1
INVARIANTS
  PricesStayWithTheBasket
  ReadWasShown
  RepliesGoWhereTyped
CHECK_DEADLOCK FALSE
