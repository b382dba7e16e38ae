\* The customer takes back a chat whose request is still open.
CONSTANTS
  Nobody = Nobody
  Workers = {w1}
  Deliverers = {}
  Operators = {ana}
  Channels = {"web"}
  PendingLimit = 1
  MaxJobs = 1
  MaxGeneration = 2
  MaxRequests = 1
  MaxCalls = 0
  MaxFaults = 0
SPECIFICATION Spec
PROPERTIES
  RequestsHoldTheConversation
