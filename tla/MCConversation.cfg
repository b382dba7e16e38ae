\* Three questions, overlapping worker runs and a chat that changes hands twice;
\* MCConversation gives the values of the other life.
CONSTANTS
  w1 = w1
  w2 = w2
  ana = ana
  bek = bek
  Nobody = Nobody
  Workers <- TwoWorkers
  Deliverers = {}
  Operators <- TwoOperators
  Channels = {"web"}
  PendingLimit = 2
  MaxJobs = 3
  MaxGeneration = 2
  MaxRequests = 0
  MaxCalls = 0
  MaxFaults = 1
SPECIFICATION LivesSpec
SYMMETRY TurnSymmetry
INVARIANTS
  ToolsActOnce
PROPERTIES
  SpeaksWithOneVoice
