\* Overlapping delivery runs, a crash or a late answer: every question settles,
\* every notice leaves.
CONSTANTS
  w1 = w1
  w2 = w2
  ana = ana
  bek = bek
  Nobody = Nobody
  Workers = {w1}
  Deliverers = {d1, d2}
  Operators = {ana}
  Channels = {"telegram"}
  PendingLimit = 1
  MaxJobs = 1
  MaxGeneration = 1
  MaxRequests = 0
  MaxCalls = 0
  MaxFaults = 1
SPECIFICATION LiveSpec
PROPERTIES
  EveryQuestionSettles
  EveryNoticeLeaves
