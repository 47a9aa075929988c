\* One fault at any point: a failing post or a broken QP.
SPECIFICATION FairSpec
CONSTANTS
  MaxRequests = 2
  NQps = 2
  Window = 2
  NMsgs = 3
  Workloads <- MCWorkloads
  AdaptiveRouting = FALSE
  ArThreshold = 1
  FlushEnabled = TRUE
  MaxFaults = 1
CHECK_DEADLOCK FALSE
INVARIANTS
  CompletionsTrue
  RequestAvailable
PROPERTIES
  PostedCompletes
