\* One QP: the CTS send queue comes within one entry of its depth.
SPECIFICATION Spec
CONSTANTS
  MaxRequests = 2
  NQps = 1
  Window = 2
  NMsgs = 5
  Workloads <- MCWorkloads
  AdaptiveRouting = TRUE
  ArThreshold = 1
  FlushEnabled = TRUE
  MaxFaults = 0
INVARIANTS
  TypeOK
  SendEventsExact
  RecvEventsExact
  CompletionsTrue
  QueuesFit
  NoInternalError
PROPERTIES
  SlotKept
