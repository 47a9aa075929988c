\* Two QPs and requests ending out of order: what goes where.
SPECIFICATION Spec
CONSTANTS
  MaxRequests = 3
  NQps = 2
  Window = 3
  NMsgs = 4
  Workloads <- MCWorkloads
  AdaptiveRouting = FALSE
  ArThreshold = 1
  FlushEnabled = FALSE
  MaxFaults = 0
INVARIANTS
  LandsInOrder
PROPERTIES
  ImplementsChannel
