\* The webhook may never come and the keys may expire, but nobody dies.
SPECIFICATION FairOrderSpec
CONSTANTS
  o1 = o1  ring = ring  p1 = p1  p2 = p2
  NoOrder = NoOrder
  Order = {o1}
  CodOrder = {}
  Row = {ring}
  Proc = {p1, p2}
  Lines <- RingCart
  InitialQty <- TwoEach
  Callers = {"reserve", "sweep"}
  Overlap = TRUE
  Faults = {}
  MaxCalls = 1
  MaxFaults = 0
  Completers = {"webhook", "cron", "reconcile"}
  MaxDeliveries = 1
  Expiry = TRUE
INVARIANTS AckedMeansSaved
 
CHECK_DEADLOCK FALSE
