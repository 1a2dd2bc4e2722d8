\* Two callers complete the same order at once; nothing fails or expires.
SPECIFICATION OrderSpec
CONSTANTS
  o1 = o1  ring = ring  p1 = p1  p2 = p2
  NoOrder = NoOrder
  Order = {o1}
  CodOrder = {}
  Row = {ring}
  Proc = {p1, p2}
  Lines <- RingCart
  InitialQty <- TwoEach
  Callers = {"reserve"}
  Overlap = TRUE
  Faults = {}
  MaxCalls = 1
  MaxFaults = 0
  Completers = {"verify", "webhook"}
  MaxDeliveries = 2
  Expiry = FALSE
SYMMETRY Handlers
INVARIANTS DoneMeansSold
CHECK_DEADLOCK FALSE
