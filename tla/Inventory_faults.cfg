\* Handlers of the same orders overlap, and one of them dies or loses its
\* connection to a store at any await.
SPECIFICATION Spec
CONSTANTS
  o1 = o1  o2 = o2  c1 = c1  ring = ring  chain = chain
  p1 = p1  p2 = p2
  NoOrder = NoOrder
  Order = {o1, o2}
  CodOrder = {}
  Row = {ring}
  Proc = {p1, p2}
  Lines <- BulkCarts
  InitialQty <- TwoEach
  Callers = {"reserve", "commit", "release", "sweep"}
  Overlap = TRUE
  Faults = {"crash", "store"}
  MaxCalls = 2
  MaxFaults = 1
SYMMETRY Handlers
INVARIANTS StockNeverNegative LockIsExclusive MirrorClaimExclusive
PROPERTIES ResolutionIsFinal
CHECK_DEADLOCK FALSE
