\* Two carts sharing two rows, and a COD order; every operation, one handler
\* per order at a time, no faults.
SPECIFICATION Spec
CONSTANTS
  o1 = o1  o2 = o2  c1 = c1  ring = ring  chain = chain
  p1 = p1  p2 = p2
  NoOrder = NoOrder
  Order = {o1, o2, c1}
  CodOrder = {c1}
  Row = {ring, chain}
  Proc = {p1, p2}
  Lines <- MixedCarts
  InitialQty <- TwoEach
  Callers = {"reserve", "commit", "release", "sweep", "sell", "restock"}
  Overlap = FALSE
  Faults = {}
  MaxCalls = 2
  MaxFaults = 0
SYMMETRY Handlers
INVARIANTS TypeOK NoPhantomHold
PROPERTIES HoldTakenBackOnce
CHECK_DEADLOCK FALSE
