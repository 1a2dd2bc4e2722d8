\* The client, the worker, the cron endpoint and the reconcile loop complete one
\* order; one handler may die, or lose a store or the gateway, at any await.
SPECIFICATION OrderSpec
CONSTANTS
  o1 = o1  ring = ring  p1 = p1  p2 = p2
  NoOrder = NoOrder
  Order = {o1}
  CodOrder = {}
  Row = {ring}
  Proc = {p1, p2}
  Lines <- RingCart
  InitialQty <- TwoEach
  Callers = {"reserve"}
  Overlap = TRUE
  Faults = {"crash", "store"}
  MaxCalls = 1
  MaxFaults = 1
  Completers = {"verify", "webhook", "reconcile"}
  MaxDeliveries = 2
  Expiry = FALSE
SYMMETRY Handlers
INVARIANTS OrderTypeOK ClaimIsExclusive EffectsOnceUnlessCut DoneIsTidy
 
CHECK_DEADLOCK FALSE
