\* A checkout and the sweep, three callers in two processes, two readers and
\* an editor, and two requests of the dashboard with the worker's loop.
SPECIFICATION EndingsSpec
CONSTANTS
  o1 = o1  ring = ring  p1 = p1  p2 = p2
  NoOrder = NoOrder
  Order = {o1}
  CodOrder = {}
  Row = {ring}
  Proc = {p1, p2}
  Lines <- RingCarts
  InitialQty <- TwoEach
  Callers = {"reserve", "commit", "release", "sweep"}
  Overlap = TRUE
  Faults = {}
  MaxCalls = 3
  MaxFaults = 0
  Client = {"c1", "c2"}
  Process = {"backend"}
  Home <- HomeDef
  Limit = 1
  Retries = 1
  Threshold = 2
  MaxArrivals = 3
  MaxDeaths = 0
  Reader = {"r1", "r2"}
  Editor = {"e1"}
  MaxWrites = 1
  MaxWraps = 2
  Screens = {"hero", "faq"}
  Dashboard = {"edit", "other"}
  TheLoop = "loop"
  Forms <- FormsDef
  Stock = 1
  MaxRequests = 2
  MaxAttempts = 2
  MaxFailures = 1
PROPERTIES EverythingEnds
CHECK_DEADLOCK FALSE
