\* A double click on an expensive cart; nothing fails.
SPECIFICATION CodSpec
CONSTANTS
  r1 = r1  r2 = r2  r3 = r3  k1 = k1  c1 = c1  c2 = c2
  FraudOn = TRUE
  FailClosed = TRUE
  VelocityLimit = 5
  Request = {r1, r2, r3}
  Key = {k1}
  Cart = {c1, c2}
  KeyOf <- KeyOfRequest
  CartOf <- CartOfRequest
  FactsOf <- DearCartFacts
  NoRequest = NoRequest
  Units = 2
  CodFaults = {}
  MaxCodFaults = 0
INVARIANTS OneOrderPerKey
CHECK_DEADLOCK FALSE
