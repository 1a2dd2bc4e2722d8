\* Three requests of one key, a shopper with two coupon editors, two requests
\* of the dashboard and the loop, two readers of two screens and their editor,
\* two tabs, and three callers in two processes.
SPECIFICATION CommerceSpec
CONSTANTS
  r1 = r1  r2 = r2  r3 = r3  k1 = k1  c1 = c1  c2 = c2
  x1 = x1  x2 = x2  t1 = t1  t2 = t2  d1 = d1
  FraudOn = TRUE
  FailClosed = TRUE
  VelocityLimit = 5
  Request = {r1, r2, r3}
  Key = {k1}
  Cart = {c1, c2}
  KeyOf <- KeyOfRequest
  CartOf <- CartOfRequest
  FactsOf <- CartFacts
  NoRequest = NoRequest
  Units = 2
  CodFaults = {"fraud", "insert", "unsure", "late", "die"}
  MaxCodFaults = 1
  Shopper = {"shopper"}
  CouponEditor = {x1, x2}
  Regions <- EditorRegions
  Assortment <- AssortmentDef
  Carts <- CartsDef
  Countries = {"IN", "AU"}
  Places <- PlacesDef
  Coupons <- CouponsDef
  Patches <- PatchesDef
  PriceEdits <- EditsDef
  Shippings = {500}
  Rates <- RatesDef
  SellerPin = "home"
  SellerState = "home"
  MaxQuantity = 99
  MaxEdits = 2
  Dashboard = {t1, t2}
  TheLoop = "loop"
  Forms <- FormsDef
  Stock = 1
  MaxRequests = 2
  MaxAttempts = 2
  MaxFailures = 1
  Reader = {"r1", "r2"}
  Editor = {"editor"}
  MaxWrites = 1
  MaxWraps = 2
  Screens = {"hero", "journal"}
  Tab = {t1, t2}
  Desk = {d1}
  Email = {"ann", "bob"}
  Phone = {"1"}
  DeskRegions <- AustralianDesk
  Region = {"AU", "IN"}
  Unknown = "unknown"
  MaxCarts = 2
  MaxForms = 4
  Client = {"c1", "c2", "c3"}
  Process = {"backend", "worker"}
  Home <- HomeDef
  Limit = 1
  Retries = 1
  Threshold = 2
  MaxArrivals = 3
  MaxDeaths = 1
SYMMETRY Pairs
INVARIANTS CommerceTypeOK RecordsAgree  StaleOnlyWhenOvertaken
PROPERTIES ConvertedStays
CHECK_DEADLOCK FALSE
