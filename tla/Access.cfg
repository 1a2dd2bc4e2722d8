\* Three requests of an admin, two regions and a rest of the world, three
\* requests of a customer, and two processes of the API.
SPECIFICATION AccessSpec
CONSTANTS
  q1 = q1  q2 = q2  q3 = q3
  o1 = o1  o2 = o2  o3 = o3  in = in  au = au  rest = rest
  ina = ina  aua = aua  root = root
  Call = {q1, q2, q3}
  NoCall = NoCall
  Scope = {"read"}
  MaxSecrets = 2
  Order = {o1, o2, o3}
  Region = {in, au, rest}
  RegionOf <- OrderRegions
  NoRegion = NoRegion
  DefaultRegion = rest
  Admin = {ina, aua, root}
  ScopesOf <- AdminScopes
  RegionsOf <- AdminRegions
  Root = {root}
  MaxChanges = 2
  MaxPages = 1
  Visit = {q1, q2, q3}
  NoVisit = NoVisit
  MaxAttempts = 2
  MaxCodes = 2
  Process = {"p", "q"}
  Ip = {"ip"}
  NoIp = "noip"
  Mail = {"mail"}
  NoMail = "nomail"
  Rules <- RulesDef
  Window = 2
  MinTtl = 3
  MaxTime = 4
  MaxRequests = 3
  MaxSkew = 1
  MaxFaults = 1
SYMMETRY Requests
INVARIANTS AccessTypeOK 
PROPERTIES SpentOnce
CHECK_DEADLOCK FALSE
