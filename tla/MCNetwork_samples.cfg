CONSTANTS
  c1 = c1
  c2 = c2
  s1 = s1
  s2 = s2
  r1 = r1
  r2 = r2
  h1 = h1
  h2 = h2
  Clients = {c1, c2}
  Servers = {s1}
  Routers = {r1}
  Others = {}
  Local = {r1}
  ServerOf <- OneServer
  ProxyOf <- OneRouter
  Pings = 2
  None = None
  MaxCopies = 1
  MaxStrays = 0
SPECIFICATION FairSpec
INVARIANTS
  TypeOK
  SamplesAreRoundTrips
  SamplesOfTheirPing
  WaitsForSomething
  FewInFlight
PROPERTY MeasurementEnds
CHECK_DEADLOCK FALSE
