CONSTANTS
  c1 = c1
  c2 = c2
  s1 = s1
  s2 = s2
  r1 = r1
  r2 = r2
  h1 = h1
  h2 = h2
  Clients = {c1}
  Servers = {s1, s2}
  Routers = {r1, r2}
  Others = {h1, h2}
  Local = {r1, r2, h2}
  ServerOf <- OneServer
  ProxyOf <- OneRouter
  Pings = 1
  None = None
  MaxCopies = 1
  MaxStrays = 1
SPECIFICATION Spec
INVARIANTS
  
  WaitsForSomething
CHECK_DEADLOCK FALSE
