SPECIFICATION AccelerantSpec
CONSTANTS
  Clients = {p, c1}
  primary = p
INVARIANTS
  AccelerantTypeOK
  AreasFollowClients
  
  
