SPECIFICATION SafetySpec
CONSTANTS
  Req = {r1}
  Node <- FourNodes
  Labels <- PlainLabels
  NoReq = NoReq
  NoStats = NoStats
  Role = {}
  NoRole = NoRole
  NoToken = NoToken
  Bad = Bad
  Token = {NoToken}
  apiRole = NoRole
  domains = 1
  Pool = {"seeder", "edge"}
  pool = "seeder"
  NoPool = NoPool
  MaxPrefix = 15
  Prefix <- AllPrefixes
INVARIANTS
  TypeOK
  NeighboursNext
  ShardsBalanced
  Sticky
