SPECIFICATION Spec
CONSTANTS
  Req = {r1, r2}
  Node <- TwoNodes
  Labels <- PlainLabels
  NoReq = NoReq
  NoStats = NoStats
  Role = {}
  NoRole = NoRole
  NoToken = NoToken
  Bad = Bad
  Token = {NoToken}
  apiRole = NoRole
  domains = 2
  Pool = {"seeder", "edge"}
  pool = "seeder"
  NoPool = NoPool
  MaxPrefix = 15
  Prefix <- OnePrefix
PROPERTIES
  EveryCallEnds
  GoneNodesLeave
  ClientFailureIsPermanent
