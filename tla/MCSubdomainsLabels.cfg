SPECIFICATION SafetySpec
CONSTANTS
  Req = {r1}
  Node <- TwoNodes
  Labels <- RichLabels
  NoReq = NoReq
  NoStats = NoStats
  Role = {"free", "paid"}
  NoRole = NoRole
  NoToken = NoToken
  Bad = Bad
  Token <- Tokens
  apiRole = "free"
  domains = 2
  Pool = {"seeder", "edge"}
  pool = "seeder"
  NoPool = NoPool
  MaxPrefix = 15
  Prefix <- OnePrefix
INVARIANTS
  EmptyOnlyIfRefused
  SpeedTestMeasuresExports
