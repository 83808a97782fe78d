SPECIFICATION SafetySpec
CONSTANTS
  Req = {r1}
  Torrent <- Release
  Ask <- AskRelease
  Path <- ReleasePaths
  Config <- Deployed
  NoReq = NoReq
  NoPath = NoPath
  NotKept = NotKept
  NoAsk = NoAsk
INVARIANTS
  TypeOK
  Coherent
  AnsweredWhole
