SPECIFICATION SafetySpec
CONSTANTS
  Req = {r1}
  Torrent <- Movie
  Ask <- AskStat
  Path <- MoviePaths
  Config <- Deployed
  NoReq = NoReq
  NoPath = NoPath
  NotKept = NotKept
  NoAsk = NoAsk
INVARIANTS
  CacheIsAdvisory
