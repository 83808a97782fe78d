SPECIFICATION Spec
CONSTANTS
  Req = {r1, r2}
  Torrent <- Movie
  Ask <- AskFolder
  Path <- FolderPath
  Config <- Deployments
  NoReq = NoReq
  NoPath = NoPath
  NotKept = NotKept
  NoAsk = NoAsk
INVARIANTS
  PositiveIsFresh
  StatIsDirect
  UnverifiedGetNoHost
PROPERTIES
  ExportsEnd
  DoneIsSeen
