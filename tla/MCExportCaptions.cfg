SPECIFICATION SafetySpec
CONSTANTS
  Req = {r1}
  Torrent <- Captioned
  Ask <- AskCaptions
  Path <- BasePaths
  Config <- Deployed
  NoReq = NoReq
  NoPath = NoPath
  NotKept = NotKept
  NoAsk = NoAsk
INVARIANTS
  NoPanic
