SPECIFICATION LiveSpec
CONSTANTS
  Req = {r1, r2}
  Kind = {"magnet", "manifest"}
  Hash = {h1, h2}
  Held = {h1}
  Tracker = {}
  Concurrency = 1
  NoReq = NoReq
  NoResource = NoResource
  NoCall = NoCall
PROPERTIES
  AnsweredUnlessPushHangs
  BansTakeEffect
