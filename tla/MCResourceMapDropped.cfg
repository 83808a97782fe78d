SPECIFICATION SeenSafetySpec
CONSTANTS
  Req = {r1, r2}
  Kind = {"torrent", "magnet", "sha1", "manifest"}
  Hash = {h1}
  Tracker = {t1}
  Concurrency = 1
  NoReq = NoReq
  NoResource = NoResource
  NoCall = NoCall
SYMMETRY Symmetry
INVARIANTS
  UploadNotDropped
