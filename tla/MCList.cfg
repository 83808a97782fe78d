SPECIFICATION Spec
CONSTANTS
  Name <- Names
  lower <- Lower
  Torrent <- Torrents
  Query <- Queries
  MaxLimit = 1000
  Absent = Absent
  Malformed = Malformed
  Leaves <- Nested
  MaxFiles = 3
  Sizes = {0, 2}
  Limits = {Absent, 1, 2}
  Sorts = {Absent, "name", "size"}
  Nul = "NUL"
  Selection <- Selections
  Piece = {0, 1, 2, 3}
  Hashes = {0, 1, 2, 3, 4, 6}
  maxSelectedPaths = 3
  maxSelectedPathsEncodedLen = 6
INVARIANTS
  TypeOK
  ListIsWhole
  TreeIsOneLevel
  SortedStably
  ItemsExport
  StructureAgrees
  PagesCover
  PiecesCover
  ArchiveIsSelection
CHECK_DEADLOCK FALSE
