SPECIFICATION FairSpec
CONSTANTS
  board = board
  borrower = borrower
  r1 = r1
  r2 = r2
  b1 = b1
  b2 = b2
  p1 = p1
  p2 = p2
  NoRevision = NoRevision
  NoTree = NoTree
  Detached = Detached
  Target <- MCPair
  Base <- MCBase
  Blob <- MCBlob
  Patch <- MCPatch
  Revision <- MCRevision
  BlobList <- MCBlobList
  PatchList <- MCPatchList
  Cloner <- MCCloner
  Unchecked <- MCUnchecked
  FaultBound = 1
INVARIANTS
  TypeOK
  PreparedIsExact
PROPERTIES
  BranchIsolation
  ReadsPrepared
  ImplementsPreparedSources
  ActionEnds
  RetryRecovers
