SPECIFICATION FairSpec
CONSTANTS
  project = project
  left = left
  right = right
  None = None
  Git = Git
  Elsewhere = Elsewhere
  Target <- MCTarget
  Node <- MCNode
  Root = project
  Chain <- MCChain
  Offer <- MCOffer
  Owned <- MCOwned
  Commands <- MCCommands
  FaultBound = 1
INVARIANTS
  TypeOK
PROPERTIES
  EndsWhole
  OnlyTrusted
  CommandEnds
  SourcesObtains
  GitIsKept
