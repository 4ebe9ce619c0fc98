SPECIFICATION Spec
CONSTANTS
  project = project
  left = left
  right = right
  None = None
  Git = Git
  Elsewhere = Elsewhere
  Target <- MCTarget
  Node <- MCNode
  Root = project
  Chain <- MCChain
  Offer <- MCOffer
  Owned <- MCOwned
  Commands <- MCCommands
  FaultBound = 0
INVARIANTS
  ExtractedIsVerified
