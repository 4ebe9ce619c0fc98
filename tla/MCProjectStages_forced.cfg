SPECIFICATION FairSpec
CONSTANTS
  leaf = leaf
  root = root
  f1 = f1
  f2 = f2
  Missing = Missing
  Torn = Torn
  Nothing = Nothing
  Target <- MCLeaf
  File <- MCFile
  Rules <- MCRules
  Checked <- MCChecked
  MaxVersion = 2
  FaultBound = 2
  Forcing <- MCAtWill
INVARIANTS
  ReleaseIsCurrent
PROPERTIES
  CommandEnds
  ProduceReleases
