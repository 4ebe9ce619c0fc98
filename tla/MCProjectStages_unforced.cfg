SPECIFICATION Spec
CONSTANTS
  leaf = leaf
  root = root
  f1 = f1
  f2 = f2
  Missing = Missing
  Torn = Torn
  Nothing = Nothing
  Target <- MCBoth
  File <- MCFile
  Rules <- MCRules
  Checked <- MCChecked
  MaxVersion = 1
  FaultBound = 2
  Forcing <- MCNever
INVARIANTS
  TypeOK
  ArchiveComesLast
  ProducedIsComplete
  FreshArchiveIsCurrent
