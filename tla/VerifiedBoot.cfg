SPECIFICATION FairSpec
CONSTANTS
  MaxRun = 3
  FaultBound = 2
  Missing = Missing
  Torn = Torn
INVARIANTS
  TypeOK
  KeysAgree
  SignedBoots
  VerifiedBoots
PROPERTIES
  GenerateRecovers
