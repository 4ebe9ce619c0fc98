SPECIFICATION Spec
CONSTANTS
  Rom <- MCRom
  Address <- MCAddress
  Default <- MCDefault
  Colon = Colon
  FaultBound = 1
  Missing = Missing
  Torn = Torn
  None = None
INVARIANTS
  TypeOK
  ImagesSound
  GbeSound
  AddressUsed
  Recreates
