SPECIFICATION Spec
CONSTANTS
  Rom <- MCRom
  Address <- MCAnyAddress
  Default <- MCDefault
  Colon = Colon
  FaultBound = 1
  Missing = Missing
  Torn = Torn
  None = None
INVARIANT
  InvalidAddressExits
