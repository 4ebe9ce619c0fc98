SPECIFICATION Spec
CONSTANTS
  Factory <- MCFactory
  Address <- MCAddress
  Garbage = Garbage
  None = None
INVARIANTS
  SumsUp
