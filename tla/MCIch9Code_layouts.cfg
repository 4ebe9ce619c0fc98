SPECIFICATION Spec
CONSTANTS
  Factory <- MCFactory
  Address <- MCAddress
  Garbage = Garbage
  None = None
INVARIANTS
  TypeOK
  AcceptedIsRight
  Recreates
  ImplementsDescriptor
  MapsAgree
  FixedSumsUp
  ImagesSound
