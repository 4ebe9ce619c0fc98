SPECIFICATION Spec
CONSTANTS
  Rom = {doubled, other, plain}
  Doubled = {doubled, other}
  Lenovo = Lenovo
  Maker = "flashrom_lenovobios_sst"
  FaultBound = 3
  Torn = Torn
  Off = Off
INVARIANTS
  TypeOK
  ReportedBoots
  SecondHalfIsSafe
