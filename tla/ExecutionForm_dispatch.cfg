\* Two devices whose lists show one entry each, two entries, two waiting calls.
CONSTANTS
  d1 = d1
  d2 = d2
  Device = {d1, d2}
  MaxEntry = 2
  Limit = 1
  MaxStatus = 1
  MaxCalls = 2
  None = None
SPECIFICATION Spec
SYMMETRY DeviceSymmetry
INVARIANTS
  TypeOK
  ChosenLeastLoaded
PROPERTIES
  ShownGrows
