SPECIFICATION Spec
CONSTANTS
  None = None
  r1 = r1
  r2 = r2
  r3 = r3
  Resources <- ThreeResources
  Devices <- ThreeDevices
  Length <- LengthOf
  Slots = 2
  Default <- DiskFirst
  Lists <- SomeLists
INVARIANT TypeOK
INVARIANT SlotsAsConfigured
INVARIANT RefusedOnlyInARace
SYMMETRY Alike
