SPECIFICATION Spec
CONSTANTS
  Frame = {1, 2}
  Slots = 3
  DiSlots = 3
  DiQueue = 2
  MaxLost = 1
INVARIANTS
  DescriptorsKept
PROPERTIES
  BothGoOn
