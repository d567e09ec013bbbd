CONSTANTS
  Channels = {0, 1}
  RamWords = 2
  Registers = {0, 1, 2}
  Floating = 15
  List <- MCList
  CpuBytes = {0, 2}
  MaxAccesses = 3
SPECIFICATION Spec
INVARIANTS ChipAsOrdered WaitBounded
PROPERTIES ReadIsOwn LoadTakesItsTime
