CONSTANTS
  HMod = 256
  LMod = 32
  VMod = 128
  AMod = 16384
  WMod = 16
  Tests <- AllTests
SPECIFICATION Spec
INVARIANT BenchAgrees
