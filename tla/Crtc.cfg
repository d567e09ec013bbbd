CONSTANTS
  HMod = 4
  LMod = 4
  VMod = 4
  AMod = 16
  WMod = 4
  Programs <- MCPrograms
  Values <- MCValues
  EdgeWrites = {"R0", "R4", "R5", "R13"}
  MaxWrites = 2
SPECIFICATION Spec
INVARIANT AddressIsLinear
PROPERTIES FrameIsExact OneVsyncPerMatch VsyncKeepsWidth VsyncRecurs
