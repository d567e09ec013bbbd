CONSTANTS
    HdrWords = 1
    Pages128 = 2
    Pages64 = 1
    PageWords = 1
    WordBytes = 1
    LastGeneration = 3
    MaxPresses = 2
    MaxAborts = 1
    MaxWrites = 1
    MaxMarks = 1
    AbortOutlasts = TRUE
    HostPulls = TRUE
SPECIFICATION FairSpec
INVARIANT PullIsOneSnapshot
PROPERTIES CpuReleased MarkerServed
