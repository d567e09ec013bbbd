CONSTANTS
    HdrWords = 1
    Pages128 = 2
    Pages64 = 1
    PageWords = 2
    WordBytes = 2
    LastGeneration = 2
    MaxPresses = 3
    MaxAborts = 1
    MaxWrites = 1
    MaxMarks = 1
    AbortOutlasts = FALSE
    HostPulls = FALSE
SPECIFICATION Spec
INVARIANTS PublishedIsSnapshot MarkerWritesLand
PROPERTIES NewSaveNewGeneration StalledWriteHeld
