CONSTANTS
    LastAddr = 3
    Byte <- MCByte
    Zero = 0
    OpenBus = 255
    PageBytes = 2
    LastPage = 1
    MaxRiffLen = 100
    Files <- MCFiles
    OldByte = 7
    StallTimeout = 10
    CpuAddrs = {0, 3}
    HalfCycle = 8
    ReadSlot = 6
    ResetFiles <- MCResetFiles
    BusyFiles <- MCBusyFiles
    MaxResets = 1
SPECIFICATION FairSpec
INVARIANTS VisibleImageIsTheFile CpuReadsTheImage
PROPERTIES AcceptedIsPublished CpuRuns
