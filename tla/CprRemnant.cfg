CONSTANTS
    LastAddr = 3
    Byte <- MCByte
    Zero = 0
    OpenBus = 255
    PageBytes = 2
    LastPage = 1
    MaxRiffLen = 100
    Files <- MCRemnantFiles
    OldByte = 7
    StallTimeout = 10
    CpuAddrs = {0, 3}
    HalfCycle = 8
    ReadSlot = 6
    ResetFiles <- MCRemnantFiles
    BusyFiles <- MCRemnantFiles
    MaxResets = 0
SPECIFICATION FairSpec
PROPERTIES ErrorLetsGo
