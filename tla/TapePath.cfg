CONSTANTS
    Cells <- MCCells
    MainCells <- MCMain
    Byte = {0, 1}
    GrantLimit = 2
    ResetSlots = 3
    PrechargeAt = 2
    LoadModeAt = 1
    File <- MCFile
    MinHold = 1
    MaxHits = 1
    MaxReads = 4
SPECIFICATION TapeSpec
INVARIANTS TapeIsTheFile PlaysInOrder
