CONSTANTS
    Cells <- MCCells
    MainCells <- MCMain
    CartCells <- MCCart
    Byte = {0, 1}
    GrantLimit = 2
    ResetSlots = 3
    PrechargeAt = 2
    LoadModeAt = 1
    Saves = TRUE
    MaxWait = 9
SPECIFICATION Spec
INVARIANTS AckIsOwn OneSlotPerRequest RefreshedInTime ServedInTime MainServed VideoIsCoherent
PROPERTY SaveYields
