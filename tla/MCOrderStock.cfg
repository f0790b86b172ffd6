SPECIFICATION Spec
CONSTANTS
    Product = {1}
    OpenStatus = {"pending"}
    IntColumn <- MCColumn
    LineQuantity = {1, 2}
    PatchQuantity = {1}
    PatchReserved = {0, 1}
    MaxLines = 2
    MaxOrders = 2
    MaxItems = 3
    MaxHeld = 2
INVARIANTS
    TypeOK
    BackordersWellFormed
    OldestServedFirst
PROPERTIES
    OnlyOversellGoesShort
    RestoredOnceOnLeaving
    NoSilentShortage
    SalesAndArrivalsKeepMatch
