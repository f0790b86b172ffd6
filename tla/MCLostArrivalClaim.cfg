SPECIFICATION SpecArrivals
CONSTANTS
    Product = {1, 2}
    OpenStatus = {"pending"}
    IntColumn <- MCColumn
    LineQuantity = {1, 2}
    PatchQuantity = {1}
    PatchReserved = {0}
    MaxLines = 2
    MaxOrders = 5
    MaxItems = 8
    MaxHeld = 6
    Connection = {a, b}
    RowOrder <- MCRowOrder
INVARIANT BackordersMatchDeficit
CHECK_DEADLOCK FALSE
