SPECIFICATION SpecAll
CONSTANTS
    Product = {1, 2}
    OpenStatus = {"pending"}
    IntColumn <- MCColumn
    LineQuantity = {1, 2}
    PatchQuantity = {1}
    PatchReserved = {0}
    MaxLines = 2
    MaxOrders = 4
    MaxItems = 6
    MaxHeld = 6
    Connection = {a, b}
    RowOrder <- MCRowOrder
INVARIANT TablesOK
PROPERTIES
    OnlyStaleReadsOversell
    CreationsAreAtomic
    OnlyRepeatsReturnTwice
    
CHECK_DEADLOCK FALSE
