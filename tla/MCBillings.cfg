SPECIFICATION Spec
SYMMETRY Symmetry
CONSTANTS
    LineInput <- MCLineInput
    Amount = {0, 1}
    EditFields <- MCEditFields
    OpenStatus = {"pending"}
    SellersNumber = {9}
    Connection = {a, b}
    MaxOrders = 1
    MaxLines = 2
    MaxCharges = 2
INVARIANTS
    ChargesOK
    ChargedOnce
PROPERTIES
    OnlyStaleEditsBreak
    CanceledOrdersCollectNothing
    OnlyAddedLinesSkewTotals
