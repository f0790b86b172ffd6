SPECIFICATION SpecAll
SYMMETRY Symmetry
CONSTANTS
    Request = {r1, r2}
    SalePrice = {10}
    Percent = {40, 50}
    MaxDay = 1
    MaxRows = 3
    MaxQuantity = 1
    Supplier = {"s1"}
    DebtAmount = {1, 2}
    MaxDebts = 2
    MaxCounted = 1
    Ext = {"jpg", "png"}
    PageSize = 1
    MaxFiles = 2
    MaxFaults = 1
    Customer = {"c1"}
    Product = {"p1", "p2"}
    MonthDays <- MCMonthDays
    Week = 2
    UtcShift = 1
    Bars = 1
    Limit = 1
    FirstDay = 5
    FinalDay = 11
    MaxOrders = 2
    FirstDays <- MCFirstDays
    Days = 70
    Customers <- MCCustomers
INVARIANTS
    TypesOK
    
    
    
PROPERTIES
    
    OnlyOverlapsLosePayments
    DueOnTime
CHECK_DEADLOCK FALSE
