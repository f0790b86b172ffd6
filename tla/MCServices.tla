------------------------------ MODULE MCServices ------------------------------
(* Six components that share no state, for TLC in one run: the public catalog,
   the debts to suppliers, the cache of the dashboard, uploads, reports and due
   dates.  A behaviour of the run is one of one of them. *)
EXTENDS DueDates

CONSTANTS
    Request,                                           \* requests under way at once
    SalePrice, Percent, MaxDay, MaxRows, MaxQuantity,  \* of the storefront
    Supplier, DebtAmount, MaxDebts,                    \* of the debts
    MaxCounted,                                        \* of the dashboard
    Ext, PageSize, MaxFiles, MaxFaults,                \* of the uploads
    Customer, Product, MonthDays, Week, UtcShift,      \* of the reports
    Bars, Limit, FirstDay, FinalDay, MaxOrders

ASSUME StorefrontAssumption ==
    /\ SalePrice \subseteq Nat /\ Percent \subseteq 0..100
    /\ MaxDay \in Nat /\ MaxRows \in Nat /\ MaxQuantity \in Nat
ASSUME DebtsAssumption == DebtAmount \subseteq Nat \ {0} /\ MaxDebts \in Nat
ASSUME DashboardAssumption == MaxCounted \in Nat
ASSUME UploadsAssumption == PageSize \in Nat \ {0} /\ MaxFiles \in Nat /\ MaxFaults \in Nat
ASSUME ReportsAssumption ==
    FirstDay \in Nat /\ FinalDay \in Nat /\ FirstDay <= FinalDay /\ MaxOrders \in Nat

VARIABLES
    part,   \* the component that runs
    shopDay, active, prices, promotions, stock, buyerTask,
    suppliers, debts, paid, debtTask,
    figures, cache, excuse, lookTask,
    objects, avatar, files, erased, faults, late, unread, failed, fileTask,
    now, orders

shopVars == <<shopDay, active, prices, promotions, stock, buyerTask>>
debtVars == <<suppliers, debts, paid, debtTask>>
figureVars == <<figures, cache, excuse, lookTask>>
fileVars == <<objects, avatar, files, erased, faults, late, unread, failed, fileTask>>
reportVars == <<now, orders>>
dueVars == <<today, weekday, customer, passed>>
allVars == <<part, shopVars, debtVars, figureVars, fileVars, reportVars, dueVars>>

SF == INSTANCE Storefront WITH task <- buyerTask, day <- shopDay, Amount <- SalePrice
SD == INSTANCE SupplierDebts WITH task <- debtTask, Amount <- DebtAmount
DC == INSTANCE DashboardCache WITH task <- lookTask, MaxOrders <- MaxCounted
UP == INSTANCE Uploads WITH task <- fileTask
RE == INSTANCE Reports

Symmetry == Permutations(Request)

\* A year of two months, of three days and of two.
MCMonthDays == <<3, 2>>

\* The turn of a year, and the ends of months of 28, 29, 30 and 31 days: 2028 is a leap
\* year, 2100 is none.
MCFirstDays ==
    {[date |-> [year |-> 2027, month |-> 11, day |-> 1], weekday |-> 3],
     [date |-> [year |-> 2028, month |-> 1, day |-> 27], weekday |-> 0],
     [date |-> [year |-> 2100, month |-> 1, day |-> 27], weekday |-> 6]}

\* Of the days of a month some that every month has, and those that some lack.
MCCustomers ==
    [mode: {"per_sale", "biweekly", "custom"}, day: {NoDay}]
    \cup [mode: {"weekly"}, day: {NoDay} \cup 0..6]
    \cup [mode: {"monthly"}, day: {NoDay} \cup {1, 15, 28, 29, 30, 31}]

\* Only the component that runs may begin in several states.
InitAll ==
    /\ part \in {"storefront", "debts", "dashboard", "uploads", "reports", "dues"}
    /\ SF!Init /\ SD!Init /\ DC!Init /\ UP!Init /\ RE!Init /\ Init
    /\ part # "storefront" => stock = SF!Untracked
    /\ avatar = UP!External
    /\ part # "dues" => today.year = 2100 /\ customer = [mode |-> "custom", day |-> NoDay]

NextAll ==
    /\ UNCHANGED part
    /\ IF part = "storefront" THEN SF!Next ELSE UNCHANGED shopVars
    /\ IF part = "debts" THEN SD!Next ELSE UNCHANGED debtVars
    /\ IF part = "dashboard" THEN DC!Next ELSE UNCHANGED figureVars
    /\ IF part = "uploads" THEN UP!Next ELSE UNCHANGED fileVars
    /\ IF part = "reports" THEN RE!Next ELSE UNCHANGED reportVars
    /\ IF part = "dues" THEN Next ELSE UNCHANGED dueVars

SpecAll == InitAll /\ [][NextAll]_allVars
-----------------------------------------------------------------------------
(* The properties, each stated in its component *)

\* Every variable has its type.
TypesOK ==
    CASE part = "storefront" -> SF!TypeOK
      [] part = "debts" -> SD!TypeOK
      [] part = "dashboard" -> DC!TypeOK
      [] part = "uploads" -> UP!TypeOK
      [] part = "reports" -> RE!TypeOK
      [] OTHER -> TypeOK

\* Of each component what only its overlaps, faults and overlooked cases can break.
OnlyTheseMisserve == SF!OnlyTheseMisserve
OnlyOverlapsLosePayments == SD!OnlyOverlapsLosePayments
OnlyTheseShowOld == DC!OnlyTheseShowOld
OnlyTheseOutlive == UP!OnlyTheseOutlive
FiguresAgree == part = "reports" => RE!FiguresAgree
=============================================================================
