------------------------------ MODULE Reports ------------------------------
(***************************************************************************)
(* The reports of a seller and the statistics of the administration: which *)
(* orders each counts, by the time they were created, and how money and    *)
(* orders are spread over days, weekdays, months and customers.  A day has *)
(* two instants, its midnight and its evening; days are local days, and in *)
(* the evening it may be the next day already in UTC.                      *)
(***************************************************************************)
EXTENDS Integers, Sequences, FiniteSets, FiniteSetsExt

CONSTANTS
    Customer,   \* customers of the seller
    Product,    \* products, each of a category of its own
    MonthDays,  \* the days of each month of a year
    Week,       \* days in a week
    UtcShift,   \* 1 if an evening is the next day in UTC, else 0
    Bars,       \* bars of the sales chart: 12 in the code
    Limit,      \* length of a ranking: 10 in the code
    FirstDay,   \* bound: the day the calendar starts, a year or more after day 0
    FinalDay,   \* bound: the day it ends
    MaxOrders   \* bound: orders placed

VARIABLES
    now,        \* the instant
    orders      \* orders in the order they were created

vars == <<now, orders>>

Order == [at : 0..2 * FinalDay + 1, total : Nat, customer : Customer, product : Product,
          status : {"pending", "canceled"}]

TypeOK ==
    /\ now \in 0..2 * FinalDay + 1
    /\ orders \in Seq(Order) /\ Len(orders) <= MaxOrders
-----------------------------------------------------------------------------
(* The calendar *)

YearMonths == Len(MonthDays)
YearDays == MapThenSumSet(LAMBDA m : MonthDays[m], DOMAIN MonthDays)

DayOf(t) == t \div 2
Midnight(day) == 2 * day
UtcDay(t) == (t + UtcShift) \div 2

\* Months are counted from the first one, and so are days.
MonthStart(month) ==
    (month \div YearMonths) * YearDays
    + MapThenSumSet(LAMBDA m : MonthDays[m], 1..(month % YearMonths))

MonthOf(day) == CHOOSE m \in 0..day : MonthStart(m) <= day /\ day < MonthStart(m + 1)

\* setMonth and setFullYear keep the number of the day, which may run over into the
\* month that follows.
MonthsBack(day, n) == MonthStart(MonthOf(day) - n) + day - MonthStart(MonthOf(day))

\* getDateRange: from the same time of an earlier day until now.
StartOf(period) ==
    LET day == DayOf(now)
        from == CASE period = "week"  -> day - Week
                  [] period = "month" -> MonthsBack(day, 1)
                  [] period = "year"  -> MonthsBack(day, YearMonths)
    IN  Midnight(from) + (now % 2)
-----------------------------------------------------------------------------
(* The queries: sets of orders, by index *)

Between(from, to) == {i \in DOMAIN orders : from <= orders[i].at /\ orders[i].at <= to}

\* A canceled order is not a sale.
Sales(set) == {i \in set : orders[i].status # "canceled"}

Total(set) == MapThenSumSet(LAMBDA i : orders[i].total, set)

Group(set, Key(_)) == {{j \in set : Key(j) = Key(i)} : i \in set}

Current(period) == Between(StartOf(period), now)

\* Mutant: the period before ends where the current one begins.
PreviousIncluding(period) == Between(2 * StartOf(period) - now, StartOf(period))

\* getPreviousDateRange: as long, and up to the instant before.
Previous(period) == Between(2 * StartOf(period) - now, StartOf(period) - 1)

\* findOrdersBasic and findOrdersWithItems sum up to the summary of the full report.
FullReport(period) == [revenue |-> Total(Sales(Current(period))),
                       orders |-> Cardinality(Current(period)),
                       before |-> Total(Sales(Previous(period)))]

\* aggregateSalesByPeriod: a bar for each day in UTC, or in a year for each name of a
\* month.  The bars come with the newest order first, and the last ones are kept.
BarOf(period, i) ==
    IF period = "year" THEN MonthOf(DayOf(orders[i].at)) % YearMonths
    ELSE UtcDay(orders[i].at)

AllBars(period) == Group(Sales(Current(period)), LAMBDA i : BarOf(period, i))

Kept(bars) == {b \in bars : Cardinality({c \in bars : Max(c) < Max(b)}) < Bars}

SalesChart(period) == Kept(AllBars(period))

\* aggregateOrdersByDayOfWeek counts all orders, by their local day.
WeekChart(period) == Group(Current(period), LAMBDA i : DayOf(orders[i].at) % Week)

\* aggregateSalesByCategory: what sales brought in, in a ranking of six.
ByCategory(period) == Group(Sales(Current(period)), LAMBDA i : orders[i].product)

\* getProductsReport ranks products by the units sold, canceled orders included.
ProductsReport == Group(DOMAIN orders, LAMBDA i : orders[i].product)

\* getChartsData: revenue by day in UTC, and the share of each status.
Timeline(period) == Group(Sales(Current(period)), LAMBDA i : UtcDay(orders[i].at))
ByStatus(period) == Group(Current(period), LAMBDA i : orders[i].status)

\* parseLocalDate: an end date means the midnight at which that day begins.
EndDate(day) == Midnight(day)

\* getSalesReport and the export of orders, from one day to another.
SalesReport(from, to) == Between(Midnight(from), EndDate(to))

\* getGrowthMetrics: day 0 of this month is the midnight of the last day before it.
ThisMonth == Between(Midnight(MonthStart(MonthOf(DayOf(now)))), now)
LastMonth ==
    LET month == MonthOf(DayOf(now))
    IN  Between(Midnight(MonthStart(month - 1)), EndDate(MonthStart(month) - 1))

\* getStats of the administration: up to the first instant of this month, and money
\* whatever the status.
AdminLastMonth ==
    LET month == MonthOf(DayOf(now))
    IN  Between(Midnight(MonthStart(month - 1)), Midnight(MonthStart(month)) - 1)

\* groupOrdersByCustomer: the best customers by what they spent, canceled orders apart.
Ranking ==
    LET groups == Group(Sales(DOMAIN orders), LAMBDA i : orders[i].customer)
    IN  {g \in groups : Cardinality({h \in groups : Total(h) > Total(g)}) < Limit}

\* getCustomersReport: the conversion rate counts the customers of the ranking.
WithOrders == Cardinality(Ranking)
-----------------------------------------------------------------------------
Init == now = Midnight(FirstDay) /\ orders = << >>

Tick ==
    /\ now < 2 * FinalDay + 1
    /\ now' = now + 1
    /\ UNCHANGED orders

\* Each total is twice the one before, so that sums tell which orders they count.
Place(customer, product) ==
    /\ Len(orders) < MaxOrders
    /\ LET total == IF orders = << >> THEN 1 ELSE 2 * orders[Len(orders)].total
       IN  orders' = Append(orders, [at |-> now, total |-> total, customer |-> customer,
                                     product |-> product, status |-> "pending"])
    /\ UNCHANGED now

\* An order is canceled or reopened, whenever it was created.
Cancel(i) ==
    /\ orders' = [orders EXCEPT ![i].status = IF @ = "canceled" THEN "pending" ELSE "canceled"]
    /\ UNCHANGED now

Next ==
    \/ Tick
    \/ \E customer \in Customer, product \in Product : Place(customer, product)
    \/ \E i \in DOMAIN orders : Cancel(i)

Spec == Init /\ [][Next]_vars
-----------------------------------------------------------------------------
(* Properties *)

SumOf(groups) == Total(UNION groups)

\* The parts of each report add up to its summary, and the reports of one period to
\* each other: no order is counted by two of the periods that are compared, and
\* canceled orders count as orders but bring in nothing anywhere.
PartsAddUp(period) ==
    LET report == FullReport(period)
        sold == {i \in Current(period) : orders[i].status = "pending"}
    IN  /\ Current(period) \cap Previous(period) = {}
        /\ report.revenue = Total(sold)
        /\ SumOf(Timeline(period)) = report.revenue
        /\ SumOf(ByCategory(period)) = report.revenue
        /\ Cardinality(UNION WeekChart(period)) = report.orders
        /\ Cardinality(UNION ByStatus(period)) = report.orders

\* The sales chart leaves out sales only if there are more days, or months, than bars,
\* and then the newest ones.
OnlyNewestAreCut(period) ==
    \A i \in Sales(Current(period)) \ UNION SalesChart(period) :
        /\ Cardinality(SalesChart(period)) >= Bars
        /\ \A b \in SalesChart(period) : Max(b) < Max({j \in Sales(Current(period)) :
                                             BarOf(period, j) = BarOf(period, i)})

\* A report from one day to another leaves out the orders of the last day, those made
\* at its midnight apart, and no others.
OnlyLastDayIsLost(from, to) ==
    SalesReport(from, to) = {i \in DOMAIN orders : /\ DayOf(orders[i].at) \in from..to
                                                   /\ orders[i].at <= Midnight(to)}

\* So does the comparison with the month before, while the statistics of the
\* administration count every order of that month.
MonthsCompare ==
    LET month == MonthOf(DayOf(now))
        before == {i \in DOMAIN orders : MonthOf(DayOf(orders[i].at)) = month - 1}
    IN  /\ AdminLastMonth = before
        /\ LastMonth = {i \in before : orders[i].at <= Midnight(MonthStart(month) - 1)}

\* The figures of one instant agree, and what they leave out is known.
FiguresAgree ==
    /\ \A period \in {"week", "month", "year"} : PartsAddUp(period) /\ OnlyNewestAreCut(period)
    /\ \A from, to \in FirstDay..FinalDay : from <= to => OnlyLastDayIsLost(from, to)
    /\ MonthsCompare
=============================================================================
