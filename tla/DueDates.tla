------------------------------ MODULE DueDates ------------------------------
(***************************************************************************)
(* The due date of a charge, computeDueDate, as the days pass: the date    *)
(* that a charge made today would fall due, for a customer's billing mode  *)
(* and billing day.  Months are numbered from 0 and weekdays from Sunday,  *)
(* 0, as in JavaScript.  All dates are local midnights.                    *)
(***************************************************************************)
EXTENDS Sums, TLC

CONSTANTS
    FirstDays,  \* days on which the calendar starts, each with its weekday
    Days,       \* bound: days that pass
    Customers   \* billing modes, each with a billing day (NoDay if it has none)

NoDay == -1

Date == [year: Nat, month: 0..11, day: 1..31]

ASSUME DaysAssumption == Days \in Nat
ASSUME CustomersAssumption ==
    \A customer \in Customers :
        \/ customer.mode \in {"per_sale", "biweekly", "custom"} /\ customer.day = NoDay
        \/ customer.mode = "weekly" /\ customer.day \in {NoDay} \cup 0..6
        \/ customer.mode = "monthly" /\ customer.day \in {NoDay} \cup 1..31

VARIABLES
    today,      \* the reference date
    weekday,    \* ... and its day of the week
    customer,   \* mode and day of the customer's billing
    passed      \* days that have passed

vars == <<today, weekday, customer, passed>>
-----------------------------------------------------------------------------
(* The calendar *)

Leap(year) == year % 4 = 0 /\ (year % 100 # 0 \/ year % 400 = 0)

LastDay(year, month) ==
    CASE month = 1 -> IF Leap(year) THEN 29 ELSE 28
      [] month \in {3, 5, 8, 10} -> 30
      [] OTHER -> 31

\* A date that exists.
Real(date) == date \in Date /\ date.day <= LastDay(date.year, date.month)

ASSUME FirstDaysAssumption ==
    \A first \in FirstDays : Real(first.date) /\ first.weekday \in 0..6

\* month += 1, into the next year after December.
NextMonth(date) ==
    [year |-> IF date.month = 11 THEN date.year + 1 ELSE date.year,
     month |-> (date.month + 1) % 12]

\* Mutant: a day past the end of the month stays in it.
DateOfAnyDay(year, month, day) == [year |-> year, month |-> month, day |-> day]

\* Date(year, month, day): a day past the end of the month runs into the next.
DateOf(year, month, day) ==
    IF day <= LastDay(year, month)
    THEN [year |-> year, month |-> month, day |-> day]
    ELSE LET next == NextMonth([year |-> year, month |-> month])
         IN  [year |-> next.year, month |-> next.month, day |-> day - LastDay(year, month)]

\* setDate(getDate() + n), for n no longer than a month.
PlusDays(date, n) == DateOf(date.year, date.month, date.day + n)

\* date1 < date2
Before(date1, date2) ==
    \/ date1.year < date2.year
    \/ date1.year = date2.year /\ date1.month < date2.month
    \/ date1.year = date2.year /\ date1.month = date2.month /\ date1.day < date2.day
-----------------------------------------------------------------------------
(* computeDueDate *)

\* Days until the next target weekday, never today.
DaysUntil(target, current) ==
    LET days == (target - current + 7) % 7 IN IF days = 0 THEN 7 ELSE days

\* The day in that month, or the last day of a month that has no such day.
InMonth(year, month, day) == DateOf(year, month, Lesser(day, LastDay(year, month)))

\* Mutant: the clamped day of this month is taken over into the next.
MonthlyKeepingClamp(date, day) ==
    LET candidate == InMonth(date.year, date.month, day)
        next == NextMonth(date)
    IN  IF Before(date, candidate) THEN candidate
        ELSE InMonth(next.year, next.month, candidate.day)

Monthly(date, day) ==
    LET candidate == InMonth(date.year, date.month, day)
        next == NextMonth(date)
    IN  IF Before(date, candidate) THEN candidate ELSE InMonth(next.year, next.month, day)

WeeklyDay(day) == IF day = NoDay THEN 1 ELSE day

MonthlyDay(day) == IF day = NoDay THEN 5 ELSE day

\* No due date, for a customer whose charges the seller dates by hand.
NoDate == [year |-> 0, month |-> 0, day |-> 0]

computeDueDate(mode, day, date, dayOfWeek) ==
    CASE mode = "per_sale" -> date
      [] mode = "weekly"   -> PlusDays(date, DaysUntil(WeeklyDay(day), dayOfWeek))
      [] mode = "biweekly" -> PlusDays(date, 14)
      [] mode = "monthly"  -> Monthly(date, MonthlyDay(day))
      [] mode = "custom"   -> NoDate

Due == computeDueDate(customer.mode, customer.day, today, weekday)
-----------------------------------------------------------------------------
Init ==
    /\ \E first \in FirstDays : today = first.date /\ weekday = first.weekday
    /\ customer \in Customers
    /\ passed = 0

DayPasses ==
    /\ passed < Days
    /\ today' = PlusDays(today, 1)
    /\ weekday' = (weekday + 1) % 7
    /\ passed' = passed + 1
    /\ UNCHANGED customer

Next == DayPasses

Spec == Init /\ [][Next]_vars
-----------------------------------------------------------------------------
(* Properties *)

Monthlies == customer.mode = "monthly"
Weeklies == customer.mode = "weekly"

\* Days of a year before the first of a month.
DaysBefore(year, month) ==
    Sum([m \in 1..12 |-> LastDay(year, m - 1)], month)

\* Days of the common era up to a date.
DayNumber(date) ==
    LET y == date.year - 1
    IN  365 * y + y \div 4 - y \div 100 + y \div 400
            + DaysBefore(date.year, date.month) + date.day

TypeOK ==
    /\ Real(today) /\ weekday \in 0..6
    /\ customer \in Customers
    /\ passed \in 0..Days

\* A day on which a customer billed by the month is to pay: the billing day, or
\* the last day of a month that is too short for it.
Payday(date) ==
    \/ date.day = MonthlyDay(customer.day)
    \/ date.day < MonthlyDay(customer.day) /\ date.day = LastDay(date.year, date.month)

\* The due date is the first payday, or the first of the customer's weekdays,
\* after the day of the charge, or just two weeks later: never today, at the
\* ends of months, in leap years and over the turn of the year.
NextOccurrence ==
    LET ahead == DayNumber(Due) - DayNumber(today)
    IN  /\ Monthlies =>
              /\ Real(Due) /\ ahead > 0 /\ Payday(Due)
              /\ \A n \in 1..31 : n < ahead => ~Payday(PlusDays(today, n))
        /\ Weeklies =>
              /\ Real(Due) /\ ahead \in 1..7
              /\ (weekday + ahead) % 7 = WeeklyDay(customer.day)
        /\ customer.mode = "biweekly" => Real(Due) /\ ahead = 14

\* As the days pass the due date of a new charge stays where it is until that
\* day comes; it then moves on to the next month, or the next week: no period
\* is skipped and none is charged twice.
NoPeriodSkipped ==
    /\ Monthlies \/ Weeklies => (Due' # Due <=> today' = Due)
    /\ Monthlies /\ today' = Due =>
          Due'.year = NextMonth(Due).year /\ Due'.month = NextMonth(Due).month
    /\ Weeklies /\ today' = Due => DayNumber(Due') = DayNumber(Due) + 7

\* Every charge falls due on the next payday, day by day.
DueOnTime == [][NextOccurrence' /\ NoPeriodSkipped]_vars
=============================================================================
