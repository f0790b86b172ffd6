----------------------------- MODULE Storefront -----------------------------
(***************************************************************************)
(* What the public catalog shows of a product and what an order of it      *)
(* charges.  The list, the page of the product and the order each work the *)
(* price out anew from the rows of prices and promotions, and the seller   *)
(* may change those, and the stock, between any two reads.  One product    *)
(* and one buyer: orders of the catalog take no stock, so that buyers do   *)
(* not meet.                                                               *)
(***************************************************************************)
EXTENDS Integers, Sequences, FiniteSets, FiniteSetsExt

CONSTANTS
    Amount,         \* sale prices, in cents
    Percent,        \* discounts of promotions
    MaxDay,         \* bound: days
    MaxRows,        \* bound: rows of prices and promotions
    MaxQuantity     \* bound: units in stock and units in a line

VARIABLES
    day,        \* today
    active,     \* is the product on offer?
    prices,     \* its rows of product_prices of type sale, oldest first
    promotions, \* its rows of promotions, oldest first
    stock,      \* what store_stock has to sell, or Untracked
    task        \* what the buyer is doing

vars == <<day, active, prices, promotions, stock, task>>

Untracked == -1
None == -1
Day == 0..MaxDay
Quantity == 1..MaxQuantity

\* An order has a line of the product, or two.
Lines == {<<q>> : q \in Quantity} \cup (Quantity \X Quantity)

Idle == [op |-> "none"]

TypeOK ==
    /\ day \in Day /\ active \in BOOLEAN
    /\ prices \in Seq([amount : Amount, from : Day, active : BOOLEAN])
    /\ \A i \in DOMAIN promotions : promotions[i].start < promotions[i].end
    /\ stock \in 0..MaxQuantity \cup {Untracked}
    /\ task = Idle \/ task.op \in {"look", "prices", "promotions", "create"}
-----------------------------------------------------------------------------
\* findActivePrices, findLatestPrice: active and begun.  No code looks at valid_to.
InForce == {i \in DOMAIN prices : prices[i].active /\ prices[i].from <= day}

\* The newest price in force, if any.
PriceNow == IF InForce = {} THEN None ELSE prices[Max(InForce)].amount

\* findActivePromotions: the stored status matters only once the seller has
\* ended it.  A promotion is over when its last day begins.
Running ==
    {i \in DOMAIN promotions :
        /\ promotions[i].start <= day /\ day < promotions[i].end
        /\ ~promotions[i].ended}

\* The list takes the newest promotion, and leaves out what has no price.
Listed == IF Running = {} THEN PriceNow ELSE promotions[Max(Running)].amount

\* The page of a product knows no promotions, and shows 0 for want of a price.
OnPage == IF PriceNow = None THEN 0 ELSE PriceNow

\* Mutant: promotions are forgotten.
ChargeWithoutPromotions(price) == IF price = None THEN 0 ELSE price

\* An order: of several promotions each overwrites the one before, so that the
\* oldest is left; none applies to what has no price.
ChargeOf(price) ==
    IF price = None THEN 0
    ELSE IF Running = {} THEN price
    ELSE promotions[Min(Running)].amount
-----------------------------------------------------------------------------
(* The buyer *)

Look(place, amount) ==
    /\ task.op \in {"none", "look"}
    /\ active
    /\ task' = [op |-> "look", place |-> place, shown |-> amount]
    /\ UNCHANGED <<day, active, prices, promotions, stock>>

BrowseList == PriceNow # None /\ Look("list", Listed)

OpenPage == Look("page", OnPage)

\* Every line is checked for itself.
Enough(lines) == stock = Untracked \/ \A n \in DOMAIN lines : stock >= lines[n]

\* createOrder finds the product and enough of it ...
CheckStock(lines) ==
    /\ task.op = "look"
    /\ active
    /\ Enough(lines)
    /\ task' = [op |-> "prices", place |-> task.place, shown |-> task.shown,
                lines |-> lines, enough |-> TRUE]
    /\ UNCHANGED <<day, active, prices, promotions, stock>>

\* ... reads its price ...
ReadPrices ==
    /\ task.op = "prices"
    /\ task' = [op |-> "promotions", place |-> task.place, shown |-> task.shown,
                lines |-> task.lines, enough |-> task.enough, price |-> PriceNow]
    /\ UNCHANGED <<day, active, prices, promotions, stock>>

\* ... and its promotions ...
ReadPromotions ==
    /\ task.op = "promotions"
    /\ task' = [op |-> "create", place |-> task.place, shown |-> task.shown,
                lines |-> task.lines, enough |-> task.enough, charge |-> ChargeOf(task.price)]
    /\ UNCHANGED <<day, active, prices, promotions, stock>>

\* ... and creates the order, which leaves the stock alone.
CreateOrder ==
    /\ task.op = "create"
    /\ task' = Idle
    /\ UNCHANGED <<day, active, prices, promotions, stock>>
-----------------------------------------------------------------------------
(* The seller *)

\* What the buyer was shown is out of date from now on.
Outdate == task' = IF task = Idle THEN Idle ELSE [task EXCEPT !.shown = None]

AddPrice(amount, from) ==
    /\ Len(prices) + Len(promotions) < MaxRows
    /\ prices' = Append(prices, [amount |-> amount, from |-> from, active |-> TRUE])
    /\ Outdate
    /\ UNCHANGED <<day, active, promotions, stock>>

\* update: any field may change.
UpdatePrice(i, amount, from, on) ==
    /\ prices' = [prices EXCEPT ![i] = [amount |-> amount, from |-> from, active |-> on]]
    /\ Outdate
    /\ UNCHANGED <<day, active, promotions, stock>>

DeactivatePrice(i) == UpdatePrice(i, prices[i].amount, prices[i].from, FALSE)

\* getLatestProductPrice: the newest active price, even if it has not begun.
Latest ==
    LET on == {i \in DOMAIN prices : prices[i].active}
    IN  IF on = {} THEN 0 ELSE prices[Max(on)].amount

\* Math.round(price * (1 - percent / 100))
Discounted(price, percent) == (price * (100 - percent) + 50) \div 100

CreatePromotion(percent, start, end) ==
    /\ Len(prices) + Len(promotions) < MaxRows
    /\ start < end
    /\ Latest # 0
    /\ promotions' = Append(promotions, [amount |-> Discounted(Latest, percent),
                                         start |-> start, end |-> end, ended |-> FALSE])
    /\ Outdate
    /\ UNCHANGED <<day, active, prices, stock>>

EndPromotion(i) ==
    /\ promotions' = [promotions EXCEPT ![i].ended = TRUE]
    /\ Outdate
    /\ UNCHANGED <<day, active, prices, stock>>

\* The seller's sales, arrivals and edits.
SetStock(level) ==
    /\ stock' = level
    /\ task' = IF task.op \in {"none", "look"} THEN task ELSE [task EXCEPT !.enough = FALSE]
    /\ UNCHANGED <<day, active, prices, promotions>>

SetActive(on) ==
    /\ active' = on
    /\ UNCHANGED <<day, prices, promotions, stock, task>>

Pass ==
    /\ day < MaxDay
    /\ day' = day + 1
    /\ Outdate
    /\ UNCHANGED <<active, prices, promotions, stock>>
-----------------------------------------------------------------------------
Init ==
    /\ day = 0 /\ active = TRUE
    /\ prices = <<>> /\ promotions = <<>>
    /\ stock \in 0..MaxQuantity \cup {Untracked}
    /\ task = Idle

Buy ==
    \/ BrowseList \/ OpenPage
    \/ \E lines \in Lines : CheckStock(lines)
    \/ ReadPrices \/ ReadPromotions \/ CreateOrder

Sell ==
    \/ \E amount \in Amount, from \in Day : AddPrice(amount, from)
    \/ \E i \in DOMAIN prices :
          \/ DeactivatePrice(i)
          \/ \E amount \in Amount, from \in Day, on \in BOOLEAN : UpdatePrice(i, amount, from, on)
    \/ \E percent \in Percent, start \in Day, end \in 1..MaxDay + 1 : CreatePromotion(percent, start, end)
    \/ \E i \in DOMAIN promotions : EndPromotion(i)
    \/ \E level \in 0..MaxQuantity \cup {Untracked} : SetStock(level)
    \/ \E on \in BOOLEAN : SetActive(on)

Next == Buy \/ Sell \/ Pass

Spec == Init /\ [][Next]_vars
-----------------------------------------------------------------------------
(* Properties *)

\* An order charges another price than the buyer was shown only if prices,
\* promotions or the date changed since, if several promotions run, of which
\* the list shows the newest and the order charges the oldest, or if the buyer
\* came by the page of the product, which knows no promotions.
MayMisprice ==
    \/ task.shown = None
    \/ Cardinality(Running) > 1
    \/ task.place = "page" /\ Running # {}

\* It asks for more than there is to sell only if the stock changed since it was
\* checked, or if several of its lines ask for the one product.
MayOversell == ~task.enough \/ Len(task.lines) > 1

\* What the lines of an order ask for together.
Units(lines) == IF Len(lines) = 1 THEN lines[1] ELSE lines[1] + lines[2]

\* An order misprices and oversells only in these cases.
OnlyTheseMisserve ==
    [][CreateOrder =>
          /\ task.charge # task.shown => MayMisprice
          /\ stock # Untracked /\ Units(task.lines) > stock => MayOversell]_vars
=============================================================================
