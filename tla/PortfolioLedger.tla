---------------------------- MODULE PortfolioLedger ---------------------------
(***************************************************************************)
(* The accounting of fills: apply_buy and apply_sell of                    *)
(* domain/portfolio/ledger.py on a portfolio of one security.              *)
(*                                                                         *)
(* A portfolio is an immutable value; each operation returns the next one. *)
(* An operation that raises is one whose Can... condition is false.        *)
(*                                                                         *)
(* Abstractions.  Lots are a set: their ids are unique, and the list       *)
(* position breaks no tie.  Money is an integer number of the smallest     *)
(* amount kept, so a quotient is rounded down where the code rounds it to  *)
(* the precision of Decimal.  The fees of a fill are one amount.  Postings *)
(* are added up per account, debits positive.                              *)
(***************************************************************************)
EXTENDS Integers, Sequences, FiniteSets, FiniteSetsExt, Functions

(* opened_by_fill_id: the fill, followed by the actions that credited the   *)
(* lot from one another.                                                    *)
Lot(id, acquired, sellable, qty, cost, principal) ==
    [id |-> id, acquired |-> acquired, sellable |-> sellable, qty |-> qty,
     cost |-> cost, principal |-> principal]

Fill(id, day, qty, price, fees) ==
    [id |-> id, day |-> day, qty |-> qty, price |-> price, fees |-> fees]

Gross(fill) == fill.price * fill.qty

(* position_quantity, position_cost and the principal of some lots. *)
Quantity(lots)  == SumFunction([lot \in lots |-> lot.qty])
Cost(lots)      == SumFunction([lot \in lots |-> lot.cost])
Principal(lots) == SumFunction([lot \in lots |-> lot.principal])

EmptyBooks == [cash |-> 0, position |-> 0, expenses |-> 0, pnl |-> 0,
               receivable |-> 0, income |-> 0]

(* applied_fill_ids: fills, and the fills that opened the lots still held. *)
AppliedFills(p) == p.fills \cup {lot.id[1] : lot \in {l \in p.lots : Len(l.id) = 1}}

-----------------------------------------------------------------------------
BuyCost(fill) == Gross(fill) + fill.fees

(* Slip: the fees are forgotten in the check. *)
CanBuyGross(p, fill, sellableOn) ==
    /\ fill.id \notin AppliedFills(p)
    /\ sellableOn > fill.day
    /\ p.cash >= Gross(fill)

CanBuy(p, fill, sellableOn) ==
    /\ fill.id \notin AppliedFills(p)
    /\ sellableOn > fill.day
    /\ p.cash >= BuyCost(fill)

BuyEntry(books, fill) ==
    [books EXCEPT !.position = @ + BuyCost(fill), !.cash = @ - BuyCost(fill)]

Bought(p, fill, sellableOn) ==
    [p EXCEPT
        !.cash = @ - BuyCost(fill),
        !.lots = @ \cup {Lot(<<fill.id>>, fill.day, sellableOn, fill.qty,
                             BuyCost(fill), Gross(fill))},
        !.fills = @ \cup {fill.id},
        !.books = BuyEntry(@, fill)]

-----------------------------------------------------------------------------
(* Slip: every lot of the position is offered to the sale. *)
EligibleIgnoresLock(lots, day) == lots

Eligible(lots, day) == {lot \in lots : lot.sellable <= day}

(* Ids of one length compare number by number. *)
Less(s, t) == \E i \in DOMAIN s : s[i] < t[i] /\ \A j \in 1..(i - 1) : s[j] = t[j]

(* FIFO: by acquisition time, then by id.  Credited lots share the time of  *)
(* the lot they come from; the text of the ids decides which goes first.    *)
Precedes(l, m, creditedFirst) ==
    \/ l.acquired < m.acquired
    \/ /\ l.acquired = m.acquired
       /\ IF Len(l.id) = Len(m.id) THEN Less(l.id, m.id)
          ELSE (Len(l.id) > Len(m.id)) = creditedFirst

(* What a sale of qty shares takes from a lot of the queue. *)
Consumed(queue, lot, qty, creditedFirst) ==
    LET ahead == Quantity({l \in queue : Precedes(l, lot, creditedFirst)})
    IN  Min({lot.qty, Max({0, qty - ahead})})

AllocatedCost(lot, consumed) == (lot.cost * consumed) \div lot.qty

(* Slip: a partial sale forgets to reduce the cost it leaves. *)
RemainderKeepsCost(lot, consumed) ==
    [lot EXCEPT !.qty = @ - consumed,
                !.principal = (@ * (lot.qty - consumed)) \div lot.qty]

Remainder(lot, consumed) ==
    [lot EXCEPT !.qty = @ - consumed,
                !.cost = @ - AllocatedCost(lot, consumed),
                !.principal = (@ * (lot.qty - consumed)) \div lot.qty]

(* Slip: a lot the sale touches is gone, also when shares are left. *)
SurvivorsWhole(queue, qty, creditedFirst) ==
    {lot \in queue : Consumed(queue, lot, qty, creditedFirst) = 0}

(* What a sale leaves of the lots. *)
Survivors(queue, qty, creditedFirst) ==
    {Remainder(lot, Consumed(queue, lot, qty, creditedFirst)) :
        lot \in {l \in queue : Consumed(queue, l, qty, creditedFirst) < l.qty}}

SoldCost(queue, qty, creditedFirst) ==
    SumFunction([lot \in queue |->
                    AllocatedCost(lot, Consumed(queue, lot, qty, creditedFirst))])

Proceeds(fill) == Gross(fill) - fill.fees

SaleCovered(p, fill) ==
    /\ fill.id \notin AppliedFills(p)
    /\ fill.qty <= Quantity(Eligible(p.lots, fill.day))
    /\ p.cash + Proceeds(fill) >= 0

(* LedgerPosting takes positive amounts only, and the credit of the sold    *)
(* cost is posted whatever it is.                                           *)
SalePosts(p, fill, creditedFirst) ==
    SoldCost(Eligible(p.lots, fill.day), fill.qty, creditedFirst) > 0

CanSell(p, fill, creditedFirst) == SaleCovered(p, fill) /\ SalePosts(p, fill, creditedFirst)

SellEntry(books, fill, cost) ==
    [books EXCEPT !.cash = @ + Proceeds(fill), !.expenses = @ + fill.fees,
                  !.position = @ - cost, !.pnl = @ - (Gross(fill) - cost)]

Sold(p, fill, creditedFirst) ==
    LET queue == Eligible(p.lots, fill.day)
        cost  == SoldCost(queue, fill.qty, creditedFirst)
    IN  [p EXCEPT
            !.cash = @ + Proceeds(fill),
            !.lots = (@ \ queue) \cup Survivors(queue, fill.qty, creditedFirst),
            !.fills = @ \cup {fill.id},
            !.books = SellEntry(@, fill, cost)]
===============================================================================
