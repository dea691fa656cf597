--------------------------- MODULE PortfolioTimeline ---------------------------
(***************************************************************************)
(* An account over the sessions of a replay: corporate actions before the  *)
(* open and after the close, fills in between.  The callers are the replay *)
(* loops (application/minute_grid_replay.py, daily_scheduled_plan.py,      *)
(* grid_strategy.py); what they trade is left open.                        *)
(*                                                                         *)
(* trades is a history of the fills.  From it and the calendar alone the   *)
(* properties work out what the account must be, and the portfolio has to  *)
(* agree.                                                                  *)
(***************************************************************************)
EXTENDS CorporateActions

CONSTANTS
    LastDay,       (* every date 1..LastDay is a session *)
    Names,         (* of the corporate actions *)
    Calendars,     (* the sets of corporate actions a run may meet *)
    OpeningCash,
    Quantities,    (* shares of a BUY fill *)
    Price, Fees,   (* of every fill *)
    MaxFills       (* bound: fills in a run *)

ASSUME TimelineAssumption ==
    /\ LastDay \in Nat \ {0} /\ Names \subseteq Nat
    /\ OpeningCash \in Nat /\ Quantities \subseteq Nat \ {0}
    /\ Price \in Nat \ {0} /\ Fees \in Nat /\ MaxFills \in Nat
ASSUME CalendarsAssumption ==
    \A actions \in Calendars :
        /\ IsFiniteSet(actions)
        /\ actions \subseteq ActionSet(Names, Nat)
        /\ \A a \in actions : ValidAction(a)
        /\ \A a, b \in actions : a.name = b.name => a = b

VARIABLES
    actions,       (* chosen once *)
    day, phase,    (* before, open, closed; or failed: the replay was given up *)
    portfolio,
    trades         (* history *)

vars == <<actions, day, phase, portfolio, trades>>

Init ==
    /\ actions \in Calendars
    /\ day = 1 /\ phase = "before"
    /\ portfolio = NewPortfolio(OpeningCash, {a.name : a \in actions})
    /\ trades = {}

(* An exception ends the replay and leaves the portfolio as it was. *)
Reaches(p, next) ==
    /\ portfolio' = IF p.ok THEN p ELSE portfolio
    /\ phase' = IF p.ok THEN next ELSE "failed"

OpenSession ==
    /\ phase = "before"
    /\ Reaches(BeforeSession(portfolio, actions, day), "open")
    /\ UNCHANGED <<actions, day, trades>>

NextFill(qty) == Fill(Cardinality(trades) + 1, day, qty, Price, Fees)

Recorded(side, fill) == trades' = trades \cup {[side |-> side, fill |-> fill]}

CanTrade == phase = "open" /\ Cardinality(trades) < MaxFills

(* The shares can be sold from the next session on. *)
BuyFill(qty) ==
    /\ CanTrade
    /\ CanBuy(portfolio, NextFill(qty), day + 1)
    /\ portfolio' = Bought(portfolio, NextFill(qty), day + 1)
    /\ Recorded("buy", NextFill(qty))
    /\ UNCHANGED <<actions, day, phase>>

SellFill(qty) ==
    /\ CanTrade
    /\ \E creditedFirst \in BOOLEAN :
          /\ CanSell(portfolio, NextFill(qty), creditedFirst)
          /\ portfolio' = Sold(portfolio, NextFill(qty), creditedFirst)
    /\ Recorded("sell", NextFill(qty))
    /\ UNCHANGED <<actions, day, phase>>

(* The sale is covered and its posting is refused: no caller expects that.  *)
SaleFails(qty) ==
    /\ CanTrade
    /\ SaleCovered(portfolio, NextFill(qty))
    /\ \E creditedFirst \in BOOLEAN : ~SalePosts(portfolio, NextFill(qty), creditedFirst)
    /\ phase' = "failed"
    /\ UNCHANGED <<actions, day, portfolio, trades>>

CloseSession ==
    /\ phase = "open"
    /\ Reaches(AfterSession(portfolio, actions, day), "closed")
    /\ UNCHANGED <<actions, day, trades>>

NextSession ==
    /\ phase = "closed" /\ day < LastDay
    /\ day' = day + 1 /\ phase' = "before"
    /\ UNCHANGED <<actions, portfolio, trades>>

Next ==
    \/ OpenSession \/ CloseSession \/ NextSession
    \/ \E qty \in Quantities : BuyFill(qty)
    \/ \E qty \in 1..Quantity(portfolio.lots) : SellFill(qty)
    \/ \E qty \in 1..Quantity(portfolio.lots) : SaleFails(qty)

Spec == Init /\ [][Next]_vars

-----------------------------------------------------------------------------
(* What the calendar and the trades say of the account. *)

Traded(side, upTo) == {t.fill : t \in {x \in trades : x.side = side /\ x.fill.day <= upTo}}

(* The boundary of a day that has passed. *)
OpenedBy == IF phase = "before" THEN day - 1 ELSE day
ClosedBy == IF phase = "closed" THEN day ELSE day - 1

ClaimOf(a) == portfolio.claims[a.name]

Claims == {a \in actions : a.kind # "rights"}

(* Shares registered at the end of a day. *)
SharesAt(upTo) ==
    Quantity(Traded("buy", upTo)) - Quantity(Traded("sell", upTo))
    + SumFunction([a \in {c \in Claims : c.kind \in ShareKinds /\ c.settle <= upTo} |->
                      ClaimOf(a).delta])

DividendsPaid == {a \in Claims : a.kind = "dividend" /\ a.settle <= ClosedBy}

(* What was recorded before the first session is never registered. *)
StatusNow(a) ==
    IF a.record \notin 1..ClosedBy THEN "none"
    ELSE IF OpenedBy < a.ex THEN "captured"
    ELSE IF a.settle <= (IF a.kind = "dividend" THEN ClosedBy ELSE OpenedBy) THEN "settled"
    ELSE "accrued"

(* The portfolio has the shape of PortfolioState: cash is not negative and  *)
(* every open lot has shares, a cost and a principal that are not negative. *)
TypeOK ==
    /\ actions \in Calendars /\ day \in 1..LastDay
    /\ phase \in {"before", "open", "closed", "failed"}
    /\ portfolio.ok /\ portfolio.cash \in Nat
    /\ \A lot \in portfolio.lots :
          /\ lot.qty \in Nat \ {0} /\ lot.cost \in Nat /\ lot.principal \in Nat
          /\ lot.sellable >= lot.acquired
    /\ \A a, b \in portfolio.lots : a.id = b.id => a = b

(* The lots hold exactly the shares bought and not sold, plus what settled  *)
(* actions gave: no sale, split or credit loses or invents a share          *)
(* (apply_sell, settle_corporate_action).                                   *)
HoldingsAsStated ==
    phase # "failed" => Quantity(portfolio.lots) = SharesAt(OpenedBy)

(* Cash is what the fills moved plus the dividends whose pay date has       *)
(* closed: a dividend is not spendable in its own pay session               *)
(* (apply_after_session, CORPORATE_ACTION_POLICY).                          *)
CashAsStated ==
    phase # "failed" =>
        portfolio.cash = OpeningCash
            - SumFunction([fill \in Traded("buy", day) |-> BuyCost(fill)])
            + SumFunction([fill \in Traded("sell", day) |-> Proceeds(fill)])
            + SumFunction([a \in DividendsPaid |-> a.perShare * SharesAt(a.record)])

(* An entitlement is in the phase the calendar says, and amounts to what    *)
(* the holding at the close of the record date earns whatever was traded    *)
(* since (capture_corporate_action_entitlement, the two boundaries).        *)
EntitlementsAsStated ==
    phase # "failed" =>
        \A a \in Claims :
            /\ ClaimOf(a).status = StatusNow(a)
            /\ StatusNow(a) # "none" =>
                  /\ ClaimOf(a).qty = SharesAt(a.record)
                  /\ ClaimOf(a).cash = IF a.kind = "dividend"
                                       THEN a.perShare * SharesAt(a.record) ELSE 0
                  /\ a.kind \in ShareKinds =>
                        a.den * (ClaimOf(a).qty + ClaimOf(a).delta) = a.num * ClaimOf(a).qty

(* The journal and the account tell the same story: each entry balances,    *)
(* and the accounts for cash, positions and receivables come to the cash,   *)
(* the cost of the lots and the dividends owed (_buy_entry, _sell_entry,    *)
(* the postings of accrual and settlement).                                 *)
BooksAgree ==
    LET books == portfolio.books
    IN  /\ books.cash + books.position + books.expenses + books.pnl
             + books.receivable + books.income = 0
        /\ books.cash = portfolio.cash - OpeningCash
        /\ books.position = Cost(portfolio.lots)
        /\ books.receivable = Receivable(portfolio)

(* A boundary that is run again, also after trades of the session, changes  *)
(* nothing ("staged, idempotent portfolio transitions").                    *)
BoundariesRepeat ==
    /\ phase \in {"open", "closed"} => BeforeSession(portfolio, actions, day) = portfolio
    /\ phase = "closed" => AfterSession(portfolio, actions, day) = portfolio

(* Acquisition principal is never made up: the boundaries move it between   *)
(* lots and the shares still to be given without changing the total, and a  *)
(* sale only takes from it (share_principals, apply_sell).                  *)
PrincipalCarried ==
    [][ /\ trades' = trades => PrincipalInAll(portfolio') = PrincipalInAll(portfolio)
        /\ trades' # trades /\ portfolio'.cash > portfolio.cash
              => PrincipalInAll(portfolio') <= PrincipalInAll(portfolio) ]_vars

Left(id) == Quantity({lot \in portfolio'.lots : lot.id = id})

(* A sale takes nothing from shares that are locked, and nothing from a lot *)
(* while an older one that could be sold has shares left (FIFO, T+1 and     *)
(* share_sellable_date in apply_sell).                                      *)
SalesTakeOldestUnlocked ==
    [][ \A lot \in portfolio.lots :
          trades' # trades /\ Left(lot.id) < lot.qty =>
             /\ lot.sellable <= day
             /\ \A older \in portfolio.lots :
                   older.sellable <= day /\ older.acquired < lot.acquired => Left(older.id) = 0 ]_vars

-----------------------------------------------------------------------------
(* The account as AccountContract has it: a session that is closed is the   *)
(* time before the next, and a claim is owed from its record close until it *)
(* settles.                                                                 *)
Today == IF phase = "closed" THEN day + 1 ELSE day

AccountPhase == IF phase = "closed" THEN "before" ELSE phase

AccountDates == 1..(LastDay + 1)

ClaimState(status) == IF status \in {"captured", "accrued"} THEN "owed" ELSE status

AccountClaims ==
    [a \in actions |-> [state  |-> ClaimState(ClaimOf(a).status),
                        cash   |-> ClaimOf(a).cash,
                        shares |-> ClaimOf(a).delta]]

SellableBy == [d \in AccountDates |-> Quantity(Eligible(portfolio.lots, d))]

Account == INSTANCE AccountContract WITH
    Dates <- AccountDates, calendar <- actions, day <- Today, phase <- AccountPhase,
    cash <- portfolio.cash, held <- Quantity(portfolio.lots),
    sellableBy <- SellableBy, claims <- AccountClaims

(* The lots, the queue of a sale, the phases of the actions and the journal *)
(* implement the account an engine counts on (apply_buy, apply_sell, the    *)
(* boundaries of TimelineCorporateActionApplier).                           *)
ImplementsAccount == Account!Spec

(* "Apply one sell fill against eligible lots" (apply_sell): whatever could *)
(* be sold by its date, and whose fees the cash covers, is sold.            *)
EligibleSharesSell ==
    CanTrade =>
        \A qty \in 1..Quantity(portfolio.lots), creditedFirst \in BOOLEAN :
            SaleCovered(portfolio, NextFill(qty)) =>
                CanSell(portfolio, NextFill(qty), creditedFirst)
===============================================================================
