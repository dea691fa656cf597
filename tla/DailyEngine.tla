----------------------------- MODULE DailyEngine ------------------------------
(***************************************************************************)
(* The daily replay of one strategy on one security: how entry and exit    *)
(* facts become decisions, decisions become DAY orders, fills change the   *)
(* account, and the account drives the holding-period and risk exits.      *)
(* Translated from application/daily_backtest.py (run_daily_backtest and   *)
(* _attempt_decision).                                                     *)
(*                                                                         *)
(* A session runs through four phases, in the order of the loop body:      *)
(*   preopen   corporate actions, the holding exit that matures today      *)
(*   decide    a decision is opened, kept, cancelled or replaced           *)
(*   attempt   at most one order for the pending decision                  *)
(*   evening   corporate actions, risk exits confirmed by the close        *)
(*                                                                         *)
(* Abstractions.  A fact is the session it is about and the first session  *)
(* whose decision cutoff it meets; facts of one session that meet the same *)
(* cutoff are simultaneous.  Indicators, thresholds and adjusted prices    *)
(* are gone: a fact, or a risk exit while its anchor stands, may come on   *)
(* any day.  Money and shares are integers, a fee is flat, and the matcher *)
(* fills any part of an order at any listed price.  Lots keep only when    *)
(* their shares can be sold; a sale of bonus shares alone, which the       *)
(* ledger refuses (PortfolioTimeline), is filled here.                     *)
(***************************************************************************)
EXTENDS Integers, FiniteSets

CONSTANTS
    Last,              (* sessions 1..Last are in the backtest period *)
    MaxDelay,          (* bound: sessions between a fact and its availability *)
    Strategies,        (* strategies with their execution settings *)
    Plans,             (* corporate actions and what the calendar covers *)
    Prices,            (* fill prices *)
    UpperLimit,        (* the exchange upper limit a BUY is sized at *)
    Fee,               (* fees of one fill *)
    InitialCash,
    MaxExitAttempts    (* DailyBacktestConfig.max_exit_attempts *)

ASSUME PricesAssumption ==
    /\ Prices \subseteq 1..UpperLimit /\ UpperLimit \in Nat
    /\ Fee \in Nat /\ InitialCash \in Nat
    /\ \A price \in Prices : Fee <= price
ASSUME SessionsAssumption ==
    Last \in Nat \ {0} /\ MaxDelay \in Nat /\ MaxExitAttempts \in Nat \ {0}

(* holding = 0: no holding-period rule.  all: the exit rules must hold      *)
(* together (exit.op == "all").                                             *)
StrategySet == [validity : Nat \ {0}, accumulate : BOOLEAN, market : BOOLEAN,
                holding : Nat, risk : BOOLEAN, all : BOOLEAN, retry : BOOLEAN]

(* A record session of 0: no such action.  The ex session is the next one.  *)
PlanSet == [cashRecord : Nat, cashPay : Nat, bonusRecord : Nat, credit : Nat,
            sellable : Nat, nextKnown : BOOLEAN]

ASSUME StrategiesAssumption == Strategies \subseteq StrategySet
ASSUME PlansAssumption ==
    /\ Plans \subseteq PlanSet
    /\ \A p \in Plans : /\ p.cashRecord < p.cashPay
                        /\ p.bonusRecord < p.credit /\ p.credit <= p.sellable

VARIABLES
    strategy, plan,    (* chosen once *)
    day, phase,
    trading,           (* this session's status is TRADING *)
    entries, exits,    (* triggered facts no decision has consumed yet *)
    pending,           (* the pending decision *)
    due,               (* holding_exit_fact: the holding exit emitted today *)
    queued,            (* queued_risk_exit: the session that confirmed it, or 0 *)
    cash,
    free, fresh, credited,  (* shares: sellable, bought today, bonus not yet sellable *)
    dividend, bonus,   (* entitlements *)
    trip,              (* the open round trip: entry session, money so far *)
    target,            (* holding_exit_target_index, or 0 *)
    holdAnchor, riskAnchor, (* sessions of the anchor fills, or 0 *)
    pnl,               (* net_pnl of the closed round trips *)
    crowded,           (* history: another exit was in force when holding matured *)
    activated          (* history: a risk exit was confirmed and is not yet done *)

setup    == <<strategy, plan>>
signals  == <<entries, exits>>
shares   == <<free, fresh, credited>>
claims   == <<dividend, bonus>>
anchors  == <<target, holdAnchor, riskAnchor>>
history  == <<crowded, activated>>
account  == <<cash, shares, claims, trip, pnl, anchors>>
vars == <<setup, day, phase, trading, signals, pending, due, queued, account, history>>

Fact(src, avail) == [src |-> src, avail |-> avail]

Decision(side, kind, fact, opened, attempts) ==
    [side |-> side, kind |-> kind, src |-> fact.src, avail |-> fact.avail,
     opened |-> opened, attempts |-> attempts]

NoDecision == Decision("none", "none", Fact(0, 0), 0, 0)

Entitlement(state, amount) == [state |-> state, amount |-> amount]

Trip(entry, net) == [entry |-> entry, net |-> net]

(* position_quantity, pending_share_delta, _economic_position_quantity *)
Held     == free + fresh + credited
Promised == IF bonus.state = "accrued" THEN bonus.amount ELSE 0
Position == Held + Promised

Receivable == IF dividend.state = "accrued" THEN dividend.amount ELSE 0

(* combined_account_exit *)
Combined == strategy.all /\ (strategy.holding > 0 \/ strategy.risk)

(* Exits of the account stay until they are carried out. *)
Persistent(d) == d.side = "sell" /\ d.kind \in {"holding", "risk"}

Init ==
    /\ strategy \in Strategies /\ plan \in Plans
    /\ day = 1 /\ phase = "preopen" /\ trading = TRUE
    /\ entries = {} /\ exits = {}
    /\ pending = NoDecision /\ due = FALSE /\ queued = 0
    /\ cash = InitialCash /\ free = 0 /\ fresh = 0 /\ credited = 0
    /\ dividend = Entitlement("none", 0) /\ bonus = Entitlement("none", 0)
    /\ trip = Trip(0, 0) /\ pnl = 0
    /\ target = 0 /\ holdAnchor = 0 /\ riskAnchor = 0
    /\ crowded = FALSE /\ activated = FALSE

-----------------------------------------------------------------------------
(* Before the open. *)

(* Facts about this session: none, or one known from some cutoff on.  An    *)
(* event published before the open is known today.                          *)
NewFacts == {{}} \cup {{Fact(day, avail)} : avail \in day..(day + MaxDelay)}

(* _accrue: at the ex session a captured entitlement is recognised. *)
Accrued(e, record) ==
    IF e.state = "captured" /\ day = record + 1 THEN Entitlement("accrued", e.amount) ELSE e

(* Share credit settles before the open, also on the ex session itself. *)
CreditToday == Accrued(bonus, plan.bonusRecord).state = "accrued" /\ day = plan.credit

Unlocked == IF day = plan.sellable THEN credited ELSE 0

PreOpen ==
    /\ phase = "preopen"
    /\ trading' \in BOOLEAN
    /\ \E new \in NewFacts : entries' = entries \cup new
    /\ \E new \in NewFacts :
          /\ new # {} => strategy.market /\ ~Combined
          /\ exits' = exits \cup new
    /\ due' = (~Combined /\ holdAnchor # 0 /\ target = day)
    /\ dividend' = Accrued(dividend, plan.cashRecord)
    /\ trip' = Trip(trip.entry, IF trip.entry # 0 /\ dividend' # dividend
                                THEN trip.net + dividend.amount ELSE trip.net)
    /\ bonus' = IF CreditToday THEN Entitlement("settled", bonus.amount)
                ELSE Accrued(bonus, plan.bonusRecord)
    /\ free' = free + fresh + Unlocked
               + (IF CreditToday /\ day = plan.sellable THEN bonus.amount ELSE 0)
    /\ credited' = credited - Unlocked
                   + (IF CreditToday /\ day < plan.sellable THEN bonus.amount ELSE 0)
    /\ fresh' = 0
    /\ phase' = "decide"
    /\ UNCHANGED <<setup, day, pending, queued, cash, pnl, anchors, history>>

-----------------------------------------------------------------------------
(* Deciding. *)

Available(facts, cutoff) == {f \in facts : f.avail <= cutoff}

(* _consume_latest_available_signal: of the facts consumed, the latest. *)
Latest(facts) == {f \in facts : \A g \in facts : g.src <= f.src}

(* What a position may be sold on, each with the cutoff it met. *)
MarketExit == {Decision("sell", "market", f, day, 0) : f \in Latest(Available(exits, day))}
HoldingExit == IF due THEN {Decision("sell", "holding", Fact(day, day), day, 0)} ELSE {}
RiskExit == {Decision("sell", "risk", Fact(q, q + 1), day, 0) : q \in {queued} \ {0}}

(* _first_available_exit.  The holding exit becomes available at the cutoff *)
(* itself, after anything else that met it.                                 *)
Earliest(decisions) ==
    {x \in decisions : \A y \in decisions :
        \/ x.avail < y.avail
        \/ x.avail = y.avail /\ (x.kind = "holding" => y.kind = "holding")}

(* With no decision pending: sell what is held, else buy. *)
Opened(available, exitDecisions) ==
    LET sells == IF Position > 0 THEN Earliest(exitDecisions) ELSE {}
        buys  == IF Position = 0 \/ strategy.accumulate
                 THEN {Decision("buy", "entry", f, day, 0) : f \in Latest(available)} ELSE {}
    IN  IF sells # {} THEN sells ELSE IF buys # {} THEN buys ELSE {NoDecision}

(* _signal_is_not_older *)
NotOlder(x, d) == x.src > d.src \/ (x.src = d.src /\ x.avail >= d.avail)

(* Slip: only market exits stand against a BUY. *)
ReviewedByMarket(d) ==
    LET opposite == {x \in MarketExit : NotOlder(x, d)}
    IN  IF d.side = "buy" /\ opposite # {} THEN {NoDecision} ELSE {d}

(* An exit replaces a pending BUY while something is held and cancels it    *)
(* when nothing is.                                                         *)
Reviewed(d) ==
    LET opposite    == {x \in MarketExit : NotOlder(x, d)}
        replacement == IF Position > 0
                       THEN Earliest(opposite \cup HoldingExit \cup RiskExit) ELSE {}
    IN  IF d.side = "buy" /\ replacement # {} THEN replacement
        ELSE IF d.side = "buy" /\ opposite # {} THEN {NoDecision} ELSE {d}

Decide ==
    /\ phase = "decide"
    /\ \E d \in IF pending = NoDecision
                THEN Opened(Available(entries, day), MarketExit \cup HoldingExit \cup RiskExit)
                ELSE {pending} :
          pending' \in Reviewed(d)
    /\ entries' = IF pending = NoDecision THEN entries \ Available(entries, day) ELSE entries
    /\ exits' = IF pending.side # "sell" THEN exits \ Available(exits, day) ELSE exits
    /\ queued' = IF pending'.kind = "risk" THEN 0 ELSE queued
    /\ crowded' = (crowded \/ (due /\ pending'.kind # "holding"))
    /\ phase' = "attempt"
    /\ UNCHANGED <<setup, day, trading, due, account, activated>>

-----------------------------------------------------------------------------
(* Attempting. *)

Attempting(side) == phase = "attempt" /\ pending.side = side /\ trading

NothingPending ==
    /\ phase = "attempt" /\ pending = NoDecision
    /\ phase' = "evening"
    /\ UNCHANGED <<setup, day, trading, signals, pending, due, queued, account, history>>

(* Slip: a suspended session ends every decision. *)
SuspendedEndsAll ==
    /\ phase = "attempt" /\ pending # NoDecision /\ ~trading
    /\ pending' = NoDecision
    /\ phase' = "evening"
    /\ UNCHANGED <<setup, day, trading, signals, due, queued, account, history>>

Suspended ==
    /\ phase = "attempt" /\ pending # NoDecision /\ ~trading
    /\ pending' = IF Persistent(pending) THEN pending ELSE NoDecision
    /\ phase' = "evening"
    /\ UNCHANGED <<setup, day, trading, signals, due, queued, account, history>>

(* A BUY needs a proven next session, to be sellable on. *)
NextKnown == day < Last \/ plan.nextKnown

(* Slip: size_pre_open_buy at the lowest price. *)
BuyQuantityAtOpen == IF cash < Fee THEN 0 ELSE (cash - Fee) \div (UpperLimit - 1)

(* size_pre_open_buy: what the cash pays for at the upper limit, with fees. *)
BuyQuantity == IF cash < Fee THEN 0 ELSE (cash - Fee) \div UpperLimit

Tried == Decision(pending.side, pending.kind, Fact(pending.src, pending.avail), pending.opened,
                  pending.attempts + 1)

(* No next session, no upper limit, or not the cash for a single share. *)
BuyRefused ==
    /\ Attempting("buy")
    /\ \E limited \in BOOLEAN : ~NextKnown \/ ~limited \/ BuyQuantity = 0
    /\ pending' = NoDecision
    /\ phase' = "evening"
    /\ UNCHANGED <<setup, day, trading, signals, due, queued, account, history>>

(* Slip: one attempt too many. *)
BuyUnfilledOnceMore ==
    /\ Attempting("buy") /\ NextKnown /\ BuyQuantity > 0
    /\ \E retryable \in BOOLEAN :
          pending' = IF retryable /\ pending.attempts < strategy.validity
                     THEN Tried ELSE NoDecision
    /\ phase' = "evening"
    /\ UNCHANGED <<setup, day, trading, signals, due, queued, account, history>>

(* should_retry_entry *)
BuyUnfilled ==
    /\ Attempting("buy") /\ NextKnown /\ BuyQuantity > 0
    /\ \E retryable \in BOOLEAN :
          pending' = IF retryable /\ pending.attempts + 1 < strategy.validity
                     THEN Tried ELSE NoDecision
    /\ phase' = "evening"
    /\ UNCHANGED <<setup, day, trading, signals, due, queued, account, history>>

(* Slip: the end of the period is not looked at. *)
TargetUnbounded == day + strategy.holding

(* The session a holding period that starts today matures in; none when it  *)
(* is after the end of the period.                                          *)
Target == IF day + strategy.holding <= Last THEN day + strategy.holding ELSE 0

(* The first fill of a round trip starts the trip and sets the anchors. *)
BuyFilled ==
    /\ Attempting("buy") /\ NextKnown
    /\ \E quantity \in 1..BuyQuantity, price \in Prices :
          /\ cash' = cash - (quantity * price + Fee)
          /\ trip' = Trip(IF trip.entry = 0 THEN day ELSE trip.entry,
                          trip.net - (quantity * price + Fee))
          /\ fresh' = fresh + quantity
    /\ IF strategy.holding > 0 /\ holdAnchor = 0
       THEN holdAnchor' = day /\ target' = Target
       ELSE UNCHANGED <<holdAnchor, target>>
    /\ riskAnchor' = IF strategy.risk /\ riskAnchor = 0 THEN day ELSE riskAnchor
    /\ pending' = NoDecision
    /\ phase' = "evening"
    /\ UNCHANGED <<setup, day, trading, signals, due, queued, free, credited, claims, pnl, history>>

(* Everything held is promised, or credited and not yet sellable. *)
SellNothing ==
    /\ Attempting("sell") /\ free = 0
    /\ pending' = IF Persistent(pending) /\ strategy.retry THEN pending ELSE NoDecision
    /\ phase' = "evening"
    /\ UNCHANGED <<setup, day, trading, signals, due, queued, account, history>>

(* Slip: holding exits have one too. *)
ExhaustedAny == pending.attempts + 1 >= MaxExitAttempts

(* Only risk exits have a budget of attempts. *)
Exhausted == pending.kind = "risk" /\ pending.attempts + 1 >= MaxExitAttempts

(* should_retry_exit *)
AfterSell(remaining) ==
    IF Persistent(pending) /\ strategy.retry /\ remaining > 0 /\ ~Exhausted
    THEN Tried ELSE NoDecision

StillActivated(remaining) == activated /\ remaining > 0 /\ ~Exhausted

SellUnfilled ==
    /\ Attempting("sell") /\ free > 0
    /\ pending' = AfterSell(Position)
    /\ activated' = StillActivated(Position)
    /\ phase' = "evening"
    /\ UNCHANGED <<setup, day, trading, signals, due, queued, account, crowded>>

(* Slip: the money of the trip is not reset. *)
SettleTripKeepsMoney(remaining, net) ==
    IF remaining > 0
    THEN /\ trip' = Trip(trip.entry, net)
         /\ UNCHANGED <<pnl, anchors, queued>>
    ELSE /\ trip' = Trip(0, net)
         /\ pnl' = pnl + net
         /\ target' = 0 /\ holdAnchor' = 0 /\ riskAnchor' = 0
         /\ queued' = 0

(* The trip is over when the economic position is zero: then its result is  *)
(* recorded and everything anchored to it is dropped.                       *)
SettleTrip(remaining, net) ==
    IF remaining > 0
    THEN /\ trip' = Trip(trip.entry, net)
         /\ UNCHANGED <<pnl, anchors, queued>>
    ELSE /\ trip' = Trip(0, 0)
         /\ pnl' = pnl + net
         /\ target' = 0 /\ holdAnchor' = 0 /\ riskAnchor' = 0
         /\ queued' = 0

(* Slip: promised shares do not count as a position. *)
SellFilledByHeld ==
    /\ Attempting("sell")
    /\ \E quantity \in 1..free, price \in Prices :
          /\ cash' = cash + quantity * price - Fee
          /\ free' = free - quantity
          /\ SettleTrip(Held - quantity, trip.net + quantity * price - Fee)
          /\ pending' = AfterSell(Held - quantity)
          /\ activated' = StillActivated(Held - quantity)
          /\ crowded' = (crowded /\ Held > quantity)
    /\ phase' = "evening"
    /\ UNCHANGED <<setup, day, trading, signals, due, fresh, credited, claims>>

SellFilled ==
    /\ Attempting("sell")
    /\ \E quantity \in 1..free, price \in Prices :
          /\ cash' = cash + quantity * price - Fee
          /\ free' = free - quantity
          /\ SettleTrip(Position - quantity, trip.net + quantity * price - Fee)
          /\ pending' = AfterSell(Position - quantity)
          /\ activated' = StillActivated(Position - quantity)
          /\ crowded' = (crowded /\ Position > quantity)
    /\ phase' = "evening"
    /\ UNCHANGED <<setup, day, trading, signals, due, fresh, credited, claims>>

Attempt ==
    \/ NothingPending \/ Suspended
    \/ BuyRefused \/ BuyUnfilled \/ BuyFilled
    \/ SellNothing \/ SellUnfilled \/ SellFilled

-----------------------------------------------------------------------------
(* After the close. *)

(* A risk rule, or the conjunction of all exit rules, can be confirmed by   *)
(* this close.                                                              *)
Confirmable ==
    /\ queued = 0 /\ pending.side # "sell" /\ Position > 0 /\ trading
    /\ \/ /\ Combined
          /\ strategy.holding > 0 => holdAnchor # 0 /\ target # 0 /\ day >= target
          /\ strategy.risk => riskAnchor # 0
       \/ ~Combined /\ strategy.risk /\ riskAnchor # 0

PaysToday == dividend.state = "accrued" /\ day = plan.cashPay

Evening ==
    /\ phase = "evening"
    /\ dividend' = IF day = plan.cashRecord THEN Entitlement("captured", Held)
                   ELSE IF PaysToday THEN Entitlement("settled", dividend.amount) ELSE dividend
    /\ cash' = cash + (IF PaysToday THEN dividend.amount ELSE 0)
    /\ bonus' = IF day = plan.bonusRecord THEN Entitlement("captured", Held) ELSE bonus
    /\ \/ /\ Confirmable
          /\ queued' = day /\ activated' = TRUE
       \/ UNCHANGED <<queued, activated>>
    /\ day' = day + 1
    /\ phase' = IF day < Last THEN "preopen" ELSE "finish"
    /\ due' = FALSE
    /\ UNCHANGED <<setup, trading, signals, pending, shares, trip, pnl, anchors, crowded>>

(* After the last session what is left becomes a decision without a future  *)
(* session.                                                                 *)
Finish ==
    /\ phase = "finish"
    /\ \/ /\ pending # NoDecision
          /\ UNCHANGED <<pending, signals>>
       \/ /\ pending = NoDecision
          /\ pending' \in Opened(Available(entries, day), MarketExit \cup RiskExit)
          /\ entries' = entries \ Available(entries, day)
          /\ exits' = exits \ Available(exits, day)
    /\ phase' = "done"
    /\ UNCHANGED <<setup, day, trading, due, queued, account, history>>

Next == PreOpen \/ Decide \/ Attempt \/ Evening \/ Finish

Spec == Init /\ [][Next]_vars

-----------------------------------------------------------------------------
(* Properties. *)

Facts == [src : 1..Last, avail : 1..(Last + MaxDelay)]

Decisions == [side : {"none", "buy", "sell"}, kind : {"none", "entry", "market", "holding", "risk"},
              src : 0..Last, avail : 0..(Last + MaxDelay + 1), opened : 0..(Last + 1),
              attempts : 0..Last]

Entitlements == [state : {"none", "captured", "accrued", "settled"}, amount : Nat]

TypeOK ==
    /\ strategy \in Strategies /\ plan \in Plans
    /\ day \in 1..(Last + 1)
    /\ phase \in {"preopen", "decide", "attempt", "evening", "finish", "done"}
    /\ trading \in BOOLEAN /\ due \in BOOLEAN
    /\ crowded \in BOOLEAN /\ activated \in BOOLEAN
    /\ entries \subseteq Facts /\ exits \subseteq Facts
    /\ pending \in Decisions
    /\ queued \in 0..Last /\ target \in 0..Last
    /\ holdAnchor \in 0..Last /\ riskAnchor \in 0..Last
    /\ cash \in Int /\ pnl \in Int
    /\ free \in Nat /\ fresh \in Nat /\ credited \in Nat
    /\ dividend \in Entitlements /\ bonus \in Entitlements
    /\ trip \in [entry : 0..Last, net : Int]

(* A BUY sized before the open is paid for whatever it fills at, so the     *)
(* ledger never refuses a fill (size_pre_open_buy against apply_buy).       *)
CashSuffices == cash >= 0

(* When nothing is held the closed round trips account for every cent the   *)
(* account has won or lost, dividends still owed included: no fee, partial  *)
(* fill or dividend is booked to no trip or to two.                         *)
RoundTripsAddUp ==
    Position = 0 => cash + Receivable = InitialCash + pnl

(* The anchors of the account exits, the trip and a queued risk exit belong *)
(* to the position now held: they exist only with it, all from its first    *)
(* fill, through partial fills, additions and bonus shares.                 *)
AnchorsFollowPosition ==
    /\ (trip.entry # 0) = (Position > 0)
    /\ holdAnchor \in {0, trip.entry} /\ riskAnchor \in {0, trip.entry}
    /\ Position > 0 /\ strategy.holding > 0 => holdAnchor # 0
    /\ Position > 0 /\ strategy.risk => riskAnchor # 0
    /\ queued # 0 => Position > 0

(* No BUY is attempted in a session that opened with a holding or risk exit *)
(* for what is held: selling comes first (run_daily_backtest).              *)
ExitBeatsEntry ==
    phase = "attempt" /\ pending.side = "buy" => Position = 0 \/ (queued = 0 /\ ~due)

(* A BUY is attempted only in the sessions its validity covers, counted     *)
(* from the first that could submit it, one attempt a session.              *)
ValidityHolds ==
    phase = "attempt" /\ pending.side = "buy" =>
        /\ day < pending.opened + strategy.validity
        /\ pending.attempts = day - pending.opened

(* A confirmed risk exit is not lost to suspensions, unfilled orders, other *)
(* exits or a pending BUY: until the position is gone or its attempts are   *)
(* used up it is queued or pending.                                         *)
RiskExitPursued ==
    phase = "preopen" /\ activated /\ strategy.retry =>
        queued # 0 \/ (pending.side = "sell" /\ pending.kind = "risk")

(* A holding exit that no other exit preceded in its target session is      *)
(* tried in every session until the position is gone.                       *)
HoldingExitPursued ==
    /\ phase = "preopen" /\ strategy.retry /\ ~Combined /\ ~crowded
    /\ target # 0 /\ day > target
    => pending.side = "sell" /\ pending.kind = "holding"

-----------------------------------------------------------------------------
(* The account as AccountContract has it.  A dividend pays one a share, the *)
(* bonus gives a share for a share.                                         *)
PlanAction(kind, record, settle, sellable, num) ==
    [kind |-> kind, record |-> record, settle |-> settle, sellable |-> sellable,
     perShare |-> 1, num |-> num, den |-> 1]

CashAction  == PlanAction("dividend", plan.cashRecord, plan.cashPay, plan.cashPay, 1)
BonusAction == PlanAction("distribution", plan.bonusRecord, plan.credit, plan.sellable, 2)

ClaimState(state) == IF state \in {"captured", "accrued"} THEN "owed" ELSE state

AccountClaims ==
    [a \in {CashAction, BonusAction} |->
        IF a = CashAction
        THEN [state |-> ClaimState(dividend.state), cash |-> dividend.amount, shares |-> 0]
        ELSE [state |-> ClaimState(bonus.state), cash |-> 0, shares |-> bonus.amount]]

AccountPhase == IF phase \in {"preopen", "finish", "done"} THEN "before" ELSE "open"

AccountDates == 1..(Last + 1)

SellableBy ==
    [d \in AccountDates |-> free + (IF AccountPhase = "before" \/ d > day THEN fresh ELSE 0)
                                + (IF d >= plan.sellable THEN credited ELSE 0)]

Account == INSTANCE AccountContract WITH
    Dates <- AccountDates, calendar <- {CashAction, BonusAction}, phase <- AccountPhase,
    held <- Held, sellableBy <- SellableBy, claims <- AccountClaims

(* The three counts of shares and the two entitlements of this model are    *)
(* the account the ledger keeps, so what it shows of the engine is about    *)
(* the lots of domain/portfolio too; and a BUY sized before the open is     *)
(* paid for whatever it fills at (run_daily_backtest, size_pre_open_buy).   *)
ImplementsAccount == Account!Spec

(* What SPEC.md says of the holding exit: when the target session does not  *)
(* fill it the remaining position stays for sale under later DAY orders.    *)
HoldingExitKept ==
    /\ phase = "preopen" /\ strategy.retry /\ ~Combined
    /\ target # 0 /\ day > target
    => pending.side = "sell" \/ queued # 0

(* What SPEC.md says of an entry trigger valid for one session: it is not   *)
(* chased across sessions, so a decision on it is made in the first session *)
(* that could be.                                                           *)
FreshEntries ==
    phase = "attempt" /\ pending.side = "buy" /\ strategy.validity = 1
        => pending.opened = pending.avail

(* What SPEC.md says of a suspended session: an entry that is still valid   *)
(* is tried again.                                                          *)
SuspendedEntryRetried ==
    [][Suspended /\ pending.side = "buy" /\ pending.attempts + 1 < strategy.validity
          => pending' # NoDecision]_vars
==============================================================================
