--------------------------- MODULE CorporateActions ---------------------------
(***************************************************************************)
(* The phases of a corporate action on a portfolio, from                   *)
(* domain/portfolio/corporate_actions.py: the holding at the close of the  *)
(* record date is locked, recognised on the ex date and settled on the     *)
(* date of the source; and the two boundaries of a session that apply      *)
(* them, from application/corporate_action_timeline.py.                    *)
(*                                                                         *)
(* Every phase is recorded under the action's key, and a phase already     *)
(* recorded is not repeated.  Where the code raises, the result is not ok: *)
(* the values are immutable, so the caller keeps the portfolio it had.     *)
(* Actions of other securities, currencies and the clocks' time of day are *)
(* left out; an action has one revision.                                   *)
(***************************************************************************)
EXTENDS PortfolioLedger

ShareKinds == {"distribution", "split", "reverse"}

(* record < ex <= settle; a share action multiplies a holding by num/den    *)
(* and its shares can be sold from sellable on.  known: the terms were      *)
(* validated by the close of the record date.                               *)
ActionSet(names, days) ==
    [name : names, kind : ShareKinds \cup {"dividend", "rights"},
     record : days, ex : days, settle : days, sellable : days,
     perShare : Nat, num : Nat \ {0}, den : Nat \ {0}, known : BOOLEAN]

ValidAction(a) ==
    /\ a.record < a.ex /\ a.ex <= a.settle /\ a.settle <= a.sellable
    /\ a.kind = "dividend" => a.perShare > 0
    /\ a.kind \in {"distribution", "split"} => a.num > a.den
    /\ a.kind = "reverse" => a.num < a.den

(* CorporateActionEntitlement: record_lots are the lots held at the record  *)
(* close, reserved the principal kept for the shares each will be given.    *)
Claim(status, qty, cash, delta, lots, reserved) ==
    [status |-> status, qty |-> qty, cash |-> cash, delta |-> delta,
     lots |-> lots, reserved |-> reserved]

NoClaim == Claim("none", 0, 0, 0, {}, <<>>)

NewPortfolio(cash, names) ==
    [ok |-> TRUE, cash |-> cash, lots |-> {}, fills |-> {}, books |-> EmptyBooks,
     claims |-> [n \in names |-> NoClaim], phases |-> {}]

Raise(p) == [p EXCEPT !.ok = FALSE]

(* Slip: a phase is never found in the journal. *)
DoneNever(p, a, phase) == FALSE

Done(p, a, phase) == <<a.name, phase>> \in p.phases

Booked(p, a, phase) == [p EXCEPT !.phases = @ \cup {<<a.name, phase>>}]

Accrued(p) == {n \in DOMAIN p.claims : p.claims[n].status = "accrued"}

(* dividend_receivable *)
Receivable(p) == SumFunction([n \in Accrued(p) |-> p.claims[n].cash])

(* Acquisition principal: of the lots, and kept for shares still to be given. *)
ReservedOf(claim) == SumFunction(claim.reserved)

PrincipalKept(p) == SumFunction([n \in Accrued(p) |-> ReservedOf(p.claims[n])])

PrincipalInAll(p) == Principal(p.lots) + PrincipalKept(p)

Divides(divisor, n) == n % divisor = 0

-----------------------------------------------------------------------------
(* Slip: the shares that can be sold are entitled, not the shares held. *)
CapturedClaimSellable(p, a) ==
    LET held == Quantity(Eligible(p.lots, a.record))
    IN  Claim("captured", held,
              IF a.kind = "dividend" THEN a.perShare * held ELSE 0,
              IF a.kind \in ShareKinds THEN (held * a.num) \div a.den - held ELSE 0,
              p.lots, <<>>)

CapturedClaim(p, a) ==
    LET held == Quantity(p.lots)
    IN  Claim("captured", held,
              IF a.kind = "dividend" THEN a.perShare * held ELSE 0,
              IF a.kind \in ShareKinds THEN (held * a.num) \div a.den - held ELSE 0,
              p.lots, <<>>)

(* capture_corporate_action_entitlement *)
Capture(p, a, day) ==
    IF day # a.record THEN Raise(p)
    ELSE IF Done(p, a, "entitlement") THEN p
    ELSE IF \/ ~a.known
            \/ a.kind \in ShareKinds /\ ~Divides(a.den, Quantity(p.lots) * a.num)
         THEN Raise(p)
    ELSE Booked([p EXCEPT !.claims[a.name] = CapturedClaim(p, a)], a, "entitlement")

(* decline_rights_issue *)
Decline(p, a, day) ==
    IF day # a.record THEN Raise(p)
    ELSE IF Done(p, a, "declined") THEN p
    ELSE IF ~a.known THEN Raise(p)
    ELSE Booked(p, a, "declined")

-----------------------------------------------------------------------------
(* Part of a lot's principal belongs to the shares it will be given.  With  *)
(* m the multiplier of the whole holding this is principal * (m - 1) / m.   *)
Reserve(lot, claim) == (lot.principal * claim.delta) \div (claim.qty + claim.delta)

GivesShares(a, claim) == a.kind = "distribution" /\ claim.delta > 0

HeldNow(p, source) == {lot \in p.lots : lot.id = source.id}

RecordLotsKept(p, claim) ==
    \A source \in claim.lots : \E lot \in HeldNow(p, source) : lot.qty = source.qty

Entitled(claim) == {source.id : source \in claim.lots}

(* accrue_corporate_action: what becomes of the claim and of the lots. *)
AccruedClaim(p, a, claim) ==
    [claim EXCEPT !.status = "accrued",
        !.reserved = IF GivesShares(a, claim)
                     THEN [id \in Entitled(claim) |->
                              Reserve(CHOOSE lot \in p.lots : lot.id = id, claim)]
                     ELSE <<>>]

LotsAfterAccrual(p, a, claim) ==
    {IF GivesShares(a, claim) /\ lot.id \in Entitled(claim)
     THEN [lot EXCEPT !.principal = @ - Reserve(lot, claim)] ELSE lot : lot \in p.lots}

AccrualEntry(books, cash) == [books EXCEPT !.receivable = @ + cash, !.income = @ - cash]

Accrue(p, a, day) ==
    LET claim == p.claims[a.name]
    IN  IF day # a.ex THEN Raise(p)
        ELSE IF Done(p, a, "accrual") THEN p
        ELSE IF \/ claim.status # "captured"
                \/ GivesShares(a, claim) /\ ~RecordLotsKept(p, claim)
             THEN Raise(p)
        ELSE Booked([p EXCEPT !.claims[a.name] = AccruedClaim(p, a, claim),
                              !.lots = LotsAfterAccrual(p, a, claim),
                              !.books = AccrualEntry(@, claim.cash)],
                    a, "accrual")

-----------------------------------------------------------------------------
(* Slip: given shares carry the principal of their record lot. *)
GivenLotWhole(a, claim, source) ==
    Lot(Append(source.id, a.name), source.acquired, Max({source.sellable, a.sellable}),
        (source.qty * claim.delta) \div claim.qty, 0, source.principal)

(* Slip: given shares are unlocked with the lot they come from. *)
GivenLotUnlocked(a, claim, source) ==
    Lot(Append(source.id, a.name), source.acquired, source.sellable,
        (source.qty * claim.delta) \div claim.qty, 0, claim.reserved[source.id])

(* settle_corporate_action, by kind.  Given shares keep the clock of the    *)
(* lot they come from, cost nothing and carry the principal kept for them.  *)
GivenLot(a, claim, source) ==
    Lot(Append(source.id, a.name), source.acquired, Max({source.sellable, a.sellable}),
        (source.qty * claim.delta) \div claim.qty, 0, claim.reserved[source.id])

DistributionFits(claim) ==
    \A source \in claim.lots : Divides(claim.qty, source.qty * claim.delta)

(* The lots of a holding that is multiplied as a whole. *)
Scaled(a, claim, lot) ==
    [lot EXCEPT !.qty = (@ * (claim.qty + claim.delta)) \div claim.qty,
                !.sellable = Max({@, a.sellable})]

SplitFits(p, claim) ==
    LET target == claim.qty + claim.delta
    IN  /\ Quantity(p.lots) = claim.qty
        /\ claim.qty > 0 => target > 0
        /\ \A lot \in p.lots : /\ Divides(claim.qty, lot.qty * target)
                               /\ lot.qty * target > 0

SettlementFits(p, a, claim) ==
    /\ GivesShares(a, claim) => DistributionFits(claim)
    /\ a.kind \in {"split", "reverse"} => SplitFits(p, claim)

LotsAfterSettlement(p, a, claim) ==
    IF GivesShares(a, claim)
    THEN p.lots \cup {GivenLot(a, claim, source) : source \in claim.lots}
    ELSE IF a.kind \in {"split", "reverse"}
    THEN {Scaled(a, claim, lot) : lot \in p.lots}
    ELSE p.lots

SettlementEntry(books, cash) == [books EXCEPT !.cash = @ + cash, !.receivable = @ - cash]

Settle(p, a, day) ==
    LET claim == p.claims[a.name]
    IN  IF Done(p, a, "settlement") THEN p
        ELSE IF \/ claim.status # "accrued" \/ day < a.settle
                \/ ~SettlementFits(p, a, claim)
             THEN Raise(p)
        ELSE Booked([p EXCEPT !.claims[a.name].status = "settled",
                              !.cash = @ + claim.cash,
                              !.lots = LotsAfterSettlement(p, a, claim),
                              !.books = SettlementEntry(@, claim.cash)],
                    a, "settlement")

-----------------------------------------------------------------------------
AccruesOn(p, a, day) ==
    a.ex = day /\ p.claims[a.name].status # "none" /\ ~Done(p, a, "accrual")

SettlesBy(p, a, day) ==
    /\ p.claims[a.name].status = "accrued"
    /\ a.settle <= day /\ ~Done(p, a, "settlement")

Registered(p, a, day) ==
    IF a.kind = "rights" THEN Decline(p, a, day) ELSE Capture(p, a, day)

(* The loops of the boundaries, and what one does when an action's turn     *)
(* comes.  A dividend settles in a loop of its own.                         *)
Turn(p, a, day, loop) ==
    CASE loop = "accrue" /\ AccruesOn(p, a, day) -> Accrue(p, a, day)
      [] loop = "credit" /\ a.kind # "dividend" /\ SettlesBy(p, a, day) -> Settle(p, a, day)
      [] loop = "register" /\ a.record = day -> Registered(p, a, day)
      [] loop = "pay" /\ a.kind = "dividend" /\ SettlesBy(p, a, day) -> Settle(p, a, day)
      [] OTHER -> p

Before(a, b) ==
    \/ a.record < b.record
    \/ a.record = b.record /\ a.ex < b.ex
    \/ a.record = b.record /\ a.ex = b.ex /\ a.name < b.name

Last(actions) == CHOOSE a \in actions : \A b \in actions \ {a} : Before(b, a)

(* TimelineCorporateActionApplier: the actions take their turns in order,   *)
(* and the loop stops where one raises.                                     *)
ForEach(p, actions, day, loop) ==
    LET after[s \in SUBSET actions] ==
            IF s = {} THEN p
            ELSE LET q == after[s \ {Last(s)}]
                 IN  IF q.ok THEN Turn(q, Last(s), day, loop) ELSE q
    IN  after[actions]

(* Slip: a dividend settles before the session of its pay date. *)
BeforeSessionPays(p, actions, day) ==
    ForEach(ForEach(ForEach(p, actions, day, "accrue"), actions, day, "credit"),
            actions, day, "pay")

BeforeSession(p, actions, day) ==
    ForEach(ForEach(p, actions, day, "accrue"), actions, day, "credit")

AfterSession(p, actions, day) ==
    ForEach(ForEach(p, actions, day, "register"), actions, day, "pay")
===============================================================================
