---------------------------- MODULE TimelineProofs -----------------------------
(***************************************************************************)
(* PortfolioTimeline for every calendar, every number of sessions and      *)
(* every sequence of fills: the properties of the account that the runs    *)
(* check.                                                                  *)
(*                                                                         *)
(* The argument: IInv says that the account is lawful (AccountOK), that    *)
(* shares and cash are the sums of the recorded fills and of what settled  *)
(* actions brought (HoldingsAdd, CashAdds), and that every claim is where  *)
(* the calendar says at this day and phase, for the shares held at its     *)
(* record close (OnTime). It survives a fill because what was registered   *)
(* was counted at the close of an earlier day, and a boundary because its  *)
(* loops move claims as the calendar does. The stated amounts follow by    *)
(* adding up the claims (ClaimsAdd).                                       *)
(*                                                                         *)
(* At the end, from the same invariant: the account implements             *)
(* AccountContract, step by step (TimelineKeepsAccount).                   *)
(***************************************************************************)
EXTENDS PortfolioTimeline, ActionsProofs

Fills(side) == {t.fill : t \in {x \in trades : x.side = side}}

TradesOK ==
    /\ IsFiniteSet(trades)
    /\ \A t \in trades :
          /\ t \in [side : {"buy", "sell"}, fill : [id : 1..Cardinality(trades), day : 1..day,
                                                  qty : Nat \ {0}, price : {Price}, fees : {Fees}]]
          /\ phase = "before" => t.fill.day < day
    /\ \A t, u \in trades : t.fill.id = u.fill.id => t = u

HoldingsAdd ==
    Quantity(portfolio.lots) = Quantity(Fills("buy")) - Quantity(Fills("sell")) + Granted(portfolio)

CashAdds ==
    /\ portfolio.cash = OpeningCash - SumFunction([fill \in Fills("buy") |-> BuyCost(fill)])
                        + SumFunction([fill \in Fills("sell") |-> Proceeds(fill)])
                        + Paid(portfolio)
    /\ portfolio.books.cash = portfolio.cash - OpeningCash

OnTime(a) ==
    /\ a.kind = "rights" /\ a.record \in 1..ClosedBy => Done(portfolio, a, "declined")
    /\ a.kind # "rights" => ClaimOf(a).status = StatusNow(a)
    /\ ClaimOf(a).status # "none" => ClaimOf(a).qty = SharesAt(a.record)

IInv ==
    /\ actions \in Calendars /\ day \in 1..LastDay
    /\ phase \in {"before", "open", "closed", "failed"}
    /\ AccountOK(portfolio, actions)
    /\ TradesOK
    /\ HoldingsAdd
    /\ CashAdds
    /\ phase # "failed" => \A a \in actions : OnTime(a)

-----------------------------------------------------------------------------

(* A calendar a run may meet is one the lemmas on corporate actions speak  *)
(* of.                                                                     *)
LEMMA CalendarIs ==
    ASSUME NEW all \in Calendars
    PROVE  /\ Calendar(all)
           /\ \A a \in all : /\ a.record \in Nat /\ a.ex \in Nat /\ a.settle \in Nat
                             /\ a.record < a.ex /\ a.ex <= a.settle /\ a.perShare \in Nat
<1>1. /\ IsFiniteSet(all) /\ all \subseteq ActionSet(Names, Nat)
      /\ \A a \in all : ValidAction(a)
      /\ \A a, b \in all : a.name = b.name => a = b
  BY CalendarsAssumption
<1>2. Names \subseteq Nat  BY TimelineAssumption
<1>3. ActionSet(Names, Nat) \subseteq ActionSet(Nat, Nat)  BY <1>2 DEF ActionSet
<1> QED  BY <1>1, <1>3 DEF Calendar, ActionSet, ValidAction

(* A trade the history may hold. *)
LEMMA FillsAre ==
    ASSUME TradesOK, day \in Nat, NEW side
    PROVE  /\ IsFiniteSet(Fills(side)) /\ Fills(side) \subseteq FillRecords
           /\ \A fill \in Fills(side) : fill.day \in 1..day /\ fill.id \in 1..Cardinality(trades)
           /\ Quantity(Fills(side)) \in Int
           /\ SumFunction([fill \in Fills(side) |-> BuyCost(fill)]) \in Int
           /\ SumFunction([fill \in Fills(side) |-> Proceeds(fill)]) \in Int
<1> DEFINE S == {x \in trades : x.side = side}
           fillOf == [t \in S |-> t.fill]
           F == Fills(side)
<1>1. IsFiniteSet(S)  BY FS_Subset DEF TradesOK
<1>2. F = {fillOf[t] : t \in S}  BY DEF Fills
<1>3. IsFiniteSet(F)
  <2> HIDE DEF S, fillOf, F
  <2> QED  BY <1>1, <1>2, FiniteImage
<1>4. ASSUME NEW fill \in F
      PROVE  fill \in FillRecords /\ fill.day \in 1..day /\ fill.id \in 1..Cardinality(trades)
  <2>1. PICK t \in trades : fill = t.fill  BY DEF Fills
  <2>2. fill \in [id : 1..Cardinality(trades), day : 1..day, qty : Nat \ {0}, price : {Price},
                  fees : {Fees}]
    BY <2>1 DEF TradesOK
  <2>3. Price \in Nat \ {0} /\ Fees \in Nat  BY TimelineAssumption
  <2>4. Cardinality(trades) \in Nat  BY FS_CardinalityType DEF TradesOK
  <2>5. 1..Cardinality(trades) \subseteq Nat /\ 1..day \subseteq Nat  BY <2>4
  <2> QED  BY <2>2, <2>3, <2>5 DEF FillRecords
<1> DEFINE f == [x \in F |-> x.qty]
           g == [x \in F |-> BuyCost(x)]
           h == [x \in F |-> Proceeds(x)]
<1>5. \A x \in F : f[x] \in Int /\ g[x] \in Int /\ h[x] \in Int
  BY <1>4, FillAmounts DEF FillRecords
<1>6. /\ SumFunctionOnSet(f, F) \in Int /\ SumFunctionOnSet(g, F) \in Int
      /\ SumFunctionOnSet(h, F) \in Int
  <2> HIDE DEF F, f, g, h
  <2> QED  BY <1>3, <1>5, SumInt
<1> QED  BY <1>3, <1>4, <1>6 DEF Quantity, SumFunction

(* The sums over the fills when one more is recorded. *)
LEMMA FillsAdd ==
    ASSUME NEW F, IsFiniteSet(F), F \subseteq FillRecords, NEW fill \in FillRecords, fill \notin F
    PROVE  LET G == F \cup {fill}
           IN  /\ Quantity(G) = Quantity(F) + fill.qty
               /\ SumFunction([x \in G |-> BuyCost(x)])
                  = SumFunction([x \in F |-> BuyCost(x)]) + BuyCost(fill)
               /\ SumFunction([x \in G |-> Proceeds(x)])
                  = SumFunction([x \in F |-> Proceeds(x)]) + Proceeds(fill)
<1> DEFINE G == F \cup {fill}
           f == [x \in G |-> x.qty]
           g == [x \in G |-> BuyCost(x)]
           h == [x \in G |-> Proceeds(x)]
           f0 == [x \in F |-> x.qty]
           g0 == [x \in F |-> BuyCost(x)]
           h0 == [x \in F |-> Proceeds(x)]
<1>1. \A x \in G : f[x] \in Int /\ g[x] \in Int /\ h[x] \in Int
  BY FillAmounts DEF FillRecords
<1>2. f[fill] = fill.qty /\ g[fill] = BuyCost(fill) /\ h[fill] = Proceeds(fill)  OBVIOUS
<1>3. \A x \in F : f0[x] = f[x] /\ g0[x] = g[x] /\ h0[x] = h[x]  OBVIOUS
<1>4. /\ Quantity(G) = SumFunctionOnSet(f, G) /\ Quantity(F) = SumFunctionOnSet(f0, F)
      /\ SumFunction(g) = SumFunctionOnSet(g, G) /\ SumFunction(g0) = SumFunctionOnSet(g0, F)
      /\ SumFunction(h) = SumFunctionOnSet(h, G) /\ SumFunction(h0) = SumFunctionOnSet(h0, F)
  BY DEF Quantity, SumFunction
<1>5. G = F \cup {fill}  OBVIOUS
<1> SUFFICES /\ Quantity(G) = Quantity(F) + fill.qty
             /\ SumFunction(g) = SumFunction(g0) + BuyCost(fill)
             /\ SumFunction(h) = SumFunction(h0) + Proceeds(fill)
  OBVIOUS
<1> HIDE DEF G, f, g, h, f0, g0, h0
<1>6. /\ SumFunctionOnSet(f, F) \in Int /\ SumFunctionOnSet(g, F) \in Int
      /\ SumFunctionOnSet(h, F) \in Int
      /\ f[fill] \in Int /\ g[fill] \in Int /\ h[fill] \in Int
  BY <1>1, <1>5, SumInt
<1>7. /\ SumFunctionOnSet(f, G) = f[fill] + SumFunctionOnSet(f, F)
      /\ SumFunctionOnSet(g, G) = g[fill] + SumFunctionOnSet(g, F)
      /\ SumFunctionOnSet(h, G) = h[fill] + SumFunctionOnSet(h, F)
  <2>1. SumFunctionOnSet(f, G) = f[fill] + SumFunctionOnSet(f, F)  BY <1>1, <1>5, SumAdd
  <2>2. SumFunctionOnSet(g, G) = g[fill] + SumFunctionOnSet(g, F)  BY <1>1, <1>5, SumAdd
  <2>3. SumFunctionOnSet(h, G) = h[fill] + SumFunctionOnSet(h, F)  BY <1>1, <1>5, SumAdd
  <2> QED  BY <2>1, <2>2, <2>3
<1>8. /\ SumFunctionOnSet(f0, F) = SumFunctionOnSet(f, F)
      /\ SumFunctionOnSet(g0, F) = SumFunctionOnSet(g, F)
      /\ SumFunctionOnSet(h0, F) = SumFunctionOnSet(h, F)
  <2>1. SumFunctionOnSet(f0, F) = SumFunctionOnSet(f, F)  BY <1>3, SumSame
  <2>2. SumFunctionOnSet(g0, F) = SumFunctionOnSet(g, F)  BY <1>3, SumSame
  <2>3. SumFunctionOnSet(h0, F) = SumFunctionOnSet(h, F)  BY <1>3, SumSame
  <2> QED  BY <2>1, <2>2, <2>3
<1> QED  BY <1>2, <1>4, <1>6, <1>7, <1>8

-----------------------------------------------------------------------------
(* What the invariant says of an account that was not given up. *)

(* The days whose boundaries have passed. *)
LEMMA DaysAre ==
    ASSUME IInv
    PROVE  /\ LastDay \in Nat /\ day \in Nat /\ day >= 1
           /\ OpenedBy \in Nat /\ ClosedBy \in Nat
           /\ ClosedBy <= OpenedBy /\ OpenedBy <= day /\ ClosedBy <= day
           /\ phase = "before" => OpenedBy = day - 1 /\ ClosedBy = day - 1
           /\ phase \in {"open", "failed"} => OpenedBy = day /\ ClosedBy = day - 1
           /\ phase = "closed" => OpenedBy = day /\ ClosedBy = day
<1>1. LastDay \in Nat  BY TimelineAssumption
<1> QED  BY <1>1 DEF IInv, OpenedBy, ClosedBy

(* What an action's claim can be, and when its phases were recorded. *)
LEMMA StatusIs ==
    ASSUME IInv, NEW a \in actions
    PROVE  LET claim == ClaimOf(a)
           IN  /\ Calendar(actions)
               /\ a.record \in Nat /\ a.ex \in Nat /\ a.settle \in Nat /\ a.perShare \in Nat
               /\ a.record < a.ex /\ a.ex <= a.settle
               /\ claim.status \in {"none", "captured", "accrued", "settled"}
               /\ claim.status = "none" => claim.delta = 0
               /\ claim.status # "none" => a.kind # "rights" /\ Terms(a, claim)
               /\ Done(portfolio, a, "entitlement") <=> claim.status # "none"
               /\ Done(portfolio, a, "accrual") <=> claim.status \in {"accrued", "settled"}
               /\ a.name \in DOMAIN portfolio.claims
<1>1. Calendar(actions)
      /\ a.record \in Nat /\ a.ex \in Nat /\ a.settle \in Nat /\ a.perShare \in Nat
      /\ a.record < a.ex /\ a.ex <= a.settle
  BY CalendarIs DEF IInv
<1>2. ClaimOK(portfolio, a)  BY DEF IInv, AccountOK
<1>3. a.name \in DOMAIN portfolio.claims
  BY <1>1, AccountWhole DEF IInv, NamesOf
<1> QED  BY <1>1, <1>2, <1>3 DEF ClaimOK, ClaimOf, NoClaim, Claim, Terms

(* Nothing is registered before the first session. *)
LEMMA BeforeAll ==
    ASSUME IInv
    PROVE  SharesAt(0) = 0
<1> DEFINE D == {c \in Claims : c.kind \in ShareKinds /\ c.settle <= 0}
           x == [a \in D |-> ClaimOf(a).delta]
<1>1. \A side : Traded(side, 0) = {}
  <2>1. day \in Nat  BY DaysAre
  <2>2. \A t \in trades : t.fill.day \in 1..day  BY DEF IInv, TradesOK
  <2>3. \A t \in trades : ~ (t.fill.day <= 0)  BY <2>1, <2>2
  <2> QED  BY <2>3 DEF Traded
<1>2. Quantity({}) = 0
  <2>1. Quantity({}) = SumFunctionOnSet([lot \in {} |-> lot.qty], {})
    BY DEF Quantity, SumFunction
  <2> QED  BY <2>1, SumEmpty
<1>3. D = {}
  <2>1. ASSUME NEW c \in Claims PROVE ~ (c.settle <= 0)
    <3>1. c \in actions  BY DEF Claims
    <3> QED  BY <3>1, StatusIs
  <2> QED  BY <2>1
<1>4. SumFunction(x) = 0
  <2>1. SumFunction(x) = SumFunctionOnSet(x, D)  BY DEF SumFunction
  <2> HIDE DEF x
  <2> QED  BY <1>3, <2>1, SumEmpty
<1>5. SharesAt(0) = Quantity(Traded("buy", 0)) - Quantity(Traded("sell", 0)) + SumFunction(x)
  BY DEF SharesAt
<1> HIDE DEF x, D
<1>6. Traded("buy", 0) = {} /\ Traded("sell", 0) = {}  BY <1>1
<1>7. SharesAt(0) = Quantity({}) - Quantity({}) + 0  BY <1>4, <1>5, <1>6
<1> QED  BY <1>2, <1>7

(* Grants and payments, from what the calendar says has settled. *)
LEMMA ClaimsAdd ==
    ASSUME IInv, phase # "failed"
    PROVE  /\ Granted(portfolio)
              = SumFunction([a \in {c \in Claims : c.kind \in ShareKinds /\ c.settle <= OpenedBy} |->
                                ClaimOf(a).delta])
           /\ Paid(portfolio)
              = SumFunction([a \in DividendsPaid |-> a.perShare * SharesAt(a.record)])
<1> DEFINE D == {c \in Claims : c.kind \in ShareKinds /\ c.settle <= OpenedBy}
           E == DividendsPaid
           x == [a \in D |-> ClaimOf(a).delta]
           y == [a \in E |-> a.perShare * SharesAt(a.record)]
<1>1. D \subseteq actions /\ E \subseteq actions  BY DEF Claims, DividendsPaid
<1>2. ASSUME NEW a \in actions
      PROVE  /\ a \in D => x[a] = GivenFor(portfolio.claims[a.name])
             /\ a \notin D => GivenFor(portfolio.claims[a.name]) = 0
             /\ a \in E => y[a] = PaidFor(portfolio.claims[a.name])
             /\ a \notin E => PaidFor(portfolio.claims[a.name]) = 0
  <2> DEFINE claim == ClaimOf(a)
  <2>1. portfolio.claims[a.name] = claim  BY DEF ClaimOf
  <2>2. /\ a.record \in Nat /\ a.ex \in Nat /\ a.settle \in Nat /\ a.perShare \in Nat
        /\ a.record < a.ex /\ a.ex <= a.settle
        /\ claim.status \in {"none", "captured", "accrued", "settled"}
        /\ claim.status = "none" => claim.delta = 0
        /\ claim.status # "none" => a.kind # "rights" /\ Terms(a, claim)
    BY StatusIs
  <2>3. /\ OpenedBy \in Nat /\ ClosedBy \in Nat /\ ClosedBy <= OpenedBy  BY DaysAre
  <2>4. OnTime(a)  BY DEF IInv
  <2>5. a.kind # "rights" => claim.status = StatusNow(a)  BY <2>4 DEF OnTime
  <2>6. claim.status # "none" => claim.qty = SharesAt(a.record)  BY <2>4 DEF OnTime
  <2>7. a \in D <=> a.kind \in ShareKinds /\ a.settle <= OpenedBy
    BY DEF Claims, ShareKinds
  <2>8. a \in E <=> a.kind = "dividend" /\ a.settle <= ClosedBy
    BY DEF Claims, DividendsPaid
  <2>9. claim.status # "none" =>
           /\ claim.cash = IF a.kind = "dividend" THEN a.perShare * SharesAt(a.record) ELSE 0
           /\ a.kind \notin ShareKinds => claim.delta = 0
    BY <2>2, <2>6 DEF Terms
  <2>10. a \in D => x[a] = claim.delta  OBVIOUS
  <2>11. a \in E => y[a] = a.perShare * SharesAt(a.record)  OBVIOUS
  <2>12. a.kind # "rights" =>
            /\ a.record \notin 1..ClosedBy => claim.status = "none"
            /\ a.record \in 1..ClosedBy =>
                  (claim.status = "settled"
                   <=> a.settle <= (IF a.kind = "dividend" THEN ClosedBy ELSE OpenedBy))
    <3> HIDE DEF claim
    <3> QED  BY <2>2, <2>3, <2>5 DEF StatusNow
  <2>13. a.kind = "rights" => claim.status = "none"  BY <2>2
  <2>14. ShareKinds = {"distribution", "split", "reverse"}  BY DEF ShareKinds
  <2> DEFINE n == a.perShare * SharesAt(a.record)
  <2>15. a.record = 0 => n = 0
    <3> SUFFICES ASSUME a.record = 0 PROVE n = 0  OBVIOUS
    <3>1. SharesAt(a.record) = 0  BY BeforeAll
    <3> QED  BY <2>2, <3>1
  <2> HIDE DEF claim, D, E, x, y, n
  <2>16. /\ a \in D => x[a] = GivenFor(claim)
         /\ a \notin D => GivenFor(claim) = 0
    <3>1. CASE a.kind \in ShareKinds /\ a.record \in 1..ClosedBy
      BY <2>2, <2>7, <2>10, <2>12, <2>14, <3>1 DEF GivenFor
    <3>2. CASE a.kind \in ShareKinds /\ a.record \notin 1..ClosedBy
      BY <2>2, <2>7, <2>10, <2>12, <2>14, <3>2 DEF GivenFor
    <3>3. CASE a.kind \notin ShareKinds
      BY <2>2, <2>7, <2>9, <3>3 DEF GivenFor
    <3> QED  BY <3>1, <3>2, <3>3
  <2>17. /\ a \in E => y[a] = PaidFor(claim)
         /\ a \notin E => PaidFor(claim) = 0
    <3>1. CASE a.kind = "dividend" /\ a.settle <= ClosedBy
      <4>1. a \in E /\ y[a] = n  BY <2>8, <2>11, <3>1 DEF n
      <4>2. CASE a.record = 0
        <5>1. claim.status = "none"  BY <2>12, <3>1, <4>2
        <5> QED  BY <2>15, <4>1, <4>2, <5>1 DEF PaidFor
      <4>3. CASE a.record # 0
        <5>1. a.record \in 1..ClosedBy  BY <2>2, <2>3, <3>1, <4>3
        <5>2. claim.status = "settled"  BY <2>12, <3>1, <5>1
        <5> QED  BY <2>9, <3>1, <4>1, <5>2 DEF PaidFor, n
      <4> QED  BY <4>2, <4>3
    <3>2. CASE a.kind = "dividend" /\ ~ (a.settle <= ClosedBy)
      <4>1. claim.status # "settled"  BY <2>12, <3>2
      <4> QED  BY <2>8, <3>2, <4>1 DEF PaidFor
    <3>3. CASE a.kind # "dividend"
      BY <2>2, <2>8, <2>9, <3>3 DEF PaidFor
    <3> QED  BY <3>1, <3>2, <3>3
  <2> QED  BY <2>1, <2>16, <2>17
<1>3. Calendar(actions)  BY CalendarIs DEF IInv
<1>4. AccountOK(portfolio, actions)  BY DEF IInv
<1>5. SumFunction(x) = SumFunctionOnSet(x, D) /\ SumFunction(y) = SumFunctionOnSet(y, E)
  BY DEF SumFunction
<1> SUFFICES Granted(portfolio) = SumFunction(x) /\ Paid(portfolio) = SumFunction(y)
  OBVIOUS
<1> HIDE DEF D, E, x, y
<1>6. Granted(portfolio) = SumFunctionOnSet(x, D) /\ Paid(portfolio) = SumFunctionOnSet(y, E)
  <2>1. /\ \A a \in D : x[a] = GivenFor(portfolio.claims[a.name])
        /\ \A a \in actions \ D : GivenFor(portfolio.claims[a.name]) = 0
        /\ \A a \in E : y[a] = PaidFor(portfolio.claims[a.name])
        /\ \A a \in actions \ E : PaidFor(portfolio.claims[a.name]) = 0
    BY <1>1, <1>2
  <2>2. Granted(portfolio) = SumFunctionOnSet(x, D)
    BY ONLY <1>1, <1>3, <1>4, <2>1, GrantedOver
  <2>3. Paid(portfolio) = SumFunctionOnSet(y, E)
    BY ONLY <1>1, <1>3, <1>4, <2>1, PaidOver
  <2> QED  BY <2>2, <2>3
<1> QED  BY <1>5, <1>6

-----------------------------------------------------------------------------
(* The invariant implies what the module states of the account. *)

LEMMA HoldingsNow ==
    ASSUME IInv
    PROVE  HoldingsAsStated
<1> SUFFICES ASSUME phase # "failed" PROVE Quantity(portfolio.lots) = SharesAt(OpenedBy)
  BY DEF HoldingsAsStated
<1>1. ASSUME NEW side PROVE Traded(side, OpenedBy) = Fills(side)
  <2>1. \A t \in trades : t.fill.day \in 1..day /\ (phase = "before" => t.fill.day < day)
    BY DEF IInv, TradesOK
  <2>2. day \in Nat /\ (phase = "before" => OpenedBy = day - 1) /\ (phase # "before" => OpenedBy = day)
    BY DaysAre DEF IInv
  <2>3. \A t \in trades : t.fill.day <= OpenedBy  BY <2>1, <2>2
  <2> QED  BY <2>3 DEF Traded, Fills
<1> DEFINE given == SumFunction([a \in {c \in Claims : c.kind \in ShareKinds /\ c.settle <= OpenedBy} |->
                                    ClaimOf(a).delta])
<1>2. Granted(portfolio) = given  BY ClaimsAdd
<1>3. SharesAt(OpenedBy) = Quantity(Traded("buy", OpenedBy)) - Quantity(Traded("sell", OpenedBy)) + given
  BY DEF SharesAt
<1> HIDE DEF given
<1>4. Quantity(portfolio.lots) = Quantity(Fills("buy")) - Quantity(Fills("sell")) + Granted(portfolio)
  BY DEF IInv, HoldingsAdd
<1>5. Traded("buy", OpenedBy) = Fills("buy") /\ Traded("sell", OpenedBy) = Fills("sell")  BY <1>1
<1> QED  BY <1>2, <1>3, <1>4, <1>5

LEMMA CashNow ==
    ASSUME IInv
    PROVE  CashAsStated
<1> SUFFICES ASSUME phase # "failed"
             PROVE  portfolio.cash = OpeningCash
                       - SumFunction([fill \in Traded("buy", day) |-> BuyCost(fill)])
                       + SumFunction([fill \in Traded("sell", day) |-> Proceeds(fill)])
                       + SumFunction([a \in DividendsPaid |-> a.perShare * SharesAt(a.record)])
  BY DEF CashAsStated
<1>1. ASSUME NEW side PROVE Traded(side, day) = Fills(side)
  <2>1. day \in Nat /\ \A t \in trades : t.fill.day \in 1..day  BY DaysAre DEF IInv, TradesOK
  <2>2. \A t \in trades : t.fill.day <= day  BY <2>1
  <2> QED  BY <2>2 DEF Traded, Fills
<1>2. Paid(portfolio) = SumFunction([a \in DividendsPaid |-> a.perShare * SharesAt(a.record)])
  BY ClaimsAdd
<1>3. portfolio.cash = OpeningCash - SumFunction([fill \in Fills("buy") |-> BuyCost(fill)])
                        + SumFunction([fill \in Fills("sell") |-> Proceeds(fill)])
                        + Paid(portfolio)
  BY DEF IInv, CashAdds
<1>4. Traded("buy", day) = Fills("buy") /\ Traded("sell", day) = Fills("sell")  BY <1>1
<1> QED  BY <1>2, <1>3, <1>4

LEMMA EntitlementsNow ==
    ASSUME IInv
    PROVE  EntitlementsAsStated
<1> SUFFICES ASSUME phase # "failed", NEW a \in Claims
             PROVE  /\ ClaimOf(a).status = StatusNow(a)
                    /\ StatusNow(a) # "none" =>
                          /\ ClaimOf(a).qty = SharesAt(a.record)
                          /\ ClaimOf(a).cash = IF a.kind = "dividend"
                                               THEN a.perShare * SharesAt(a.record) ELSE 0
                          /\ a.kind \in ShareKinds =>
                                a.den * (ClaimOf(a).qty + ClaimOf(a).delta) = a.num * ClaimOf(a).qty
  BY DEF EntitlementsAsStated
<1>1. a \in actions /\ a.kind # "rights"  BY DEF Claims
<1>2. OnTime(a)  BY <1>1 DEF IInv
<1>3. ClaimOf(a).status # "none" => Terms(a, ClaimOf(a))  BY <1>1, StatusIs
<1> QED  BY <1>1, <1>2, <1>3 DEF OnTime, Terms

LEMMA BooksNow ==
    ASSUME IInv
    PROVE  BooksAgree
BY DEF IInv, AccountOK, BooksOK, CashAdds, BooksAgree

LEMMA TypeNow ==
    ASSUME IInv
    PROVE  TypeOK
<1>1. Shape(portfolio, actions) /\ OpenLots(portfolio.lots)  BY DEF IInv, AccountOK
<1>2. portfolio.ok /\ portfolio.cash \in Nat  BY <1>1, FieldsOf
<1>3. \A lot \in portfolio.lots :
          /\ lot.qty \in Nat \ {0} /\ lot.cost \in Nat /\ lot.principal \in Nat
          /\ lot.sellable >= lot.acquired
  BY <1>1 DEF OpenLots, LotRecords
<1> QED  BY <1>1, <1>2, <1>3 DEF IInv, TypeOK, OpenLots

(* Run again, a boundary finds every phase recorded. *)
LEMMA RepeatNow ==
    ASSUME IInv
    PROVE  BoundariesRepeat
<1>1. Calendar(actions)  BY CalendarIs DEF IInv
<1>2. ASSUME phase \in {"open", "closed"} PROVE BeforeSession(portfolio, actions, day) = portfolio
  <2>1. ASSUME NEW a \in actions
        PROVE  ~ AccruesOn(portfolio, a, day) /\ (a.kind # "dividend" => ~ SettlesBy(portfolio, a, day))
    <3> DEFINE claim == ClaimOf(a)
    <3>1. /\ a.record \in Nat /\ a.ex \in Nat /\ a.settle \in Nat
          /\ a.record < a.ex /\ a.ex <= a.settle
          /\ claim.status \in {"none", "captured", "accrued", "settled"}
          /\ claim.status # "none" => a.kind # "rights"
          /\ Done(portfolio, a, "accrual") <=> claim.status \in {"accrued", "settled"}
      BY StatusIs
    <3>2. a.kind # "rights" => claim.status = StatusNow(a)
      BY <1>2 DEF IInv, OnTime
    <3>3. OpenedBy = day /\ day \in Nat  BY <1>2, DaysAre
    <3>4. portfolio.claims[a.name] = claim  BY DEF ClaimOf
    <3> HIDE DEF claim
    <3> QED  BY <3>1, <3>2, <3>3, <3>4 DEF StatusNow, AccruesOn, SettlesBy
  <2>2. \A a \in actions : Stepped(portfolio, a, day, "accrue") = portfolio
    BY <2>1 DEF Stepped, Turn
  <2>3. \A a \in actions : Stepped(portfolio, a, day, "credit") = portfolio
    BY <2>1 DEF Stepped, Turn
  <2> QED  BY <1>1, <2>2, <2>3, LoopIdle DEF BeforeSession
<1>3. ASSUME phase = "closed" PROVE AfterSession(portfolio, actions, day) = portfolio
  <2>1. ASSUME NEW a \in actions
        PROVE  /\ a.record = day => Registered(portfolio, a, day) = portfolio
               /\ a.kind = "dividend" => ~ SettlesBy(portfolio, a, day)
    <3> DEFINE claim == ClaimOf(a)
    <3>1. /\ a.record \in Nat /\ a.ex \in Nat /\ a.settle \in Nat
          /\ a.record < a.ex /\ a.ex <= a.settle
          /\ claim.status \in {"none", "captured", "accrued", "settled"}
          /\ claim.status # "none" => a.kind # "rights"
          /\ Done(portfolio, a, "entitlement") <=> claim.status # "none"
      BY StatusIs
    <3>2. OnTime(a)  BY <1>3 DEF IInv
    <3>3. OpenedBy = day /\ ClosedBy = day /\ day \in Nat /\ day >= 1  BY <1>3, DaysAre
    <3>4. portfolio.claims[a.name] = claim  BY DEF ClaimOf
    <3>5. a.kind # "rights" => claim.status = StatusNow(a)  BY <3>2 DEF OnTime
    <3>6. a.kind = "rights" /\ a.record \in 1..ClosedBy => Done(portfolio, a, "declined")
      BY <3>2 DEF OnTime
    <3> HIDE DEF claim
    <3>7. a.kind = "dividend" => ~ SettlesBy(portfolio, a, day)
      BY <3>1, <3>3, <3>4, <3>5 DEF StatusNow, SettlesBy
    <3>8. a.record = day => a.record \in 1..ClosedBy  BY <3>1, <3>3
    <3>9. ASSUME a.record = day PROVE Registered(portfolio, a, day) = portfolio
      <4>1. CASE a.kind = "rights"
        BY <3>6, <3>8, <3>9, <4>1 DEF Registered, Decline
      <4>2. CASE a.kind # "rights"
        <5>1. StatusNow(a) # "none"  BY <3>8, <3>9 DEF StatusNow
        <5>2. Done(portfolio, a, "entitlement")  BY <3>1, <3>5, <4>2, <5>1
        <5> QED  BY <3>9, <4>2, <5>2 DEF Registered, Capture
      <4> QED  BY <4>1, <4>2
    <3> QED  BY <3>7, <3>9
  <2>2. \A a \in actions : Stepped(portfolio, a, day, "register") = portfolio
    BY <2>1 DEF Stepped, Turn
  <2>3. \A a \in actions : Stepped(portfolio, a, day, "pay") = portfolio
    BY <2>1 DEF Stepped, Turn
  <2> QED  BY <1>1, <2>2, <2>3, LoopIdle DEF AfterSession
<1> QED  BY <1>2, <1>3 DEF BoundariesRepeat

-----------------------------------------------------------------------------
(* The invariant holds at the start. *)

(* A new portfolio under any calendar. *)
LEMMA InitOK ==
    ASSUME Init
    PROVE  IInv
<1>1. /\ actions \in Calendars /\ day = 1 /\ phase = "before" /\ trades = {}
      /\ portfolio = NewPortfolio(OpeningCash, {a.name : a \in actions})
  BY DEF Init
<1>2. LastDay \in Nat \ {0} /\ OpeningCash \in Nat  BY TimelineAssumption
<1> DEFINE N == NamesOf(actions)
<1>3. /\ portfolio.ok = TRUE /\ portfolio.cash = OpeningCash /\ portfolio.lots = {}
      /\ portfolio.fills = {} /\ portfolio.books = EmptyBooks
      /\ portfolio.claims = [n \in N |-> NoClaim] /\ portfolio.phases = {}
      /\ portfolio = [ok |-> portfolio.ok, cash |-> portfolio.cash, lots |-> portfolio.lots,
                      fills |-> portfolio.fills, books |-> portfolio.books,
                      claims |-> portfolio.claims, phases |-> portfolio.phases]
  BY <1>1 DEF NewPortfolio, NamesOf
<1>4. EmptyBooks \in BookRecords  BY DEF EmptyBooks, BookRecords
<1>5. Shape(portfolio, actions)
  <2>1. portfolio.claims = [n \in N |-> portfolio.claims[n]]  BY <1>3
  <2>2. /\ portfolio.ok \in {TRUE} /\ portfolio.cash \in Nat /\ portfolio.lots \in SUBSET LotRecords
        /\ portfolio.fills \in SUBSET Nat /\ portfolio.books \in BookRecords
    BY <1>2, <1>3, <1>4
  <2>3. portfolio \in [ok : {TRUE}, cash : Nat, lots : SUBSET LotRecords, fills : SUBSET Nat,
                       books : BookRecords, claims : {portfolio.claims}, phases : {portfolio.phases}]
    BY <1>3, <2>2
  <2> QED  BY <2>1, <2>3 DEF Shape
<1>6. Settled(portfolio) = {} /\ Accrued(portfolio) = {}
  BY <1>3 DEF Settled, Accrued, NoClaim, Claim
<1>7. /\ Receivable(portfolio) = 0 /\ Granted(portfolio) = 0 /\ Paid(portfolio) = 0
  <2>1. /\ Receivable(portfolio)
           = SumFunctionOnSet([n \in Accrued(portfolio) |-> portfolio.claims[n].cash], Accrued(portfolio))
        /\ Granted(portfolio)
           = SumFunctionOnSet([n \in Settled(portfolio) |-> portfolio.claims[n].delta], Settled(portfolio))
        /\ Paid(portfolio)
           = SumFunctionOnSet([n \in Settled(portfolio) |-> portfolio.claims[n].cash], Settled(portfolio))
    BY DEF Receivable, Granted, Paid, SumFunction
  <2> QED  BY <1>6, <2>1, SumEmpty
<1>8. OpenLots(portfolio.lots) /\ Traced(portfolio, portfolio.lots)
  BY <1>3, FS_EmptySet DEF OpenLots, Traced
<1>9. ASSUME NEW a \in actions
      PROVE  ClaimOK(portfolio, a) /\ portfolio.claims[a.name] = NoClaim
  <2>1. portfolio.claims[a.name] = NoClaim  BY <1>3 DEF NamesOf
  <2>2. NoClaim.status = "none"  BY DEF NoClaim, Claim
  <2>3. \A ph : ~ Done(portfolio, a, ph)  BY <1>3 DEF Done
  <2> QED  BY <2>1, <2>2, <2>3 DEF ClaimOK
<1>10. BooksOK(portfolio)
  BY <1>3, <1>7, NoneHeld DEF BooksOK, EmptyBooks
<1>11. AccountOK(portfolio, actions)  BY <1>5, <1>8, <1>9, <1>10 DEF AccountOK
<1>12. TradesOK  BY <1>1, FS_EmptySet DEF TradesOK
<1>13. ASSUME NEW side
       PROVE  /\ Fills(side) = {}
              /\ SumFunction([fill \in Fills(side) |-> BuyCost(fill)]) = 0
              /\ SumFunction([fill \in Fills(side) |-> Proceeds(fill)]) = 0
  <2>1. Fills(side) = {}  BY <1>1 DEF Fills
  <2>2. /\ SumFunction([fill \in Fills(side) |-> BuyCost(fill)])
           = SumFunctionOnSet([fill \in Fills(side) |-> BuyCost(fill)], Fills(side))
        /\ SumFunction([fill \in Fills(side) |-> Proceeds(fill)])
           = SumFunctionOnSet([fill \in Fills(side) |-> Proceeds(fill)], Fills(side))
    BY DEF SumFunction
  <2> QED  BY <2>1, <2>2, SumEmpty
<1>14. HoldingsAdd
  <2>1. Fills("buy") = {} /\ Fills("sell") = {}  BY <1>13
  <2> QED  BY <1>3, <1>7, <2>1, NoneHeld DEF HoldingsAdd
<1>15. CashAdds
  <2>1. /\ SumFunction([fill \in Fills("buy") |-> BuyCost(fill)]) = 0
        /\ SumFunction([fill \in Fills("sell") |-> Proceeds(fill)]) = 0
    BY <1>13
  <2>2. portfolio.books.cash = 0  BY <1>3 DEF EmptyBooks
  <2> QED  BY <1>2, <1>3, <1>7, <2>1, <2>2 DEF CashAdds
<1>16. ASSUME NEW a \in actions PROVE OnTime(a)
  <2>1. ClosedBy = 0  BY <1>1 DEF ClosedBy
  <2>2. 1..0 = {}  OBVIOUS
  <2>3. ClaimOf(a).status = "none"  BY <1>9 DEF ClaimOf, NoClaim, Claim
  <2>4. StatusNow(a) = "none"  BY <2>1, <2>2 DEF StatusNow
  <2> QED  BY <2>1, <2>2, <2>3, <2>4 DEF OnTime
<1> QED  BY <1>1, <1>2, <1>11, <1>12, <1>14, <1>15, <1>16 DEF IInv

-----------------------------------------------------------------------------
(* The boundaries. *)

(* The registered shares of a day change with the trades and the grants up *)
(* to it only.                                                             *)
LEMMA SharesKeep ==
    ASSUME NEW upTo, actions' = actions,
           \A side : Traded(side, upTo)' = Traded(side, upTo),
           \A a \in actions : a.settle <= upTo => ClaimOf(a)'.delta = ClaimOf(a).delta
    PROVE  SharesAt(upTo)' = SharesAt(upTo)
<1> DEFINE D == {c \in Claims : c.kind \in ShareKinds /\ c.settle <= upTo}
<1>1. D' = D  BY DEF Claims
<1>2. \A a \in D : ClaimOf(a)'.delta = ClaimOf(a).delta  BY DEF Claims
<1>3. [a \in D |-> ClaimOf(a).delta]' = [a \in D |-> ClaimOf(a).delta]
  BY <1>1, <1>2
<1>4. Traded("buy", upTo)' = Traded("buy", upTo) /\ Traded("sell", upTo)' = Traded("sell", upTo)
  OBVIOUS
<1> QED  BY <1>3, <1>4 DEF SharesAt

(* A replay that is given up keeps the account it had. *)
LEMMA GivenUp ==
    ASSUME IInv, phase' = "failed", UNCHANGED <<actions, day, portfolio, trades>>
    PROVE  IInv'
<1>1. TradesOK'  BY DEF IInv, TradesOK
<1>2. HoldingsAdd' /\ CashAdds'  BY DEF IInv, HoldingsAdd, CashAdds, Fills
<1>3. AccountOK(portfolio, actions)'  BY DEF IInv
<1> QED  BY <1>1, <1>2, <1>3 DEF IInv

(* A boundary moves no fill. *)
LEMMA BoundaryAdds ==
    ASSUME IInv, UNCHANGED <<actions, day, trades>>,
           AccountOK(portfolio', actions), Balanced(portfolio, portfolio')
    PROVE  HoldingsAdd' /\ CashAdds'
<1>1. \A side : Fills(side)' = Fills(side)  BY DEF Fills
<1> DEFINE qb == Quantity(Fills("buy"))
           qs == Quantity(Fills("sell"))
           cb == SumFunction([fill \in Fills("buy") |-> BuyCost(fill)])
           cs == SumFunction([fill \in Fills("sell") |-> Proceeds(fill)])
<1>2. qb \in Int /\ qs \in Int /\ cb \in Int /\ cs \in Int
  <2>1. day \in Nat /\ TradesOK  BY DaysAre DEF IInv
  <2> QED  BY <2>1, FillsAre
<1>3. Fills("buy")' = Fills("buy") /\ Fills("sell")' = Fills("sell")  BY <1>1
<1>4. qb' = qb /\ qs' = qs /\ cb' = cb /\ cs' = cs  BY <1>3
<1>5. /\ Quantity(portfolio.lots) = qb - qs + Granted(portfolio)
      /\ portfolio.cash = OpeningCash - cb + cs + Paid(portfolio)
      /\ portfolio.books.cash = portfolio.cash - OpeningCash
  BY DEF IInv, HoldingsAdd, CashAdds
<1>6. /\ Quantity(portfolio'.lots) - Granted(portfolio') = Quantity(portfolio.lots) - Granted(portfolio)
      /\ portfolio'.cash - Paid(portfolio') = portfolio.cash - Paid(portfolio)
      /\ portfolio'.books.cash - portfolio'.cash = portfolio.books.cash - portfolio.cash
  BY DEF Balanced
<1>7. /\ Granted(portfolio) \in Int /\ Paid(portfolio) \in Int
      /\ Granted(portfolio') \in Int /\ Paid(portfolio') \in Int
  <2>1. Calendar(actions) /\ AccountOK(portfolio, actions)  BY CalendarIs DEF IInv
  <2>2. Whole(portfolio.claims) /\ Whole(portfolio'.claims)  BY <2>1, AccountWhole
  <2> QED  BY <2>2, SumsInt
<1>8. /\ portfolio.cash \in Nat /\ portfolio'.cash \in Nat
      /\ portfolio.books \in BookRecords /\ portfolio'.books \in BookRecords
      /\ OpenLots(portfolio.lots) /\ OpenLots(portfolio'.lots)
  <2>1. Shape(portfolio, actions) /\ Shape(portfolio', actions)  BY DEF IInv, AccountOK
  <2>2. portfolio.cash \in Nat /\ portfolio.books \in BookRecords  BY <2>1, FieldsOf
  <2>3. portfolio'.cash \in Nat /\ portfolio'.books \in BookRecords  BY <2>1, FieldsOf
  <2> QED  BY <2>2, <2>3 DEF IInv, AccountOK
<1>9. /\ Quantity(portfolio.lots) \in Nat /\ Quantity(portfolio'.lots) \in Nat
      /\ portfolio.books.cash \in Int /\ portfolio'.books.cash \in Int
      /\ OpeningCash \in Nat
  BY <1>8, AmountsNat, TimelineAssumption DEF BookRecords
<1> HIDE DEF qb, qs, cb, cs
<1>10. Quantity(portfolio'.lots) = qb - qs + Granted(portfolio')  BY <1>2, <1>5, <1>6, <1>7, <1>9
<1>11. portfolio'.cash = OpeningCash - cb + cs + Paid(portfolio')
  BY <1>2, <1>5, <1>6, <1>7, <1>8, <1>9
<1>12. portfolio'.books.cash = portfolio'.cash - OpeningCash  BY <1>5, <1>6, <1>8, <1>9
<1> QED  BY <1>4, <1>10, <1>11, <1>12 DEF HoldingsAdd, CashAdds, qb, qs, cb, cs

(* Before the open (apply_before_session). *)
LEMMA OpenOK ==
    ASSUME IInv, OpenSession
    PROVE  IInv'
<1> DEFINE q == BeforeSession(portfolio, actions, day)
<1>1. phase = "before" /\ UNCHANGED <<actions, day, trades>>  BY DEF OpenSession
<1>2. CASE ~ q.ok
  <2>1. phase' = "failed" /\ portfolio' = portfolio  BY <1>2 DEF OpenSession, Reaches
  <2> QED  BY <1>1, <2>1, GivenUp
<1>3. CASE q.ok
  <2>1. portfolio' = q /\ phase' = "open"  BY <1>3 DEF OpenSession, Reaches
  <2>2. Calendar(actions) /\ AccountOK(portfolio, actions)  BY CalendarIs DEF IInv
  <2>3. /\ AccountOK(q, actions) /\ Balanced(portfolio, q) /\ portfolio.phases \subseteq q.phases
        /\ \A a \in actions :
              LET old == portfolio.claims[a.name]
                  new == q.claims[a.name]
              IN  new.status = OpenedStatus(a, old.status, day) /\ SameTerms(old, new)
    BY <1>3, <2>2, BeforeSessionOK
  <2> HIDE DEF q
  <2>4. /\ AccountOK(portfolio', actions) /\ Balanced(portfolio, portfolio')
        /\ \A a \in actions :
              /\ ClaimOf(a)'.status = OpenedStatus(a, ClaimOf(a).status, day)
              /\ SameTerms(ClaimOf(a), ClaimOf(a)')
              /\ Done(portfolio, a, "declined") => Done(portfolio, a, "declined")'
    BY <2>1, <2>3 DEF ClaimOf, Done
  <2>5. HoldingsAdd' /\ CashAdds'  BY <1>1, <2>4, BoundaryAdds
  <2>6. TradesOK'  BY <1>1, <2>1 DEF IInv, TradesOK
  <2>7. /\ day \in Nat /\ day >= 1 /\ OpenedBy = day - 1 /\ ClosedBy = day - 1
        /\ OpenedBy' = day /\ ClosedBy' = day - 1
    BY <1>1, <2>1, DaysAre DEF OpenedBy, ClosedBy
  <2>8. ASSUME NEW a \in actions PROVE OnTime(a)'
    <3> DEFINE s == ClaimOf(a).status
               t == ClaimOf(a)'.status
    <3>1. /\ a.record \in Nat /\ a.ex \in Nat /\ a.settle \in Nat
          /\ a.record < a.ex /\ a.ex <= a.settle
          /\ s \in {"none", "captured", "accrued", "settled"}
      BY StatusIs
    <3>2. OnTime(a)  BY <1>1 DEF IInv
    <3>3. a.kind # "rights" => s = StatusNow(a)  BY <3>2 DEF OnTime
    <3>4. t = OpenedStatus(a, s, day)  BY <2>4
    <3>5. a.kind # "rights" => t = StatusNow(a)'
      <4> HIDE DEF s, t
      <4>1. StatusNow(a)' = IF a.record \notin 1..(day - 1) THEN "none"
                            ELSE IF day < a.ex THEN "captured"
                            ELSE IF a.settle <= (IF a.kind = "dividend" THEN day - 1 ELSE day)
                                 THEN "settled"
                            ELSE "accrued"
        BY <2>7 DEF StatusNow
      <4>2. StatusNow(a) = IF a.record \notin 1..(day - 1) THEN "none"
                           ELSE IF day - 1 < a.ex THEN "captured"
                           ELSE IF a.settle <= day - 1 THEN "settled"
                           ELSE "accrued"
        BY <2>7 DEF StatusNow
      <4> QED  BY <2>7, <3>1, <3>3, <3>4, <4>1, <4>2 DEF OpenedStatus
    <3>6. t # "none" => s # "none"  BY <3>4 DEF OpenedStatus
    <3>7. t # "none" => ClaimOf(a)'.qty = ClaimOf(a).qty
      BY <2>4, <3>6 DEF SameTerms
    <3>8. SharesAt(a.record)' = SharesAt(a.record)
      <4>1. \A side : Traded(side, a.record)' = Traded(side, a.record)  BY <1>1 DEF Traded
      <4>2. ASSUME NEW b \in actions PROVE ClaimOf(b)'.delta = ClaimOf(b).delta
        <5>1. SameTerms(ClaimOf(b), ClaimOf(b)')
              /\ ClaimOf(b)'.status = OpenedStatus(b, ClaimOf(b).status, day)
          BY <2>4
        <5>2. ClaimOf(b).status = "none" => ClaimOf(b)'.status = "none"
          BY <5>1 DEF OpenedStatus
        <5> QED  BY <5>1, <5>2 DEF SameTerms
      <4> QED  BY <1>1, <4>1, <4>2, SharesKeep
    <3>9. t # "none" => ClaimOf(a)'.qty = SharesAt(a.record)'
      BY <3>2, <3>6, <3>7, <3>8 DEF OnTime
    <3>10. a.kind = "rights" /\ a.record \in 1..ClosedBy' => Done(portfolio, a, "declined")'
      BY <2>4, <2>7, <3>2 DEF OnTime
    <3> QED  BY <3>5, <3>9, <3>10 DEF OnTime
  <2> QED  BY <1>1, <2>1, <2>4, <2>5, <2>6, <2>8 DEF IInv
<1> QED  BY <1>2, <1>3

(* After the close (apply_after_session). *)
LEMMA CloseOK ==
    ASSUME IInv, CloseSession
    PROVE  IInv'
<1> DEFINE q == AfterSession(portfolio, actions, day)
<1>1. phase = "open" /\ UNCHANGED <<actions, day, trades>>  BY DEF CloseSession
<1>2. CASE ~ q.ok
  <2>1. phase' = "failed" /\ portfolio' = portfolio  BY <1>2 DEF CloseSession, Reaches
  <2> QED  BY <1>1, <2>1, GivenUp
<1>3. CASE q.ok
  <2>1. portfolio' = q /\ phase' = "closed"  BY <1>3 DEF CloseSession, Reaches
  <2>2. Calendar(actions) /\ AccountOK(portfolio, actions)  BY CalendarIs DEF IInv
  <2>3. /\ AccountOK(q, actions) /\ Balanced(portfolio, q) /\ portfolio.phases \subseteq q.phases
        /\ \A a \in actions :
              LET old == portfolio.claims[a.name]
                  new == q.claims[a.name]
              IN  /\ new.status = ClosedStatus(a, old.status, day) /\ SameTerms(old, new)
                  /\ old.status = "none" /\ new.status # "none"
                        => new.qty = Quantity(portfolio.lots)
                  /\ a.kind = "rights" /\ a.record = day => Done(q, a, "declined")
    BY <1>3, <2>2, AfterSessionOK
  <2> HIDE DEF q
  <2>4. /\ AccountOK(portfolio', actions) /\ Balanced(portfolio, portfolio')
        /\ \A a \in actions :
              /\ ClaimOf(a)'.status = ClosedStatus(a, ClaimOf(a).status, day)
              /\ SameTerms(ClaimOf(a), ClaimOf(a)')
              /\ ClaimOf(a).status = "none" /\ ClaimOf(a)'.status # "none"
                    => ClaimOf(a)'.qty = Quantity(portfolio.lots)
              /\ a.kind = "rights" /\ a.record = day => Done(portfolio, a, "declined")'
              /\ Done(portfolio, a, "declined") => Done(portfolio, a, "declined")'
    BY <2>1, <2>3 DEF ClaimOf, Done
  <2>5. HoldingsAdd' /\ CashAdds'  BY <1>1, <2>4, BoundaryAdds
  <2>6. TradesOK'  BY <1>1, <2>1 DEF IInv, TradesOK
  <2>7. /\ day \in Nat /\ day >= 1 /\ OpenedBy = day /\ ClosedBy = day - 1
        /\ OpenedBy' = day /\ ClosedBy' = day
    BY <1>1, <2>1, DaysAre DEF OpenedBy, ClosedBy
  <2>8. Quantity(portfolio.lots) = SharesAt(day)
    BY <1>1, <2>7, HoldingsNow DEF HoldingsAsStated
  <2>9. ASSUME NEW a \in actions PROVE OnTime(a)'
    <3> DEFINE s == ClaimOf(a).status
               t == ClaimOf(a)'.status
    <3>1. /\ a.record \in Nat /\ a.ex \in Nat /\ a.settle \in Nat
          /\ a.record < a.ex /\ a.ex <= a.settle
          /\ s \in {"none", "captured", "accrued", "settled"}
      BY StatusIs
    <3>2. OnTime(a)  BY <1>1 DEF IInv
    <3>3. a.kind # "rights" => s = StatusNow(a)  BY <3>2 DEF OnTime
    <3>4. t = ClosedStatus(a, s, day)  BY <2>4
    <3>5. a.kind # "rights" => t = StatusNow(a)'
      <4> HIDE DEF s, t
      <4>1. StatusNow(a)' = IF a.record \notin 1..day THEN "none"
                            ELSE IF day < a.ex THEN "captured"
                            ELSE IF a.settle <= day THEN "settled"
                            ELSE "accrued"
        BY <2>7 DEF StatusNow
      <4>2. StatusNow(a) = IF a.record \notin 1..(day - 1) THEN "none"
                           ELSE IF day < a.ex THEN "captured"
                           ELSE IF a.settle <= (IF a.kind = "dividend" THEN day - 1 ELSE day)
                                THEN "settled"
                           ELSE "accrued"
        BY <2>7 DEF StatusNow
      <4> QED  BY <2>7, <3>1, <3>3, <3>4, <4>1, <4>2 DEF ClosedStatus
    <3>6. ASSUME NEW upTo \in Nat, upTo <= day
          PROVE  SharesAt(upTo)' = SharesAt(upTo)
      <4>1. \A side : Traded(side, upTo)' = Traded(side, upTo)  BY <1>1 DEF Traded
      <4>2. ASSUME NEW b \in actions, b.settle <= upTo PROVE ClaimOf(b)'.delta = ClaimOf(b).delta
        <5>1. SameTerms(ClaimOf(b), ClaimOf(b)')
              /\ ClaimOf(b)'.status = ClosedStatus(b, ClaimOf(b).status, day)
          BY <2>4
        <5>2. b.record \in Nat /\ b.ex \in Nat /\ b.settle \in Nat
              /\ b.record < b.ex /\ b.ex <= b.settle
          BY StatusIs
        <5>3. b.record # day  BY <2>7, <3>6, <4>2, <5>2
        <5>4. ClaimOf(b).status = "none" => ClaimOf(b)'.status = "none"
          BY <5>1, <5>3 DEF ClosedStatus
        <5> QED  BY <5>1, <5>4 DEF SameTerms
      <4> QED  BY <1>1, <4>1, <4>2, SharesKeep
    <3>7. t # "none" => ClaimOf(a)'.qty = SharesAt(a.record)'
      <4> SUFFICES ASSUME t # "none" PROVE ClaimOf(a)'.qty = SharesAt(a.record)'  OBVIOUS
      <4>1. CASE s = "none"
        <5>1. a.record = day  BY <3>4, <4>1 DEF ClosedStatus
        <5>2. ClaimOf(a)'.qty = Quantity(portfolio.lots)  BY <2>4, <4>1
        <5>3. SharesAt(a.record)' = SharesAt(a.record)  BY <2>7, <3>1, <3>6, <5>1
        <5> QED  BY <2>8, <5>1, <5>2, <5>3
      <4>2. CASE s # "none"
        <5>1. ClaimOf(a)'.qty = ClaimOf(a).qty /\ ClaimOf(a).qty = SharesAt(a.record)
          BY <2>4, <3>2, <4>2 DEF SameTerms, OnTime
        <5>2. a.kind # "rights"  BY <4>2, StatusIs
        <5>3. a.record \in 1..(day - 1)  BY <2>7, <3>3, <4>2, <5>2 DEF StatusNow
        <5>4. SharesAt(a.record)' = SharesAt(a.record)  BY <2>7, <3>1, <3>6, <5>3
        <5> QED  BY <5>1, <5>4
      <4> QED  BY <4>1, <4>2
    <3>8. a.kind = "rights" /\ a.record \in 1..ClosedBy' => Done(portfolio, a, "declined")'
      <4>1. a.record \in 1..day => a.record = day \/ a.record \in 1..(day - 1)  BY <2>7, <3>1
      <4> QED  BY <2>4, <2>7, <3>2, <4>1 DEF OnTime
    <3> QED  BY <3>5, <3>7, <3>8 DEF OnTime
  <2> QED  BY <1>1, <2>1, <2>4, <2>5, <2>6, <2>9 DEF IInv
<1> QED  BY <1>2, <1>3

(* The night between two sessions. *)
LEMMA NextOK ==
    ASSUME IInv, NextSession
    PROVE  IInv'
<1>1. phase = "closed" /\ phase' = "before" /\ day < LastDay /\ day' = day + 1
      /\ actions' = actions /\ portfolio' = portfolio /\ trades' = trades
  BY DEF NextSession
<1>2. day \in Nat /\ LastDay \in Nat /\ day >= 1 /\ OpenedBy = day /\ ClosedBy = day
      /\ OpenedBy' = day /\ ClosedBy' = day
  BY <1>1, DaysAre DEF OpenedBy, ClosedBy
<1>3. day' \in 1..LastDay  BY <1>1, <1>2
<1>4. TradesOK'
  <2>1. TradesOK  BY DEF IInv
  <2>2. ASSUME NEW t \in trades
        PROVE  /\ t \in [side : {"buy", "sell"},
                         fill : [id : 1..Cardinality(trades), day : 1..(day + 1),
                                 qty : Nat \ {0}, price : {Price}, fees : {Fees}]]
               /\ t.fill.day < day + 1
    <3>1. 1..day \subseteq 1..(day + 1)  BY <1>2
    <3>2. t \in [side : {"buy", "sell"},
                 fill : [id : 1..Cardinality(trades), day : 1..day,
                         qty : Nat \ {0}, price : {Price}, fees : {Fees}]]
      BY <2>1 DEF TradesOK
    <3>3. t.fill.day \in 1..day  BY <3>2
    <3> QED  BY <1>2, <3>1, <3>2, <3>3
  <2> QED  BY <1>1, <2>1, <2>2 DEF TradesOK
<1>5. HoldingsAdd' /\ CashAdds'  BY <1>1 DEF IInv, HoldingsAdd, CashAdds, Fills
<1>6. AccountOK(portfolio, actions)'  BY <1>1 DEF IInv
<1>7. ASSUME NEW a \in actions PROVE OnTime(a)'
  <2>1. OnTime(a)  BY <1>1 DEF IInv
  <2>2. StatusNow(a)' = StatusNow(a)  BY <1>2 DEF StatusNow
  <2>3. ClaimOf(a)' = ClaimOf(a)  BY <1>1 DEF ClaimOf
  <2>4. Done(portfolio, a, "declined")' <=> Done(portfolio, a, "declined")  BY <1>1
  <2>5. SharesAt(a.record)' = SharesAt(a.record)
    <3>1. \A side : Traded(side, a.record)' = Traded(side, a.record)  BY <1>1 DEF Traded
    <3>2. \A b \in actions : ClaimOf(b)'.delta = ClaimOf(b).delta  BY <1>1 DEF ClaimOf
    <3> QED  BY <1>1, <3>1, <3>2, SharesKeep
  <2> QED  BY <1>2, <2>1, <2>2, <2>3, <2>4, <2>5 DEF OnTime
<1> QED  BY <1>1, <1>3, <1>4, <1>5, <1>6, <1>7 DEF IInv

-----------------------------------------------------------------------------
(* The fills. *)

(* What recording the next fill does to the history. *)
LEMMA TradeAdds ==
    ASSUME IInv, CanTrade, NEW side \in {"buy", "sell"}, NEW qty \in Nat \ {0},
           Recorded(side, NextFill(qty)), UNCHANGED <<actions, day, phase>>
    PROVE  /\ NextFill(qty) \in FillRecords
           /\ NextFill(qty).qty = qty /\ NextFill(qty).day = day
           /\ TradesOK'
           /\ NextFill(qty) \notin Fills(side)
           /\ Fills(side)' = Fills(side) \cup {NextFill(qty)}
           /\ \A other : other # side => Fills(other)' = Fills(other)
           /\ \A other, upTo : upTo \in Nat /\ upTo < day
                                  => Traded(other, upTo)' = Traded(other, upTo)
<1> DEFINE n == Cardinality(trades)
           fill == NextFill(qty)
           trade == [side |-> side, fill |-> fill]
<1>1. TradesOK /\ IsFiniteSet(trades) /\ n \in Nat  BY FS_CardinalityType DEF IInv, TradesOK
<1>2. phase = "open" /\ trades' = trades \cup {trade} /\ day' = day /\ phase' = phase
  BY DEF CanTrade, Recorded
<1>3. day \in Nat /\ day >= 1  BY DaysAre
<1>4. /\ fill.id = n + 1 /\ fill.day = day /\ fill.qty = qty /\ fill.price = Price /\ fill.fees = Fees
      /\ fill \in [id : {n + 1}, day : {day}, qty : {qty}, price : {Price}, fees : {Fees}]
      /\ trade.side = side /\ trade.fill = fill
      /\ trade \in [side : {side}, fill : {fill}]
  BY DEF NextFill, Fill
<1> HIDE DEF n, fill, trade
<1>5. fill \in FillRecords
  <2>1. Price \in Nat \ {0} /\ Fees \in Nat  BY TimelineAssumption
  <2> QED  BY <1>1, <1>3, <1>4, <2>1 DEF FillRecords
<1>6. \A t \in trades : t.fill.id \in 1..n  BY <1>1 DEF TradesOK, n
<1>7. \A t \in trades : t.fill # fill /\ t.fill.id # fill.id
  <2>1. n + 1 \notin 1..n  BY <1>1
  <2> QED  BY <1>4, <1>6, <2>1
<1>8. trade \notin trades  BY <1>4, <1>7
<1>9. Cardinality(trades') = n + 1 /\ IsFiniteSet(trades')
  BY <1>1, <1>2, <1>8, FS_AddElement DEF n
<1>10. TradesOK'
  <2>1. 1..n \subseteq 1..(n + 1) /\ n + 1 \in 1..(n + 1) /\ day \in 1..day  BY <1>1, <1>3
  <2>2. ASSUME NEW t \in trades'
        PROVE  t \in [side : {"buy", "sell"},
                      fill : [id : 1..(n + 1), day : 1..day, qty : Nat \ {0},
                              price : {Price}, fees : {Fees}]]
    <3>1. CASE t \in trades
      <4>1. t \in [side : {"buy", "sell"},
                   fill : [id : 1..n, day : 1..day, qty : Nat \ {0},
                           price : {Price}, fees : {Fees}]]
        BY <1>1, <3>1 DEF TradesOK, n
      <4> QED  BY <2>1, <4>1
    <3>2. CASE t = trade
      <4>1. fill \in [id : 1..(n + 1), day : 1..day, qty : Nat \ {0}, price : {Price}, fees : {Fees}]
        BY <1>4, <2>1
      <4> QED  BY <1>4, <3>2, <4>1
    <3> QED  BY <1>2, <3>1, <3>2
  <2>3. ASSUME NEW t \in trades', NEW u \in trades', t.fill.id = u.fill.id PROVE t = u
    <3>1. CASE t \in trades /\ u \in trades  BY <1>1, <2>3, <3>1 DEF TradesOK
    <3>2. CASE t = trade \/ u = trade  BY <1>2, <1>4, <1>7, <2>3, <3>2
    <3> QED  BY <1>2, <3>1, <3>2
  <2> QED  BY <1>2, <1>9, <2>2, <2>3 DEF TradesOK
<1>11. fill \notin Fills(side)  BY <1>7 DEF Fills
<1>12. Fills(side)' = Fills(side) \cup {fill}  BY <1>2, <1>4 DEF Fills
<1>13. \A other : other # side => Fills(other)' = Fills(other)  BY <1>2, <1>4 DEF Fills
<1>14. ASSUME NEW other, NEW upTo \in Nat, upTo < day
       PROVE  Traded(other, upTo)' = Traded(other, upTo)
  <2>1. ~ (trade.fill.day <= upTo)  BY <1>3, <1>4, <1>14
  <2> QED  BY <1>2, <2>1 DEF Traded
<1> QED  BY <1>4, <1>5, <1>10, <1>11, <1>12, <1>13, <1>14 DEF fill

(* A fill of the day touches no entitlement: the shares registered so far   *)
(* were counted at the close of earlier days.                               *)
LEMMA TradeOnTime ==
    ASSUME IInv, CanTrade, UNCHANGED <<actions, day, phase>>,
           portfolio'.claims = portfolio.claims, portfolio'.phases = portfolio.phases,
           \A side, upTo : upTo \in Nat /\ upTo < day => Traded(side, upTo)' = Traded(side, upTo)
    PROVE  \A a \in actions : OnTime(a)'
<1> SUFFICES ASSUME NEW a \in actions PROVE OnTime(a)'  OBVIOUS
<1>1. phase = "open" /\ OnTime(a)  BY DEF CanTrade, IInv
<1>2. /\ day \in Nat /\ ClosedBy = day - 1 /\ ClosedBy' = ClosedBy /\ OpenedBy' = OpenedBy
  BY <1>1, DaysAre DEF OpenedBy, ClosedBy
<1>3. StatusNow(a)' = StatusNow(a)  BY <1>2 DEF StatusNow
<1>4. ClaimOf(a)' = ClaimOf(a)  BY DEF ClaimOf
<1>5. Done(portfolio, a, "declined")' <=> Done(portfolio, a, "declined")  BY DEF Done
<1>6. ASSUME ClaimOf(a).status # "none" PROVE SharesAt(a.record)' = SharesAt(a.record)
  <2>1. a.kind # "rights"  BY <1>6, StatusIs
  <2>2. StatusNow(a) # "none"  BY <1>1, <1>6, <2>1 DEF OnTime
  <2>3. a.record \in 1..(day - 1)  BY <1>2, <2>2 DEF StatusNow
  <2>4. a.record \in Nat /\ a.record < day  BY <1>2, <2>3
  <2>5. \A side : Traded(side, a.record)' = Traded(side, a.record)  BY <2>4
  <2>6. \A b \in actions : ClaimOf(b)'.delta = ClaimOf(b).delta  BY DEF ClaimOf
  <2> QED  BY <2>5, <2>6, SharesKeep
<1> QED  BY <1>1, <1>2, <1>3, <1>4, <1>5, <1>6 DEF OnTime

(* The amounts of the fills recorded so far. *)
LEMMA AmountsNow ==
    ASSUME IInv
    PROVE  /\ Quantity(portfolio.lots) \in Nat /\ portfolio.cash \in Nat
           /\ portfolio.books \in BookRecords /\ portfolio.books.cash \in Int
           /\ Paid(portfolio) \in Int /\ Granted(portfolio) \in Int
           /\ OpeningCash \in Nat
<1>1. Shape(portfolio, actions) /\ OpenLots(portfolio.lots)  BY DEF IInv, AccountOK
<1>2. portfolio.cash \in Nat /\ portfolio.books \in BookRecords  BY <1>1, FieldsOf
<1>3. Quantity(portfolio.lots) \in Nat  BY <1>1, AmountsNat
<1>4. Paid(portfolio) \in Int /\ Granted(portfolio) \in Int
  <2>1. Calendar(actions) /\ AccountOK(portfolio, actions)  BY CalendarIs DEF IInv
  <2> QED  BY <2>1, AccountWhole, SumsInt
<1> QED  BY <1>2, <1>3, <1>4, TimelineAssumption DEF BookRecords

(* A BUY fill. *)
LEMMA BuyOK ==
    ASSUME IInv, NEW qty \in Quantities, BuyFill(qty)
    PROVE  IInv'
<1> DEFINE fill == NextFill(qty)
           q == Bought(portfolio, fill, day + 1)
<1>1. /\ CanTrade /\ Recorded("buy", fill) /\ UNCHANGED <<actions, day, phase>>
      /\ portfolio' = q /\ CanBuy(portfolio, fill, day + 1)
  BY DEF BuyFill
<1>2. qty \in Nat \ {0}  BY TimelineAssumption
<1>3. /\ fill \in FillRecords /\ fill.qty = qty
      /\ TradesOK' /\ fill \notin Fills("buy")
      /\ Fills("buy")' = Fills("buy") \cup {fill} /\ Fills("sell")' = Fills("sell")
      /\ \A side, upTo : upTo \in Nat /\ upTo < day => Traded(side, upTo)' = Traded(side, upTo)
  BY <1>1, <1>2, TradeAdds
<1>4. /\ AccountOK(q, actions) /\ q.claims = portfolio.claims /\ q.phases = portfolio.phases
      /\ Quantity(q.lots) = Quantity(portfolio.lots) + fill.qty
      /\ q.cash = portfolio.cash - BuyCost(fill)
      /\ q.books.cash = portfolio.books.cash - BuyCost(fill)
      /\ Paid(q) = Paid(portfolio) /\ Granted(q) = Granted(portfolio)
  <2>1. AccountOK(portfolio, actions) /\ day + 1 \in Nat  BY DaysAre DEF IInv
  <2> HIDE DEF fill
  <2> QED  BY <1>1, <1>3, <2>1, BoughtOK
<1> HIDE DEF fill, q
<1>5. /\ AccountOK(portfolio', actions)
      /\ portfolio'.claims = portfolio.claims /\ portfolio'.phases = portfolio.phases
      /\ Quantity(portfolio'.lots) = Quantity(portfolio.lots) + fill.qty
      /\ portfolio'.cash = portfolio.cash - BuyCost(fill)
      /\ portfolio'.books.cash = portfolio.books.cash - BuyCost(fill)
      /\ Paid(portfolio') = Paid(portfolio) /\ Granted(portfolio') = Granted(portfolio)
  BY <1>1, <1>4
<1>6. \A a \in actions : OnTime(a)'  BY <1>1, <1>3, <1>5, TradeOnTime
<1> DEFINE qb == Quantity(Fills("buy"))
           qs == Quantity(Fills("sell"))
           cb == SumFunction([x \in Fills("buy") |-> BuyCost(x)])
           cs == SumFunction([x \in Fills("sell") |-> Proceeds(x)])
<1>7. /\ qb \in Int /\ qs \in Int /\ cb \in Int /\ cs \in Int
      /\ IsFiniteSet(Fills("buy")) /\ Fills("buy") \subseteq FillRecords
  <2>1. day \in Nat /\ TradesOK  BY DaysAre DEF IInv
  <2> QED  BY <2>1, FillsAre
<1>8. /\ qb' = qb + fill.qty /\ cb' = cb + BuyCost(fill) /\ qs' = qs /\ cs' = cs
  <2>1. LET G == Fills("buy") \cup {fill}
        IN  /\ Quantity(G) = qb + fill.qty
            /\ SumFunction([x \in G |-> BuyCost(x)]) = cb + BuyCost(fill)
    BY <1>3, <1>7, FillsAdd
  <2> QED  BY <1>3, <2>1
<1>9. /\ Quantity(portfolio.lots) = qb - qs + Granted(portfolio)
      /\ portfolio.cash = OpeningCash - cb + cs + Paid(portfolio)
      /\ portfolio.books.cash = portfolio.cash - OpeningCash
  BY DEF IInv, HoldingsAdd, CashAdds
<1>10. BuyCost(fill) \in Int /\ fill.qty \in Int  BY <1>2, <1>3, FillAmounts
<1> HIDE DEF qb, qs, cb, cs
<1>11. /\ Quantity(portfolio'.lots) = qb' - qs' + Granted(portfolio')
       /\ portfolio'.cash = OpeningCash - cb' + cs' + Paid(portfolio')
       /\ portfolio'.books.cash = portfolio'.cash - OpeningCash
  BY <1>5, <1>7, <1>8, <1>9, <1>10, AmountsNow
<1>12. HoldingsAdd' /\ CashAdds'  BY <1>11 DEF HoldingsAdd, CashAdds, qb, qs, cb, cs
<1> QED  BY <1>1, <1>3, <1>5, <1>6, <1>12 DEF IInv

(* A SELL fill. *)
LEMMA SellOK ==
    ASSUME IInv, NEW qty \in 1..Quantity(portfolio.lots), SellFill(qty)
    PROVE  IInv'
<1> DEFINE fill == NextFill(qty)
<1>1. PICK cf \in BOOLEAN :
      /\ CanTrade /\ Recorded("sell", fill) /\ UNCHANGED <<actions, day, phase>>
      /\ portfolio' = Sold(portfolio, fill, cf) /\ CanSell(portfolio, fill, cf)
  BY DEF SellFill
<1> DEFINE q == Sold(portfolio, fill, cf)
<1>2. qty \in Nat \ {0}  BY AmountsNow
<1>3. /\ fill \in FillRecords /\ fill.qty = qty
      /\ TradesOK' /\ fill \notin Fills("sell")
      /\ Fills("sell")' = Fills("sell") \cup {fill} /\ Fills("buy")' = Fills("buy")
      /\ \A side, upTo : upTo \in Nat /\ upTo < day => Traded(side, upTo)' = Traded(side, upTo)
  BY <1>1, <1>2, TradeAdds
<1>4. /\ AccountOK(q, actions) /\ q.claims = portfolio.claims /\ q.phases = portfolio.phases
      /\ Quantity(q.lots) = Quantity(portfolio.lots) - fill.qty
      /\ q.cash = portfolio.cash + Proceeds(fill)
      /\ q.books.cash = portfolio.books.cash + Proceeds(fill)
      /\ Paid(q) = Paid(portfolio) /\ Granted(q) = Granted(portfolio)
  <2>1. Calendar(actions) /\ AccountOK(portfolio, actions)  BY CalendarIs DEF IInv
  <2> HIDE DEF fill
  <2> QED  BY <1>1, <1>3, <2>1, SoldOK
<1>5. portfolio' = q  BY <1>1
<1> HIDE DEF fill, q
<1>6. /\ AccountOK(portfolio', actions)
      /\ portfolio'.claims = portfolio.claims /\ portfolio'.phases = portfolio.phases
      /\ Quantity(portfolio'.lots) = Quantity(portfolio.lots) - fill.qty
      /\ portfolio'.cash = portfolio.cash + Proceeds(fill)
      /\ portfolio'.books.cash = portfolio.books.cash + Proceeds(fill)
      /\ Paid(portfolio') = Paid(portfolio) /\ Granted(portfolio') = Granted(portfolio)
  BY <1>4, <1>5
<1>7. \A a \in actions : OnTime(a)'  BY <1>1, <1>3, <1>6, TradeOnTime
<1> DEFINE qb == Quantity(Fills("buy"))
           qs == Quantity(Fills("sell"))
           cb == SumFunction([x \in Fills("buy") |-> BuyCost(x)])
           cs == SumFunction([x \in Fills("sell") |-> Proceeds(x)])
<1>8. /\ qb \in Int /\ qs \in Int /\ cb \in Int /\ cs \in Int
      /\ IsFiniteSet(Fills("sell")) /\ Fills("sell") \subseteq FillRecords
  <2>1. day \in Nat /\ TradesOK  BY DaysAre DEF IInv
  <2> QED  BY <2>1, FillsAre
<1>9. /\ qs' = qs + fill.qty /\ cs' = cs + Proceeds(fill) /\ qb' = qb /\ cb' = cb
  <2>1. LET G == Fills("sell") \cup {fill}
        IN  /\ Quantity(G) = qs + fill.qty
            /\ SumFunction([x \in G |-> Proceeds(x)]) = cs + Proceeds(fill)
    BY <1>3, <1>8, FillsAdd
  <2> QED  BY <1>3, <2>1
<1>10. /\ Quantity(portfolio.lots) = qb - qs + Granted(portfolio)
       /\ portfolio.cash = OpeningCash - cb + cs + Paid(portfolio)
       /\ portfolio.books.cash = portfolio.cash - OpeningCash
  BY DEF IInv, HoldingsAdd, CashAdds
<1>11. Proceeds(fill) \in Int /\ fill.qty \in Int  BY <1>2, <1>3, FillAmounts
<1> HIDE DEF qb, qs, cb, cs
<1>12. /\ Quantity(portfolio'.lots) = qb' - qs' + Granted(portfolio')
       /\ portfolio'.cash = OpeningCash - cb' + cs' + Paid(portfolio')
       /\ portfolio'.books.cash = portfolio'.cash - OpeningCash
  BY <1>6, <1>8, <1>9, <1>10, <1>11, AmountsNow
<1>13. HoldingsAdd' /\ CashAdds'  BY <1>12 DEF HoldingsAdd, CashAdds, qb, qs, cb, cs
<1> QED  BY <1>1, <1>3, <1>6, <1>7, <1>13 DEF IInv

-----------------------------------------------------------------------------
(* The steps together. *)

(* Every step preserves the invariant. *)
LEMMA Inductive ==
    ASSUME IInv, [Next]_vars
    PROVE  IInv'
<1>1. ASSUME NEW qty, SaleFails(qty) PROVE IInv'  BY <1>1, GivenUp DEF SaleFails
<1>2. CASE UNCHANGED vars
  <2>1. actions' = actions /\ day' = day /\ phase' = phase /\ portfolio' = portfolio /\ trades' = trades
    BY <1>2 DEF vars
  <2>2. TradesOK' /\ HoldingsAdd' /\ CashAdds'
    BY <2>1 DEF IInv, TradesOK, HoldingsAdd, CashAdds, Fills
  <2>3. \A a : OnTime(a)' <=> OnTime(a)
    BY <2>1 DEF OnTime, ClosedBy, OpenedBy, Done, ClaimOf, StatusNow, SharesAt, Traded, Claims
  <2> QED  BY <2>1, <2>2, <2>3 DEF IInv
<1> QED  BY <1>1, <1>2, OpenOK, CloseOK, NextOK, BuyOK, SellOK DEF Next

(* Every reachable state satisfies the invariant. *)
THEOREM TimelineInvariant == Spec => []IInv
<1>1. Init => IInv  BY InitOK
<1>2. IInv /\ [Next]_vars => IInv'  BY Inductive
<1> QED  BY <1>1, <1>2, PTL DEF Spec

(* The portfolio keeps the shape of PortfolioState: cash never negative,    *)
(* no empty lot, no two lots of one id.                                     *)
THEOREM TimelineTypes == Spec => []TypeOK
BY TimelineInvariant, TypeNow, PTL

(* The lots hold the shares bought and not sold, plus what settled actions  *)
(* gave, whatever splits and sales happened to them.                        *)
THEOREM HoldingsStated == Spec => []HoldingsAsStated
BY TimelineInvariant, HoldingsNow, PTL

(* Cash is what the fills moved plus the dividends whose pay date closed.   *)
THEOREM CashStated == Spec => []CashAsStated
BY TimelineInvariant, CashNow, PTL

(* Entitlements follow the calendar and the holding at the record close.    *)
THEOREM EntitlementsStated == Spec => []EntitlementsAsStated
BY TimelineInvariant, EntitlementsNow, PTL

(* The journal balances and agrees with the account. *)
THEOREM BooksStayAgreed == Spec => []BooksAgree
BY TimelineInvariant, BooksNow, PTL

(* A boundary that is run again changes nothing. *)
THEOREM BoundariesIdempotent == Spec => []BoundariesRepeat
BY TimelineInvariant, RepeatNow, PTL

-----------------------------------------------------------------------------
(* What a step may do to the principal and to the lots. *)

(* A boundary that completed moved principal between lots and claims only. *)
LEMMA BoundaryCarries ==
    ASSUME IInv, OpenSession \/ CloseSession
    PROVE  trades' = trades /\ PrincipalInAll(portfolio') = PrincipalInAll(portfolio)
<1>1. Calendar(actions) /\ AccountOK(portfolio, actions)  BY CalendarIs DEF IInv
<1>2. CASE OpenSession
  <2> DEFINE q == BeforeSession(portfolio, actions, day)
  <2>1. trades' = trades /\ portfolio' = IF q.ok THEN q ELSE portfolio
    BY <1>2 DEF OpenSession, Reaches
  <2>2. q.ok => Balanced(portfolio, q)  BY <1>1, BeforeSessionOK
  <2> HIDE DEF q
  <2> QED  BY <2>1, <2>2 DEF Balanced
<1>3. CASE CloseSession
  <2> DEFINE q == AfterSession(portfolio, actions, day)
  <2>1. trades' = trades /\ portfolio' = IF q.ok THEN q ELSE portfolio
    BY <1>3 DEF CloseSession, Reaches
  <2>2. q.ok => Balanced(portfolio, q)  BY <1>1, AfterSessionOK
  <2> HIDE DEF q
  <2> QED  BY <2>1, <2>2 DEF Balanced
<1> QED  BY <1>2, <1>3

(* A buy opens a lot, spends cash and leaves the other lots alone. *)
LEMMA BuyTakes ==
    ASSUME IInv, NEW qty \in Quantities, BuyFill(qty)
    PROVE  /\ trades' # trades
           /\ portfolio'.cash < portfolio.cash
           /\ portfolio.lots \subseteq portfolio'.lots /\ OpenLots(portfolio'.lots)
<1> DEFINE fill == NextFill(qty)
<1>1. /\ CanTrade /\ Recorded("buy", fill) /\ UNCHANGED <<actions, day, phase>>
      /\ portfolio' = Bought(portfolio, fill, day + 1) /\ CanBuy(portfolio, fill, day + 1)
  BY DEF BuyFill
<1>2. qty \in Nat \ {0}  BY TimelineAssumption
<1>3. /\ fill \in FillRecords /\ fill \notin Fills("buy")
      /\ Fills("buy")' = Fills("buy") \cup {fill}
  BY <1>1, <1>2, TradeAdds
<1>4. trades' # trades  BY <1>3 DEF Fills
<1>5. AccountOK(portfolio, actions) /\ day + 1 \in Nat  BY DaysAre DEF IInv
<1> HIDE DEF fill
<1>6. AccountOK(portfolio', actions) /\ portfolio'.cash < portfolio.cash
      /\ portfolio.lots \subseteq portfolio'.lots
  BY <1>1, <1>3, <1>5, BoughtOK
<1> QED  BY <1>4, <1>6 DEF AccountOK

(* A sale takes shares first in, first out, and never adds principal. *)
LEMMA SaleTakes ==
    ASSUME IInv, NEW qty \in 1..Quantity(portfolio.lots), SellFill(qty)
    PROVE  /\ trades' # trades
           /\ PrincipalInAll(portfolio') <= PrincipalInAll(portfolio)
           /\ \A lot \in portfolio.lots :
                 Left(lot.id) < lot.qty =>
                    /\ lot.sellable <= day
                    /\ \A older \in portfolio.lots :
                          older.sellable <= day /\ older.acquired < lot.acquired
                             => Left(older.id) = 0
<1> DEFINE fill == NextFill(qty)
<1>1. PICK cf \in BOOLEAN :
      /\ CanTrade /\ Recorded("sell", fill) /\ UNCHANGED <<actions, day, phase>>
      /\ portfolio' = Sold(portfolio, fill, cf) /\ CanSell(portfolio, fill, cf)
  BY DEF SellFill
<1>2. qty \in Nat \ {0}  BY AmountsNow
<1>3. /\ fill \in FillRecords /\ fill \notin Fills("sell")
      /\ Fills("sell")' = Fills("sell") \cup {fill} /\ fill.qty = qty /\ fill.day = day
  BY <1>1, <1>2, TradeAdds
<1>4. trades' # trades  BY <1>3 DEF Fills
<1>5. Calendar(actions) /\ AccountOK(portfolio, actions)  BY CalendarIs DEF IInv
<1> HIDE DEF fill
<1>6. AccountOK(portfolio', actions) /\ PrincipalInAll(portfolio') <= PrincipalInAll(portfolio)
  BY <1>1, <1>3, <1>5, SoldOK
<1> DEFINE lots == portfolio.lots
           queue == Eligible(lots, day)
           all == portfolio'.lots
<1>7. /\ OpenLots(lots) /\ OpenLots(all)
      /\ qty <= Quantity(queue)
      /\ all = (lots \ queue) \cup Survivors(queue, qty, cf)
  <2>1. DOMAIN portfolio = {"ok", "cash", "lots", "fills", "books", "claims", "phases"}
    BY <1>5, FieldsOf DEF AccountOK
  <2>2. Sold(portfolio, fill, cf).lots = (lots \ queue) \cup Survivors(queue, qty, cf)
    BY <1>3, <2>1 DEF Sold
  <2> QED  BY <1>1, <1>3, <1>5, <1>6, <2>2 DEF AccountOK, CanSell, SaleCovered
<1>8. queue = Eligible(lots, day) /\ queue = {lot \in lots : lot.sellable <= day}  BY DEF Eligible
<1>9. \A id : Left(id) = Quantity(OfId(all, id))  BY DEF Left, OfId
<1> HIDE DEF queue, lots, all
<1>10. qty \in 0..Quantity(queue) /\ cf \in BOOLEAN
  <2>1. queue \subseteq lots  BY <1>8
  <2>2. Quantity(queue) \in Nat  BY <1>7, <2>1, OpenPart, AmountsNat
  <2> QED  BY <1>1, <1>2, <1>7, <2>2
<1>11. ASSUME NEW lot \in lots, Left(lot.id) < lot.qty
       PROVE  /\ lot.sellable <= day
              /\ \A older \in lots : older.sellable <= day /\ older.acquired < lot.acquired
                                        => Left(older.id) = 0
  <2>1. Quantity(OfId(all, lot.id)) < lot.qty  BY <1>9, <1>11
  <2>2. /\ lot \in queue
        /\ \A older \in queue :
              older.acquired < lot.acquired => OfId(all, older.id) = {}
    <3>1. /\ lot \in lots /\ OpenLots(lots) /\ queue = Eligible(lots, day)
          /\ qty \in 0..Quantity(queue) /\ cf \in BOOLEAN
          /\ all = (lots \ queue) \cup Survivors(queue, qty, cf) /\ OpenLots(all)
      BY <1>7, <1>8, <1>10
    <3> QED  BY ONLY <2>1, <3>1, FifoSale
  <2>3. ASSUME NEW older \in lots, older.sellable <= day, older.acquired < lot.acquired
        PROVE  Left(older.id) = 0
    <3>1. OfId(all, older.id) = {}  BY <1>8, <2>2, <2>3
    <3> QED  BY <1>9, <3>1, NoneHeld
  <2> QED  BY <1>8, <2>2, <2>3
<1> QED  BY <1>4, <1>6, <1>11 DEF lots

(* Acquisition principal is carried by the boundaries and never made up by  *)
(* a sale.                                                                  *)
THEOREM PrincipalIsCarried == Spec => PrincipalCarried
<1> DEFINE Carried ==
       /\ trades' = trades => PrincipalInAll(portfolio') = PrincipalInAll(portfolio)
       /\ trades' # trades /\ portfolio'.cash > portfolio.cash
             => PrincipalInAll(portfolio') <= PrincipalInAll(portfolio)
<1>1. ASSUME IInv, [Next]_vars PROVE [Carried]_vars
  <2>1. CASE OpenSession \/ CloseSession  BY <1>1, <2>1, BoundaryCarries
  <2>2. CASE UNCHANGED vars  BY <2>2
  <2>3. CASE NextSession  BY <2>3 DEF NextSession
  <2>4. CASE \E qty : SaleFails(qty)  BY <2>4 DEF SaleFails
  <2>5. ASSUME NEW qty \in Quantities, BuyFill(qty) PROVE Carried
    <3>1. trades' # trades /\ portfolio'.cash < portfolio.cash  BY <1>1, <2>5, BuyTakes
    <3>2. IInv'  BY <1>1, <2>5, BuyOK
    <3>3. portfolio.cash \in Int /\ portfolio'.cash \in Int
      <4>1. portfolio.cash \in Nat  BY <1>1, AmountsNow
      <4>2. actions' = actions  BY <2>5 DEF BuyFill
      <4>3. Shape(portfolio', actions)  BY <3>2, <4>2 DEF IInv, AccountOK
      <4>4. portfolio'.cash \in Nat  BY <4>3, FieldsOf
      <4> QED  BY <4>1, <4>4
    <3> QED  BY <3>1, <3>3
  <2>6. ASSUME NEW qty \in 1..Quantity(portfolio.lots), SellFill(qty) PROVE Carried
    BY <1>1, <2>6, SaleTakes
  <2> QED  BY <1>1, <2>1, <2>2, <2>3, <2>4, <2>5, <2>6 DEF Next
<1> QED  BY <1>1, TimelineInvariant, PTL DEF Spec, PrincipalCarried

(* A sale is first in, first out among the shares that can be sold. *)
THEOREM SalesTakeOldest == Spec => SalesTakeOldestUnlocked
<1> DEFINE Fifo ==
       \A lot \in portfolio.lots :
          trades' # trades /\ Left(lot.id) < lot.qty =>
             /\ lot.sellable <= day
             /\ \A older \in portfolio.lots :
                   older.sellable <= day /\ older.acquired < lot.acquired => Left(older.id) = 0
<1>1. ASSUME IInv, [Next]_vars PROVE [Fifo]_vars
  <2>1. CASE OpenSession \/ CloseSession  BY <1>1, <2>1, BoundaryCarries
  <2>2. CASE UNCHANGED vars  BY <2>2
  <2>3. CASE NextSession  BY <2>3 DEF NextSession
  <2>4. CASE \E qty : SaleFails(qty)  BY <2>4 DEF SaleFails
  <2>5. ASSUME NEW qty \in Quantities, BuyFill(qty) PROVE Fifo
    <3>1. portfolio.lots \subseteq portfolio'.lots /\ OpenLots(portfolio'.lots)
      BY <1>1, <2>5, BuyTakes
    <3>2. ASSUME NEW lot \in portfolio.lots PROVE ~ (Left(lot.id) < lot.qty)
      <4>1. {l \in portfolio'.lots : l.id = lot.id} = {lot}  BY <3>1, <3>2 DEF OpenLots
      <4>2. lot \in LotRecords  BY <3>1, <3>2 DEF OpenLots
      <4>3. Left(lot.id) = lot.qty  BY <4>1, <4>2, AmountsOne DEF Left
      <4> QED  BY <4>2, <4>3 DEF LotRecords
    <3> QED  BY <3>2
  <2>6. ASSUME NEW qty \in 1..Quantity(portfolio.lots), SellFill(qty) PROVE Fifo
    BY <1>1, <2>6, SaleTakes
  <2> QED  BY <1>1, <2>1, <2>2, <2>3, <2>4, <2>5, <2>6 DEF Next
<1> QED  BY <1>1, TimelineInvariant, PTL DEF Spec, SalesTakeOldestUnlocked

-----------------------------------------------------------------------------
(* The account implements AccountContract.  Shares that can be sold on a    *)
(* date are followed through the loops of the boundaries (Frees); where the *)
(* contract reads a date in the calendar, OnTime says that the claim has    *)
(* come to that date's phase.                                               *)

(* The contract's sum is the one of the lemmas. *)
LEMMA AccountSum ==
    ASSUME NEW f
    PROVE  Account!SumFunction(f) = SumFunctionOnSet(f, DOMAIN f)
BY DEF SumFunctionOnSet, FoldFunctionOnSet, MapThenFoldSet, Account!SumFunction,
       Account!SumFunctionOnSet, Account!FoldFunctionOnSet, Account!MapThenFoldSet

(* The account's claims are the portfolio's. *)
LEMMA ClaimsAre ==
    /\ AccountClaims = [a \in actions |-> AccountClaims[a]]
    /\ \A a \in actions :
          /\ AccountClaims[a].state = ClaimState(ClaimOf(a).status)
          /\ AccountClaims[a].cash = ClaimOf(a).cash
          /\ AccountClaims[a].shares = ClaimOf(a).delta
          /\ AccountClaims[a] = [state |-> ClaimState(ClaimOf(a).status),
                                 cash |-> ClaimOf(a).cash, shares |-> ClaimOf(a).delta]
BY DEF AccountClaims

(* The claims after a step. *)
LEMMA ClaimsAreNext ==
    ASSUME actions' = actions
    PROVE  /\ AccountClaims' = [a \in actions |-> AccountClaims'[a]]
           /\ DOMAIN AccountClaims' = actions
           /\ \A a \in actions :
                 AccountClaims'[a] = [state |-> ClaimState(ClaimOf(a)'.status),
                                      cash |-> ClaimOf(a)'.cash, shares |-> ClaimOf(a)'.delta]
BY DEF AccountClaims, ClaimState

(* The shares that can be sold on a date, before and after a step. *)
LEMMA SellableIs ==
    ASSUME NEW d \in AccountDates
    PROVE  SellableBy[d] = Free(portfolio, d) /\ SellableBy'[d] = Free(portfolio', d)
BY DEF SellableBy, AccountDates, Free

(* The dates the contract still speaks of. *)
LEMMA DateIs ==
    ASSUME IInv, NEW d \in Account!FromToday
    PROVE  d \in AccountDates /\ d \in Nat /\ d >= Today
<1>1. LastDay \in Nat  BY TimelineAssumption
<1> QED  BY <1>1 DEF Account!FromToday, AccountDates

(* What the claims of some actions give. *)
LEMMA SharesAre ==
    ASSUME IInv, NEW some \in SUBSET actions
    PROVE  Account!SharesOf(some) = Given(portfolio, some)
<1> DEFINE f == [a \in some |-> AccountClaims[a].shares]
           g == [a \in some |-> portfolio.claims[a.name].delta]
<1>1. f = g  BY ClaimsAre DEF ClaimOf
<1>2. Account!SharesOf(some) = Account!SumFunction(f)  BY DEF Account!SharesOf
<1>3. Given(portfolio, some) = SumFunctionOnSet(g, DOMAIN g)  BY DEF Given, SumFunction
<1> HIDE DEF f, g
<1> QED  BY <1>1, <1>2, <1>3, AccountSum

(* Before the open the contract credits what the boundary does. *)
LEMMA CreditingIs ==
    ASSUME IInv, phase = "before"
    PROVE  /\ Account!Crediting = Credited(portfolio, actions, day)
           /\ \A a \in Account!Crediting : ClaimOf(a).status \in {"captured", "accrued"}
<1>1. /\ day \in Nat /\ OpenedBy = day - 1 /\ ClosedBy = day - 1 /\ Today = day
  BY DaysAre DEF Today
<1>2. ASSUME NEW a \in actions
      PROVE  /\ a \in Account!Crediting <=> a \in Credited(portfolio, actions, day)
             /\ a \in Account!Crediting => ClaimOf(a).status \in {"captured", "accrued"}
  <2> DEFINE s == ClaimOf(a).status
  <2>1. /\ a.ex \in Nat /\ a.settle \in Nat /\ a.ex <= a.settle
        /\ s \in {"none", "captured", "accrued", "settled"}
        /\ s # "none" => a.kind # "rights"
    BY StatusIs
  <2>2. a.kind \in ShareKinds \cup {"dividend", "rights"}
    <3>1. Calendar(actions)  BY StatusIs
    <3> QED  BY <3>1 DEF Calendar, ActionSet
  <2>3. a.kind # "rights" => s = StatusNow(a)  BY DEF IInv, OnTime
  <2>4. /\ s = "captured" => day - 1 < a.ex
        /\ s = "accrued" /\ a.kind # "dividend" => day - 1 < a.settle
    BY <1>1, <2>1, <2>3 DEF StatusNow
  <2>5. /\ Account!Due(a) <=> s \in {"captured", "accrued"} /\ a.settle = day
        /\ Account!GivesShares(a) <=> a.kind \notin {"dividend", "rights"}
    BY <1>1, <2>1, <2>2, ClaimsAre DEF Account!Due, Account!GivesShares, ClaimState, ShareKinds
  <2>6. a \in Account!Crediting <=> Account!Due(a) /\ Account!GivesShares(a)
    BY DEF Account!Crediting
  <2>7. a \in Credited(portfolio, actions, day) <=> s # "settled" /\ OpenedStatus(a, s, day) = "settled"
    BY DEF Credited, ClaimOf
  <2> HIDE DEF s
  <2>8. a \in Account!Crediting <=> a \in Credited(portfolio, actions, day)
    BY <1>1, <2>1, <2>4, <2>5, <2>6, <2>7 DEF OpenedStatus
  <2>9. a \in Account!Crediting => s \in {"captured", "accrued"}  BY <2>5, <2>6
  <2> QED  BY <2>8, <2>9 DEF s
<1> QED  BY <1>2 DEF Account!Crediting, Credited

(* An account nothing happened to. *)
LEMMA StandsStill ==
    ASSUME UNCHANGED <<actions, portfolio>>
    PROVE  /\ SellableBy' = SellableBy /\ AccountClaims' = AccountClaims
           /\ actions' = actions /\ portfolio'.cash = portfolio.cash
           /\ Quantity(portfolio.lots)' = Quantity(portfolio.lots)
BY DEF SellableBy, AccountDates, AccountClaims, ClaimState, ClaimOf

(* apply_before_session opens the account's session or gives it up. *)
LEMMA OpenOpens ==
    ASSUME IInv, OpenSession
    PROVE  Account!Open \/ Account!Stop
<1> DEFINE q == BeforeSession(portfolio, actions, day)
           C == Account!Crediting
<1>1. phase = "before" /\ UNCHANGED <<actions, day, trades>>  BY DEF OpenSession
<1>2. CASE ~ q.ok
  <2>1. phase' = "failed" /\ portfolio' = portfolio  BY <1>2 DEF OpenSession, Reaches
  <2> QED  BY <1>1, <2>1, StandsStill DEF Account!Stop, AccountPhase, Today
<1>3. CASE q.ok
  <2>1. portfolio' = q /\ phase' = "open"  BY <1>3 DEF OpenSession, Reaches
  <2>2. Calendar(actions) /\ AccountOK(portfolio, actions)  BY CalendarIs DEF IInv
  <2>3. /\ AccountOK(q, actions) /\ Balanced(portfolio, q)
        /\ \A a \in actions :
              LET old == portfolio.claims[a.name]
                  new == q.claims[a.name]
              IN  new.status = OpenedStatus(a, old.status, day) /\ SameTerms(old, new)
        /\ \A d \in Nat : Frees(portfolio, q, Credited(portfolio, actions, day), d)
    BY <1>3, <2>2, BeforeSessionOK
  <2> HIDE DEF q
  <2>4. /\ C = Credited(portfolio, actions, day) /\ C \in SUBSET actions
        /\ \A a \in C : ClaimOf(a).status \in {"captured", "accrued"}
    BY <1>1, CreditingIs DEF Credited
  <2> HIDE DEF C
  <2>5. /\ AccountOK(portfolio', actions) /\ Balanced(portfolio, portfolio')
        /\ \A d \in Nat : Frees(portfolio, portfolio', C, d)
    BY <2>1, <2>3, <2>4
  <2>6. ASSUME NEW a \in actions
        PROVE  LET old == ClaimOf(a)
                   new == ClaimOf(a)'
               IN  /\ old.status \in {"none", "captured", "accrued", "settled"}
                   /\ new.status = OpenedStatus(a, old.status, day)
                   /\ new.cash = old.cash /\ new.delta = old.delta
                   /\ a \in C <=> old.status # "settled" /\ new.status = "settled"
    <3>1. /\ ClaimOf(a)'.status = OpenedStatus(a, ClaimOf(a).status, day)
          /\ SameTerms(ClaimOf(a), ClaimOf(a)')
      BY <2>1, <2>3 DEF ClaimOf
    <3>2. ClaimOf(a).status \in {"none", "captured", "accrued", "settled"}  BY StatusIs
    <3>3. ClaimOf(a).status = "none" => ClaimOf(a)'.status = "none"  BY <3>1 DEF OpenedStatus
    <3>4. a \in C <=> ClaimOf(a).status # "settled" /\ OpenedStatus(a, ClaimOf(a).status, day) = "settled"
      BY <2>4 DEF Credited, ClaimOf
    <3> QED  BY <3>1, <3>2, <3>3, <3>4 DEF SameTerms
  <2>7. /\ Granted(portfolio') = Granted(portfolio) + Given(portfolio, C)
        /\ Paid(portfolio') = Paid(portfolio) + SumFunctionOnSet([a \in C |-> portfolio.claims[a.name].cash], C)
    <3> DEFINE g == [a \in C |-> portfolio.claims[a.name].delta]
               c == [a \in C |-> portfolio.claims[a.name].cash]
    <3>1. ASSUME NEW a \in actions
          PROVE  LET old == portfolio.claims[a.name]
                     new == portfolio'.claims[a.name]
                 IN  /\ new.status = "settled" <=> a \in C \/ old.status = "settled"
                     /\ a \in C => old.status # "settled"
                     /\ new.status = "settled" => new.cash = old.cash /\ new.delta = old.delta
      BY <2>6 DEF ClaimOf, OpenedStatus
    <3>2. /\ Granted(portfolio') = Granted(portfolio) + SumFunctionOnSet(g, C)
          /\ Paid(portfolio') = Paid(portfolio) + SumFunctionOnSet(c, C)
      BY <2>2, <2>4, <2>5, <3>1, SettledMore
    <3>3. Given(portfolio, C) = SumFunctionOnSet(g, C)  BY DEF Given, SumFunction
    <3> QED  BY <3>2, <3>3
  <2>8. SumFunctionOnSet([a \in C |-> portfolio.claims[a.name].cash], C) = 0
    <3> DEFINE c == [a \in C |-> portfolio.claims[a.name].cash]
    <3>1. ASSUME NEW a \in C PROVE c[a] = 0
      <4>1. a \in actions /\ ClaimOf(a).status # "none"  BY <2>4
      <4>2. a.kind # "dividend"  BY <2>6, <4>1 DEF OpenedStatus
      <4>3. Terms(a, ClaimOf(a))  BY <4>1, StatusIs
      <4> QED  BY <4>2, <4>3 DEF Terms, ClaimOf
    <3>2. IsFiniteSet(C)  BY <2>2, <2>4, FS_Subset DEF Calendar
    <3> HIDE DEF c
    <3>3. {} \subseteq C /\ \A a \in C : c[a] \in Int /\ c[a] = 0  BY <3>1
    <3>4. SumFunctionOnSet(c, C) = SumFunctionOnSet(c, {})  BY <3>2, <3>3, SumPart
    <3> QED  BY <3>4, SumEmpty DEF c
  <2>9. /\ Quantity(portfolio'.lots) = Quantity(portfolio.lots) + Account!SharesOf(C)
        /\ portfolio'.cash = portfolio.cash
    <3>1. /\ Quantity(portfolio.lots) \in Nat /\ portfolio.cash \in Nat
          /\ Paid(portfolio) \in Int /\ Granted(portfolio) \in Int
      BY AmountsNow
    <3>2. Quantity(portfolio'.lots) \in Int /\ portfolio'.cash \in Int
      <4>1. Shape(portfolio', actions) /\ OpenLots(portfolio'.lots)  BY <2>5 DEF AccountOK
      <4>2. portfolio'.cash \in Nat  BY <4>1, FieldsOf
      <4>3. Quantity(portfolio'.lots) \in Nat  BY <4>1, AmountsNat
      <4> QED  BY <4>2, <4>3
    <3>3. Given(portfolio, C) \in Int  BY <2>2, <2>4, GivenAdd
    <3>4. Account!SharesOf(C) = Given(portfolio, C)  BY <2>4, SharesAre
    <3> QED  BY <2>5, <2>7, <2>8, <3>1, <3>2, <3>3, <3>4 DEF Balanced
  <2>10. AccountPhase = "before" /\ AccountPhase' = "open" /\ Today' = Today
    BY <1>1, <2>1 DEF AccountPhase, Today
  <2>11. ASSUME NEW d \in Account!FromToday PROVE Account!UnlocksFrom(d)
    <3> DEFINE some == {a \in C : a.sellable <= d}
    <3>1. d \in AccountDates /\ d \in Nat  BY DateIs
    <3>2. SellableBy[d] = Free(portfolio, d) /\ SellableBy'[d] = Free(portfolio', d)
      BY <3>1, SellableIs
    <3>3. Frees(portfolio, portfolio', C, d)  BY <2>5, <3>1
    <3>4. Account!SharesOf(some) = Given(portfolio, some)
      <4>1. some \in SUBSET actions  BY <2>4
      <4> HIDE DEF some
      <4> QED  BY <4>1, SharesAre
    <3> QED  BY <3>2, <3>3, <3>4 DEF Account!UnlocksFrom, Frees, C
  <2>12. AccountClaims' = [a \in actions |-> IF a \in C THEN Account!SettledClaim(a) ELSE AccountClaims[a]]
    <3>1. ASSUME NEW a \in actions
          PROVE  AccountClaims'[a] = IF a \in C THEN Account!SettledClaim(a) ELSE AccountClaims[a]
      <4>1. AccountClaims'[a] = [state |-> ClaimState(ClaimOf(a)'.status),
                                 cash |-> ClaimOf(a)'.cash, shares |-> ClaimOf(a)'.delta]
        BY <1>1, ClaimsAreNext
      <4>2. /\ ClaimOf(a)'.cash = ClaimOf(a).cash /\ ClaimOf(a)'.delta = ClaimOf(a).delta
            /\ ClaimOf(a)'.status = OpenedStatus(a, ClaimOf(a).status, day)
            /\ a \in C <=> ClaimOf(a).status # "settled" /\ ClaimOf(a)'.status = "settled"
        BY <2>6
      <4>3. CASE a \in C
        <5>1. ClaimState(ClaimOf(a)'.status) = "settled"  BY <4>2, <4>3 DEF ClaimState
        <5> QED  BY <4>1, <4>2, <4>3, <5>1, ClaimsAre DEF Account!SettledClaim
      <4>4. CASE a \notin C
        <5>1. ClaimState(ClaimOf(a)'.status) = ClaimState(ClaimOf(a).status)
          BY <4>2, <4>4 DEF ClaimState, OpenedStatus
        <5> QED  BY <4>1, <4>2, <4>4, <5>1, ClaimsAre
      <4> QED  BY <4>3, <4>4
    <3>2. AccountClaims' = [a \in actions |-> AccountClaims'[a]]  BY <1>1, ClaimsAreNext
    <3> QED  BY <3>1, <3>2
  <2> QED  BY <1>1, <2>9, <2>10, <2>11, <2>12 DEF Account!Open, C
<1> QED  BY <1>2, <1>3

(* A BUY fill buys. *)
LEMMA BuyBuys ==
    ASSUME IInv, NEW qty \in Quantities, BuyFill(qty)
    PROVE  Account!Buy
<1> DEFINE fill == NextFill(qty)
           q == Bought(portfolio, fill, day + 1)
<1>1. /\ CanTrade /\ Recorded("buy", fill) /\ UNCHANGED <<actions, day, phase>>
      /\ portfolio' = q /\ CanBuy(portfolio, fill, day + 1)
  BY DEF BuyFill
<1>2. qty \in Nat \ {0}  BY TimelineAssumption
<1>3. fill \in FillRecords /\ fill.qty = qty  BY <1>1, <1>2, TradeAdds
<1>4. /\ AccountOK(q, actions) /\ q.claims = portfolio.claims
      /\ Quantity(q.lots) = Quantity(portfolio.lots) + fill.qty
      /\ q.cash < portfolio.cash
      /\ \A d \in Nat : Free(q, d) = Free(portfolio, d) + (IF d >= day + 1 THEN fill.qty ELSE 0)
  <2>1. AccountOK(portfolio, actions) /\ day + 1 \in Nat  BY DaysAre DEF IInv
  <2> HIDE DEF fill
  <2> QED  BY <1>1, <1>3, <2>1, BoughtOK
<1> HIDE DEF fill, q
<1>5. /\ AccountOK(portfolio', actions) /\ portfolio'.claims = portfolio.claims
      /\ Quantity(portfolio'.lots) = Quantity(portfolio.lots) + qty
      /\ portfolio'.cash < portfolio.cash
      /\ \A d \in Nat : Free(portfolio', d) = Free(portfolio, d) + (IF d >= day + 1 THEN qty ELSE 0)
  BY <1>1, <1>3, <1>4
<1>6. /\ Quantity(portfolio.lots) \in Nat /\ portfolio'.cash \in Nat /\ day \in Nat
  <2>1. Shape(portfolio', actions)  BY <1>5 DEF AccountOK
  <2>2. portfolio'.cash \in Nat  BY <2>1, FieldsOf
  <2> QED  BY <2>2, AmountsNow, DaysAre
<1>7. Quantity(portfolio'.lots) - Quantity(portfolio.lots) = qty
      /\ Quantity(portfolio'.lots) > Quantity(portfolio.lots)
  BY <1>2, <1>5, <1>6
<1>8. phase = "open" /\ AccountPhase = "open" /\ AccountPhase' = "open"
      /\ Today = day /\ Today' = day
  BY <1>1 DEF CanTrade, AccountPhase, Today
<1>9. ASSUME NEW d \in Account!FromToday
      PROVE  SellableBy'[d] = SellableBy[d]
                + (IF d > Today THEN Quantity(portfolio'.lots) - Quantity(portfolio.lots) ELSE 0)
  <2>1. d \in AccountDates /\ d \in Nat  BY DateIs
  <2>2. SellableBy[d] = Free(portfolio, d) /\ SellableBy'[d] = Free(portfolio', d)
    BY <2>1, SellableIs
  <2>3. d >= day + 1 <=> d > Today  BY <1>6, <1>8, <2>1
  <2> QED  BY <1>5, <1>7, <2>1, <2>2, <2>3
<1>10. AccountClaims' = AccountClaims
  BY <1>1, <1>5 DEF AccountClaims, ClaimOf, ClaimState
<1> QED  BY <1>1, <1>5, <1>6, <1>7, <1>8, <1>9, <1>10 DEF Account!Buy

(* A SELL fill sells what is not locked. *)
LEMMA SellSells ==
    ASSUME IInv, NEW qty \in 1..Quantity(portfolio.lots), SellFill(qty)
    PROVE  Account!Sell
<1> DEFINE fill == NextFill(qty)
<1>1. PICK cf \in BOOLEAN :
      /\ CanTrade /\ Recorded("sell", fill) /\ UNCHANGED <<actions, day, phase>>
      /\ portfolio' = Sold(portfolio, fill, cf) /\ CanSell(portfolio, fill, cf)
  BY DEF SellFill
<1>2. qty \in Nat \ {0}  BY AmountsNow
<1>3. fill \in FillRecords /\ fill.qty = qty /\ fill.day = day  BY <1>1, <1>2, TradeAdds
<1>4. Calendar(actions) /\ AccountOK(portfolio, actions)  BY CalendarIs DEF IInv
<1> HIDE DEF fill
<1>5. /\ AccountOK(portfolio', actions) /\ portfolio'.claims = portfolio.claims
      /\ Quantity(portfolio'.lots) = Quantity(portfolio.lots) - fill.qty
      /\ fill.qty <= Free(portfolio, fill.day)
      /\ \A d \in Nat : d >= fill.day => Free(portfolio', d) = Free(portfolio, d) - fill.qty
  BY <1>1, <1>3, <1>4, SoldOK
<1>6. /\ Quantity(portfolio.lots) \in Nat /\ portfolio'.cash \in Nat /\ day \in Nat
      /\ day \in AccountDates
  <2>1. Shape(portfolio', actions)  BY <1>5 DEF AccountOK
  <2>2. portfolio'.cash \in Nat  BY <2>1, FieldsOf
  <2>3. day \in 1..LastDay /\ LastDay \in Nat  BY TimelineAssumption DEF IInv
  <2> QED  BY <2>2, <2>3, AmountsNow DEF AccountDates
<1>7. Quantity(portfolio.lots) - Quantity(portfolio'.lots) = qty  BY <1>2, <1>3, <1>5, <1>6
<1>8. phase = "open" /\ AccountPhase = "open" /\ AccountPhase' = "open"
      /\ Today = day /\ Today' = day
  BY <1>1 DEF CanTrade, AccountPhase, Today
<1>9. qty \in 1..SellableBy[Today]
  <2>1. SellableBy[Today] = Free(portfolio, day)  BY <1>6, <1>8, SellableIs
  <2>2. Free(portfolio, day) \in Nat /\ qty <= Free(portfolio, day)  BY <1>3, <1>4, <1>5, FreeNat
  <2> QED  BY <1>2, <2>1, <2>2
<1>10. ASSUME NEW d \in Account!FromToday PROVE SellableBy'[d] = SellableBy[d] - qty
  <2>1. d \in AccountDates /\ d \in Nat /\ d >= day  BY <1>8, DateIs
  <2>2. SellableBy[d] = Free(portfolio, d) /\ SellableBy'[d] = Free(portfolio', d)
    BY <2>1, SellableIs
  <2> QED  BY <1>3, <1>5, <2>1, <2>2
<1>11. AccountClaims' = AccountClaims
  BY <1>1, <1>5 DEF AccountClaims, ClaimOf, ClaimState
<1> QED  BY <1>1, <1>6, <1>7, <1>8, <1>9, <1>10, <1>11 DEF Account!Sell

(* After the close the contract pays what the boundary does: a dividend     *)
(* owed on its pay date has accrued, and nothing recorded today is owed yet. *)
LEMMA PayingIs ==
    ASSUME IInv, phase = "open", NEW a \in actions
    PROVE  LET s == ClaimOf(a).status
               t == ClosedStatus(a, s, day)
           IN  /\ a \in Account!Paying <=> s # "settled" /\ t = "settled"
               /\ a \in Account!Paying => a.kind = "dividend" /\ s = "accrued"
               /\ Account!Recording(a) => s = "none" /\ t = "captured"
               /\ ~ Account!Recording(a) => t = s \/ (s = "accrued" /\ t = "settled")
               /\ s \in {"none", "captured", "accrued", "settled"}
<1>1. /\ day \in Nat /\ OpenedBy = day /\ ClosedBy = day - 1 /\ Today = day
  BY DaysAre DEF Today
<1> DEFINE s == ClaimOf(a).status
<1>2. /\ a.ex \in Nat /\ a.settle \in Nat /\ a.record \in Nat /\ a.ex <= a.settle
      /\ s \in {"none", "captured", "accrued", "settled"}
      /\ s # "none" => a.kind # "rights"
  BY StatusIs
<1>3. a.kind # "rights" => s = StatusNow(a)  BY DEF IInv, OnTime
<1>4. /\ s = "captured" => day < a.ex
      /\ s = "accrued" /\ a.kind = "dividend" => day - 1 < a.settle
      /\ a.kind # "rights" /\ a.record = day => s = "none"
  BY <1>1, <1>2, <1>3 DEF StatusNow
<1>5. a \in Account!Paying
        <=> a.kind = "dividend" /\ s \in {"captured", "accrued"} /\ a.settle = day
  BY <1>1, <1>2, ClaimsAre DEF Account!Paying, Account!Due, ClaimState
<1>6. Account!Recording(a) <=> a.kind # "rights" /\ a.record = day
  BY <1>1 DEF Account!Recording
<1> HIDE DEF s
<1>7. a \in Account!Paying <=> a.kind = "dividend" /\ s = "accrued" /\ a.settle <= day
  BY <1>1, <1>2, <1>4, <1>5
<1>8. /\ a \in Account!Paying <=> s # "settled" /\ ClosedStatus(a, s, day) = "settled"
      /\ a \in Account!Paying => a.kind = "dividend" /\ s = "accrued"
      /\ Account!Recording(a) => s = "none" /\ ClosedStatus(a, s, day) = "captured"
      /\ ~ Account!Recording(a) => \/ ClosedStatus(a, s, day) = s
                                   \/ s = "accrued" /\ ClosedStatus(a, s, day) = "settled"
  BY <1>2, <1>4, <1>6, <1>7 DEF ClosedStatus
<1> QED  BY <1>2, <1>8 DEF s

(* apply_after_session closes the account's session or gives it up. *)
LEMMA CloseCloses ==
    ASSUME IInv, CloseSession
    PROVE  Account!Close \/ Account!Stop
<1> DEFINE q == AfterSession(portfolio, actions, day)
           P == Account!Paying
<1>1. phase = "open" /\ UNCHANGED <<actions, day, trades>>  BY DEF CloseSession
<1>2. CASE ~ q.ok
  <2>1. phase' = "failed" /\ portfolio' = portfolio  BY <1>2 DEF CloseSession, Reaches
  <2> QED  BY <1>1, <2>1, StandsStill DEF Account!Stop, AccountPhase, Today
<1>3. CASE q.ok
  <2>1. portfolio' = q /\ phase' = "closed"  BY <1>3 DEF CloseSession, Reaches
  <2>2. Calendar(actions) /\ AccountOK(portfolio, actions)  BY CalendarIs DEF IInv
  <2>3. /\ AccountOK(q, actions) /\ Balanced(portfolio, q)
        /\ \A a \in actions :
              LET old == portfolio.claims[a.name]
                  new == q.claims[a.name]
              IN  /\ new.status = ClosedStatus(a, old.status, day) /\ SameTerms(old, new)
                  /\ old.status = "none" /\ new.status # "none"
                        => new.qty = Quantity(portfolio.lots)
        /\ \A d \in Nat : Free(q, d) = Free(portfolio, d)
    BY <1>3, <2>2, AfterSessionOK
  <2> HIDE DEF q
  <2>4. /\ AccountOK(portfolio', actions) /\ Balanced(portfolio, portfolio')
        /\ \A d \in Nat : Free(portfolio', d) = Free(portfolio, d)
    BY <2>1, <2>3
  <2>5. P \in SUBSET actions /\ IsFiniteSet(P)
    <3>1. P \subseteq actions  BY DEF Account!Paying
    <3> QED  BY <2>2, <3>1, FS_Subset DEF Calendar
  <2>6. ASSUME NEW a \in actions
        PROVE  LET old == ClaimOf(a)
                   new == ClaimOf(a)'
               IN  /\ new.status = ClosedStatus(a, old.status, day) /\ SameTerms(old, new)
                   /\ old.status = "none" /\ new.status # "none" => new.qty = Quantity(portfolio.lots)
                   /\ new.status # "none" => Terms(a, new)
                   /\ a \in P <=> old.status # "settled" /\ new.status = "settled"
                   /\ a \in P => old.status = "accrued" /\ a.kind = "dividend"
                   /\ old.status = "settled" => new.status = "settled"
    <3>1. /\ ClaimOf(a)'.status = ClosedStatus(a, ClaimOf(a).status, day)
          /\ SameTerms(ClaimOf(a), ClaimOf(a)')
          /\ ClaimOf(a).status = "none" /\ ClaimOf(a)'.status # "none"
                => ClaimOf(a)'.qty = Quantity(portfolio.lots)
      BY <2>1, <2>3 DEF ClaimOf
    <3>2. ClaimOf(a)'.status # "none" => Terms(a, ClaimOf(a)')
      <4>1. ClaimOK(portfolio', a)  BY <2>4 DEF AccountOK
      <4>2. ClaimOf(a)' = portfolio'.claims[a.name]  BY DEF ClaimOf
      <4> QED  BY <4>1, <4>2 DEF ClaimOK, NoClaim, Claim
    <3>3. ClaimOf(a).status = "settled" => ClaimOf(a)'.status = "settled"
      BY <3>1 DEF ClosedStatus
    <3> QED  BY <1>1, <3>1, <3>2, <3>3, PayingIs
  <2> HIDE DEF P
  <2> DEFINE c == [a \in P |-> portfolio.claims[a.name].cash]
             g == [a \in P |-> portfolio.claims[a.name].delta]
  <2>7. /\ Granted(portfolio') = Granted(portfolio) + SumFunctionOnSet(g, P)
        /\ Paid(portfolio') = Paid(portfolio) + SumFunctionOnSet(c, P)
    <3>1. ASSUME NEW a \in actions
          PROVE  LET old == portfolio.claims[a.name]
                     new == portfolio'.claims[a.name]
                 IN  /\ new.status = "settled" <=> a \in P \/ old.status = "settled"
                     /\ a \in P => old.status # "settled"
                     /\ new.status = "settled" => new.cash = old.cash /\ new.delta = old.delta
      <4>1. ClaimOf(a).status = "none" => ClaimOf(a)'.status # "settled"
        BY <2>6 DEF ClosedStatus
      <4> QED  BY <2>6, <4>1 DEF ClaimOf, SameTerms
    <3> QED  BY <2>2, <2>4, <2>5, <3>1, SettledMore
  <2>8. SumFunctionOnSet(g, P) = 0
    <3>1. ASSUME NEW a \in P PROVE g[a] = 0
      <4>1. a \in actions /\ a.kind = "dividend" /\ ClaimOf(a).status # "none"  BY <2>5, <2>6
      <4>2. Terms(a, ClaimOf(a))  BY <4>1, StatusIs
      <4> QED  BY <4>1, <4>2 DEF Terms, ClaimOf, ShareKinds
    <3> HIDE DEF g
    <3>2. {} \subseteq P /\ \A a \in P : g[a] \in Int /\ g[a] = 0  BY <3>1
    <3>3. SumFunctionOnSet(g, P) = SumFunctionOnSet(g, {})  BY <2>5, <3>2, SumPart
    <3> QED  BY <3>3, SumEmpty
  <2>9. Account!SumFunction([a \in P |-> AccountClaims[a].cash]) = SumFunctionOnSet(c, P)
    <3> DEFINE f == [a \in P |-> AccountClaims[a].cash]
    <3>1. f = c /\ DOMAIN f = P  BY <2>5, ClaimsAre DEF ClaimOf
    <3>2. Account!SumFunction(f) = SumFunctionOnSet(f, DOMAIN f)  BY AccountSum
    <3> HIDE DEF f, c
    <3>3. Account!SumFunction(f) = SumFunctionOnSet(c, P)  BY <3>1, <3>2
    <3> QED  BY <3>3 DEF f
  <2>10. SumFunctionOnSet(c, P) \in Int
    <3>1. ASSUME NEW a \in P PROVE c[a] \in Int
      <4>1. a \in actions /\ ClaimOf(a).status # "none"  BY <2>5, <2>6
      <4>2. Terms(a, ClaimOf(a))  BY <4>1, StatusIs
      <4> QED  BY <4>2 DEF Terms, ClaimOf
    <3> HIDE DEF c
    <3> QED  BY <2>5, <3>1, SumInt
  <2>11. /\ Quantity(portfolio'.lots) = Quantity(portfolio.lots)
         /\ portfolio'.cash = portfolio.cash + SumFunctionOnSet(c, P)
    <3> HIDE DEF c, g
    <3>1. /\ Quantity(portfolio.lots) \in Nat /\ portfolio.cash \in Nat
          /\ Paid(portfolio) \in Int /\ Granted(portfolio) \in Int
      BY AmountsNow
    <3>2. Quantity(portfolio'.lots) \in Int /\ portfolio'.cash \in Int
      <4>1. Shape(portfolio', actions) /\ OpenLots(portfolio'.lots)  BY <2>4 DEF AccountOK
      <4>2. portfolio'.cash \in Nat  BY <4>1, FieldsOf
      <4>3. Quantity(portfolio'.lots) \in Nat  BY <4>1, AmountsNat
      <4> QED  BY <4>2, <4>3
    <3> QED  BY <2>4, <2>7, <2>8, <2>10, <3>1, <3>2 DEF Balanced
  <2> HIDE DEF c, g
  <2>12. /\ AccountPhase = "open" /\ AccountPhase' = "before" /\ Today' = Today + 1 /\ Today = day
    BY <1>1, <2>1 DEF AccountPhase, Today
  <2>13. ASSUME NEW d \in Account!FromToday \ {Today} PROVE SellableBy'[d] = SellableBy[d]
    <3>1. d \in AccountDates /\ d \in Nat  BY DateIs
    <3> QED  BY <2>4, <3>1, SellableIs
  <2>14. ASSUME NEW a \in actions
         PROVE  IF Account!Recording(a) THEN Account!Entitles(a, AccountClaims'[a])
                ELSE AccountClaims'[a] = IF a \in P THEN Account!SettledClaim(a) ELSE AccountClaims[a]
    <3>1. AccountClaims'[a] = [state |-> ClaimState(ClaimOf(a)'.status),
                               cash |-> ClaimOf(a)'.cash, shares |-> ClaimOf(a)'.delta]
      BY <1>1, ClaimsAreNext
    <3>2. CASE Account!Recording(a)
      <4>1. ClaimOf(a).status = "none" /\ ClaimOf(a)'.status = "captured"
        BY <1>1, <2>6, <3>2, PayingIs
      <4>2. ClaimOf(a)'.qty = Quantity(portfolio.lots) /\ Terms(a, ClaimOf(a)')  BY <2>6, <4>1
      <4>3. /\ ClaimOf(a)'.cash = IF a.kind = "dividend" THEN a.perShare * Quantity(portfolio.lots) ELSE 0
            /\ IF a.kind \in ShareKinds
               THEN a.den * (Quantity(portfolio.lots) + ClaimOf(a)'.delta) = a.num * Quantity(portfolio.lots)
               ELSE ClaimOf(a)'.delta = 0
        BY <4>2 DEF Terms
      <4> DEFINE x == AccountClaims'[a]
      <4>4. x.state = "owed" /\ x.cash = ClaimOf(a)'.cash /\ x.shares = ClaimOf(a)'.delta
        BY <3>1, <4>1 DEF ClaimState
      <4> HIDE DEF x
      <4>5. Account!Entitles(a, x)  BY <4>3, <4>4 DEF Account!Entitles, Account!GivesShares, ShareKinds
      <4> QED  BY <3>2, <4>5 DEF x
    <3>3. CASE ~ Account!Recording(a) /\ a \in P
      <4>1. ClaimOf(a).status = "accrued" /\ ClaimOf(a)'.status = "settled"
        BY <2>6, <3>3
      <4>2. ClaimOf(a)'.cash = ClaimOf(a).cash /\ ClaimOf(a)'.delta = ClaimOf(a).delta
        BY <2>6, <4>1 DEF SameTerms
      <4> QED  BY <3>1, <3>3, <4>1, <4>2, ClaimsAre DEF Account!SettledClaim, ClaimState
    <3>4. CASE ~ Account!Recording(a) /\ a \notin P
      <4>1. ClaimOf(a)'.status = ClaimOf(a).status
        BY <1>1, <2>6, <3>4, PayingIs
      <4>2. ClaimOf(a)'.cash = ClaimOf(a).cash /\ ClaimOf(a)'.delta = ClaimOf(a).delta
        BY <2>6, <4>1 DEF SameTerms
      <4> QED  BY <3>1, <3>4, <4>1, <4>2, ClaimsAre
    <3> QED  BY <3>2, <3>3, <3>4
  <2>15. DOMAIN AccountClaims' = actions  BY <1>1, ClaimsAreNext
  <2>16. portfolio'.cash = portfolio.cash + Account!SumFunction([a \in P |-> AccountClaims[a].cash])
    BY <2>9, <2>11
  <2> QED  BY <1>1, <2>11, <2>12, <2>13, <2>14, <2>15, <2>16 DEF Account!Close, P
<1> QED  BY <1>2, <1>3

(* The remaining steps: a sale whose posting is refused gives the replay    *)
(* up, and the night between two sessions is no step of the account.        *)
LEMMA QuietSteps ==
    ASSUME \/ \E qty : SaleFails(qty)
           \/ NextSession
           \/ UNCHANGED vars
    PROVE  Account!Stop \/ UNCHANGED Account!vars
<1>1. CASE \E qty : SaleFails(qty)
  <2>1. /\ phase = "open" /\ phase' = "failed" /\ UNCHANGED <<actions, day, portfolio, trades>>
    BY <1>1 DEF SaleFails, CanTrade
  <2> QED  BY <2>1, StandsStill DEF Account!Stop, AccountPhase, Today
<1>2. CASE NextSession
  <2>1. /\ phase = "closed" /\ phase' = "before" /\ day' = day + 1
        /\ UNCHANGED <<actions, portfolio>>
    BY <1>2 DEF NextSession
  <2> QED  BY <2>1, StandsStill DEF Account!vars, AccountPhase, Today
<1>3. CASE UNCHANGED vars
  BY <1>3, StandsStill DEF vars, Account!vars, AccountPhase, Today
<1> QED  BY <1>1, <1>2, <1>3

(* Every step of the replay is a step of the account or none. *)
LEMMA StepOfAccount ==
    ASSUME IInv, [Next]_vars
    PROVE  [Account!Next]_(Account!vars)
<1>1. CASE OpenSession  BY <1>1, OpenOpens DEF Account!Next
<1>2. CASE CloseSession  BY <1>2, CloseCloses DEF Account!Next
<1>3. CASE NextSession \/ UNCHANGED vars  BY <1>3, QuietSteps DEF Account!Next
<1>4. ASSUME NEW qty \in Quantities, BuyFill(qty) PROVE Account!Next
  BY <1>4, BuyBuys DEF Account!Next
<1>5. ASSUME NEW qty \in 1..Quantity(portfolio.lots), SellFill(qty) PROVE Account!Next
  BY <1>5, SellSells DEF Account!Next
<1>6. CASE \E qty \in 1..Quantity(portfolio.lots) : SaleFails(qty)
  BY <1>6, QuietSteps DEF Account!Next
<1> QED  BY <1>1, <1>2, <1>3, <1>4, <1>5, <1>6 DEF Next

(* A new portfolio is a new account (PortfolioState). *)
LEMMA InitOfAccount ==
    ASSUME Init
    PROVE  Account!Init
<1>1. /\ day = 1 /\ phase = "before"
      /\ portfolio = NewPortfolio(OpeningCash, {a.name : a \in actions})
  BY DEF Init
<1>2. /\ portfolio.cash = OpeningCash /\ portfolio.lots = {}
      /\ \A a \in actions : ClaimOf(a) = NoClaim
  BY <1>1 DEF NewPortfolio, ClaimOf
<1>3. OpeningCash \in Nat  BY TimelineAssumption
<1>4. SellableBy = [d \in AccountDates |-> 0]
  <2>1. \A d : Eligible({}, d) = {}  BY DEF Eligible
  <2> QED  BY <1>2, <2>1, NoneHeld DEF SellableBy
<1>5. AccountClaims = [a \in actions |-> Account!Unclaimed]
  BY <1>2 DEF AccountClaims, Account!Unclaimed, ClaimState, NoClaim, Claim
<1> QED
  BY <1>1, <1>2, <1>3, <1>4, <1>5, NoneHeld DEF Account!Init, Today, AccountPhase

(* The account with its lots, queue, phases and journal is an account in    *)
(* one security (PortfolioState under apply_buy, apply_sell and the         *)
(* boundaries of TimelineCorporateActionApplier): what can be sold on a     *)
(* date is what is not locked then, and claims settle once, on their date.  *)
THEOREM TimelineKeepsAccount == Spec => ImplementsAccount
<1>1. Init => Account!Init  BY InitOfAccount
<1>2. IInv /\ [Next]_vars => [Account!Next]_(Account!vars)  BY StepOfAccount
<1> QED  BY <1>1, <1>2, TimelineInvariant, PTL DEF Spec, ImplementsAccount, Account!Spec
================================================================================
