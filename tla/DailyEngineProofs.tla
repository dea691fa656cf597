--------------------------- MODULE DailyEngineProofs ---------------------------
(***************************************************************************)
(* The books, the anchors and the priorities of daily_backtest.py, proved  *)
(* for every period, every set of strategies and corporate actions, and    *)
(* every amount of money.  Steady is the inductive invariant: the types,   *)
(* what a pending decision can be, when an entitlement exists and what it  *)
(* is worth, that each amount of money belongs to one trip, and where an   *)
(* account exit that is in force can be found.  At the end, from the same  *)
(* invariant: the engine's three counts of shares implement                *)
(* AccountContract (EngineKeepsAccount).                                   *)
(***************************************************************************)
EXTENDS DailyEngine, LedgerProofs

Morning == {"preopen", "decide", "attempt"}
Session == {"preopen", "decide", "attempt", "evening"}
Over    == {"finish", "done"}

-----------------------------------------------------------------------------
(* The invariant. *)

(* What a decision may be for. *)
Sides(d) ==
    \/ d.side = "none" /\ d.kind = "none" /\ d = NoDecision
    \/ d.side = "buy" /\ d.kind = "entry"
    \/ d.side = "sell" /\ d.kind \in {"market", "holding", "risk"}

(* A BUY has been tried once in every session since it was opened. *)
BuyClock ==
    pending.side = "buy" =>
        /\ phase \in Morning => /\ pending.attempts = day - pending.opened
                                /\ day < pending.opened + strategy.validity
        /\ phase = "evening" => /\ pending.attempts = day + 1 - pending.opened
                                /\ day + 1 < pending.opened + strategy.validity

Clock ==
    /\ phase \in Session => day <= Last
    /\ phase \in Over => day = Last + 1
    /\ phase \in Morning => pending.attempts < day
    /\ phase = "evening" => pending.attempts <= day
    /\ due => phase \in Session
    /\ queued # 0 => queued < day

(* An entitlement is captured on its record date and accrued at the next    *)
(* open, on the shares held at both.                                        *)
Timely(e, record) ==
    /\ e.state # "none" => day > record
    /\ e.state = "captured" =>
          /\ phase \in {"preopen"} \cup Over
          /\ day = record + 1
          /\ e.amount = Held

Claims == Timely(dividend, plan.cashRecord) /\ Timely(bonus, plan.bonusRecord)

(* Every amount the account has won or lost is in a closed trip or in the   *)
(* open one.                                                                *)
Books ==
    /\ cash + Receivable = InitialCash + pnl + trip.net
    /\ trip.entry = 0 => trip.net = 0

Targets == target # 0 => holdAnchor # 0 /\ strategy.holding > 0

RiskInForce ==
    activated /\ strategy.retry =>
        queued # 0 \/ (pending.side = "sell" /\ pending.kind = "risk")

HoldingInForce ==
    /\ due /\ phase = "decide" => target = day
    /\ (strategy.retry /\ ~Combined /\ ~crowded /\ target # 0) =>
          /\ day = target /\ phase = "decide" => due
          /\ (day > target \/ (day = target /\ phase \in {"attempt", "evening"}))
                => pending.side = "sell" /\ pending.kind = "holding"

TypeInv == TypeOK /\ Sides(pending) /\ Clock

Steady == TypeInv /\ Claims /\ Books /\ AnchorsFollowPosition /\ Targets
          /\ CashSuffices /\ BuyClock /\ ExitBeatsEntry /\ RiskInForce /\ HoldingInForce

-----------------------------------------------------------------------------
(* Decisions. *)

(* A decision made in this session. *)
Made(d) ==
    /\ d \in Decisions /\ Sides(d)
    /\ d.opened = day /\ d.attempts = 0

LEMMA DecisionFields ==
    ASSUME NEW side, NEW kind, NEW src, NEW avail, NEW opened, NEW attempts
    PROVE  LET d == Decision(side, kind, Fact(src, avail), opened, attempts)
           IN  /\ d.side = side /\ d.kind = kind /\ d.src = src /\ d.avail = avail
               /\ d.opened = opened /\ d.attempts = attempts
               /\ d = [side |-> side, kind |-> kind, src |-> src, avail |-> avail,
                       opened |-> opened, attempts |-> attempts]
BY DEF Decision, Fact

LEMMA NothingFields ==
    /\ NoDecision.side = "none" /\ NoDecision.kind = "none" /\ NoDecision.attempts = 0
    /\ NoDecision \in Decisions /\ Sides(NoDecision)
<1>1. /\ NoDecision.side = "none" /\ NoDecision.kind = "none" /\ NoDecision.attempts = 0
      /\ NoDecision = [side |-> "none", kind |-> "none", src |-> 0, avail |-> 0,
                       opened |-> 0, attempts |-> 0]
  BY DEF NoDecision, Decision, Fact
<1>2. NoDecision \in Decisions
  BY <1>1, SessionsAssumption DEF Decisions
<1> QED
  BY <1>1, <1>2 DEF Sides

(* Decision over a fact that is given as a whole. *)
LEMMA FactDecision ==
    ASSUME NEW side, NEW kind, NEW f \in [src : 0..Last, avail : 0..(Last + MaxDelay + 1)],
           TypeInv,
           \/ side = "buy" /\ kind = "entry"
           \/ side = "sell" /\ kind = "market"
           \/ side = "sell" /\ kind = "holding"
           \/ side = "sell" /\ kind = "risk"
    PROVE  LET d == Decision(side, kind, f, day, 0) IN Made(d) /\ d.side = side /\ d.kind = kind
<1> DEFINE d == Decision(side, kind, f, day, 0)
<1>1. /\ d.side = side /\ d.kind = kind /\ d.opened = day /\ d.attempts = 0
      /\ d = [side |-> side, kind |-> kind, src |-> f.src, avail |-> f.avail,
              opened |-> day, attempts |-> 0]
  BY DEF Decision
<1>2. /\ side \in {"none", "buy", "sell"}
      /\ kind \in {"none", "entry", "market", "holding", "risk"}
  OBVIOUS
<1>3. day \in 0..(Last + 1) /\ 0 \in 0..Last
  BY SessionsAssumption DEF TypeInv, TypeOK
<1>4. d \in Decisions
  BY <1>1, <1>2, <1>3 DEF Decisions
<1>5. Sides(d)
  BY <1>1 DEF Sides
<1> QED
  BY <1>1, <1>4, <1>5 DEF Made

LEMMA ExitsMade ==
    ASSUME TypeInv, phase \in Session \/ ~due, queued # 0 => queued < day,
           NEW d \in MarketExit \cup HoldingExit \cup RiskExit
    PROVE  Made(d) /\ d.side = "sell"
<1> DEFINE Some == [src : 0..Last, avail : 0..(Last + MaxDelay + 1)]
<1>1. day \in 1..(Last + 1) /\ queued \in 0..Last /\ exits \subseteq Facts
  BY DEF TypeInv, TypeOK
<1>2. CASE d \in MarketExit
  <2>1. PICK f \in Latest(Available(exits, day)) : d = Decision("sell", "market", f, day, 0)
    BY <1>2 DEF MarketExit
  <2>2. f \in Facts
    BY <1>1 DEF Latest, Available
  <2>3. f \in Some
    BY <2>2, SessionsAssumption DEF Facts
  <2> QED
    BY <2>1, <2>3, FactDecision
<1>3. CASE d \in HoldingExit
  <2>1. due /\ d = Decision("sell", "holding", Fact(day, day), day, 0)
    BY <1>3 DEF HoldingExit
  <2>2. day <= Last
    BY <2>1 DEF TypeInv, Clock
  <2>3. Fact(day, day) \in Some
    BY <1>1, <2>2, SessionsAssumption DEF Fact
  <2> QED
    BY <2>1, <2>3, FactDecision
<1>4. CASE d \in RiskExit
  <2>1. PICK q \in {queued} \ {0} : d = Decision("sell", "risk", Fact(q, q + 1), day, 0)
    BY <1>4 DEF RiskExit
  <2>2. Fact(q, q + 1) \in Some
    BY <1>1, <2>1, SessionsAssumption DEF Fact
  <2> QED
    BY <2>1, <2>2, FactDecision
<1> QED
  BY <1>2, <1>3, <1>4

LEMMA EntryMade ==
    ASSUME TypeInv, NEW f \in Latest(Available(entries, day)),
           NEW d, d = Decision("buy", "entry", f, day, 0)
    PROVE  Made(d) /\ d.side = "buy"
<1>1. f \in Facts
  BY DEF Latest, Available, TypeInv, TypeOK
<1>2. f \in [src : 0..Last, avail : 0..(Last + MaxDelay + 1)]
  BY <1>1, SessionsAssumption DEF Facts
<1> QED
  BY <1>2, FactDecision

LEMMA OpenedMade ==
    ASSUME TypeInv, NEW exitDecisions,
           \A x \in exitDecisions : Made(x) /\ x.side = "sell",
           NEW d \in Opened(Available(entries, day), exitDecisions)
    PROVE  /\ d = NoDecision \/ (Made(d) /\ d.side \in {"buy", "sell"})
           /\ d.side = "sell" => d \in exitDecisions
<1> DEFINE sells == IF Position > 0 THEN Earliest(exitDecisions) ELSE {}
           buys  == IF Position = 0 \/ strategy.accumulate
                    THEN {Decision("buy", "entry", f, day, 0) : f \in Latest(Available(entries, day))}
                    ELSE {}
<1>1. d \in sells \/ d \in buys \/ d = NoDecision
  BY DEF Opened
<1>2. CASE d \in sells
  BY <1>2 DEF Earliest
<1>3. CASE d \in buys
  <2>1. PICK f \in Latest(Available(entries, day)) : d = Decision("buy", "entry", f, day, 0)
    BY <1>3
  <2> QED
    BY <2>1, EntryMade
<1> QED
  BY <1>1, <1>2, <1>3, NothingFields

LEMMA ReviewedOutcome ==
    ASSUME NEW d, NEW x \in Reviewed(d)
    PROVE  /\ \/ x = d
              \/ d.side = "buy" /\ x = NoDecision
              \/ d.side = "buy" /\ x \in MarketExit \cup HoldingExit \cup RiskExit
           /\ x = d /\ d.side = "buy" /\ Position > 0 =>
                 \/ Earliest({y \in MarketExit : NotOlder(y, d)} \cup HoldingExit \cup RiskExit) = {}
                 \/ d \in MarketExit \cup HoldingExit \cup RiskExit
<1> DEFINE opposite    == {y \in MarketExit : NotOlder(y, d)}
           chosen      == Earliest(opposite \cup HoldingExit \cup RiskExit)
           replacement == IF Position > 0 THEN chosen ELSE {}
<1>1. Reviewed(d) = IF d.side = "buy" /\ replacement # {} THEN replacement
                    ELSE IF d.side = "buy" /\ opposite # {} THEN {NoDecision} ELSE {d}
  BY DEF Reviewed
<1>2. chosen \subseteq MarketExit \cup HoldingExit \cup RiskExit
  BY DEF Earliest
<1> HIDE DEF chosen, opposite
<1>3. CASE d.side = "buy" /\ replacement # {}
  <2>1. x \in chosen
    BY <1>1, <1>3
  <2> QED
    BY <1>2, <1>3, <2>1
<1>4. CASE d.side = "buy" /\ replacement = {}
  <2>1. x = NoDecision \/ x = d
    BY <1>1, <1>4
  <2>2. Position > 0 => chosen = {}
    BY <1>4
  <2> QED
    BY <1>4, <2>1, <2>2 DEF chosen, opposite
<1>5. CASE d.side # "buy"
  BY <1>1, <1>5
<1> QED
  BY <1>3, <1>4, <1>5

(* What Decide leaves pending. *)
LEMMA DecideOutcome ==
    ASSUME TypeInv, Decide
    PROVE  /\ pending' = pending \/ pending' = NoDecision \/ Made(pending')
           /\ pending # NoDecision /\ pending.side # "buy" => pending' = pending
<1>1. queued # 0 => queued < day
  BY DEF TypeInv, Clock
<1>2. \A x \in MarketExit \cup HoldingExit \cup RiskExit : Made(x) /\ x.side = "sell"
  BY <1>1, ExitsMade DEF TypeInv, Clock
<1>3. PICK d \in IF pending = NoDecision
                 THEN Opened(Available(entries, day), MarketExit \cup HoldingExit \cup RiskExit)
                 ELSE {pending} :
          pending' \in Reviewed(d)
  BY DEF Decide
<1>4. \/ pending' = d
      \/ d.side = "buy" /\ pending' = NoDecision
      \/ d.side = "buy" /\ pending' \in MarketExit \cup HoldingExit \cup RiskExit
  BY <1>3, ReviewedOutcome
<1>5. CASE pending = NoDecision
  <2>1. d = NoDecision \/ Made(d)
    BY <1>2, <1>3, <1>5, OpenedMade
  <2> QED
    BY <1>2, <1>4, <1>5, <2>1
<1>6. CASE pending # NoDecision
  BY <1>2, <1>3, <1>4, <1>6
<1> QED
  BY <1>5, <1>6

-----------------------------------------------------------------------------
(* Steps that leave the account alone. *)

LEMMA AccountKept ==
    ASSUME Steady, UNCHANGED <<setup, day, account>>, queued' \in {queued, 0},
           phase # "preopen", phase \in Over => phase' \in Over
    PROVE  Claims' /\ Books' /\ AnchorsFollowPosition' /\ Targets' /\ CashSuffices'
<1>1. /\ Held' = Held /\ Position' = Position /\ Receivable' = Receivable
      /\ dividend' = dividend /\ bonus' = bonus /\ plan' = plan /\ day' = day
      /\ strategy' = strategy /\ cash' = cash /\ trip' = trip /\ pnl' = pnl
      /\ target' = target /\ holdAnchor' = holdAnchor /\ riskAnchor' = riskAnchor
  BY DEF setup, account, shares, claims, anchors, Held, Position, Receivable, Promised
<1>2. Claims'
  BY <1>1 DEF Steady, Claims, Timely
<1>3. Books' /\ Targets' /\ CashSuffices'
  BY <1>1 DEF Steady, Books, Targets, CashSuffices
<1>4. AnchorsFollowPosition'
  BY <1>1 DEF Steady, AnchorsFollowPosition
<1> QED
  BY <1>2, <1>3, <1>4

(* In the same way, the types of what such a step does not touch. *)
LEMMA AccountTyped ==
    ASSUME TypeOK, UNCHANGED <<setup, account>>
    PROVE  /\ strategy' \in Strategies /\ plan' \in Plans
           /\ target' \in 0..Last /\ holdAnchor' \in 0..Last /\ riskAnchor' \in 0..Last
           /\ cash' \in Int /\ pnl' \in Int
           /\ free' \in Nat /\ fresh' \in Nat /\ credited' \in Nat
           /\ dividend' \in Entitlements /\ bonus' \in Entitlements
           /\ trip' \in [entry : 0..Last, net : Int]
BY DEF TypeOK, setup, account, shares, claims, anchors

-----------------------------------------------------------------------------
(* Deciding. *)

(* Of several exits one is the first. *)
LEMMA EarliestExists ==
    ASSUME NEW S, S # {}, \A x \in S : x.avail \in Nat
    PROVE  Earliest(S) # {}
<1> DEFINE T == {x.avail : x \in S}
<1>1. PICK m \in T : \A n \in T : m <= n
  <2>1. T \subseteq Nat /\ T # {}
    OBVIOUS
  <2> HIDE DEF T
  <2> QED
    BY <2>1, LeastNat
<1>2. \A x \in S : m <= x.avail
  BY <1>1
<1>3. m \in Nat
  BY <1>1
<1>4. PICK x \in S : x.avail = m
  BY <1>1
<1>5. CASE \A y \in S : y.avail = m => y.kind = "holding"
  <2>1. \A y \in S : x.avail < y.avail \/ (x.avail = y.avail /\ y.kind = "holding")
    BY <1>2, <1>3, <1>4, <1>5
  <2> QED
    BY <2>1 DEF Earliest
<1>6. CASE \E z \in S : z.avail = m /\ z.kind # "holding"
  <2>1. PICK z \in S : z.avail = m /\ z.kind # "holding"
    BY <1>6
  <2>2. \A y \in S : z.avail < y.avail \/ z.avail = y.avail
    BY <1>2, <1>3, <2>1
  <2> QED
    BY <2>1, <2>2 DEF Earliest
<1> QED
  BY <1>5, <1>6

(* A BUY goes on only when no account exit is in force. *)
LEMMA NoBuyOverExit ==
    ASSUME TypeInv, Decide, pending'.side = "buy", Position > 0
    PROVE  queued = 0 /\ ~due
<1>1. queued # 0 => queued < day
  BY DEF Decide, TypeInv, Clock
<1>2. \A x \in MarketExit \cup HoldingExit \cup RiskExit : Made(x) /\ x.side = "sell"
  BY <1>1, ExitsMade DEF Decide, TypeInv, Clock, Session
<1>3. PICK d : pending' \in Reviewed(d)
  BY DEF Decide
<1>4. pending' = d
  BY <1>2, <1>3, ReviewedOutcome, NothingFields
<1> DEFINE rivals == {y \in MarketExit : NotOlder(y, d)} \cup HoldingExit \cup RiskExit
<1>5. Earliest(rivals) = {}
  BY <1>2, <1>3, <1>4, ReviewedOutcome
<1>6. rivals \subseteq MarketExit \cup HoldingExit \cup RiskExit
  OBVIOUS
<1>7. HoldingExit \subseteq rivals /\ RiskExit \subseteq rivals
  OBVIOUS
<1> HIDE DEF rivals
<1>8. \A x \in rivals : x.avail \in Nat
  BY <1>2, <1>6, SessionsAssumption DEF Made, Decisions
<1>9. rivals = {}
  BY <1>5, <1>8, EarliestExists
<1>10. HoldingExit = {} /\ RiskExit = {}
  BY <1>7, <1>9
<1>11. ~due
  BY <1>10 DEF HoldingExit
<1>12. queued = 0
  BY <1>10 DEF RiskExit
<1> QED
  BY <1>11, <1>12

LEMMA DecideStep == Steady /\ Decide => Steady'
<1> SUFFICES ASSUME Steady, Decide PROVE Steady'
  OBVIOUS
<1> USE DEF setup
<1>0. /\ TypeInv /\ TypeOK /\ phase = "decide" /\ phase' = "attempt"
      /\ UNCHANGED <<setup, day, trading, due, account, activated>>
  BY DEF Steady, TypeInv, Decide
<1>1. /\ pending' = pending \/ pending' = NoDecision \/ Made(pending')
      /\ pending # NoDecision /\ pending.side # "buy" => pending' = pending
  BY <1>0, DecideOutcome DEF Steady
<1>2. pending' \in Decisions /\ Sides(pending)'
  <2>1. pending' \in Decisions
    BY <1>0, <1>1, NothingFields DEF TypeOK, Made
  <2>2. Sides(pending')
    BY <1>0, <1>1, NothingFields DEF TypeInv, Made
  <2> QED
    BY <2>1, <2>2 DEF Sides
<1>3. queued' \in {queued, 0} /\ (queued' # queued => pending'.kind = "risk")
  BY DEF Decide
<1>4. TypeOK'
  <2>1. entries' \subseteq Facts /\ exits' \subseteq Facts
    BY <1>0 DEF TypeOK, Decide
  <2>2. crowded' \in BOOLEAN
    BY DEF Decide
  <2>3. queued' \in 0..Last
    BY <1>0, <1>3, SessionsAssumption DEF TypeOK
  <2> QED
    BY <1>0, <1>2, <2>1, <2>2, <2>3, AccountTyped DEF TypeOK
<1>5. pending'.attempts < day
  <2>1. day \in 1..(Last + 1) /\ pending.attempts < day
    BY <1>0 DEF TypeInv, TypeOK, Clock, Morning
  <2> QED
    BY <1>1, <2>1, NothingFields DEF Made
<1>6. Clock'
  <2>1. day' = day /\ due' = due /\ phase' = "attempt" /\ day <= Last
    BY <1>0 DEF TypeInv, Clock, Session
  <2>2. queued' # 0 => queued' < day
    BY <1>0, <1>3 DEF TypeInv, Clock
  <2> QED
    BY <1>5, <2>1, <2>2 DEF Clock, Morning, Session, Over
<1>7. Claims' /\ Books' /\ AnchorsFollowPosition' /\ Targets' /\ CashSuffices'
  BY <1>0, <1>3, AccountKept DEF Over
<1>8. BuyClock'
  <2>1. ASSUME pending'.side = "buy"
        PROVE  pending'.attempts = day - pending'.opened /\ day < pending'.opened + strategy.validity
    <3>1. pending' = pending \/ Made(pending')
      BY <1>1, <2>1, NothingFields
    <3>2. CASE pending' = pending
      BY <1>0, <2>1, <3>2 DEF Steady, BuyClock, Morning
    <3>3. CASE Made(pending')
      <4>1. strategy.validity \in Nat \ {0} /\ day \in 1..(Last + 1)
        BY <1>0, StrategiesAssumption DEF TypeOK, StrategySet
      <4> QED
        BY <3>3, <4>1 DEF Made
    <3> QED
      BY <3>1, <3>2, <3>3
  <2> QED
    BY <1>0, <2>1 DEF BuyClock, Morning
<1>9. ExitBeatsEntry'
  <2>1. Position' = Position /\ due' = due
    BY <1>0 DEF account, shares, claims, Position, Held, Promised
  <2>2. pending'.side = "buy" => Position = 0 \/ (queued = 0 /\ ~due)
    <3>1. Position \in Nat
      BY <1>0 DEF TypeOK, Position, Held, Promised, Entitlements
    <3> QED
      BY <1>0, <3>1, NoBuyOverExit
  <2> QED
    BY <1>3, <2>1, <2>2 DEF ExitBeatsEntry
<1>10. RiskInForce'
  <2>1. pending'.kind = "risk" => pending'.side = "sell"
    BY <1>2 DEF Sides
  <2>2. pending.side = "sell" => pending' = pending
    BY <1>1, NothingFields
  <2> QED
    BY <1>0, <1>3, <2>1, <2>2 DEF Steady, RiskInForce
<1>11. HoldingInForce'
  <2>1. /\ Combined' = Combined /\ target' = target /\ day' = day /\ strategy' = strategy
        /\ due' = due
    BY <1>0 DEF account, anchors, Combined
  <2>2. ~crowded' => ~crowded /\ (due => pending'.kind = "holding")
    BY DEF Decide
  <2>3. pending'.kind = "holding" => pending'.side = "sell"
    BY <1>2 DEF Sides
  <2>4. pending.side = "sell" => pending' = pending
    BY <1>1, NothingFields
  <2> QED
    BY <1>0, <2>1, <2>2, <2>3, <2>4 DEF Steady, HoldingInForce
<1> QED
  BY <1>2, <1>4, <1>6, <1>7, <1>8, <1>9, <1>10, <1>11 DEF Steady, TypeInv

-----------------------------------------------------------------------------
(* Attempts that fill nothing. *)

LEMMA TriedFields ==
    ASSUME TypeInv, phase = "attempt"
    PROVE  /\ Tried \in [side : {"none", "buy", "sell"},
                         kind : {"none", "entry", "market", "holding", "risk"},
                         src : 0..Last, avail : 0..(Last + MaxDelay + 1),
                         opened : 0..(Last + 1), attempts : 0..Last]
           /\ Tried.side = pending.side /\ Tried.kind = pending.kind
           /\ Tried.opened = pending.opened /\ Tried.attempts = pending.attempts + 1
<1>1. pending \in Decisions /\ pending.attempts < day /\ day <= Last /\ day \in 1..(Last + 1)
  BY DEF TypeInv, TypeOK, Clock, Morning, Session
<1>2. /\ Tried.side = pending.side /\ Tried.kind = pending.kind
      /\ Tried.opened = pending.opened /\ Tried.attempts = pending.attempts + 1
      /\ Tried = [side |-> pending.side, kind |-> pending.kind, src |-> pending.src,
                  avail |-> pending.avail, opened |-> pending.opened,
                  attempts |-> pending.attempts + 1]
  BY DEF Tried, Decision, Fact
<1>3. pending.attempts + 1 \in 0..Last
  BY <1>1, SessionsAssumption DEF Decisions
<1> QED
  BY <1>1, <1>2, <1>3 DEF Decisions

(* An attempt that fills nothing keeps the books; it must not lose an      *)
(* account exit nor let a BUY outlive its validity.                        *)
LEMMA QuietAttempt ==
    ASSUME Steady, phase = "attempt", phase' = "evening",
           UNCHANGED <<setup, day, trading, signals, due, queued, account, crowded>>,
           pending' \in {pending, NoDecision, Tried}, activated' \in {activated, FALSE},
           pending' = Tried => pending.side # "none",
           pending'.side = "buy" =>
               pending' = Tried /\ pending.attempts + 1 < strategy.validity,
           pending.side = "sell" /\ strategy.retry
               /\ (pending.kind = "holding" \/ (pending.kind = "risk" /\ activated')) =>
               pending'.side = "sell" /\ pending'.kind = pending.kind
    PROVE  Steady'
<1>0. /\ TypeInv /\ TypeOK
      /\ UNCHANGED <<setup, account>> /\ day' = day /\ queued' = queued /\ due' = due
      /\ entries' = entries /\ exits' = exits /\ trading' = trading /\ strategy' = strategy
      /\ crowded' = crowded /\ target' = target
  BY DEF Steady, TypeInv, setup, signals, account, anchors
<1>1. /\ Tried \in Decisions /\ Tried.side = pending.side /\ Tried.kind = pending.kind
      /\ Tried.opened = pending.opened /\ Tried.attempts = pending.attempts + 1
  BY <1>0, TriedFields DEF Decisions
<1>2. pending.attempts < day /\ pending.attempts \in 0..Last /\ day \in 1..(Last + 1) /\ day <= Last
  BY <1>0 DEF TypeInv, TypeOK, Clock, Morning, Session, Decisions
<1>3. pending' \in Decisions /\ Sides(pending')
  <2>1. pending' \in Decisions
    BY <1>0, <1>1, NothingFields DEF TypeOK
  <2>2. Sides(pending') 
    <3>1. CASE pending' = pending
      BY <1>0, <3>1 DEF TypeInv
    <3>2. CASE pending' = NoDecision
      BY <3>2, NothingFields
    <3>3. CASE pending' = Tried
      BY <1>0, <1>1, <3>3 DEF TypeInv, Sides
    <3> QED
      BY <3>1, <3>2, <3>3
  <2> QED
    BY <2>1, <2>2
<1>4. TypeOK'
  <2>1. activated' \in BOOLEAN
    BY <1>0 DEF TypeOK
  <2> QED
    BY <1>0, <1>3, <2>1, AccountTyped DEF TypeOK
<1>5. Clock'
  <2>1. pending'.attempts <= day
    BY <1>1, <1>2, NothingFields
  <2>2. queued \in 0..Last /\ (queued # 0 => queued < day)
    BY <1>0 DEF TypeInv, TypeOK, Clock
  <2> QED
    BY <1>0, <1>2, <2>1, <2>2 DEF Clock, Morning, Session, Over
<1>6. Claims' /\ Books' /\ AnchorsFollowPosition' /\ Targets' /\ CashSuffices'
  BY <1>0, AccountKept DEF Over
<1>7. BuyClock'
  <2>1. ASSUME pending'.side = "buy"
        PROVE  /\ pending'.attempts = day + 1 - pending'.opened
               /\ day + 1 < pending'.opened + strategy.validity
    <3>1. pending' = Tried /\ pending.attempts + 1 < strategy.validity /\ pending.side = "buy"
      BY <1>1, <2>1
    <3>2. pending.attempts = day - pending.opened /\ pending.opened \in Nat
      BY <1>0, <3>1 DEF Steady, BuyClock, Morning, TypeOK, Decisions
    <3>3. strategy.validity \in Nat
      BY <1>0, StrategiesAssumption DEF TypeOK, StrategySet
    <3> QED
      BY <1>1, <1>2, <3>1, <3>2, <3>3
  <2> QED
    BY <1>0, <2>1 DEF BuyClock, Morning
<1>8. ExitBeatsEntry' /\ RiskInForce'
  <2>1. pending.kind = "risk" => pending.side = "sell"
    BY <1>0 DEF TypeInv, Sides
  <2>2. activated' => activated
    BY <1>0 DEF TypeOK
  <2> QED
    BY <1>0, <2>1, <2>2 DEF Steady, RiskInForce, ExitBeatsEntry
<1>9. HoldingInForce'
  <2>1. Combined' = Combined
    BY <1>0 DEF Combined
  <2> QED
    BY <1>0, <2>1 DEF Steady, HoldingInForce
<1> QED
  BY <1>3, <1>4, <1>5, <1>6, <1>7, <1>8, <1>9 DEF Steady, TypeInv

LEMMA QuietAttempts ==
    ASSUME Steady,
           NothingPending \/ Suspended \/ BuyRefused \/ BuyUnfilled \/ SellNothing \/ SellUnfilled
    PROVE  Steady'
<1>0. Sides(pending) /\ TypeOK
  BY DEF Steady, TypeInv
<1>1. CASE NothingPending
  <2>1. /\ phase = "attempt" /\ phase' = "evening" /\ pending = NoDecision /\ pending' = pending
        /\ UNCHANGED <<setup, day, trading, signals, due, queued, account, crowded>>
        /\ activated' = activated
    BY <1>1 DEF NothingPending, history
  <2> QED
    BY <2>1, QuietAttempt, NothingFields, TriedFields DEF Steady
<1>2. CASE Suspended
  <2>1. /\ phase = "attempt" /\ phase' = "evening" /\ pending # NoDecision
        /\ pending' = (IF Persistent(pending) THEN pending ELSE NoDecision)
        /\ UNCHANGED <<setup, day, trading, signals, due, queued, account, crowded>>
        /\ activated' = activated
    BY <1>2 DEF Suspended, history
  <2>2. pending.side # "none"
    BY <1>0, <2>1 DEF Sides
  <2> QED
    BY <2>1, <2>2, QuietAttempt, NothingFields DEF Persistent
<1>3. CASE BuyRefused
  <2>1. /\ phase = "attempt" /\ phase' = "evening" /\ pending.side = "buy" /\ pending' = NoDecision
        /\ UNCHANGED <<setup, day, trading, signals, due, queued, account, crowded>>
        /\ activated' = activated
    BY <1>3 DEF BuyRefused, Attempting, history
  <2> QED
    BY <2>1, QuietAttempt, NothingFields
<1>4. CASE BuyUnfilled
  <2>1. /\ phase = "attempt" /\ phase' = "evening" /\ pending.side = "buy"
        /\ \E retryable \in BOOLEAN :
              pending' = IF retryable /\ pending.attempts + 1 < strategy.validity
                         THEN Tried ELSE NoDecision
        /\ UNCHANGED <<setup, day, trading, signals, due, queued, account, crowded>>
        /\ activated' = activated
    BY <1>4 DEF BuyUnfilled, Attempting, history
  <2>2. pending' = NoDecision \/ (pending' = Tried /\ pending.attempts + 1 < strategy.validity)
    BY <2>1
  <2> QED
    BY <2>1, <2>2, QuietAttempt, NothingFields
<1>5. CASE SellNothing
  <2>1. /\ phase = "attempt" /\ phase' = "evening" /\ pending.side = "sell"
        /\ pending' = (IF Persistent(pending) /\ strategy.retry THEN pending ELSE NoDecision)
        /\ UNCHANGED <<setup, day, trading, signals, due, queued, account, crowded>>
        /\ activated' = activated
    BY <1>5 DEF SellNothing, Attempting, history
  <2> QED
    BY <2>1, QuietAttempt, NothingFields DEF Persistent
<1>6. CASE SellUnfilled
  <2>1. /\ phase = "attempt" /\ phase' = "evening" /\ pending.side = "sell" /\ free > 0
        /\ pending' = AfterSell(Position) /\ activated' = StillActivated(Position)
        /\ UNCHANGED <<setup, day, trading, signals, due, queued, account, crowded>>
    BY <1>6 DEF SellUnfilled, Attempting
  <2>2. Position > 0
    BY <1>0, <2>1 DEF TypeOK, Position, Held, Promised, Entitlements
  <2>3. /\ pending' = (IF Persistent(pending) /\ strategy.retry /\ ~Exhausted
                       THEN Tried ELSE NoDecision)
        /\ activated' = (activated /\ ~Exhausted)
    BY <2>1, <2>2 DEF AfterSell, StillActivated
  <2>4. activated' \in {activated, FALSE}
    BY <2>3, <1>0 DEF TypeOK
  <2>5. Tried.side = pending.side /\ Tried.kind = pending.kind
    BY <2>1, TriedFields DEF Steady
  <2>6. Exhausted => pending.kind = "risk"
    BY DEF Exhausted
  <2>7. pending' = Tried \/ pending' = NoDecision
    BY <2>3
  <2>8. pending'.side # "buy"
    BY <2>1, <2>5, <2>7, NothingFields
  <2>9. strategy.retry /\ (pending.kind = "holding" \/ (pending.kind = "risk" /\ activated')) =>
           pending' = Tried
    BY <2>1, <2>3, <2>6 DEF Persistent
  <2> QED
    BY <2>1, <2>4, <2>5, <2>7, <2>8, <2>9, QuietAttempt
<1> QED
  BY <1>1, <1>2, <1>3, <1>4, <1>5, <1>6

-----------------------------------------------------------------------------
(* Fills. *)

LEMMA ProductGrows ==
    ASSUME NEW q \in Nat, NEW p \in Nat, NEW l \in Nat, p <= l
    PROVE  q * p \in Nat /\ q * p <= q * l
<1>1. q * (l - p) >= 0
  BY l - p >= 0
<1>2. q * (l - p) = q * l - q * p
  OBVIOUS
<1> QED
  BY <1>1, <1>2

LEMMA QuotientFits ==
    ASSUME NEW c \in Nat, NEW l \in Nat, l > 0, NEW q \in Nat, q <= c \div l
    PROVE  q * l <= c
<1>1. c \div l \in Nat /\ (c \div l) * l <= c
  OBVIOUS
<1>2. l * q <= l * (c \div l)
  BY <1>1, ProductGrows
<1> QED
  BY <1>1, <1>2

(* size_pre_open_buy *)
LEMMA Affordable ==
    ASSUME TypeOK, CashSuffices, NEW q \in 1..BuyQuantity, NEW p \in Prices
    PROVE  q * p \in Nat /\ q * p + Fee <= cash
<1>1. /\ UpperLimit \in Nat /\ p \in Nat /\ p <= UpperLimit /\ UpperLimit > 0 /\ Fee \in Nat
      /\ cash \in Int /\ cash >= 0
  BY PricesAssumption DEF TypeOK, CashSuffices
<1>2. cash - Fee \in Nat /\ BuyQuantity = (cash - Fee) \div UpperLimit /\ q \in Nat
  BY <1>1 DEF BuyQuantity
<1>3. q <= (cash - Fee) \div UpperLimit
  BY <1>1, <1>2
<1>4. q * UpperLimit <= cash - Fee
  BY <1>1, <1>2, <1>3, QuotientFits
<1>5. q * p \in Nat /\ q * p <= q * UpperLimit
  BY <1>1, <1>2, ProductGrows
<1>6. q * UpperLimit \in Nat
  BY <1>1, <1>2
<1> QED
  BY <1>1, <1>4, <1>5, <1>6

LEMMA BuyFilledStep == Steady /\ BuyFilled => Steady'
<1> SUFFICES ASSUME Steady, BuyFilled PROVE Steady'
  OBVIOUS
<1>0. /\ TypeInv /\ TypeOK /\ phase = "attempt" /\ phase' = "evening" /\ pending.side = "buy"
      /\ pending' = NoDecision
      /\ UNCHANGED <<strategy, plan, day, trading, entries, exits, due, queued, free, credited,
                     dividend, bonus, pnl, crowded, activated>>
  BY DEF Steady, TypeInv, BuyFilled, Attempting, setup, signals, claims, history
<1>1. /\ day \in 1..(Last + 1) /\ day <= Last /\ queued \in 0..Last
      /\ queued # 0 => queued < day
  BY <1>0 DEF TypeInv, TypeOK, Clock, Session
<1>2. PICK quantity \in 1..BuyQuantity, price \in Prices :
          /\ cash' = cash - (quantity * price + Fee)
          /\ trip' = Trip(IF trip.entry = 0 THEN day ELSE trip.entry,
                          trip.net - (quantity * price + Fee))
          /\ fresh' = fresh + quantity
  BY DEF BuyFilled
<1>3. quantity * price \in Nat /\ quantity * price + Fee <= cash
  BY <1>0, Affordable DEF Steady
<1> DEFINE money == quantity * price + Fee
<1>4. money \in Nat /\ money <= cash /\ quantity \in Nat /\ quantity > 0
  BY <1>3, PricesAssumption
<1>5. cash' = cash - money /\ fresh' = fresh + quantity
  BY <1>2
<1>6. /\ trip'.entry = (IF trip.entry = 0 THEN day ELSE trip.entry)
      /\ trip'.net = trip.net - money
      /\ trip' = [entry |-> trip'.entry, net |-> trip'.net]
  BY <1>2 DEF Trip
<1> HIDE DEF money
<1>7. /\ holdAnchor' = (IF strategy.holding > 0 /\ holdAnchor = 0 THEN day ELSE holdAnchor)
      /\ target' = (IF strategy.holding > 0 /\ holdAnchor = 0 THEN Target ELSE target)
      /\ riskAnchor' = (IF strategy.risk /\ riskAnchor = 0 THEN day ELSE riskAnchor)
  BY DEF BuyFilled
<1>8. strategy.holding \in Nat
  BY <1>0, StrategiesAssumption DEF TypeOK, StrategySet
<1>9. Target \in 0..Last /\ (Target # 0 => Target = day + strategy.holding)
  BY <1>1, <1>8, SessionsAssumption DEF Target
<1>10. /\ Position' = Position + quantity /\ Receivable' = Receivable
       /\ Position \in Nat /\ Receivable \in Nat /\ Held' = Held + quantity
  BY <1>0, <1>4, <1>5 DEF TypeOK, Position, Held, Promised, Entitlements, Receivable
<1>11. TypeOK'
  <2>1. cash' \in Int /\ fresh' \in Nat
    BY <1>0, <1>4, <1>5 DEF TypeOK
  <2>2. trip' \in [entry : 0..Last, net : Int]
    BY <1>0, <1>1, <1>4, <1>6 DEF TypeOK
  <2>3. holdAnchor' \in 0..Last /\ riskAnchor' \in 0..Last /\ target' \in 0..Last
    BY <1>0, <1>1, <1>7, <1>9 DEF TypeOK
  <2> QED
    BY <1>0, <2>1, <2>2, <2>3, NothingFields DEF TypeOK
<1>12. Clock' /\ Sides(pending)' /\ BuyClock' /\ ExitBeatsEntry'
  <2>1. Clock'
    BY <1>0, <1>1, NothingFields DEF Clock, Morning, Session, Over
  <2>2. Sides(pending')
    BY <1>0, NothingFields
  <2> QED
    BY <1>0, <2>1, <2>2, NothingFields DEF BuyClock, ExitBeatsEntry
<1>13. Claims'
  BY <1>0 DEF Steady, Claims, Timely, Over
<1>14. Books'
  <2>1. cash \in Int /\ pnl \in Int /\ trip.net \in Int /\ InitialCash \in Int
    BY <1>0, PricesAssumption DEF TypeOK
  <2>2. cash + Receivable = InitialCash + pnl + trip.net
    BY DEF Steady, Books
  <2>3. trip'.entry # 0
    BY <1>0, <1>1, <1>6 DEF TypeOK
  <2> QED
    BY <1>0, <1>4, <1>5, <1>6, <1>10, <2>1, <2>2, <2>3 DEF Books
<1>15. AnchorsFollowPosition' /\ Targets' /\ CashSuffices'
  <2>1. AnchorsFollowPosition /\ Targets
    BY DEF Steady
  <2>2. Position' > 0 /\ trip'.entry # 0
    BY <1>0, <1>1, <1>4, <1>6, <1>10 DEF TypeOK
  <2>3. Position = 0 => holdAnchor = 0 /\ riskAnchor = 0 /\ trip.entry = 0
    BY <2>1, <1>10 DEF AnchorsFollowPosition
  <2>4. strategy.holding > 0 /\ holdAnchor = 0 => trip.entry = 0
    BY <2>1, <1>10 DEF AnchorsFollowPosition
  <2>5. strategy.risk /\ riskAnchor = 0 => trip.entry = 0
    BY <2>1, <1>10 DEF AnchorsFollowPosition
  <2>6. holdAnchor' \in {0, trip'.entry}
    BY <1>1, <1>6, <1>7, <2>1, <2>3, <2>4 DEF AnchorsFollowPosition
  <2>7. riskAnchor' \in {0, trip'.entry}
    BY <1>1, <1>6, <1>7, <2>1, <2>3, <2>5 DEF AnchorsFollowPosition
  <2>8. strategy.holding > 0 => holdAnchor' # 0
    BY <1>1, <1>7
  <2>9. strategy.risk => riskAnchor' # 0
    BY <1>1, <1>7
  <2>10. AnchorsFollowPosition'
    BY <1>0, <2>2, <2>6, <2>7, <2>8, <2>9 DEF AnchorsFollowPosition
  <2>11. Targets'
    BY <1>0, <1>1, <1>7, <2>1 DEF Targets
  <2>12. CashSuffices'
    BY <1>0, <1>4, <1>5 DEF CashSuffices, TypeOK
  <2> QED
    BY <2>10, <2>11, <2>12
<1>16. RiskInForce'
  BY <1>0 DEF Steady, RiskInForce
<1>17. HoldingInForce'
  <2>1. target' = target \/ target' = 0 \/ target' > day
    BY <1>1, <1>7, <1>8, <1>9
  <2>2. Combined' = Combined
    BY <1>0 DEF Combined
  <2>3. target \in 0..Last
    BY <1>0 DEF TypeOK
  <2>4. strategy.retry /\ ~Combined /\ ~crowded /\ target # 0 => ~ (day >= target)
    BY <1>0, <1>1, <2>3 DEF Steady, HoldingInForce
  <2>5. target' \in 0..Last
    BY <1>11 DEF TypeOK
  <2>6. strategy.retry /\ ~Combined /\ ~crowded /\ target' # 0 => day < target'
    BY <1>1, <2>1, <2>3, <2>4
  <2>7. /\ strategy' = strategy /\ crowded' = crowded /\ day' = day /\ phase' = "evening"
    BY <1>0
  <2>8. strategy'.retry /\ ~Combined' /\ ~crowded' /\ target' # 0 =>
           ~ (day' > target') /\ ~ (day' = target')
    BY <1>1, <2>2, <2>5, <2>6, <2>7
  <2> QED
    BY <2>7, <2>8 DEF HoldingInForce
<1> QED
  BY <1>11, <1>12, <1>13, <1>14, <1>15, <1>16, <1>17 DEF Steady, TypeInv

LEMMA ProceedsPositive ==
    ASSUME NEW q \in Nat, q > 0, NEW p \in Prices
    PROVE  q * p \in Nat /\ q * p - Fee \in Nat
<1>1. p \in Nat /\ Fee \in Nat /\ Fee <= p
  BY PricesAssumption
<1>2. p * 1 <= p * q
  BY <1>1, ProductGrows
<1>3. q * p \in Nat /\ q * p >= p
  BY <1>1, <1>2
<1> QED
  BY <1>1, <1>3

LEMMA SellFilledStep == Steady /\ SellFilled => Steady'
<1> SUFFICES ASSUME Steady, SellFilled PROVE Steady'
  OBVIOUS
<1>0. /\ TypeInv /\ TypeOK /\ phase = "attempt" /\ phase' = "evening" /\ pending.side = "sell"
      /\ UNCHANGED <<strategy, plan, day, trading, entries, exits, due, fresh, credited,
                     dividend, bonus>>
  BY DEF Steady, TypeInv, SellFilled, Attempting, setup, signals, claims
<1>1. /\ day \in 1..(Last + 1) /\ day <= Last /\ queued \in 0..Last
      /\ queued # 0 => queued < day
  BY <1>0 DEF TypeInv, TypeOK, Clock, Session
<1>2. PICK quantity \in 1..free, price \in Prices :
          /\ cash' = cash + quantity * price - Fee
          /\ free' = free - quantity
          /\ SettleTrip(Position - quantity, trip.net + quantity * price - Fee)
          /\ pending' = AfterSell(Position - quantity)
          /\ activated' = StillActivated(Position - quantity)
          /\ crowded' = (crowded /\ Position > quantity)
  BY DEF SellFilled
<1>3. quantity \in Nat /\ quantity > 0 /\ free \in Nat /\ quantity <= free
  BY <1>0, <1>2 DEF TypeOK
<1> DEFINE money == quantity * price - Fee
           left  == Position - quantity
<1>4. quantity * price \in Nat /\ money \in Nat
  BY <1>3, ProceedsPositive
<1>5. cash \in Int /\ trip.net \in Int /\ pnl \in Int /\ Fee \in Nat /\ InitialCash \in Nat
  BY <1>0, PricesAssumption DEF TypeOK
<1>6. cash' = cash + money /\ trip.net + quantity * price - Fee = trip.net + money
  BY <1>2, <1>4, <1>5
<1> HIDE DEF money
<1>7. /\ Position \in Nat /\ left \in Nat /\ Position' = left /\ Receivable' = Receivable
      /\ Receivable \in Nat /\ free' \in Nat /\ Position > 0
  BY <1>0, <1>2, <1>3 DEF TypeOK, Position, Held, Promised, Entitlements, Receivable
<1>8. /\ SettleTrip(left, trip.net + money) /\ pending' = AfterSell(left)
      /\ activated' = StillActivated(left)
      /\ crowded' = (crowded /\ left > 0)
  BY <1>2, <1>3, <1>6, <1>7
<1> HIDE DEF left
<1>9. /\ left > 0 => /\ trip' = Trip(trip.entry, trip.net + money)
                     /\ pnl' = pnl /\ UNCHANGED anchors /\ queued' = queued
      /\ left = 0 => /\ trip' = Trip(0, 0) /\ pnl' = pnl + (trip.net + money)
                     /\ target' = 0 /\ holdAnchor' = 0 /\ riskAnchor' = 0 /\ queued' = 0
  BY <1>7, <1>8 DEF SettleTrip
<1>10. /\ left > 0 => /\ target' = target /\ holdAnchor' = holdAnchor /\ riskAnchor' = riskAnchor
                      /\ trip'.entry = trip.entry /\ trip'.net = trip.net + money
       /\ left = 0 => trip'.entry = 0 /\ trip'.net = 0
       /\ trip' = [entry |-> trip'.entry, net |-> trip'.net]
  BY <1>7, <1>9 DEF Trip, anchors
<1>11. /\ Tried \in Decisions /\ Tried.side = "sell" /\ Tried.kind = pending.kind
       /\ Tried.attempts = pending.attempts + 1 /\ Sides(Tried)
  <2>1. /\ Tried \in Decisions /\ Tried.side = "sell" /\ Tried.kind = pending.kind
        /\ Tried.attempts = pending.attempts + 1
    BY <1>0, TriedFields DEF Decisions
  <2> QED
    BY <1>0, <2>1 DEF TypeInv, Sides
<1>12. /\ pending' = Tried \/ pending' = NoDecision
       /\ strategy.retry /\ left > 0 /\ ~Exhausted /\ pending.kind \in {"holding", "risk"}
             => pending' = Tried
       /\ activated' => activated /\ left > 0 /\ ~Exhausted
  BY <1>0, <1>8 DEF AfterSell, StillActivated, Persistent
<1>13. TypeOK'
  <2>1. cash' \in Int /\ pnl' \in Int /\ trip' \in [entry : 0..Last, net : Int]
    BY <1>0, <1>4, <1>5, <1>6, <1>7, <1>9, <1>10, SessionsAssumption DEF TypeOK
  <2>2. /\ holdAnchor' \in 0..Last /\ riskAnchor' \in 0..Last /\ target' \in 0..Last
        /\ queued' \in 0..Last
    BY <1>0, <1>7, <1>9, <1>10, SessionsAssumption DEF TypeOK
  <2>3. crowded' \in BOOLEAN
    BY <1>8
  <2>4. activated' \in BOOLEAN
    BY <1>8 DEF StillActivated
  <2>5. pending' \in Decisions
    BY <1>11, <1>12, NothingFields
  <2> QED
    BY <1>0, <1>7, <2>1, <2>2, <2>3, <2>4, <2>5 DEF TypeOK
<1>14. Clock' /\ Sides(pending)' /\ BuyClock' /\ ExitBeatsEntry'
  <2>1. pending'.attempts <= day /\ pending'.side # "buy"
    <3>1. pending.attempts < day /\ pending.attempts \in 0..Last
      BY <1>0 DEF TypeInv, TypeOK, Clock, Morning, Decisions
    <3> QED
      BY <1>1, <1>11, <1>12, <3>1, NothingFields
  <2>2. Clock'
    BY <1>0, <1>1, <1>7, <1>9, <2>1 DEF Clock, Morning, Session, Over
  <2>3. Sides(pending')
    BY <1>11, <1>12, NothingFields
  <2> QED
    BY <1>0, <2>1, <2>2, <2>3 DEF BuyClock, ExitBeatsEntry
<1>15. Claims'
  BY <1>0 DEF Steady, Claims, Timely, Over
<1>16. Books' /\ CashSuffices'
  <2>1. cash + Receivable = InitialCash + pnl + trip.net /\ cash >= 0
    BY DEF Steady, Books, CashSuffices
  <2>2. trip.entry # 0
    BY <1>7 DEF Steady, AnchorsFollowPosition
  <2>3. CASE left > 0
    BY <1>4, <1>5, <1>6, <1>7, <1>9, <1>10, <2>1, <2>2, <2>3 DEF Books, CashSuffices
  <2>4. CASE left = 0
    BY <1>4, <1>5, <1>6, <1>7, <1>9, <1>10, <2>1, <2>4 DEF Books, CashSuffices
  <2> QED
    BY <1>7, <2>3, <2>4
<1>17. AnchorsFollowPosition' /\ Targets'
  <2>1. AnchorsFollowPosition /\ Targets
    BY DEF Steady
  <2>2. CASE left > 0
    BY <1>0, <1>7, <1>9, <1>10, <2>1, <2>2 DEF AnchorsFollowPosition, Targets
  <2>3. CASE left = 0
    BY <1>0, <1>7, <1>9, <1>10, <2>3 DEF AnchorsFollowPosition, Targets
  <2> QED
    BY <1>7, <2>2, <2>3
<1>18. RiskInForce'
  <2>1. activated' /\ strategy.retry => queued' # 0 \/ (pending'.side = "sell" /\ pending'.kind = "risk")
    BY <1>9, <1>11, <1>12 DEF Steady, RiskInForce
  <2> QED
    BY <1>0, <2>1 DEF RiskInForce
<1>19. HoldingInForce'
  <2>1. CASE left = 0
    BY <1>0, <1>9, <2>1 DEF HoldingInForce
  <2>2. CASE left > 0
    <3>1. /\ target' = target /\ strategy' = strategy /\ day' = day /\ phase' = "evening"
          /\ (crowded' => crowded) /\ (crowded => crowded') /\ Combined' = Combined
      BY <1>0, <1>8, <1>10, <2>2 DEF Combined
    <3>2. pending.kind = "holding" /\ strategy.retry =>
             pending'.side = "sell" /\ pending'.kind = "holding"
      BY <1>11, <1>12, <2>2 DEF Exhausted
    <3>3. target \in 0..Last
      BY <1>0 DEF TypeOK
    <3> QED
      BY <1>0, <1>1, <3>1, <3>2, <3>3 DEF Steady, HoldingInForce
  <2> QED
    BY <1>7, <2>1, <2>2
<1> QED
  BY <1>13, <1>14, <1>15, <1>16, <1>17, <1>18, <1>19 DEF Steady, TypeInv

-----------------------------------------------------------------------------
(* The other steps of a session. *)

LEMMA PlanFacts ==
    ASSUME TypeOK
    PROVE  /\ plan.cashRecord \in Nat /\ plan.cashPay \in Nat /\ plan.bonusRecord \in Nat
           /\ plan.credit \in Nat /\ plan.sellable \in Nat /\ plan.credit <= plan.sellable
           /\ strategy.holding \in Nat /\ strategy.validity \in Nat \ {0}
BY PlansAssumption, StrategiesAssumption DEF TypeOK, PlanSet, StrategySet

(* An entitlement after the accrual of an ex session. *)
LEMMA AccruedFields ==
    ASSUME TypeOK, NEW e \in Entitlements, NEW record \in Nat, Timely(e, record)
    PROVE  /\ Accrued(e, record) \in Entitlements
           /\ Accrued(e, record).amount = e.amount
           /\ Accrued(e, record).state = (IF e.state = "captured" THEN "accrued" ELSE e.state)
           /\ e.state # "captured" => Accrued(e, record) = e
<1>1. e.state = "captured" => day = record + 1
  BY DEF Timely
<1>2. CASE e.state = "captured"
  <2>1. Accrued(e, record) = [state |-> "accrued", amount |-> e.amount]
    BY <1>1, <1>2 DEF Accrued, Entitlement
  <2> QED
    BY <1>2, <2>1 DEF Entitlements
<1>3. CASE e.state # "captured"
  BY <1>3 DEF Accrued
<1> QED
  BY <1>2, <1>3

(* What the share credit of a session does to the position. *)
LEMMA SharesBeforeOpen ==
    ASSUME Steady, PreOpen
    PROVE  /\ bonus' \in Entitlements /\ bonus'.state # "captured"
           /\ bonus'.state # "none" => bonus.state # "none"
           /\ free' \in Nat /\ fresh' \in Nat /\ credited' \in Nat
           /\ Position \in Nat /\ Held \in Nat
           /\ Position' = Position + (IF bonus.state = "captured" THEN Held ELSE 0)
<1> DEFINE b == Accrued(bonus, plan.bonusRecord)
           unlocked == IF day = plan.sellable THEN credited ELSE 0
<1>1. /\ TypeOK /\ free \in Nat /\ fresh \in Nat /\ credited \in Nat
      /\ bonus \in Entitlements /\ bonus.amount \in Nat /\ day \in Nat
  BY DEF Steady, TypeInv, TypeOK, Entitlements
<1>2. plan.bonusRecord \in Nat /\ plan.credit \in Nat /\ plan.sellable \in Nat
      /\ plan.credit <= plan.sellable
  BY <1>1, PlanFacts
<1>3. Timely(bonus, plan.bonusRecord)
  BY DEF Steady, Claims
<1>4. /\ b \in Entitlements /\ b.amount = bonus.amount
      /\ b.state = (IF bonus.state = "captured" THEN "accrued" ELSE bonus.state)
  BY <1>1, <1>2, <1>3, AccruedFields
<1>5. bonus.state = "captured" => bonus.amount = Held
  BY <1>3 DEF Timely
<1>6. unlocked \in Nat /\ credited - unlocked \in Nat /\ Unlocked = unlocked
  BY <1>1 DEF Unlocked
<1>7. /\ bonus' = IF CreditToday THEN Entitlement("settled", bonus.amount) ELSE b
      /\ free' = free + fresh + unlocked
                 + (IF CreditToday /\ day = plan.sellable THEN bonus.amount ELSE 0)
      /\ credited' = credited - unlocked
                     + (IF CreditToday /\ day < plan.sellable THEN bonus.amount ELSE 0)
      /\ fresh' = 0
  BY <1>6 DEF PreOpen
<1>8. CreditToday => b.state = "accrued" /\ day <= plan.sellable
  BY <1>2 DEF CreditToday
<1> HIDE DEF b, unlocked
<1>9. /\ Held = free + fresh + credited /\ Held' = free' + fresh' + credited'
      /\ Position = Held + (IF bonus.state = "accrued" THEN bonus.amount ELSE 0)
      /\ Position' = Held' + (IF bonus'.state = "accrued" THEN bonus'.amount ELSE 0)
  BY DEF Held, Position, Promised
<1>10. CASE CreditToday
  <2>1. bonus' = [state |-> "settled", amount |-> bonus.amount]
    BY <1>7, <1>10 DEF Entitlement
  <2>2. bonus'.state = "settled" /\ bonus' \in Entitlements
    BY <1>1, <2>1 DEF Entitlements
  <2>3. bonus.state \in {"captured", "accrued"}
    BY <1>1, <1>4, <1>8, <1>10 DEF Entitlements
  <2>4. /\ day = plan.sellable => /\ free' = free + fresh + unlocked + bonus.amount
                                  /\ credited' = credited - unlocked
        /\ day < plan.sellable => /\ free' = free + fresh + unlocked
                                  /\ credited' = credited - unlocked + bonus.amount
        /\ day = plan.sellable \/ day < plan.sellable
    BY <1>1, <1>2, <1>6, <1>7, <1>8, <1>10
  <2>5. free' \in Nat /\ credited' \in Nat /\ free' + credited' = free + fresh + credited + bonus.amount
    BY <1>1, <1>6, <2>4
  <2>6. fresh' = 0 /\ Held' = Held + bonus.amount /\ Held \in Nat
    BY <1>1, <1>7, <1>9, <2>5
  <2>7. Position' = Held + bonus.amount
    BY <1>1, <1>9, <2>2, <2>6
  <2>8. CASE bonus.state = "captured"
    <3>1. Position = Held
      BY <1>9, <2>6, <2>8
    <3>2. Position' = Position + Held
      BY <1>5, <2>6, <2>7, <2>8, <3>1
    <3> QED
      BY <1>7, <2>2, <2>5, <2>6, <2>8, <3>1, <3>2
  <2>9. CASE bonus.state = "accrued"
    BY <1>1, <1>9, <2>2, <2>5, <2>6, <2>7, <2>9
  <2> QED
    BY <2>3, <2>8, <2>9
<1>11. CASE ~CreditToday
  <2>1. free' \in Nat /\ fresh' \in Nat /\ credited' \in Nat /\ Held' = Held /\ bonus' = b
    BY <1>1, <1>6, <1>7, <1>9, <1>11
  <2>2. Held \in Nat
    BY <1>1, <1>9
  <2>3. CASE bonus.state = "captured"
    <3>1. Position = Held /\ b.state = "accrued" /\ b.amount = Held
      BY <1>4, <1>5, <1>9, <2>2, <2>3
    <3>2. Position' = Position + Held
      BY <1>9, <2>1, <2>2, <3>1
    <3> QED
      BY <1>4, <2>1, <2>2, <2>3, <3>1, <3>2
  <2>4. CASE bonus.state # "captured"
    <3>1. b.state = bonus.state /\ b.amount = bonus.amount
      BY <1>4, <2>4
    <3>2. bonus'.state = bonus.state /\ bonus'.amount = bonus.amount
      BY <2>1, <3>1
    <3>3. CASE bonus.state = "accrued"
      <4>1. Position = Held + bonus.amount /\ Position' = Held' + bonus.amount
        BY <1>9, <3>2, <3>3
      <4> QED
        BY <1>1, <1>4, <2>1, <2>2, <2>4, <3>1, <4>1
    <3>4. CASE bonus.state # "accrued"
      <4>1. Position = Held + 0 /\ Position' = Held' + 0
        BY <1>9, <3>2, <3>4
      <4> QED
        BY <1>4, <2>1, <2>2, <2>4, <3>1, <4>1
    <3> QED
      BY <3>3, <3>4
  <2> QED
    BY <2>3, <2>4
<1> QED
  BY <1>10, <1>11

LEMMA PreOpenStep == Steady /\ PreOpen => Steady'
<1> SUFFICES ASSUME Steady, PreOpen PROVE Steady'
  OBVIOUS
<1>0. /\ TypeInv /\ TypeOK /\ phase = "preopen" /\ phase' = "decide"
      /\ UNCHANGED <<strategy, plan, day, pending, queued, cash, pnl, target, holdAnchor,
                     riskAnchor, crowded, activated>>
      /\ due' = (~Combined /\ holdAnchor # 0 /\ target = day)
      /\ dividend' = Accrued(dividend, plan.cashRecord)
  BY DEF Steady, TypeInv, PreOpen, setup, anchors, history
<1>1. day \in 1..(Last + 1) /\ day <= Last /\ dividend \in Entitlements
  BY <1>0 DEF TypeInv, TypeOK, Clock, Session
<1>2. /\ bonus' \in Entitlements /\ bonus'.state # "captured"
      /\ bonus'.state # "none" => bonus.state # "none"
      /\ free' \in Nat /\ fresh' \in Nat /\ credited' \in Nat
      /\ Position \in Nat /\ Held \in Nat
      /\ Position' = Position + (IF bonus.state = "captured" THEN Held ELSE 0)
  BY SharesBeforeOpen
<1>3. Timely(dividend, plan.cashRecord) /\ Timely(bonus, plan.bonusRecord)
  BY DEF Steady, Claims
<1>4. /\ dividend' \in Entitlements /\ dividend'.amount = dividend.amount
      /\ dividend'.state = (IF dividend.state = "captured" THEN "accrued" ELSE dividend.state)
      /\ dividend.state # "captured" => dividend' = dividend
  BY <1>0, <1>1, <1>3, PlanFacts, AccruedFields
<1>5. Position' \in Nat /\ (Position' > 0) = (Position > 0)
  <2>1. Position >= Held
    BY <1>0 DEF TypeOK, Position, Held, Promised, Entitlements
  <2>2. CASE bonus.state = "captured"
    <3>1. Position' = Position + Held
      BY <1>2, <2>2
    <3> QED
      BY <1>2, <2>1, <3>1
  <2>3. CASE bonus.state # "captured"
    <3>1. Position' = Position + 0
      BY <1>2, <2>3
    <3> QED
      BY <1>2, <3>1
  <2> QED
    BY <2>2, <2>3
<1> DEFINE net == IF trip.entry # 0 /\ dividend' # dividend
                  THEN trip.net + dividend.amount ELSE trip.net
<1>6. trip' = [entry |-> trip.entry, net |-> net]
  BY DEF PreOpen, Trip
<1>7. trip \in [entry : 0..Last, net : Int] /\ net \in Int
  BY <1>0, <1>1 DEF TypeOK, Entitlements
<1>8. TypeOK'
  <2>1. \A new \in NewFacts : new \subseteq Facts
    <3>1. \A avail \in day..(day + MaxDelay) : Fact(day, avail) \in Facts
      BY <1>1, SessionsAssumption DEF Fact, Facts
    <3> QED
      BY <3>1 DEF NewFacts
  <2>2. entries' \subseteq Facts /\ exits' \subseteq Facts
    BY <1>0, <2>1 DEF PreOpen, TypeOK
  <2>3. trading' \in BOOLEAN
    BY DEF PreOpen
  <2>4. due' \in BOOLEAN
    BY <1>0
  <2>5. trip' \in [entry : 0..Last, net : Int]
    BY <1>6, <1>7
  <2> QED
    BY <1>0, <1>2, <1>4, <2>2, <2>3, <2>4, <2>5 DEF TypeOK
<1>9. Clock' /\ Sides(pending)' /\ BuyClock' /\ ExitBeatsEntry' /\ RiskInForce'
  <2>1. Clock'
    BY <1>0 DEF TypeInv, Clock, Morning, Session, Over
  <2>2. Sides(pending')
    BY <1>0 DEF TypeInv
  <2>3. BuyClock'
    BY <1>0 DEF Steady, BuyClock, Morning
  <2>4. RiskInForce'
    BY <1>0 DEF Steady, RiskInForce
  <2> QED
    BY <1>0, <2>1, <2>2, <2>3, <2>4 DEF ExitBeatsEntry
<1>10. Claims'
  BY <1>0, <1>1, <1>2, <1>3, <1>4 DEF Claims, Timely
<1>11. Books'
  <2>1. cash + Receivable = InitialCash + pnl + trip.net /\ (trip.entry = 0 => trip.net = 0)
    BY DEF Steady, Books
  <2>2. cash \in Int /\ pnl \in Int /\ InitialCash \in Nat /\ dividend.amount \in Nat
    BY <1>0, <1>1, PricesAssumption DEF TypeOK, Entitlements
  <2>3. CASE dividend.state = "captured"
    <3>1. /\ Receivable = 0 /\ Receivable' = dividend.amount /\ dividend' # dividend
      BY <1>4, <2>3 DEF Receivable
    <3>2. dividend.amount = Held
      BY <1>3, <2>3 DEF Timely
    <3>3. CASE trip.entry = 0
      <4>1. Held = 0
        <5>1. Position = 0
          BY <1>2, <3>3 DEF Steady, AnchorsFollowPosition
        <5> QED
          BY <1>0, <5>1 DEF TypeOK, Position, Held, Promised, Entitlements
      <4>2. net = 0
        BY <2>1, <3>3
      <4> QED
        BY <1>0, <1>6, <2>1, <2>2, <3>1, <3>2, <3>3, <4>1, <4>2 DEF Books
    <3>4. CASE trip.entry # 0
      <4>1. net = trip.net + dividend.amount
        BY <3>1, <3>4
      <4> QED
        BY <1>0, <1>6, <1>7, <2>1, <2>2, <3>1, <3>4, <4>1 DEF Books
    <3> QED
      BY <3>3, <3>4
  <2>4. CASE dividend.state # "captured"
    <3>1. dividend' = dividend /\ net = trip.net
      BY <1>4, <2>4
    <3>2. Receivable' = Receivable
      BY <3>1 DEF Receivable
    <3> QED
      BY <1>0, <1>6, <2>1, <3>1, <3>2 DEF Books
  <2> QED
    BY <2>3, <2>4
<1>12. AnchorsFollowPosition' /\ Targets' /\ CashSuffices'
  <2>1. trip'.entry = trip.entry
    BY <1>6
  <2>2. Position' > 0 <=> Position > 0
    BY <1>5
  <2>3. AnchorsFollowPosition'
    BY <1>0, <2>1, <2>2 DEF Steady, AnchorsFollowPosition
  <2> QED
    BY <1>0, <2>3 DEF Steady, Targets, CashSuffices
<1>13. HoldingInForce'
  <2>1. Combined' = Combined
    BY <1>0 DEF Combined
  <2>2. target # 0 => holdAnchor # 0
    BY DEF Steady, Targets
  <2>3. due' => target = day
    BY <1>0
  <2>4. ~Combined /\ target # 0 /\ day = target => due'
    BY <1>0, <2>2
  <2>5. strategy.retry /\ ~Combined /\ ~crowded /\ target # 0 /\ day > target =>
           pending.side = "sell" /\ pending.kind = "holding"
    BY DEF Steady, HoldingInForce
  <2> QED
    BY <1>0, <2>1, <2>3, <2>4, <2>5 DEF HoldingInForce
<1> QED
  BY <1>8, <1>9, <1>10, <1>11, <1>12, <1>13 DEF Steady, TypeInv

LEMMA EveningStep == Steady /\ Evening => Steady'
<1> SUFFICES ASSUME Steady, Evening PROVE Steady'
  OBVIOUS
<1>0. /\ TypeInv /\ TypeOK /\ phase = "evening" /\ day' = day + 1 /\ due' = FALSE
      /\ UNCHANGED <<strategy, plan, trading, entries, exits, pending, free, fresh, credited,
                     trip, pnl, target, holdAnchor, riskAnchor, crowded>>
      /\ phase' = IF day < Last THEN "preopen" ELSE "finish"
  BY DEF Steady, TypeInv, Evening, setup, signals, shares, anchors
<1>1. /\ day \in 1..(Last + 1) /\ day <= Last /\ queued \in 0..Last
      /\ queued # 0 => queued < day
      /\ dividend \in Entitlements /\ bonus \in Entitlements
      /\ plan.cashRecord \in Nat /\ plan.bonusRecord \in Nat
  BY <1>0, PlanFacts DEF TypeInv, TypeOK, Clock, Session
<1>2. /\ Timely(dividend, plan.cashRecord) /\ Timely(bonus, plan.bonusRecord)
      /\ dividend.state # "captured" /\ bonus.state # "captured"
  BY <1>0 DEF Steady, Claims, Timely, Over
<1>3. /\ Held \in Nat /\ Held' = Held
      /\ queued' \in {queued, day} /\ (queued' # queued => Position > 0)
      /\ activated' \in {activated, TRUE} /\ (activated' # activated => queued' = day)
  <2>1. Held \in Nat /\ Held' = Held
    BY <1>0 DEF TypeOK, Held
  <2>2. \/ Confirmable /\ queued' = day /\ activated' = TRUE
        \/ queued' = queued /\ activated' = activated
    BY DEF Evening
  <2> QED
    BY <2>1, <2>2 DEF Confirmable
<1>4. /\ day = plan.cashRecord => /\ dividend' = [state |-> "captured", amount |-> Held]
                                  /\ dividend.state = "none" /\ ~PaysToday
      /\ day # plan.cashRecord /\ PaysToday =>
            dividend' = [state |-> "settled", amount |-> dividend.amount]
      /\ day # plan.cashRecord /\ ~PaysToday => dividend' = dividend
  <2>1. day = plan.cashRecord => dividend.state = "none"
    BY <1>1, <1>2 DEF Timely
  <2> QED
    BY <2>1 DEF Evening, Entitlement, PaysToday
<1>5. /\ day = plan.bonusRecord => /\ bonus' = [state |-> "captured", amount |-> Held]
                                   /\ bonus.state = "none"
      /\ day # plan.bonusRecord => bonus' = bonus
  BY <1>1, <1>2 DEF Timely, Evening, Entitlement
<1>6. dividend' \in Entitlements /\ bonus' \in Entitlements
  <2>1. dividend' \in Entitlements
    BY <1>1, <1>3, <1>4 DEF Entitlements
  <2> QED
    BY <1>1, <1>3, <1>5, <2>1 DEF Entitlements
<1>7. Claims'
  <2>1. Timely(dividend, plan.cashRecord)'
    BY <1>0, <1>1, <1>2, <1>3, <1>4 DEF Timely, PaysToday, Over
  <2>2. Timely(bonus, plan.bonusRecord)'
    BY <1>0, <1>1, <1>2, <1>3, <1>5 DEF Timely, Over
  <2> QED
    BY <2>1, <2>2 DEF Claims
<1>8. Position' = Position
  BY <1>3, <1>5 DEF Position, Promised
<1>9. /\ cash \in Int /\ dividend.amount \in Nat /\ pnl \in Int /\ trip.net \in Int
      /\ InitialCash \in Int
  BY <1>0, <1>1, PricesAssumption DEF TypeOK, Entitlements
<1>10. /\ cash' + Receivable' = cash + Receivable /\ cash' >= cash /\ cash' \in Int
  <2>1. CASE PaysToday
    <3>1. cash' = cash + dividend.amount /\ Receivable = dividend.amount /\ Receivable' = 0
      BY <1>4, <2>1 DEF Evening, PaysToday, Receivable
    <3> QED
      BY <1>9, <3>1
  <2>2. CASE ~PaysToday
    <3>1. cash' = cash + 0
      BY <2>2 DEF Evening
    <3>2. Receivable' = Receivable
      BY <1>4, <2>2 DEF Receivable
    <3> QED
      BY <1>9, <3>1, <3>2
  <2> QED
    BY <2>1, <2>2
<1>11. TypeOK'
  <2>0. activated' \in BOOLEAN /\ due' \in BOOLEAN
    BY <1>0, <1>3 DEF TypeOK
  <2>1. queued' \in 0..Last
    BY <1>1, <1>3, SessionsAssumption
  <2>2. day' \in 1..(Last + 1)
    BY <1>0, <1>1, SessionsAssumption
  <2>3. phase' \in {"preopen", "decide", "attempt", "evening", "finish", "done"}
    BY <1>0
  <2> QED
    BY <1>0, <1>6, <1>10, <2>0, <2>1, <2>2, <2>3 DEF TypeOK
<1>12. Clock' /\ Sides(pending)' /\ BuyClock' /\ ExitBeatsEntry'
  <2>1. pending.attempts <= day /\ pending.attempts \in 0..Last
    BY <1>0 DEF TypeInv, TypeOK, Clock, Decisions
  <2>2. Last \in Nat /\ (day < Last \/ day = Last)
    BY <1>1, SessionsAssumption
  <2>3. Clock'
    BY <1>0, <1>1, <1>3, <2>1, <2>2 DEF Clock, Morning, Session, Over
  <2>4. BuyClock'
    <3>1. pending.side = "buy" => /\ pending.attempts = day + 1 - pending.opened
                                  /\ day + 1 < pending.opened + strategy.validity
      BY <1>0 DEF Steady, BuyClock
    <3>2. phase' # "evening" /\ pending' = pending /\ strategy' = strategy
      BY <1>0
    <3>3. day' = day + 1
      BY <1>0
    <3>4. pending'.side = "buy" => /\ pending'.attempts = day' - pending'.opened
                                   /\ day' < pending'.opened + strategy'.validity
      <4>1. /\ day \in Int /\ day' \in Int /\ pending.opened \in Int
            /\ pending.attempts \in Int /\ strategy.validity \in Int
        BY <1>0, <1>1, <3>3, PlanFacts DEF TypeOK, Decisions
      <4>2. pending.side = "buy" => /\ pending.attempts = day' - pending.opened
                                    /\ day' < pending.opened + strategy.validity
        BY <3>1, <3>3, <4>1
      <4> QED
        BY <3>2, <4>2
    <3> QED
      BY <3>2, <3>4 DEF BuyClock
  <2> QED
    BY <1>0, <2>3, <2>4 DEF TypeInv, ExitBeatsEntry
<1>13. Books' /\ CashSuffices'
  BY <1>0, <1>9, <1>10 DEF Steady, Books, CashSuffices
<1>14. AnchorsFollowPosition' /\ Targets'
  BY <1>0, <1>3, <1>8 DEF Steady, AnchorsFollowPosition, Targets
<1>15. RiskInForce'
  <2>1. day # 0
    BY <1>1
  <2> QED
    BY <1>0, <1>3, <2>1 DEF Steady, RiskInForce, TypeOK
<1>16. HoldingInForce'
  <2>1. Combined' = Combined /\ phase' # "decide" /\ phase' \notin {"attempt", "evening"}
    BY <1>0 DEF Combined
  <2>2. target \in 0..Last
    BY <1>0 DEF TypeOK
  <2>3. day' > target => day > target \/ day = target
    BY <1>0, <1>1, <2>2
  <2> QED
    BY <1>0, <2>1, <2>2, <2>3 DEF Steady, HoldingInForce
<1> QED
  BY <1>0, <1>7, <1>11, <1>12, <1>13, <1>14, <1>15, <1>16 DEF Steady, TypeInv

LEMMA FinishStep == Steady /\ Finish => Steady'
<1> SUFFICES ASSUME Steady, Finish PROVE Steady'
  OBVIOUS
<1>0. /\ TypeInv /\ TypeOK /\ phase = "finish" /\ phase' = "done" /\ strategy' = strategy
      /\ UNCHANGED <<setup, day, trading, due, queued, account, crowded, activated, target>>
  BY DEF Steady, TypeInv, Finish, setup, history, account, anchors
<1>1. due = FALSE /\ day = Last + 1
  BY <1>0 DEF TypeInv, TypeOK, Clock, Session, Over
<1>2. \A x \in MarketExit \cup RiskExit : Made(x) /\ x.side = "sell"
  BY <1>0, <1>1, ExitsMade DEF TypeInv, Clock
<1>3. /\ pending # NoDecision => pending' = pending
      /\ pending' = pending \/ pending' = NoDecision \/ Made(pending')
  <2>1. CASE pending # NoDecision
    BY <2>1 DEF Finish
  <2>2. CASE pending = NoDecision
    <3>1. pending' \in Opened(Available(entries, day), MarketExit \cup RiskExit)
      BY <2>2 DEF Finish
    <3> QED
      BY <1>0, <1>2, <2>2, <3>1, OpenedMade
  <2> QED
    BY <2>1, <2>2
<1>4. pending' \in Decisions /\ Sides(pending')
  BY <1>0, <1>3, NothingFields DEF TypeInv, TypeOK, Made
<1>5. entries' \subseteq Facts /\ exits' \subseteq Facts
  BY <1>0 DEF Finish, signals, TypeOK
<1>6. TypeOK'
  BY <1>0, <1>4, <1>5, AccountTyped DEF TypeOK
<1>7. Clock' /\ BuyClock' /\ ExitBeatsEntry'
  BY <1>0, <1>1 DEF TypeInv, Clock, Morning, Session, Over, BuyClock, ExitBeatsEntry
<1>8. Claims' /\ Books' /\ AnchorsFollowPosition' /\ Targets' /\ CashSuffices'
  BY <1>0, AccountKept DEF Over
<1>9. RiskInForce'
  BY <1>0, <1>3, NothingFields DEF Steady, RiskInForce
<1>10. HoldingInForce'
  <2>1. Combined' = Combined
    BY <1>0 DEF Combined
  <2> QED
    BY <1>0, <1>3, <2>1, NothingFields DEF Steady, HoldingInForce
<1> QED
  BY <1>4, <1>6, <1>7, <1>8, <1>9, <1>10 DEF Steady, TypeInv

LEMMA SteadyInit == Init => Steady
<1> SUFFICES ASSUME Init PROVE Steady
  OBVIOUS
<1>1. /\ dividend = [state |-> "none", amount |-> 0] /\ bonus = [state |-> "none", amount |-> 0]
      /\ trip = [entry |-> 0, net |-> 0]
  BY DEF Init, Entitlement, Trip
<1>2. 0 \in 0..Last /\ 1 <= Last /\ InitialCash \in Nat
  BY SessionsAssumption, PricesAssumption
<1>3. TypeOK
  <2>1. dividend \in Entitlements /\ bonus \in Entitlements /\ trip \in [entry : 0..Last, net : Int]
    BY <1>1, <1>2 DEF Entitlements
  <2>2. day \in 1..(Last + 1) /\ pending \in Decisions
    BY <1>2, NothingFields, SessionsAssumption DEF Init
  <2>3. /\ queued \in 0..Last /\ target \in 0..Last /\ holdAnchor \in 0..Last
        /\ riskAnchor \in 0..Last /\ cash \in Int /\ pnl \in Int
        /\ free \in Nat /\ fresh \in Nat /\ credited \in Nat
    BY <1>2 DEF Init
  <2>4. /\ trading \in BOOLEAN /\ due \in BOOLEAN /\ crowded \in BOOLEAN
        /\ activated \in BOOLEAN
    BY DEF Init
  <2>5. /\ strategy \in Strategies /\ plan \in Plans
        /\ entries \subseteq Facts /\ exits \subseteq Facts
        /\ phase \in {"preopen", "decide", "attempt", "evening", "finish", "done"}
    BY DEF Init
  <2> QED
    BY <2>1, <2>2, <2>3, <2>4, <2>5 DEF TypeOK
<1>4. Position = 0 /\ Receivable = 0 /\ Held = 0
  BY <1>1 DEF Init, Position, Held, Promised, Receivable
<1>5. pending = NoDecision /\ phase = "preopen" /\ day = 1 /\ due = FALSE /\ queued = 0
      /\ target = 0 /\ activated = FALSE
  BY DEF Init
<1>6. Sides(pending) /\ Clock /\ BuyClock /\ ExitBeatsEntry /\ Targets
  BY <1>2, <1>5, NothingFields
     DEF Clock, Morning, Session, Over, BuyClock, ExitBeatsEntry, Targets
<1>7. Claims
  BY <1>1 DEF Claims, Timely
<1>8. Books /\ CashSuffices
  BY <1>1, <1>2, <1>4 DEF Init, Books, CashSuffices
<1>9. AnchorsFollowPosition
  BY <1>1, <1>4 DEF Init, AnchorsFollowPosition
<1>10. RiskInForce /\ HoldingInForce
  BY <1>5 DEF RiskInForce, HoldingInForce
<1> QED
  BY <1>3, <1>6, <1>7, <1>8, <1>9, <1>10 DEF Steady, TypeInv

-----------------------------------------------------------------------------
(* The theorems. *)

LEMMA SteadyStep == Steady /\ [Next]_vars => Steady'
<1> SUFFICES ASSUME Steady, [Next]_vars PROVE Steady'
  OBVIOUS
<1>1. CASE Next
  <2>1. CASE PreOpen
    BY <2>1, PreOpenStep
  <2>2. CASE Decide
    BY <2>2, DecideStep
  <2>3. CASE Attempt
    BY <2>3, QuietAttempts, BuyFilledStep, SellFilledStep DEF Attempt
  <2>4. CASE Evening
    BY <2>4, EveningStep
  <2>5. CASE Finish
    BY <2>5, FinishStep
  <2> QED
    BY <1>1, <2>1, <2>2, <2>3, <2>4, <2>5 DEF Next
<1>2. CASE UNCHANGED vars
  <2>1. /\ UNCHANGED <<strategy, plan, day, phase, trading, entries, exits, pending, due, queued>>
        /\ UNCHANGED <<cash, free, fresh, credited, dividend, bonus, trip, pnl, target, holdAnchor,
                       riskAnchor, crowded, activated>>
    BY <1>2 DEF vars, setup, signals, account, shares, claims, anchors, history
  <2>2. /\ Held' = Held /\ Position' = Position /\ Receivable' = Receivable
        /\ Combined' = Combined
    BY <2>1 DEF Held, Position, Promised, Receivable, Combined
  <2>3. TypeInv'
    BY <2>1 DEF Steady, TypeInv, TypeOK, Sides, Clock
  <2>4. Claims' /\ Books' /\ Targets' /\ CashSuffices'
    BY <2>1, <2>2 DEF Steady, Claims, Timely, Books, Targets, CashSuffices
  <2>5. AnchorsFollowPosition' /\ BuyClock' /\ ExitBeatsEntry'
    BY <2>1, <2>2 DEF Steady, AnchorsFollowPosition, BuyClock, ExitBeatsEntry
  <2>6. RiskInForce' /\ HoldingInForce'
    BY <2>1, <2>2 DEF Steady, RiskInForce, HoldingInForce
  <2> QED
    BY <2>3, <2>4, <2>5, <2>6 DEF Steady
<1> QED
  BY <1>1, <1>2

LEMMA AlwaysSteady == Spec => []Steady
BY SteadyInit, SteadyStep, PTL DEF Spec

(* Every variable of the replay keeps its type; the holding target lies in  *)
(* the period (run_daily_backtest).                                         *)
THEOREM EngineTyped == Spec => []TypeOK
<1>1. Steady => TypeOK
  BY DEF Steady, TypeInv
<1> QED
  BY <1>1, AlwaysSteady, PTL

(* A BUY sized before the open never overdraws the account, at any prices,  *)
(* fees and limit (size_pre_open_buy).                                      *)
THEOREM BuysAreAffordable == Spec => []CashSuffices
<1>1. Steady => CashSuffices
  BY DEF Steady
<1> QED
  BY <1>1, AlwaysSteady, PTL

(* The closed round trips account for every change of an account that holds *)
(* nothing (the trip bookkeeping of run_daily_backtest).                    *)
THEOREM TripsAccountForAll == Spec => []RoundTripsAddUp
<1>1. Steady => RoundTripsAddUp
  <2> SUFFICES ASSUME Steady, Position = 0 PROVE cash + Receivable = InitialCash + pnl
    BY DEF RoundTripsAddUp
  <2>1. trip.entry = 0
    BY DEF Steady, AnchorsFollowPosition
  <2>2. trip.net = 0 /\ cash + Receivable = InitialCash + pnl + trip.net
    BY <2>1 DEF Steady, Books
  <2>3. InitialCash + pnl \in Int
    BY PricesAssumption DEF Steady, TypeInv, TypeOK
  <2> QED
    BY <2>2, <2>3
<1> QED
  BY <1>1, AlwaysSteady, PTL

(* Trip, anchors and a queued risk exit exist exactly with the position     *)
(* (the resets on the fill that empties it).                                *)
THEOREM AnchorsBelong == Spec => []AnchorsFollowPosition
<1>1. Steady => AnchorsFollowPosition
  BY DEF Steady
<1> QED
  BY <1>1, AlwaysSteady, PTL

(* No BUY is attempted over an account exit in force (_first_available_exit *)
(* and the replacement of a pending BUY).                                   *)
THEOREM ExitsComeFirst == Spec => []ExitBeatsEntry
<1>1. Steady => ExitBeatsEntry
  BY DEF Steady
<1> QED
  BY <1>1, AlwaysSteady, PTL

(* A BUY is attempted once in each session of its validity, and in no other *)
(* (should_retry_entry).                                                    *)
THEOREM EntriesExpire == Spec => []ValidityHolds
<1>1. Steady => ValidityHolds
  BY DEF Steady, BuyClock, Morning, ValidityHolds
<1> QED
  BY <1>1, AlwaysSteady, PTL

(* A confirmed risk exit is pursued until the position is gone or its       *)
(* attempts are used up (queued_risk_exit, should_retry_exit).              *)
THEOREM RiskExitsArePursued == Spec => []RiskExitPursued
<1>1. Steady => RiskExitPursued
  BY DEF Steady, RiskInForce, RiskExitPursued
<1> QED
  BY <1>1, AlwaysSteady, PTL

(* A holding exit that no other exit preceded is pursued until the position *)
(* is gone (holding_exit_fact, should_retry_exit).                          *)
THEOREM HoldingExitsArePursued == Spec => []HoldingExitPursued
<1>1. Steady => HoldingExitPursued
  BY DEF Steady, HoldingInForce, HoldingExitPursued
<1> QED
  BY <1>1, AlwaysSteady, PTL

-----------------------------------------------------------------------------
(* The account.  Each step of the replay is one of AccountContract's, or    *)
(* leaves the account as it is; an entitlement counts as owed from its      *)
(* capture on, so that the accrual of an ex session is no step of it.       *)

(* The contract's sum is the one of the lemmas. *)
LEMMA AccountSum ==
    ASSUME NEW f
    PROVE  Account!SumFunction(f) = SumFunctionOnSet(f, DOMAIN f)
BY DEF SumFunctionOnSet, FoldFunctionOnSet, MapThenFoldSet, Account!SumFunction,
       Account!SumFunctionOnSet, Account!FoldFunctionOnSet, Account!MapThenFoldSet

AccountCalendar == {CashAction, BonusAction}

(* What the two actions are, and their claims before and after a step. *)
LEMMA ActionsAre ==
    /\ CashAction.kind = "dividend" /\ CashAction.record = plan.cashRecord
    /\ CashAction.settle = plan.cashPay /\ CashAction.perShare = 1
    /\ BonusAction.kind = "distribution" /\ BonusAction.record = plan.bonusRecord
    /\ BonusAction.settle = plan.credit /\ BonusAction.sellable = plan.sellable
    /\ BonusAction.num = 2 /\ BonusAction.den = 1
    /\ CashAction # BonusAction
BY DEF CashAction, BonusAction, PlanAction

LEMMA ClaimsOfAccount ==
    /\ AccountClaims[CashAction] =
          [state |-> ClaimState(dividend.state), cash |-> dividend.amount, shares |-> 0]
    /\ AccountClaims[BonusAction] =
          [state |-> ClaimState(bonus.state), cash |-> 0, shares |-> bonus.amount]
    /\ AccountClaims = [a \in AccountCalendar |-> AccountClaims[a]]
BY ActionsAre DEF AccountClaims, AccountCalendar

LEMMA ClaimsOfAccountNext ==
    ASSUME plan' = plan
    PROVE  /\ CashAction' = CashAction /\ BonusAction' = BonusAction
           /\ AccountClaims'[CashAction] =
                 [state |-> ClaimState(dividend'.state), cash |-> dividend'.amount, shares |-> 0]
           /\ AccountClaims'[BonusAction] =
                 [state |-> ClaimState(bonus'.state), cash |-> 0, shares |-> bonus'.amount]
           /\ AccountClaims' = [a \in AccountCalendar |-> AccountClaims'[a]]
<1>1. CashAction' = CashAction /\ BonusAction' = BonusAction
  BY DEF CashAction, BonusAction, PlanAction
<1> QED
  BY <1>1, ActionsAre DEF AccountClaims, AccountCalendar, ClaimState

LEMMA SellableIs ==
    ASSUME NEW d \in AccountDates
    PROVE  /\ SellableBy[d] = free + (IF AccountPhase = "before" \/ d > day THEN fresh ELSE 0)
                              + (IF d >= plan.sellable THEN credited ELSE 0)
           /\ SellableBy'[d] = free' + (IF AccountPhase' = "before" \/ d > day' THEN fresh' ELSE 0)
                               + (IF d >= plan'.sellable THEN credited' ELSE 0)
BY DEF SellableBy, AccountDates

LEMMA TodayIsDate ==
    ASSUME NEW d \in Account!FromToday
    PROVE  d \in AccountDates /\ d \in Nat /\ d >= day
BY SessionsAssumption DEF Account!FromToday, AccountDates

(* The claims of no action, and of the bonus, come to this. *)
LEMMA ClaimedShares ==
    ASSUME TypeOK
    PROVE  /\ Account!SharesOf({}) = 0
           /\ Account!SharesOf({BonusAction}) = bonus.amount
<1>1. bonus.amount \in Nat
  BY DEF TypeOK, Entitlements
<1>2. AccountClaims[BonusAction].shares = bonus.amount
  BY ClaimsOfAccount
<1>3. ASSUME NEW S PROVE Account!SharesOf(S) = SumFunctionOnSet([a \in S |-> AccountClaims[a].shares], S)
  BY AccountSum DEF Account!SharesOf
<1>4. Account!SharesOf({}) = 0
  BY <1>3, SumEmpty
<1>5. Account!SharesOf({BonusAction}) = bonus.amount
  <2> DEFINE f == [a \in {BonusAction} |-> AccountClaims[a].shares]
  <2>1. f[BonusAction] = bonus.amount
    BY <1>2
  <2>2. Account!SharesOf({BonusAction}) = SumFunctionOnSet(f, {BonusAction})
    BY <1>3
  <2>3. f[BonusAction] \in Int
    BY <1>1, <2>1
  <2> HIDE DEF f
  <2>4. SumFunctionOnSet(f, {BonusAction}) = f[BonusAction]
    BY <2>3, SumOne
  <2> QED
    BY <2>1, <2>2, <2>4
<1> QED
  BY <1>4, <1>5

(* Before the open the bonus is due when it is credited. *)
LEMMA CreditingIs ==
    ASSUME Steady, PreOpen
    PROVE  Account!Crediting = IF CreditToday THEN {BonusAction} ELSE {}
<1>1. TypeOK /\ bonus \in Entitlements /\ Timely(bonus, plan.bonusRecord)
  BY DEF Steady, TypeInv, TypeOK, Claims
<1>2. /\ Accrued(bonus, plan.bonusRecord).state
            = (IF bonus.state = "captured" THEN "accrued" ELSE bonus.state)
  BY <1>1, PlanFacts, AccruedFields
<1>3. CreditToday <=> ClaimState(bonus.state) = "owed" /\ plan.credit = day
  BY <1>1, <1>2 DEF CreditToday, ClaimState, Entitlements
<1>4. Account!Due(BonusAction) <=> ClaimState(bonus.state) = "owed" /\ plan.credit = day
  BY ActionsAre, ClaimsOfAccount DEF Account!Due
<1>5. Account!GivesShares(BonusAction) /\ ~Account!GivesShares(CashAction)
  BY ActionsAre DEF Account!GivesShares
<1> QED
  BY <1>3, <1>4, <1>5 DEF Account!Crediting

LEMMA PreOpenOpens == Steady /\ PreOpen => Account!Open
<1> SUFFICES ASSUME Steady, PreOpen PROVE Account!Open
  OBVIOUS
<1>1. /\ TypeOK /\ free \in Nat /\ fresh \in Nat /\ credited \in Nat
      /\ bonus \in Entitlements /\ bonus.amount \in Nat /\ day \in Nat
      /\ dividend \in Entitlements /\ plan.credit \in Nat /\ plan.sellable \in Nat
      /\ plan.credit <= plan.sellable
  BY PlanFacts DEF Steady, TypeInv, TypeOK, Entitlements
<1>2. /\ phase = "preopen" /\ phase' = "decide" /\ plan' = plan /\ day' = day /\ cash' = cash
      /\ dividend' = Accrued(dividend, plan.cashRecord) /\ fresh' = 0
  BY DEF PreOpen, setup
<1>3. AccountPhase = "before" /\ AccountPhase' = "open"
  BY <1>2 DEF AccountPhase
<1>4. /\ bonus' = IF CreditToday THEN [state |-> "settled", amount |-> bonus.amount]
                  ELSE Accrued(bonus, plan.bonusRecord)
      /\ free' = free + fresh + Unlocked
                 + (IF CreditToday /\ day = plan.sellable THEN bonus.amount ELSE 0)
      /\ credited' = credited - Unlocked
                     + (IF CreditToday /\ day < plan.sellable THEN bonus.amount ELSE 0)
  BY DEF PreOpen, Entitlement
<1>5. /\ Unlocked \in Nat /\ credited - Unlocked \in Nat
      /\ day = plan.sellable => Unlocked = credited
      /\ day # plan.sellable => Unlocked = 0
      /\ CreditToday => day = plan.sellable \/ day < plan.sellable
  BY <1>1 DEF Unlocked, CreditToday
<1> DEFINE given == IF CreditToday THEN bonus.amount ELSE 0
<1>6. Account!SharesOf(Account!Crediting) = given
  BY <1>1, CreditingIs, ClaimedShares
<1>7. Held' = Held + Account!SharesOf(Account!Crediting)
  <2>1. free' + credited' = free + fresh + credited + given
    <3>1. CASE CreditToday
      BY <1>1, <1>4, <1>5, <3>1
    <3>2. CASE ~CreditToday
      BY <1>1, <1>4, <1>5, <3>2
    <3> QED
      BY <3>1, <3>2
  <2>2. free' \in Int /\ credited' \in Int /\ given \in Int
    BY <1>1, <1>4, <1>5
  <2> QED
    BY <1>1, <1>2, <1>6, <2>1, <2>2 DEF Held
<1>8. ASSUME NEW d \in Account!FromToday PROVE Account!UnlocksFrom(d)
  <2>1. d \in AccountDates /\ d \in Nat /\ d >= day
    BY TodayIsDate
  <2>2. \A a \in Account!Crediting : a.kind = "distribution"
    BY CreditingIs, ActionsAre
  <2> DEFINE some == IF CreditToday /\ d >= plan.sellable THEN bonus.amount ELSE 0
  <2>3. {a \in Account!Crediting : a.sellable <= d}
           = IF CreditToday /\ d >= plan.sellable THEN {BonusAction} ELSE {}
    BY <1>1, <2>1, CreditingIs, ActionsAre
  <2>4. Account!SharesOf({a \in Account!Crediting : a.sellable <= d}) = some
    BY <1>1, <2>3, ClaimedShares
  <2>5. /\ SellableBy[d] = free + fresh + (IF d >= plan.sellable THEN credited ELSE 0)
        /\ SellableBy'[d] = free' + (IF d >= plan.sellable THEN credited' ELSE 0)
    <3>1. /\ SellableBy[d] = free + fresh + (IF d >= plan.sellable THEN credited ELSE 0)
          /\ SellableBy'[d] = free' + 0 + (IF d >= plan.sellable THEN credited' ELSE 0)
      BY <1>2, <1>3, <2>1, SellableIs
    <3>2. free' \in Int /\ credited' \in Int
      BY <1>1, <1>4, <1>5
    <3> QED
      BY <3>1, <3>2
  <2>6. SellableBy'[d] = SellableBy[d] + some
    <3>1. CASE d >= plan.sellable
      <4>1. SellableBy'[d] = free' + credited' /\ SellableBy[d] = free + fresh + credited
        BY <2>5, <3>1
      <4>2. CASE CreditToday
        BY <1>1, <1>4, <1>5, <3>1, <4>1, <4>2
      <4>3. CASE ~CreditToday
        BY <1>1, <1>4, <1>5, <3>1, <4>1, <4>3
      <4> QED
        BY <4>2, <4>3
    <3>2. CASE d < plan.sellable
      <4>1. Unlocked = 0 /\ day # plan.sellable
        BY <1>1, <1>5, <2>1, <3>2
      <4>2. free' = free + fresh
        BY <1>1, <1>4, <4>1
      <4> QED
        BY <1>1, <2>1, <2>5, <3>2, <4>2
    <3> QED
      BY <1>1, <2>1, <3>1, <3>2
  <2>7. SellableBy[d] \in Nat /\ some \in Nat
    BY <1>1, <2>5
  <2>8. SellableBy'[d] \in SellableBy[d]..(SellableBy[d] + some)
    BY <2>6, <2>7
  <2> QED
    BY <2>2, <2>4, <2>8 DEF Account!UnlocksFrom
<1>9. AccountClaims' = [a \in AccountCalendar |-> IF a \in Account!Crediting
                                                  THEN Account!SettledClaim(a) ELSE AccountClaims[a]]
  <2>1. AccountClaims'[CashAction] = AccountClaims[CashAction] /\ CashAction \notin Account!Crediting
    <3>1. /\ Accrued(dividend, plan.cashRecord).amount = dividend.amount
          /\ Accrued(dividend, plan.cashRecord).state
                = (IF dividend.state = "captured" THEN "accrued" ELSE dividend.state)
      BY <1>1, PlanFacts, AccruedFields DEF Steady, Claims
    <3> QED
      BY <1>2, <3>1, ClaimsOfAccount, ClaimsOfAccountNext, CreditingIs, ActionsAre DEF ClaimState
  <2>2. CASE CreditToday
    <3>1. /\ AccountClaims'[BonusAction] = [state |-> "settled", cash |-> 0, shares |-> bonus.amount]
          /\ BonusAction \in Account!Crediting
      BY <1>2, <1>4, <2>2, ClaimsOfAccountNext, CreditingIs DEF ClaimState
    <3>2. Account!SettledClaim(BonusAction) = [state |-> "settled", cash |-> 0, shares |-> bonus.amount]
      BY ClaimsOfAccount DEF Account!SettledClaim
    <3> QED
      BY <1>2, <2>1, <3>1, <3>2, ClaimsOfAccountNext DEF AccountCalendar
  <2>3. CASE ~CreditToday
    <3>1. /\ Accrued(bonus, plan.bonusRecord).amount = bonus.amount
          /\ Accrued(bonus, plan.bonusRecord).state
                = (IF bonus.state = "captured" THEN "accrued" ELSE bonus.state)
      BY <1>1, PlanFacts, AccruedFields DEF Steady, Claims
    <3>2. AccountClaims'[BonusAction] = AccountClaims[BonusAction]
      BY <1>2, <1>4, <2>3, <3>1, ClaimsOfAccount, ClaimsOfAccountNext DEF ClaimState
    <3>3. BonusAction \notin Account!Crediting
      BY <2>3, CreditingIs
    <3> QED
      BY <1>2, <2>1, <3>2, <3>3, ClaimsOfAccountNext DEF AccountCalendar
  <2> QED
    BY <2>2, <2>3
<1> QED
  BY <1>2, <1>3, <1>7, <1>8, <1>9, ClaimsOfAccountNext DEF Account!Open, AccountCalendar

LEMMA BuyFilledBuys == Steady /\ BuyFilled => Account!Buy
<1> SUFFICES ASSUME Steady, BuyFilled PROVE Account!Buy
  OBVIOUS
<1>1. /\ TypeOK /\ phase = "attempt" /\ phase' = "evening"
      /\ UNCHANGED <<plan, day, free, credited, dividend, bonus>>
  BY DEF Steady, TypeInv, BuyFilled, Attempting, setup, claims
<1>2. free \in Nat /\ fresh \in Nat /\ credited \in Nat /\ cash \in Int /\ day \in Nat
      /\ plan.sellable \in Nat
  BY <1>1, PlanFacts DEF TypeOK
<1>3. PICK quantity \in 1..BuyQuantity, price \in Prices :
          cash' = cash - (quantity * price + Fee) /\ fresh' = fresh + quantity
  BY DEF BuyFilled
<1>4. quantity * price \in Nat /\ quantity * price + Fee <= cash
  BY <1>1, Affordable DEF Steady
<1>5. quantity \in Nat /\ quantity > 0 /\ quantity * price > 0 /\ Fee \in Nat
  <2>1. quantity \in Nat /\ quantity > 0 /\ price \in Nat /\ price > 0 /\ Fee \in Nat
    BY PricesAssumption
  <2>2. 1 * price <= quantity * price
    BY <2>1, ProductGrows
  <2> QED
    BY <2>1, <2>2
<1>6. cash' \in Nat /\ cash' < cash
  BY <1>2, <1>3, <1>4, <1>5
<1>7. Held' - Held = quantity /\ Held' > Held
  BY <1>1, <1>2, <1>3, <1>5 DEF Held
<1>8. AccountPhase = "open" /\ AccountPhase' = "open"
  BY <1>1 DEF AccountPhase
<1>9. ASSUME NEW d \in Account!FromToday
      PROVE  SellableBy'[d] = SellableBy[d] + (IF d > day THEN Held' - Held ELSE 0)
  <2>1. d \in AccountDates /\ d \in Nat
    BY TodayIsDate
  <2>2. /\ SellableBy[d] = free + (IF d > day THEN fresh ELSE 0)
                           + (IF d >= plan.sellable THEN credited ELSE 0)
        /\ SellableBy'[d] = free + (IF d > day THEN fresh + quantity ELSE 0)
                            + (IF d >= plan.sellable THEN credited ELSE 0)
    BY <1>1, <1>3, <1>8, <2>1, SellableIs
  <2> QED
    BY <1>2, <1>5, <1>7, <2>1, <2>2
<1>10. AccountClaims' = AccountClaims /\ CashAction' = CashAction /\ BonusAction' = BonusAction
  BY <1>1, ClaimsOfAccount, ClaimsOfAccountNext DEF AccountCalendar
<1> QED
  BY <1>1, <1>6, <1>7, <1>8, <1>9, <1>10 DEF Account!Buy

LEMMA SellFilledSells == Steady /\ SellFilled => Account!Sell
<1> SUFFICES ASSUME Steady, SellFilled PROVE Account!Sell
  OBVIOUS
<1>1. /\ TypeOK /\ CashSuffices /\ phase = "attempt" /\ phase' = "evening"
      /\ UNCHANGED <<plan, day, fresh, credited, dividend, bonus>>
  BY DEF Steady, TypeInv, SellFilled, Attempting, setup, claims
<1>2. free \in Nat /\ fresh \in Nat /\ credited \in Nat /\ cash \in Nat /\ day \in Nat
      /\ plan.sellable \in Nat /\ day \in AccountDates
  BY <1>1, PlanFacts DEF TypeOK, CashSuffices, AccountDates
<1>3. PICK quantity \in 1..free, price \in Prices :
          cash' = cash + quantity * price - Fee /\ free' = free - quantity
  BY DEF SellFilled
<1>4. quantity * price \in Nat /\ quantity * price - Fee \in Nat /\ Fee \in Nat
  BY <1>2, <1>3, ProceedsPositive, PricesAssumption
<1>5. cash' \in Nat
  BY <1>2, <1>3, <1>4
<1>6. Held - Held' = quantity
  BY <1>1, <1>2, <1>3 DEF Held
<1>7. AccountPhase = "open" /\ AccountPhase' = "open"
  BY <1>1 DEF AccountPhase
<1>8. quantity \in 1..SellableBy[day]
  <2>1. SellableBy[day] = free + 0 + (IF day >= plan.sellable THEN credited ELSE 0)
    BY <1>2, <1>7, SellableIs
  <2> QED
    BY <1>2, <1>3, <2>1
<1>9. ASSUME NEW d \in Account!FromToday
      PROVE  SellableBy'[d] = SellableBy[d] - quantity
  <2>1. d \in AccountDates /\ d \in Nat
    BY TodayIsDate
  <2>2. /\ SellableBy[d] = free + (IF d > day THEN fresh ELSE 0)
                           + (IF d >= plan.sellable THEN credited ELSE 0)
        /\ SellableBy'[d] = free - quantity + (IF d > day THEN fresh ELSE 0)
                            + (IF d >= plan.sellable THEN credited ELSE 0)
    BY <1>1, <1>3, <1>7, <2>1, SellableIs
  <2> QED
    BY <1>2, <1>3, <2>1, <2>2
<1>10. AccountClaims' = AccountClaims /\ CashAction' = CashAction /\ BonusAction' = BonusAction
  BY <1>1, ClaimsOfAccount, ClaimsOfAccountNext DEF AccountCalendar
<1> QED
  BY <1>1, <1>5, <1>6, <1>7, <1>8, <1>9, <1>10 DEF Account!Sell

LEMMA EveningCloses == Steady /\ Evening => Account!Close
<1> SUFFICES ASSUME Steady, Evening PROVE Account!Close
  OBVIOUS
<1>1. /\ TypeOK /\ phase = "evening" /\ phase' \in {"preopen", "finish"} /\ day' = day + 1
      /\ UNCHANGED <<plan, free, fresh, credited>>
  BY DEF Steady, TypeInv, Evening, setup, shares
<1>2. /\ free \in Nat /\ fresh \in Nat /\ credited \in Nat /\ day \in Nat /\ cash \in Int
      /\ dividend.amount \in Nat /\ Held \in Nat /\ Held' = Held
      /\ dividend \in Entitlements /\ bonus \in Entitlements
  BY <1>1 DEF TypeOK, Entitlements, Held
<1>3. /\ dividend.state # "captured" /\ bonus.state # "captured"
      /\ dividend.state # "none" => day > plan.cashRecord
  BY <1>1 DEF Steady, Claims, Timely, Over
<1>4. AccountPhase = "open" /\ AccountPhase' = "before"
  BY <1>1 DEF AccountPhase
<1>5. Account!Paying = IF PaysToday THEN {CashAction} ELSE {}
  <2>1. Account!Due(CashAction) <=> PaysToday
    BY <1>2, <1>3, ActionsAre, ClaimsOfAccount DEF Account!Due, ClaimState, PaysToday, Entitlements
  <2> QED
    BY <2>1, ActionsAre DEF Account!Paying
<1>6. Account!SumFunction([a \in Account!Paying |-> AccountClaims[a].cash])
         = IF PaysToday THEN dividend.amount ELSE 0
  <2> DEFINE f == [a \in Account!Paying |-> AccountClaims[a].cash]
  <2>1. DOMAIN f = Account!Paying
    OBVIOUS
  <2>2. PaysToday => f[CashAction] = dividend.amount
    BY <1>5, ClaimsOfAccount
  <2> HIDE DEF f
  <2>3. Account!SumFunction(f) = SumFunctionOnSet(f, Account!Paying)
    BY <2>1, AccountSum
  <2>4. PaysToday => Account!SumFunction(f) = dividend.amount
    <3>1. PaysToday => SumFunctionOnSet(f, {CashAction}) = f[CashAction]
      BY <1>2, <2>2, SumOne
    <3> QED
      BY <1>5, <2>2, <2>3, <3>1
  <2>5. ~PaysToday => Account!SumFunction(f) = 0
    BY <1>5, <2>3, SumEmpty
  <2> QED
    BY <2>4, <2>5 DEF f
<1>7. cash' = cash + Account!SumFunction([a \in Account!Paying |-> AccountClaims[a].cash])
  BY <1>6 DEF Evening
<1>8. /\ Account!Recording(CashAction) <=> day = plan.cashRecord
      /\ Account!Recording(BonusAction) <=> day = plan.bonusRecord
  BY ActionsAre DEF Account!Recording
<1>9. IF Account!Recording(CashAction) THEN Account!Entitles(CashAction, AccountClaims'[CashAction])
      ELSE AccountClaims'[CashAction] = IF CashAction \in Account!Paying
                                        THEN Account!SettledClaim(CashAction)
                                        ELSE AccountClaims[CashAction]
  <2>1. CASE day = plan.cashRecord
    <3>1. AccountClaims'[CashAction] = [state |-> "owed", cash |-> Held, shares |-> 0]
      BY <1>1, <2>1, ClaimsOfAccountNext DEF Evening, Entitlement, ClaimState
    <3> QED
      BY <1>2, <1>8, <2>1, <3>1, ActionsAre DEF Account!Entitles, Account!GivesShares
  <2>2. CASE day # plan.cashRecord /\ PaysToday
    <3>1. AccountClaims'[CashAction] = [state |-> "settled", cash |-> dividend.amount, shares |-> 0]
      BY <1>1, <2>2, ClaimsOfAccountNext DEF Evening, Entitlement, ClaimState
    <3>2. AccountClaims'[CashAction] = Account!SettledClaim(CashAction)
      BY <3>1, ClaimsOfAccount DEF Account!SettledClaim
    <3> QED
      BY <1>5, <1>8, <2>2, <3>2
  <2>3. CASE day # plan.cashRecord /\ ~PaysToday
    <3>1. AccountClaims'[CashAction] = AccountClaims[CashAction]
      BY <1>1, <2>3, ClaimsOfAccount, ClaimsOfAccountNext DEF Evening
    <3> QED
      BY <1>5, <1>8, <2>3, <3>1
  <2> QED
    BY <2>1, <2>2, <2>3
<1>10. IF Account!Recording(BonusAction) THEN Account!Entitles(BonusAction, AccountClaims'[BonusAction])
       ELSE AccountClaims'[BonusAction] = IF BonusAction \in Account!Paying
                                          THEN Account!SettledClaim(BonusAction)
                                          ELSE AccountClaims[BonusAction]
  <2>1. CASE day = plan.bonusRecord
    <3>1. AccountClaims'[BonusAction] = [state |-> "owed", cash |-> 0, shares |-> Held]
      BY <1>1, <2>1, ClaimsOfAccountNext DEF Evening, Entitlement, ClaimState
    <3> QED
      BY <1>2, <1>8, <2>1, <3>1, ActionsAre DEF Account!Entitles, Account!GivesShares
  <2>2. CASE day # plan.bonusRecord
    <3>1. AccountClaims'[BonusAction] = AccountClaims[BonusAction]
      BY <1>1, <2>2, ClaimsOfAccount, ClaimsOfAccountNext DEF Evening
    <3>2. BonusAction \notin Account!Paying
      BY <1>5, ActionsAre
    <3> QED
      BY <1>8, <2>2, <3>1, <3>2
  <2> QED
    BY <2>1, <2>2
<1>11. ASSUME NEW d \in Account!FromToday \ {day} PROVE SellableBy'[d] = SellableBy[d]
  <2>1. d \in AccountDates /\ d \in Nat /\ d >= day
    BY TodayIsDate
  <2>2. d > day
    BY <1>2, <2>1
  <2> QED
    BY <1>1, <1>4, <2>1, <2>2, SellableIs
<1>12. /\ {CashAction, BonusAction}' = {CashAction, BonusAction}
       /\ DOMAIN AccountClaims' = {CashAction, BonusAction}
  BY <1>1, ClaimsOfAccountNext DEF AccountCalendar
<1> QED
  BY <1>1, <1>2, <1>4, <1>7, <1>9, <1>10, <1>11, <1>12 DEF Account!Close

(* The other steps leave the account as it is. *)
LEMMA AccountStays ==
    ASSUME UNCHANGED <<plan, day, cash, free, fresh, credited, dividend, bonus>>,
           AccountPhase' = AccountPhase
    PROVE  UNCHANGED Account!vars
<1>1. /\ Held' = Held /\ SellableBy' = SellableBy /\ AccountClaims' = AccountClaims
      /\ CashAction' = CashAction /\ BonusAction' = BonusAction
  BY DEF Held, SellableBy, AccountDates, AccountClaims, ClaimState, CashAction, BonusAction, PlanAction
<1> QED
  BY <1>1 DEF Account!vars

LEMMA QuietSteps ==
    ASSUME \/ Decide \/ Finish \/ NothingPending \/ Suspended \/ BuyRefused \/ BuyUnfilled
           \/ SellNothing \/ SellUnfilled \/ UNCHANGED vars
    PROVE  UNCHANGED Account!vars
<1>1. /\ UNCHANGED <<plan, day, cash, free, fresh, credited, dividend, bonus>>
      /\ \/ phase' = phase
         \/ phase \in {"decide", "attempt"} /\ phase' \in {"attempt", "evening"}
         \/ phase = "finish" /\ phase' = "done"
  <2>1. CASE Decide
    BY <2>1 DEF Decide, setup, account, shares, claims
  <2>2. CASE Finish
    BY <2>2 DEF Finish, setup, account, shares, claims
  <2>3. CASE NothingPending
    BY <2>3 DEF NothingPending, setup, account, shares, claims
  <2>4. CASE Suspended
    BY <2>4 DEF Suspended, setup, account, shares, claims
  <2>5. CASE BuyRefused
    BY <2>5 DEF BuyRefused, Attempting, setup, account, shares, claims
  <2>6. CASE BuyUnfilled
    BY <2>6 DEF BuyUnfilled, Attempting, setup, account, shares, claims
  <2>7. CASE SellNothing
    BY <2>7 DEF SellNothing, Attempting, setup, account, shares, claims
  <2>8. CASE SellUnfilled
    BY <2>8 DEF SellUnfilled, Attempting, setup, account, shares, claims
  <2>9. CASE UNCHANGED vars
    BY <2>9 DEF vars, setup, account, shares, claims
  <2> QED
    BY <2>1, <2>2, <2>3, <2>4, <2>5, <2>6, <2>7, <2>8, <2>9
<1>2. AccountPhase' = AccountPhase
  BY <1>1 DEF AccountPhase
<1> QED
  BY <1>1, <1>2, AccountStays

LEMMA AccountInit == Init => Account!Init
<1> SUFFICES ASSUME Init PROVE Account!Init
  OBVIOUS
<1>1. /\ dividend = [state |-> "none", amount |-> 0] /\ bonus = [state |-> "none", amount |-> 0]
      /\ day = 1 /\ phase = "preopen" /\ cash = InitialCash /\ free = 0 /\ fresh = 0 /\ credited = 0
  BY DEF Init, Entitlement
<1>2. AccountPhase = "before" /\ Held = 0 /\ cash \in Nat
  BY <1>1, PricesAssumption DEF AccountPhase, Held
<1>3. SellableBy = [d \in AccountDates |-> 0]
  BY <1>1, <1>2 DEF SellableBy
<1>4. AccountClaims = [a \in {CashAction, BonusAction} |-> Account!Unclaimed]
  <2>1. /\ AccountClaims[CashAction] = Account!Unclaimed
        /\ AccountClaims[BonusAction] = Account!Unclaimed
    BY <1>1, ClaimsOfAccount DEF Account!Unclaimed, ClaimState
  <2> QED
    BY <2>1, ClaimsOfAccount DEF AccountCalendar
<1> QED
  BY <1>1, <1>2, <1>3, <1>4 DEF Account!Init

(* The replay keeps the account it promises: three counts of shares and two *)
(* entitlements behave as the lots and claims of domain/portfolio do.       *)
THEOREM EngineKeepsAccount == Spec => ImplementsAccount
<1>1. Init => Account!Init
  BY AccountInit
<1>2. Steady /\ [Next]_vars => [Account!Next]_(Account!vars)
  <2> SUFFICES ASSUME Steady, [Next]_vars PROVE [Account!Next]_(Account!vars)
    OBVIOUS
  <2>1. CASE PreOpen
    BY <2>1, PreOpenOpens DEF Account!Next
  <2>2. CASE BuyFilled
    BY <2>2, BuyFilledBuys DEF Account!Next
  <2>3. CASE SellFilled
    BY <2>3, SellFilledSells DEF Account!Next
  <2>4. CASE Evening
    BY <2>4, EveningCloses DEF Account!Next
  <2>5. CASE \/ Decide \/ Finish \/ NothingPending \/ Suspended \/ BuyRefused \/ BuyUnfilled
             \/ SellNothing \/ SellUnfilled \/ UNCHANGED vars
    BY <2>5, QuietSteps
  <2> QED
    BY <2>1, <2>2, <2>3, <2>4, <2>5 DEF Next, Attempt
<1> QED
  BY <1>1, <1>2, AlwaysSteady, PTL DEF Spec, ImplementsAccount, Account!Spec
==============================================================================
