---------------------------- MODULE AccountContract ----------------------------
(***************************************************************************)
(* What an account in one security promises to whoever trades on it, with  *)
(* no lots, no journal and no decisions: what is held, from which date it  *)
(* can be sold, and what each corporate action owes.  A record close makes *)
(* a claim of what is held then; its shares come before the open, its      *)
(* money after the close, both on the settlement date of the action, once. *)
(* PortfolioTimeline is shown to implement this with the lots of           *)
(* domain/portfolio, and DailyEngine with its three counts of shares.      *)
(***************************************************************************)
EXTENDS Integers, FiniteSets, Functions

CONSTANT Dates     (* on which shares can be unlocked *)

VARIABLES
    calendar,      (* the corporate actions *)
    day, phase,    (* before the session of day, open; or failed *)
    cash, held,
    sellableBy,    (* sellableBy[d]: shares that can be sold on d, for d \in FromToday *)
    claims         (* claims[a]: [state, cash, shares] *)

vars == <<calendar, day, phase, cash, held, sellableBy, claims>>

FromToday == {d \in Dates : d >= day}

GivesShares(a) == a.kind \in {"distribution", "split", "reverse"}

Unclaimed == [state |-> "none", cash |-> 0, shares |-> 0]

Init ==
    /\ day = 1 /\ phase = "before"
    /\ cash \in Nat /\ held = 0
    /\ sellableBy = [d \in Dates |-> 0]
    /\ claims = [a \in calendar |-> Unclaimed]

Due(a) == claims[a].state = "owed" /\ a.settle = day

SettledClaim(a) == [state |-> "settled", cash |-> claims[a].cash, shares |-> claims[a].shares]

SharesOf(actions) == SumFunction([a \in actions |-> claims[a].shares])

-----------------------------------------------------------------------------
(* Before the session. *)

Crediting == {a \in calendar : GivesShares(a) /\ Due(a)}

(* Shares given in addition change nothing about the others.  A split or a  *)
(* merger changes every lot and locks it.                                   *)
UnlocksFrom(d) ==
    IF \A a \in Crediting : a.kind = "distribution"
    THEN sellableBy'[d] \in
            sellableBy[d]..(sellableBy[d] + SharesOf({a \in Crediting : a.sellable <= d}))
    ELSE (\A a \in Crediting : d < a.sellable) => sellableBy'[d] <= sellableBy[d]

Open ==
    /\ phase = "before" /\ phase' = "open"
    /\ held' = held + SharesOf(Crediting)
    /\ \A d \in FromToday : UnlocksFrom(d)
    /\ claims' = [a \in calendar |-> IF a \in Crediting THEN SettledClaim(a) ELSE claims[a]]
    /\ UNCHANGED <<calendar, day, cash>>

-----------------------------------------------------------------------------
(* In the session.  What is bought can be sold from the next date on. *)

Buy ==
    /\ phase = "open"
    /\ held' > held
    /\ cash' \in Nat /\ cash' < cash
    /\ \A d \in FromToday :
          sellableBy'[d] = sellableBy[d] + (IF d > day THEN held' - held ELSE 0)
    /\ UNCHANGED <<calendar, day, phase, claims>>

Sell ==
    /\ phase = "open"
    /\ held - held' \in 1..sellableBy[day]
    /\ cash' \in Nat
    /\ \A d \in FromToday : sellableBy'[d] = sellableBy[d] - (held - held')
    /\ UNCHANGED <<calendar, day, phase, claims>>

-----------------------------------------------------------------------------
(* After the session. *)

Recording(a) == a.record = day /\ a.kind # "rights"

(* What the holding at the record close earns. *)
Entitles(a, claim) ==
    /\ claim.state = "owed"
    /\ claim.cash = IF a.kind = "dividend" THEN a.perShare * held ELSE 0
    /\ IF GivesShares(a) THEN a.den * (held + claim.shares) = a.num * held
       ELSE claim.shares = 0

Paying == {a \in calendar : a.kind = "dividend" /\ Due(a)}

Close ==
    /\ phase = "open" /\ phase' = "before" /\ day' = day + 1
    /\ DOMAIN claims' = calendar
    /\ \A a \in calendar :
          IF Recording(a) THEN Entitles(a, claims'[a])
          ELSE claims'[a] = IF a \in Paying THEN SettledClaim(a) ELSE claims[a]
    /\ cash' = cash + SumFunction([a \in Paying |-> claims[a].cash])
    /\ \A d \in FromToday \ {day} : sellableBy'[d] = sellableBy[d]
    /\ UNCHANGED <<calendar, held>>

(* An engine may give the replay up; the account stays as it was. *)
Stop ==
    /\ phase \in {"before", "open"} /\ phase' = "failed"
    /\ UNCHANGED <<calendar, day, cash, held, sellableBy, claims>>

Next == Open \/ Buy \/ Sell \/ Close \/ Stop

Spec == Init /\ [][Next]_vars
================================================================================
