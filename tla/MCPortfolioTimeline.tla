-------------------------- MODULE MCPortfolioTimeline --------------------------
(* Calendars for TLC: actions that overlap in time, that a trade can come    *)
(* between, and whose shares cannot always be allotted.                      *)
EXTENDS PortfolioTimeline

Action(name, kind, record, ex, settle, sellable) ==
    [name |-> name, kind |-> kind, record |-> record, ex |-> ex, settle |-> settle,
     sellable |-> sellable, perShare |-> 0, num |-> 1, den |-> 1, known |-> TRUE]

Dividend(name, record, ex, pay) ==
    [Action(name, "dividend", record, ex, pay, pay) EXCEPT !.perShare = 3]

Bonus(name, record, ex, credit, sellable, num, den) ==
    [Action(name, "distribution", record, ex, credit, sellable) EXCEPT !.num = num, !.den = den]

Split(name, record, ex, credit, sellable) ==
    [Action(name, "split", record, ex, credit, sellable) EXCEPT !.num = 2]

Merge(name, record, ex, credit) ==
    [Action(name, "reverse", record, ex, credit, credit) EXCEPT !.den = 2]

(* A dividend and bonus shares of one record date.  Bonus shares recorded    *)
(* again before the first are credited.  A split after a bonus, with room    *)
(* for a sale before it settles.  A session between record and ex date.      *)
(* Shares recorded before the run, and terms that came too late.             *)
WithBonus   == {Dividend(1, 1, 2, 3), Bonus(2, 1, 2, 3, 4, 3, 2)}
TwoBonuses  == {Bonus(1, 1, 2, 4, 4, 2, 1), Bonus(2, 2, 3, 3, 4, 2, 1)}
BonusSplit  == {Bonus(1, 1, 2, 2, 3, 2, 1), Split(2, 2, 3, 4, 4)}
Merging     == {Merge(1, 2, 3, 3), Dividend(2, 2, 3, 3),
                Action(3, "rights", 1, 2, 3, 3)}
Apart       == {Bonus(1, 1, 3, 3, 3, 2, 1), Dividend(2, 1, 3, 4)}
Unvalidated == {[Dividend(1, 2, 3, 4) EXCEPT !.known = FALSE], Bonus(2, 0, 1, 2, 3, 2, 1)}

MCCalendars == {WithBonus, TwoBonuses, BonusSplit, Merging, Apart, Unvalidated}

(* After two buys the cash may run out. *)
MCQuantities == {1, 2}
===============================================================================
