----------------------------- MODULE MCDailyEngine ----------------------------
(* Instances of DailyEngine for TLC: strategies that combine the exit rules,  *)
(* the validity and the position policy in the ways that interact.           *)
EXTENDS DailyEngine

Rules(validity, accumulate, market, holding, risk, all, retry) ==
    [validity |-> validity, accumulate |-> accumulate, market |-> market,
     holding |-> holding, risk |-> risk, all |-> all, retry |-> retry]

FirstOf    == Rules(1, FALSE, TRUE, 1, FALSE, FALSE, TRUE)
Edge       == Rules(2, FALSE, TRUE, 0, TRUE, FALSE, TRUE)
Adding     == Rules(2, TRUE, FALSE, 2, TRUE, FALSE, TRUE)
Together   == Rules(1, TRUE, TRUE, 1, TRUE, TRUE, TRUE)
OneAttempt == Rules(1, FALSE, FALSE, 2, TRUE, FALSE, FALSE)

MCStrategies == {FirstOf, Edge, Adding, Together, OneAttempt}

Calendar(cashRecord, cashPay, bonusRecord, credit, sellable, nextKnown) ==
    [cashRecord |-> cashRecord, cashPay |-> cashPay, bonusRecord |-> bonusRecord,
     credit |-> credit, sellable |-> sellable, nextKnown |-> nextKnown]

(* Quiet: no action, and the calendar ends with the period.  Late: a        *)
(* dividend owed for a session, bonus shares credited and unlocked late.     *)
(* Prompt: both settle in their ex session.                                  *)
Quiet  == Calendar(0, 1, 0, 1, 1, FALSE)
Late   == Calendar(1, 3, 1, 3, 4, TRUE)
Prompt == Calendar(2, 3, 2, 3, 3, TRUE)

MCPlans == {Quiet, Late, Prompt}

MCPrices == {1, 2}
==============================================================================
