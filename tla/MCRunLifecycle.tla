---------------------------- MODULE MCRunLifecycle ----------------------------
(***************************************************************************)
(* RunLifecycle on a small instance: two submissions of the same manifest  *)
(* (so the second one replays the first one's row), two workers and two    *)
(* cancel requests.                                                        *)
(***************************************************************************)
EXTENDS RunLifecycle, TLC

CONSTANTS r1, r2

OneFingerprint == [r \in {r1, r2} |-> r1]

Symmetry == Permutations(Workers) \cup Permutations(Clients)
==============================================================================
