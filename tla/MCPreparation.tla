---------------------------- MODULE MCPreparation ----------------------------
(***************************************************************************)
(* PreparationCoordinator on a small instance: two ids for one request,    *)
(* which resolves to one manifest, and a third id for another request.     *)
(***************************************************************************)
EXTENDS PreparationCoordinator, TLC

CONSTANTS r1, r2, r3, qa, qb

RequestOf == [r \in Runs |-> IF r = r3 THEN qb ELSE qa]

ManifestOf == [r \in Runs |-> IF r = r3 THEN r3 ELSE r1]
==============================================================================
