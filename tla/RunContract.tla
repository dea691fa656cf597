----------------------------- MODULE RunContract -----------------------------
(***************************************************************************)
(* What the run store promises of every run, whoever writes it: a row is   *)
(* created once, in state queued, one row per fingerprint; afterwards it   *)
(* moves along the edges of the lifecycle only, each write advances the    *)
(* version by one and never lowers the progress, and a terminal row is     *)
(* never written again.  RunLifecycle is shown to implement this, and      *)
(* PreparationCoordinator uses it as the behaviour of the worker side.     *)
(***************************************************************************)
EXTENDS RunStates

CONSTANTS
    Runs,          (* run identities *)
    Fingerprint    (* Fingerprint[r]: the manifest fingerprint of run r *)

VARIABLE row       (* row[r]: the stored record, NoRow when there is none *)

ContractInit == row = [r \in Runs |-> NoRow]

SameFingerprint(r) == {q \in Runs : /\ Fingerprint[q] = Fingerprint[r]
                                    /\ row[q].state # Absent}

CreateRow(r) ==
    /\ SameFingerprint(r) = {}
    /\ row' = [row EXCEPT ![r] = QueuedRow]

MoveRow(r, target, progress) ==
    /\ row[r].state \notin TerminalStates \cup {Absent}
    /\ CanBuild(row[r], target, progress)
    /\ progress \in 0..100
    /\ target = Succeeded => progress = 100
    /\ row' = [row EXCEPT ![r] = BuildTransition(row[r], target, progress)]

ContractNext ==
    \E r \in Runs : CreateRow(r) \/ MoveRow(r, row'[r].state, row'[r].progress)

ContractSpec == ContractInit /\ [][ContractNext]_row
==============================================================================
