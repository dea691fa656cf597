------------------------------ MODULE RunStates ------------------------------
(***************************************************************************)
(* The vocabulary of a backtest run: its states, its stored record and the *)
(* edges the run store accepts.  Translated from ports/backtest_runs.py    *)
(* (BacktestJobState, BacktestRunRecord) and                               *)
(* adapters/persistence/backtest_runs.py (_ACTIVE_STATES,                  *)
(* _ALLOWED_TRANSITIONS, _build_transition).                               *)
(*                                                                         *)
(* A record keeps what the properties tell apart: state, progress and the  *)
(* version used for compare-and-swap.  Labels, timestamps, the result JSON *)
(* and the error code are left out: each is written together with, and     *)
(* only with, the state it belongs to.                                     *)
(***************************************************************************)
EXTENDS Integers

Queued          == "queued"
RunningData     == "running:data"
RunningSignal   == "running:signal"
RunningExec     == "running:execution"
RunningReport   == "running:report"
CancelRequested == "cancel_requested"
Succeeded       == "succeeded"
Failed          == "failed"
Cancelled       == "cancelled"

RunningStates  == {RunningData, RunningSignal, RunningExec, RunningReport}
ActiveStates   == RunningStates \cup {Queued}
TerminalStates == {Succeeded, Failed, Cancelled}
RunStateSet    == ActiveStates \cup TerminalStates \cup {CancelRequested}

(* "absent" stands for a run id with no row. *)
Absent == "absent"
NoRow  == [state |-> Absent, progress |-> 0, version |-> 0]

Records == [state : RunStateSet \cup {Absent}, progress : 0..100, version : Nat]

(* The row BacktestSubmissionService.submit inserts. *)
QueuedRow == [state |-> Queued, progress |-> 0, version |-> 1]

(* The stage a run enters after each stage, and the progress written then. *)
StageEdges == { <<Queued, RunningData>>, <<RunningData, RunningSignal>>,
                <<RunningSignal, RunningExec>>, <<RunningExec, RunningReport>>,
                <<RunningReport, Succeeded>> }

(* target \in _ALLOWED_TRANSITIONS[from] *)
AllowedTransition(from, target) ==
    \/ from \in ActiveStates /\ target \in {from, CancelRequested, Failed}
    \/ <<from, target>> \in StageEdges
    \/ from = CancelRequested /\ target \in {CancelRequested, Cancelled, Failed}

(* _build_transition accepts the move from record r (its expected-state and *)
(* expected-version checks belong to the caller's compare-and-swap).        *)
CanBuild(r, target, progress) ==
    /\ AllowedTransition(r.state, target)
    /\ progress >= r.progress

BuildTransition(r, target, progress) ==
    [state |-> target, progress |-> progress, version |-> r.version + 1]
==============================================================================
