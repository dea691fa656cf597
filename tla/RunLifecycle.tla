----------------------------- MODULE RunLifecycle -----------------------------
(***************************************************************************)
(* The life of a stored backtest run: submissions insert it and hand its   *)
(* id to the job queue, workers claim and execute it, clients ask for its  *)
(* cancellation.  All of them meet only in the run store, which they read  *)
(* and write one statement at a time, so every read-then-write sequence of *)
(* the code is two steps here and the others may move in between.          *)
(*                                                                         *)
(*   Submission  backtest_submission.py  BacktestSubmissionService.submit  *)
(*   Worker      execute_backtest.py     BacktestExecutionService.execute  *)
(*   Client      routes/backtest_runs.py cancel_backtest_run and           *)
(*               SQLAlchemyBacktestRunStore.request_cancel                 *)
(*                                                                         *)
(* A store write (SQLAlchemyBacktestRunStore.transition) reads the row,    *)
(* checks it and updates WHERE version and state are still the ones read.  *)
(* No writer here rewrites a row in the state it already has, so the write *)
(* succeeds exactly when the checks hold at the moment of the UPDATE: one  *)
(* step.  A write may also fail for a reason of its own (the connection    *)
(* breaks), before or after the UPDATE took effect; MaxFaults bounds that. *)
(***************************************************************************)
EXTENDS RunStates, FiniteSets

CONSTANTS
    Runs,           (* run ids, one per submission *)
    Fingerprint,    (* manifest fingerprint of the run a submission builds *)
    Workers,        (* worker threads or processes *)
    Clients,        (* cancel requests *)
    NoRun,          (* "no job": not a run id *)
    MaxQueue,       (* bound: outstanding deliveries of one run *)
    MaxRedeliver,   (* bound: deliveries the queue makes twice *)
    MaxFaults,      (* bound: failing store writes *)
    MaxCrashes      (* bound: crashes of a worker or of a submission *)

ASSUME NoRunAssumption == NoRun \notin Runs
ASSUME FingerprintAssumption == Fingerprint \in [Runs -> Runs]
ASSUME BoundsAssumption ==
    /\ MaxQueue \in Nat /\ MaxRedeliver \in Nat
    /\ MaxFaults \in Nat /\ MaxCrashes \in Nat

VARIABLES
    row,          (* the run store: row[r] is a record or NoRow *)
    deliveries,   (* the job queue: undelivered messages naming each run *)
    sub,          (* one submission per run id: where it stands, the run it got *)
    worker,       (* the local state of each worker *)
    client,       (* the local state of each cancel request *)
    trouble,      (* history: what went wrong with each run *)
    faults,       (* failing store writes so far *)
    crashes,      (* crashes so far *)
    redelivered   (* messages delivered again so far *)

bounds == <<faults, crashes, redelivered>>
vars == <<row, deliveries, sub, worker, client, trouble, bounds>>

Store == INSTANCE RunContract WITH Runs <- Runs, Fingerprint <- Fingerprint, row <- row

-----------------------------------------------------------------------------
(* Local states. *)

(* job: the delivered run.  rec: the variable record, the row as this      *)
(* worker last wrote it.  cur: the variable current, the row as it last    *)
(* read it.  stage: how many stages it has entered.                        *)
Local(pc, job, rec, cur, stage) ==
    [pc |-> pc, job |-> job, rec |-> rec, cur |-> cur, stage |-> stage]

Idle == Local("idle", NoRun, NoRow, NoRow, 0)

WorkerPcs == {"idle", "read", "claim", "claimLost", "stage", "advance", "finish",
              "cancelIn", "handler", "cancelOut", "fail", "failLost"}

(* A worker that has claimed its run and has not returned from execute. *)
OwnerPcs == {"stage", "advance", "finish", "cancelIn", "handler", "fail", "failLost"}

Request(pc, run, rec, tries) == [pc |-> pc, run |-> run, rec |-> rec, tries |-> tries]

Silent == Request("idle", NoRun, NoRow, 0)

(* "error": a stage raised.  "fault": a store write failed by itself.     *)
(* "lost": a process died or the queue refused the message.               *)
Troubles == {"error", "fault", "lost"}

TargetOf  == <<RunningSignal, RunningExec, RunningReport>>
ProgressOf == <<35, 55, 90>>

(* _RUNNING_RANK: a state outside of it ranks below every target. *)
RunningRank == <<Queued, RunningData, RunningSignal, RunningExec, RunningReport>>

AtOrPast(state, target) ==
    \E i, j \in 1..5 : i >= j /\ RunningRank[i] = state /\ RunningRank[j] = target

AtLeast(a, b) == IF a >= b THEN a ELSE b

Init ==
    /\ row = [r \in Runs |-> NoRow]
    /\ deliveries = [r \in Runs |-> 0]
    /\ sub = [r \in Runs |-> [pc |-> "new", run |-> NoRun]]
    /\ worker = [w \in Workers |-> Idle]
    /\ client = [c \in Clients |-> Silent]
    /\ trouble = [r \in Runs |-> {}]
    /\ faults = 0 /\ crashes = 0 /\ redelivered = 0

-----------------------------------------------------------------------------
(* Submission: create_or_get, then enqueue while the run is still queued. *)

(* Slip: the insert collides on the run id only. *)
ReplayableById(s) == {q \in {s} : row[q].state # Absent}

(* The row whose unique fingerprint makes the insert fail. *)
Replayable(s) == Store!SameFingerprint(s)

(* The row already stored under the fingerprint, when there is one, is    *)
(* replayed; its state is the one the replaying SELECT saw.               *)
SubmitCreate(s) ==
    /\ sub[s].pc = "new"
    /\ \/ /\ Replayable(s) = {}
          /\ row' = [row EXCEPT ![s] = QueuedRow]
          /\ sub' = [sub EXCEPT ![s] = [pc |-> "enqueue", run |-> s]]
       \/ \E q \in Replayable(s) :
             /\ sub' = [sub EXCEPT ![s] =
                   [pc |-> IF row[q].state = Queued THEN "enqueue" ELSE "done", run |-> q]]
             /\ UNCHANGED row
    /\ UNCHANGED <<deliveries, worker, client, trouble, bounds>>

SubmitEnqueue(s) ==
    /\ sub[s].pc = "enqueue"
    /\ deliveries[sub[s].run] < MaxQueue
    /\ deliveries' = [deliveries EXCEPT ![sub[s].run] = @ + 1]
    /\ sub' = [sub EXCEPT ![s] = [pc |-> "done", run |-> sub[s].run]]
    /\ UNCHANGED <<row, worker, client, trouble, bounds>>

(* The queue is full or unreachable, or the API process dies: the run is  *)
(* stored and nobody was told of it.                                      *)
SubmitLost(s) ==
    /\ sub[s].pc = "enqueue"
    /\ crashes < MaxCrashes
    /\ crashes' = crashes + 1
    /\ trouble' = [trouble EXCEPT ![sub[s].run] = @ \cup {"lost"}]
    /\ sub' = [sub EXCEPT ![s] = [pc |-> "done", run |-> sub[s].run]]
    /\ UNCHANGED <<row, deliveries, worker, client, faults, redelivered>>

(* RQ may hand out a message again. *)
Redeliver(r) ==
    /\ row[r].state # Absent
    /\ deliveries[r] < MaxQueue
    /\ redelivered < MaxRedeliver
    /\ redelivered' = redelivered + 1
    /\ deliveries' = [deliveries EXCEPT ![r] = @ + 1]
    /\ UNCHANGED <<row, sub, worker, client, trouble, faults, crashes>>

-----------------------------------------------------------------------------
(* Worker. *)

Become(w, local) == worker' = [worker EXCEPT ![w] = local]

(* Worker w goes on at pc, with another record or current. *)
At(w, pc) == Local(pc, worker[w].job, worker[w].rec, worker[w].cur, worker[w].stage)
With(w, pc, rec, cur) == Local(pc, worker[w].job, rec, cur, worker[w].stage)

WorkerOnly == UNCHANGED <<row, deliveries, sub, client, trouble, bounds>>

(* The record a transition call of worker w stores when it succeeds. *)
Written(w, target, progress) == BuildTransition(row[worker[w].job], target, progress)

(* One transition call of worker w.  expected holds when the row is in one *)
(* of the caller's expected states and has the expected version; the       *)
(* worker goes on as then after success, as otherwise after an exception.  *)
Write(w, expected, target, progress, then, otherwise) ==
    LET r      == worker[w].job
        ok     == expected /\ CanBuild(row[r], target, progress)
        stored == row' = [row EXCEPT ![r] = Written(w, target, progress)]
    IN  /\ \/ /\ ok
              /\ stored
              /\ Become(w, then)
              /\ UNCHANGED <<trouble, bounds>>
           \/ /\ ~ok
              /\ Become(w, otherwise)
              /\ UNCHANGED <<row, trouble, bounds>>
           \/ /\ faults < MaxFaults
              /\ faults' = faults + 1
              /\ trouble' = [trouble EXCEPT ![r] = @ \cup {"fault"}]
              /\ UNCHANGED row \/ (ok /\ stored)
              /\ Become(w, otherwise)
              /\ UNCHANGED <<crashes, redelivered>>
        /\ UNCHANGED <<deliveries, sub, client>>

(* Slip: a worker that does not wait for a message. *)
ReceiveAnyway(w, r) ==
    /\ worker[w].pc = "idle"
    /\ deliveries' = [deliveries EXCEPT ![r] = @ - 1]
    /\ Become(w, Local("read", r, NoRow, NoRow, 0))
    /\ UNCHANGED <<row, sub, client, trouble, bounds>>

Receive(w, r) ==
    /\ worker[w].pc = "idle"
    /\ deliveries[r] > 0
    /\ deliveries' = [deliveries EXCEPT ![r] = @ - 1]
    /\ Become(w, Local("read", r, NoRow, NoRow, 0))
    /\ UNCHANGED <<row, sub, client, trouble, bounds>>

(* First read of execute: only a queued run is claimed. *)
ReadJob(w) ==
    LET seen == row[worker[w].job] IN
    /\ worker[w].pc = "read"
    /\ \/ /\ seen.state = CancelRequested
          /\ Become(w, With(w, "cancelOut", worker[w].rec, seen))
       \/ /\ seen.state = Queued
          /\ Become(w, With(w, "claim", seen, NoRow))
       \/ /\ seen.state \notin {CancelRequested, Queued}
          /\ Become(w, Idle)
    /\ WorkerOnly

Claimed(w) ==
    Local("stage", worker[w].job, Written(w, RunningData, 10), NoRow, 1)

(* Slip: the claim does not check what it read. *)
ClaimUnchecked(w) ==
    /\ worker[w].pc = "claim"
    /\ Write(w, TRUE, RunningData, 10, Claimed(w),
             At(w, "claimLost"))

Claim(w) ==
    LET seen == row[worker[w].job] IN
    /\ worker[w].pc = "claim"
    /\ Write(w, seen.state = Queued /\ seen.version = worker[w].rec.version,
             RunningData, 10, Claimed(w),
             At(w, "claimLost"))

(* Slip: a lost claim is handled like any other failure. *)
ClaimLostFails(w) ==
    /\ worker[w].pc = "claimLost"
    /\ Become(w, With(w, "fail", row[worker[w].job], NoRow))
    /\ WorkerOnly

(* Whatever the state is, the job ends here: execute returns the record or *)
(* lets the exception out.                                                 *)
ClaimLost(w) ==
    /\ worker[w].pc = "claimLost"
    /\ Become(w, Idle)
    /\ WorkerOnly

(* A stage has been computed; _advance, or the check before the final      *)
(* write, reads the row again.                                             *)
StageDone(w) ==
    LET seen  == row[worker[w].job]
        stage == worker[w].stage
    IN  /\ worker[w].pc = "stage"
        /\ \/ /\ seen.state = CancelRequested
              /\ Become(w, With(w, "cancelIn", worker[w].rec, seen))
           \/ /\ seen.state # CancelRequested /\ stage = 4
              /\ Become(w, At(w, "finish"))
           \/ /\ seen.state # CancelRequested /\ stage < 4
              /\ AtOrPast(seen.state, TargetOf[stage])
              /\ Become(w, Local("stage", worker[w].job, seen, NoRow, stage + 1))
           \/ /\ seen.state # CancelRequested /\ stage < 4
              /\ ~AtOrPast(seen.state, TargetOf[stage])
              /\ Become(w, With(w, "advance", worker[w].rec, seen))
        /\ WorkerOnly

(* Loading, signals, the engine or the report raises; so does a failing    *)
(* read of the store.                                                      *)
StageRaises(w) ==
    /\ worker[w].pc = "stage"
    /\ Become(w, At(w, "handler"))
    /\ trouble' = [trouble EXCEPT ![worker[w].job] = @ \cup {"error"}]
    /\ UNCHANGED <<row, deliveries, sub, client, bounds>>

Advance(w) ==
    LET stage    == worker[w].stage
        cur      == worker[w].cur
        progress == AtLeast(ProgressOf[stage], cur.progress)
    IN  /\ worker[w].pc = "advance"
        /\ Write(w, row[worker[w].job].state = cur.state, TargetOf[stage], progress,
                 Local("stage", worker[w].job, Written(w, TargetOf[stage], progress), NoRow,
                       stage + 1),
                 At(w, "handler"))

(* Slip: a result that cannot be stored is dropped quietly. *)
FinishGivesUp(w) ==
    /\ worker[w].pc = "finish"
    /\ Write(w, row[worker[w].job].state = RunningReport, Succeeded, 100, Idle, Idle)

Finish(w) ==
    /\ worker[w].pc = "finish"
    /\ Write(w, row[worker[w].job].state = RunningReport, Succeeded, 100, Idle, At(w, "handler"))

(* _cancel: called inside the try block its exception reaches the handler, *)
(* called outside of it the exception ends the job.                        *)
CancelWrite(w) ==
    /\ worker[w].pc \in {"cancelIn", "cancelOut"}
    /\ Write(w, row[worker[w].job].state = CancelRequested, Cancelled,
             worker[w].cur.progress, Idle,
             IF worker[w].pc = "cancelIn" THEN At(w, "handler") ELSE Idle)

(* Slip: the row is compared with the record of the last read. *)
MineByLastRead(w, seen) == seen.version = worker[w].cur.version

(* The row is still exactly the record this worker wrote last. *)
Mine(w, seen) ==
    /\ seen.version = worker[w].rec.version
    /\ seen.state = worker[w].rec.state

(* except Exception: the owner fails its run only if nobody moved it. *)
HandlerRead(w) ==
    LET seen == row[worker[w].job]
    IN  /\ worker[w].pc = "handler"
        /\ \/ /\ seen.state = CancelRequested
              /\ Become(w, With(w, "cancelOut", worker[w].rec, seen))
           \/ /\ seen.state # CancelRequested
              /\ seen.state \in TerminalStates \/ ~Mine(w, seen)
              /\ Become(w, Idle)
           \/ /\ seen.state \notin TerminalStates \cup {CancelRequested}
              /\ Mine(w, seen)
              /\ Become(w, At(w, "fail"))
        /\ WorkerOnly

(* Slip: the failure is written whatever the row has become. *)
FailWriteUnchecked(w) ==
    /\ worker[w].pc = "fail"
    /\ Write(w, TRUE, Failed, worker[w].rec.progress, Idle,
             At(w, "failLost"))

FailWrite(w) ==
    /\ worker[w].pc = "fail"
    /\ Write(w, Mine(w, row[worker[w].job]), Failed, worker[w].rec.progress, Idle,
             At(w, "failLost"))

(* The handler's own handler: returns the latest record or re-raises. *)
FailLost(w) ==
    /\ worker[w].pc = "failLost"
    /\ Become(w, Idle)
    /\ WorkerOnly

(* The process dies; a delivered message is not delivered again by that. *)
Crash(w) ==
    /\ worker[w].pc # "idle"
    /\ crashes < MaxCrashes
    /\ crashes' = crashes + 1
    /\ trouble' = [trouble EXCEPT ![worker[w].job] = @ \cup {"lost"}]
    /\ Become(w, Idle)
    /\ UNCHANGED <<row, deliveries, sub, client, faults, redelivered>>

WorkerStep(w) ==
    \/ ReadJob(w) \/ Claim(w) \/ ClaimLost(w)
    \/ StageDone(w) \/ StageRaises(w) \/ Advance(w) \/ Finish(w)
    \/ CancelWrite(w) \/ HandlerRead(w) \/ FailWrite(w) \/ FailLost(w)

-----------------------------------------------------------------------------
(* Client: POST /{run_id}/cancel, then request_cancel with three attempts. *)

Answer(c, pc, run, rec, tries) ==
    /\ client' = [client EXCEPT ![c] = Request(pc, run, rec, tries)]
    /\ UNCHANGED <<deliveries, sub, worker, trouble, bounds>>

CancelRoute(c, r) ==
    LET seen == row[r].state IN
    /\ client[c].pc = "idle"
    /\ seen # Absent
    /\ \/ seen \in {Succeeded, Failed} /\ Answer(c, "refused", r, NoRow, 0)
       \/ seen \in {CancelRequested, Cancelled} /\ Answer(c, "accepted", r, NoRow, 0)
       \/ seen \in ActiveStates /\ Answer(c, "get", r, NoRow, 0)
    /\ UNCHANGED row

CancelGet(c) ==
    LET r    == client[c].run
        seen == row[r]
    IN
    /\ client[c].pc = "get"
    /\ \/ /\ seen.state \in {CancelRequested, Cancelled}
          /\ Answer(c, "accepted", r, NoRow, 0)
       \/ /\ seen.state \in {Succeeded, Failed}
          /\ Answer(c, "refused", r, NoRow, 0)
       \/ /\ seen.state \in ActiveStates
          /\ Answer(c, "write", r, seen, client[c].tries)
    /\ UNCHANGED row

CancelRequestWrite(c) ==
    LET r   == client[c].run
        rec == client[c].rec
        ok  == /\ row[r].state = rec.state /\ row[r].version = rec.version
               /\ CanBuild(row[r], CancelRequested, rec.progress)
    IN  /\ client[c].pc = "write"
        /\ \/ /\ ok
              /\ row' = [row EXCEPT ![r] = BuildTransition(row[r], CancelRequested, rec.progress)]
              /\ Answer(c, "accepted", r, NoRow, 0)
           \/ /\ ~ok
              /\ UNCHANGED row
              /\ \/ /\ client[c].tries < 2
                    /\ Answer(c, "get", r, NoRow, client[c].tries + 1)
                 \/ /\ client[c].tries = 2
                    /\ Answer(c, "refused", r, NoRow, 0)

ClientStep(c) == CancelGet(c) \/ CancelRequestWrite(c)

-----------------------------------------------------------------------------

Next ==
    \/ \E s \in Runs : SubmitCreate(s) \/ SubmitEnqueue(s) \/ SubmitLost(s) \/ Redeliver(s)
    \/ \E w \in Workers : WorkerStep(w) \/ Crash(w)
    \/ \E w \in Workers, r \in Runs : Receive(w, r)
    \/ \E c \in Clients : ClientStep(c)
    \/ \E c \in Clients, r \in Runs : CancelRoute(c, r)

(* What runs by itself keeps running: worker threads, a request being     *)
(* served.  Nothing obliges a client to submit or to cancel, and crashes  *)
(* and faults never have to happen.                                       *)
Fairness ==
    /\ \A w \in Workers : WF_vars(WorkerStep(w))
    /\ \A w \in Workers, r \in Runs : WF_vars(Receive(w, r))
    /\ \A s \in Runs : WF_vars(SubmitEnqueue(s))
    /\ \A c \in Clients : WF_vars(ClientStep(c))

Spec     == Init /\ [][Next]_vars
FairSpec == Spec /\ Fairness

-----------------------------------------------------------------------------
(* Properties. *)

Locals == [pc : WorkerPcs, job : Runs \cup {NoRun}, rec : Records, cur : Records,
           stage : 0..4]

ClientLocals == [pc : {"idle", "get", "write", "accepted", "refused"},
                 run : Runs \cup {NoRun}, rec : Records, tries : 0..3]

TypeOK ==
    /\ row \in [Runs -> Records]
    /\ deliveries \in [Runs -> 0..MaxQueue]
    /\ sub \in [Runs -> [pc : {"new", "enqueue", "done"}, run : Runs \cup {NoRun}]]
    /\ worker \in [Workers -> Locals]
    /\ client \in [Clients -> ClientLocals]
    /\ trouble \in [Runs -> SUBSET Troubles]
    /\ faults \in 0..MaxFaults
    /\ crashes \in 0..MaxCrashes
    /\ redelivered \in 0..MaxRedeliver

Owns(w, r) == worker[w].pc \in OwnerPcs /\ worker[w].job = r

(* However often the queue delivers a run, at most one worker is ever     *)
(* between its claim and its return: no result is computed or written     *)
(* twice (execute: "The owner is the only worker allowed to advance").    *)
SingleOwner ==
    \A r \in Runs : \A v, w \in Workers : Owns(v, r) /\ Owns(w, r) => v = w

(* Neither duplicate deliveries nor cancel requests can make a run end as *)
(* failed: a stage or the store must have raised in the worker that owns  *)
(* it (the guards of the except block in execute).                        *)
OnlyErrorsFail ==
    \A r \in Runs : row[r].state = Failed => trouble[r] \cap {"error", "fault"} # {}

(* Once a client has been told its cancellation is accepted, the run will *)
(* not be reported as succeeded or failed, whatever the owner was doing   *)
(* at that moment (request_cancel against the writes of execute).         *)
AcceptedCancelSticks ==
    \A c \in Clients : client[c].pc = "accepted" =>
        row[client[c].run].state \in {CancelRequested, Cancelled}

(* Somebody will still look at run r: a message names it, a submission is *)
(* about to send one, or a worker holds it.                               *)
Carried(r) ==
    \/ deliveries[r] > 0
    \/ \E s \in Runs : sub[s].pc = "enqueue" /\ sub[s].run = r
    \/ \E w \in Workers : \/ Owns(w, r)
                          \/ worker[w].job = r /\ worker[w].pc \in {"read", "claim"}

(* A queued or running row is never forgotten except by a crash, a refused *)
(* message or a failing write: no interleaving of submit, claim, cancel    *)
(* and error handling drops a run.                                         *)
NoRunForgotten ==
    \A r \in Runs : row[r].state \in ActiveStates =>
        Carried(r) \/ trouble[r] \cap {"fault", "lost"} # {}

(* The lifecycle implements the contract of the store. *)
StoreContract == Store!ContractSpec

(* Without crashes and store faults a submitted run reaches a terminal     *)
(* state, or a cancellation was requested.                                 *)
RunSettles ==
    \A r \in Runs : row[r].state # Absent ~>
        row[r].state \in TerminalStates \cup {CancelRequested}

(* A cancellation that meets an owner whose stages do not raise is carried *)
(* out: the owner sees it at its next stage boundary, or its own write     *)
(* fails and the handler sees it.                                          *)
OwnerCompletesCancel ==
    \A r \in Runs :
        (row[r].state = CancelRequested /\ \E w \in Workers : Owns(w, r))
            ~> (row[r].state = Cancelled \/ trouble[r] # {})

(* What SPEC.md says of every cancellation: the run goes through           *)
(* cancel_requested and on to cancelled or another terminal state.         *)
CancelCompletes ==
    \A r \in Runs : row[r].state = CancelRequested ~> row[r].state \in TerminalStates
==============================================================================
