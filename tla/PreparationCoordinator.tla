------------------------ MODULE PreparationCoordinator ------------------------
(***************************************************************************)
(* AsyncBacktestSubmissionCoordinator: a POST is answered with a run id    *)
(* before the historical data of the run has been acquired.  Until the row *)
(* exists, a preparation record held in this process answers for the id;   *)
(* afterwards the stored row does, and when the store replays an older run *)
(* the id becomes an alias of that run.                                    *)
(*                                                                         *)
(* Every method body that runs under the coordinator's RLock is one step.  *)
(* The preparation itself (_prepare calling                                *)
(* BacktestSubmissionService.submit) runs outside of the lock: acquiring   *)
(* data, create_or_get, enqueue and the final locked block are separate    *)
(* steps.  The cancel route reads, checks and then cancels, in three steps. *)
(* Workers are an environment that takes messages and otherwise moves rows *)
(* as RunContract allows; their own races are the subject of RunLifecycle. *)
(***************************************************************************)
EXTENDS RunStates, FiniteSets

CONSTANTS
    Runs,          (* the run ids the coordinator reserves *)
    Requests,      (* request fingerprints *)
    Request,       (* Request[r]: the request that reserves id r *)
    Fingerprint,   (* Fingerprint[r]: the manifest the preparation of r builds *)
    Clients,       (* cancel requests *)
    NoRun,         (* not a run id *)
    MaxThreads,    (* max_workers of the preparation executor *)
    MaxFaults,     (* bound: refused messages and failing store cancellations *)
    MaxRestarts    (* bound: crashes of the API process *)

ASSUME NoRunOutside == NoRun \notin Runs
ASSUME RequestTypes == Request \in [Runs -> Requests] /\ Fingerprint \in [Runs -> Runs]
ASSUME PreparationBounds == MaxThreads \in Nat \ {0} /\ MaxFaults \in Nat /\ MaxRestarts \in Nat

VARIABLES
    row,        (* the run store *)
    messages,   (* the job queue: messages naming each run *)
    prep,       (* _preparations: the run it speaks of and its state *)
    index,      (* _run_by_request_fingerprint *)
    task,       (* the future of each id and how far _prepare has come *)
    client,     (* POST /{run_id}/cancel requests *)
    marked,     (* history: ids marked cancel_requested before _prepare settled *)
    faulted,    (* history: ids whose store cancellation raised *)
    unsent,     (* history: queued runs whose message was refused or lost *)
    replayed,   (* history: unsent runs a later POST was answered with *)
    faults,     (* refused messages and failing cancellations so far *)
    restarts    (* crashes so far *)

history == <<marked, faulted, unsent, replayed, faults, restarts>>
vars == <<row, messages, prep, index, task, client, history>>

Store == INSTANCE RunContract WITH Runs <- Runs, Fingerprint <- Fingerprint, row <- row

NoPrep == [run |-> NoRun, state |-> Absent]

(* run and seen: the run submit resolved the preparation to, and the state *)
(* it had when its row was inserted or read there (result.record).         *)
Task(pc, run, seen) == [pc |-> pc, run |-> run, seen |-> seen]

Init ==
    /\ row = [r \in Runs |-> NoRow]
    /\ messages = [r \in Runs |-> 0]
    /\ prep = [r \in Runs |-> NoPrep]
    /\ index = [q \in Requests |-> NoRun]
    /\ task = [r \in Runs |-> Task("none", NoRun, Absent)]
    /\ client = [c \in Clients |-> [pc |-> "idle", run |-> NoRun, target |-> NoRun]]
    /\ marked = {} /\ faulted = {} /\ unsent = {} /\ replayed = {}
    /\ faults = 0 /\ restarts = 0

Step(r, pc, run, seen) == task' = [task EXCEPT ![r] = Task(pc, run, seen)]

(* _lookup_locked: the stored row, else the row of the alias, else the     *)
(* preparation.                                                            *)
Lookup(r) ==
    LET alias == prep[r].run IN
    IF row[r].state # Absent THEN [run |-> r, state |-> row[r].state]
    ELSE IF alias # NoRun /\ row[alias].state # Absent
         THEN [run |-> alias, state |-> row[alias].state]
         ELSE prep[r]

-----------------------------------------------------------------------------
(* POST *)

(* Slip: a run is replayed only once it is stored. *)
ReplayableStored(q) ==
    IF index[q] = NoRun \/ row[index[q]].state = Absent THEN NoPrep ELSE Lookup(index[q])

(* The run a request is answered with when it is not a new one. *)
Replayable(q) == IF index[q] = NoRun THEN NoPrep ELSE Lookup(index[q])

Submit(r) ==
    LET q == Request[r] IN
    /\ task[r].pc = "none"
    /\ Replayable(q).state = Absent
    /\ prep' = [prep EXCEPT ![r] = [run |-> r, state |-> RunningData]]
    /\ index' = [index EXCEPT ![q] = r]
    /\ Step(r, "waiting", NoRun, Absent)
    /\ UNCHANGED <<row, messages, client, history>>

(* A repeated POST is answered with the run it finds and changes nothing;  *)
(* the history notes when that run is queued and nobody was told of it.    *)
SubmitReplay(q) ==
    LET found == Replayable(q) IN
    /\ found.state = Queued
    /\ found.run \in unsent
    /\ replayed' = replayed \cup {found.run}
    /\ UNCHANGED <<row, messages, prep, index, task, client, marked, faulted, unsent,
                   faults, restarts>>

-----------------------------------------------------------------------------
(* _prepare, on a thread of the executor *)

Preparing == {r \in Runs : task[r].pc \in {"create", "enqueue", "raised", "settle"}}

Start(r) ==
    /\ task[r].pc = "waiting"
    /\ Cardinality(Preparing) < MaxThreads
    /\ Step(r, "create", NoRun, Absent)
    /\ UNCHANGED <<row, messages, prep, index, client, history>>

(* The provider has no data, or the store is unreachable. *)
PrepareRaises(r) ==
    /\ task[r].pc = "create"
    /\ Step(r, "raised", NoRun, Absent)
    /\ UNCHANGED <<row, messages, prep, index, client, history>>

(* Slip: a replayed run is taken as delivered. *)
CreateNew(r) ==
    /\ task[r].pc = "create"
    /\ \/ Store!CreateRow(r) /\ Step(r, "enqueue", r, Queued)
       \/ \E q \in Store!SameFingerprint(r) : Step(r, "settle", q, row[q].state) /\ UNCHANGED row
    /\ UNCHANGED <<messages, prep, index, client, history>>

(* create_or_get; a row that is still queued will be enqueued (again). *)
Create(r) ==
    /\ task[r].pc = "create"
    /\ \/ Store!CreateRow(r) /\ Step(r, "enqueue", r, Queued)
       \/ \E q \in Store!SameFingerprint(r) :
             /\ Step(r, IF row[q].state = Queued THEN "enqueue" ELSE "settle", q, row[q].state)
             /\ UNCHANGED row
    /\ UNCHANGED <<messages, prep, index, client, history>>

Enqueue(r) ==
    LET q == task[r].run IN
    /\ task[r].pc = "enqueue"
    /\ messages' = [messages EXCEPT ![q] = @ + 1]
    /\ unsent' = unsent \ {q}
    /\ Step(r, "settle", q, task[r].seen)
    /\ UNCHANGED <<row, prep, index, client, marked, faulted, replayed, faults, restarts>>

(* The queue is full or unreachable. *)
EnqueueRefused(r) ==
    LET q == task[r].run IN
    /\ task[r].pc = "enqueue"
    /\ faults < MaxFaults
    /\ faults' = faults + 1
    /\ unsent' = IF row[q].state = Queued /\ messages[q] = 0 THEN unsent \cup {q} ELSE unsent
    /\ Step(r, "raised", q, task[r].seen)
    /\ UNCHANGED <<row, messages, prep, index, client, marked, faulted, replayed, restarts>>

(* The request may be tried again only when no row of this id was stored. *)
Forget(r) ==
    index' = IF index[Request[r]] = r THEN [index EXCEPT ![Request[r]] = NoRun] ELSE index

MarkFailed(r) ==
    /\ task[r].pc = "raised"
    /\ prep' = [prep EXCEPT ![r] = [run |-> @.run, state |-> Failed]]
    /\ IF row[r].state = Absent THEN Forget(r) ELSE UNCHANGED index
    /\ Step(r, "done", task[r].run, task[r].seen)
    /\ UNCHANGED <<row, messages, client, history>>

(* Slip: only a run that still waits is cancelled. *)
CancelRowQueued(q) ==
    IF row[q].state = Queued
    THEN row' = [row EXCEPT ![q] = BuildTransition(row[q], CancelRequested, row[q].progress)]
    ELSE UNCHANGED row

(* What request_cancel does to the row of run q. *)
CancelRow(q) ==
    IF row[q].state \in ActiveStates
    THEN row' = [row EXCEPT ![q] = BuildTransition(row[q], CancelRequested, row[q].progress)]
    ELSE UNCHANGED row

Settled(r, q, seen) ==
    /\ prep' = [prep EXCEPT ![r] = [run |-> q, state |-> seen]]
    /\ Step(r, "done", q, task[r].seen)
    /\ UNCHANGED <<messages, index, client>>

(* Slip: the preparation does not look whether it was cancelled meanwhile. *)
SettleBlindly(r) ==
    LET q == task[r].run IN
    /\ task[r].pc = "settle"
    /\ Settled(r, q, task[r].seen) /\ UNCHANGED <<row, history>>

(* The locked block at the end of _prepare.  A cancellation marked in the  *)
(* meantime is passed on to the store; when that raises (the row is        *)
(* finished, three attempts lost to a worker, the store unreachable) it is *)
(* only logged and the record submit returned is kept.                     *)
Settle(r) ==
    LET q    == task[r].run
        seen == task[r].seen
    IN
    /\ task[r].pc = "settle"
    /\ \/ /\ prep[r].state # CancelRequested
          /\ Settled(r, q, seen) /\ UNCHANGED <<row, history>>
       \/ /\ prep[r].state = CancelRequested
          /\ CancelRow(q)
          /\ Settled(r, q, IF row[q].state \in {Succeeded, Failed} THEN seen ELSE row'[q].state)
          /\ UNCHANGED history
       \/ /\ prep[r].state = CancelRequested
          /\ faults < MaxFaults
          /\ faults' = faults + 1 /\ faulted' = faulted \cup {r}
          /\ Settled(r, q, seen)
          /\ UNCHANGED <<row, marked, unsent, replayed, restarts>>

-----------------------------------------------------------------------------
(* POST /{run_id}/cancel *)

Reply(c, pc, run, target) ==
    client' = [client EXCEPT ![c] = [pc |-> pc, run |-> run, target |-> target]]

(* _get_record; "seen" is the state the route got. *)
CancelLookup(c, r) ==
    LET found == Lookup(r) IN
    /\ client[c].pc = "idle"
    /\ found.state # Absent
    /\ Reply(c, IF found.state \in {Succeeded, Failed} THEN "refused"
                ELSE IF found.state \in {CancelRequested, Cancelled} THEN "checkCancelled"
                ELSE "check", r, found.run)
    /\ UNCHANGED <<row, messages, prep, index, task, history>>

(* store.get(current.run_id) is None: only the preparation can be cancelled. *)
CancelCheck(c) ==
    LET target == client[c].target IN
    /\ client[c].pc \in {"check", "checkCancelled"}
    /\ Reply(c, IF row[target].state = Absent THEN "preparation"
                ELSE IF client[c].pc = "check" THEN "stored" ELSE "accepted",
             client[c].run, target)
    /\ UNCHANGED <<row, messages, prep, index, task, history>>

(* Slip: a preparation is called cancelled whether or not it has started. *)
CancelPreparationAnyway(c) ==
    LET r == client[c].run IN
    /\ client[c].pc = "preparation"
    /\ prep[r].state \notin TerminalStates \cup {CancelRequested, Absent}
    /\ prep' = [prep EXCEPT ![r] = [run |-> @.run, state |-> Cancelled]]
    /\ Reply(c, "accepted", r, r)
    /\ UNCHANGED <<row, messages, index, task, history>>

(* Slip: a preparation cancelled while it waits is forgotten. *)
CancelPreparationForgets(c) ==
    LET r == client[c].run IN
    /\ client[c].pc = "preparation"
    /\ task[r].pc = "waiting"
    /\ prep' = [prep EXCEPT ![r] = NoPrep]
    /\ Step(r, "cancelled", NoRun, Absent)
    /\ Forget(r)
    /\ Reply(c, "accepted", r, r)
    /\ UNCHANGED <<row, messages, history>>

(* request_cancel_preparation; future.cancel() succeeds while the task     *)
(* still waits for a thread.  The client is told cancel_requested all the  *)
(* same when the preparation has settled since the route looked; nobody    *)
(* reads the mark any more ("overtaken").                                  *)
CancelPreparation(c) ==
    LET r == client[c].run
        Mark(state) == prep' = [prep EXCEPT ![r] = [run |-> @.run, state |-> state]]
        told == IF task[r].pc = "done" THEN "overtaken" ELSE "accepted"
    IN
    /\ client[c].pc = "preparation"
    /\ \/ /\ prep[r] = NoPrep
          /\ Reply(c, "notFound", r, NoRun)
          /\ UNCHANGED <<prep, index, task, marked>>
       \/ /\ prep[r].state \in TerminalStates \cup {CancelRequested}
          /\ Reply(c, told, r, prep[r].run)
          /\ UNCHANGED <<prep, index, task, marked>>
       \/ /\ prep[r].state \in ActiveStates /\ task[r].pc = "waiting"
          /\ Mark(Cancelled)
          /\ Step(r, "cancelled", NoRun, Absent)
          /\ Forget(r)
          /\ Reply(c, "accepted", r, r)
          /\ UNCHANGED marked
       \/ /\ prep[r].state \in ActiveStates /\ task[r].pc # "waiting"
          /\ Mark(CancelRequested)
          /\ marked' = IF r \in Preparing THEN marked \cup {r} ELSE marked
          /\ Reply(c, told, r, prep[r].run)
          /\ UNCHANGED <<index, task>>
    /\ UNCHANGED <<row, messages, faulted, unsent, replayed, faults, restarts>>

CancelStored(c) ==
    LET target == client[c].target IN
    /\ client[c].pc = "stored"
    /\ CancelRow(target)
    /\ Reply(c, IF row[target].state \in {Succeeded, Failed} THEN "refused" ELSE "accepted",
             client[c].run, target)
    /\ UNCHANGED <<messages, prep, index, task, history>>

-----------------------------------------------------------------------------
(* Environment. *)

(* Slip: a worker that does not wait for a message. *)
WorkerTakesAnyway(q) ==
    /\ messages' = [messages EXCEPT ![q] = @ - 1]
    /\ UNCHANGED <<row, prep, index, task, client, history>>

(* A worker takes a message: a queued run is claimed, a cancel-requested   *)
(* one is cancelled, any other is left alone.                              *)
WorkerTakes(q) ==
    /\ messages[q] > 0
    /\ messages' = [messages EXCEPT ![q] = @ - 1]
    /\ \/ row[q].state = Queued /\ Store!MoveRow(q, RunningData, 10)
       \/ row[q].state = CancelRequested /\ Store!MoveRow(q, Cancelled, row[q].progress)
       \/ row[q].state \notin {Queued, CancelRequested} /\ UNCHANGED row
    /\ UNCHANGED <<prep, index, task, client, history>>

(* The owner of a claimed run goes on. *)
WorkerMoves(q) ==
    /\ row[q].state \in RunningStates \cup {CancelRequested}
    /\ \E target \in RunningStates \cup TerminalStates :
          /\ target # row[q].state
          /\ Store!MoveRow(q, target, IF target = Succeeded THEN 100 ELSE row[q].progress)
    /\ UNCHANGED <<messages, prep, index, task, client, history>>

(* The API process dies and comes back: what it held in memory is gone,    *)
(* and so are the messages when the queue is a thread pool.                *)
Restart ==
    /\ restarts < MaxRestarts
    /\ restarts' = restarts + 1
    /\ prep' = [r \in Runs |-> NoPrep]
    /\ index' = [q \in Requests |-> NoRun]
    /\ task' = [r \in Runs |->
                  Task(IF task[r].pc = "none" THEN "none" ELSE "dead", NoRun, Absent)]
    /\ client' = [c \in Clients |-> [pc |-> "idle", run |-> NoRun, target |-> NoRun]]
    /\ messages' \in {messages, [r \in Runs |-> 0]}
    /\ unsent' = {q \in Runs : row[q].state = Queued /\ messages'[q] = 0}
    /\ marked' = {}
    /\ UNCHANGED <<row, faulted, replayed, faults>>

-----------------------------------------------------------------------------

PrepareStep(r) ==
    \/ Start(r) \/ PrepareRaises(r) \/ Create(r) \/ Enqueue(r) \/ EnqueueRefused(r)
    \/ MarkFailed(r) \/ Settle(r)

Next ==
    \/ \E r \in Runs : Submit(r) \/ PrepareStep(r) \/ WorkerTakes(r) \/ WorkerMoves(r)
    \/ \E q \in Requests : SubmitReplay(q)
    \/ \E c \in Clients, r \in Runs : CancelLookup(c, r)
    \/ \E c \in Clients : CancelCheck(c) \/ CancelPreparation(c) \/ CancelStored(c)
    \/ Restart

(* The executor's threads and the workers keep running. *)
Fairness == \A r \in Runs : WF_vars(PrepareStep(r)) /\ WF_vars(WorkerTakes(r))

Spec     == Init /\ [][Next]_vars
FairSpec == Spec /\ Fairness

-----------------------------------------------------------------------------
(* Properties. *)

TypeOK ==
    /\ row \in [Runs -> Records]
    /\ messages \in [Runs -> Nat]
    /\ prep \in [Runs -> [run : Runs \cup {NoRun}, state : RunStateSet \cup {Absent}]]
    /\ index \in [Requests -> Runs \cup {NoRun}]
    /\ task \in [Runs -> [pc : {"none", "waiting", "create", "enqueue", "raised", "settle",
                                "done", "cancelled", "dead"},
                         run : Runs \cup {NoRun}, seen : RunStateSet \cup {Absent}]]
    /\ client \in [Clients -> [pc : {"idle", "check", "checkCancelled", "preparation",
                                     "stored", "accepted", "overtaken", "refused", "notFound"},
                               run : Runs \cup {NoRun}, target : Runs \cup {NoRun}]]
    /\ marked \subseteq Runs /\ faulted \subseteq Runs
    /\ unsent \subseteq Runs /\ replayed \subseteq Runs
    /\ faults \in 0..MaxFaults /\ restarts \in 0..MaxRestarts

(* The ids this process has handed out. *)
Issued == {r \in Runs : task[r].pc \notin {"none", "dead"}}

(* One request is prepared at most once at a time, however often it is     *)
(* posted, cancelled and posted again (the index lookup in submit, and the *)
(* two places where the index entry is dropped).                           *)
OnePreparation ==
    \A r, s \in Runs :
        /\ {task[r].pc, task[s].pc} \subseteq {"waiting", "create", "enqueue", "raised", "settle"}
        /\ Request[r] = Request[s]
        => r = s

(* An id returned by POST can be polled until the process ends, whichever  *)
(* way its preparation went: stored, aliased, failed or cancelled.         *)
EveryIdAnswers == \A r \in Issued : Lookup(r).state # Absent

(* A poller that has seen succeeded, failed or cancelled never sees        *)
(* anything else under the same id, although three sources can answer.     *)
FinalStaysFinal ==
    [][\A r \in Issued : (Lookup(r).state \in TerminalStates /\ r \in Issued')
            => Lookup(r)'.state = Lookup(r).state]_vars

(* A cancellation accepted while the data was being acquired reaches the   *)
(* stored run: when the preparation has settled, the run is not waiting or *)
(* running any more, unless the store refused.                             *)
PreparationCancelApplied ==
    \A r \in marked \ faulted :
        (task[r].pc = "done" /\ prep[r].state # Failed) =>
            row[prep[r].run].state \notin ActiveStates

(* Of the three ways a cancel request is told it was accepted (the run was *)
(* being cancelled, the row was written, the preparation was marked) each  *)
(* takes effect: once the preparation is over, the id is not waiting or    *)
(* running.  Only a mark that came after the preparation had settled, a    *)
(* preparation that raised, or a store that refused lose it.               *)
AcceptedCancelLands ==
    \A c \in Clients :
        LET r == client[c].run IN
        /\ client[c].pc = "accepted" /\ r \notin faulted
        /\ task[r].pc \in {"done", "cancelled"} /\ prep[r].state # Failed
        => Lookup(r).state \notin ActiveStates

(* A preparation that ends on a queued run, new or replayed after a crash  *)
(* that lost its message, has left a message for it in the queue.          *)
QueuedIsDelivered ==
    \A r \in Runs : task[r].pc = "settle" =>
        (row[task[r].run].state = Queued => messages[task[r].run] > 0)

(* What the runbook says of a run that was stored and never enqueued: a    *)
(* later POST of the same request puts it into the queue again.            *)
QueuedReplayRequeued ==
    \A r \in Runs : r \in replayed ~> r \notin unsent
==============================================================================
