---------------------------- MODULE ProductService ----------------------------
(***************************************************************************)
(* SkillBacktestService, the backtests of the product: a submission stores *)
(* a run and hands it to the thread queue of this process, a worker thread *)
(* acquires data, computes signals, simulates and reports, and preflight   *)
(* requests prepare the same data without a run.  Workers and preflights   *)
(* share the preparation cache.                                            *)
(*                                                                         *)
(* Every stage change reads the row and then writes it (_stage), so that a *)
(* cancellation can come in between.  The cancellation itself is one step: *)
(* RunLifecycle shows that its read and write behave as one.               *)
(***************************************************************************)
EXTENDS RunStates, Sequences, FiniteSets

CONSTANTS
    JobRuns,        (* run ids; every submission makes a new one *)
    Preflights,     (* prepare_candidate requests *)
    DataKey,        (* the request_key of a run or preflight *)
    Refreshes,      (* the runs and preflights that force a fresh read *)
    MaxWorkers,     (* worker threads *)
    Capacity,       (* max_workers + max_pending, the permits of the queue *)
    CacheSize,      (* _PREPARATION_CACHE_MAX_ENTRIES (16 in the code) *)
    MaxRetries      (* bound: provider retries shown to the user, per run *)

ASSUME ServiceBounds ==
    /\ MaxWorkers \in Nat \ {0} /\ Capacity \in Nat \ {0} /\ Capacity >= MaxWorkers
    /\ CacheSize \in Nat \ {0} /\ MaxRetries \in Nat
ASSUME RefreshesKnown == Refreshes \subseteq JobRuns \cup Preflights

VARIABLES
    record,         (* the run store *)
    submission,     (* how far submit has come, per run *)
    job,            (* the future of each run and how far execute has come *)
    permits,        (* _capacity: the permits that are out *)
    closed,         (* shutdown has been called *)
    cache,          (* _preparation_cache, least recently used first *)
    epoch,          (* _preparation_epoch *)
    preflight,      (* the local state of each preflight *)
    accepted,       (* history: runs whose cancellation was accepted *)
    broken,         (* history: runs that met an error or a refusing queue *)
    raced,          (* history: cancelled between the two halves of _stage *)
    stranded        (* history: runs whose failure could not be written, for *)
                    (* they had been cancelled meanwhile *)

ServiceHistory == <<accepted, broken, raced, stranded>>
ServiceVars == <<record, submission, job, permits, closed, cache, epoch, preflight,
                 ServiceHistory>>

RunRow == INSTANCE RunContract WITH
    Runs <- JobRuns, Fingerprint <- [r \in JobRuns |-> r], row <- record

-----------------------------------------------------------------------------

(* target: the stage being entered.  cur: the row as it was last read.     *)
(* born: the epoch in which the data was asked for, Unborn before.  hit:   *)
(* the cache had it.  retries: retries shown so far.                       *)
Unborn == -1
Job(pc, target, cur, born, hit, retries) ==
    [pc |-> pc, target |-> target, cur |-> cur, born |-> born, hit |-> hit, retries |-> retries]
NoJob(pc) == Job(pc, Queued, NoRow, Unborn, FALSE, 0)

JobPcs == {"none", "waiting", "stageRead", "stageWrite", "prepare", "load",
           "signals", "label", "check", "publish", "simulate", "report", "cancelling",
           "handler", "failing", "ended", "done"}

Occupied == {r \in JobRuns : job[r].pc \notin {"none", "waiting", "done"}}

ServiceInit ==
    /\ record = [r \in JobRuns |-> NoRow]
    /\ submission = [r \in JobRuns |-> "new"]
    /\ job = [r \in JobRuns |-> NoJob("none")]
    /\ permits = 0 /\ closed = FALSE
    /\ cache = <<>> /\ epoch = 0
    /\ preflight = [p \in Preflights |-> [pc |-> "idle", born |-> Unborn]]
    /\ accepted = {} /\ broken = {} /\ raced = {} /\ stranded = {}

-----------------------------------------------------------------------------
(* submit and the thread queue. *)

Becomes(r, j) == job' = [job EXCEPT ![r] = j]
SubmissionAt(r, pc) == submission' = [submission EXCEPT ![r] = pc]
Breaks(r) == broken' = broken \cup {r} /\ UNCHANGED <<accepted, raced, stranded>>
Strands(r) == stranded' = stranded \cup {r} /\ UNCHANGED record

SubmitRun(r) ==
    /\ submission[r] = "new"
    /\ RunRow!CreateRow(r)
    /\ SubmissionAt(r, "enqueue")
    /\ UNCHANGED <<job, permits, closed, cache, epoch, preflight, ServiceHistory>>

(* The semaphore is taken without waiting for it. *)
AcquirePermit(r) ==
    /\ submission[r] = "enqueue"
    /\ \/ /\ permits < Capacity
          /\ permits' = permits + 1
          /\ SubmissionAt(r, "acquired")
          /\ UNCHANGED ServiceHistory
       \/ /\ permits = Capacity
          /\ SubmissionAt(r, "refused") /\ Breaks(r)
          /\ UNCHANGED permits
    /\ UNCHANGED <<record, job, closed, cache, epoch, preflight>>

(* Slip: a permit is lost when the executor refuses. *)
SubmitFutureLeaks(r) ==
    /\ submission[r] = "acquired"
    /\ \/ /\ ~closed
          /\ Becomes(r, NoJob("waiting"))
          /\ SubmissionAt(r, "done")
          /\ UNCHANGED <<permits, ServiceHistory>>
       \/ /\ closed
          /\ SubmissionAt(r, "refused") /\ Breaks(r)
          /\ UNCHANGED <<job, permits>>
    /\ UNCHANGED <<record, closed, cache, epoch, preflight>>

(* The executor raises once it has been shut down. *)
SubmitFuture(r) ==
    /\ submission[r] = "acquired"
    /\ \/ /\ ~closed
          /\ Becomes(r, NoJob("waiting"))
          /\ SubmissionAt(r, "done")
          /\ UNCHANGED <<permits, ServiceHistory>>
       \/ /\ closed
          /\ permits' = permits - 1
          /\ SubmissionAt(r, "refused") /\ Breaks(r)
          /\ UNCHANGED job
    /\ UNCHANGED <<record, closed, cache, epoch, preflight>>

(* A run the queue refused has failed, unless it was cancelled meanwhile:  *)
(* then the write raises and the run stays as it is, with no job.          *)
FailRefused(r) ==
    /\ submission[r] = "refused"
    /\ SubmissionAt(r, "done")
    /\ \/ record[r].state = Queued /\ RunRow!MoveRow(r, Failed, 0) /\ UNCHANGED stranded
       \/ record[r].state # Queued /\ Strands(r)
    /\ UNCHANGED <<job, permits, closed, cache, epoch, preflight, accepted, broken, raced>>

(* shutdown: jobs already accepted still run. *)
Shutdown ==
    /\ ~closed /\ closed' = TRUE
    /\ UNCHANGED <<record, submission, job, permits, cache, epoch, preflight, ServiceHistory>>

(* request_cancel. *)
CancelRun(r) ==
    /\ record[r].state \in ActiveStates
    /\ RunRow!MoveRow(r, CancelRequested, record[r].progress)
    /\ accepted' = accepted \cup {r}
    /\ UNCHANGED <<submission, job, permits, closed, cache, epoch, preflight, broken, raced,
                   stranded>>

-----------------------------------------------------------------------------
(* The preparation cache; its lock makes each of these one step. *)

Asked(q) == {i \in DOMAIN cache : cache[i].key = DataKey[q]}

Without(entries, dropped) ==
    LET keep(i) == Cardinality({j \in DOMAIN entries \ dropped : j <= i}) IN
    [n \in 1..Cardinality(DOMAIN entries \ dropped) |->
        entries[CHOOSE i \in DOMAIN entries \ dropped : keep(i) = n]]

(* The first locked block, when q forces a refresh: nothing older stays,   *)
(* and nothing older will be published.                                    *)
Refresh(q) == q \in Refreshes /\ cache' = <<>> /\ epoch' = epoch + 1

(* The same, otherwise: some entries may have expired; what is found moves *)
(* to the end.                                                             *)
FindPrepared(q, expired) ==
    /\ q \notin Refreshes
    /\ expired \subseteq DOMAIN cache
    /\ cache' = IF Asked(q) \subseteq expired THEN Without(cache, expired)
                ELSE Without(cache, expired \cup Asked(q))
                       \o <<cache[CHOOSE i \in Asked(q) : TRUE]>>
    /\ UNCHANGED epoch

(* What is found is not reused when corporate actions have to be read for  *)
(* every preparation (reuse).                                              *)
Reusable(q, expired, reuse) == reuse => ~(Asked(q) \subseteq expired)

(* Slip: nothing is ever evicted. *)
NewestAll(entries) == entries

(* Insertion evicts the least recently used entries. *)
Newest(entries) ==
    IF Len(entries) <= CacheSize THEN entries
    ELSE SubSeq(entries, Len(entries) - CacheSize + 1, Len(entries))

(* Slip: whatever was loaded is published. *)
PublishAnyway(q, born) ==
    cache' = Newest(Without(cache, Asked(q)) \o <<[key |-> DataKey[q], born |-> born]>>)

(* The last locked block: data asked for before a refresh is not kept. *)
Publish(q, born) ==
    cache' = IF born # epoch THEN cache
             ELSE Newest(Without(cache, Asked(q)) \o <<[key |-> DataKey[q], born |-> born]>>)

-----------------------------------------------------------------------------
(* execute. *)

(* execute forgets what it has read, and on its way out the rest as well. *)
Held(j, pc, cur) == Job(pc, j.target, cur, j.born, j.hit, j.retries)
JobAt(r, pc) ==
    Becomes(r, IF pc \in {"cancelling", "handler", "ended", "done"} THEN NoJob(pc)
               ELSE Held(job[r], pc, NoRow))
Enters(r, target) ==
    LET kept == IF target \in {RunningData, RunningSignal} THEN job[r] ELSE NoJob("none") IN
    Becomes(r, Job("stageRead", target, NoRow, kept.born, kept.hit, kept.retries))
Read(r, pc) == Becomes(r, Held(job[r], pc, record[r]))

JobOnly == UNCHANGED <<record, submission, permits, closed, cache, epoch, preflight,
                       ServiceHistory>>
JobAndRow == UNCHANGED <<submission, permits, closed, cache, epoch, preflight>>

(* A thread takes the job: nothing is left to do, or the data is next, or  *)
(* the strategy is not supported any more.                                 *)
StartJob(r) ==
    /\ job[r].pc = "waiting" /\ Cardinality(Occupied) < MaxWorkers
    /\ \/ record[r].state \in TerminalStates /\ JobAt(r, "ended") /\ UNCHANGED broken
       \/ record[r].state \notin TerminalStates /\ Enters(r, RunningData) /\ UNCHANGED broken
       \/ record[r].state \notin TerminalStates /\ JobAt(r, "handler") /\ broken' = broken \cup {r}
    /\ UNCHANGED <<record, accepted, raced, stranded>> /\ JobAndRow

ReadStage(r) ==
    /\ job[r].pc = "stageRead"
    /\ \/ record[r].state = CancelRequested /\ JobAt(r, "cancelling")
       \/ record[r].state # CancelRequested /\ Read(r, "stageWrite")
    /\ JobOnly

StageProgress(target) ==
    CASE target = RunningData -> 10 [] target = RunningSignal -> 45
      [] target = RunningExec -> 70 [] target = RunningReport -> 95
      [] target = Succeeded -> 100

(* What execute does after it has entered a stage. *)
AfterStage(r) ==
    LET target == job[r].target IN
    \/ target = RunningData /\ JobAt(r, IF job[r].born = Unborn THEN "prepare" ELSE "load")
    \/ target = RunningSignal /\ ~job[r].hit /\ JobAt(r, "signals")
    \/ target = RunningSignal /\ job[r].hit /\ Enters(r, RunningExec)
    \/ target = RunningExec /\ JobAt(r, "simulate")
    \/ target = RunningReport /\ JobAt(r, "report")
    \/ target = Succeeded /\ JobAt(r, "ended")

WriteStage(r) ==
    /\ job[r].pc = "stageWrite"
    /\ \/ /\ record[r].state = job[r].cur.state
          /\ RunRow!MoveRow(r, job[r].target, StageProgress(job[r].target))
          /\ AfterStage(r)
          /\ UNCHANGED raced
       \/ /\ record[r].state # job[r].cur.state
          /\ raced' = raced \cup {r}
          /\ JobAt(r, "handler")
          /\ UNCHANGED record
    /\ UNCHANGED <<accepted, broken, stranded>> /\ JobAndRow

(* Data is asked for in an epoch. *)
Asking(j, born) == Job("load", j.target, NoRow, born, j.hit, j.retries)

Prepare(r) ==
    /\ job[r].pc = "prepare"
    /\ \/ Refresh(r) /\ Becomes(r, Asking(job[r], epoch + 1))
       \/ \E expired \in SUBSET DOMAIN cache, reuse \in BOOLEAN :
             /\ FindPrepared(r, expired) /\ Reusable(r, expired, reuse)
             /\ Becomes(r, IF reuse
                           THEN Job("stageRead", RunningSignal, NoRow, Unborn, TRUE, job[r].retries)
                           ELSE Asking(job[r], epoch))
    /\ UNCHANGED <<record, submission, permits, closed, preflight, ServiceHistory>>

(* The data has come, the signals are there, the simulation is done, the   *)
(* result is put together.                                                 *)
WorkDone(r) ==
    /\ \/ job[r].pc = "load" /\ Enters(r, RunningSignal)
       \/ job[r].pc = "signals" /\ JobAt(r, "check")
       \/ job[r].pc = "simulate" /\ Enters(r, RunningReport)
       \/ job[r].pc = "report" /\ Enters(r, Succeeded)
    /\ JobOnly

WorkRaises(r) ==
    /\ job[r].pc \in {"load", "signals", "simulate", "report"}
    /\ JobAt(r, "handler") /\ Breaks(r)
    /\ UNCHANGED record /\ JobAndRow

(* The warmup begins before the listing: less is asked for, and the stage  *)
(* says so.                                                                *)
LoadAgain(r) ==
    /\ job[r].pc = "load" /\ job[r].retries < MaxRetries
    /\ Becomes(r, Job("stageRead", RunningData, NoRow, job[r].born, job[r].hit,
                     job[r].retries + 1))
    /\ JobOnly

(* _with_retry_progress: a provider call is retried, and the label says so *)
(* unless the run has been cancelled.  While the simulation reads          *)
(* corporate actions a retry shows nothing, but it does notice a           *)
(* cancellation.                                                           *)
ReadLabel(r) ==
    /\ job[r].pc \in {"load", "signals", "simulate"} /\ job[r].retries < MaxRetries
    /\ \/ record[r].state = CancelRequested /\ JobAt(r, "cancelling")
       \/ /\ job[r].pc # "simulate"
          /\ record[r].state \in {RunningData, RunningSignal}
          /\ Becomes(r, Job("label", record[r].state, record[r], job[r].born, job[r].hit,
                           job[r].retries + 1))
    /\ JobOnly

(* Slip: a label that cannot be written fails the run. *)
WriteLabelStrictly(r) ==
    LET working == IF job[r].target = RunningData THEN "load" ELSE "signals" IN
    /\ job[r].pc = "label"
    /\ \/ /\ record[r].version = job[r].cur.version
          /\ RunRow!MoveRow(r, job[r].cur.state, record[r].progress)
          /\ JobAt(r, working)
       \/ /\ record[r].version # job[r].cur.version
          /\ JobAt(r, "handler") /\ UNCHANGED record
    /\ UNCHANGED ServiceHistory /\ JobAndRow

WriteLabel(r) ==
    LET working == IF job[r].target = RunningData THEN "load" ELSE "signals" IN
    /\ job[r].pc = "label"
    /\ \/ /\ record[r].version = job[r].cur.version
          /\ RunRow!MoveRow(r, job[r].cur.state, record[r].progress)
          /\ JobAt(r, working)
       \/ /\ record[r].version # job[r].cur.version
          /\ JobAt(r, IF record[r].state = CancelRequested THEN "cancelling" ELSE working)
          /\ UNCHANGED record
    /\ UNCHANGED ServiceHistory /\ JobAndRow

(* A cancelled run does not publish what it prepared. *)
CheckCancelled(r) ==
    /\ job[r].pc = "check"
    /\ JobAt(r, IF record[r].state = CancelRequested THEN "cancelling" ELSE "publish")
    /\ JobOnly

PublishPrepared(r) ==
    /\ job[r].pc = "publish"
    /\ Publish(r, job[r].born)
    /\ Enters(r, RunningExec)
    /\ UNCHANGED <<record, submission, permits, closed, epoch, preflight, ServiceHistory>>

(* except _Cancelled. *)
AcknowledgeCancel(r) ==
    /\ job[r].pc = "cancelling"
    /\ RunRow!MoveRow(r, Cancelled, record[r].progress)
    /\ JobAt(r, "ended")
    /\ UNCHANGED ServiceHistory /\ JobAndRow

(* except Exception: whatever state the run is in, it has failed. *)
ReadFailing(r) ==
    /\ job[r].pc = "handler"
    /\ \/ record[r].state \in TerminalStates /\ JobAt(r, "ended")
       \/ record[r].state \notin TerminalStates /\ Read(r, "failing")
    /\ JobOnly

(* Only a cancellation can come between; the write then raises, the job    *)
(* ends, and the run stays cancel-requested.                               *)
WriteFailed(r) ==
    /\ job[r].pc = "failing"
    /\ \/ /\ record[r].state = job[r].cur.state
          /\ RunRow!MoveRow(r, Failed, record[r].progress) /\ UNCHANGED stranded
       \/ record[r].state # job[r].cur.state /\ Strands(r)
    /\ JobAt(r, "ended")
    /\ UNCHANGED <<accepted, broken, raced>> /\ JobAndRow

(* _report, called when the future is done. *)
ReturnPermit(r) ==
    /\ job[r].pc = "ended"
    /\ permits' = permits - 1
    /\ JobAt(r, "done")
    /\ UNCHANGED <<record, submission, closed, cache, epoch, preflight, ServiceHistory>>

-----------------------------------------------------------------------------
(* prepare_candidate. *)

PreflightOnly == UNCHANGED <<record, submission, job, permits, closed, ServiceHistory>>
PreflightAt(p, pc, born) == preflight' = [preflight EXCEPT ![p] = [pc |-> pc, born |-> born]]

BeginPreflight(p) ==
    /\ preflight[p].pc = "idle"
    /\ \/ Refresh(p) /\ PreflightAt(p, "load", epoch + 1)
       \/ \E expired \in SUBSET DOMAIN cache, reuse \in BOOLEAN :
             /\ FindPrepared(p, expired) /\ Reusable(p, expired, reuse)
             /\ IF reuse THEN PreflightAt(p, "done", Unborn)
                ELSE PreflightAt(p, "load", epoch)
    /\ PreflightOnly

EndPreflight(p) ==
    /\ preflight[p].pc = "load"
    /\ \/ Publish(p, preflight[p].born)
       \/ UNCHANGED cache
    /\ PreflightAt(p, "done", Unborn)
    /\ UNCHANGED epoch /\ PreflightOnly

-----------------------------------------------------------------------------

SubmitStep(r) == SubmitRun(r) \/ AcquirePermit(r) \/ SubmitFuture(r) \/ FailRefused(r)

JobStep(r) ==
    \/ ReadStage(r) \/ WriteStage(r) \/ Prepare(r) \/ WorkDone(r)
    \/ WorkRaises(r) \/ LoadAgain(r) \/ ReadLabel(r) \/ WriteLabel(r) \/ CheckCancelled(r)
    \/ PublishPrepared(r) \/ AcknowledgeCancel(r) \/ ReadFailing(r) \/ WriteFailed(r)
    \/ ReturnPermit(r)

ServiceNext ==
    \/ \E r \in JobRuns : SubmitStep(r) \/ StartJob(r) \/ JobStep(r) \/ CancelRun(r)
    \/ \E p \in Preflights : BeginPreflight(p) \/ EndPreflight(p)
    \/ Shutdown

(* Threads of the process go on; a queued future is started in its turn. *)
ServiceFairness ==
    \A r \in JobRuns :
        /\ WF_ServiceVars(AcquirePermit(r) \/ SubmitFuture(r) \/ FailRefused(r))
        /\ WF_ServiceVars(StartJob(r)) /\ WF_ServiceVars(JobStep(r))

ServiceSpec == ServiceInit /\ [][ServiceNext]_ServiceVars

-----------------------------------------------------------------------------
(* Properties. *)

ServiceTypeOK ==
    /\ record \in [JobRuns -> Records]
    /\ submission \in [JobRuns -> {"new", "enqueue", "acquired", "refused", "done"}]
    /\ job \in [JobRuns -> [pc : JobPcs, target : RunStateSet, cur : Records,
                            born : Nat \cup {Unborn}, hit : BOOLEAN, retries : 0..MaxRetries]]
    /\ permits \in 0..Capacity
    /\ closed \in BOOLEAN
    /\ Len(cache) <= CacheSize
    /\ \A i \in DOMAIN cache : cache[i].born \in Nat
    /\ epoch \in Nat
    /\ preflight \in [Preflights -> [pc : {"idle", "load", "done"}, born : Nat \cup {Unborn}]]
    /\ {accepted, broken, raced, stranded} \subseteq SUBSET JobRuns

(* A result is never published for a run whose cancellation was accepted,  *)
(* a run is cancelled only if it was asked for, and it fails only because  *)
(* something failed: showing the user that a provider call is being        *)
(* retried never does that.  (A cancellation that falls between reading    *)
(* and writing a stage does end the run as failed; raced notes it.)        *)
EndsHonestly ==
    \A r \in JobRuns :
        /\ record[r].state = Succeeded => r \notin accepted
        /\ record[r].state = Cancelled => r \in accepted
        /\ record[r].state = Failed => r \in broken \cup raced

(* After a forced refresh no data asked for earlier is served: not even by *)
(* a slow preparation that publishes when the refresh is long done.  There *)
(* is one entry for each request.                                          *)
PreparationsFresh ==
    \A i, j \in DOMAIN cache :
        /\ cache[i].born = epoch
        /\ cache[i].key = cache[j].key => i = j

(* Every stored run ends, and every permit comes back, whether its run was *)
(* executed, refused, cancelled or broken; only a run cancelled while its  *)
(* failure was being written is left behind.                               *)
JobsSettle ==
    /\ \A r \in JobRuns :
          record[r].state # Absent ~> (record[r].state \in TerminalStates \/ r \in stranded)
    /\ <>[](permits = 0)
==============================================================================
