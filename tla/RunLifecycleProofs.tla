-------------------------- MODULE RunLifecycleProofs ---------------------------
(***************************************************************************)
(* Proofs about RunLifecycle for every set of runs, workers and clients    *)
(* and every value of the bounds: types, the ownership invariants behind   *)
(* the safety properties, and the implementation of RunContract.           *)
(*                                                                         *)
(* The argument of the second part is the ownership of                     *)
(* execute_backtest.py. A worker that has claimed its run keeps the record *)
(* it wrote last; nobody else moves the row of a claimed run except        *)
(* towards cancel_requested and cancelled. Owned says what an owner may    *)
(* therefore conclude from comparing the row with its record, and the      *)
(* safety properties of RunLifecycle follow from it.                       *)
(***************************************************************************)
EXTENDS RunLifecycle, TLAPS

USE NoRunAssumption, FingerprintAssumption, BoundsAssumption

-----------------------------------------------------------------------------
(* The stages as data. *)

StageState == <<RunningData, RunningSignal, RunningExec, RunningReport>>

LEMMA StateFacts ==
    /\ RunStateSet = {Queued, RunningData, RunningSignal, RunningExec, RunningReport,
                      CancelRequested, Succeeded, Failed, Cancelled}
    /\ Absent \notin RunStateSet
    /\ QueuedRow \in Records /\ NoRow \in Records
  BY DEF RunStateSet, ActiveStates, RunningStates, TerminalStates, Queued, RunningData,
     RunningSignal, RunningExec, RunningReport, CancelRequested, Succeeded, Failed,
     Cancelled, Absent, QueuedRow, NoRow, Records

LEMMA StageFacts ==
    \A k \in 1..3 :
        /\ TargetOf[k] \in RunningStates
        /\ TargetOf[k] = StageState[k + 1]
        /\ <<StageState[k], TargetOf[k]>> \in StageEdges
        /\ ~AtOrPast(StageState[k], TargetOf[k])
        /\ ProgressOf[k] \in 0..100
  <1> TAKE k \in 1..3
  <1>1. k = 1 \/ k = 2 \/ k = 3
    OBVIOUS
  <1> QED
    BY <1>1 DEF TargetOf, StageState, StageEdges, ProgressOf, AtOrPast, RunningRank, RunningStates, Queued,
       RunningData, RunningSignal, RunningExec, RunningReport

(* A write that succeeds stores a record, from a row that exists and is   *)
(* not terminal.                                                          *)
LEMMA BuiltRecord ==
    ASSUME NEW r \in Records, NEW target \in RunStateSet, NEW progress \in 0..100,
           CanBuild(r, target, progress)
    PROVE  /\ BuildTransition(r, target, progress) \in Records
           /\ r.state \notin TerminalStates \cup {Absent}
  BY StateFacts DEF CanBuild, BuildTransition, AllowedTransition, StageEdges, Records,
     TerminalStates, ActiveStates, RunningStates, RunStateSet, Queued, RunningData,
     RunningSignal, RunningExec, RunningReport, CancelRequested, Succeeded, Failed,
     Cancelled, Absent

-----------------------------------------------------------------------------
(* Types.  A worker that holds a message holds the id of a run, a stage    *)
(* counter stays in range, an unanswered cancel request has attempts left. *)

WorkerShape(w) ==
    /\ worker[w].pc # "idle" => worker[w].job \in Runs
    /\ worker[w].pc \in OwnerPcs => worker[w].stage \in 1..4
    /\ worker[w].pc = "advance" => worker[w].stage \in 1..3

ClientShape(c) ==
    /\ client[c].pc # "idle" => client[c].run \in Runs
    /\ client[c].pc \in {"get", "write"} => client[c].tries \in 0..2

Shape ==
    /\ \A w \in Workers : WorkerShape(w)
    /\ \A c \in Clients : ClientShape(c)
    /\ \A s \in Runs : sub[s].pc # "new" => sub[s].run \in Runs

TypeInv == TypeOK /\ Shape

LEMMA TypeInit == Init => TypeInv
  BY StateFacts DEF Init, TypeInv, TypeOK, Shape, WorkerShape, ClientShape, Idle, Local, Silent, Request,
     Locals, ClientLocals, WorkerPcs, OwnerPcs, Troubles

(* What a worker may turn into. *)
GoodLocal(local) ==
    /\ local \in Locals
    /\ local.pc # "idle" => local.job \in Runs
    /\ local.pc \in OwnerPcs => local.stage \in 1..4
    /\ local.pc = "advance" => local.stage \in 1..3

LEMMA IdleGood == GoodLocal(Idle)
  BY StateFacts DEF GoodLocal, Idle, Local, Locals, WorkerPcs, OwnerPcs

(* An owner that meets an exception keeps its records and its stage.       *)
LEMMA HandlerGood ==
    ASSUME NEW w \in Workers, worker[w] \in Locals, WorkerShape(w), worker[w].pc \in OwnerPcs
    PROVE  GoodLocal(At(w, "handler"))
  <1>1. /\ worker[w].job \in Runs \cup {NoRun} /\ worker[w].stage \in 0..4
        /\ worker[w].rec \in Records /\ worker[w].cur \in Records
    BY DEF Locals
  <1>2. worker[w].stage \in 1..4
    BY DEF WorkerShape
  <1>3. worker[w].job \in Runs
    BY DEF WorkerShape, OwnerPcs
  <1>4. At(w, "handler") \in Locals
    BY <1>1 DEF At, Local, Locals, WorkerPcs, OwnerPcs
  <1>5. /\ At(w, "handler").pc = "handler" /\ At(w, "handler").job = worker[w].job
        /\ At(w, "handler").stage = worker[w].stage
    BY DEF At, Local
  <1> QED
    BY <1>2, <1>3, <1>4, <1>5 DEF GoodLocal

LEMMA LocalType ==
    ASSUME TypeInv, NEW w \in Workers, NEW local, Become(w, local), GoodLocal(local)
    PROVE  /\ worker' \in [Workers -> Locals]
           /\ \A v \in Workers : WorkerShape(v)'
  <1>1. /\ worker' = [worker EXCEPT ![w] = local]
        /\ worker \in [Workers -> Locals]
        /\ \A v \in Workers : WorkerShape(v)
        /\ GoodLocal(local)
    BY DEF TypeInv, TypeOK, Shape, Become
  <1>2. worker' \in [Workers -> Locals]
    BY <1>1 DEF GoodLocal
  <1>3. ASSUME NEW v \in Workers
        PROVE  WorkerShape(v)'
    <2>1. CASE v = w
      BY <1>1, <2>1 DEF WorkerShape, GoodLocal
    <2>2. CASE v # w
      BY <1>1, <2>2 DEF WorkerShape
    <2> QED
      BY <2>1, <2>2
  <1> QED
    BY <1>2, <1>3

LEMMA WriteType ==
    ASSUME TypeInv, NEW w \in Workers, worker[w].job \in Runs,
           NEW expected, NEW target \in RunStateSet, NEW progress \in 0..100,
           NEW then, NEW otherwise,
           Write(w, expected, target, progress, then, otherwise),
           CanBuild(row[worker[w].job], target, progress) => GoodLocal(then),
           GoodLocal(otherwise)
    PROVE  TypeInv'
  <1> DEFINE r == worker[w].job
  <1>1. row[r] \in Records
    BY DEF TypeInv, TypeOK
  <1>2. PICK local : Become(w, local) /\ GoodLocal(local)
    BY DEF Write
  <1>3. /\ worker' \in [Workers -> Locals]
        /\ \A v \in Workers : WorkerShape(v)'
    BY <1>2, LocalType
  <1>4. row' \in [Runs -> Records]
    <2>1. CASE row' = row
      BY <2>1 DEF TypeInv, TypeOK
    <2>2. CASE /\ CanBuild(row[r], target, progress)
               /\ row' = [row EXCEPT ![r] = Written(w, target, progress)]
      <3>1. Written(w, target, progress) \in Records
        BY <1>1, <2>2, BuiltRecord DEF Written
      <3> QED
        BY <2>2, <3>1 DEF TypeInv, TypeOK
    <2> QED
      BY <2>1, <2>2 DEF Write
  <1>5. /\ trouble' \in [Runs -> SUBSET Troubles]
        /\ faults' \in 0..MaxFaults
        /\ crashes' \in 0..MaxCrashes
        /\ redelivered' \in 0..MaxRedeliver
    BY DEF Write, TypeInv, TypeOK, Troubles, bounds
  <1>6. UNCHANGED <<deliveries, sub, client>>
    BY DEF Write
  <1> QED
    BY <1>3, <1>4, <1>5, <1>6 DEF TypeInv, TypeOK, Shape, ClientShape

(* Every step of a worker keeps the types. *)
LEMMA WorkerStepType ==
    ASSUME TypeInv, NEW w \in Workers, WorkerStep(w)
    PROVE  TypeInv'
  <1> DEFINE r == worker[w].job
  <1>1. /\ worker[w] \in Locals
        /\ WorkerShape(w)
        /\ r \in Runs => row[r] \in Records
    BY DEF TypeInv, TypeOK, Shape
  <1>q. ASSUME NEW local, Become(w, local), WorkerOnly, GoodLocal(local)
        PROVE  TypeInv'
    BY <1>q, LocalType DEF WorkerOnly, bounds, TypeInv, TypeOK, Shape, ClientShape
  <1> USE DEF WorkerShape, OwnerPcs, WorkerPcs, Locals
  <1>2. CASE ReadJob(w)
    <2>1. /\ GoodLocal(With(w, "cancelOut", worker[w].rec, row[r]))
          /\ GoodLocal(With(w, "claim", row[r], NoRow))
      BY <1>1, <1>2, StateFacts DEF ReadJob, GoodLocal, With, Local
    <2> QED
      BY <1>2, <2>1, <1>q, IdleGood DEF ReadJob
  <1>3. CASE Claim(w)
    <2>a. /\ worker[w].pc = "claim" /\ r \in Runs /\ row[r] \in Records
          /\ worker[w].rec \in Records /\ worker[w].cur \in Records
          /\ worker[w].stage \in 0..4
      BY <1>1, <1>3 DEF Claim
    <2>b. ASSUME CanBuild(row[r], RunningData, 10)
          PROVE  GoodLocal(Claimed(w))
      <3>1. Written(w, RunningData, 10) \in Records
        BY <2>a, <2>b, StateFacts, BuiltRecord DEF Written
      <3> QED
        BY <2>a, <3>1, StateFacts DEF Claimed, GoodLocal, Local
    <2>c. GoodLocal(At(w, "claimLost"))
      BY <2>a DEF GoodLocal, At, Local
    <2>1. /\ CanBuild(row[r], RunningData, 10) => GoodLocal(Claimed(w))
          /\ GoodLocal(At(w, "claimLost"))
      BY <2>b, <2>c
    <2>2. r \in Runs /\ RunningData \in RunStateSet /\ 10 \in 0..100
      BY <1>1, <1>3, StateFacts DEF Claim
    <2>3. PICK expected : Write(w, expected, RunningData, 10, Claimed(w), At(w, "claimLost"))
      BY <1>3 DEF Claim
    <2> QED
      BY <2>1, <2>2, <2>3, WriteType
  <1>4. CASE ClaimLost(w)
    BY <1>4, <1>q, IdleGood DEF ClaimLost
  <1>5. CASE StageDone(w)
    <2> DEFINE k == worker[w].stage
    <2>1. /\ GoodLocal(With(w, "cancelIn", worker[w].rec, row[r]))
          /\ GoodLocal(At(w, "finish"))
          /\ k < 4 => GoodLocal(Local("stage", r, row[r], NoRow, k + 1))
          /\ k < 4 => GoodLocal(With(w, "advance", worker[w].rec, row[r]))
      BY <1>1, <1>5, StateFacts DEF StageDone, GoodLocal, At, With, Local
    <2> QED
      BY <1>5, <2>1, <1>q DEF StageDone
  <1>6. CASE StageRaises(w)
    <2>1. GoodLocal(At(w, "handler"))
      BY <1>1, <1>6 DEF StageRaises, GoodLocal, At, Local
    <2> QED
      BY <1>6, <2>1, LocalType DEF StageRaises, bounds, TypeInv, TypeOK, Shape, ClientShape, Troubles
  <1>7. CASE Advance(w)
    <2> DEFINE k == worker[w].stage
               progress == AtLeast(ProgressOf[k], worker[w].cur.progress)
               then == Local("stage", r, Written(w, TargetOf[k], progress), NoRow, k + 1)
    <2>1. r \in Runs /\ k \in 1..3 /\ worker[w].pc = "advance"
      BY <1>1, <1>7 DEF Advance
    <2>2. /\ TargetOf[k] \in RunStateSet
          /\ progress \in 0..100
      BY <1>1, <2>1, StageFacts DEF AtLeast, Records, RunStateSet, ActiveStates
    <2>3. CanBuild(row[r], TargetOf[k], progress) => GoodLocal(then)
      <3>1. k + 1 \in 1..4
        BY <2>1
      <3>2. CanBuild(row[r], TargetOf[k], progress) =>
               Written(w, TargetOf[k], progress) \in Records
        BY <1>1, <2>1, <2>2, BuiltRecord DEF Written
      <3> HIDE DEF k, progress
      <3> QED
        BY <2>1, <3>1, <3>2, StateFacts DEF GoodLocal, Local
    <2>4. GoodLocal(At(w, "handler"))
      BY <1>1, <2>1 DEF GoodLocal, At, Local
    <2>5. Write(w, row[r].state = worker[w].cur.state, TargetOf[k], progress, then,
                At(w, "handler"))
      BY <1>7 DEF Advance
    <2> HIDE DEF k, progress, then
    <2> QED
      BY <2>1, <2>2, <2>3, <2>4, <2>5, WriteType
  <1>8. CASE Finish(w)
    <2>1. r \in Runs /\ GoodLocal(At(w, "handler"))
      BY <1>1, <1>8 DEF Finish, GoodLocal, At, Local
    <2>2. Succeeded \in RunStateSet /\ 100 \in 0..100
      BY StateFacts
    <2>3. PICK expected : Write(w, expected, Succeeded, 100, Idle, At(w, "handler"))
      BY <1>8 DEF Finish
    <2> QED
      BY <2>1, <2>2, <2>3, IdleGood, WriteType
  <1>9. CASE CancelWrite(w)
    <2>1. /\ r \in Runs
          /\ worker[w].cur.progress \in 0..100
          /\ GoodLocal(IF worker[w].pc = "cancelIn" THEN At(w, "handler") ELSE Idle)
      <3>1. r \in Runs /\ worker[w].cur.progress \in 0..100
        BY <1>1, <1>9 DEF CancelWrite, Records
      <3>2. CASE worker[w].pc = "cancelIn"
        <4>1. GoodLocal(At(w, "handler"))
          BY <1>1, <3>2, HandlerGood
        <4> QED  BY <3>1, <3>2, <4>1
      <3>3. CASE worker[w].pc # "cancelIn"  BY <3>1, <3>3, IdleGood
      <3> QED  BY <3>2, <3>3
    <2>2. PICK expected :
            Write(w, expected, Cancelled, worker[w].cur.progress, Idle,
                  IF worker[w].pc = "cancelIn" THEN At(w, "handler") ELSE Idle)
      BY <1>9 DEF CancelWrite
    <2>3. Cancelled \in RunStateSet  BY StateFacts
    <2> QED
      BY <2>1, <2>2, <2>3, IdleGood, WriteType
  <1>10. CASE HandlerRead(w)
    BY <1>1, <1>10, <1>q, IdleGood DEF HandlerRead, GoodLocal, At, With, Local
  <1>11. CASE FailWrite(w)
    <2>1. /\ r \in Runs
          /\ worker[w].rec.progress \in 0..100
          /\ GoodLocal(At(w, "failLost"))
      BY <1>1, <1>11 DEF FailWrite, GoodLocal, Records, At, Local
    <2> QED
      BY <1>11, <2>1, StateFacts, IdleGood, WriteType DEF FailWrite
  <1>12. CASE FailLost(w)
    BY <1>12, <1>q, IdleGood DEF FailLost
  <1> QED
    BY <1>2, <1>3, <1>4, <1>5, <1>6, <1>7, <1>8, <1>9, <1>10, <1>11, <1>12 DEF WorkerStep

(* What a cancel request may turn into. *)
GoodRequest(q) ==
    /\ q \in ClientLocals
    /\ q.run \in Runs
    /\ q.pc \in {"get", "write"} => q.tries \in 0..2

LEMMA ClientType ==
    ASSUME TypeInv, NEW c \in Clients, NEW q, GoodRequest(q),
           client' = [client EXCEPT ![c] = q]
    PROVE  /\ client' \in [Clients -> ClientLocals]
           /\ \A d \in Clients : ClientShape(d)'
  <1>1. /\ client \in [Clients -> ClientLocals]
        /\ \A d \in Clients : ClientShape(d)
    BY DEF TypeInv, TypeOK, Shape
  <1>2. client' \in [Clients -> ClientLocals]
    BY <1>1 DEF GoodRequest
  <1>3. ASSUME NEW d \in Clients
        PROVE  ClientShape(d)'
    <2>1. CASE d = c
      BY <1>1, <2>1 DEF ClientShape, GoodRequest
    <2>2. CASE d # c
      BY <1>1, <2>2 DEF ClientShape
    <2> QED
      BY <2>1, <2>2
  <1> QED
    BY <1>2, <1>3

(* The requests the client steps answer with. *)
LEMMA RequestGood ==
    ASSUME NEW r \in Runs
    PROVE  /\ GoodRequest(Request("accepted", r, NoRow, 0))
           /\ GoodRequest(Request("refused", r, NoRow, 0))
           /\ \A n \in 0..2 : GoodRequest(Request("get", r, NoRow, n))
           /\ \A n \in 0..2, rec \in Records : GoodRequest(Request("write", r, rec, n))
  BY StateFacts DEF GoodRequest, Request, ClientLocals

(* Every step of a cancel request keeps the types. *)
LEMMA ClientStepType ==
    ASSUME TypeInv, NEW c \in Clients, ClientStep(c) \/ \E r \in Runs : CancelRoute(c, r)
    PROVE  TypeInv'
  <1>q. ASSUME NEW pc, NEW r \in Runs, NEW rec, NEW n, Answer(c, pc, r, rec, n),
               GoodRequest(Request(pc, r, rec, n)), row' \in [Runs -> Records]
        PROVE  TypeInv'
    <2>1. /\ client' \in [Clients -> ClientLocals]
          /\ \A d \in Clients : ClientShape(d)'
      BY <1>q, ClientType DEF Answer
    <2>2. UNCHANGED <<deliveries, sub, worker, trouble, bounds>>
      BY <1>q DEF Answer
    <2> QED
      BY <1>q, <2>1, <2>2 DEF bounds, TypeInv, TypeOK, Shape, WorkerShape
  <1>t. /\ row \in [Runs -> Records]
        /\ client[c] \in ClientLocals
        /\ ClientShape(c)
    BY DEF TypeInv, TypeOK, Shape
  <1>1. CASE CancelGet(c)
    <2> DEFINE r == client[c].run
    <2>1. r \in Runs /\ row[r] \in Records /\ client[c].tries \in 0..2 /\ row' = row
      BY <1>t, <1>1 DEF CancelGet, ClientShape
    <2>2. \/ Answer(c, "accepted", r, NoRow, 0)
          \/ Answer(c, "refused", r, NoRow, 0)
          \/ Answer(c, "write", r, row[r], client[c].tries)
      BY <1>1 DEF CancelGet
    <2> HIDE DEF r
    <2> QED
      BY <1>t, <1>q, <2>1, <2>2, RequestGood
  <1>2. CASE CancelRequestWrite(c)
    <2> DEFINE r == client[c].run
               rec == client[c].rec
               n == client[c].tries
    <2>1. r \in Runs /\ row[r] \in Records /\ rec.progress \in 0..100 /\ n \in 0..2
      BY <1>t, <1>2 DEF CancelRequestWrite, ClientShape, ClientLocals, Records
    <2>2. row' \in [Runs -> Records]
      <3>1. CanBuild(row[r], CancelRequested, rec.progress) =>
               BuildTransition(row[r], CancelRequested, rec.progress) \in Records
        BY <2>1, BuiltRecord, StateFacts
      <3> QED
        BY <1>t, <1>2, <2>1, <3>1 DEF CancelRequestWrite
    <2>3. \/ Answer(c, "accepted", r, NoRow, 0)
          \/ n < 2 /\ Answer(c, "get", r, NoRow, n + 1)
          \/ Answer(c, "refused", r, NoRow, 0)
      BY <1>2 DEF CancelRequestWrite
    <2>4. n < 2 => n + 1 \in 0..2
      BY <2>1
    <2> HIDE DEF r, n
    <2> QED
      BY <1>q, <2>1, <2>2, <2>3, <2>4, RequestGood
  <1>3. ASSUME NEW r \in Runs, CancelRoute(c, r)
        PROVE  TypeInv'
    <2>1. row' = row
      BY <1>3 DEF CancelRoute
    <2>2. \/ Answer(c, "accepted", r, NoRow, 0)
          \/ Answer(c, "refused", r, NoRow, 0)
          \/ Answer(c, "get", r, NoRow, 0)
      BY <1>3 DEF CancelRoute
    <2>3. 0 \in 0..2
      OBVIOUS
    <2> QED
      BY <1>t, <1>q, <2>1, <2>2, <2>3, RequestGood
  <1> QED
    BY <1>1, <1>2, <1>3 DEF ClientStep

LEMMA TypeStep == TypeInv /\ [Next]_vars => TypeInv'
  <1> SUFFICES ASSUME TypeInv, [Next]_vars
               PROVE  TypeInv'
    OBVIOUS
  <1> USE DEF TypeInv, TypeOK, Shape
  <1>q. ASSUME NEW w \in Workers, NEW local, Become(w, local), GoodLocal(local)
        PROVE  /\ worker' \in [Workers -> Locals]
               /\ \A v \in Workers : WorkerShape(v)'
    BY <1>q, LocalType
  <1>1. ASSUME NEW s \in Runs, SubmitCreate(s)
        PROVE  TypeInv'
    BY <1>1, StateFacts DEF SubmitCreate, Replayable, Store!SameFingerprint, bounds,
       WorkerShape, ClientShape
  <1>2. ASSUME NEW s \in Runs, SubmitEnqueue(s)
        PROVE  TypeInv'
    BY <1>2 DEF SubmitEnqueue, bounds, WorkerShape, ClientShape
  <1>3. ASSUME NEW s \in Runs, SubmitLost(s)
        PROVE  TypeInv'
    BY <1>3 DEF SubmitLost, Troubles, WorkerShape, ClientShape
  <1>4. ASSUME NEW r \in Runs, Redeliver(r)
        PROVE  TypeInv'
    BY <1>4 DEF Redeliver, WorkerShape, ClientShape
  <1>5. ASSUME NEW w \in Workers, WorkerStep(w)
        PROVE  TypeInv'
    BY <1>5, WorkerStepType
  <1>6. ASSUME NEW w \in Workers, Crash(w)
        PROVE  TypeInv'
    <2>1. worker[w].job \in Runs
      BY <1>6 DEF Crash, WorkerShape
    <2> QED
      BY <1>6, <1>q, <2>1, IdleGood DEF Crash, Troubles, ClientShape
  <1>7. ASSUME NEW w \in Workers, NEW r \in Runs, Receive(w, r)
        PROVE  TypeInv'
    <2>1. GoodLocal(Local("read", r, NoRow, NoRow, 0))
      BY StateFacts DEF GoodLocal, Local, Locals, WorkerPcs, OwnerPcs
    <2> QED
      BY <1>7, <1>q, <2>1 DEF Receive, bounds, ClientShape
  <1>8. ASSUME NEW c \in Clients, ClientStep(c)
        PROVE  TypeInv'
    BY <1>8, ClientStepType
  <1>9. ASSUME NEW c \in Clients, NEW r \in Runs, CancelRoute(c, r)
        PROVE  TypeInv'
    BY <1>9, ClientStepType
  <1>10. CASE UNCHANGED vars
    BY <1>10 DEF vars, bounds, WorkerShape, ClientShape
  <1> QED
    BY <1>1, <1>2, <1>3, <1>4, <1>5, <1>6, <1>7, <1>8, <1>9, <1>10 DEF Next

(* Every variable of the lifecycle keeps its type, whatever the sets of    *)
(* runs, workers and clients and the bounds are.                           *)
THEOREM TypeCorrect == Spec => []TypeOK
  <1>1. Spec => []TypeInv
    BY TypeInit, TypeStep, PTL DEF Spec
  <1>2. TypeInv => TypeOK
    BY DEF TypeInv
  <1> QED
    BY <1>1, <1>2, PTL

-----------------------------------------------------------------------------
(* The invariant. *)

(* Local state l owns the run whose row is x and whose trouble is tr. *)
Knows(l, x, tr) ==
    /\ l.rec.state = StageState[l.stage]
    /\ x.state \notin {Queued, Absent}
    /\ x.version >= l.rec.version
    /\ x.version = l.rec.version => x = l.rec
    /\ x.version > l.rec.version =>
          x.state \in TerminalStates \cup {CancelRequested} \/ "fault" \in tr
    /\ l.pc \in {"stage", "advance", "finish", "cancelIn"} /\ x.version > l.rec.version =>
          x.state \in {CancelRequested, Cancelled}
    /\ l.pc = "advance" /\ x.version = l.rec.version => l.cur = x
    /\ l.pc = "finish" => l.stage = 4
    /\ l.pc = "cancelIn" => x.version > l.rec.version
    /\ l.pc \in {"handler", "fail"} /\ x.version = l.rec.version =>
          tr \cap {"error", "fault"} # {}
    /\ l.pc = "failLost" => x.version > l.rec.version \/ "fault" \in tr

KnowsRow(w) ==
    worker[w].pc \in OwnerPcs => Knows(worker[w], row[worker[w].job], trouble[worker[w].job])

(* A queued row is still the one that was inserted, and so is the record  *)
(* of a worker about to claim it.                                         *)
Untouched ==
    /\ \A r \in Runs : row[r].state = Queued => row[r] = QueuedRow
    /\ \A w \in Workers : worker[w].pc = "claim" => worker[w].rec = QueuedRow

Owned ==
    /\ TypeInv
    /\ SingleOwner
    /\ \A w \in Workers : KnowsRow(w)
    /\ Untouched

-----------------------------------------------------------------------------
(* What a step does to the row. *)

(* The one write worker w may make, and when. *)
Moves(w, target, progress) ==
    LET r == worker[w].job
        x == row[r]
    IN  /\ r \in Runs /\ x \in Records /\ progress \in 0..100
        /\ CanBuild(x, target, progress)
        /\ row' = [row EXCEPT ![r] = BuildTransition(x, target, progress)]
        /\ \/ /\ worker[w].pc = "claim" /\ x.state = Queued /\ target = RunningData
           \/ /\ worker[w].pc = "advance" /\ x.state = worker[w].cur.state
              /\ worker[w].stage \in 1..3 /\ target = TargetOf[worker[w].stage]
           \/ /\ worker[w].pc = "finish" /\ x.state = RunningReport
              /\ target = Succeeded /\ progress = 100
           \/ /\ worker[w].pc \in {"cancelIn", "cancelOut"} /\ x.state = CancelRequested
              /\ target = Cancelled
           \/ /\ worker[w].pc = "fail" /\ Mine(w, x) /\ target = Failed

LEMMA WorkerMoves ==
    ASSUME TypeInv, NEW w \in Workers, WorkerStep(w)
    PROVE  row' = row \/ \E target, progress : Moves(w, target, progress)
  <1> DEFINE r == worker[w].job
  <1>t. /\ worker[w] \in Locals
        /\ WorkerShape(w)
        /\ r \in Runs => row[r] \in Records
    BY DEF TypeInv, TypeOK, Shape
  <1>1. CASE Claim(w)
    <2>1. r \in Runs /\ row[r] \in Records /\ 10 \in 0..100
      BY <1>t, <1>1 DEF Claim, WorkerShape
    <2>w. \/ row' = row
          \/ /\ row[r].state = Queued
             /\ CanBuild(row[r], RunningData, 10)
             /\ row' = [row EXCEPT ![r] = BuildTransition(row[r], RunningData, 10)]
      BY <1>1 DEF Claim, Write, Written
    <2>2. row' = row \/ Moves(w, RunningData, 10)
      BY <1>1, <2>1, <2>w DEF Claim, Moves
    <2> QED
      BY <2>2
  <1>2. CASE Advance(w)
    <2> DEFINE k == worker[w].stage
               progress == AtLeast(ProgressOf[k], worker[w].cur.progress)
    <2>1. r \in Runs /\ row[r] \in Records /\ k \in 1..3 /\ worker[w].cur.progress \in 0..100
      BY <1>t, <1>2 DEF Advance, WorkerShape, Locals, Records
    <2>2. progress \in 0..100
      BY <2>1, StageFacts DEF AtLeast
    <2>w. \/ row' = row
          \/ /\ row[r].state = worker[w].cur.state
             /\ CanBuild(row[r], TargetOf[k], progress)
             /\ row' = [row EXCEPT ![r] = BuildTransition(row[r], TargetOf[k], progress)]
      BY <1>2 DEF Advance, Write, Written
    <2>3. row' = row \/ Moves(w, TargetOf[k], progress)
      BY <1>2, <2>1, <2>2, <2>w DEF Advance, Moves
    <2> QED
      BY <2>3
  <1>3. CASE Finish(w)
    <2>1. r \in Runs /\ row[r] \in Records /\ 100 \in 0..100
      BY <1>t, <1>3 DEF Finish, WorkerShape
    <2>w. \/ row' = row
          \/ /\ row[r].state = RunningReport
             /\ CanBuild(row[r], Succeeded, 100)
             /\ row' = [row EXCEPT ![r] = BuildTransition(row[r], Succeeded, 100)]
      BY <1>3 DEF Finish, Write, Written
    <2>2. row' = row \/ Moves(w, Succeeded, 100)
      BY <1>3, <2>1, <2>w DEF Finish, Moves
    <2> QED
      BY <2>2
  <1>4. CASE CancelWrite(w)
    <2>1. r \in Runs /\ row[r] \in Records /\ worker[w].cur.progress \in 0..100
      BY <1>t, <1>4 DEF CancelWrite, WorkerShape, Locals, Records
    <2>w. \/ row' = row
          \/ /\ row[r].state = CancelRequested
             /\ CanBuild(row[r], Cancelled, worker[w].cur.progress)
             /\ row' = [row EXCEPT ![r] = BuildTransition(row[r], Cancelled, worker[w].cur.progress)]
      BY <1>4 DEF CancelWrite, Write, Written
    <2>2. row' = row \/ Moves(w, Cancelled, worker[w].cur.progress)
      BY <1>4, <2>1, <2>w DEF CancelWrite, Moves
    <2> QED
      BY <2>2
  <1>5. CASE FailWrite(w)
    <2>1. r \in Runs /\ row[r] \in Records /\ worker[w].rec.progress \in 0..100
      BY <1>t, <1>5 DEF FailWrite, WorkerShape, Locals, Records
    <2>w. \/ row' = row
          \/ /\ Mine(w, row[r])
             /\ CanBuild(row[r], Failed, worker[w].rec.progress)
             /\ row' = [row EXCEPT ![r] = BuildTransition(row[r], Failed, worker[w].rec.progress)]
      BY <1>5 DEF FailWrite, Write, Written
    <2>2. row' = row \/ Moves(w, Failed, worker[w].rec.progress)
      BY <1>5, <2>1, <2>w DEF FailWrite, Moves
    <2> QED
      BY <2>2
  <1>6. CASE ReadJob(w) \/ ClaimLost(w) \/ StageDone(w) \/ HandlerRead(w) \/ FailLost(w)
    BY <1>6 DEF ReadJob, ClaimLost, StageDone, HandlerRead, FailLost, WorkerOnly
  <1>7. CASE StageRaises(w)
    BY <1>7 DEF StageRaises
  <1> QED
    BY <1>1, <1>2, <1>3, <1>4, <1>5, <1>6, <1>7 DEF WorkerStep

(* A step of worker w leaves the other workers, the queue, the submissions *)
(* and the clients alone, and trouble once met stays on record.            *)
LEMMA WorkerFrame ==
    ASSUME TypeInv, NEW w \in Workers, WorkerStep(w)
    PROVE  /\ \A v \in Workers : v # w => worker'[v] = worker[v]
           /\ worker'[w].pc # "idle" => worker'[w].job = worker[w].job
           /\ UNCHANGED <<deliveries, sub, client>>
           /\ \A r \in Runs : trouble[r] \subseteq trouble'[r]
  <1>1. \E local : /\ Become(w, local)
                   /\ local.pc # "idle" => local.job = worker[w].job
    <2>1. CASE ReadJob(w) \/ Claim(w) \/ ClaimLost(w)
      BY <2>1 DEF ReadJob, Claim, ClaimLost, Write, Claimed, With, At, Local, Idle
    <2>2. CASE StageDone(w)  BY <2>2 DEF StageDone, With, At, Local
    <2>3. CASE StageRaises(w) \/ Advance(w) \/ Finish(w)
      BY <2>3 DEF StageRaises, Advance, Finish, Write, With, At, Local, Idle
    <2>4. CASE CancelWrite(w)  BY <2>4 DEF CancelWrite, Write, At, Local, Idle
    <2>5. CASE HandlerRead(w) \/ FailWrite(w) \/ FailLost(w)
      BY <2>5 DEF HandlerRead, FailWrite, FailLost, Write, With, At, Local, Idle
    <2> QED  BY <2>1, <2>2, <2>3, <2>4, <2>5 DEF WorkerStep
  <1>2. worker \in [Workers -> Locals] /\ trouble \in [Runs -> SUBSET Troubles]
    BY DEF TypeInv, TypeOK
  <1>3. UNCHANGED <<deliveries, sub, client>>
    BY DEF WorkerStep, WorkerOnly, ReadJob, Claim, ClaimLost, StageDone, StageRaises, Advance,
       Finish, CancelWrite, HandlerRead, FailWrite, FailLost, Write
  <1>4. \/ trouble' = trouble
        \/ \E what : trouble' = [trouble EXCEPT ![worker[w].job] = @ \cup {what}]
    BY DEF WorkerStep, WorkerOnly, ReadJob, Claim, ClaimLost, StageDone, StageRaises, Advance,
       Finish, CancelWrite, HandlerRead, FailWrite, FailLost, Write
  <1> QED
    BY <1>1, <1>2, <1>3, <1>4 DEF Become

-----------------------------------------------------------------------------
(* What an owner knows survives. *)

Calm(x, y) ==
    \/ y = x
    \/ y.version = x.version + 1 /\ y.state \in {CancelRequested, Cancelled}

(* Anybody else's write leaves the row or moves it towards cancelled. *)
LEMMA KnowsCalm ==
    ASSUME NEW l \in Locals, NEW x \in Records, NEW y \in Records, NEW tr, NEW more,
           Knows(l, x, tr), tr \subseteq more, Calm(x, y)
    PROVE  Knows(l, y, more)
  <1>1. CASE y = x
    BY <1>1 DEF Knows
  <1>2. CASE y.version = x.version + 1 /\ y.state \in {CancelRequested, Cancelled}
    <2>1. y.version > l.rec.version
      BY <1>2 DEF Knows, Locals, Records
    <2>2. y.state \notin {Queued, Absent} /\ y.state \in TerminalStates \cup {CancelRequested}
      BY <1>2 DEF TerminalStates, CancelRequested, Cancelled, Queued, Absent
    <2> QED
      BY <1>2, <2>1, <2>2 DEF Knows, Locals, Records
  <1> QED
    BY <1>1, <1>2 DEF Calm

(* A write of the owner that fails by itself, done or not. *)
LEMMA KnowsFault ==
    ASSUME NEW l \in Locals, NEW x \in Records, NEW y \in Records, NEW tr, NEW more,
           NEW pc \in {"handler", "failLost"},
           Knows(l, x, tr), "fault" \in more,
           y = x \/ (y.version = x.version + 1 /\ y.state \notin {Queued, Absent})
    PROVE  Knows(Local(pc, l.job, l.rec, l.cur, l.stage), y, more)
  <1> DEFINE m == Local(pc, l.job, l.rec, l.cur, l.stage)
  <1>1. m.pc = pc /\ m.rec = l.rec /\ m.stage = l.stage
    BY DEF Local
  <1>2. /\ y.state \notin {Queued, Absent}
        /\ y.version >= l.rec.version
        /\ y.version = l.rec.version => y = l.rec
    BY DEF Knows, Locals, Records
  <1>3. l.rec.state = StageState[l.stage]
    BY DEF Knows
  <1>4. more \cap {"error", "fault"} # {}
    OBVIOUS
  <1>5. pc \notin {"stage", "advance", "finish", "cancelIn"}
    OBVIOUS
  <1> HIDE DEF m
  <1>6. /\ m.pc \notin {"stage", "advance", "finish", "cancelIn"}
        /\ m.pc # "advance" /\ m.pc # "finish" /\ m.pc # "cancelIn"
        /\ m.rec.state = StageState[m.stage]
        /\ y.version >= m.rec.version
        /\ y.version = m.rec.version => y = m.rec
    BY <1>1, <1>2, <1>3, <1>5
  <1>7. Knows(m, y, more)
    BY <1>2, <1>4, <1>6 DEF Knows
  <1> QED
    BY <1>7 DEF m

(* The owner refused by the checks of its own stage write: somebody moved *)
(* the row.                                                               *)
LEMMA AdvanceRefused ==
    ASSUME NEW l \in Locals, NEW x \in Records, NEW tr, Knows(l, x, tr),
           l.pc = "advance", l.stage \in 1..3, x.version = l.rec.version
    PROVE  /\ x.state = l.cur.state
           /\ CanBuild(x, TargetOf[l.stage], AtLeast(ProgressOf[l.stage], l.cur.progress))
  <1>1. x = l.rec /\ l.cur = x /\ x.state = StageState[l.stage]
    BY DEF Knows
  <1>2. AllowedTransition(x.state, TargetOf[l.stage])
    BY <1>1, StageFacts DEF AllowedTransition
  <1>3. AtLeast(ProgressOf[l.stage], l.cur.progress) >= x.progress
    BY <1>1, StageFacts DEF AtLeast, Records
  <1> QED
    BY <1>1, <1>2, <1>3 DEF CanBuild

(* Nothing leads from a cancelled or cancel-requested row to a running one. *)
LEMMA NoWayBack ==
    ASSUME NEW x \in Records, NEW target, NEW progress, CanBuild(x, target, progress),
           target \in RunningStates \cup {Queued}
    PROVE  x.state \notin {CancelRequested, Cancelled}
  BY DEF CanBuild, AllowedTransition, StageEdges, ActiveStates, RunningStates, Queued,
     RunningData, RunningSignal, RunningExec, RunningReport, CancelRequested, Succeeded,
     Failed, Cancelled

-----------------------------------------------------------------------------
(* The owner's own steps. *)

LEMMA OwnBecome ==
    ASSUME TypeInv, NEW w \in Workers, NEW local, Become(w, local),
           local.pc \in OwnerPcs =>
              /\ local.job = worker[w].job
              /\ Knows(local, row'[worker[w].job], trouble'[worker[w].job])
    PROVE  KnowsRow(w)'
  <1>1. worker'[w] = local
    BY DEF TypeInv, TypeOK, Become
  <1> QED
    BY <1>1 DEF KnowsRow

(* One write of an owner: what it becomes after success and after a refusal *)
(* must know the row; after a fault it always does.                         *)
LEMMA OwnWrite ==
    ASSUME TypeInv, NEW w \in Workers, worker[w].pc \in OwnerPcs, KnowsRow(w),
           NEW expected, NEW target \in RunStateSet \ {Queued}, NEW progress \in 0..100,
           NEW then, NEW pc \in {"handler", "failLost"},
           Write(w, expected, target, progress, then, At(w, pc)),
           expected /\ CanBuild(row[worker[w].job], target, progress) /\ then.pc \in OwnerPcs =>
              /\ then.job = worker[w].job
              /\ Knows(then, Written(w, target, progress), trouble[worker[w].job]),
           ~(expected /\ CanBuild(row[worker[w].job], target, progress)) =>
              Knows(At(w, pc), row[worker[w].job], trouble[worker[w].job])
    PROVE  KnowsRow(w)'
  <1> DEFINE r == worker[w].job
             ok == expected /\ CanBuild(row[r], target, progress)
  <1>t. /\ r \in Runs /\ worker[w] \in Locals /\ row[r] \in Records
        /\ row \in [Runs -> Records] /\ trouble \in [Runs -> SUBSET Troubles]
        /\ Knows(worker[w], row[r], trouble[r])
        /\ At(w, pc).job = r
    BY DEF TypeInv, TypeOK, Shape, WorkerShape, OwnerPcs, KnowsRow, At, Local
  <1>1. CASE ok /\ row' = [row EXCEPT ![r] = Written(w, target, progress)]
             /\ Become(w, then) /\ trouble' = trouble
    <2>1. row'[r] = Written(w, target, progress) /\ trouble'[r] = trouble[r]
      BY <1>t, <1>1
    <2> QED
      BY <1>1, <2>1, OwnBecome
  <1>2. CASE ~ok /\ row' = row /\ Become(w, At(w, pc)) /\ trouble' = trouble
    BY <1>t, <1>2, OwnBecome
  <1>3. CASE /\ row' = row \/ (ok /\ row' = [row EXCEPT ![r] = Written(w, target, progress)])
             /\ trouble' = [trouble EXCEPT ![r] = @ \cup {"fault"}]
             /\ Become(w, At(w, pc))
    <2>1. "fault" \in trouble'[r]
      BY <1>t, <1>3
    <2>2. /\ row'[r] \in Records
          /\ \/ row'[r] = row[r]
             \/ row'[r].version = row[r].version + 1 /\ row'[r].state \notin {Queued, Absent}
      <3>1. ok => Written(w, target, progress) \in Records
        BY <1>t, BuiltRecord DEF Written
      <3>2. Written(w, target, progress).version = row[r].version + 1
            /\ Written(w, target, progress).state = target
        BY DEF Written, BuildTransition
      <3> QED
        BY <1>t, <1>3, <3>1, <3>2, StateFacts
    <2>3. Knows(At(w, pc), row'[r], trouble'[r])
      BY <1>t, <2>1, <2>2, KnowsFault DEF At
    <2> QED
      BY <1>t, <1>3, <2>3, OwnBecome
  <1> QED
    BY <1>1, <1>2, <1>3 DEF Write, bounds

LEMMA RankFacts == \A k \in 1..3 : ~AtOrPast(Cancelled, TargetOf[k])
  BY DEF AtOrPast, RunningRank, Queued, RunningData, RunningSignal, RunningExec,
     RunningReport, Cancelled

LEMMA OwnStep ==
    ASSUME TypeInv, NEW w \in Workers, KnowsRow(w), WorkerStep(w)
    PROVE  KnowsRow(w)'
  <1> DEFINE r == worker[w].job
             l == worker[w]
             x == row[r]
             tr == trouble[r]
  <1>t. /\ l \in Locals /\ WorkerShape(w)
        /\ l.pc # "idle" => r \in Runs /\ x \in Records
        /\ l.pc \in OwnerPcs => Knows(l, x, tr)
        /\ row \in [Runs -> Records] /\ trouble \in [Runs -> SUBSET Troubles]
    BY DEF TypeInv, TypeOK, Shape, WorkerShape, KnowsRow
  <1>v. l.pc \in OwnerPcs =>
           /\ x.version \in Nat /\ l.rec.version \in Nat
           /\ x.version >= l.rec.version
    <2>1. l.pc \in OwnerPcs => l.pc # "idle" /\ x.version >= l.rec.version
      BY <1>t DEF OwnerPcs, Knows
    <2>2. l.rec \in Records
      BY <1>t DEF Locals
    <2> QED
      BY <1>t, <2>1, <2>2 DEF Records
  <1>i. Idle.pc \notin OwnerPcs
    BY DEF Idle, Local, OwnerPcs
  <1>1. CASE ReadJob(w)
    <2>1. /\ With(w, "cancelOut", l.rec, x).pc \notin OwnerPcs
          /\ With(w, "claim", x, NoRow).pc \notin OwnerPcs
      BY DEF With, Local, OwnerPcs
    <2> QED
      BY <1>1, <1>i, <2>1, OwnBecome DEF ReadJob
  <1>2. CASE Claim(w)
    <2> DEFINE new == BuildTransition(x, RunningData, 10)
    <2>1. r \in Runs /\ x \in Records
      BY <1>t, <1>2 DEF Claim
    <2>2. /\ At(w, "claimLost").pc \notin OwnerPcs
          /\ Claimed(w).job = r
      BY DEF At, Local, OwnerPcs, Claimed
    <2>3. Knows(Claimed(w), new, tr)
      BY <2>1 DEF Knows, Claimed, Written, Local, BuildTransition, StageState, RunningData,
         Queued, Absent, Records
    <2>4. \/ Become(w, At(w, "claimLost"))
          \/ /\ Become(w, Claimed(w)) /\ trouble' = trouble
             /\ row' = [row EXCEPT ![r] = new]
      BY <1>2 DEF Claim, Write, Written
    <2>5. CASE Become(w, At(w, "claimLost"))
      BY <2>2, <2>5, OwnBecome
    <2>6. CASE /\ Become(w, Claimed(w)) /\ trouble' = trouble
               /\ row' = [row EXCEPT ![r] = new]
      <3>1. row'[r] = new /\ trouble'[r] = tr
        BY <1>t, <2>1, <2>6
      <3> QED
        BY <2>2, <2>3, <2>6, <3>1, OwnBecome
    <2> QED
      BY <2>4, <2>5, <2>6
  <1>3. CASE ClaimLost(w)
    BY <1>3, <1>i, OwnBecome DEF ClaimLost
  <1>4. CASE StageDone(w)
    <2> DEFINE k == l.stage
               cancelIn == With(w, "cancelIn", l.rec, x)
               finish == At(w, "finish")
               advance == With(w, "advance", l.rec, x)
    <2>1. /\ l.pc = "stage" /\ r \in Runs /\ x \in Records /\ Knows(l, x, tr) /\ k \in 1..4
          /\ row'[r] = x /\ trouble'[r] = tr
      BY <1>t, <1>4 DEF StageDone, WorkerOnly, OwnerPcs, WorkerShape
    <2>2. x.version > l.rec.version => x.state \in {CancelRequested, Cancelled}
      BY <2>1 DEF Knows
    <2>3. x.version = l.rec.version => x = l.rec /\ x.state = StageState[k]
      BY <2>1 DEF Knows
    <2>4. x.version > l.rec.version \/ x.version = l.rec.version
      BY <1>v, <2>1 DEF OwnerPcs
    <2>5. StageState[k] # CancelRequested
      BY <2>1 DEF StageState, RunningData, RunningSignal, RunningExec, RunningReport,
         CancelRequested
    <2>6. CASE x.state = CancelRequested
      <3>1. Become(w, cancelIn)
        BY <1>4, <2>6 DEF StageDone
      <3>2. x.version > l.rec.version
        BY <2>3, <2>4, <2>5, <2>6
      <3>3. Knows(cancelIn, x, tr)
        BY <2>1, <3>2, <2>6 DEF Knows, With, Local
      <3>4. cancelIn.job = r
        BY DEF With, Local
      <3> QED
        BY <2>1, <3>1, <3>3, <3>4, OwnBecome
    <2>7. CASE x.state # CancelRequested /\ k = 4
      <3>1. Become(w, finish)
        BY <1>4, <2>7 DEF StageDone
      <3>2. Knows(finish, x, tr) /\ finish.job = r
        BY <2>1, <2>7 DEF Knows, At, Local
      <3> QED
        BY <2>1, <3>1, <3>2, OwnBecome
    <2>8. CASE x.state # CancelRequested /\ k < 4
      <3>1. k \in 1..3
        BY <2>1, <2>8
      <3>2. ~AtOrPast(x.state, TargetOf[k])
        BY <2>2, <2>3, <2>4, <2>8, <3>1, StageFacts, RankFacts
      <3>3. Become(w, advance)
        BY <1>4, <2>8, <3>2 DEF StageDone
      <3>4. Knows(advance, x, tr) /\ advance.job = r
        BY <2>1 DEF Knows, With, Local
      <3> QED
        BY <2>1, <3>3, <3>4, OwnBecome
    <2> QED
      BY <2>1, <2>6, <2>7, <2>8
  <1>5. CASE StageRaises(w)
    <2> DEFINE handler == At(w, "handler")
    <2>1. /\ l.pc = "stage" /\ r \in Runs /\ x \in Records /\ Knows(l, x, tr)
          /\ row'[r] = x /\ trouble'[r] = tr \cup {"error"} /\ Become(w, handler)
      BY <1>t, <1>5 DEF StageRaises, OwnerPcs
    <2>2. Knows(handler, x, tr \cup {"error"}) /\ handler.job = r
      BY <2>1 DEF Knows, At, Local
    <2> QED
      BY <2>1, <2>2, OwnBecome
  <1>6. CASE Advance(w)
    <2> DEFINE k == l.stage
               progress == AtLeast(ProgressOf[k], l.cur.progress)
               new == Written(w, TargetOf[k], progress)
               then == Local("stage", r, new, NoRow, k + 1)
               expected == x.state = l.cur.state
               ok == expected /\ CanBuild(x, TargetOf[k], progress)
    <2>1. /\ l.pc = "advance" /\ l.pc \in OwnerPcs /\ r \in Runs /\ x \in Records
          /\ Knows(l, x, tr) /\ k \in 1..3
      BY <1>t, <1>6 DEF Advance, OwnerPcs, WorkerShape
    <2>2. TargetOf[k] \in RunStateSet \ {Queued} /\ progress \in 0..100
      BY <1>t, <2>1, StageFacts, StateFacts DEF AtLeast, Locals, Records, RunningStates,
         RunningData, RunningSignal, RunningExec, RunningReport, Queued
    <2>3. Write(w, expected, TargetOf[k], progress, then, At(w, "handler"))
      BY <1>6 DEF Advance
    <2>4. then.job = r
      BY DEF Local
    <2>5. Knows(then, new, tr)
      <3>1. new.state = TargetOf[k] /\ TargetOf[k] = StageState[k + 1]
        BY <2>1, StageFacts DEF Written, BuildTransition
      <3>2. new.state \notin {Queued, Absent}
        BY <2>2, <3>1, StateFacts
      <3>3. then.pc = "stage" /\ then.rec = new /\ then.stage = k + 1
        BY DEF Local
      <3>4. new.version \in Nat
        BY <2>1 DEF Written, BuildTransition, Records
      <3> HIDE DEF new, then
      <3> QED
        BY <3>1, <3>2, <3>3, <3>4 DEF Knows
    <2>6. ~ok => Knows(At(w, "handler"), x, tr)
      <3> SUFFICES ASSUME ~ok
                   PROVE  Knows(At(w, "handler"), x, tr)
        OBVIOUS
      <3>1. x.version # l.rec.version
        BY <1>t, <2>1, AdvanceRefused
      <3> QED
        BY <2>1, <3>1 DEF Knows, At, Local
    <2> HIDE DEF k, progress, new, then, expected
    <2>7. expected /\ CanBuild(x, TargetOf[k], progress) /\ then.pc \in OwnerPcs =>
             then.job = r /\ Knows(then, Written(w, TargetOf[k], progress), tr)
      BY <2>4, <2>5 DEF new
    <2> QED
      BY <2>1, <2>2, <2>3, <2>6, <2>7, OwnWrite
  <1>7. CASE Finish(w)
    <2> DEFINE expected == x.state = RunningReport
               ok == expected /\ CanBuild(x, Succeeded, 100)
    <2>1. /\ l.pc = "finish" /\ l.pc \in OwnerPcs /\ r \in Runs /\ x \in Records
          /\ Knows(l, x, tr)
      BY <1>t, <1>7 DEF Finish, OwnerPcs
    <2>2. Succeeded \in RunStateSet \ {Queued} /\ 100 \in 0..100
      BY StateFacts DEF Succeeded, Queued
    <2>3. Write(w, expected, Succeeded, 100, Idle, At(w, "handler"))
      BY <1>7 DEF Finish
    <2>4. ~ok => Knows(At(w, "handler"), x, tr)
      <3> SUFFICES ASSUME ~ok
                   PROVE  Knows(At(w, "handler"), x, tr)
        OBVIOUS
      <3>1. x.version # l.rec.version
        <4> SUFFICES ASSUME x.version = l.rec.version
                     PROVE  FALSE
          OBVIOUS
        <4>1. x = l.rec /\ x.state = StageState[4]
          BY <2>1 DEF Knows
        <4>2. x.state = RunningReport /\ x.progress <= 100
          BY <2>1, <4>1 DEF StageState, Records
        <4>3. CanBuild(x, Succeeded, 100)
          BY <2>1, <4>2 DEF CanBuild, AllowedTransition, StageEdges, Records
        <4> QED
          BY <4>2, <4>3
      <3> QED
        BY <2>1, <3>1 DEF Knows, At, Local
    <2> HIDE DEF expected
    <2> QED
      BY <1>i, <2>1, <2>2, <2>3, <2>4, OwnWrite
  <1>8. CASE CancelWrite(w)
    <2> DEFINE expected == x.state = CancelRequested
               progress == l.cur.progress
    <2>1. CASE l.pc = "cancelIn"
      <3>1. /\ l.pc \in OwnerPcs /\ r \in Runs /\ x \in Records /\ Knows(l, x, tr)
            /\ progress \in 0..100
        BY <1>t, <1>8, <2>1 DEF CancelWrite, OwnerPcs, Locals, Records
      <3>2. Cancelled \in RunStateSet \ {Queued}
        BY StateFacts DEF Cancelled, Queued
      <3>3. Write(w, expected, Cancelled, progress, Idle, At(w, "handler"))
        BY <1>8, <2>1 DEF CancelWrite
      <3>4. Knows(At(w, "handler"), x, tr)
        <4>1. x.version # l.rec.version
          BY <1>v, <2>1, <3>1 DEF Knows
        <4> QED
          BY <3>1, <4>1 DEF Knows, At, Local
      <3> HIDE DEF expected, progress
      <3> QED
        BY <1>i, <3>1, <3>2, <3>3, <3>4, OwnWrite
    <2>2. CASE l.pc = "cancelOut"
      <3>1. Become(w, Idle)
        BY <1>8, <2>2 DEF CancelWrite, Write
      <3> QED
        BY <1>i, <3>1, OwnBecome
    <2> QED
      BY <1>8, <2>1, <2>2 DEF CancelWrite
  <1>9. CASE HandlerRead(w)
    <2>1. /\ l.pc = "handler" /\ r \in Runs /\ x \in Records /\ Knows(l, x, tr)
          /\ row'[r] = x /\ trouble'[r] = tr
      BY <1>t, <1>9 DEF HandlerRead, WorkerOnly, OwnerPcs
    <2>2. With(w, "cancelOut", l.rec, x).pc \notin OwnerPcs
      BY DEF With, Local, OwnerPcs
    <2>3. Knows(At(w, "fail"), x, tr) /\ At(w, "fail").job = r
      BY <2>1 DEF Knows, At, Local
    <2>4. \/ Become(w, With(w, "cancelOut", l.rec, x))
          \/ Become(w, Idle)
          \/ Become(w, At(w, "fail"))
      BY <1>9 DEF HandlerRead
    <2> QED
      BY <1>i, <2>1, <2>2, <2>3, <2>4, OwnBecome
  <1>10. CASE FailWrite(w)
    <2> DEFINE expected == Mine(w, x)
               progress == l.rec.progress
               ok == expected /\ CanBuild(x, Failed, progress)
    <2>1. /\ l.pc = "fail" /\ l.pc \in OwnerPcs /\ r \in Runs /\ x \in Records
          /\ Knows(l, x, tr) /\ progress \in 0..100 /\ l.stage \in 1..4
      BY <1>t, <1>10 DEF FailWrite, OwnerPcs, Locals, Records, WorkerShape
    <2>2. Failed \in RunStateSet \ {Queued}
      BY StateFacts DEF Failed, Queued
    <2>3. Write(w, expected, Failed, progress, Idle, At(w, "failLost"))
      BY <1>10 DEF FailWrite
    <2>4. ~ok => Knows(At(w, "failLost"), x, tr)
      <3> SUFFICES ASSUME ~ok
                   PROVE  Knows(At(w, "failLost"), x, tr)
        OBVIOUS
      <3>1. x.version # l.rec.version
        <4> SUFFICES ASSUME x.version = l.rec.version
                     PROVE  FALSE
          OBVIOUS
        <4>1. x = l.rec /\ x.state = StageState[l.stage]
          BY <2>1 DEF Knows
        <4>2. Mine(w, x) /\ progress >= x.progress
          BY <2>1, <4>1 DEF Mine
        <4>3. x.state \in ActiveStates
          BY <2>1, <4>1 DEF StageState, ActiveStates, RunningStates
        <4>4. CanBuild(x, Failed, progress)
          BY <4>2, <4>3 DEF CanBuild, AllowedTransition
        <4> QED
          BY <4>2, <4>4
      <3>2. x.version > l.rec.version
        BY <1>v, <2>1, <3>1
      <3> QED
        BY <2>1, <3>2 DEF Knows, At, Local
    <2> HIDE DEF expected, progress
    <2> QED
      BY <1>i, <2>1, <2>2, <2>3, <2>4, OwnWrite
  <1>11. CASE FailLost(w)
    BY <1>11, <1>i, OwnBecome DEF FailLost
  <1> QED
    BY <1>1, <1>2, <1>3, <1>4, <1>5, <1>6, <1>7, <1>8, <1>9, <1>10, <1>11 DEF WorkerStep

-----------------------------------------------------------------------------
(* Ownership is kept by every step. *)

LEMMA OtherCalm ==
    ASSUME Owned, NEW v \in Workers, NEW w \in Workers, v # w,
           worker[v].pc \in OwnerPcs, WorkerStep(w)
    PROVE  Calm(row[worker[v].job], row'[worker[v].job])
  <1> DEFINE r == worker[v].job
  <1>1. /\ TypeInv /\ r \in Runs /\ row \in [Runs -> Records]
        /\ Knows(worker[v], row[r], trouble[r])
        /\ \A u \in Workers : Owns(u, r) => u = v
    BY DEF Owned, TypeInv, TypeOK, Shape, WorkerShape, OwnerPcs, KnowsRow, SingleOwner, Owns
  <1>2. CASE row' = row
    BY <1>2 DEF Calm
  <1>3. ASSUME NEW target, NEW progress, Moves(w, target, progress)
        PROVE  Calm(row[r], row'[r])
    <2>1. CASE worker[w].job # r
      BY <1>1, <1>3, <2>1 DEF Moves, Calm
    <2>2. CASE worker[w].job = r
      <3>1. worker[w].pc \notin OwnerPcs
        BY <1>1, <2>2 DEF Owns
      <3>2. row[r].state # Queued
        BY <1>1 DEF Knows
      <3>3. target = Cancelled
        BY <1>3, <2>2, <3>1, <3>2 DEF Moves, OwnerPcs
      <3>4. row'[r] = BuildTransition(row[r], target, progress)
        BY <1>1, <1>3, <2>2 DEF Moves
      <3> QED
        BY <3>3, <3>4 DEF Calm, BuildTransition
    <2> QED
      BY <2>1, <2>2
  <1> QED
    BY <1>1, <1>2, <1>3, WorkerMoves

(* Only a claim of a queued row makes an owner. *)
LEMMA NewOwner ==
    ASSUME TypeInv, NEW w \in Workers, WorkerStep(w), worker'[w].pc \in OwnerPcs
    PROVE  \/ worker[w].pc \in OwnerPcs
           \/ worker[w].pc = "claim" /\ row[worker[w].job].state = Queued
  <1>1. worker \in [Workers -> Locals]
    BY DEF TypeInv, TypeOK
  <1>2. CASE worker[w].pc \in {"read", "claimLost", "cancelOut"}
    <2>1. \/ Become(w, With(w, "cancelOut", worker[w].rec, row[worker[w].job]))
          \/ Become(w, With(w, "claim", row[worker[w].job], NoRow))
          \/ Become(w, Idle)
      BY <1>2 DEF WorkerStep, ReadJob, Claim, ClaimLost, StageDone, StageRaises, Advance,
         Finish, CancelWrite, HandlerRead, FailWrite, FailLost, Write
    <2>2. worker'[w].pc \in {"cancelOut", "claim", "idle"}
      BY <1>1, <2>1 DEF Become, With, Local, Idle
    <2> QED
      BY <2>2 DEF OwnerPcs
  <1>3. CASE worker[w].pc = "claim"
    <2>1. \/ row[worker[w].job].state = Queued
          \/ Become(w, At(w, "claimLost"))
      BY <1>3 DEF WorkerStep, ReadJob, Claim, ClaimLost, StageDone, StageRaises, Advance,
         Finish, CancelWrite, HandlerRead, FailWrite, FailLost, Write
    <2>2. Become(w, At(w, "claimLost")) => worker'[w].pc = "claimLost"
      BY <1>1 DEF Become, At, Local
    <2> QED
      BY <1>3, <2>1, <2>2 DEF OwnerPcs
  <1>4. worker[w].pc \in {"read", "claimLost", "cancelOut", "claim"} \/ worker[w].pc \in OwnerPcs
    BY DEF WorkerStep, ReadJob, Claim, ClaimLost, StageDone, StageRaises, Advance,
       Finish, CancelWrite, HandlerRead, FailWrite, FailLost, OwnerPcs
  <1> QED
    BY <1>2, <1>3, <1>4

(* What the steps of all workers have in common. *)
LEMMA OwnedWorker ==
    ASSUME Owned, NEW w \in Workers, WorkerStep(w)
    PROVE  Owned'
  <1>t. /\ TypeInv /\ TypeInv'
        /\ row \in [Runs -> Records] /\ row' \in [Runs -> Records]
        /\ worker \in [Workers -> Locals]
        /\ \A u \in Workers : KnowsRow(u)
    BY WorkerStepType DEF Owned, TypeInv, TypeOK
  <1>f. /\ \A v \in Workers : v # w => worker'[v] = worker[v]
        /\ worker'[w].pc # "idle" => worker'[w].job = worker[w].job
        /\ \A r \in Runs : trouble[r] \subseteq trouble'[r]
    BY <1>t, WorkerFrame
  <1>1. ASSUME NEW v \in Workers
        PROVE  KnowsRow(v)'
    <2>1. CASE v = w
      BY <1>t, <2>1, OwnStep
    <2>2. CASE v # w
      <3> DEFINE r == worker[v].job
      <3> SUFFICES ASSUME worker[v].pc \in OwnerPcs
                   PROVE  Knows(worker[v], row'[r], trouble'[r])
        BY <1>f, <2>2 DEF KnowsRow
      <3>1. r \in Runs /\ Knows(worker[v], row[r], trouble[r])
        BY <1>t DEF TypeInv, Shape, WorkerShape, OwnerPcs, KnowsRow
      <3>2. Calm(row[r], row'[r])
        BY <2>2, OtherCalm
      <3> QED
        BY <1>t, <1>f, <3>1, <3>2, KnowsCalm
    <2> QED
      BY <2>1, <2>2
  <1>2. SingleOwner'
    <2> SUFFICES ASSUME NEW r \in Runs, NEW u \in Workers, NEW v \in Workers,
                        Owns(u, r)', Owns(v, r)', u # v
                 PROVE  FALSE
      BY DEF SingleOwner
    <2>1. ASSUME NEW o \in Workers, o # w, Owns(o, r)', Owns(w, r)'
          PROVE  FALSE
      <3>1. /\ worker[o].pc \in OwnerPcs /\ worker[o].job = r
            /\ worker'[w].pc \in OwnerPcs /\ worker[w].job = r
        BY <1>f, <2>1 DEF Owns, OwnerPcs
      <3>2. worker[w].pc \notin OwnerPcs
        BY <2>1, <3>1 DEF Owned, SingleOwner, Owns
      <3>3. row[r].state = Queued
        BY <1>t, <3>1, <3>2, NewOwner
      <3>4. row[r].state # Queued
        BY <1>t, <3>1 DEF KnowsRow, Knows
      <3> QED
        BY <3>3, <3>4
    <2>2. CASE u # w /\ v # w
      BY <1>f, <2>2 DEF Owned, SingleOwner, Owns
    <2> QED
      BY <2>1, <2>2
  <1>3. Untouched'
    <2>1. ASSUME NEW r \in Runs, row'[r].state = Queued
          PROVE  row'[r] = QueuedRow
      <3>1. row'[r] = row[r]
        <4>1. CASE row' = row
          BY <4>1
        <4>2. ASSUME NEW target, NEW progress, Moves(w, target, progress)
              PROVE  row'[r] = row[r]
          <5>1. target # Queued
            BY <4>2, StageFacts DEF Moves, RunningStates, Queued, RunningData, RunningSignal,
               RunningExec, RunningReport, Succeeded, Cancelled, Failed
          <5>2. BuildTransition(row[worker[w].job], target, progress).state = target
            BY DEF BuildTransition
          <5> QED
            BY <1>t, <2>1, <4>2, <5>1, <5>2 DEF Moves
        <4> QED
          BY <1>t, <4>1, <4>2, WorkerMoves
      <3> QED
        BY <2>1, <3>1 DEF Owned, Untouched
    <2>2. ASSUME NEW v \in Workers, worker'[v].pc = "claim"
          PROVE  worker'[v].rec = QueuedRow
      <3>1. CASE v # w
        BY <1>f, <2>2, <3>1 DEF Owned, Untouched
      <3>2. CASE v = w
        <4> DEFINE x == row[worker[w].job]
        <4>1. ReadJob(w) /\ x.state = Queued /\ Become(w, With(w, "claim", x, NoRow))
          <5>1. worker'[w].pc = "claim"  BY <2>2, <3>2
          <5>2. worker \in [Workers -> Locals]  BY <1>t DEF TypeInv, TypeOK
          <5>3. CASE ReadJob(w)
            BY <5>1, <5>2, <5>3 DEF ReadJob, Become, With, Local, Idle
          <5>4. ~(Claim(w) \/ ClaimLost(w) \/ StageRaises(w) \/ Advance(w) \/ Finish(w))
            BY <5>1, <5>2 DEF Claim, ClaimLost, StageRaises, Advance, Finish, Write, Become,
               Claimed, At, With, Local, Idle
          <5>5. ~StageDone(w)
            BY <5>1, <5>2 DEF StageDone, Become, At, With, Local
          <5>6. ~(CancelWrite(w) \/ HandlerRead(w) \/ FailWrite(w) \/ FailLost(w))
            BY <5>1, <5>2 DEF CancelWrite, HandlerRead, FailWrite, FailLost, Write, Become,
               At, With, Local, Idle
          <5> QED  BY <1>t, <5>3, <5>4, <5>5, <5>6 DEF WorkerStep
        <4>2. worker'[w].rec = x
          BY <1>t, <4>1 DEF Become, With, Local
        <4>3. worker[w].job \in Runs
          BY <1>t, <4>1 DEF ReadJob, TypeInv, Shape, WorkerShape
        <4> QED
          BY <3>2, <4>1, <4>2, <4>3 DEF Owned, Untouched
      <3> QED
        BY <3>1, <3>2
    <2> QED
      BY <2>1, <2>2 DEF Untouched
  <1> QED
    BY <1>t, <1>1, <1>2, <1>3 DEF Owned

(* Steps that leave every owner where it is, and its row alone or calm. *)
LEMMA OwnedOther ==
    ASSUME Owned, TypeInv',
           \A v \in Workers : worker'[v] = worker[v] \/ worker'[v].pc \in {"idle", "read"},
           \A r \in Runs : trouble[r] \subseteq trouble'[r],
           \A r \in Runs : row[r].state = Absent \/ Calm(row[r], row'[r]),
           \A r \in Runs : row[r].state = Absent => row'[r] \in {row[r], QueuedRow}
    PROVE  Owned'
  <1>t. /\ TypeInv /\ row \in [Runs -> Records] /\ row' \in [Runs -> Records]
        /\ worker \in [Workers -> Locals]
        /\ \A u \in Workers : KnowsRow(u)
    BY DEF Owned, TypeInv, TypeOK
  <1>o. \A v \in Workers : worker'[v].pc \in OwnerPcs \cup {"claim"} => worker'[v] = worker[v]
    BY DEF OwnerPcs
  <1>1. ASSUME NEW v \in Workers
        PROVE  KnowsRow(v)'
    <2> DEFINE r == worker[v].job
    <2> SUFFICES ASSUME worker[v].pc \in OwnerPcs, worker'[v] = worker[v]
                 PROVE  Knows(worker[v], row'[r], trouble'[r])
      BY <1>o DEF KnowsRow
    <2>1. r \in Runs /\ Knows(worker[v], row[r], trouble[r])
      BY <1>t DEF TypeInv, Shape, WorkerShape, OwnerPcs, KnowsRow
    <2>2. Calm(row[r], row'[r])
      BY <2>1 DEF Knows
    <2> QED
      BY <1>t, <2>1, <2>2, KnowsCalm
  <1>2. SingleOwner'
    BY <1>o DEF Owned, SingleOwner, Owns
  <1>3. Untouched'
    <2>1. ASSUME NEW r \in Runs, row'[r].state = Queued
          PROVE  row'[r] = QueuedRow
      <3>1. CASE row[r].state = Absent
        BY <2>1, <3>1 DEF Absent, Queued
      <3>2. CASE row[r].state # Absent
        <4>1. row'[r] = row[r]
          BY <2>1, <3>2 DEF Calm, Queued, CancelRequested, Cancelled
        <4> QED
          BY <2>1, <4>1 DEF Owned, Untouched
      <3> QED
        BY <3>1, <3>2
    <2>2. ASSUME NEW v \in Workers, worker'[v].pc = "claim"
          PROVE  worker'[v].rec = QueuedRow
      BY <1>o, <2>2 DEF Owned, Untouched
    <2> QED
      BY <2>1, <2>2 DEF Untouched
  <1> QED
    BY <1>1, <1>2, <1>3 DEF Owned

(* The contract speaks of the states and records of the lifecycle. *)
LEMMA StoreNames ==
    /\ Store!Absent = Absent /\ Store!Succeeded = Succeeded
    /\ Store!TerminalStates = TerminalStates
    /\ Store!QueuedRow = QueuedRow /\ Store!NoRow = NoRow
    /\ \A x, target, progress :
          /\ Store!CanBuild(x, target, progress) = CanBuild(x, target, progress)
          /\ Store!BuildTransition(x, target, progress) = BuildTransition(x, target, progress)
  <1>1. /\ Store!ActiveStates = ActiveStates /\ Store!TerminalStates = TerminalStates
        /\ Store!StageEdges = StageEdges /\ Store!CancelRequested = CancelRequested
        /\ Store!Cancelled = Cancelled /\ Store!Failed = Failed
        /\ Store!Absent = Absent /\ Store!Succeeded = Succeeded
        /\ Store!QueuedRow = QueuedRow /\ Store!NoRow = NoRow
    BY DEF Store!ActiveStates, ActiveStates, Store!RunningStates, RunningStates,
       Store!TerminalStates, TerminalStates, Store!StageEdges, StageEdges,
       Store!Queued, Queued, Store!RunningData, RunningData, Store!RunningSignal, RunningSignal,
       Store!RunningExec, RunningExec, Store!RunningReport, RunningReport,
       Store!CancelRequested, CancelRequested, Store!Succeeded, Succeeded,
       Store!Failed, Failed, Store!Cancelled, Cancelled, Store!Absent, Absent,
       Store!QueuedRow, QueuedRow, Store!NoRow, NoRow
  <1> QED
    BY <1>1 DEF Store!CanBuild, CanBuild, Store!AllowedTransition, AllowedTransition,
       Store!BuildTransition, BuildTransition

(* A submission inserts its own row only, and only where there is none. *)
LEMMA SubmitRow ==
    ASSUME TypeInv, NEW s \in Runs, SubmitCreate(s)
    PROVE  \/ row' = row
           \/ /\ Store!CreateRow(s)
              /\ row[s].state = Absent
              /\ row' = [row EXCEPT ![s] = QueuedRow]
  <1>1. CASE UNCHANGED row
    BY <1>1
  <1>2. CASE Replayable(s) = {} /\ row' = [row EXCEPT ![s] = QueuedRow]
    <2>1. Store!SameFingerprint(s) = {}
      BY <1>2 DEF Replayable
    <2>2. row[s].state = Absent
      BY <2>1, StoreNames DEF Store!SameFingerprint
    <2> QED
      BY <1>2, <2>1, <2>2, StoreNames DEF Store!CreateRow
  <1> QED
    BY <1>1, <1>2 DEF SubmitCreate

(* An accepted cancel request makes the one write of the store. *)
LEMMA CancelRow ==
    ASSUME TypeInv, NEW c \in Clients, ClientStep(c)
    PROVE  \/ row' = row
           \/ /\ client[c].run \in Runs
              /\ client[c].rec.progress \in 0..100
              /\ CanBuild(row[client[c].run], CancelRequested, client[c].rec.progress)
              /\ row' = [row EXCEPT ![client[c].run] =
                    BuildTransition(row[client[c].run], CancelRequested,
                                    client[c].rec.progress)]
  BY DEF TypeInv, TypeOK, Shape, ClientShape, ClientLocals, Records, ClientStep, CancelGet,
     CancelRequestWrite

LEMMA OwnedInit == Init => Owned
  <1> SUFFICES ASSUME Init
               PROVE  Owned
    OBVIOUS
  <1>1. TypeInv
    BY TypeInit
  <1>2. \A w \in Workers : worker[w].pc = "idle"
    BY DEF Init, Idle, Local
  <1>3. \A r \in Runs : row[r].state # Queued
    BY DEF Init, NoRow, Absent, Queued
  <1> QED
    BY <1>1, <1>2, <1>3 DEF Owned, SingleOwner, Owns, OwnerPcs, KnowsRow, Untouched

LEMMA OwnedStep == Owned /\ [Next]_vars => Owned'
  <1> SUFFICES ASSUME Owned, [Next]_vars
               PROVE  Owned'
    OBVIOUS
  <1>t. TypeInv /\ TypeInv'
    BY TypeStep DEF Owned
  <1>r. /\ row \in [Runs -> Records] /\ trouble \in [Runs -> SUBSET Troubles]
        /\ worker \in [Workers -> Locals]
    BY <1>t DEF TypeInv, TypeOK
  <1>q. ASSUME row' = row, \A r \in Runs : trouble[r] \subseteq trouble'[r],
               \A v \in Workers : worker'[v] = worker[v] \/ worker'[v].pc \in {"idle", "read"}
        PROVE  Owned'
    BY <1>t, <1>q, OwnedOther DEF Calm
  <1>1. ASSUME NEW s \in Runs, SubmitCreate(s)
        PROVE  Owned'
    <2>1. worker' = worker /\ trouble' = trouble
      BY <1>1 DEF SubmitCreate
    <2>2. \/ row' = row
          \/ row[s].state = Absent /\ row' = [row EXCEPT ![s] = QueuedRow]
      BY <1>1, <1>t, SubmitRow
    <2> QED
      BY <1>t, <1>r, <2>1, <2>2, OwnedOther DEF Calm
  <1>2. ASSUME NEW s \in Runs, SubmitEnqueue(s) \/ SubmitLost(s) \/ Redeliver(s)
        PROVE  Owned'
    BY <1>2, <1>q, <1>r DEF SubmitEnqueue, SubmitLost, Redeliver
  <1>3. ASSUME NEW w \in Workers, WorkerStep(w)
        PROVE  Owned'
    BY <1>3, OwnedWorker
  <1>4. ASSUME NEW w \in Workers, Crash(w)
        PROVE  Owned'
    BY <1>4, <1>q, <1>r DEF Crash, Become, Idle, Local
  <1>5. ASSUME NEW w \in Workers, NEW r \in Runs, Receive(w, r)
        PROVE  Owned'
    BY <1>5, <1>q, <1>r DEF Receive, Become, Local
  <1>6. ASSUME NEW c \in Clients, ClientStep(c)
        PROVE  Owned'
    <2>1. worker' = worker /\ trouble' = trouble
      BY <1>6 DEF ClientStep, CancelGet, CancelRequestWrite, Answer
    <2>2. CASE row' = row
      BY <1>q, <1>r, <2>1, <2>2
    <2>3. CASE row' # row
      <3> DEFINE q == client[c].run
                 new == BuildTransition(row[q], CancelRequested, client[c].rec.progress)
      <3>1. /\ q \in Runs /\ client[c].rec.progress \in 0..100
            /\ CanBuild(row[q], CancelRequested, client[c].rec.progress)
            /\ row' = [row EXCEPT ![q] = new]
        BY <1>6, <1>t, <2>3, CancelRow
      <3>2. Calm(row[q], new)
        BY DEF Calm, BuildTransition
      <3>3. row[q].state # Absent
        BY <1>r, <3>1, BuiltRecord, StateFacts
      <3> HIDE DEF q, new
      <3>4. ASSUME NEW r \in Runs
            PROVE  /\ Calm(row[r], row'[r])
                   /\ row[r].state = Absent => row'[r] = row[r]
        <4>1. CASE r = q
          BY <1>r, <3>1, <3>2, <3>3, <4>1
        <4>2. CASE r # q
          BY <1>r, <3>1, <4>2 DEF Calm
        <4> QED
          BY <4>1, <4>2
      <3> QED
        BY <1>t, <2>1, <3>4, OwnedOther
    <2> QED
      BY <2>2, <2>3
  <1>7. ASSUME NEW c \in Clients, NEW r \in Runs, CancelRoute(c, r)
        PROVE  Owned'
    BY <1>7, <1>q DEF CancelRoute, Answer
  <1>8. CASE UNCHANGED vars
    BY <1>8, <1>q DEF vars
  <1> QED
    BY <1>1, <1>2, <1>3, <1>4, <1>5, <1>6, <1>7, <1>8 DEF Next

LEMMA AlwaysOwned == Spec => []Owned
  BY OwnedInit, OwnedStep, PTL DEF Spec

(* However many workers, deliveries, crashes and failing writes there are, *)
(* no run has two owners at a time.                                        *)
THEOREM OneOwner == Spec => []SingleOwner
  <1>1. Owned => SingleOwner
    BY DEF Owned
  <1> QED
    BY <1>1, AlwaysOwned, PTL

-----------------------------------------------------------------------------
(* The safety properties. *)

(* The row of r becomes its successor in state target. *)
Stores(r, target, progress) ==
    /\ CanBuild(row[r], target, progress)
    /\ row' = [row EXCEPT ![r] = BuildTransition(row[r], target, progress)]

(* Every write of the lifecycle is one the store contract allows, so the   *)
(* store keeps its promise whoever writes to it.                           *)
LEMMA ContractStep == TypeInv /\ [Next]_vars => [Store!ContractNext]_row
  <1> SUFFICES ASSUME TypeInv, Next, row' # row
               PROVE  Store!ContractNext
    BY DEF vars
  <1>r. row \in [Runs -> Records]
    BY DEF TypeInv, TypeOK
  <1>m. ASSUME NEW r \in Runs, NEW target, NEW progress \in 0..100,
               target \in RunStateSet, target = Succeeded => progress = 100,
               Stores(r, target, progress)
        PROVE  Store!ContractNext
    <2>1. row'[r].state = target /\ row'[r].progress = progress
      BY <1>r, <1>m DEF Stores, BuildTransition
    <2>2. row[r].state \notin TerminalStates \cup {Absent}
      BY <1>r, <1>m, BuiltRecord DEF Stores
    <2>3. Store!MoveRow(r, target, progress)
      BY <1>m, <2>2, StoreNames DEF Stores, Store!MoveRow
    <2>4. Store!MoveRow(r, row'[r].state, row'[r].progress)
      BY <2>1, <2>3
    <2> QED
      BY <2>4 DEF Store!ContractNext
  <1>1. ASSUME NEW s \in Runs, SubmitCreate(s)
        PROVE  Store!ContractNext
    BY <1>1, SubmitRow DEF Store!ContractNext
  <1>2. ASSUME NEW w \in Workers, WorkerStep(w)
        PROVE  Store!ContractNext
    <2>1. PICK target, progress : Moves(w, target, progress)
      BY <1>2, WorkerMoves
    <2>2. target \in RunStateSet /\ (target = Succeeded => progress = 100)
      BY <2>1, StageFacts, StateFacts DEF Moves, RunningStates, RunningData, RunningSignal,
         RunningExec, RunningReport, Succeeded, Cancelled, Failed
    <2>3. /\ worker[w].job \in Runs
          /\ progress \in 0..100
          /\ Stores(worker[w].job, target, progress)
      BY <2>1 DEF Moves, Stores
    <2> QED
      BY <1>m, <2>2, <2>3
  <1>3. ASSUME NEW c \in Clients, ClientStep(c)
        PROVE  Store!ContractNext
    <2>1. CancelRequested \in RunStateSet /\ CancelRequested # Succeeded
      BY StateFacts DEF CancelRequested, Succeeded
    <2>2. /\ client[c].run \in Runs
          /\ client[c].rec.progress \in 0..100
          /\ Stores(client[c].run, CancelRequested, client[c].rec.progress)
      BY <1>3, CancelRow DEF Stores
    <2> QED
      BY <1>m, <2>1, <2>2
  <1>4. ASSUME NEW w \in Workers, NEW r \in Runs, Crash(w) \/ Receive(w, r)
        PROVE  FALSE
    BY <1>4 DEF Crash, Receive
  <1>5. ASSUME NEW s \in Runs, SubmitEnqueue(s) \/ SubmitLost(s) \/ Redeliver(s)
        PROVE  FALSE
    BY <1>5 DEF SubmitEnqueue, SubmitLost, Redeliver
  <1>6. ASSUME NEW c \in Clients, NEW r \in Runs, CancelRoute(c, r)
        PROVE  FALSE
    BY <1>6 DEF CancelRoute
  <1>7. ASSUME NEW w \in Workers, Crash(w)
        PROVE  FALSE
    BY <1>7 DEF Crash
  <1> QED
    BY <1>1, <1>2, <1>3, <1>4, <1>5, <1>6, <1>7 DEF Next

(* The lifecycle implements the contract of the run store: one row per     *)
(* fingerprint, versions that advance by one, progress that never falls,   *)
(* terminal rows that stay.                                                *)
THEOREM LifecycleImplementsContract == Spec => StoreContract
  <1>1. Init => Store!ContractInit
    BY StoreNames DEF Init, Store!ContractInit
  <1>2. Spec => []TypeInv
    BY TypeInit, TypeStep, PTL DEF Spec
  <1> QED
    BY <1>1, <1>2, ContractStep, PTL DEF Spec, StoreContract, Store!ContractSpec

(* OnlyErrorsFail with what makes it inductive: an owner about to write     *)
(* failed has an error on record (the handler and fail conjunct of Knows).  *)
FailedHonestly == Owned /\ OnlyErrorsFail

(* A run is stored as failed only when its owner met an error: neither a   *)
(* duplicate delivery nor a cancel request fails it.                       *)
LEMMA FailedStep == FailedHonestly /\ [Next]_vars => OnlyErrorsFail'
  <1> SUFFICES ASSUME Owned, OnlyErrorsFail, [Next]_vars, NEW r \in Runs, row'[r].state = Failed
               PROVE  trouble'[r] \cap {"error", "fault"} # {}
    BY DEF FailedHonestly, OnlyErrorsFail
  <1>t. /\ TypeInv /\ row \in [Runs -> Records] /\ trouble \in [Runs -> SUBSET Troubles]
        /\ \A w \in Workers : KnowsRow(w)
    BY DEF Owned, TypeInv, TypeOK
  <1>g. trouble[r] \subseteq trouble'[r]
    <2>1. ASSUME NEW w \in Workers, WorkerStep(w)
          PROVE  trouble[r] \subseteq trouble'[r]
      BY <1>t, <2>1, WorkerFrame
    <2>2. ASSUME NEW s \in Runs, SubmitLost(s)
          PROVE  trouble[r] \subseteq trouble'[r]
      BY <1>t, <2>2 DEF SubmitLost
    <2>3. ASSUME NEW w \in Workers, Crash(w)
          PROVE  trouble[r] \subseteq trouble'[r]
      BY <1>t, <2>3 DEF Crash
    <2>4. ASSUME trouble' = trouble
          PROVE  trouble[r] \subseteq trouble'[r]
      BY <2>4
    <2>5. ASSUME NEW s \in Runs, SubmitCreate(s) \/ SubmitEnqueue(s) \/ Redeliver(s)
          PROVE  trouble' = trouble
      BY <2>5 DEF SubmitCreate, SubmitEnqueue, Redeliver
    <2>6. ASSUME NEW c \in Clients, ClientStep(c)
          PROVE  trouble' = trouble
      BY <2>6 DEF ClientStep, CancelGet, CancelRequestWrite, Answer
    <2> QED
      BY <2>1, <2>2, <2>3, <2>4, <2>5, <2>6 DEF Next, vars, Receive, CancelRoute, Answer
  <1>1. CASE row[r].state = Failed
    BY <1>1, <1>g DEF OnlyErrorsFail
  <1>2. CASE row[r].state # Failed
    <2>1. ASSUME NEW w \in Workers, WorkerStep(w)
          PROVE  trouble'[r] \cap {"error", "fault"} # {}
      <3>1. PICK target, progress : Moves(w, target, progress)
        BY <1>t, <1>2, <2>1, WorkerMoves
      <3>2. worker[w].job = r /\ target = Failed
        BY <1>t, <1>2, <3>1 DEF Moves, BuildTransition
      <3>3. worker[w].pc = "fail" /\ Mine(w, row[r])
        BY <3>1, <3>2, StageFacts DEF Moves, Failed, RunningStates, RunningData, RunningSignal,
           RunningExec, RunningReport, Succeeded, Cancelled
      <3>4. Knows(worker[w], row[r], trouble[r])
        BY <1>t, <3>2, <3>3 DEF KnowsRow, OwnerPcs
      <3>5. trouble[r] \cap {"error", "fault"} # {}
        BY <3>3, <3>4 DEF Knows, Mine
      <3> QED
        BY <1>g, <3>5
    <2>2. ASSUME NEW s \in Runs, SubmitCreate(s)
          PROVE  FALSE
      BY <1>t, <1>2, <2>2, SubmitRow DEF QueuedRow, Queued, Failed
    <2>3. ASSUME NEW c \in Clients, ClientStep(c)
          PROVE  FALSE
      <3> DEFINE q == client[c].run
                 new == BuildTransition(row[q], CancelRequested, client[c].rec.progress)
      <3>1. row' = row \/ row' = [row EXCEPT ![q] = new]
        BY <1>t, <2>3, CancelRow
      <3>2. new.state # Failed
        BY DEF BuildTransition, CancelRequested, Failed
      <3> HIDE DEF q, new
      <3> QED
        BY <1>t, <1>2, <3>1, <3>2
    <2>4. row' # row
      BY <1>2
    <2> QED
      BY <2>1, <2>2, <2>3, <2>4 DEF Next, vars, SubmitEnqueue, SubmitLost, Redeliver, Crash,
         Receive, CancelRoute
  <1> QED
    BY <1>1, <1>2

(* However often a run is delivered and whenever it is cancelled, it is     *)
(* stored as failed only after a stage or the store raised in its owner.    *)
THEOREM FailuresAreErrors == Spec => []OnlyErrorsFail
  <1>1. Init => OnlyErrorsFail
    BY DEF Init, OnlyErrorsFail, NoRow, Absent, Failed
  <1>2. FailedHonestly /\ [Next]_vars => FailedHonestly'
    BY FailedStep, OwnedStep DEF FailedHonestly
  <1>3. Init => FailedHonestly
    BY <1>1, OwnedInit DEF FailedHonestly
  <1>4. FailedHonestly => OnlyErrorsFail
    BY DEF FailedHonestly
  <1> QED
    BY <1>2, <1>3, <1>4, PTL DEF Spec

(* Only requested rows are cancelled, and an accepted request keeps its row *)
(* cancel-requested or cancelled.                                           *)
LEMMA AcceptedStep == Owned /\ AcceptedCancelSticks /\ [Next]_vars => AcceptedCancelSticks'
  <1> DEFINE Cancelling == {CancelRequested, Cancelled}
  <1> SUFFICES ASSUME Owned, AcceptedCancelSticks, [Next]_vars,
                      NEW c \in Clients, client'[c].pc = "accepted"
               PROVE  row'[client'[c].run].state \in Cancelling
    BY DEF AcceptedCancelSticks
  <1>t. /\ TypeInv /\ TypeInv'
        /\ row \in [Runs -> Records] /\ client \in [Clients -> ClientLocals]
        /\ \A d \in Clients : ClientShape(d)
        /\ \A w \in Workers : KnowsRow(w)
    BY TypeStep DEF Owned, TypeInv, TypeOK, Shape
  (* No write takes a row out of the cancelled states. *)
  <1>k. ASSUME NEW r \in Runs, row[r].state \in Cancelling
        PROVE  row'[r].state \in Cancelling
    <2>1. ASSUME NEW w \in Workers, WorkerStep(w)
          PROVE  row'[r].state \in Cancelling
      <3> SUFFICES ASSUME NEW target, NEW progress, Moves(w, target, progress)
                   PROVE  row'[r].state \in Cancelling
        BY <1>t, <1>k, <2>1, WorkerMoves
      <3>1. CASE worker[w].job # r
        BY <1>t, <1>k, <3>1 DEF Moves
      <3>2. CASE worker[w].job = r
        <4>1. row'[r].state = target
          BY <1>t, <3>2 DEF Moves, BuildTransition
        <4>2. CanBuild(row[r], target, progress) /\ row[r] \in Records
          BY <3>2 DEF Moves
        <4>3. target \notin RunningStates \cup {Queued}
          BY <1>k, <4>2, NoWayBack
        <4>4. worker[w].pc # "claim" /\ worker[w].pc # "advance" /\ worker[w].pc # "finish"
          BY <1>k, <3>2, <4>3, StageFacts DEF Moves, Queued, RunningStates, RunningReport,
             CancelRequested, Cancelled
        <4>5. worker[w].pc # "fail"
          <5> SUFFICES ASSUME worker[w].pc = "fail"
                       PROVE  FALSE
            OBVIOUS
          <5>1. Mine(w, row[r]) /\ worker[w].stage \in 1..4
            BY <1>t, <3>2 DEF Moves, TypeInv, Shape, WorkerShape, OwnerPcs
          <5>2. row[r].state = StageState[worker[w].stage]
            BY <1>t, <3>2, <5>1 DEF KnowsRow, Knows, OwnerPcs, Mine
          <5> QED
            BY <1>k, <5>1, <5>2 DEF StageState, RunningData, RunningSignal, RunningExec,
               RunningReport, CancelRequested, Cancelled
        <4> QED
          BY <4>1, <4>4, <4>5 DEF Moves
      <3> QED
        BY <3>1, <3>2
    <2>2. ASSUME NEW s \in Runs, SubmitCreate(s)
          PROVE  row'[r].state \in Cancelling
      BY <1>t, <1>k, <2>2, SubmitRow DEF Absent, CancelRequested, Cancelled
    <2>3. ASSUME NEW d \in Clients, ClientStep(d)
          PROVE  row'[r].state \in Cancelling
      <3> DEFINE q == client[d].run
                 new == BuildTransition(row[q], CancelRequested, client[d].rec.progress)
      <3>1. row' = row \/ row' = [row EXCEPT ![q] = new]
        BY <1>t, <2>3, CancelRow
      <3>2. new.state = CancelRequested
        BY DEF BuildTransition
      <3> HIDE DEF q, new
      <3> QED
        BY <1>t, <1>k, <3>1, <3>2
    <2>4. row' = row => row'[r].state \in Cancelling
      BY <1>k
    <2> QED
      BY <2>1, <2>2, <2>3, <2>4 DEF Next, vars, SubmitEnqueue, SubmitLost, Redeliver, Crash,
         Receive, CancelRoute
  <1>1. CASE client'[c] = client[c]
    <2>1. client[c].run \in Runs /\ row[client[c].run].state \in Cancelling
      BY <1>t, <1>1 DEF ClientShape, AcceptedCancelSticks
    <2> QED
      BY <1>1, <1>k, <2>1
  <1>2. CASE client'[c] # client[c]
    <2>o. ASSUME NEW d \in Clients, NEW q, client' = [client EXCEPT ![d] = q]
          PROVE  d = c /\ client'[c] = q
      BY <1>t, <1>2, <2>o
    <2>1. ASSUME NEW d \in Clients, CancelGet(d)
          PROVE  row'[client'[c].run].state \in Cancelling
      <3> DEFINE r == client[d].run
      <3>1. row' = row
        BY <2>1 DEF CancelGet
      <3>2. PICK pc, rec, n : /\ client' = [client EXCEPT ![d] = Request(pc, r, rec, n)]
                              /\ pc = "accepted" => row[r].state \in Cancelling
        BY <2>1 DEF CancelGet, Answer
      <3>3. client'[c] = Request(pc, r, rec, n)
        BY <2>o, <3>2
      <3> QED
        BY <3>1, <3>2, <3>3 DEF Request
    <2>2. ASSUME NEW d \in Clients, CancelRequestWrite(d)
          PROVE  row'[client'[c].run].state \in Cancelling
      <3> DEFINE r == client[d].run
                 new == BuildTransition(row[r], CancelRequested, client[d].rec.progress)
      <3>1. PICK pc, rec, n : /\ client' = [client EXCEPT ![d] = Request(pc, r, rec, n)]
                              /\ pc = "accepted" => row' = [row EXCEPT ![r] = new]
        BY <2>2 DEF CancelRequestWrite, Answer
      <3>2. client'[c] = Request(pc, r, rec, n)
        BY <2>o, <3>1
      <3>3. pc = "accepted" /\ client'[c].run = r /\ r \in Runs
        <4>1. client[d].pc # "idle"
          BY <2>2 DEF CancelRequestWrite
        <4> QED
          BY <1>t, <3>2, <4>1 DEF Request, ClientShape
      <3>4. row'[r] = new
        BY <1>t, <3>1, <3>3
      <3> QED
        BY <3>3, <3>4 DEF BuildTransition
    <2>3. ASSUME NEW d \in Clients, NEW r \in Runs, CancelRoute(d, r)
          PROVE  row'[client'[c].run].state \in Cancelling
      <3>1. row' = row
        BY <2>3 DEF CancelRoute
      <3>2. PICK pc, rec, n : /\ client' = [client EXCEPT ![d] = Request(pc, r, rec, n)]
                              /\ pc = "accepted" => row[r].state \in Cancelling
        BY <2>3 DEF CancelRoute, Answer
      <3>3. client'[c] = Request(pc, r, rec, n)
        BY <2>o, <3>2
      <3> QED
        BY <3>1, <3>2, <3>3 DEF Request
    <2>4. ASSUME NEW w \in Workers, WorkerStep(w)
          PROVE  FALSE
      BY <1>t, <1>2, <2>4, WorkerFrame
    <2>5. client' # client
      BY <1>2
    <2> QED
      BY <2>1, <2>2, <2>3, <2>4, <2>5 DEF Next, vars, SubmitCreate, SubmitEnqueue, SubmitLost,
         Redeliver, Crash, Receive, ClientStep
  <1> QED
    BY <1>1, <1>2

(* A client told that its cancellation is accepted never sees the run       *)
(* succeed or fail, whatever its owner was doing when the request arrived.  *)
THEOREM CancelSticks == Spec => []AcceptedCancelSticks
  <1>1. Init => AcceptedCancelSticks
    BY DEF Init, AcceptedCancelSticks, Silent, Request
  <1>2. Owned /\ AcceptedCancelSticks /\ [Next]_vars => (Owned /\ AcceptedCancelSticks)'
    BY AcceptedStep, OwnedStep
  <1> QED
    BY <1>1, <1>2, OwnedInit, PTL DEF Spec

(* NoRunForgotten says who looks after an active row; to be inductive it    *)
(* must tell queued rows, which wait for a claim, from running rows, which  *)
(* have an owner.                                                           *)
Waiting(r) ==
    \/ deliveries[r] > 0
    \/ \E s \in Runs : sub[s].pc = "enqueue" /\ sub[s].run = r
    \/ \E w \in Workers : worker[w].job = r /\ worker[w].pc \in {"read", "claim"}

Dropped(r) == trouble[r] \cap {"fault", "lost"} # {}

Kept(r) ==
    \/ Dropped(r)
    \/ \E w \in Workers : Owns(w, r)
    \/ row[r].state = Queued /\ Waiting(r)

AllKept == \A r \in Runs : row[r].state \in ActiveStates => Kept(r)

LEMMA KeptImplies == AllKept => NoRunForgotten
  BY DEF AllKept, Kept, Waiting, Dropped, NoRunForgotten, Carried

LEMMA ActiveFacts ==
    /\ ActiveStates \cap (TerminalStates \cup {CancelRequested, Absent}) = {}
    /\ Queued \in ActiveStates
    /\ {Succeeded, Failed, Cancelled} = TerminalStates
  BY DEF ActiveStates, RunningStates, TerminalStates, Queued, RunningData, RunningSignal,
     RunningExec, RunningReport, CancelRequested, Succeeded, Failed, Cancelled, Absent

(* An owner lets go of an active row only because of a fault.               *)
LEMMA OwnerLeaves ==
    ASSUME Owned, NEW w \in Workers, NEW r \in Runs, Owns(w, r), WorkerStep(w)
    PROVE  Owns(w, r)' \/ Dropped(r)' \/ row'[r].state \notin ActiveStates
  <1> DEFINE l == worker[w]
             x == row[r]
  <1>t. /\ row \in [Runs -> Records] /\ worker \in [Workers -> Locals]
        /\ trouble \in [Runs -> SUBSET Troubles]
        /\ l.job = r /\ l.pc \in OwnerPcs /\ Knows(l, x, trouble[r])
        /\ x.version \in Nat /\ l.rec.version \in Nat
    BY DEF Owned, TypeInv, TypeOK, Owns, KnowsRow, Locals, Records
  <1>b. ASSUME NEW local, Become(w, local), local.pc \in OwnerPcs, local.job = r
        PROVE  Owns(w, r)'
    BY <1>t, <1>b DEF Become, Owns
  <1>a. ASSUME NEW pc \in OwnerPcs, Become(w, At(w, pc))
        PROVE  Owns(w, r)'
    BY <1>t, <1>a, <1>b DEF At, Local
  <1>v. ASSUME x.version # l.rec.version
        PROVE  x.state \in TerminalStates \cup {CancelRequested} \/ Dropped(r)
    BY <1>t, <1>v DEF Knows, Dropped
  <1>1. CASE StageDone(w)
    <2> DEFINE next == Local("stage", r, x, NoRow, l.stage + 1)
    <2>1. \/ Become(w, With(w, "cancelIn", l.rec, x))
          \/ Become(w, At(w, "finish"))
          \/ Become(w, next)
          \/ Become(w, With(w, "advance", l.rec, x))
      BY <1>t, <1>1 DEF StageDone
    <2>2. /\ With(w, "cancelIn", l.rec, x).pc \in OwnerPcs
          /\ With(w, "cancelIn", l.rec, x).job = r
          /\ With(w, "advance", l.rec, x).pc \in OwnerPcs
          /\ With(w, "advance", l.rec, x).job = r
          /\ next.pc \in OwnerPcs /\ next.job = r
          /\ "finish" \in OwnerPcs
      BY <1>t DEF With, Local, OwnerPcs
    <2> HIDE DEF next
    <2> QED
      BY <1>a, <1>b, <2>1, <2>2
  <1>2. CASE StageRaises(w)
    BY <1>2, <1>a DEF StageRaises, OwnerPcs
  <1>3. CASE Advance(w)
    <2> DEFINE next == Local("stage", r, Written(w, TargetOf[l.stage],
                             AtLeast(ProgressOf[l.stage], l.cur.progress)), NoRow, l.stage + 1)
    <2>1. Become(w, next) \/ Become(w, At(w, "handler"))
      BY <1>t, <1>3 DEF Advance, Write
    <2>2. next.pc \in OwnerPcs /\ next.job = r /\ "handler" \in OwnerPcs
      BY DEF Local, OwnerPcs
    <2> HIDE DEF next
    <2> QED
      BY <1>a, <1>b, <2>1, <2>2
  <1>4. CASE Finish(w)
    <2>1. \/ Become(w, At(w, "handler"))
          \/ row' = [row EXCEPT ![r] = Written(w, Succeeded, 100)]
      BY <1>t, <1>4 DEF Finish, Write
    <2>2. Written(w, Succeeded, 100).state \notin ActiveStates
      BY ActiveFacts DEF Written, BuildTransition
    <2> QED
      BY <1>t, <1>a, <2>1, <2>2 DEF OwnerPcs
  <1>5. CASE CancelWrite(w)
    <2> DEFINE progress == l.cur.progress
    <2>1. l.pc = "cancelIn"
      BY <1>t, <1>5 DEF CancelWrite, OwnerPcs
    <2>2. \/ Become(w, At(w, "handler"))
          \/ row' = [row EXCEPT ![r] = Written(w, Cancelled, progress)]
      BY <1>t, <1>5, <2>1 DEF CancelWrite, Write
    <2>3. Written(w, Cancelled, progress).state \notin ActiveStates
      BY ActiveFacts DEF Written, BuildTransition
    <2> HIDE DEF progress
    <2> QED
      BY <1>t, <1>a, <2>2, <2>3 DEF OwnerPcs
  <1>6. CASE HandlerRead(w)
    <2>1. /\ row' = row /\ trouble' = trouble
          /\ \/ x.state = CancelRequested
             \/ x.state \in TerminalStates
             \/ ~Mine(w, x)
             \/ Become(w, At(w, "fail"))
      BY <1>t, <1>6 DEF HandlerRead, WorkerOnly
    <2>2. ~Mine(w, x) => x.version # l.rec.version
      BY <1>t DEF Mine, Knows
    <2> QED
      BY <1>a, <1>v, <2>1, <2>2, ActiveFacts DEF Dropped, OwnerPcs
  <1>7. CASE FailWrite(w)
    <2>1. \/ Become(w, At(w, "failLost"))
          \/ row' = [row EXCEPT ![r] = Written(w, Failed, l.rec.progress)]
      BY <1>t, <1>7 DEF FailWrite, Write
    <2>2. Written(w, Failed, l.rec.progress).state \notin ActiveStates
      BY ActiveFacts DEF Written, BuildTransition
    <2> QED
      BY <1>t, <1>a, <2>1, <2>2 DEF OwnerPcs
  <1>8. CASE FailLost(w)
    <2>1. l.pc = "failLost" /\ row' = row /\ trouble' = trouble
      BY <1>8 DEF FailLost, WorkerOnly
    <2>2. x.version # l.rec.version \/ Dropped(r)
      BY <1>t, <2>1 DEF Knows, Dropped
    <2> QED
      BY <1>v, <2>1, <2>2, ActiveFacts DEF Dropped
  <1>9. CASE ReadJob(w) \/ Claim(w) \/ ClaimLost(w)
    BY <1>t, <1>9 DEF ReadJob, Claim, ClaimLost, OwnerPcs
  <1> QED
    BY <1>1, <1>2, <1>3, <1>4, <1>5, <1>6, <1>7, <1>8, <1>9 DEF WorkerStep

(* A claim that finds its row queued makes its worker the owner, unless the *)
(* write itself fails.                                                      *)
LEMMA ClaimOutcome ==
    ASSUME Owned, NEW w \in Workers, NEW r \in Runs, worker[w].job = r,
           Claim(w), row[r].state = Queued
    PROVE  Owns(w, r)' \/ Dropped(r)'
  <1>t. worker \in [Workers -> Locals] /\ trouble \in [Runs -> SUBSET Troubles]
    BY DEF Owned, TypeInv, TypeOK
  <1>1. row[r] = QueuedRow /\ worker[w].rec = QueuedRow
    BY DEF Owned, Untouched, Claim
  <1>2. row[r].version = worker[w].rec.version /\ CanBuild(row[r], RunningData, 10)
    BY <1>1 DEF CanBuild, AllowedTransition, StageEdges, QueuedRow
  <1>3. Become(w, Claimed(w)) \/ trouble' = [trouble EXCEPT ![r] = @ \cup {"fault"}]
    BY <1>2 DEF Claim, Write
  <1>4. Become(w, Claimed(w)) => Owns(w, r)'
    BY <1>t DEF Become, Claimed, Local, Owns, OwnerPcs
  <1> QED
    BY <1>t, <1>3, <1>4 DEF Dropped

LEMMA QueuedStep ==
    ASSUME Owned, NEW w \in Workers, NEW r \in Runs, WorkerStep(w),
           row[r].state = Queued, Waiting(r)
    PROVE  Owns(w, r)' \/ Dropped(r)' \/ (row'[r].state = Queued /\ Waiting(r)')
  <1>t. /\ TypeInv /\ row \in [Runs -> Records] /\ worker \in [Workers -> Locals]
        /\ \A v \in Workers : KnowsRow(v)
    BY DEF Owned, TypeInv, TypeOK
  <1>f. /\ \A v \in Workers : v # w => worker'[v] = worker[v]
        /\ deliveries' = deliveries /\ sub' = sub
    BY <1>t, WorkerFrame
  <1>1. CASE Claim(w) /\ worker[w].job = r
    BY <1>1, ClaimOutcome
  <1>2. CASE ~(Claim(w) /\ worker[w].job = r)
    <2>1. row'[r] = row[r]
      <3> SUFFICES ASSUME NEW target, NEW progress, Moves(w, target, progress),
                          worker[w].job = r
                   PROVE  FALSE
        BY <1>t, WorkerMoves DEF Moves
      <3>1. worker[w].pc # "claim"
        BY <1>2 DEF WorkerStep, ReadJob, ClaimLost, StageDone, StageRaises, Advance, Finish,
           CancelWrite, HandlerRead, FailWrite, FailLost
      <3>2. worker[w].pc \notin OwnerPcs
        BY <1>t DEF KnowsRow, Knows
      <3> QED
        BY <3>1, <3>2 DEF Moves, OwnerPcs, Queued, CancelRequested
    <2>2. Waiting(r)'
      <3>1. CASE deliveries[r] > 0 \/ \E s \in Runs : sub[s].pc = "enqueue" /\ sub[s].run = r
        BY <1>f, <3>1 DEF Waiting
      <3>2. ASSUME NEW v \in Workers, v # w, worker[v].job = r,
                   worker[v].pc \in {"read", "claim"}
            PROVE  Waiting(r)'
        BY <1>f, <3>2 DEF Waiting
      <3>3. CASE worker[w].job = r /\ worker[w].pc \in {"read", "claim"}
        <4>1. ReadJob(w)
          BY <1>2, <3>3 DEF WorkerStep, ClaimLost, StageDone, StageRaises, Advance, Finish,
             CancelWrite, HandlerRead, FailWrite, FailLost, Claim
        <4>2. Become(w, With(w, "claim", row[r], NoRow))
          BY <3>3, <4>1 DEF ReadJob, Queued, CancelRequested
        <4>3. worker'[w].job = r /\ worker'[w].pc = "claim"
          BY <1>t, <3>3, <4>2 DEF Become, With, Local
        <4> QED
          BY <4>3 DEF Waiting
      <3> QED
        BY <3>1, <3>2, <3>3 DEF Waiting
    <2> QED
      BY <2>1, <2>2
  <1> QED
    BY <1>1, <1>2

LEMMA ActiveBefore ==
    ASSUME NEW x, NEW target \in ActiveStates, NEW progress, CanBuild(x, target, progress)
    PROVE  x.state \in ActiveStates
  BY DEF CanBuild, AllowedTransition, StageEdges, ActiveStates, RunningStates, Queued,
     RunningData, RunningSignal, RunningExec, RunningReport, CancelRequested, Succeeded,
     Failed, Cancelled

LEMMA KeptStep == Owned /\ AllKept /\ [Next]_vars => AllKept'
  <1> SUFFICES ASSUME Owned, AllKept, [Next]_vars, NEW r \in Runs,
                      row'[r].state \in ActiveStates
               PROVE  Kept(r)'
    BY DEF AllKept
  <1>t. /\ TypeInv /\ row \in [Runs -> Records] /\ worker \in [Workers -> Locals]
        /\ trouble \in [Runs -> SUBSET Troubles] /\ deliveries \in [Runs -> Nat]
        /\ sub \in [Runs -> [pc : {"new", "enqueue", "done"}, run : Runs \cup {NoRun}]]
    BY DEF Owned, TypeInv, TypeOK
  <1>k. row[r].state \in ActiveStates => Kept(r)
    BY DEF AllKept
  <1>1. ASSUME NEW w \in Workers, WorkerStep(w)
        PROVE  Kept(r)'
    <2>f. /\ \A v \in Workers : v # w => worker'[v] = worker[v]
          /\ trouble[r] \subseteq trouble'[r]
      BY <1>t, <1>1, WorkerFrame
    <2>1. row[r].state \in ActiveStates
      <3>1. ASSUME NEW target, NEW progress, Moves(w, target, progress)
            PROVE  row[r].state \in ActiveStates
        <4>1. CASE worker[w].job # r
          BY <1>t, <3>1, <4>1 DEF Moves
        <4>2. CASE worker[w].job = r
          <5>1. row'[r].state = target /\ CanBuild(row[r], target, progress)
            BY <1>t, <3>1, <4>2 DEF Moves, BuildTransition
          <5> QED
            BY <5>1, ActiveBefore
        <4> QED
          BY <4>1, <4>2
      <3> QED
        BY <1>t, <1>1, <3>1, WorkerMoves
    <2>2. CASE Dropped(r)
      BY <2>f, <2>2 DEF Dropped, Kept
    <2>3. ASSUME NEW v \in Workers, Owns(v, r)
          PROVE  Kept(r)'
      <3>1. CASE v = w
        BY <1>1, <2>3, <3>1, OwnerLeaves DEF Kept
      <3>2. CASE v # w
        BY <2>f, <2>3, <3>2 DEF Owns, Kept
      <3> QED
        BY <3>1, <3>2
    <2>4. CASE row[r].state = Queued /\ Waiting(r)
      BY <1>1, <2>4, QueuedStep DEF Kept
    <2> QED
      BY <1>k, <2>1, <2>2, <2>3, <2>4 DEF Kept
  <1>2. ASSUME NEW s \in Runs, SubmitCreate(s)
        PROVE  Kept(r)'
    <2>1. worker' = worker /\ trouble' = trouble /\ deliveries' = deliveries
      BY <1>2 DEF SubmitCreate
    <2>2. ASSUME NEW q \in Runs, sub[q].pc = "enqueue"
          PROVE  sub'[q] = sub[q]
      BY <1>t, <1>2, <2>2 DEF SubmitCreate
    <2>3. CASE row'[r] = row[r]
      BY <1>k, <2>1, <2>2, <2>3 DEF Kept, Waiting, Dropped, Owns
    <2>4. CASE row'[r] # row[r]
      <3>1. r = s /\ row'[r] = QueuedRow /\ sub'[s] = [pc |-> "enqueue", run |-> s]
        BY <1>t, <1>2, <2>4 DEF SubmitCreate
      <3>2. row'[r].state = Queued /\ sub'[s].pc = "enqueue" /\ sub'[s].run = r
        BY <3>1 DEF QueuedRow
      <3> QED
        BY <3>2 DEF Kept, Waiting
    <2> QED
      BY <2>3, <2>4
  <1>3. ASSUME NEW s \in Runs, SubmitEnqueue(s)
        PROVE  Kept(r)'
    <2>1. worker' = worker /\ trouble' = trouble /\ row' = row
      BY <1>3 DEF SubmitEnqueue
    <2>2. (deliveries[r] > 0 => deliveries'[r] > 0) /\ (sub[s].run = r => deliveries'[r] > 0)
      BY <1>t, <1>3 DEF SubmitEnqueue
    <2>3. \A q \in Runs : q # s => sub'[q] = sub[q]
      BY <1>t, <1>3 DEF SubmitEnqueue
    <2>4. Waiting(r) => Waiting(r)'
      BY <1>t, <2>1, <2>2, <2>3 DEF Waiting
    <2> QED
      BY <1>k, <2>1, <2>4 DEF Kept, Dropped, Owns
  <1>4. ASSUME NEW s \in Runs, SubmitLost(s)
        PROVE  Kept(r)'
    <2>1. worker' = worker /\ deliveries' = deliveries /\ row' = row
      BY <1>4 DEF SubmitLost
    <2>2. trouble[r] \subseteq trouble'[r] /\ (sub[s].run = r => "lost" \in trouble'[r])
      BY <1>t, <1>4 DEF SubmitLost
    <2>3. \A q \in Runs : q # s => sub'[q] = sub[q]
      BY <1>t, <1>4 DEF SubmitLost
    <2>4. Waiting(r) => Waiting(r)' \/ Dropped(r)'
      BY <2>1, <2>2, <2>3 DEF Waiting, Dropped
    <2> QED
      BY <1>k, <2>1, <2>2, <2>4 DEF Kept, Dropped, Owns
  <1>5. ASSUME NEW s \in Runs, Redeliver(s)
        PROVE  Kept(r)'
    <2>1. worker' = worker /\ trouble' = trouble /\ row' = row /\ sub' = sub
      BY <1>5 DEF Redeliver
    <2>2. deliveries[r] > 0 => deliveries'[r] > 0
      BY <1>t, <1>5 DEF Redeliver
    <2> QED
      BY <1>k, <2>1, <2>2 DEF Kept, Waiting, Dropped, Owns
  <1>6. ASSUME NEW w \in Workers, Crash(w)
        PROVE  Kept(r)'
    <2>1. row' = row /\ sub' = sub /\ deliveries' = deliveries
      BY <1>6 DEF Crash
    <2>2. \A v \in Workers : v # w => worker'[v] = worker[v]
      BY <1>t, <1>6 DEF Crash, Become
    <2>3. trouble[r] \subseteq trouble'[r] /\ (worker[w].job = r => "lost" \in trouble'[r])
      BY <1>t, <1>6 DEF Crash
    <2>4. CASE worker[w].job = r
      BY <2>3, <2>4 DEF Kept, Dropped
    <2>5. CASE worker[w].job # r
      BY <1>k, <2>1, <2>2, <2>3, <2>5 DEF Kept, Waiting, Dropped, Owns
    <2> QED
      BY <2>4, <2>5
  <1>7. ASSUME NEW w \in Workers, NEW q \in Runs, Receive(w, q)
        PROVE  Kept(r)'
    <2>1. row' = row /\ sub' = sub /\ trouble' = trouble
      BY <1>7 DEF Receive
    <2>2. \A v \in Workers : v # w => worker'[v] = worker[v]
      BY <1>t, <1>7 DEF Receive, Become
    <2>3. worker[w].pc = "idle" /\ worker'[w].pc = "read" /\ worker'[w].job = q
      BY <1>t, <1>7 DEF Receive, Become, Local
    <2>4. q # r => deliveries'[r] = deliveries[r]
      BY <1>t, <1>7 DEF Receive
    <2>5. Waiting(r) => Waiting(r)'
      BY <2>1, <2>2, <2>3, <2>4 DEF Waiting
    <2>6. \A v \in Workers : Owns(v, r) => Owns(v, r)'
      BY <2>2, <2>3 DEF Owns, OwnerPcs
    <2> QED
      BY <1>k, <2>1, <2>5, <2>6 DEF Kept, Dropped
  <1>8. ASSUME NEW c \in Clients, ClientStep(c)
        PROVE  Kept(r)'
    <2>1. worker' = worker /\ sub' = sub /\ trouble' = trouble /\ deliveries' = deliveries
      BY <1>8 DEF ClientStep, CancelGet, CancelRequestWrite, Answer
    <2>2. row'[r] = row[r]
      <3> DEFINE q == client[c].run
                 new == BuildTransition(row[q], CancelRequested, client[c].rec.progress)
      <3>1. row' = row \/ row' = [row EXCEPT ![q] = new]
        BY <1>t, <1>8, CancelRow
      <3>2. new.state \notin ActiveStates
        BY ActiveFacts DEF BuildTransition
      <3> HIDE DEF q, new
      <3> QED
        BY <1>t, <3>1, <3>2
    <2> QED
      BY <1>k, <2>1, <2>2 DEF Kept, Waiting, Dropped, Owns
  <1>9. ASSUME NEW c \in Clients, NEW q \in Runs, CancelRoute(c, q)
        PROVE  Kept(r)'
    BY <1>k, <1>9 DEF CancelRoute, Answer, Kept, Waiting, Dropped, Owns
  <1>10. CASE UNCHANGED vars
    BY <1>k, <1>10 DEF vars, Kept, Waiting, Dropped, Owns
  <1> QED
    BY <1>1, <1>2, <1>3, <1>4, <1>5, <1>6, <1>7, <1>8, <1>9, <1>10 DEF Next

(* A queued or running row has a message, a submission or a worker that     *)
(* will look at it, unless a crash, a refused message or a failing write    *)
(* was met on the way.                                                      *)
THEOREM NobodyForgets == Spec => []NoRunForgotten
  <1>1. Init => AllKept
    BY ActiveFacts DEF Init, AllKept, NoRow
  <1>2. Owned /\ AllKept /\ [Next]_vars => (Owned /\ AllKept)'
    BY KeptStep, OwnedStep
  <1> QED
    BY <1>1, <1>2, OwnedInit, KeptImplies, PTL DEF Spec
================================================================================
