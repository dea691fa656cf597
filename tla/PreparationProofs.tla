--------------------------- MODULE PreparationProofs ---------------------------
(***************************************************************************)
(* Proofs about PreparationCoordinator: its types, that a request is       *)
(* prepared once at a time, that every id answers and keeps its final      *)
(* state, that a queued run has its message, and that accepted             *)
(* cancellations take effect.                                              *)
(*                                                                         *)
(* The argument: a row is never removed and never becomes active again     *)
(* (RowsKept), and only the preparation of an id inserts the row of that   *)
(* id.  So an id answers from its preparation until the preparation is     *)
(* over, and from one row ever after (RunSound); and whoever was told of a *)
(* cancellation can point at a place (Landed) from which it is not lost.   *)
(***************************************************************************)
EXTENDS PreparationCoordinator, TLAPS

Live(r) == task[r].pc \in {"waiting", "create", "enqueue", "raised", "settle"}

Inserted(q) == row[q].state # Absent
Over(q)     == Inserted(q) /\ row[q].state \notin ActiveStates

RunSound(r) ==
    /\ task[r].pc \in {"none", "dead"} => prep[r] = NoPrep
    /\ Live(r) => /\ prep[r].run = r /\ prep[r].state \in {RunningData, CancelRequested}
                  /\ index[Request[r]] = r
    /\ task[r].pc = "waiting" => prep[r].state = RunningData
    /\ task[r].pc = "cancelled" => prep[r].run = r /\ prep[r].state = Cancelled
    /\ task[r].pc = "done" => /\ prep[r].run \in Runs /\ prep[r].state # Absent
                              /\ \/ prep[r].run = r /\ prep[r].state = Failed
                                 \/ Inserted(prep[r].run)

RowSound(r) ==
    /\ Inserted(r) => /\ task[r].pc \in {"enqueue", "raised", "settle", "done", "dead"}
                      /\ task[r].pc \in {"enqueue", "settle"} => task[r].run = r
                      /\ task[r].pc = "done" => prep[r].run = r
    /\ task[r].pc \in {"enqueue", "settle"} =>
          task[r].run \in Runs /\ Inserted(task[r].run) /\ task[r].seen # Absent
    /\ task[r].pc = "settle" =>
          (row[task[r].run].state = Queued => messages[task[r].run] > 0)

MarkSound(r) ==
    r \in marked =>
        /\ r \in Preparing \/ task[r].pc = "done"
        /\ Live(r) => prep[r].state = CancelRequested
        /\ (r \notin faulted /\ task[r].pc = "done" /\ prep[r].state # Failed) =>
              Over(prep[r].run)

(* A cancellation of r cannot be lost any more. *)
Landed(r) ==
    \/ r \in faulted
    \/ Over(r)
    \/ task[r].pc = "cancelled"
    \/ Live(r) /\ prep[r].state = CancelRequested
    \/ task[r].pc = "done" /\ (prep[r].state = Failed \/ Over(prep[r].run))

(* What a cancel request has looked up is still what its id stands for. *)
Aimed(r, target) ==
    \/ target = r
    \/ task[r].pc = "done" /\ prep[r].run = target

ClientSound(c) ==
    /\ client[c].pc # "idle" => client[c].run \in Runs
    /\ \A r \in Runs, t \in Runs \cup {NoRun} :
          client[c].run = r /\ client[c].target = t =>
            /\ client[c].pc \in {"check", "checkCancelled", "stored"} => Aimed(r, t)
            /\ client[c].pc = "stored" => t \in Runs /\ Inserted(t)
            /\ client[c].pc \in {"checkCancelled", "accepted"} => Landed(r)

IndexSound ==
    \A q \in Requests : index[q] # NoRun => index[q] \in Issued /\ Request[index[q]] = q

PrepInv ==
    /\ TypeOK
    /\ \A r \in Runs : RunSound(r) /\ RowSound(r) /\ MarkSound(r)
    /\ \A c \in Clients : ClientSound(c)
    /\ IndexSound

-----------------------------------------------------------------------------
(* Rows. *)

LEMMA StateFacts ==
    /\ ActiveStates = RunningStates \cup {Queued}
    /\ RunStateSet = ActiveStates \cup TerminalStates \cup {CancelRequested}
    /\ Absent \notin RunStateSet /\ CancelRequested \notin ActiveStates \cup TerminalStates
    /\ \A s \in TerminalStates : s \notin ActiveStates
    /\ Queued \notin RunningStates /\ RunningData \in RunningStates
    /\ Failed \in TerminalStates /\ Cancelled \in TerminalStates /\ Succeeded \in TerminalStates
    /\ Failed # Cancelled /\ Failed # Succeeded /\ Cancelled # Succeeded
    /\ TerminalStates = {Succeeded, Failed, Cancelled}
BY DEF ActiveStates, RunningStates, RunStateSet, TerminalStates, Absent, CancelRequested, Queued,
       RunningData, RunningSignal, RunningExec, RunningReport, Failed, Cancelled, Succeeded

LEMMA AllowedFacts ==
    ASSUME NEW from \in RunStateSet, NEW target, AllowedTransition(from, target)
    PROVE  /\ target \in RunStateSet /\ from \notin TerminalStates
           /\ from \notin ActiveStates => target \notin ActiveStates
           /\ target = Queued => from = Queued
BY DEF AllowedTransition, StageEdges, ActiveStates, RunningStates, RunStateSet, TerminalStates,
       CancelRequested, Queued, RunningData, RunningSignal, RunningExec, RunningReport, Failed,
       Cancelled, Succeeded

(* How rows may change: q's row is there for good, keeps its final state,  *)
(* is never active again and never queued again.                           *)
RowKept(q) ==
    /\ row'[q].state # Absent \/ row[q].state = Absent
    /\ row[q].state \in TerminalStates => row'[q] = row[q]
    /\ Over(q) => row'[q].state \notin ActiveStates
    /\ row'[q].state = Queued => row[q].state \in {Queued, Absent}

RowsKept == row' \in [Runs -> Records] /\ \A q \in Runs : RowKept(q)

LEMMA BuiltType ==
    ASSUME NEW old \in Records, NEW target \in RunStateSet, NEW progress \in 0..100
    PROVE  /\ BuildTransition(old, target, progress) \in Records
           /\ BuildTransition(old, target, progress).state = target
<1>1. old.version + 1 \in Nat  BY DEF Records
<1> QED  BY <1>1 DEF BuildTransition, Records

(* The instance of RunContract has copies of the operators of RunStates. *)
LEMMA SameOperators ==
    /\ Store!Absent = Absent /\ Store!QueuedRow = QueuedRow
    /\ \A from, target : Store!AllowedTransition(from, target) = AllowedTransition(from, target)
    /\ \A r, target, progress :
          Store!BuildTransition(r, target, progress) = BuildTransition(r, target, progress)
BY DEF Absent, Store!Absent, QueuedRow, Store!QueuedRow, Queued, Store!Queued,
       BuildTransition, Store!BuildTransition, AllowedTransition, Store!AllowedTransition,
       StageEdges, Store!StageEdges, ActiveStates, Store!ActiveStates, RunningStates,
       Store!RunningStates, RunningData, Store!RunningData, RunningSignal, Store!RunningSignal,
       RunningExec, Store!RunningExec, RunningReport, Store!RunningReport, CancelRequested,
       Store!CancelRequested, Failed, Store!Failed, Cancelled, Store!Cancelled, Succeeded,
       Store!Succeeded

LEMMA SameRows == ASSUME TypeOK, UNCHANGED row PROVE RowsKept
BY StateFacts DEF TypeOK, RowsKept, RowKept, Over

LEMMA CreatedRows ==
    ASSUME TypeOK, NEW r \in Runs, Store!CreateRow(r)
    PROVE  /\ RowsKept /\ ~Inserted(r) /\ row'[r].state = Queued
           /\ \A q \in Runs \ {r} : row'[q] = row[q]
<1>1. row \in [Runs -> Records]  BY DEF TypeOK
<1>2. ~Inserted(r)
  BY SameOperators DEF Store!CreateRow, Store!SameFingerprint, Inserted
<1>3. QueuedRow \in Records /\ QueuedRow.state = Queued
  BY StateFacts DEF QueuedRow, Records
<1>4. row' = [row EXCEPT ![r] = QueuedRow]  BY SameOperators DEF Store!CreateRow
<1>5. /\ row' \in [Runs -> Records] /\ row'[r] = QueuedRow
      /\ \A q \in Runs \ {r} : row'[q] = row[q]
  BY <1>1, <1>3, <1>4
<1>6. \A q \in Runs : RowKept(q)
  BY <1>2, <1>3, <1>5, StateFacts DEF RowKept, Over, Inserted
<1> QED  BY <1>2, <1>3, <1>5, <1>6 DEF RowsKept

LEMMA WrittenRows ==
    ASSUME TypeOK, NEW q \in Runs, NEW target, NEW progress \in 0..100, Inserted(q),
           AllowedTransition(row[q].state, target),
           row' = [row EXCEPT ![q] = BuildTransition(row[q], target, progress)]
    PROVE  /\ RowsKept /\ row'[q].state = target
           /\ \A s \in Runs \ {q} : row'[s] = row[s]
<1>1. row \in [Runs -> Records] /\ row[q] \in Records  BY DEF TypeOK
<1>2. row[q].state \in RunStateSet  BY <1>1 DEF Records, Inserted
<1>3. /\ target \in RunStateSet /\ row[q].state \notin TerminalStates
      /\ row[q].state \notin ActiveStates => target \notin ActiveStates
      /\ target = Queued => row[q].state = Queued
  BY <1>2, AllowedFacts
<1>4. /\ BuildTransition(row[q], target, progress) \in Records
      /\ BuildTransition(row[q], target, progress).state = target
  BY <1>1, <1>3, BuiltType
<1>5. /\ row' \in [Runs -> Records] /\ row'[q].state = target
      /\ \A s \in Runs \ {q} : row'[s] = row[s]
  BY <1>1, <1>4
<1>6. \A s \in Runs : RowKept(s)
  <2> SUFFICES ASSUME NEW s \in Runs PROVE RowKept(s)  OBVIOUS
  <2>1. CASE s = q  BY <1>3, <1>5, <2>1, StateFacts DEF RowKept, Over
  <2>2. CASE s # q  BY <1>5, <2>2, StateFacts DEF RowKept, Over
  <2> QED  BY <2>1, <2>2
<1> QED  BY <1>5, <1>6 DEF RowsKept

LEMMA MovedRows ==
    ASSUME TypeOK, NEW q \in Runs, NEW target, NEW progress, Store!MoveRow(q, target, progress)
    PROVE  /\ RowsKept /\ Inserted(q) /\ row'[q].state = target
           /\ \A s \in Runs \ {q} : row'[s] = row[s]
<1>1. /\ Inserted(q) /\ progress \in 0..100 /\ AllowedTransition(row[q].state, target)
      /\ row' = [row EXCEPT ![q] = BuildTransition(row[q], target, progress)]
  BY SameOperators DEF Store!MoveRow, Store!CanBuild, Inserted
<1> QED  BY <1>1, WrittenRows

LEMMA CancelledRows ==
    ASSUME TypeOK, NEW q \in Runs, CancelRow(q)
    PROVE  /\ RowsKept /\ row'[q].state \notin ActiveStates
           /\ \A s \in Runs \ {q} : row'[s] = row[s]
           /\ Inserted(q) => Over(q)'
           /\ \A s \in Runs : ~Inserted(s) => row'[s].state = Absent
           /\ row'[q].state \in RunStateSet \cup {Absent}
<1>1. row[q] \in Records /\ row \in [Runs -> Records]  BY DEF TypeOK
<1>2. CASE row[q].state \in ActiveStates
  <2>1. row' = [row EXCEPT ![q] = BuildTransition(row[q], CancelRequested, row[q].progress)]
    BY <1>2 DEF CancelRow
  <2>2. Inserted(q) /\ AllowedTransition(row[q].state, CancelRequested)
    BY <1>2, StateFacts DEF Inserted, AllowedTransition
  <2>3. row[q].progress \in 0..100  BY <1>1 DEF Records
  <2>4. /\ RowsKept /\ row'[q].state = CancelRequested
        /\ \A s \in Runs \ {q} : row'[s] = row[s]
    BY <2>1, <2>2, <2>3, WrittenRows
  <2> QED  BY <2>2, <2>4, StateFacts DEF Over, Inserted
<1>3. CASE row[q].state \notin ActiveStates
  <2>1. row' = row  BY <1>3 DEF CancelRow
  <2>2. row[q].state \in RunStateSet \cup {Absent}  BY <1>1 DEF Records
  <2> QED  BY <1>3, <2>1, <2>2, SameRows DEF Over, Inserted
<1> QED  BY <1>2, <1>3

-----------------------------------------------------------------------------
(* The frame: what a step leaves of the ids it is not about. *)

(* A step that is not about id s. *)
Kept(s) ==
    /\ prep'[s] = prep[s] /\ task'[s] = task[s]
    /\ ~Inserted(s) => row'[s].state = Absent
    /\ s \in marked' <=> s \in marked
    /\ Live(s) => index'[Request[s]] = index[Request[s]]

(* What no step undoes: an outcome, and the row an id stands for. *)
Settles(s) ==
    /\ task[s].pc = "done" => /\ task'[s].pc = "done" /\ prep'[s].run = prep[s].run
                              /\ prep[s].state = Failed => prep'[s].state = Failed
    /\ task[s].pc = "cancelled" => task'[s].pc = "cancelled" /\ prep'[s] = prep[s]
    /\ ~Inserted(s) /\ task[s].pc # "create" => row'[s].state = Absent

MessagesKept ==
    \A q \in Runs : row[q].state = Queued /\ row'[q].state = Queued /\ messages[q] > 0
                        => messages'[q] > 0

Holds(s) ==
    /\ RunSound(s)' /\ RowSound(s)' /\ MarkSound(s)'
    /\ Landed(s) => Landed(s)'
    /\ Settles(s)

GoodStep ==
    /\ RowsKept
    /\ \A s \in Runs : Holds(s)
    /\ \A c \in Clients : client'[c] = client[c] \/ ClientSound(c)'
    /\ IndexSound'

LEMMA TypeFacts ==
    ASSUME TypeOK, NEW r \in Runs
    PROVE  /\ row[r].state \in RunStateSet \cup {Absent}
           /\ prep[r].run \in Runs \cup {NoRun} /\ prep[r].state \in RunStateSet \cup {Absent}
           /\ prep[r] = [run |-> prep[r].run, state |-> prep[r].state]
           /\ task[r].run \in Runs \cup {NoRun}
           /\ task[r].pc \in {"none", "waiting", "create", "enqueue", "raised", "settle", "done",
                              "cancelled", "dead"}
BY DEF TypeOK, Records

LEMMA KeptHolds ==
    ASSUME PrepInv, RowsKept, MessagesKept, faulted \subseteq faulted',
           NEW s \in Runs, Kept(s)
    PROVE  Holds(s)
<1> USE DEF Inserted, Over, Live
<1>1. RunSound(s) /\ RowSound(s) /\ MarkSound(s)  BY DEF PrepInv
<1>2. /\ prep'[s] = prep[s] /\ task'[s] = task[s]
      /\ row[s].state = Absent => row'[s].state = Absent
      /\ s \in marked' <=> s \in marked
  BY DEF Kept
<1>3. \A q \in Runs : RowKept(q)  BY DEF RowsKept
<1>4. RunSound(s)'
  BY <1>1, <1>2, <1>3 DEF RunSound, Kept, RowKept
<1>5. RowSound(s)'
  BY <1>1, <1>2, <1>3, StateFacts DEF RowSound, MessagesKept, RowKept
<1>6. task[s].pc = "done" => prep[s].run \in Runs  BY <1>1 DEF RunSound
<1>7. MarkSound(s)'
  BY <1>1, <1>2, <1>3, <1>6 DEF MarkSound, RowKept, Preparing
<1>8. Landed(s) => Landed(s)'
  BY <1>2, <1>3, <1>6 DEF Landed, RowKept
<1>9. Settles(s)  BY <1>2 DEF Settles
<1> QED  BY <1>4, <1>5, <1>7, <1>8, <1>9 DEF Holds

LEMMA ClientKept ==
    ASSUME PrepInv, RowsKept, NEW c \in Clients, client'[c] = client[c],
           \A s \in Runs : Holds(s)
    PROVE  ClientSound(c)'
<1>1. client'[c].pc # "idle" => client'[c].run \in Runs
  BY DEF PrepInv, ClientSound
<1>2. ASSUME NEW r \in Runs, NEW t \in Runs \cup {NoRun}, client'[c].run = r, client'[c].target = t
      PROVE  /\ client'[c].pc \in {"check", "checkCancelled", "stored"} => Aimed(r, t)'
             /\ client'[c].pc = "stored" => t \in Runs /\ Inserted(t)'
             /\ client'[c].pc \in {"checkCancelled", "accepted"} => Landed(r)'
  <2>1. /\ client[c].pc \in {"check", "checkCancelled", "stored"} => Aimed(r, t)
        /\ client[c].pc = "stored" => t \in Runs /\ Inserted(t)
        /\ client[c].pc \in {"checkCancelled", "accepted"} => Landed(r)
    BY <1>2 DEF PrepInv, ClientSound
  <2>2. Aimed(r, t) => Aimed(r, t)'  BY DEF Aimed, Holds, Settles
  <2>3. t \in Runs /\ Inserted(t) => Inserted(t)'  BY DEF Inserted, RowsKept, RowKept
  <2>4. Landed(r) => Landed(r)'  BY DEF Holds
  <2> QED  BY <2>1, <2>2, <2>3, <2>4
<1> QED  BY <1>1, <1>2 DEF ClientSound

LEMMA GoodStepKeeps == ASSUME PrepInv, TypeOK', GoodStep PROVE PrepInv'
<1>1. \A c \in Clients : ClientSound(c)'
  BY ClientKept DEF GoodStep
<1>2. \A r \in Runs : RunSound(r)' /\ RowSound(r)' /\ MarkSound(r)'  BY DEF GoodStep, Holds
<1> QED  BY <1>1, <1>2 DEF PrepInv, GoodStep

LEMMA IndexKept ==
    ASSUME PrepInv, \A r \in Runs : task[r].pc \notin {"none", "dead"}
                                       => task'[r].pc \notin {"none", "dead"},
           \A q \in Requests : index'[q] \in {index[q], NoRun}
    PROVE  IndexSound'
BY DEF PrepInv, IndexSound, Issued

-----------------------------------------------------------------------------
(* Every id answers, so a request is prepared again only when it may be. *)

LEMMA LookupFacts ==
    ASSUME PrepInv, NEW r \in Runs
    PROVE  /\ r \in Issued => Lookup(r).state # Absent
           /\ Lookup(r).state # Absent => Aimed(r, Lookup(r).run) /\ Lookup(r).run \in Runs
           /\ Lookup(r).state \in {CancelRequested, Cancelled} => Landed(r)
           /\ Lookup(r).state \in ActiveStates /\ task[r].pc \in {"done", "cancelled"} =>
                 ~Landed(r) \/ r \in faulted \/ prep[r].state = Failed
<1> USE DEF Inserted, Over, Live
<1>1. RunSound(r) /\ RowSound(r) /\ TypeOK  BY DEF PrepInv
<1>2. /\ prep[r].run \in Runs \cup {NoRun} /\ prep[r].state \in RunStateSet \cup {Absent}
      /\ task[r].pc \in {"none", "waiting", "create", "enqueue", "raised", "settle", "done",
                         "cancelled", "dead"}
  BY <1>1, TypeFacts
<1>3. NoPrep.run = NoRun /\ NoPrep.state = Absent  BY DEF NoPrep
<1>4. CASE row[r].state # Absent
  <2>1. Lookup(r).run = r /\ Lookup(r).state = row[r].state  BY <1>4 DEF Lookup
  <2>2. task[r].pc = "done" => prep[r].run = r  BY <1>1, <1>4 DEF RowSound
  <2>3. task[r].pc # "cancelled"  BY <1>1, <1>4 DEF RowSound
  <2> QED
    BY <1>1, <1>4, <2>1, <2>2, <2>3, StateFacts DEF Aimed, Landed
<1>5. CASE row[r].state = Absent /\ prep[r].run # NoRun /\ row[prep[r].run].state # Absent
  <2>1. Lookup(r).run = prep[r].run /\ Lookup(r).state = row[prep[r].run].state
    BY <1>5 DEF Lookup
  <2>2. task[r].pc = "done"
    BY <1>1, <1>2, <1>3, <1>5, NoRunOutside DEF RunSound
  <2> QED
    BY <1>1, <1>2, <1>5, <2>1, <2>2, StateFacts DEF Aimed, Landed
<1>6. CASE row[r].state = Absent /\ ~(prep[r].run # NoRun /\ row[prep[r].run].state # Absent)
  <2>1. Lookup(r) = prep[r]  BY <1>6 DEF Lookup
  <2> QED
    BY <1>1, <1>2, <1>3, <1>6, <2>1, StateFacts, NoRunOutside DEF RunSound, Aimed, Landed, Issued
<1> QED  BY <1>4, <1>5, <1>6

-----------------------------------------------------------------------------
(* One lemma per action. *)

LEMMA SubmitGood == ASSUME PrepInv, NEW r \in Runs, Submit(r) PROVE GoodStep
<1> USE DEF Inserted, Over, Live
<1>1. PICK q \in Requests : q = Request[r]  BY RequestTypes
<1>2. TypeOK /\ RunSound(r) /\ RowSound(r) /\ MarkSound(r)  BY DEF PrepInv
<1>3. /\ task[r].pc = "none" /\ Replayable(q).state = Absent
      /\ prep' = [prep EXCEPT ![r] = [run |-> r, state |-> RunningData]]
      /\ index' = [index EXCEPT ![q] = r]
      /\ task' = [task EXCEPT ![r] = Task("waiting", NoRun, Absent)]
      /\ UNCHANGED <<row, messages, client, marked, faulted>>
  BY <1>1 DEF Submit, Step, history
<1>4. index[q] = NoRun
  <2> SUFFICES ASSUME index[q] # NoRun PROVE FALSE  OBVIOUS
  <2>1. PICK s \in Runs : s = index[q]  BY <1>2 DEF TypeOK
  <2>2. s \in Issued  BY <2>1, NoRunOutside DEF PrepInv, IndexSound
  <2>3. Lookup(s).state # Absent  BY <2>2, LookupFacts
  <2> QED  BY <1>3, <2>1, <2>3 DEF Replayable
<1>5. RowsKept  BY <1>2, <1>3, SameRows
<1>6. /\ prep'[r].run = r /\ prep'[r].state = RunningData /\ task'[r].pc = "waiting"
      /\ index'[Request[r]] = r
      /\ \A s \in Runs \ {r} : prep'[s] = prep[s] /\ task'[s] = task[s]
      /\ \A p \in Requests \ {q} : index'[p] = index[p]
  BY <1>1, <1>2, <1>3 DEF TypeOK, Task
<1>7. MessagesKept  BY <1>3 DEF MessagesKept
<1>8. \A s \in Runs \ {r} : Holds(s)
  <2> SUFFICES ASSUME NEW s \in Runs \ {r} PROVE Holds(s)  OBVIOUS
  <2>1. Live(s) => Request[s] # q
    BY <1>4, NoRunOutside DEF PrepInv, RunSound
  <2>2. Request[s] \in Requests  BY RequestTypes
  <2>3. Kept(s)  BY <1>3, <1>6, <2>1, <2>2 DEF Kept
  <2> QED  BY <1>3, <1>5, <1>7, <2>3, KeptHolds
<1>9. Holds(r)
  <2>1. row[r].state = Absent /\ row'[r].state = Absent  BY <1>2, <1>3 DEF RowSound
  <2>2. r \notin marked'  BY <1>2, <1>3 DEF MarkSound, Preparing
  <2>3. Landed(r) => r \in faulted  BY <1>3, <2>1 DEF Landed
  <2>4. RunSound(r)'  BY <1>6 DEF RunSound
  <2>5. RowSound(r)'  BY <1>6, <2>1 DEF RowSound
  <2>6. MarkSound(r)'  BY <2>2 DEF MarkSound
  <2>7. Landed(r) => Landed(r)'  BY <1>3, <2>3 DEF Landed
  <2>8. Settles(r)  BY <1>3, <2>1 DEF Settles
  <2> QED  BY <2>4, <2>5, <2>6, <2>7, <2>8 DEF Holds
<1>10. IndexSound'
  <2> SUFFICES ASSUME NEW p \in Requests, index'[p] # NoRun
               PROVE  /\ index'[p] \in Runs /\ task'[index'[p]].pc \notin {"none", "dead"}
                      /\ Request[index'[p]] = p
    BY DEF IndexSound, Issued
  <2>1. CASE p = q  BY <1>1, <1>6, <2>1
  <2>2. CASE p # q
    <3>1. index'[p] = index[p] /\ index[p] \in Issued /\ Request[index[p]] = p
      BY <1>6, <2>2 DEF PrepInv, IndexSound
    <3> QED  BY <1>6, <3>1 DEF Issued
  <2> QED  BY <2>1, <2>2
<1> QED  BY <1>3, <1>5, <1>8, <1>9, <1>10 DEF GoodStep

LEMMA StartGood == ASSUME PrepInv, NEW r \in Runs, Start(r) \/ PrepareRaises(r) PROVE GoodStep
<1> USE DEF Inserted, Over, Live
<1>1. TypeOK /\ RunSound(r) /\ RowSound(r) /\ MarkSound(r)  BY DEF PrepInv
<1>2. PICK pc \in {"create", "raised"} :
        /\ task' = [task EXCEPT ![r] = Task(pc, NoRun, Absent)]
        /\ pc = "create" => task[r].pc = "waiting"
        /\ pc = "raised" => task[r].pc = "create"
        /\ UNCHANGED <<row, messages, prep, index, client, marked, faulted>>
  BY DEF Start, PrepareRaises, Step, history
<1>3. RowsKept  BY <1>1, <1>2, SameRows
<1>4. /\ task'[r].pc = pc /\ \A s \in Runs \ {r} : task'[s] = task[s]
  BY <1>1, <1>2 DEF TypeOK, Task
<1>5. MessagesKept  BY <1>2 DEF MessagesKept
<1>6. \A s \in Runs \ {r} : Holds(s)
  <2> SUFFICES ASSUME NEW s \in Runs \ {r} PROVE Holds(s)  OBVIOUS
  <2>1. Kept(s)  BY <1>2, <1>4 DEF Kept
  <2> QED  BY <1>2, <1>3, <1>5, <2>1, KeptHolds
<1>7. Holds(r)
  <2>1. row[r].state = Absent /\ row'[r].state = Absent  BY <1>1, <1>2 DEF RowSound
  <2>2. RunSound(r)'  BY <1>1, <1>2, <1>4 DEF RunSound
  <2>3. RowSound(r)'  BY <1>4, <2>1 DEF RowSound
  <2>4. MarkSound(r)'  BY <1>1, <1>2, <1>4 DEF MarkSound, Preparing
  <2>5. Landed(r) => Landed(r)'  BY <1>2, <1>4, <2>1 DEF Landed
  <2>6. Settles(r)  BY <1>2, <2>1 DEF Settles
  <2> QED  BY <2>2, <2>3, <2>4, <2>5, <2>6 DEF Holds
<1>8. IndexSound'
  <2>1. \A s \in Runs : task[s].pc \notin {"none", "dead"} => task'[s].pc \notin {"none", "dead"}
    BY <1>4
  <2> QED  BY <1>2, <2>1, IndexKept
<1> QED  BY <1>2, <1>3, <1>6, <1>7, <1>8 DEF GoodStep

LEMMA CreateGood == ASSUME PrepInv, NEW r \in Runs, Create(r) PROVE GoodStep
<1> USE DEF Inserted, Over, Live
<1>1. TypeOK /\ RunSound(r) /\ RowSound(r) /\ MarkSound(r)  BY DEF PrepInv
<1>2. /\ task[r].pc = "create" /\ row[r].state = Absent
      /\ UNCHANGED <<messages, prep, index, client, marked, faulted>>
  BY <1>1 DEF Create, history, RowSound
<1>3. PICK pc \in {"enqueue", "settle"}, q \in Runs, seen \in RunStateSet \cup {Absent} :
        /\ task' = [task EXCEPT ![r] = Task(pc, q, seen)]
        /\ \/ Store!CreateRow(r) /\ pc = "enqueue" /\ q = r /\ seen = Queued
           \/ /\ q \in Store!SameFingerprint(r) /\ UNCHANGED row /\ seen = row[q].state
              /\ row[q].state = Queued => pc = "enqueue"
  <2>1. CASE Store!CreateRow(r) /\ Step(r, "enqueue", r, Queued)
    <3>1. Queued \in RunStateSet \cup {Absent}  BY DEF RunStateSet, ActiveStates
    <3> QED  BY <2>1, <3>1 DEF Step
  <2>2. ASSUME NEW q \in Store!SameFingerprint(r), UNCHANGED row,
               Step(r, IF row[q].state = Queued THEN "enqueue" ELSE "settle", q, row[q].state)
        PROVE  \E pc \in {"enqueue", "settle"} :
                  /\ task' = [task EXCEPT ![r] = Task(pc, q, row[q].state)]
                  /\ row[q].state = Queued => pc = "enqueue"
    <3>1. CASE row[q].state = Queued  BY <2>2, <3>1 DEF Step
    <3>2. CASE row[q].state # Queued  BY <2>2, <3>2 DEF Step
    <3> QED  BY <3>1, <3>2
  <2>3. \A q \in Store!SameFingerprint(r) : q \in Runs /\ row[q].state \in RunStateSet \cup {Absent}
    BY <1>1, TypeFacts DEF Store!SameFingerprint
  <2> QED  BY <2>1, <2>2, <2>3 DEF Create
<1>9. /\ RowsKept /\ seen # Absent /\ row'[q].state # Absent
      /\ row'[r].state # Absent => pc = "enqueue" /\ q = r
      /\ pc = "settle" => row'[q].state # Queued
      /\ \A s \in Runs \ {r} : row'[s] = row[s]
  <2>1. CASE Store!CreateRow(r) /\ pc = "enqueue" /\ q = r /\ seen = Queued
    <3>1. RowsKept /\ row'[r].state = Queued /\ \A s \in Runs \ {r} : row'[s] = row[s]
      BY <1>1, <2>1, CreatedRows
    <3> QED  BY <2>1, <3>1, StateFacts
  <2>2. CASE /\ q \in Store!SameFingerprint(r) /\ UNCHANGED row /\ seen = row[q].state
             /\ row[q].state = Queued => pc = "enqueue"
    <3>1. row[q].state # Absent  BY <2>2, SameOperators DEF Store!SameFingerprint
    <3>2. RowsKept  BY <1>1, <2>2, SameRows
    <3> QED  BY <1>2, <2>2, <3>1, <3>2
  <2> QED  BY <1>3, <2>1, <2>2
<1>4. /\ task'[r].pc = pc /\ task'[r].run = q /\ task'[r].seen = seen
      /\ \A s \in Runs \ {r} : task'[s] = task[s]
  BY <1>1, <1>3 DEF TypeOK, Task
<1>5. MessagesKept  BY <1>2 DEF MessagesKept
<1>6. \A s \in Runs \ {r} : Holds(s)
  <2> SUFFICES ASSUME NEW s \in Runs \ {r} PROVE Holds(s)  OBVIOUS
  <2>1. Kept(s)  BY <1>2, <1>9, <1>4 DEF Kept
  <2> QED  BY <1>2, <1>9, <1>5, <2>1, KeptHolds
<1>7. Holds(r)
  <2>1. RunSound(r)'  BY <1>1, <1>2, <1>4 DEF RunSound
  <2>2. RowSound(r)'  BY <1>9, <1>4 DEF RowSound
  <2>3. MarkSound(r)'  BY <1>1, <1>2, <1>4 DEF MarkSound, Preparing
  <2>4. Landed(r) => Landed(r)'  BY <1>2, <1>4 DEF Landed
  <2>5. Settles(r)  BY <1>2 DEF Settles
  <2> QED  BY <2>1, <2>2, <2>3, <2>4, <2>5 DEF Holds
<1>8. IndexSound'
  <2>1. \A s \in Runs : task[s].pc \notin {"none", "dead"} => task'[s].pc \notin {"none", "dead"}
    BY <1>4
  <2> QED  BY <1>2, <2>1, IndexKept
<1> QED  BY <1>2, <1>9, <1>6, <1>7, <1>8 DEF GoodStep

LEMMA EnqueueGood == ASSUME PrepInv, NEW r \in Runs, Enqueue(r) \/ EnqueueRefused(r) PROVE GoodStep
<1> USE DEF Inserted, Over, Live
<1>1. TypeOK /\ RunSound(r) /\ RowSound(r) /\ MarkSound(r)  BY DEF PrepInv
<1>2. task[r].pc = "enqueue"  BY DEF Enqueue, EnqueueRefused
<1>3. PICK q \in Runs : q = task[r].run /\ row[q].state # Absent  BY <1>1, <1>2 DEF RowSound
<1>4. PICK pc \in {"settle", "raised"} :
        /\ task' = [task EXCEPT ![r] = Task(pc, q, task[r].seen)]
        /\ \A s \in Runs : messages'[s] >= messages[s]
        /\ pc = "settle" => messages'[q] > 0
        /\ UNCHANGED <<row, prep, index, client, marked, faulted>>
  <2>1. messages \in [Runs -> Nat]  BY <1>1 DEF TypeOK
  <2>2. CASE Enqueue(r)
    <3>1. /\ task' = [task EXCEPT ![r] = Task("settle", q, task[r].seen)]
          /\ messages' = [messages EXCEPT ![q] = @ + 1]
          /\ UNCHANGED <<row, prep, index, client, marked, faulted>>
      BY <1>3, <2>2 DEF Enqueue, Step
    <3>2. (\A s \in Runs : messages'[s] >= messages[s]) /\ messages'[q] > 0
      BY <2>1, <3>1
    <3> QED  BY <3>1, <3>2
  <2>3. CASE EnqueueRefused(r)
    <3>1. /\ task' = [task EXCEPT ![r] = Task("raised", q, task[r].seen)]
          /\ UNCHANGED <<row, messages, prep, index, client, marked, faulted>>
      BY <1>3, <2>3 DEF EnqueueRefused, Step
    <3>2. \A s \in Runs : messages'[s] >= messages[s]  BY <2>1, <3>1
    <3> QED  BY <3>1, <3>2
  <2> QED  BY <2>2, <2>3
<1>5. RowsKept  BY <1>1, <1>4, SameRows
<1>6. /\ task'[r].pc = pc /\ task'[r].run = q /\ task'[r].seen = task[r].seen
      /\ \A s \in Runs \ {r} : task'[s] = task[s]
  BY <1>1, <1>4 DEF TypeOK, Task
<1>7. MessagesKept
  <2>1. messages \in [Runs -> Nat]  BY <1>1 DEF TypeOK
  <2> SUFFICES ASSUME NEW s \in Runs, messages[s] > 0 PROVE messages'[s] > 0
    BY DEF MessagesKept
  <2> DEFINE new == messages'[s]
  <2>2. messages[s] \in Nat /\ new >= messages[s]  BY <1>4, <2>1
  <2>3. PICK k \in Nat : k = messages[s]  BY <2>2
  <2>4. k > 0 /\ new >= k  BY <2>2, <2>3
  <2>5. messages' \in [Runs -> Nat]
    BY <2>1, <1>3 DEF Enqueue, EnqueueRefused
  <2>6. new \in Nat  BY <2>5
  <2> HIDE DEF new
  <2>7. new > 0  BY <2>4, <2>6
  <2> QED  BY <2>7 DEF new
<1>8. \A s \in Runs \ {r} : Holds(s)
  <2> SUFFICES ASSUME NEW s \in Runs \ {r} PROVE Holds(s)  OBVIOUS
  <2>1. Kept(s)  BY <1>4, <1>6 DEF Kept
  <2> QED  BY <1>4, <1>5, <1>7, <2>1, KeptHolds
<1>9. Holds(r)
  <2>1. RunSound(r)'  BY <1>1, <1>2, <1>4, <1>6 DEF RunSound
  <2>2. RowSound(r)'  BY <1>1, <1>2, <1>3, <1>4, <1>6 DEF RowSound
  <2>3. MarkSound(r)'  BY <1>1, <1>2, <1>4, <1>6 DEF MarkSound, Preparing
  <2>4. Landed(r) => Landed(r)'  BY <1>2, <1>4, <1>6 DEF Landed
  <2>5. Settles(r)  BY <1>2, <1>4 DEF Settles
  <2> QED  BY <2>1, <2>2, <2>3, <2>4, <2>5 DEF Holds
<1>10. IndexSound'
  <2>1. \A s \in Runs : task[s].pc \notin {"none", "dead"} => task'[s].pc \notin {"none", "dead"}
    BY <1>6
  <2> QED  BY <1>4, <2>1, IndexKept
<1> QED  BY <1>4, <1>5, <1>8, <1>9, <1>10 DEF GoodStep

(* Dropping the index entry of an id leaves those of the others. *)
LEMMA Forgotten ==
    ASSUME PrepInv, NEW r \in Runs, Forget(r) \/ UNCHANGED index
    PROVE  /\ \A q \in Requests : index'[q] \in {index[q], NoRun}
           /\ \A s \in Runs \ {r} : Live(s) => index'[Request[s]] = index[Request[s]]
<1>1. Request[r] \in Requests /\ index \in [Requests -> Runs \cup {NoRun}]
  BY RequestTypes DEF PrepInv, TypeOK
<1>2. \A q \in Requests : index'[q] \in {index[q], NoRun}  BY <1>1 DEF Forget
<1>3. ASSUME NEW s \in Runs \ {r}, Live(s) PROVE index'[Request[s]] = index[Request[s]]
  <2>1. index[Request[s]] = s /\ Request[s] \in Requests
    BY <1>3, RequestTypes DEF PrepInv, RunSound
  <2>2. CASE index[Request[r]] = r /\ Request[s] = Request[r]  BY <2>1, <2>2
  <2>3. CASE index[Request[r]] # r \/ Request[s] # Request[r]
    BY <1>1, <2>1, <2>3 DEF Forget
  <2> QED  BY <2>2, <2>3
<1> QED  BY <1>2, <1>3

LEMMA MarkFailedGood == ASSUME PrepInv, NEW r \in Runs, MarkFailed(r) PROVE GoodStep
<1> USE DEF Inserted, Over, Live
<1>1. TypeOK /\ RunSound(r) /\ RowSound(r) /\ MarkSound(r)  BY DEF PrepInv
<1>2. /\ task[r].pc = "raised"
      /\ prep' = [prep EXCEPT ![r] = [run |-> prep[r].run, state |-> Failed]]
      /\ Forget(r) \/ UNCHANGED index
      /\ task' = [task EXCEPT ![r] = Task("done", task[r].run, task[r].seen)]
      /\ UNCHANGED <<row, messages, client, marked, faulted>>
  BY <1>1 DEF MarkFailed, Step, history, TypeOK
<1>3. RowsKept  BY <1>1, <1>2, SameRows
<1>4. /\ task'[r].pc = "done" /\ prep'[r].run = prep[r].run /\ prep'[r].state = Failed
      /\ \A s \in Runs \ {r} : task'[s] = task[s] /\ prep'[s] = prep[s]
  BY <1>1, <1>2 DEF TypeOK, Task
<1>5. MessagesKept  BY <1>2 DEF MessagesKept
<1>6. \A s \in Runs \ {r} : Holds(s)
  <2> SUFFICES ASSUME NEW s \in Runs \ {r} PROVE Holds(s)  OBVIOUS
  <2>1. Kept(s)  BY <1>2, <1>4, Forgotten DEF Kept
  <2> QED  BY <1>2, <1>3, <1>5, <2>1, KeptHolds
<1>7. Holds(r)
  <2>0. Failed # Absent  BY StateFacts
  <2>1. RunSound(r)'  BY <1>1, <1>2, <1>4, <2>0 DEF RunSound
  <2>2. RowSound(r)'  BY <1>1, <1>2, <1>4 DEF RowSound, RunSound
  <2>3. MarkSound(r)'  BY <1>1, <1>2, <1>4 DEF MarkSound, Preparing
  <2>4. Landed(r) => Landed(r)'  BY <1>4 DEF Landed
  <2>5. Settles(r)  BY <1>2 DEF Settles
  <2> QED  BY <2>1, <2>2, <2>3, <2>4, <2>5 DEF Holds
<1>8. IndexSound'
  <2>1. \A s \in Runs : task[s].pc \notin {"none", "dead"} => task'[s].pc \notin {"none", "dead"}
    BY <1>4
  <2> QED  BY <1>2, <2>1, Forgotten, IndexKept
<1> QED  BY <1>2, <1>3, <1>6, <1>7, <1>8 DEF GoodStep

LEMMA SettleGood == ASSUME PrepInv, NEW r \in Runs, Settle(r) PROVE GoodStep
<1> USE DEF Inserted, Over, Live
<1>1. TypeOK /\ RunSound(r) /\ RowSound(r) /\ MarkSound(r)  BY DEF PrepInv
<1>2. task[r].pc = "settle"  BY DEF Settle
<1>3. PICK q \in Runs : q = task[r].run /\ row[q].state # Absent  BY <1>1, <1>2 DEF RowSound
<1>4. task[r].seen # Absent  BY <1>1, <1>2 DEF RowSound
<1>5. PICK seen :
        /\ prep' = [prep EXCEPT ![r] = [run |-> q, state |-> seen]]
        /\ task' = [task EXCEPT ![r] = Task("done", q, task[r].seen)]
        /\ UNCHANGED <<messages, index, client, marked>>
        /\ \/ prep[r].state # CancelRequested /\ seen = task[r].seen /\ UNCHANGED <<row, faulted>>
           \/ CancelRow(q) /\ UNCHANGED faulted
              /\ seen = IF row[q].state \in {Succeeded, Failed} THEN task[r].seen ELSE row'[q].state
           \/ seen = task[r].seen /\ UNCHANGED row /\ faulted' = faulted \cup {r}
  BY <1>3 DEF Settle, Settled, Step, history
<1>6. /\ RowsKept /\ seen # Absent
      /\ faulted \subseteq faulted'
      /\ prep[r].state = CancelRequested => r \in faulted' \/ Over(q)'
      /\ \A s \in Runs : row[s].state = Absent => row'[s].state = Absent
  <2>1. CASE prep[r].state # CancelRequested /\ seen = task[r].seen /\ UNCHANGED <<row, faulted>>
    BY <1>1, <1>4, <2>1, SameRows
  <2>2. CASE CancelRow(q) /\ UNCHANGED faulted
             /\ seen = IF row[q].state \in {Succeeded, Failed} THEN task[r].seen ELSE row'[q].state
    <3>1. /\ RowsKept /\ Over(q)' /\ \A s \in Runs : ~Inserted(s) => row'[s].state = Absent
      BY <1>1, <1>3, <2>2, CancelledRows
    <3>2. seen # Absent  BY <1>4, <2>2, <3>1
    <3> QED  BY <2>2, <3>1, <3>2
  <2>3. CASE seen = task[r].seen /\ UNCHANGED row /\ faulted' = faulted \cup {r}
    BY <1>1, <1>4, <2>3, SameRows
  <2> QED  BY <1>5, <2>1, <2>2, <2>3
<1>7. /\ task'[r].pc = "done" /\ prep'[r].run = q /\ prep'[r].state = seen
      /\ \A s \in Runs \ {r} : task'[s] = task[s] /\ prep'[s] = prep[s]
  BY <1>1, <1>5 DEF TypeOK, Task
<1>8. MessagesKept  BY <1>5 DEF MessagesKept
<1>9. \A s \in Runs \ {r} : Holds(s)
  <2> SUFFICES ASSUME NEW s \in Runs \ {r} PROVE Holds(s)  OBVIOUS
  <2>1. Kept(s)  BY <1>5, <1>6, <1>7 DEF Kept
  <2> QED  BY <1>6, <1>8, <2>1, KeptHolds
<1>10. Holds(r)
  <2>1. row'[q].state # Absent  BY <1>3, <1>6 DEF RowsKept, RowKept
  <2>2. RunSound(r)'  BY <1>6, <1>7, <2>1 DEF RunSound
  <2>3. RowSound(r)'  BY <1>1, <1>2, <1>3, <1>6, <1>7 DEF RowSound
  <2>4. MarkSound(r)'  BY <1>1, <1>2, <1>5, <1>6, <1>7 DEF MarkSound, Preparing
  <2>5. Landed(r) => Landed(r)'
    <3>1. CASE row[r].state # Absent /\ row[r].state \notin ActiveStates
      <4>1. row'[r].state # Absent /\ row'[r].state \notin ActiveStates
        BY <1>6, <3>1 DEF RowsKept, RowKept
      <4> QED  BY <4>1 DEF Landed
    <3>2. CASE ~(row[r].state # Absent /\ row[r].state \notin ActiveStates)
      BY <1>2, <1>6, <1>7, <3>2 DEF Landed
    <3> QED  BY <3>1, <3>2
  <2>6. Settles(r)  BY <1>2, <1>6 DEF Settles
  <2> QED  BY <2>2, <2>3, <2>4, <2>5, <2>6 DEF Holds
<1>11. IndexSound'
  <2>1. \A s \in Runs : task[s].pc \notin {"none", "dead"} => task'[s].pc \notin {"none", "dead"}
    BY <1>7
  <2> QED  BY <1>5, <2>1, IndexKept
<1> QED  BY <1>5, <1>6, <1>9, <1>10, <1>11 DEF GoodStep

(* A step that leaves the tasks and preparations alone. *)
LEMMA QuietGood ==
    ASSUME PrepInv, RowsKept, MessagesKept, UNCHANGED <<prep, index, task, marked, faulted>>,
           \A s \in Runs : ~Inserted(s) => row'[s].state = Absent
    PROVE  (\A s \in Runs : Holds(s)) /\ IndexSound'
<1>1. \A s \in Runs : Kept(s)  BY DEF Kept
<1>2. \A s \in Runs : Holds(s)  BY <1>1, KeptHolds
<1>3. IndexSound'  BY IndexKept
<1> QED  BY <1>2, <1>3

(* What a cancel request has been answered, put for rigid r and t. *)
LEMMA AnsweredSound ==
    ASSUME NEW c \in Clients, NEW pc, NEW r \in Runs, NEW t,
           client' = [client EXCEPT ![c] = [pc |-> pc, run |-> r, target |-> t]],
           TypeOK,
           pc \in {"check", "checkCancelled", "stored"} => Aimed(r, t)',
           pc = "stored" => t \in Runs /\ Inserted(t)',
           pc \in {"checkCancelled", "accepted"} => Landed(r)'
    PROVE  /\ ClientSound(c)'
           /\ \A d \in Clients \ {c} : client'[d] = client[d]
<1>1. client'[c].pc = pc /\ client'[c].run = r /\ client'[c].target = t
  BY DEF TypeOK
<1>2. \A d \in Clients \ {c} : client'[d] = client[d]  BY DEF TypeOK
<1>3. ClientSound(c)'  BY <1>1 DEF ClientSound
<1> QED  BY <1>2, <1>3

LEMMA CancelLookupGood ==
    ASSUME PrepInv, NEW c \in Clients, NEW r \in Runs, CancelLookup(c, r) PROVE GoodStep
<1>1. TypeOK  BY DEF PrepInv
<1>2. UNCHANGED <<row, messages, prep, index, task, marked, faulted>>
  BY DEF CancelLookup, history
<1>3. RowsKept /\ MessagesKept  BY <1>1, <1>2, SameRows DEF MessagesKept
<1>4. (\A s \in Runs : Holds(s)) /\ IndexSound'
  BY <1>2, <1>3, QuietGood DEF Inserted
<1>5. PICK pc, t :
        /\ client' = [client EXCEPT ![c] = [pc |-> pc, run |-> r, target |-> t]]
        /\ t = Lookup(r).run /\ Lookup(r).state # Absent
        /\ pc \in {"refused", "checkCancelled", "check"}
        /\ pc = "checkCancelled" => Lookup(r).state \in {CancelRequested, Cancelled}
  <2> DEFINE p == IF Lookup(r).state \in {Succeeded, Failed} THEN "refused"
                  ELSE IF Lookup(r).state \in {CancelRequested, Cancelled} THEN "checkCancelled"
                  ELSE "check"
  <2>1. /\ client' = [client EXCEPT ![c] = [pc |-> p, run |-> r, target |-> Lookup(r).run]]
        /\ Lookup(r).state # Absent
    BY DEF CancelLookup, Reply
  <2>2. /\ p \in {"refused", "checkCancelled", "check"}
        /\ p = "checkCancelled" => Lookup(r).state \in {CancelRequested, Cancelled}
    OBVIOUS
  <2> HIDE DEF p
  <2> QED  BY <2>1, <2>2
<1>6. Aimed(r, t) /\ (pc = "checkCancelled" => Landed(r))  BY <1>5, LookupFacts
<1>7. Aimed(r, t)' /\ (pc = "checkCancelled" => Landed(r)')
  BY <1>2, <1>4, <1>6 DEF Aimed, Holds
<1>8. ClientSound(c)' /\ \A d \in Clients \ {c} : client'[d] = client[d]
  BY <1>1, <1>5, <1>7, AnsweredSound
<1> QED  BY <1>3, <1>4, <1>8 DEF GoodStep

(* A request that is under way names an id, and its run is a rigid one. *)
LEMMA ClientFacts ==
    ASSUME PrepInv, NEW c \in Clients, client[c].pc # "idle"
    PROVE  \E r \in Runs, t \in Runs \cup {NoRun} :
              /\ client[c].run = r /\ client[c].target = t
              /\ client[c].pc \in {"check", "checkCancelled", "stored"} =>
                    Aimed(r, t) /\ t \in Runs
              /\ client[c].pc = "stored" => Inserted(t)
              /\ client[c].pc \in {"checkCancelled", "accepted"} => Landed(r)
<1>1. client[c].run \in Runs  BY DEF PrepInv, ClientSound
<1>2. client[c].target \in Runs \cup {NoRun}  BY DEF PrepInv, TypeOK
<1>3. PICK r \in Runs, t \in Runs \cup {NoRun} : client[c].run = r /\ client[c].target = t
  BY <1>1, <1>2
<1>4. Aimed(r, t) => t \in Runs  BY DEF PrepInv, RunSound, Aimed
<1> QED  BY <1>3, <1>4 DEF PrepInv, ClientSound

LEMMA CancelCheckGood == ASSUME PrepInv, NEW c \in Clients, CancelCheck(c) PROVE GoodStep
<1>1. TypeOK  BY DEF PrepInv
<1>2. UNCHANGED <<row, messages, prep, index, task, marked, faulted>>
  BY DEF CancelCheck, history
<1>3. RowsKept /\ MessagesKept  BY <1>1, <1>2, SameRows DEF MessagesKept
<1>4. (\A s \in Runs : Holds(s)) /\ IndexSound'
  BY <1>2, <1>3, QuietGood DEF Inserted
<1>5. client[c].pc \in {"check", "checkCancelled"}  BY DEF CancelCheck
<1>6. PICK r \in Runs, t \in Runs \cup {NoRun} :
        /\ client[c].run = r /\ client[c].target = t
        /\ Aimed(r, t) /\ t \in Runs
        /\ client[c].pc = "checkCancelled" => Landed(r)
  BY <1>5, ClientFacts
<1>7. PICK pc \in {"preparation", "stored", "accepted"} :
        /\ client' = [client EXCEPT ![c] = [pc |-> pc, run |-> r, target |-> t]]
        /\ pc # "preparation" => row[t].state # Absent
        /\ pc = "accepted" => client[c].pc = "checkCancelled"
  BY <1>5, <1>6 DEF CancelCheck, Reply
<1>8. /\ Aimed(r, t)'
      /\ pc = "accepted" => Landed(r)'
      /\ pc = "stored" => Inserted(t)'
  BY <1>2, <1>4, <1>6, <1>7 DEF Aimed, Holds, Inserted
<1>9. ClientSound(c)' /\ \A d \in Clients \ {c} : client'[d] = client[d]
  BY <1>1, <1>6, <1>7, <1>8, AnsweredSound
<1> QED  BY <1>3, <1>4, <1>9 DEF GoodStep

LEMMA CancelStoredGood == ASSUME PrepInv, NEW c \in Clients, CancelStored(c) PROVE GoodStep
<1>1. TypeOK  BY DEF PrepInv
<1>2. UNCHANGED <<messages, prep, index, task, marked, faulted>> /\ client[c].pc = "stored"
  BY DEF CancelStored, history
<1>3. PICK r \in Runs, t \in Runs :
        /\ client[c].run = r /\ client[c].target = t /\ Aimed(r, t) /\ Inserted(t)
  BY <1>2, ClientFacts
<1>4. PICK pc \in {"refused", "accepted"} :
        client' = [client EXCEPT ![c] = [pc |-> pc, run |-> r, target |-> t]]
  BY <1>3 DEF CancelStored, Reply
<1>5. CancelRow(t)  BY <1>3 DEF CancelStored
<1>6. /\ RowsKept /\ Over(t)'
      /\ \A s \in Runs : ~Inserted(s) => row'[s].state = Absent
  BY <1>1, <1>3, <1>5, CancelledRows
<1>7. MessagesKept  BY <1>2 DEF MessagesKept
<1>8. (\A s \in Runs : Holds(s)) /\ IndexSound'  BY <1>2, <1>6, <1>7, QuietGood
<1>9. Landed(r)'
  <2>1. CASE t = r  BY <1>6, <2>1 DEF Landed
  <2>2. CASE task[r].pc = "done" /\ prep[r].run = t
    BY <1>2, <1>6, <2>2 DEF Landed, Over, Inserted
  <2> QED  BY <1>3, <2>1, <2>2 DEF Aimed
<1>10. ClientSound(c)' /\ \A d \in Clients \ {c} : client'[d] = client[d]
  BY <1>1, <1>4, <1>9, AnsweredSound
<1> QED  BY <1>6, <1>8, <1>10 DEF GoodStep

LEMMA WorkerGood ==
    ASSUME PrepInv, NEW q \in Runs, WorkerTakes(q) \/ WorkerMoves(q) PROVE GoodStep
<1>1. TypeOK  BY DEF PrepInv
<1>2. UNCHANGED <<prep, index, task, client, marked, faulted>>
  BY DEF WorkerTakes, WorkerMoves, history
<1>3. /\ RowsKept /\ \A s \in Runs : ~Inserted(s) => row'[s].state = Absent
      /\ WorkerTakes(q) => row'[q].state # Queued
  <2>1. ASSUME NEW target, NEW progress, Store!MoveRow(q, target, progress)
        PROVE  /\ RowsKept /\ (\A s \in Runs : ~Inserted(s) => row'[s].state = Absent)
               /\ row'[q].state = target
    BY <1>1, <2>1, MovedRows DEF Inserted
  <2>2. CASE WorkerMoves(q) /\ ~WorkerTakes(q)  BY <2>1, <2>2 DEF WorkerMoves
  <2>3. CASE WorkerTakes(q)
    <3>1. CASE UNCHANGED row /\ row[q].state # Queued
      BY <1>1, <3>1, SameRows DEF Inserted
    <3>2. CASE \E target \in {RunningData, Cancelled} : \E progress : Store!MoveRow(q, target, progress)
      BY <2>1, <3>2, StateFacts DEF RunningData, Cancelled, Queued
    <3> QED  BY <2>3, <3>1, <3>2 DEF WorkerTakes
  <2> QED  BY <2>2, <2>3
<1>4. MessagesKept
  <2>1. CASE WorkerMoves(q) /\ ~WorkerTakes(q)  BY <2>1 DEF WorkerMoves, MessagesKept
  <2>2. CASE WorkerTakes(q)
    <3>1. \A s \in Runs \ {q} : messages'[s] = messages[s]
      BY <1>1, <2>2 DEF WorkerTakes, TypeOK
    <3> QED  BY <1>3, <2>2, <3>1 DEF MessagesKept
  <2> QED  BY <2>1, <2>2
<1>5. (\A s \in Runs : Holds(s)) /\ IndexSound'  BY <1>2, <1>3, <1>4, QuietGood
<1> QED  BY <1>2, <1>3, <1>5 DEF GoodStep

LEMMA CancelPreparationGood ==
    ASSUME PrepInv, NEW c \in Clients, CancelPreparation(c) PROVE GoodStep
<1> USE DEF Inserted, Over, Live
<1>1. TypeOK  BY DEF PrepInv
<1>2. /\ client[c].pc = "preparation"
      /\ UNCHANGED <<row, messages, faulted>>
  BY DEF CancelPreparation
<1>3. PICK r \in Runs : r = client[c].run  BY <1>2, ClientFacts
<1>4. RunSound(r) /\ RowSound(r) /\ MarkSound(r)  BY DEF PrepInv
<1>5. RowsKept /\ MessagesKept  BY <1>1, <1>2, SameRows DEF MessagesKept
<1>6. /\ prep[r] = [run |-> prep[r].run, state |-> prep[r].state]
      /\ prep[r].state \in RunStateSet \cup {Absent}
      /\ task[r].pc \in {"none", "waiting", "create", "enqueue", "raised", "settle", "done",
                         "cancelled", "dead"}
  BY <1>1, TypeFacts
<1>7. PICK pc, t :
        /\ client' = [client EXCEPT ![c] = [pc |-> pc, run |-> r, target |-> t]]
        /\ pc \in {"notFound", "accepted", "overtaken"}
        /\ \/ /\ UNCHANGED <<prep, index, task, marked>>
              /\ pc = "accepted" => /\ prep[r].state \in TerminalStates \cup {CancelRequested}
                                    /\ task[r].pc # "done"
           \/ /\ task[r].pc = "waiting" /\ Forget(r) /\ UNCHANGED marked
              /\ prep' = [prep EXCEPT ![r] = [run |-> prep[r].run, state |-> Cancelled]]
              /\ task' = [task EXCEPT ![r] = Task("cancelled", NoRun, Absent)]
           \/ /\ prep[r].state \in ActiveStates /\ task[r].pc # "waiting"
              /\ UNCHANGED <<index, task>>
              /\ marked' = IF r \in Preparing THEN marked \cup {r} ELSE marked
              /\ prep' = [prep EXCEPT ![r] = [run |-> prep[r].run, state |-> CancelRequested]]
              /\ pc = "accepted" => task[r].pc # "done"
  <2> DEFINE told == IF task[r].pc = "done" THEN "overtaken" ELSE "accepted"
  <2>0. told \in {"accepted", "overtaken"} /\ (told = "accepted" => task[r].pc # "done")
    OBVIOUS
  <2>1. prep \in [Runs -> [run : Runs \cup {NoRun}, state : RunStateSet \cup {Absent}]]
    BY <1>1 DEF TypeOK
  <2>2. \/ /\ Reply(c, "notFound", r, NoRun) /\ UNCHANGED <<prep, index, task, marked>>
        \/ /\ prep[r].state \in TerminalStates \cup {CancelRequested}
           /\ Reply(c, told, r, prep[r].run) /\ UNCHANGED <<prep, index, task, marked>>
        \/ /\ task[r].pc = "waiting" /\ Forget(r) /\ UNCHANGED marked
           /\ prep' = [prep EXCEPT ![r] = [run |-> prep[r].run, state |-> Cancelled]]
           /\ Step(r, "cancelled", NoRun, Absent)
           /\ Reply(c, "accepted", r, r)
        \/ /\ prep[r].state \in ActiveStates /\ task[r].pc # "waiting"
           /\ UNCHANGED <<index, task>>
           /\ marked' = IF r \in Preparing THEN marked \cup {r} ELSE marked
           /\ prep' = [prep EXCEPT ![r] = [run |-> prep[r].run, state |-> CancelRequested]]
           /\ Reply(c, told, r, prep[r].run)
    BY <1>3, <2>1 DEF CancelPreparation
  <2> HIDE DEF told
  <2> QED  BY <2>0, <2>2 DEF Reply, Step
<1>8. /\ \A s \in Runs \ {r} : prep'[s] = prep[s] /\ task'[s] = task[s] /\ (s \in marked' <=> s \in marked)
      /\ Forget(r) \/ UNCHANGED index
      /\ \A s \in Runs : task[s].pc \notin {"none", "dead"} => task'[s].pc \notin {"none", "dead"}
  BY <1>1, <1>7 DEF TypeOK, Task
<1>9. \A s \in Runs \ {r} : Holds(s)
  <2> SUFFICES ASSUME NEW s \in Runs \ {r} PROVE Holds(s)  OBVIOUS
  <2>1. Kept(s)  BY <1>2, <1>8, Forgotten DEF Kept
  <2> QED  BY <1>2, <1>5, <2>1, KeptHolds
<1>10. Holds(r) /\ (pc = "accepted" => Landed(r)')
  <2>1. CASE /\ UNCHANGED <<prep, index, task, marked>>
             /\ pc = "accepted" => /\ prep[r].state \in TerminalStates \cup {CancelRequested}
                                   /\ task[r].pc # "done"
    <3>1. Kept(r)  BY <1>2, <2>1 DEF Kept
    <3>2. Holds(r)  BY <1>2, <1>5, <3>1, KeptHolds
    <3>3. pc = "accepted" => Landed(r)
      BY <1>4, <1>6, <2>1, StateFacts DEF Landed, RunSound, NoPrep
    <3> QED  BY <3>2, <3>3 DEF Holds
  <2>2. CASE /\ task[r].pc = "waiting" /\ Forget(r) /\ UNCHANGED marked
             /\ prep' = [prep EXCEPT ![r] = [run |-> prep[r].run, state |-> Cancelled]]
             /\ task' = [task EXCEPT ![r] = Task("cancelled", NoRun, Absent)]
    <3>1. /\ task'[r].pc = "cancelled" /\ prep'[r].run = prep[r].run /\ prep'[r].state = Cancelled
      BY <1>1, <2>2 DEF TypeOK, Task
    <3>2. row[r].state = Absent /\ prep[r].run = r /\ r \notin marked'
      BY <1>4, <2>2 DEF RowSound, RunSound, MarkSound, Preparing
    <3>3. RunSound(r)'  BY <3>1, <3>2 DEF RunSound
    <3>4. RowSound(r)'  BY <1>2, <3>1, <3>2 DEF RowSound
    <3>5. MarkSound(r)'  BY <3>2 DEF MarkSound
    <3>6. Landed(r)'  BY <3>1 DEF Landed
    <3>7. Settles(r)  BY <1>2, <2>2 DEF Settles
    <3> QED  BY <3>3, <3>4, <3>5, <3>6, <3>7 DEF Holds
  <2>3. CASE /\ prep[r].state \in ActiveStates /\ task[r].pc # "waiting"
             /\ UNCHANGED <<index, task>>
             /\ marked' = IF r \in Preparing THEN marked \cup {r} ELSE marked
             /\ prep' = [prep EXCEPT ![r] = [run |-> prep[r].run, state |-> CancelRequested]]
             /\ pc = "accepted" => task[r].pc # "done"
    <3>1. prep'[r].run = prep[r].run /\ prep'[r].state = CancelRequested
      BY <1>1, <2>3 DEF TypeOK
    <3>2. prep[r].state \notin {Absent, Cancelled, Failed}
      BY <2>3, StateFacts DEF ActiveStates, RunningStates, Absent, Queued, RunningData,
                              RunningSignal, RunningExec, RunningReport, Cancelled, Failed
    <3>3. task[r].pc \notin {"none", "dead", "cancelled", "waiting"}
      BY <1>4, <2>3, <3>2 DEF RunSound, NoPrep
    <3>4. CancelRequested # Absent /\ CancelRequested # Failed
      BY DEF CancelRequested, Absent, Failed
    <3>5. RunSound(r)'  BY <1>2, <1>4, <2>3, <3>1, <3>2, <3>3, <3>4 DEF RunSound
    <3>6. RowSound(r)'  BY <1>2, <1>4, <2>3, <3>1 DEF RowSound
    <3>7. MarkSound(r)'
      <4>1. CASE r \in Preparing
        BY <1>2, <2>3, <3>1, <4>1 DEF MarkSound, Preparing
      <4>2. CASE r \notin Preparing
        BY <1>2, <1>4, <2>3, <3>1, <3>2, <4>2 DEF MarkSound, Preparing
      <4> QED  BY <4>1, <4>2
    <3>8. Landed(r) => Landed(r)'
      BY <1>2, <2>3, <3>1, <3>2 DEF Landed
    <3>9. pc = "accepted" => Landed(r)'
      BY <1>6, <2>3, <3>1, <3>3 DEF Landed
    <3>10. Settles(r)  BY <1>2, <2>3, <3>1, <3>2, <3>3 DEF Settles
    <3> QED  BY <3>5, <3>6, <3>7, <3>8, <3>9, <3>10 DEF Holds
  <2> QED  BY <1>7, <2>1, <2>2, <2>3
<1>11. IndexSound'
  <2>1. \A q \in Requests : index'[q] \in {index[q], NoRun}  BY <1>8, Forgotten
  <2> QED  BY <1>8, <2>1, IndexKept
<1>12. ClientSound(c)' /\ \A d \in Clients \ {c} : client'[d] = client[d]
  BY <1>1, <1>7, <1>10, AnsweredSound
<1> QED  BY <1>5, <1>9, <1>10, <1>11, <1>12 DEF GoodStep

LEMMA ReplayGood == ASSUME PrepInv, NEW q \in Requests, SubmitReplay(q) PROVE GoodStep
<1>1. TypeOK  BY DEF PrepInv
<1>2. UNCHANGED <<row, messages, prep, index, task, client, marked, faulted>>
  BY DEF SubmitReplay
<1>3. RowsKept /\ MessagesKept  BY <1>1, <1>2, SameRows DEF MessagesKept
<1> QED  BY <1>2, <1>3, QuietGood DEF GoodStep, Inserted

(* After a restart nothing is left but the rows. *)
LEMMA RestartSound == ASSUME PrepInv, Restart PROVE TypeOK' => PrepInv'
<1> USE DEF Inserted, Over, Live
<1>1. TypeOK  BY DEF PrepInv
<1>2. /\ UNCHANGED <<row, faulted>> /\ marked' = {}
      /\ \A r \in Runs : /\ prep'[r] = NoPrep
                         /\ task'[r].pc = IF task[r].pc = "none" THEN "none" ELSE "dead"
      /\ \A q \in Requests : index'[q] = NoRun
      /\ \A c \in Clients : client'[c].pc = "idle"
  BY DEF Restart, Task
<1>3. ASSUME NEW r \in Runs PROVE RunSound(r)' /\ RowSound(r)' /\ MarkSound(r)'
  <2>1. row[r].state # Absent => task[r].pc # "none"  BY DEF PrepInv, RowSound
  <2>2. task'[r].pc \in {"none", "dead"}  BY <1>2
  <2>3. RunSound(r)'  BY <1>2, <2>2 DEF RunSound, NoPrep
  <2>4. RowSound(r)'  BY <1>2, <2>1, <2>2 DEF RowSound
  <2>5. MarkSound(r)'  BY <1>2 DEF MarkSound
  <2> QED  BY <2>3, <2>4, <2>5
<1>4. \A c \in Clients : ClientSound(c)'  BY <1>2 DEF ClientSound
<1>5. IndexSound'  BY <1>2 DEF IndexSound
<1> QED  BY <1>3, <1>4, <1>5 DEF PrepInv

-----------------------------------------------------------------------------
(* Types. *)

Names == {"none", "waiting", "create", "enqueue", "raised", "settle", "done", "cancelled", "dead"}

Answers == {"idle", "check", "checkCancelled", "preparation", "stored", "accepted", "overtaken",
            "refused", "notFound"}

LEMMA StepTyped ==
    ASSUME TypeOK, NEW r \in Runs, NEW pc \in Names, NEW run \in Runs \cup {NoRun},
           NEW seen \in RunStateSet \cup {Absent}, Step(r, pc, run, seen)
    PROVE  task' \in [Runs -> [pc : Names, run : Runs \cup {NoRun}, seen : RunStateSet \cup {Absent}]]
BY DEF TypeOK, Step, Task, Names

LEMMA ReplyTyped ==
    ASSUME TypeOK, NEW c \in Clients, NEW pc \in Answers, NEW run \in Runs \cup {NoRun},
           NEW target \in Runs \cup {NoRun}, Reply(c, pc, run, target)
    PROVE  client' \in [Clients -> [pc : Answers, run : Runs \cup {NoRun},
                                    target : Runs \cup {NoRun}]]
BY DEF TypeOK, Reply, Answers

LEMMA PrepTyped ==
    ASSUME TypeOK, NEW r \in Runs, NEW run \in Runs \cup {NoRun},
           NEW state \in RunStateSet \cup {Absent},
           prep' = [prep EXCEPT ![r] = [run |-> run, state |-> state]]
    PROVE  prep' \in [Runs -> [run : Runs \cup {NoRun}, state : RunStateSet \cup {Absent}]]
BY DEF TypeOK

LEMMA ForgetTyped ==
    ASSUME TypeOK, NEW r \in Runs, Forget(r) \/ UNCHANGED index
    PROVE  index' \in [Requests -> Runs \cup {NoRun}]
BY DEF TypeOK, Forget

LEMMA PrepareTypes == ASSUME PrepInv, NEW r \in Runs, PrepareStep(r) PROVE TypeOK'
<1> USE DEF Names
<1>1. TypeOK  BY DEF PrepInv
<1>2. /\ task[r].run \in Runs \cup {NoRun} /\ task[r].seen \in RunStateSet \cup {Absent}
      /\ prep[r].run \in Runs \cup {NoRun}
      /\ prep' = [prep EXCEPT ![r] = [run |-> @.run, state |-> Failed]] =>
            prep' = [prep EXCEPT ![r] = [run |-> prep[r].run, state |-> Failed]]
  BY <1>1 DEF TypeOK
<1>3. Absent \in RunStateSet \cup {Absent} /\ Queued \in RunStateSet /\ Failed \in RunStateSet
  BY DEF RunStateSet, ActiveStates, TerminalStates
<1>4. row' \in [Runs -> Records]
  BY StartGood, CreateGood, EnqueueGood, MarkFailedGood, SettleGood
     DEF PrepareStep, GoodStep, RowsKept
<1>5. CASE Start(r) \/ PrepareRaises(r)
  <2>1. task' \in [Runs -> [pc : Names, run : Runs \cup {NoRun}, seen : RunStateSet \cup {Absent}]]
    BY <1>1, <1>3, <1>5, StepTyped DEF Start, PrepareRaises
  <2> QED  BY <1>1, <1>4, <1>5, <2>1 DEF TypeOK, Start, PrepareRaises, history
<1>6. CASE Create(r)
  <2>1. CASE Step(r, "enqueue", r, Queued)
    <3>1. task' \in [Runs -> [pc : Names, run : Runs \cup {NoRun}, seen : RunStateSet \cup {Absent}]]
      BY <1>1, <1>3, <2>1, StepTyped
    <3> QED  BY <1>1, <1>4, <1>6, <3>1 DEF TypeOK, Create, history
  <2>2. ASSUME NEW q \in Store!SameFingerprint(r),
               Step(r, IF row[q].state = Queued THEN "enqueue" ELSE "settle", q, row[q].state)
        PROVE  TypeOK'
    <3>1. q \in Runs /\ row[q].state \in RunStateSet \cup {Absent}
      BY <1>1, TypeFacts DEF Store!SameFingerprint
    <3>2. PICK pc \in {"enqueue", "settle"} : Step(r, pc, q, row[q].state)
      BY <2>2
    <3>3. task' \in [Runs -> [pc : Names, run : Runs \cup {NoRun}, seen : RunStateSet \cup {Absent}]]
      BY <1>1, <3>1, <3>2, StepTyped
    <3> QED  BY <1>1, <1>4, <1>6, <3>3 DEF TypeOK, Create, history
  <2> QED  BY <1>6, <2>1, <2>2 DEF Create
<1>7. CASE Enqueue(r)
  <2>1. task' \in [Runs -> [pc : Names, run : Runs \cup {NoRun}, seen : RunStateSet \cup {Absent}]]
    BY <1>1, <1>2, <1>7, StepTyped DEF Enqueue
  <2>2. messages' \in [Runs -> Nat] /\ unsent' \subseteq Runs
    <3>1. messages \in [Runs -> Nat] /\ unsent \subseteq Runs  BY <1>1 DEF TypeOK
    <3>2. /\ messages' = [messages EXCEPT ![task[r].run] = @ + 1]
          /\ unsent' = unsent \ {task[r].run}
      BY <1>7 DEF Enqueue
    <3>3. PICK q \in Runs : q = task[r].run  BY <1>7 DEF Enqueue, PrepInv, RowSound
    <3>4. messages[q] + 1 \in Nat  BY <3>1
    <3>5. messages' = [messages EXCEPT ![q] = messages[q] + 1]  BY <3>1, <3>2, <3>3
    <3> QED  BY <3>1, <3>2, <3>4, <3>5
  <2> QED  BY <1>1, <1>4, <1>7, <2>1, <2>2 DEF TypeOK, Enqueue
<1>8. CASE EnqueueRefused(r)
  <2>1. task' \in [Runs -> [pc : Names, run : Runs \cup {NoRun}, seen : RunStateSet \cup {Absent}]]
    BY <1>1, <1>2, <1>8, StepTyped DEF EnqueueRefused
  <2>2. task[r].run \in Runs  BY <1>8 DEF EnqueueRefused, PrepInv, RowSound
  <2>3. unsent' \subseteq Runs  BY <1>1, <1>8, <2>2 DEF TypeOK, EnqueueRefused
  <2>4. faults' \in 0..MaxFaults
    BY <1>1, <1>8, PreparationBounds DEF TypeOK, EnqueueRefused
  <2> QED  BY <1>1, <1>4, <1>8, <2>1, <2>3, <2>4 DEF TypeOK, EnqueueRefused
<1>9. CASE MarkFailed(r)
  <2>1. task' \in [Runs -> [pc : Names, run : Runs \cup {NoRun}, seen : RunStateSet \cup {Absent}]]
    BY <1>1, <1>2, <1>9, StepTyped DEF MarkFailed
  <2>2. prep' \in [Runs -> [run : Runs \cup {NoRun}, state : RunStateSet \cup {Absent}]]
    BY <1>1, <1>2, <1>3, <1>9, PrepTyped DEF MarkFailed
  <2>3. index' \in [Requests -> Runs \cup {NoRun}]
    BY <1>1, <1>9, ForgetTyped DEF MarkFailed
  <2> QED  BY <1>1, <1>4, <1>9, <2>1, <2>2, <2>3 DEF TypeOK, MarkFailed, history
<1>10. CASE Settle(r)
  <2>1. PICK q \in Runs : q = task[r].run  BY <1>10 DEF Settle, PrepInv, RowSound
  <2>2. row'[q].state \in RunStateSet \cup {Absent}  BY <1>4 DEF Records
  <2>3. PICK state \in RunStateSet \cup {Absent} : Settled(r, q, state)
    <3> DEFINE s == IF row[q].state \in {Succeeded, Failed} THEN task[r].seen ELSE row'[q].state
    <3>1. s \in RunStateSet \cup {Absent}  BY <1>2, <2>2
    <3>2. Settled(r, q, task[r].seen) \/ Settled(r, q, s)  BY <1>10, <2>1 DEF Settle
    <3> HIDE DEF s
    <3> QED  BY <1>2, <3>1, <3>2
  <2>4. task' \in [Runs -> [pc : Names, run : Runs \cup {NoRun}, seen : RunStateSet \cup {Absent}]]
    BY <1>1, <1>2, <2>3, StepTyped DEF Settled
  <2>5. prep' \in [Runs -> [run : Runs \cup {NoRun}, state : RunStateSet \cup {Absent}]]
    BY <1>1, <2>3, PrepTyped DEF Settled
  <2>6. UNCHANGED <<messages, index, client>>  BY <2>3 DEF Settled
  <2>7. /\ faults' \in 0..MaxFaults /\ faulted' \subseteq Runs
        /\ UNCHANGED <<marked, unsent, replayed, restarts>>
    <3>1. CASE UNCHANGED history  BY <1>1, <3>1 DEF history, TypeOK
    <3>2. CASE /\ faults < MaxFaults /\ faults' = faults + 1 /\ faulted' = faulted \cup {r}
               /\ UNCHANGED <<marked, unsent, replayed, restarts>>
      <4>1. faults \in 0..MaxFaults /\ faulted \subseteq Runs  BY <1>1 DEF TypeOK
      <4>2. faults' \in 0..MaxFaults  BY <3>2, <4>1, PreparationBounds
      <4> QED  BY <3>2, <4>1, <4>2
    <3> QED  BY <1>10, <3>1, <3>2 DEF Settle, history
  <2> QED  BY <1>1, <1>4, <2>4, <2>5, <2>6, <2>7 DEF TypeOK
<1> QED  BY <1>5, <1>6, <1>7, <1>8, <1>9, <1>10 DEF PrepareStep

LEMMA CancelTypes ==
    ASSUME PrepInv, NEW c \in Clients,
           CancelCheck(c) \/ CancelPreparation(c) \/ CancelStored(c)
           \/ \E r \in Runs : CancelLookup(c, r)
    PROVE  TypeOK'
<1> USE DEF Answers, Names
<1>1. TypeOK  BY DEF PrepInv
<1>2. ASSUME NEW r \in Runs, CancelLookup(c, r) PROVE TypeOK'
  <2> DEFINE p == IF Lookup(r).state \in {Succeeded, Failed} THEN "refused"
                  ELSE IF Lookup(r).state \in {CancelRequested, Cancelled} THEN "checkCancelled"
                  ELSE "check"
  <2>1. Reply(c, p, r, Lookup(r).run) /\ Lookup(r).state # Absent
    BY <1>2 DEF CancelLookup
  <2>2. p \in Answers  OBVIOUS
  <2>3. Lookup(r).run \in Runs \cup {NoRun}  BY <2>1, LookupFacts
  <2> HIDE DEF p
  <2>4. client' \in [Clients -> [pc : Answers, run : Runs \cup {NoRun}, target : Runs \cup {NoRun}]]
    BY <1>1, <2>1, <2>2, <2>3, ReplyTyped
  <2> QED  BY <1>1, <1>2, <2>4 DEF TypeOK, CancelLookup, history
<1>3. client[c].run \in Runs \cup {NoRun} /\ client[c].target \in Runs \cup {NoRun}
  BY <1>1 DEF TypeOK
<1>4. CASE CancelCheck(c)
  <2>1. PICK pc \in {"preparation", "stored", "accepted"} :
          Reply(c, pc, client[c].run, client[c].target)
    BY <1>4 DEF CancelCheck
  <2>2. client' \in [Clients -> [pc : Answers, run : Runs \cup {NoRun}, target : Runs \cup {NoRun}]]
    BY <1>1, <1>3, <2>1, ReplyTyped
  <2> QED  BY <1>1, <1>4, <2>2 DEF TypeOK, CancelCheck, history
<1>5. CASE CancelStored(c)
  <2>1. PICK pc \in {"refused", "accepted"} : Reply(c, pc, client[c].run, client[c].target)
    BY <1>5 DEF CancelStored
  <2>2. client' \in [Clients -> [pc : Answers, run : Runs \cup {NoRun}, target : Runs \cup {NoRun}]]
    BY <1>1, <1>3, <2>1, ReplyTyped
  <2>3. row' \in [Runs -> Records]  BY <1>5, CancelStoredGood DEF GoodStep, RowsKept
  <2> QED  BY <1>1, <1>5, <2>2, <2>3 DEF TypeOK, CancelStored, history
<1>6. CASE CancelPreparation(c)
  <2>1. client[c].pc = "preparation"  BY <1>6 DEF CancelPreparation
  <2>2. PICK r \in Runs : r = client[c].run  BY <2>1, ClientFacts
  <2>3. prep \in [Runs -> [run : Runs \cup {NoRun}, state : RunStateSet \cup {Absent}]]
    BY <1>1 DEF TypeOK
  <2>4. prep[r].run \in Runs \cup {NoRun}  BY <2>3
  <2>5. Absent \in RunStateSet \cup {Absent} /\ Cancelled \in RunStateSet
        /\ CancelRequested \in RunStateSet
    BY DEF RunStateSet, TerminalStates
  <2>6. PICK pc \in {"notFound", "accepted", "overtaken"}, t \in Runs \cup {NoRun} :
          Reply(c, pc, r, t)
    BY <1>6, <2>2, <2>4 DEF CancelPreparation
  <2>7. client' \in [Clients -> [pc : Answers, run : Runs \cup {NoRun}, target : Runs \cup {NoRun}]]
    BY <1>1, <2>6, ReplyTyped
  <2>8. \/ UNCHANGED <<prep, index, task, marked>>
        \/ /\ prep' = [prep EXCEPT ![r] = [run |-> prep[r].run, state |-> Cancelled]]
           /\ Step(r, "cancelled", NoRun, Absent) /\ Forget(r) /\ UNCHANGED marked
        \/ /\ prep' = [prep EXCEPT ![r] = [run |-> prep[r].run, state |-> CancelRequested]]
           /\ marked' = IF r \in Preparing THEN marked \cup {r} ELSE marked
           /\ UNCHANGED <<index, task>>
    BY <1>6, <2>2, <2>3 DEF CancelPreparation
  <2>9. /\ prep' \in [Runs -> [run : Runs \cup {NoRun}, state : RunStateSet \cup {Absent}]]
        /\ index' \in [Requests -> Runs \cup {NoRun}]
        /\ task' \in [Runs -> [pc : Names, run : Runs \cup {NoRun}, seen : RunStateSet \cup {Absent}]]
        /\ marked' \subseteq Runs
    <3>1. CASE UNCHANGED <<prep, index, task, marked>>  BY <1>1, <3>1 DEF TypeOK
    <3>2. CASE /\ prep' = [prep EXCEPT ![r] = [run |-> prep[r].run, state |-> Cancelled]]
               /\ Step(r, "cancelled", NoRun, Absent) /\ Forget(r) /\ UNCHANGED marked
      <4>1. task' \in [Runs -> [pc : Names, run : Runs \cup {NoRun},
                                seen : RunStateSet \cup {Absent}]]
        BY <1>1, <2>5, <3>2, StepTyped
      <4>2. prep' \in [Runs -> [run : Runs \cup {NoRun}, state : RunStateSet \cup {Absent}]]
        BY <1>1, <2>4, <2>5, <3>2, PrepTyped
      <4>3. index' \in [Requests -> Runs \cup {NoRun}]  BY <1>1, <3>2, ForgetTyped
      <4> QED  BY <1>1, <3>2, <4>1, <4>2, <4>3 DEF TypeOK
    <3>3. CASE /\ prep' = [prep EXCEPT ![r] = [run |-> prep[r].run, state |-> CancelRequested]]
               /\ marked' = IF r \in Preparing THEN marked \cup {r} ELSE marked
               /\ UNCHANGED <<index, task>>
      <4>1. prep' \in [Runs -> [run : Runs \cup {NoRun}, state : RunStateSet \cup {Absent}]]
        BY <1>1, <2>4, <2>5, <3>3, PrepTyped
      <4> QED  BY <1>1, <3>3, <4>1 DEF TypeOK
    <3> QED  BY <2>8, <3>1, <3>2, <3>3
  <2> QED  BY <1>1, <1>6, <2>7, <2>9 DEF TypeOK, CancelPreparation
<1> QED  BY <1>2, <1>4, <1>5, <1>6

LEMMA OtherTypes ==
    ASSUME PrepInv,
           Restart \/ (\E q \in Requests : SubmitReplay(q))
           \/ \E r \in Runs : Submit(r) \/ WorkerTakes(r) \/ WorkerMoves(r)
    PROVE  TypeOK'
<1>1. TypeOK  BY DEF PrepInv
<1>2. ASSUME NEW r \in Runs, Submit(r) PROVE TypeOK'
  <2>1. /\ Absent \in RunStateSet \cup {Absent} /\ RunningData \in RunStateSet
        /\ Request[r] \in Requests
    BY RequestTypes DEF RunStateSet, ActiveStates, RunningStates
  <2>2. task' \in [Runs -> [pc : Names, run : Runs \cup {NoRun}, seen : RunStateSet \cup {Absent}]]
    BY <1>1, <1>2, <2>1, StepTyped DEF Submit, Names
  <2>3. prep' \in [Runs -> [run : Runs \cup {NoRun}, state : RunStateSet \cup {Absent}]]
    BY <1>1, <1>2, <2>1, PrepTyped DEF Submit
  <2>4. index' \in [Requests -> Runs \cup {NoRun}]
    BY <1>1, <1>2, <2>1 DEF Submit, TypeOK
  <2> QED  BY <1>1, <1>2, <2>2, <2>3, <2>4 DEF TypeOK, Submit, history, Names
<1>3. ASSUME NEW r \in Runs, WorkerTakes(r) PROVE TypeOK'
  <2>1. row' \in [Runs -> Records]  BY <1>3, WorkerGood DEF GoodStep, RowsKept
  <2>2. messages \in [Runs -> Nat]  BY <1>1 DEF TypeOK
  <2>3. messages[r] - 1 \in Nat  BY <1>3, <2>2 DEF WorkerTakes
  <2>4. messages' \in [Runs -> Nat]  BY <1>3, <2>2, <2>3 DEF WorkerTakes
  <2> QED  BY <1>1, <1>3, <2>1, <2>4 DEF TypeOK, WorkerTakes, history
<1>4. ASSUME NEW r \in Runs, WorkerMoves(r) PROVE TypeOK'
  <2>1. row' \in [Runs -> Records]  BY <1>4, WorkerGood DEF GoodStep, RowsKept
  <2> QED  BY <1>1, <1>4, <2>1 DEF TypeOK, WorkerMoves, history
<1>5. ASSUME NEW q \in Requests, SubmitReplay(q) PROVE TypeOK'
  BY <1>1, <1>5 DEF TypeOK, SubmitReplay
<1>6. CASE Restart
  <2>1. messages' \in [Runs -> Nat]
    <3>1. messages \in [Runs -> Nat]  BY <1>1 DEF TypeOK
    <3> QED  BY <1>6, <3>1 DEF Restart
  <2>2. restarts' \in 0..MaxRestarts
    <3>1. restarts \in 0..MaxRestarts  BY <1>1 DEF TypeOK
    <3> QED  BY <1>6, <3>1, PreparationBounds DEF Restart
  <2>3. task' \in [Runs -> [pc : Names, run : Runs \cup {NoRun}, seen : RunStateSet \cup {Absent}]]
    BY <1>6 DEF Restart, Task, Names
  <2>4. prep' \in [Runs -> [run : Runs \cup {NoRun}, state : RunStateSet \cup {Absent}]]
    BY <1>6 DEF Restart, NoPrep
  <2>5. unsent' \subseteq Runs /\ marked' \subseteq Runs /\ index' \in [Requests -> Runs \cup {NoRun}]
    BY <1>6 DEF Restart
  <2>6. client' \in [Clients -> [pc : Answers, run : Runs \cup {NoRun}, target : Runs \cup {NoRun}]]
    BY <1>6 DEF Restart, Answers
  <2>7. UNCHANGED <<row, faulted, replayed, faults>>  BY <1>6 DEF Restart
  <2> QED  BY <1>1, <2>1, <2>2, <2>3, <2>4, <2>5, <2>6, <2>7 DEF TypeOK, Names, Answers
<1> QED  BY <1>2, <1>3, <1>4, <1>5, <1>6

-----------------------------------------------------------------------------
(* The invariant, and the theorems it carries. *)

LEMMA InitInv == Init => PrepInv
<1> SUFFICES ASSUME Init PROVE PrepInv  OBVIOUS
<1>1. TypeOK
  <2>1. NoRow \in Records  BY DEF NoRow, Records
  <2>2. 0 \in 0..MaxFaults /\ 0 \in 0..MaxRestarts  BY PreparationBounds
  <2> QED  BY <2>1, <2>2 DEF Init, TypeOK, NoPrep, Task
<1>2. \A r \in Runs : RunSound(r) /\ RowSound(r) /\ MarkSound(r)
  BY DEF Init, RunSound, RowSound, MarkSound, NoPrep, Task, NoRow, Live, Inserted
<1>3. \A c \in Clients : ClientSound(c)  BY DEF Init, ClientSound
<1>4. IndexSound  BY DEF Init, IndexSound
<1> QED  BY <1>1, <1>2, <1>3, <1>4 DEF PrepInv

(* Every step is good, but for the restart, which ends every id. *)
LEMMA StepGood == ASSUME PrepInv, Next PROVE GoodStep \/ Restart
BY SubmitGood, StartGood, CreateGood, EnqueueGood, MarkFailedGood, SettleGood, CancelLookupGood,
   CancelCheckGood, CancelPreparationGood, CancelStoredGood, WorkerGood, ReplayGood
   DEF Next, PrepareStep

LEMMA StepTypes == ASSUME PrepInv, Next PROVE TypeOK'
BY PrepareTypes, CancelTypes, OtherTypes DEF Next

LEMMA QuietStep == ASSUME PrepInv, UNCHANGED vars PROVE PrepInv'
BY DEF PrepInv, TypeOK, RunSound, RowSound, MarkSound, ClientSound, IndexSound, vars, history,
       Live, Inserted, Over, Landed, Aimed, Preparing, Issued

LEMMA StepInv == ASSUME PrepInv, [Next]_vars PROVE PrepInv'
<1>1. CASE Next  BY <1>1, StepGood, StepTypes, GoodStepKeeps, RestartSound
<1>2. CASE UNCHANGED vars  BY <1>2, QuietStep
<1> QED  BY <1>1, <1>2

LEMMA Invariant == Spec => []PrepInv
BY InitInv, StepInv, PTL DEF Spec

(* The variables of the coordinator stay within their types. *)
THEOREM PreparationTypes == Spec => []TypeOK
<1>1. PrepInv => TypeOK  BY DEF PrepInv
<1> QED  BY <1>1, Invariant, PTL

(* One request is prepared at most once at a time: while the preparation   *)
(* of an id is under way, the index names that id for the request.         *)
THEOREM PreparedOnce == Spec => []OnePreparation
<1>1. PrepInv => OnePreparation  BY DEF PrepInv, RunSound, Live, OnePreparation
<1> QED  BY <1>1, Invariant, PTL

(* _lookup_locked finds a record for every id the process has handed out.  *)
THEOREM IdsAnswer == Spec => []EveryIdAnswers
<1>1. PrepInv => EveryIdAnswers  BY LookupFacts DEF EveryIdAnswers, Issued
<1> QED  BY <1>1, Invariant, PTL

(* A preparation that settles on a queued run has left it a message.       *)
THEOREM Delivered == Spec => []QueuedIsDelivered
<1>1. PrepInv => QueuedIsDelivered  BY DEF PrepInv, RowSound, QueuedIsDelivered
<1> QED  BY <1>1, Invariant, PTL

(* The locked block at the end of _prepare passes a cancellation on.       *)
THEOREM MarkedIsApplied == Spec => []PreparationCancelApplied
<1>1. PrepInv => PreparationCancelApplied
  BY DEF PrepInv, TypeOK, MarkSound, Over, PreparationCancelApplied
<1> QED  BY <1>1, Invariant, PTL

(* A cancel request that was told "accepted" takes effect.                 *)
THEOREM AcceptedLands == Spec => []AcceptedCancelLands
<1>1. ASSUME PrepInv, NEW c \in Clients, client[c].pc = "accepted", client[c].run \notin faulted,
             task[client[c].run].pc \in {"done", "cancelled"}, prep[client[c].run].state # Failed
      PROVE  Lookup(client[c].run).state \notin ActiveStates
  <2>1. PICK r \in Runs : client[c].run = r /\ Landed(r)  BY <1>1, ClientFacts
  <2>2. Lookup(r).state \notin ActiveStates  BY <1>1, <2>1, LookupFacts
  <2> QED  BY <2>1, <2>2
<1>2. PrepInv => AcceptedCancelLands  BY <1>1 DEF AcceptedCancelLands
<1> QED  BY <1>2, Invariant, PTL

(* Whichever of the three sources answers for an id, a final state that    *)
(* was seen under it is the state seen ever after.                         *)
THEOREM FinalStays == Spec => FinalStaysFinal
<1> USE DEF Inserted, Over, Live
<1>1. ASSUME PrepInv, [Next]_vars, NEW r \in Issued, Lookup(r).state \in TerminalStates,
             task'[r].pc \notin {"none", "dead"}
      PROVE  Lookup(r)'.state = Lookup(r).state
  <2>1. RunSound(r) /\ RowSound(r) /\ TypeOK /\ r \in Runs  BY <1>1 DEF PrepInv, Issued
  <2>2. CASE UNCHANGED vars  BY <2>2 DEF vars, Lookup
  <2>3. CASE Restart  BY <1>1, <2>1, <2>3 DEF Restart, Task
  <2>4. CASE GoodStep
    <3>1. RowsKept /\ Settles(r)  BY <2>1, <2>4 DEF GoodStep, Holds
    <3>2. CASE row[r].state # Absent
      <4>1. row'[r] = row[r]
        BY <1>1, <2>1, <3>1, <3>2 DEF Lookup, RowsKept, RowKept
      <4> QED  BY <3>2, <4>1 DEF Lookup
    <3>3. CASE row[r].state = Absent /\ task[r].pc = "done"
      <4>1. /\ row'[r].state = Absent /\ prep'[r].run = prep[r].run
            /\ prep[r].state = Failed => prep'[r].state = Failed
            /\ prep[r].run \in Runs
        BY <2>1, <3>1, <3>3 DEF Settles, RunSound
      <4>2. CASE row[prep[r].run].state # Absent
        <5>1. row'[prep[r].run] = row[prep[r].run]
          BY <1>1, <3>1, <3>3, <4>1, <4>2, NoRunOutside DEF Lookup, RowsKept, RowKept
        <5> QED  BY <3>3, <4>1, <4>2, <5>1, NoRunOutside DEF Lookup
      <4>3. CASE row[prep[r].run].state = Absent
        <5>1. prep[r].run = r /\ prep[r].state = Failed
          BY <2>1, <3>3, <4>3 DEF RunSound
        <5> QED  BY <3>3, <4>1, <5>1 DEF Lookup
      <4> QED  BY <4>2, <4>3
    <3>4. CASE row[r].state = Absent /\ task[r].pc # "done"
      <4>1. prep[r].run = r
        BY <1>1, <2>1, <3>4, TypeFacts DEF RunSound, Issued
      <4>2. Lookup(r) = prep[r]  BY <3>4, <4>1 DEF Lookup
      <4>3. task[r].pc = "cancelled"
        BY <1>1, <2>1, <3>4, <4>2, TypeFacts, StateFacts
           DEF RunSound, Issued, TerminalStates, RunningData, CancelRequested, Succeeded, Failed,
               Cancelled
      <4>4. prep'[r] = prep[r] /\ row'[r].state = Absent
        BY <3>1, <3>4, <4>3 DEF Settles
      <4> QED  BY <4>1, <4>2, <4>4 DEF Lookup
    <3> QED  BY <3>2, <3>3, <3>4
  <2> QED  BY <1>1, <2>2, <2>3, <2>4, StepGood
<1>2. PrepInv /\ [Next]_vars =>
        [\A r \in Issued : (Lookup(r).state \in TerminalStates /\ r \in Issued')
            => Lookup(r)'.state = Lookup(r).state]_vars
  BY <1>1 DEF Issued
<1> QED  BY <1>2, Invariant, PTL DEF Spec, FinalStaysFinal
==============================================================================
