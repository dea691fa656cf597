------------------------- MODULE ProductServiceProofs -------------------------
(***************************************************************************)
(* Proofs about ProductService: its types, that the permits out are those  *)
(* of the runs the queue has in hand, that no run ends for a reason it did *)
(* not have, and that no data older than the last refresh is kept.         *)
(*                                                                         *)
(* The argument: a cancelled row never leaves cancel_requested but for     *)
(* cancelled or failed, so that only the guards of _build_transition stand *)
(* between it and a result; every way into the exception handler leaves an *)
(* error or a lost race behind; and the epoch grows in the step that       *)
(* empties the cache, so that what a slow preparation brings is of the     *)
(* current epoch or is dropped.                                            *)
(***************************************************************************)
EXTENDS ProductService, FiniteSetTheorems, SequenceTheorems, TLAPS

JobSet == [pc : JobPcs, target : RunStateSet, cur : Records, born : Nat \cup {Unborn},
           hit : BOOLEAN, retries : 0..MaxRetries]

CacheEntries == [key : {DataKey[q] : q \in JobRuns \cup Preflights}, born : Nat]

(* The stages execute enters. *)
StageTargets == RunningStates \cup {Succeeded}

(* The runs that hold a permit: handed to the executor or on their way. *)
Holders == {r \in JobRuns : submission[r] = "acquired" \/ job[r].pc \notin {"none", "done"}}

PermitsOwned == IsFiniteSet(Holders) /\ permits = Cardinality(Holders)

(* What a cache holds in an epoch. *)
FreshIn(entries, e) ==
    /\ entries \in Seq(CacheEntries)
    /\ \A i, j \in DOMAIN entries :
          /\ entries[i].born = e
          /\ entries[i].key = entries[j].key => i = j

(* EndsHonestly, and what makes it inductive. *)
HonestRun(r) ==
    /\ r \in accepted => record[r].state \in {CancelRequested, Cancelled, Failed}
    /\ record[r].state \in {CancelRequested, Cancelled} => r \in accepted
    /\ record[r].state = Failed => r \in broken \cup raced
    /\ job[r].pc \in {"handler", "failing"} => r \in broken \cup raced
    /\ submission[r] = "refused" => r \in broken
    /\ submission[r] # "done" => job[r].pc = "none"
    /\ job[r].pc \in {"stageRead", "stageWrite"} => job[r].target \in StageTargets
    /\ job[r].pc = "label" => job[r].cur.state \in {RunningData, RunningSignal}

ServiceInv ==
    /\ ServiceTypeOK
    /\ FreshIn(cache, epoch)
    /\ PermitsOwned
    /\ \A r \in JobRuns : HonestRun(r)

-----------------------------------------------------------------------------
(* States, rows and jobs. *)

LEMMA StateFacts ==
    /\ {Queued, RunningData, RunningSignal, RunningExec, RunningReport, CancelRequested,
        Succeeded, Failed, Cancelled} \subseteq RunStateSet
    /\ Absent \notin RunStateSet
    /\ StageTargets \cap {CancelRequested, Failed, Cancelled, Queued} = {}
    /\ StageTargets \subseteq RunStateSet
    /\ NoRow \in Records /\ NoRow.state = Absent
    /\ ActiveStates \cap {CancelRequested, Succeeded, Failed, Cancelled} = {}
    /\ Cardinality({}) = 0
  <1>1. Cardinality({}) = 0  BY FS_EmptySet
  <1> QED
    BY <1>1 DEF RunStateSet, ActiveStates, RunningStates, TerminalStates, StageTargets, Queued,
       RunningData, RunningSignal, RunningExec, RunningReport, CancelRequested, Succeeded,
       Failed, Cancelled, Absent, NoRow, Records

(* A legal edge into each of the final and cancelling states. *)
LEMMA EdgesInto ==
    ASSUME NEW from, NEW target, AllowedTransition(from, target)
    PROVE  /\ from \in ActiveStates \cup {CancelRequested}
           /\ target \in RunStateSet
           /\ from = CancelRequested => target \in {CancelRequested, Cancelled, Failed}
           /\ target = Cancelled => from = CancelRequested
  BY DEF AllowedTransition, StageEdges, RunStateSet, ActiveStates, RunningStates,
     TerminalStates, Queued, RunningData, RunningSignal, RunningExec, RunningReport,
     CancelRequested, Succeeded, Failed, Cancelled

(* The instance of RunContract has copies of the operators of RunStates. *)
LEMMA SameStore ==
    /\ RunRow!QueuedRow = QueuedRow
    /\ \A from, target : RunRow!AllowedTransition(from, target) = AllowedTransition(from, target)
    /\ \A x, target, progress :
          RunRow!BuildTransition(x, target, progress) = BuildTransition(x, target, progress)
  BY DEF QueuedRow, RunRow!QueuedRow, Queued, RunRow!Queued, BuildTransition,
     RunRow!BuildTransition, AllowedTransition, RunRow!AllowedTransition, StageEdges,
     RunRow!StageEdges, ActiveStates, RunRow!ActiveStates, RunningStates,
     RunRow!RunningStates, RunningData, RunRow!RunningData, RunningSignal,
     RunRow!RunningSignal, RunningExec, RunRow!RunningExec, RunningReport,
     RunRow!RunningReport, CancelRequested, RunRow!CancelRequested, Failed, RunRow!Failed,
     Cancelled, RunRow!Cancelled, Succeeded, RunRow!Succeeded

(* What one write of a row does. *)
LEMMA RowMoved ==
    ASSUME record \in [JobRuns -> Records], NEW r \in JobRuns, NEW target, NEW progress,
           RunRow!MoveRow(r, target, progress)
    PROVE  /\ record' \in [JobRuns -> Records]
           /\ record'[r].state = target
           /\ AllowedTransition(record[r].state, target)
           /\ \A q \in JobRuns \ {r} : record'[q] = record[q]
  <1>1. /\ AllowedTransition(record[r].state, target) /\ progress \in 0..100
        /\ record' = [record EXCEPT ![r] = BuildTransition(record[r], target, progress)]
    BY SameStore DEF RunRow!MoveRow, RunRow!CanBuild
  <1>2. target \in RunStateSet /\ record[r].version + 1 \in Nat
    BY <1>1, EdgesInto DEF Records
  <1>3. /\ BuildTransition(record[r], target, progress) \in Records
        /\ BuildTransition(record[r], target, progress).state = target
    BY <1>1, <1>2 DEF BuildTransition, Records
  <1> QED
    BY <1>1, <1>3

LEMMA RowCreated ==
    ASSUME record \in [JobRuns -> Records], NEW r \in JobRuns, RunRow!CreateRow(r)
    PROVE  /\ record' \in [JobRuns -> Records]
           /\ record'[r].state = Queued /\ record[r].state = Absent
           /\ \A q \in JobRuns \ {r} : record'[q] = record[q]
  <1>1. QueuedRow \in Records /\ QueuedRow.state = Queued
    BY StateFacts DEF QueuedRow, Records
  <1>2. record' = [record EXCEPT ![r] = QueuedRow]
    BY SameStore DEF RunRow!CreateRow
  <1>3. RunRow!Absent = Absent
    BY DEF RunRow!Absent, Absent
  <1>4. record[r].state = Absent
    BY <1>3 DEF RunRow!CreateRow, RunRow!SameFingerprint
  <1> QED
    BY <1>1, <1>2, <1>4

LEMMA JobTyped ==
    ASSUME NEW pc \in JobPcs, NEW target \in RunStateSet, NEW cur \in Records,
           NEW born \in Nat \cup {Unborn}, NEW hit \in BOOLEAN, NEW retries \in 0..MaxRetries
    PROVE  /\ Job(pc, target, cur, born, hit, retries) \in JobSet
           /\ Job(pc, target, cur, born, hit, retries).pc = pc
           /\ Job(pc, target, cur, born, hit, retries).target = target
           /\ Job(pc, target, cur, born, hit, retries).cur = cur
  BY DEF Job, JobSet

LEMMA NoJobTyped ==
    ASSUME NEW pc \in JobPcs
    PROVE  NoJob(pc) \in JobSet /\ NoJob(pc).pc = pc
  <1>1. Queued \in RunStateSet /\ NoRow \in Records /\ Unborn \in Nat \cup {Unborn}
    BY StateFacts
  <1>2. FALSE \in BOOLEAN /\ 0 \in 0..MaxRetries
    BY ServiceBounds
  <1> QED
    BY <1>1, <1>2 DEF NoJob, Job, JobSet

(* A job that goes on keeps what it knows, or forgets it. *)
LEMMA HeldTyped ==
    ASSUME NEW j \in JobSet, NEW pc \in JobPcs, NEW cur \in Records
    PROVE  /\ Held(j, pc, cur) \in JobSet
           /\ Held(j, pc, cur).pc = pc
           /\ Held(j, pc, cur).target = j.target
           /\ Held(j, pc, cur).cur = cur
  <1>1. /\ j.target \in RunStateSet /\ j.born \in Nat \cup {Unborn} /\ j.hit \in BOOLEAN
        /\ j.retries \in 0..MaxRetries
    BY DEF JobSet
  <1> QED
    BY <1>1 DEF Held, Job, JobSet

LEMMA JobAtTyped ==
    ASSUME job \in [JobRuns -> JobSet], NEW r \in JobRuns, NEW pc \in JobPcs, JobAt(r, pc)
    PROVE  \E j \in JobSet : Becomes(r, j) /\ j.pc = pc
  <1>1. NoRow \in Records /\ job[r] \in JobSet
    BY StateFacts
  <1>2. /\ NoJob(pc) \in JobSet /\ NoJob(pc).pc = pc
        /\ Held(job[r], pc, NoRow) \in JobSet /\ Held(job[r], pc, NoRow).pc = pc
    BY <1>1, NoJobTyped, HeldTyped
  <1> QED
    BY <1>2 DEF JobAt

LEMMA EntersTyped ==
    ASSUME job \in [JobRuns -> JobSet], NEW r \in JobRuns, NEW target \in StageTargets,
           Enters(r, target)
    PROVE  \E j \in JobSet : Becomes(r, j) /\ j.pc = "stageRead" /\ j.target = target
  <1> DEFINE kept == IF target \in {RunningData, RunningSignal} THEN job[r] ELSE NoJob("none")
             j == Job("stageRead", target, NoRow, kept.born, kept.hit, kept.retries)
  <1>1. target \in RunStateSet /\ NoRow \in Records /\ "stageRead" \in JobPcs
    BY StateFacts DEF JobPcs
  <1>2. kept \in JobSet
    BY NoJobTyped DEF JobPcs
  <1>3. Becomes(r, j)
    BY DEF Enters
  <1> HIDE DEF kept
  <1>4. /\ kept.born \in Nat \cup {Unborn} /\ kept.hit \in BOOLEAN
        /\ kept.retries \in 0..MaxRetries
    BY <1>2 DEF JobSet
  <1>5. j \in JobSet /\ j.pc = "stageRead" /\ j.target = target
    BY <1>1, <1>4 DEF Job, JobSet
  <1> QED
    BY <1>3, <1>5

LEMMA ReadTyped ==
    ASSUME job \in [JobRuns -> JobSet], record \in [JobRuns -> Records], NEW r \in JobRuns,
           NEW pc \in JobPcs, Read(r, pc)
    PROVE  \E j \in JobSet : Becomes(r, j) /\ j.pc = pc /\ j.target = job[r].target
                             /\ j.cur = record[r]
  <1>1. record[r] \in Records /\ job[r] \in JobSet
    OBVIOUS
  <1>2. /\ Held(job[r], pc, record[r]) \in JobSet /\ Held(job[r], pc, record[r]).pc = pc
        /\ Held(job[r], pc, record[r]).target = job[r].target
        /\ Held(job[r], pc, record[r]).cur = record[r]
    BY <1>1, HeldTyped
  <1> QED
    BY <1>2 DEF Read

-----------------------------------------------------------------------------
(* The preparation cache. *)

(* What is left when some entries go: the others, each once. *)
LEMMA WithoutKeeps ==
    ASSUME NEW entries \in Seq(CacheEntries), NEW dropped \in SUBSET DOMAIN entries
    PROVE  /\ Without(entries, dropped) \in Seq(CacheEntries)
           /\ Len(Without(entries, dropped)) = Len(entries) - Cardinality(dropped)
           /\ Cardinality(dropped) \in Nat
           /\ Cardinality(dropped) = 0 => dropped = {}
           /\ \E from \in [DOMAIN Without(entries, dropped) -> DOMAIN entries \ dropped] :
                 \A m, n \in DOMAIN Without(entries, dropped) :
                    /\ Without(entries, dropped)[n] = entries[from[n]]
                    /\ from[m] = from[n] => m = n
  <1> DEFINE S == DOMAIN entries \ dropped
             size == Cardinality(S)
             keep == [i \in S |-> Cardinality({j \in S : j <= i})]
             from == [n \in 1..size |-> CHOOSE i \in S : keep[i] = n]
  <1>1. /\ DOMAIN entries = 1..Len(entries) /\ Len(entries) \in Nat
        /\ IsFiniteSet(DOMAIN entries) /\ Cardinality(DOMAIN entries) = Len(entries)
    <2>1. DOMAIN entries = 1..Len(entries) /\ Len(entries) \in Nat
      OBVIOUS
    <2>2. /\ IsFiniteSet(1..Len(entries)) /\ Cardinality(1..Len(entries)) = Len(entries)
      <3>1. PICK n \in Nat : n = Len(entries)
        BY <2>1
      <3>2. IsFiniteSet(1..n) /\ Cardinality(1..n) = IF 1 > n THEN 0 ELSE n - 1 + 1
        BY FS_Interval
      <3> QED
        BY <3>1, <3>2
    <2> QED
      BY <2>1, <2>2
  <1>2. /\ IsFiniteSet(dropped) /\ Cardinality(dropped) \in Nat
        /\ Cardinality(dropped) = 0 => dropped = {}
    BY <1>1, FS_Subset, FS_CardinalityType, FS_EmptySet
  <1>3. IsFiniteSet(S) /\ size = Len(entries) - Cardinality(dropped) /\ size \in Nat
    <2>1. (DOMAIN entries) \cap dropped = dropped
      OBVIOUS
    <2>2. IsFiniteSet(S) /\ size = Cardinality(DOMAIN entries) - Cardinality(dropped)
      <3>1. PICK all : all = DOMAIN entries
        OBVIOUS
      <3>2. /\ IsFiniteSet(all \ dropped)
            /\ Cardinality(all \ dropped) = Cardinality(all) - Cardinality(all \cap dropped)
        BY <1>1, <3>1, FS_Difference
      <3> QED
        BY <2>1, <3>1, <3>2
    <2>3. size \in Nat
      BY <2>2, FS_CardinalityType
    <2> QED
      BY <1>1, <2>2, <2>3
  <1>4. S \subseteq Nat
    BY <1>1
  <1>5. \A i \in S : IsFiniteSet({j \in S : j <= i}) /\ Cardinality({j \in S : j <= i}) \in 1..size
    <2> SUFFICES ASSUME NEW i \in S
                 PROVE  /\ IsFiniteSet({j \in S : j <= i})
                        /\ Cardinality({j \in S : j <= i}) \in 1..size
      OBVIOUS
    <2> DEFINE T == {j \in S : j <= i}
    <2>1. T \in SUBSET S /\ i \in T
      BY <1>4
    <2> HIDE DEF T, S
    <2>2. IsFiniteSet(T) /\ Cardinality(T) \in Nat /\ Cardinality(T) <= Cardinality(S)
      BY <1>3, <2>1, FS_Subset, FS_CardinalityType
    <2>3. Cardinality(T) # 0
      BY <2>1, <2>2, FS_EmptySet
    <2> QED
      BY <1>3, <2>2, <2>3 DEF T
  <1>6. \A i, k \in S : keep[i] = keep[k] => i = k
    <2> SUFFICES ASSUME NEW i \in S, NEW k \in S, i < k
                 PROVE  keep[i] # keep[k]
      BY <1>4
    <2> DEFINE T == {j \in S : j <= i}
               U == {j \in S : j <= k}
    <2>1. T \in SUBSET U /\ k \in U /\ k \notin T
      BY <1>4
    <2>2. IsFiniteSet(U) /\ keep[i] = Cardinality(T) /\ keep[k] = Cardinality(U)
      BY <1>5
    <2> HIDE DEF T, U, keep
    <2> QED
      BY <2>1, <2>2, FS_Subset
  <1>7. keep \in Injection(S, 1..size)
    BY <1>5, <1>6 DEF Injection, IsInjective
  <1>8. keep \in Surjection(S, 1..size)
    <2>1. IsFiniteSet(1..size) /\ Cardinality(1..size) = size
      BY <1>3, FS_Interval
    <2> HIDE DEF keep, S
    <2> QED
      BY <1>3, <1>7, <2>1, FS_Injection
  <1>9. \A n \in 1..size : from[n] \in S /\ keep[from[n]] = n
    <2> HIDE DEF keep, S
    <2>1. \A n \in 1..size : \E i \in S : keep[i] = n
      BY <1>8 DEF Surjection
    <2> QED
      BY <2>1
  <1>10. Without(entries, dropped) = [n \in 1..size |-> entries[from[n]]]
    <2>1. \A i \in S : keep[i] = Cardinality({j \in DOMAIN entries \ dropped : j <= i})
      OBVIOUS
    <2>2. \A n : (CHOOSE i \in S : keep[i] = n)
                 = (CHOOSE i \in DOMAIN entries \ dropped :
                      Cardinality({j \in DOMAIN entries \ dropped : j <= i}) = n)
      BY <2>1
    <2> DEFINE pick(n) == CHOOSE i \in DOMAIN entries \ dropped :
                              Cardinality({j \in DOMAIN entries \ dropped : j <= i}) = n
    <2>3. Without(entries, dropped) = [n \in 1..size |-> entries[pick(n)]]
      BY DEF Without
    <2>4. \A n \in 1..size : from[n] = pick(n)
      BY <2>2
    <2> HIDE DEF pick, from, size
    <2> QED
      BY <2>3, <2>4
  <1> HIDE DEF keep, from, size
  <1>11. \A n \in 1..size : entries[from[n]] \in CacheEntries
    BY <1>1, <1>9
  <1> DEFINE w == [n \in 1..size |-> entries[from[n]]]
  <1>12. w \in Seq(CacheEntries) /\ Len(w) = size /\ DOMAIN w = 1..size
    BY <1>3, <1>11
  <1>13. from \in [1..size -> S]
    BY <1>9 DEF from
  <1>14. \A m, n \in 1..size : w[n] = entries[from[n]] /\ (from[m] = from[n] => m = n)
    BY <1>9
  <1> HIDE DEF w, S
  <1>15. Without(entries, dropped) = w
    BY <1>10 DEF w
  <1>16. \E f \in [DOMAIN w -> S] :
            \A m, n \in DOMAIN w : w[n] = entries[f[n]] /\ (f[m] = f[n] => m = n)
    BY <1>12, <1>13, <1>14
  <1>17. Len(w) = Len(entries) - Cardinality(dropped)
    BY <1>3, <1>12
  <1>18. S = DOMAIN entries \ dropped
    BY DEF S
  <1>19. /\ Without(entries, dropped) \in Seq(CacheEntries)
         /\ Len(Without(entries, dropped)) = Len(entries) - Cardinality(dropped)
    BY <1>12, <1>15, <1>17
  <1>20. PICK f \in [DOMAIN w -> S] :
            \A m, n \in DOMAIN w : w[n] = entries[f[n]] /\ (f[m] = f[n] => m = n)
    BY <1>16
  <1>21. /\ f \in [DOMAIN Without(entries, dropped) -> DOMAIN entries \ dropped]
         /\ \A m, n \in DOMAIN Without(entries, dropped) :
               Without(entries, dropped)[n] = entries[f[n]] /\ (f[m] = f[n] => m = n)
    BY <1>15, <1>18, <1>20
  <1> QED
    BY <1>2, <1>19, <1>21

LEMMA FreshWithout ==
    ASSUME NEW entries, NEW e, FreshIn(entries, e), NEW dropped \in SUBSET DOMAIN entries
    PROVE  /\ FreshIn(Without(entries, dropped), e)
           /\ Len(Without(entries, dropped)) <= Len(entries)
           /\ dropped # {} => Len(Without(entries, dropped)) < Len(entries)
           /\ \A n \in DOMAIN Without(entries, dropped) :
                 \E i \in DOMAIN entries \ dropped : Without(entries, dropped)[n] = entries[i]
  <1>1. entries \in Seq(CacheEntries)
    BY DEF FreshIn
  <1>2. PICK w : w = Without(entries, dropped)
    OBVIOUS
  <1>3. PICK gone : gone = Cardinality(dropped)
    OBVIOUS
  <1>4. /\ w \in Seq(CacheEntries)
        /\ Len(w) = Len(entries) - gone
        /\ gone \in Nat
        /\ gone = 0 => dropped = {}
        /\ \E from \in [DOMAIN w -> DOMAIN entries \ dropped] :
              \A m, n \in DOMAIN w : w[n] = entries[from[n]] /\ (from[m] = from[n] => m = n)
    BY <1>1, <1>2, <1>3, WithoutKeeps
  <1>5. PICK from \in [DOMAIN w -> DOMAIN entries \ dropped] :
           \A m, n \in DOMAIN w : w[n] = entries[from[n]] /\ (from[m] = from[n] => m = n)
    BY <1>4
  <1>6. \A n \in DOMAIN w : from[n] \in DOMAIN entries \ dropped
    BY <1>5
  <1>7. FreshIn(w, e)
    <2>1. \A m, n \in DOMAIN w : w[m].born = e /\ (w[m].key = w[n].key => m = n)
      BY <1>5, <1>6 DEF FreshIn
    <2> QED
      BY <1>4, <2>1 DEF FreshIn
  <1>8. Len(w) <= Len(entries) /\ (dropped # {} => Len(w) < Len(entries))
    BY <1>1, <1>4
  <1>9. \A n \in DOMAIN w : \E i \in DOMAIN entries \ dropped : w[n] = entries[i]
    BY <1>5, <1>6
  <1> QED
    BY <1>2, <1>7, <1>8, <1>9

LEMMA FreshAppend ==
    ASSUME NEW entries, NEW e, FreshIn(entries, e), NEW x \in CacheEntries, x.born = e,
           \A i \in DOMAIN entries : entries[i].key # x.key
    PROVE  /\ FreshIn(entries \o <<x>>, e)
           /\ Len(entries \o <<x>>) = Len(entries) + 1
  <1>1. entries \in Seq(CacheEntries) /\ Len(entries) \in Nat /\ DOMAIN entries = 1..Len(entries)
    BY DEF FreshIn
  <1>2. PICK w : w = entries \o <<x>>
    OBVIOUS
  <1>3. /\ w \in Seq(CacheEntries) /\ Len(w) = Len(entries) + 1
        /\ DOMAIN w = 1..Len(entries) + 1
        /\ w[Len(entries) + 1] = x
        /\ \A i \in DOMAIN entries : w[i] = entries[i]
    BY <1>1, <1>2
  <1>4. \A i \in DOMAIN w : i \in DOMAIN entries \/ i = Len(entries) + 1
    BY <1>1, <1>3
  <1>5. \A i, j \in DOMAIN w : w[i].born = e /\ (w[i].key = w[j].key => i = j)
    BY <1>3, <1>4 DEF FreshIn
  <1> QED
    BY <1>2, <1>3, <1>5 DEF FreshIn

LEMMA FreshNewest ==
    ASSUME NEW entries, NEW e, FreshIn(entries, e)
    PROVE  FreshIn(Newest(entries), e) /\ Len(Newest(entries)) <= CacheSize
  <1>1. entries \in Seq(CacheEntries) /\ Len(entries) \in Nat /\ DOMAIN entries = 1..Len(entries)
    BY DEF FreshIn
  <1>2. CASE Len(entries) <= CacheSize
    BY <1>2 DEF Newest
  <1>3. CASE Len(entries) > CacheSize
    <2>1. PICK n \in Nat : n = Len(entries)
      BY <1>1
    <2>2. PICK k \in 1..n : k = n - CacheSize + 1
      <3>1. n - CacheSize + 1 \in 1..n
        BY <1>3, <2>1, ServiceBounds
      <3> QED  BY <3>1
    <2>3. PICK w : w = SubSeq(entries, k, n)
      OBVIOUS
    <2>4. Newest(entries) = w
      BY <1>3, <2>1, <2>2, <2>3, ServiceBounds DEF Newest
    <2>5. /\ w \in Seq(CacheEntries) /\ Len(w) = n - k + 1
          /\ \A i \in 1..Len(w) : w[i] = entries[k + i - 1]
      BY <1>1, <2>1, <2>2, <2>3
    <2>6. DOMAIN w = 1..Len(w) /\ Len(w) = CacheSize
      BY <2>2, <2>5, ServiceBounds
    <2>7. \A i \in DOMAIN w : i \in Nat /\ k + i - 1 \in DOMAIN entries /\ w[i] = entries[k + i - 1]
      <3> SUFFICES ASSUME NEW i \in 1..CacheSize
                   PROVE  i \in Nat /\ k + i - 1 \in 1..n
        BY <1>1, <2>1, <2>5, <2>6
      <3> QED
        BY <2>1, <2>2, <1>1, ServiceBounds
    <2>8. \A i, j \in DOMAIN w : w[i].born = e /\ (w[i].key = w[j].key => i = j)
      <3> SUFFICES ASSUME NEW i \in DOMAIN w, NEW j \in DOMAIN w
                   PROVE  w[i].born = e /\ (w[i].key = w[j].key => i = j)
        OBVIOUS
      <3>1. /\ entries[k + i - 1].born = e
            /\ entries[k + i - 1].key = entries[k + j - 1].key => k + i - 1 = k + j - 1
        BY <2>7 DEF FreshIn
      <3> QED
        BY <2>7, <3>1
    <2> QED
      BY <2>4, <2>5, <2>6, <2>8, ServiceBounds DEF FreshIn
  <1> QED
    BY <1>1, <1>2, <1>3, ServiceBounds

(* The first locked block leaves a cache of the epoch. *)
LEMMA PreparedCache ==
    ASSUME ServiceInv, NEW q \in JobRuns \cup Preflights,
           Refresh(q) \/ \E expired \in SUBSET DOMAIN cache : FindPrepared(q, expired)
    PROVE  FreshIn(cache', epoch') /\ Len(cache') <= CacheSize /\ epoch' \in Nat
  <1>1. FreshIn(cache, epoch) /\ Len(cache) <= CacheSize /\ epoch \in Nat
    BY DEF ServiceInv, ServiceTypeOK
  <1>2. CASE Refresh(q)
    <2>1. cache' = <<>> /\ epoch' = epoch + 1
      BY <1>2 DEF Refresh
    <2>2. FreshIn(<<>>, epoch + 1) /\ Len(<<>>) = 0
      BY DEF FreshIn
    <2> QED
      BY <1>1, <2>1, <2>2, ServiceBounds
  <1>3. ASSUME NEW expired \in SUBSET DOMAIN cache, FindPrepared(q, expired)
        PROVE  FreshIn(cache', epoch') /\ Len(cache') <= CacheSize /\ epoch' \in Nat
    <2>0. epoch' = epoch
      BY <1>3 DEF FindPrepared
    <2>1. CASE Asked(q) \subseteq expired
      <3>1. cache' = Without(cache, expired)
        BY <1>3, <2>1 DEF FindPrepared
      <3>2. PICK w : w = Without(cache, expired)
        OBVIOUS
      <3>3. FreshIn(w, epoch) /\ Len(w) <= Len(cache)
        BY <1>1, <3>2, FreshWithout
      <3>4. Len(w) \in Nat /\ Len(cache) \in Nat
        BY <1>1, <3>3 DEF FreshIn
      <3> QED
        BY <1>1, <2>0, <3>1, <3>2, <3>3, <3>4, ServiceBounds
    <2>2. CASE ~(Asked(q) \subseteq expired)
      <3>1. PICK k : k = CHOOSE i \in Asked(q) : TRUE
        OBVIOUS
      <3>2. k \in Asked(q) /\ k \in DOMAIN cache /\ cache[k].key = DataKey[q]
        BY <2>2, <3>1 DEF Asked
      <3>3. PICK w : w = Without(cache, expired \cup Asked(q))
        OBVIOUS
      <3>4. cache' = w \o <<cache[k]>>
        BY <1>3, <2>2, <3>1, <3>3 DEF FindPrepared
      <3>5. expired \cup Asked(q) \in SUBSET DOMAIN cache /\ expired \cup Asked(q) # {}
        BY <3>2 DEF Asked
      <3>6. /\ FreshIn(w, epoch) /\ Len(w) < Len(cache)
            /\ \A n \in DOMAIN w : \E i \in DOMAIN cache \ (expired \cup Asked(q)) : w[n] = cache[i]
        <4>1. PICK gone \in SUBSET DOMAIN cache : gone = expired \cup Asked(q) /\ gone # {}
          BY <3>5
        <4>2. w = Without(cache, gone)
          BY <3>3, <4>1
        <4>3. /\ FreshIn(w, epoch) /\ Len(w) < Len(cache)
              /\ \A n \in DOMAIN w : \E i \in DOMAIN cache \ gone : w[n] = cache[i]
          <5>1. /\ FreshIn(w, epoch)
                /\ \A n \in DOMAIN w : \E i \in DOMAIN cache \ gone : w[n] = cache[i]
            BY <1>1, <4>2, FreshWithout
          <5>2. Len(w) < Len(cache)
            BY <1>1, <4>1, <4>2, FreshWithout
          <5> QED
            BY <5>1, <5>2
        <4> QED
          BY <4>1, <4>3
      <3>7. \A n \in DOMAIN w : w[n].key # cache[k].key
        BY <3>2, <3>6 DEF Asked
      <3>8. cache[k] \in CacheEntries /\ cache[k].born = epoch
        BY <1>1, <3>2 DEF FreshIn
      <3>9. FreshIn(w \o <<cache[k]>>, epoch) /\ Len(w \o <<cache[k]>>) = Len(w) + 1
        BY <3>6, <3>7, <3>8, FreshAppend
      <3>10. Len(w) \in Nat /\ Len(cache) \in Nat
        BY <1>1, <3>6 DEF FreshIn
      <3> QED
        BY <1>1, <2>0, <3>4, <3>6, <3>9, <3>10, ServiceBounds
    <2> QED
      BY <2>1, <2>2
  <1> QED
    BY <1>2, <1>3

(* So does the last one, whenever the preparation was begun. *)
LEMMA PublishedCache ==
    ASSUME ServiceInv, NEW q \in JobRuns \cup Preflights, NEW born, Publish(q, born)
    PROVE  FreshIn(cache', epoch) /\ Len(cache') <= CacheSize
  <1>1. FreshIn(cache, epoch) /\ Len(cache) <= CacheSize /\ epoch \in Nat
    BY DEF ServiceInv, ServiceTypeOK
  <1>2. CASE born # epoch
    BY <1>1, <1>2 DEF Publish
  <1>3. CASE born = epoch
    <2>1. PICK w : w = Without(cache, Asked(q))
      OBVIOUS
    <2>2. PICK x : x = [key |-> DataKey[q], born |-> born]
      OBVIOUS
    <2>3. cache' = Newest(w \o <<x>>)
      BY <1>3, <2>1, <2>2 DEF Publish
    <2>4. x \in CacheEntries /\ x.born = epoch /\ x.key = DataKey[q]
      BY <1>1, <1>3, <2>2 DEF CacheEntries
    <2>5. Asked(q) \in SUBSET DOMAIN cache
      BY DEF Asked
    <2>6. /\ FreshIn(w, epoch)
          /\ \A n \in DOMAIN w : \E i \in DOMAIN cache \ Asked(q) : w[n] = cache[i]
      BY <1>1, <2>1, <2>5, FreshWithout
    <2>7. \A n \in DOMAIN w : w[n].key # x.key
      BY <2>4, <2>6 DEF Asked
    <2>8. FreshIn(w \o <<x>>, epoch)
      BY <2>4, <2>6, <2>7, FreshAppend
    <2> QED
      BY <2>3, <2>8, FreshNewest
  <1> QED
    BY <1>2, <1>3

-----------------------------------------------------------------------------
(* What the steps of a job have in common. *)

CacheStep == FreshIn(cache', epoch') /\ Len(cache') <= CacheSize /\ epoch' \in Nat

(* The row of run r stays, or moves along an edge no cancel request takes. *)
RowStep(r) ==
    \/ record' = record
    \/ /\ record' \in [JobRuns -> Records]
       /\ \A q \in JobRuns \ {r} : record'[q] = record[q]
       /\ AllowedTransition(record[r].state, record'[r].state)
       /\ record'[r].state # CancelRequested
       /\ record'[r].state = Failed => r \in broken \cup raced

(* History only notes run r. *)
NotedStep(r) ==
    /\ accepted' = accepted
    /\ broken' \in {broken, broken \cup {r}}
    /\ raced' \in {raced, raced \cup {r}}
    /\ stranded' \in {stranded, stranded \cup {r}}

(* What is asked of a job wherever it goes. *)
JobFits(r, j) ==
    /\ j \in JobSet
    /\ j.pc \notin {"none", "done"}
    /\ j.pc \in {"handler", "failing"} => r \in broken' \cup raced'
    /\ j.pc \in {"stageRead", "stageWrite"} => j.target \in StageTargets
    /\ j.pc = "label" => j.cur.state \in {RunningData, RunningSignal}

LEMMA TypesOfInv ==
    ASSUME ServiceInv
    PROVE  /\ record \in [JobRuns -> Records] /\ job \in [JobRuns -> JobSet]
           /\ epoch \in Nat
           /\ FreshIn(cache, epoch) /\ Len(cache) <= CacheSize
           /\ \A r \in JobRuns : HonestRun(r)
  BY DEF ServiceInv, ServiceTypeOK, JobSet

LEMMA CacheKept == ASSUME ServiceInv, UNCHANGED <<cache, epoch>> PROVE CacheStep
  BY TypesOfInv DEF CacheStep

LEMMA CacheTyped ==
    ASSUME CacheStep
    PROVE  \A i \in DOMAIN cache' : cache'[i].born \in Nat
  BY DEF CacheStep, FreshIn

(* A run that took no part in the step. *)
LEMMA OtherHonest ==
    ASSUME NEW q \in JobRuns, HonestRun(q), record'[q] = record[q], job'[q] = job[q],
           submission'[q] = submission[q], q \in accepted' <=> q \in accepted,
           broken \subseteq broken', raced \subseteq raced'
    PROVE  HonestRun(q)'
  BY DEF HonestRun

LEMMA JobKept ==
    ASSUME ServiceInv, NEW r \in JobRuns, NEW j, Becomes(r, j), JobFits(r, j),
           job[r].pc \notin {"none", "done"},
           UNCHANGED <<submission, permits, closed, preflight>>,
           CacheStep, RowStep(r), NotedStep(r)
    PROVE  ServiceInv'
  <1>1. /\ record \in [JobRuns -> Records] /\ job \in [JobRuns -> JobSet]
        /\ \A q \in JobRuns : HonestRun(q)
    BY TypesOfInv
  <1>2. /\ job' \in [JobRuns -> JobSet] /\ job'[r] = j
        /\ \A q \in JobRuns \ {r} : job'[q] = job[q]
    BY <1>1 DEF Becomes, JobFits
  <1>3. /\ record' \in [JobRuns -> Records]
        /\ \A q \in JobRuns \ {r} : record'[q] = record[q]
    BY <1>1 DEF RowStep
  <1>4. {accepted, broken, raced, stranded} \subseteq SUBSET JobRuns
    BY DEF ServiceInv, ServiceTypeOK
  <1>5. /\ broken \subseteq broken' /\ raced \subseteq raced' /\ accepted' = accepted
        /\ {accepted', broken', raced', stranded'} \subseteq SUBSET JobRuns
    BY <1>4 DEF NotedStep
  <1>6. ServiceTypeOK'
    <2>1. cache' = cache' /\ Len(cache') <= CacheSize /\ epoch' \in Nat
      BY DEF CacheStep
    <2> QED
      BY <1>2, <1>3, <1>5, <2>1, CacheTyped DEF ServiceInv, ServiceTypeOK, JobSet
  <1>7. PermitsOwned'
    <2>1. Holders' = Holders
      BY <1>2 DEF Holders, JobFits
    <2> QED
      BY <2>1 DEF PermitsOwned, ServiceInv
  <1>8. \A q \in JobRuns \ {r} : HonestRun(q)'
    BY <1>1, <1>2, <1>3, <1>5, OtherHonest
  <1>9. HonestRun(r)'
    <2>1. HonestRun(r) /\ submission' = submission /\ submission[r] = "done"
      BY <1>1 DEF HonestRun
    <2>2. /\ job'[r].pc \in {"handler", "failing"} => r \in broken' \cup raced'
          /\ job'[r].pc \in {"stageRead", "stageWrite"} => job'[r].target \in StageTargets
          /\ job'[r].pc = "label" => job'[r].cur.state \in {RunningData, RunningSignal}
      BY <1>2 DEF JobFits
    <2>3. /\ r \in accepted' => record'[r].state \in {CancelRequested, Cancelled, Failed}
          /\ record'[r].state \in {CancelRequested, Cancelled} => r \in accepted'
          /\ record'[r].state = Failed => r \in broken' \cup raced'
      <3>1. CASE record' = record
        BY <1>5, <2>1, <3>1 DEF HonestRun
      <3>2. CASE /\ AllowedTransition(record[r].state, record'[r].state)
                 /\ record'[r].state # CancelRequested
                 /\ record'[r].state = Failed => r \in broken \cup raced
        <4>1. /\ record[r].state \in ActiveStates \cup {CancelRequested}
              /\ record[r].state = CancelRequested
                   => record'[r].state \in {CancelRequested, Cancelled, Failed}
              /\ record'[r].state = Cancelled => record[r].state = CancelRequested
          BY <3>2, EdgesInto
        <4>2. r \in accepted => record[r].state = CancelRequested
          BY <2>1, <4>1, StateFacts DEF HonestRun, Cancelled, CancelRequested
        <4> QED
          BY <1>5, <2>1, <3>2, <4>1, <4>2 DEF HonestRun
      <3> QED
        BY <3>1, <3>2 DEF RowStep
    <2> QED
      BY <2>1, <2>2, <2>3 DEF HonestRun
  <1> QED
    BY <1>6, <1>7, <1>8, <1>9 DEF ServiceInv, CacheStep

(* Places where a job asks nothing of its fields. *)
PlainPcs == JobPcs \ {"none", "done", "stageRead", "stageWrite", "label", "handler", "failing"}

LEMMA JobAtFits ==
    ASSUME ServiceInv, NEW r \in JobRuns, NEW pc \in PlainPcs \cup {"handler"}, JobAt(r, pc),
           pc = "handler" => r \in broken' \cup raced'
    PROVE  \E j : Becomes(r, j) /\ JobFits(r, j)
  <1>1. job \in [JobRuns -> JobSet]
    BY TypesOfInv
  <1>2. pc \in JobPcs
    BY DEF PlainPcs, JobPcs
  <1>3. PICK j \in JobSet : Becomes(r, j) /\ j.pc = pc
    BY <1>1, <1>2, JobAtTyped
  <1>4. JobFits(r, j)
    BY <1>3 DEF JobFits, PlainPcs
  <1> QED
    BY <1>3, <1>4

LEMMA EntersFits ==
    ASSUME ServiceInv, NEW r \in JobRuns, NEW target \in StageTargets, Enters(r, target)
    PROVE  \E j : Becomes(r, j) /\ JobFits(r, j)
  <1>1. job \in [JobRuns -> JobSet]
    BY TypesOfInv
  <1>2. PICK j \in JobSet : Becomes(r, j) /\ j.pc = "stageRead" /\ j.target = target
    BY <1>1, EntersTyped
  <1>3. JobFits(r, j)
    BY <1>2 DEF JobFits
  <1> QED
    BY <1>2, <1>3

LEMMA ReadFits ==
    ASSUME ServiceInv, NEW r \in JobRuns, NEW pc \in {"stageWrite", "failing"}, Read(r, pc),
           pc = "stageWrite" => job[r].pc = "stageRead",
           pc = "failing" => job[r].pc = "handler",
           UNCHANGED <<broken, raced>>
    PROVE  \E j : Becomes(r, j) /\ JobFits(r, j)
  <1>1. job \in [JobRuns -> JobSet] /\ record \in [JobRuns -> Records] /\ HonestRun(r)
    BY TypesOfInv
  <1>2. PICK j \in JobSet : /\ Becomes(r, j) /\ j.pc = pc /\ j.target = job[r].target
                            /\ j.cur = record[r]
    BY <1>1, ReadTyped DEF JobPcs
  <1>3. JobFits(r, j)
    BY <1>1, <1>2 DEF JobFits, HonestRun
  <1> QED
    BY <1>2, <1>3

(* A move to one of these is one a job makes. *)
LEMMA JobMovesRow ==
    ASSUME ServiceInv, NEW r \in JobRuns, NEW target, NEW progress,
           RunRow!MoveRow(r, target, progress), target # CancelRequested,
           target = Failed => r \in broken \cup raced
    PROVE  RowStep(r)
  BY RowMoved, TypesOfInv DEF RowStep

LEMMA StageTargetFacts ==
    /\ {RunningData, RunningSignal, RunningExec, RunningReport, Succeeded} \subseteq StageTargets
    /\ \A target \in StageTargets : target # CancelRequested /\ target # Failed
    /\ Failed # CancelRequested /\ Cancelled # CancelRequested /\ Failed # Cancelled
    /\ RunningData # CancelRequested /\ RunningSignal # CancelRequested
    /\ RunningData # Failed /\ RunningSignal # Failed
  BY DEF StageTargets, RunningStates, RunningData, RunningSignal, RunningExec, RunningReport,
     Succeeded, CancelRequested, Failed, Cancelled

LEMMA StartJobStep == ASSUME ServiceInv, NEW r \in JobRuns, StartJob(r) PROVE ServiceInv'
  <1>1. /\ job[r].pc \notin {"none", "done"} /\ RowStep(r) /\ NotedStep(r)
        /\ UNCHANGED <<submission, permits, closed, preflight, cache, epoch>>
    BY DEF StartJob, RowStep, NotedStep, JobAndRow
  <1>2. CacheStep
    BY <1>1, CacheKept
  <1>3. \E j : Becomes(r, j) /\ JobFits(r, j)
    <2>1. CASE JobAt(r, "ended")
      BY <2>1, JobAtFits DEF PlainPcs, JobPcs
    <2>2. CASE Enters(r, RunningData)
      BY <2>2, EntersFits, StageTargetFacts
    <2>3. CASE JobAt(r, "handler") /\ broken' = broken \cup {r}
      BY <2>3, JobAtFits
    <2> QED
      BY <2>1, <2>2, <2>3 DEF StartJob
  <1> QED
    BY <1>1, <1>2, <1>3, JobKept

LEMMA ReadStageStep == ASSUME ServiceInv, NEW r \in JobRuns, ReadStage(r) PROVE ServiceInv'
  <1>1. /\ job[r].pc = "stageRead" /\ RowStep(r) /\ NotedStep(r)
        /\ UNCHANGED <<submission, permits, closed, preflight, cache, epoch, broken, raced>>
    BY DEF ReadStage, RowStep, NotedStep, JobOnly, ServiceHistory
  <1>2. CacheStep
    BY <1>1, CacheKept
  <1>3. \E j : Becomes(r, j) /\ JobFits(r, j)
    <2>1. CASE JobAt(r, "cancelling")
      BY <2>1, JobAtFits DEF PlainPcs, JobPcs
    <2>2. CASE Read(r, "stageWrite")
      BY <1>1, <2>2, ReadFits
    <2> QED
      BY <2>1, <2>2 DEF ReadStage
  <1> QED
    BY <1>1, <1>2, <1>3, JobKept

LEMMA WriteStageStep == ASSUME ServiceInv, NEW r \in JobRuns, WriteStage(r) PROVE ServiceInv'
  <1>1. /\ job[r].pc = "stageWrite" /\ NotedStep(r)
        /\ UNCHANGED <<submission, permits, closed, preflight, cache, epoch>>
    BY DEF WriteStage, NotedStep, JobAndRow
  <1>2. CacheStep
    BY <1>1, CacheKept
  <1>3. job[r].target \in StageTargets
    BY <1>1, TypesOfInv DEF HonestRun
  <1>4. CASE RunRow!MoveRow(r, job[r].target, StageProgress(job[r].target)) /\ AfterStage(r)
    <2>1. RowStep(r)
      BY <1>3, <1>4, JobMovesRow, StageTargetFacts
    <2>2. \E j : Becomes(r, j) /\ JobFits(r, j)
      <3>1. ASSUME NEW pc \in {"prepare", "load", "signals", "simulate", "report", "ended"},
                   JobAt(r, pc)
            PROVE  \E j : Becomes(r, j) /\ JobFits(r, j)
        <4>1. pc \in PlainPcs /\ pc # "handler"
          BY DEF PlainPcs, JobPcs
        <4> QED
          BY <3>1, <4>1, JobAtFits
      <3>2. CASE Enters(r, RunningExec)
        BY <3>2, EntersFits, StageTargetFacts
      <3> QED
        BY <1>4, <3>1, <3>2 DEF AfterStage
    <2> QED
      BY <1>1, <1>2, <2>1, <2>2, JobKept
  <1>5. CASE raced' = raced \cup {r} /\ JobAt(r, "handler") /\ UNCHANGED record
    <2>1. RowStep(r)
      BY <1>5 DEF RowStep
    <2>2. \E j : Becomes(r, j) /\ JobFits(r, j)
      BY <1>5, JobAtFits
    <2> QED
      BY <1>1, <1>2, <2>1, <2>2, JobKept
  <1> QED
    BY <1>4, <1>5 DEF WriteStage

LEMMA AskingFits ==
    ASSUME ServiceInv, NEW r \in JobRuns, NEW born \in Nat, Becomes(r, Asking(job[r], born))
    PROVE  \E j : Becomes(r, j) /\ JobFits(r, j)
  <1>1. job[r] \in JobSet
    BY TypesOfInv
  <1>2. /\ job[r].target \in RunStateSet /\ job[r].hit \in BOOLEAN
        /\ job[r].retries \in 0..MaxRetries /\ NoRow \in Records
    BY <1>1, StateFacts DEF JobSet
  <1>3. Asking(job[r], born) \in JobSet /\ Asking(job[r], born).pc = "load"
    BY <1>2 DEF Asking, Job, JobSet, JobPcs
  <1> QED
    BY <1>3 DEF JobFits

LEMMA PrepareStep == ASSUME ServiceInv, NEW r \in JobRuns, Prepare(r) PROVE ServiceInv'
  <1>1. /\ job[r].pc = "prepare" /\ RowStep(r) /\ NotedStep(r)
        /\ UNCHANGED <<submission, permits, closed, preflight>>
    BY DEF Prepare, RowStep, NotedStep, ServiceHistory
  <1>2. CacheStep
    BY PreparedCache DEF Prepare, CacheStep
  <1>3. \E j : Becomes(r, j) /\ JobFits(r, j)
    <2>1. epoch \in Nat /\ epoch + 1 \in Nat
      BY TypesOfInv
    <2>2. CASE Becomes(r, Job("stageRead", RunningSignal, NoRow, Unborn, TRUE, job[r].retries))
      <3> DEFINE j == Job("stageRead", RunningSignal, NoRow, Unborn, TRUE, job[r].retries)
      <3>1. job[r].retries \in 0..MaxRetries
        BY TypesOfInv DEF JobSet
      <3>2. j \in JobSet /\ j.pc = "stageRead" /\ j.target = RunningSignal
        BY <3>1, StateFacts DEF Job, JobSet, JobPcs
      <3>3. JobFits(r, j)
        BY <3>2, StageTargetFacts DEF JobFits
      <3> QED
        BY <2>2, <3>3
    <2>3. CASE Becomes(r, Asking(job[r], epoch)) \/ Becomes(r, Asking(job[r], epoch + 1))
      BY <2>1, <2>3, AskingFits
    <2> QED
      BY <2>2, <2>3 DEF Prepare
  <1> QED
    BY <1>1, <1>2, <1>3, JobKept

LEMMA WorkDoneStep == ASSUME ServiceInv, NEW r \in JobRuns, WorkDone(r) PROVE ServiceInv'
  <1>1. /\ job[r].pc \notin {"none", "done"} /\ RowStep(r) /\ NotedStep(r)
        /\ UNCHANGED <<submission, permits, closed, preflight, cache, epoch>>
    BY DEF WorkDone, RowStep, NotedStep, JobOnly, ServiceHistory
  <1>2. CacheStep
    BY <1>1, CacheKept
  <1>3. \E j : Becomes(r, j) /\ JobFits(r, j)
    <2>1. ASSUME NEW target \in {RunningSignal, RunningReport, Succeeded}, Enters(r, target)
          PROVE  \E j : Becomes(r, j) /\ JobFits(r, j)
      BY <2>1, EntersFits, StageTargetFacts
    <2>2. CASE JobAt(r, "check")
      BY <2>2, JobAtFits DEF PlainPcs, JobPcs
    <2> QED
      BY <2>1, <2>2 DEF WorkDone
  <1> QED
    BY <1>1, <1>2, <1>3, JobKept

LEMMA WorkRaisesStep == ASSUME ServiceInv, NEW r \in JobRuns, WorkRaises(r) PROVE ServiceInv'
  <1>1. /\ job[r].pc \notin {"none", "done"} /\ RowStep(r) /\ NotedStep(r)
        /\ broken' = broken \cup {r}
        /\ UNCHANGED <<submission, permits, closed, preflight, cache, epoch>>
    BY DEF WorkRaises, RowStep, NotedStep, JobAndRow, Breaks
  <1>2. CacheStep
    BY <1>1, CacheKept
  <1>3. \E j : Becomes(r, j) /\ JobFits(r, j)
    BY <1>1, JobAtFits DEF WorkRaises
  <1> QED
    BY <1>1, <1>2, <1>3, JobKept

LEMMA LoadAgainStep == ASSUME ServiceInv, NEW r \in JobRuns, LoadAgain(r) PROVE ServiceInv'
  <1>1. /\ job[r].pc = "load" /\ RowStep(r) /\ NotedStep(r)
        /\ UNCHANGED <<submission, permits, closed, preflight, cache, epoch>>
    BY DEF LoadAgain, RowStep, NotedStep, JobOnly, ServiceHistory
  <1>2. CacheStep
    BY <1>1, CacheKept
  <1> DEFINE j == Job("stageRead", RunningData, NoRow, job[r].born, job[r].hit, job[r].retries + 1)
  <1>3. /\ job[r].born \in Nat \cup {Unborn} /\ job[r].hit \in BOOLEAN
        /\ job[r].retries \in 0..MaxRetries /\ job[r].retries < MaxRetries
    BY TypesOfInv DEF LoadAgain, JobSet
  <1>4. job[r].retries + 1 \in 0..MaxRetries
    BY <1>3, ServiceBounds
  <1>5. j \in JobSet /\ j.pc = "stageRead" /\ j.target = RunningData
    BY <1>3, <1>4, StateFacts DEF Job, JobSet, JobPcs
  <1>6. Becomes(r, j) /\ JobFits(r, j)
    BY <1>5, StageTargetFacts DEF JobFits, LoadAgain
  <1> QED
    BY <1>1, <1>2, <1>6, JobKept

LEMMA ReadLabelStep == ASSUME ServiceInv, NEW r \in JobRuns, ReadLabel(r) PROVE ServiceInv'
  <1>1. /\ job[r].pc \notin {"none", "done"} /\ RowStep(r) /\ NotedStep(r)
        /\ UNCHANGED <<submission, permits, closed, preflight, cache, epoch>>
    BY DEF ReadLabel, RowStep, NotedStep, JobOnly, ServiceHistory
  <1>2. CacheStep
    BY <1>1, CacheKept
  <1> DEFINE j == Job("label", record[r].state, record[r], job[r].born, job[r].hit,
                      job[r].retries + 1)
  <1>3. CASE JobAt(r, "cancelling")
    <2>1. \E i : Becomes(r, i) /\ JobFits(r, i)
      BY <1>3, JobAtFits DEF PlainPcs, JobPcs
    <2> QED
      BY <1>1, <1>2, <2>1, JobKept
  <1>4. CASE Becomes(r, j) /\ record[r].state \in {RunningData, RunningSignal}
    <2>1. /\ job[r].born \in Nat \cup {Unborn} /\ job[r].hit \in BOOLEAN
          /\ job[r].retries \in 0..MaxRetries /\ job[r].retries < MaxRetries
          /\ record[r] \in Records
      BY TypesOfInv DEF ReadLabel, JobSet
    <2>2. job[r].retries + 1 \in 0..MaxRetries
      BY <2>1, ServiceBounds
    <2>3. record[r].state \in RunStateSet
      BY <1>4, StateFacts
    <2>4. j \in JobSet /\ j.pc = "label" /\ j.cur = record[r]
      BY <2>1, <2>2, <2>3 DEF Job, JobSet, JobPcs
    <2>5. JobFits(r, j)
      BY <1>4, <2>4 DEF JobFits
    <2> QED
      BY <1>1, <1>2, <1>4, <2>5, JobKept
  <1> QED
    BY <1>3, <1>4 DEF ReadLabel

LEMMA WriteLabelStep == ASSUME ServiceInv, NEW r \in JobRuns, WriteLabel(r) PROVE ServiceInv'
  <1>1. /\ job[r].pc = "label" /\ NotedStep(r)
        /\ UNCHANGED <<submission, permits, closed, preflight, cache, epoch>>
    BY DEF WriteLabel, NotedStep, JobAndRow, ServiceHistory
  <1>2. CacheStep
    BY <1>1, CacheKept
  <1>3. job[r].cur.state \in {RunningData, RunningSignal}
    BY <1>1, TypesOfInv DEF HonestRun
  <1>4. RowStep(r)
    <2>1. CASE UNCHANGED record
      BY <2>1 DEF RowStep
    <2>2. CASE RunRow!MoveRow(r, job[r].cur.state, record[r].progress)
      BY <1>3, <2>2, JobMovesRow, StageTargetFacts
    <2> QED
      BY <2>1, <2>2 DEF WriteLabel
  <1>5. \E j : Becomes(r, j) /\ JobFits(r, j)
    <2>1. ASSUME NEW pc \in {"load", "signals", "cancelling"}, JobAt(r, pc)
          PROVE  \E j : Becomes(r, j) /\ JobFits(r, j)
      <3>1. pc \in PlainPcs /\ pc # "handler"
        BY DEF PlainPcs, JobPcs
      <3> QED
        BY <2>1, <3>1, JobAtFits
    <2> QED
      BY <2>1 DEF WriteLabel
  <1> QED
    BY <1>1, <1>2, <1>4, <1>5, JobKept

LEMMA CheckCancelledStep ==
    ASSUME ServiceInv, NEW r \in JobRuns, CheckCancelled(r) PROVE ServiceInv'
  <1>1. /\ job[r].pc = "check" /\ RowStep(r) /\ NotedStep(r)
        /\ UNCHANGED <<submission, permits, closed, preflight, cache, epoch>>
    BY DEF CheckCancelled, RowStep, NotedStep, JobOnly, ServiceHistory
  <1>2. CacheStep
    BY <1>1, CacheKept
  <1>3. \E j : Becomes(r, j) /\ JobFits(r, j)
    <2>1. JobAt(r, "cancelling") \/ JobAt(r, "publish")
      BY DEF CheckCancelled
    <2> QED
      BY <2>1, JobAtFits DEF PlainPcs, JobPcs
  <1> QED
    BY <1>1, <1>2, <1>3, JobKept

LEMMA PublishStep == ASSUME ServiceInv, NEW r \in JobRuns, PublishPrepared(r) PROVE ServiceInv'
  <1>1. /\ job[r].pc = "publish" /\ RowStep(r) /\ NotedStep(r)
        /\ UNCHANGED <<submission, permits, closed, preflight, epoch>>
    BY DEF PublishPrepared, RowStep, NotedStep, ServiceHistory
  <1>2. CacheStep
    BY <1>1, PublishedCache, TypesOfInv DEF PublishPrepared, CacheStep
  <1>3. \E j : Becomes(r, j) /\ JobFits(r, j)
    BY EntersFits, StageTargetFacts DEF PublishPrepared
  <1> QED
    BY <1>1, <1>2, <1>3, JobKept

LEMMA AcknowledgeStep == ASSUME ServiceInv, NEW r \in JobRuns, AcknowledgeCancel(r) PROVE ServiceInv'
  <1>1. /\ job[r].pc = "cancelling" /\ NotedStep(r)
        /\ UNCHANGED <<submission, permits, closed, preflight, cache, epoch>>
    BY DEF AcknowledgeCancel, NotedStep, JobAndRow, ServiceHistory
  <1>2. CacheStep
    BY <1>1, CacheKept
  <1>3. RowStep(r)
    BY JobMovesRow, StageTargetFacts DEF AcknowledgeCancel
  <1>4. \E j : Becomes(r, j) /\ JobFits(r, j)
    BY JobAtFits DEF AcknowledgeCancel, PlainPcs, JobPcs
  <1> QED
    BY <1>1, <1>2, <1>3, <1>4, JobKept

LEMMA ReadFailingStep == ASSUME ServiceInv, NEW r \in JobRuns, ReadFailing(r) PROVE ServiceInv'
  <1>1. /\ job[r].pc = "handler" /\ RowStep(r) /\ NotedStep(r)
        /\ UNCHANGED <<submission, permits, closed, preflight, cache, epoch, broken, raced>>
    BY DEF ReadFailing, RowStep, NotedStep, JobOnly, ServiceHistory
  <1>2. CacheStep
    BY <1>1, CacheKept
  <1>3. \E j : Becomes(r, j) /\ JobFits(r, j)
    <2>1. CASE JobAt(r, "ended")
      BY <2>1, JobAtFits DEF PlainPcs, JobPcs
    <2>2. CASE Read(r, "failing")
      BY <1>1, <2>2, ReadFits
    <2> QED
      BY <2>1, <2>2 DEF ReadFailing
  <1> QED
    BY <1>1, <1>2, <1>3, JobKept

LEMMA WriteFailedStep == ASSUME ServiceInv, NEW r \in JobRuns, WriteFailed(r) PROVE ServiceInv'
  <1>1. /\ job[r].pc = "failing" /\ NotedStep(r)
        /\ UNCHANGED <<submission, permits, closed, preflight, cache, epoch>>
    BY DEF WriteFailed, NotedStep, JobAndRow, Strands
  <1>2. CacheStep
    BY <1>1, CacheKept
  <1>3. r \in broken \cup raced
    BY <1>1, TypesOfInv DEF HonestRun
  <1>4. RowStep(r)
    <2>1. CASE UNCHANGED record
      BY <2>1 DEF RowStep
    <2>2. CASE RunRow!MoveRow(r, Failed, record[r].progress)
      BY <1>3, <2>2, JobMovesRow, StageTargetFacts
    <2> QED
      BY <2>1, <2>2 DEF WriteFailed, Strands
  <1>5. \E j : Becomes(r, j) /\ JobFits(r, j)
    BY JobAtFits DEF WriteFailed, PlainPcs, JobPcs
  <1> QED
    BY <1>1, <1>2, <1>4, <1>5, JobKept

-----------------------------------------------------------------------------
(* Submissions, the queue and the clients. *)

(* A step about run r that leaves the cache alone. *)
LEMMA RunStep ==
    ASSUME ServiceInv, NEW r \in JobRuns, UNCHANGED <<cache, epoch, preflight>>,
           record' \in [JobRuns -> Records], job' \in [JobRuns -> JobSet],
           submission' \in [JobRuns -> {"new", "enqueue", "acquired", "refused", "done"}],
           permits' \in 0..Capacity, closed' \in BOOLEAN,
           \A q \in JobRuns \ {r} : /\ record'[q] = record[q] /\ job'[q] = job[q]
                                    /\ submission'[q] = submission[q],
           accepted' \in {accepted, accepted \cup {r}},
           broken' \in {broken, broken \cup {r}},
           raced' \in {raced, raced \cup {r}},
           stranded' \in {stranded, stranded \cup {r}},
           HonestRun(r)', PermitsOwned'
    PROVE  ServiceInv'
  <1>1. {accepted, broken, raced, stranded} \subseteq SUBSET JobRuns
    BY DEF ServiceInv, ServiceTypeOK
  <1>2. {accepted', broken', raced', stranded'} \subseteq SUBSET JobRuns
    BY <1>1
  <1>3. ServiceTypeOK'
    BY <1>2 DEF ServiceInv, ServiceTypeOK, JobSet
  <1>4. \A q \in JobRuns \ {r} : HonestRun(q)'
    BY OtherHonest, TypesOfInv
  <1> QED
    BY <1>3, <1>4 DEF ServiceInv

(* The permits as runs come into the queue's hands and leave them. *)
LEMMA HoldersChange ==
    ASSUME ServiceInv, NEW r \in JobRuns,
           \A q \in JobRuns \ {r} : job'[q] = job[q] /\ submission'[q] = submission[q]
    PROVE  LET holds == submission[r] = "acquired" \/ job[r].pc \notin {"none", "done"}
               will == submission'[r] = "acquired" \/ job'[r].pc \notin {"none", "done"} IN
           /\ permits \in Nat
           /\ (holds <=> will) /\ permits' = permits => PermitsOwned'
           /\ ~holds /\ will /\ permits' = permits + 1 => PermitsOwned'
           /\ holds /\ ~will /\ permits' = permits - 1 => PermitsOwned' /\ permits > 0
  <1> DEFINE holds == submission[r] = "acquired" \/ job[r].pc \notin {"none", "done"}
             will == submission'[r] = "acquired" \/ job'[r].pc \notin {"none", "done"}
  <1>1. PICK H : H = Holders
    OBVIOUS
  <1>2. IsFiniteSet(H) /\ permits = Cardinality(H) /\ permits \in Nat
    BY <1>1, FS_CardinalityType DEF ServiceInv, PermitsOwned
  <1>3. r \in H <=> holds
    BY <1>1 DEF Holders
  <1>4. Holders' = IF will THEN H \cup {r} ELSE H \ {r}
    BY <1>1 DEF Holders
  <1> HIDE DEF holds, will
  <1>5. CASE holds <=> will
    <2>1. Holders' = H
      BY <1>3, <1>4, <1>5
    <2> QED
      BY <1>2, <1>5, <2>1 DEF PermitsOwned, holds, will
  <1>6. CASE ~holds /\ will
    <2>1. Holders' = H \cup {r} /\ r \notin H
      BY <1>3, <1>4, <1>6
    <2>2. IsFiniteSet(H \cup {r}) /\ Cardinality(H \cup {r}) = permits + 1
      BY <1>2, <2>1, FS_AddElement
    <2>3. permits' = permits + 1 => PermitsOwned'
      BY <2>1, <2>2 DEF PermitsOwned
    <2> QED
      BY <1>2, <1>6, <2>3 DEF holds, will
  <1>7. CASE holds /\ ~will
    <2>1. Holders' = H \ {r} /\ r \in H
      BY <1>3, <1>4, <1>7
    <2>2. IsFiniteSet(H \ {r}) /\ Cardinality(H \ {r}) = permits - 1
      BY <1>2, <2>1, FS_RemoveElement
    <2>3. permits' = permits - 1 => PermitsOwned'
      BY <2>1, <2>2 DEF PermitsOwned
    <2>4. permits > 0
      <3>1. Cardinality(H \ {r}) \in Nat
        BY <2>2, FS_CardinalityType
      <3> QED
        BY <1>2, <2>2, <3>1
    <2> QED
      BY <1>2, <1>7, <2>3, <2>4 DEF holds, will
  <1> QED
    BY <1>5, <1>6, <1>7

LEMMA RunFacts ==
    ASSUME ServiceInv, NEW r \in JobRuns
    PROVE  /\ record \in [JobRuns -> Records] /\ job \in [JobRuns -> JobSet]
           /\ submission \in [JobRuns -> {"new", "enqueue", "acquired", "refused", "done"}]
           /\ permits \in 0..Capacity /\ closed \in BOOLEAN /\ HonestRun(r)
  BY TypesOfInv DEF ServiceInv, ServiceTypeOK

LEMMA SubmitRunStep == ASSUME ServiceInv, NEW r \in JobRuns, SubmitRun(r) PROVE ServiceInv'
  <1>1. /\ record' \in [JobRuns -> Records] /\ record'[r].state = Queued
        /\ record[r].state = Absent
        /\ \A q \in JobRuns \ {r} : record'[q] = record[q]
    BY RunFacts, RowCreated DEF SubmitRun
  <1>2. /\ submission' = [submission EXCEPT ![r] = "enqueue"] /\ submission[r] = "new"
        /\ UNCHANGED <<job, permits, closed, cache, epoch, preflight, ServiceHistory>>
    BY DEF SubmitRun, SubmissionAt
  <1>3. /\ submission' \in [JobRuns -> {"new", "enqueue", "acquired", "refused", "done"}]
        /\ submission'[r] = "enqueue"
        /\ \A q \in JobRuns \ {r} : submission'[q] = submission[q]
    BY <1>2, RunFacts
  <1>4. HonestRun(r)'
    <2>1. r \notin accepted
      BY <1>1, RunFacts, StateFacts DEF HonestRun
    <2>2. record'[r].state \notin {CancelRequested, Cancelled, Failed}
      BY <1>1, StateFacts DEF Queued, CancelRequested, Cancelled, Failed
    <2> QED
      BY <1>2, <1>3, <2>1, <2>2, RunFacts DEF HonestRun, ServiceHistory
  <1>5. PermitsOwned'
    BY <1>2, <1>3, HoldersChange
  <1> QED
    BY <1>1, <1>2, <1>3, <1>4, <1>5, RunFacts, RunStep DEF ServiceHistory

LEMMA AcquireStep == ASSUME ServiceInv, NEW r \in JobRuns, AcquirePermit(r) PROVE ServiceInv'
  <1>1. /\ submission[r] = "enqueue" /\ job[r].pc = "none"
        /\ UNCHANGED <<record, job, closed, cache, epoch, preflight, accepted, raced, stranded>>
    BY RunFacts DEF AcquirePermit, HonestRun, ServiceHistory, Breaks
  <1>2. CASE /\ permits < Capacity /\ permits' = permits + 1
             /\ SubmissionAt(r, "acquired") /\ UNCHANGED broken
    <2>1. /\ submission' \in [JobRuns -> {"new", "enqueue", "acquired", "refused", "done"}]
          /\ submission'[r] = "acquired"
          /\ \A q \in JobRuns \ {r} : submission'[q] = submission[q]
      BY <1>2, RunFacts DEF SubmissionAt
    <2>2. HonestRun(r)'
      BY <1>1, <1>2, <2>1, RunFacts DEF HonestRun
    <2>3. PermitsOwned'
      BY <1>1, <1>2, <2>1, HoldersChange
    <2>4. permits' \in 0..Capacity
      BY <1>2, RunFacts, ServiceBounds
    <2> QED
      BY <1>1, <1>2, <2>1, <2>2, <2>3, <2>4, RunFacts, RunStep
  <1>3. CASE SubmissionAt(r, "refused") /\ broken' = broken \cup {r} /\ UNCHANGED permits
    <2>1. /\ submission' \in [JobRuns -> {"new", "enqueue", "acquired", "refused", "done"}]
          /\ submission'[r] = "refused"
          /\ \A q \in JobRuns \ {r} : submission'[q] = submission[q]
      BY <1>3, RunFacts DEF SubmissionAt
    <2>2. HonestRun(r)'
      BY <1>1, <1>3, <2>1, RunFacts DEF HonestRun
    <2>3. PermitsOwned'
      BY <1>1, <1>3, <2>1, HoldersChange
    <2> QED
      BY <1>1, <1>3, <2>1, <2>2, <2>3, RunFacts, RunStep
  <1> QED
    BY <1>2, <1>3 DEF AcquirePermit, Breaks, ServiceHistory

LEMMA SubmitFutureStep == ASSUME ServiceInv, NEW r \in JobRuns, SubmitFuture(r) PROVE ServiceInv'
  <1>1. /\ submission[r] = "acquired" /\ job[r].pc = "none"
        /\ UNCHANGED <<record, closed, cache, epoch, preflight, accepted, raced, stranded>>
    BY RunFacts DEF SubmitFuture, HonestRun, ServiceHistory, Breaks
  <1>2. CASE /\ Becomes(r, NoJob("waiting")) /\ SubmissionAt(r, "done")
             /\ UNCHANGED <<permits, broken>>
    <2>1. /\ submission' \in [JobRuns -> {"new", "enqueue", "acquired", "refused", "done"}]
          /\ submission'[r] = "done"
          /\ \A q \in JobRuns \ {r} : submission'[q] = submission[q]
      BY <1>2, RunFacts DEF SubmissionAt
    <2>2. NoJob("waiting") \in JobSet /\ NoJob("waiting").pc = "waiting"
      BY NoJobTyped DEF JobPcs
    <2>3. /\ job' \in [JobRuns -> JobSet] /\ job'[r].pc = "waiting"
          /\ \A q \in JobRuns \ {r} : job'[q] = job[q]
      BY <1>2, <2>2, RunFacts DEF Becomes
    <2>4. HonestRun(r)'
      BY <1>1, <1>2, <2>1, <2>3, RunFacts DEF HonestRun
    <2>5. PermitsOwned'
      BY <1>1, <1>2, <2>1, <2>3, HoldersChange
    <2> QED
      BY <1>1, <1>2, <2>1, <2>3, <2>4, <2>5, RunFacts, RunStep
  <1>3. CASE /\ permits' = permits - 1 /\ SubmissionAt(r, "refused")
             /\ broken' = broken \cup {r} /\ UNCHANGED job
    <2>1. /\ submission' \in [JobRuns -> {"new", "enqueue", "acquired", "refused", "done"}]
          /\ submission'[r] = "refused"
          /\ \A q \in JobRuns \ {r} : submission'[q] = submission[q]
      BY <1>3, RunFacts DEF SubmissionAt
    <2>2. HonestRun(r)'
      BY <1>1, <1>3, <2>1, RunFacts DEF HonestRun
    <2>3. PermitsOwned' /\ permits > 0
      BY <1>1, <1>3, <2>1, HoldersChange
    <2>4. permits' \in 0..Capacity
      BY <1>3, <2>3, RunFacts, ServiceBounds
    <2> QED
      BY <1>1, <1>3, <2>1, <2>2, <2>3, <2>4, RunFacts, RunStep
  <1> QED
    BY <1>2, <1>3 DEF SubmitFuture, Breaks, ServiceHistory

LEMMA FailRefusedStep == ASSUME ServiceInv, NEW r \in JobRuns, FailRefused(r) PROVE ServiceInv'
  <1>1. /\ submission[r] = "refused" /\ job[r].pc = "none" /\ r \in broken
        /\ UNCHANGED <<job, permits, closed, cache, epoch, preflight, accepted, broken, raced>>
    BY RunFacts DEF FailRefused, HonestRun
  <1>2. /\ submission' \in [JobRuns -> {"new", "enqueue", "acquired", "refused", "done"}]
        /\ submission'[r] = "done"
        /\ \A q \in JobRuns \ {r} : submission'[q] = submission[q]
    BY RunFacts DEF FailRefused, SubmissionAt
  <1>3. PermitsOwned'
    BY <1>1, <1>2, HoldersChange
  <1>4. CASE record[r].state = Queued /\ RunRow!MoveRow(r, Failed, 0) /\ UNCHANGED stranded
    <2>1. /\ record' \in [JobRuns -> Records] /\ record'[r].state = Failed
          /\ \A q \in JobRuns \ {r} : record'[q] = record[q]
      BY <1>4, RunFacts, RowMoved
    <2>2. HonestRun(r)'
      BY <1>1, <1>2, <2>1, RunFacts, StateFacts DEF HonestRun, Failed, Cancelled, CancelRequested
    <2> QED
      BY <1>1, <1>2, <1>3, <1>4, <2>1, <2>2, RunFacts, RunStep
  <1>5. CASE stranded' = stranded \cup {r} /\ UNCHANGED record
    <2>1. HonestRun(r)'
      BY <1>1, <1>2, <1>5, RunFacts DEF HonestRun
    <2> QED
      BY <1>1, <1>2, <1>3, <1>5, <2>1, RunFacts, RunStep
  <1> QED
    BY <1>4, <1>5 DEF FailRefused, Strands

LEMMA CancelRunStep == ASSUME ServiceInv, NEW r \in JobRuns, CancelRun(r) PROVE ServiceInv'
  <1>1. /\ record' \in [JobRuns -> Records] /\ record'[r].state = CancelRequested
        /\ \A q \in JobRuns \ {r} : record'[q] = record[q]
    BY RunFacts, RowMoved DEF CancelRun
  <1>2. /\ accepted' = accepted \cup {r}
        /\ UNCHANGED <<submission, job, permits, closed, cache, epoch, preflight, broken, raced,
                       stranded>>
    BY DEF CancelRun
  <1>3. HonestRun(r)'
    BY <1>1, <1>2, RunFacts, StageTargetFacts DEF HonestRun
  <1>4. PermitsOwned'
    BY <1>2, HoldersChange
  <1> QED
    BY <1>1, <1>2, <1>3, <1>4, RunFacts, RunStep

LEMMA ReturnPermitStep == ASSUME ServiceInv, NEW r \in JobRuns, ReturnPermit(r) PROVE ServiceInv'
  <1>1. /\ job[r].pc = "ended" /\ submission[r] = "done"
        /\ permits' = permits - 1
        /\ UNCHANGED <<record, submission, closed, cache, epoch, preflight, ServiceHistory>>
    BY RunFacts DEF ReturnPermit, HonestRun
  <1>2. PICK j \in JobSet : Becomes(r, j) /\ j.pc = "done"
    BY RunFacts, JobAtTyped DEF ReturnPermit, JobPcs
  <1>3. /\ job' \in [JobRuns -> JobSet] /\ job'[r].pc = "done"
        /\ \A q \in JobRuns \ {r} : job'[q] = job[q]
    BY <1>2, RunFacts DEF Becomes
  <1>4. HonestRun(r)'
    BY <1>1, <1>3, RunFacts DEF HonestRun, ServiceHistory
  <1>5. PermitsOwned' /\ permits > 0
    BY <1>1, <1>3, HoldersChange
  <1>6. permits' \in 0..Capacity
    BY <1>1, <1>5, RunFacts, ServiceBounds
  <1> QED
    BY <1>1, <1>3, <1>4, <1>5, <1>6, RunFacts, RunStep DEF ServiceHistory

(* A preflight, or the end of the queue: no run is concerned. *)
LEMMA NoRunStep ==
    ASSUME ServiceInv, UNCHANGED <<record, submission, job, permits, ServiceHistory>>,
           closed' \in BOOLEAN, CacheStep,
           preflight' \in [Preflights -> [pc : {"idle", "load", "done"},
                                          born : Nat \cup {Unborn}]]
    PROVE  ServiceInv'
  <1>1. ServiceTypeOK'
    BY CacheTyped DEF ServiceInv, ServiceTypeOK, CacheStep, ServiceHistory
  <1>2. PermitsOwned'
    BY DEF ServiceInv, PermitsOwned, Holders
  <1>3. \A r \in JobRuns : HonestRun(r)'
    BY TypesOfInv DEF HonestRun, ServiceHistory
  <1> QED
    BY <1>1, <1>2, <1>3 DEF ServiceInv, CacheStep

LEMMA PreflightTyped ==
    ASSUME ServiceInv, NEW p \in Preflights, NEW pc \in {"load", "done"},
           NEW born \in Nat \cup {Unborn}, PreflightAt(p, pc, born)
    PROVE  preflight' \in [Preflights -> [pc : {"idle", "load", "done"},
                                          born : Nat \cup {Unborn}]]
  BY DEF ServiceInv, ServiceTypeOK, PreflightAt

LEMMA BeginPreflightStep ==
    ASSUME ServiceInv, NEW p \in Preflights, BeginPreflight(p) PROVE ServiceInv'
  <1>1. /\ UNCHANGED <<record, submission, job, permits, ServiceHistory>> /\ closed' \in BOOLEAN
    BY DEF BeginPreflight, PreflightOnly, ServiceInv, ServiceTypeOK
  <1>2. CacheStep
    BY PreparedCache DEF BeginPreflight, CacheStep
  <1>3. epoch \in Nat /\ epoch + 1 \in Nat
    BY TypesOfInv
  <1>4. \E pc \in {"load", "done"}, born \in Nat \cup {Unborn} : PreflightAt(p, pc, born)
    BY <1>3 DEF BeginPreflight
  <1>5. preflight' \in [Preflights -> [pc : {"idle", "load", "done"}, born : Nat \cup {Unborn}]]
    BY <1>4, PreflightTyped
  <1> QED
    BY <1>1, <1>2, <1>5, NoRunStep

LEMMA EndPreflightStep ==
    ASSUME ServiceInv, NEW p \in Preflights, EndPreflight(p) PROVE ServiceInv'
  <1>1. /\ UNCHANGED <<record, submission, job, permits, ServiceHistory>> /\ closed' \in BOOLEAN
        /\ epoch' = epoch
    BY DEF EndPreflight, PreflightOnly, ServiceInv, ServiceTypeOK
  <1>2. CacheStep
    <2>1. CASE Publish(p, preflight[p].born)
      BY <1>1, <2>1, PublishedCache, TypesOfInv DEF CacheStep
    <2>2. CASE UNCHANGED cache
      BY <1>1, <2>2, CacheKept
    <2> QED
      BY <2>1, <2>2 DEF EndPreflight
  <1>3. preflight' \in [Preflights -> [pc : {"idle", "load", "done"}, born : Nat \cup {Unborn}]]
    BY PreflightTyped DEF EndPreflight
  <1> QED
    BY <1>1, <1>2, <1>3, NoRunStep

LEMMA ShutdownStep == ASSUME ServiceInv, Shutdown PROVE ServiceInv'
  <1>1. /\ UNCHANGED <<record, submission, job, permits, ServiceHistory, cache, epoch, preflight>>
        /\ closed' \in BOOLEAN
    BY DEF Shutdown
  <1>2. CacheStep
    BY <1>1, CacheKept
  <1>3. preflight' \in [Preflights -> [pc : {"idle", "load", "done"}, born : Nat \cup {Unborn}]]
    BY <1>1 DEF ServiceInv, ServiceTypeOK
  <1> QED
    BY <1>1, <1>2, <1>3, NoRunStep

-----------------------------------------------------------------------------

LEMMA ServiceStart == ServiceInit => ServiceInv
  <1> SUFFICES ASSUME ServiceInit PROVE ServiceInv
    OBVIOUS
  <1>1. NoJob("none") \in JobSet /\ NoJob("none").pc = "none"
    BY NoJobTyped DEF JobPcs
  <1>2. NoRow \in Records /\ NoRow.state \notin {CancelRequested, Cancelled, Failed}
    BY StateFacts DEF Absent, CancelRequested, Cancelled, Failed
  <1>3. /\ record \in [JobRuns -> Records]
        /\ \A r \in JobRuns : record[r] = NoRow
        /\ job \in [JobRuns -> JobSet] /\ \A r \in JobRuns : job[r].pc = "none"
        /\ \A r \in JobRuns : submission[r] = "new"
    BY <1>1, <1>2 DEF ServiceInit
  <1>4. cache \in Seq(CacheEntries) /\ Len(cache) = 0 /\ DOMAIN cache = {}
    BY DEF ServiceInit
  <1>5. ServiceTypeOK
    <2>1. 0 \in 0..Capacity /\ 0 <= CacheSize
      BY ServiceBounds
    <2>2. /\ submission \in [JobRuns -> {"new", "enqueue", "acquired", "refused", "done"}]
          /\ preflight \in [Preflights -> [pc : {"idle", "load", "done"},
                                           born : Nat \cup {Unborn}]]
          /\ permits = 0 /\ closed \in BOOLEAN /\ epoch \in Nat
          /\ {accepted, broken, raced, stranded} \subseteq SUBSET JobRuns
      BY DEF ServiceInit
    <2> QED
      BY <1>3, <1>4, <2>1, <2>2 DEF ServiceTypeOK, JobSet
  <1>6. FreshIn(cache, epoch)
    BY <1>4 DEF FreshIn
  <1>7. PermitsOwned
    <2>1. Holders = {}
      BY <1>3 DEF Holders
    <2> QED
      BY <2>1, FS_EmptySet DEF PermitsOwned, ServiceInit
  <1>8. \A r \in JobRuns : HonestRun(r)
    BY <1>2, <1>3 DEF HonestRun, ServiceInit
  <1> QED
    BY <1>5, <1>6, <1>7, <1>8 DEF ServiceInv

LEMMA ServiceStep == ServiceInv /\ [ServiceNext]_ServiceVars => ServiceInv'
  <1> SUFFICES ASSUME ServiceInv, [ServiceNext]_ServiceVars PROVE ServiceInv'
    OBVIOUS
  <1>1. ASSUME NEW r \in JobRuns, SubmitStep(r) PROVE ServiceInv'
    BY <1>1, SubmitRunStep, AcquireStep, SubmitFutureStep, FailRefusedStep DEF SubmitStep
  <1>2. ASSUME NEW r \in JobRuns, JobStep(r) PROVE ServiceInv'
    BY <1>2, ReadStageStep, WriteStageStep, PrepareStep, WorkDoneStep, WorkRaisesStep,
       LoadAgainStep, ReadLabelStep, WriteLabelStep, CheckCancelledStep, PublishStep,
       AcknowledgeStep, ReadFailingStep, WriteFailedStep, ReturnPermitStep DEF JobStep
  <1>3. ASSUME NEW r \in JobRuns, StartJob(r) \/ CancelRun(r) PROVE ServiceInv'
    BY <1>3, StartJobStep, CancelRunStep
  <1>4. ASSUME NEW p \in Preflights, BeginPreflight(p) \/ EndPreflight(p) PROVE ServiceInv'
    BY <1>4, BeginPreflightStep, EndPreflightStep
  <1>5. CASE UNCHANGED ServiceVars
    <2>1. /\ UNCHANGED <<record, submission, job, permits, ServiceHistory, cache, epoch, preflight>>
          /\ closed' = closed
      BY <1>5 DEF ServiceVars
    <2>2. CacheStep
      BY <2>1, CacheKept
    <2> QED
      BY <2>1, <2>2, NoRunStep DEF ServiceInv, ServiceTypeOK
  <1> QED
    BY <1>1, <1>2, <1>3, <1>4, <1>5, ShutdownStep DEF ServiceNext

LEMMA ServiceInvariant == ServiceSpec => []ServiceInv
  BY ServiceStart, ServiceStep, PTL DEF ServiceSpec

(* The service's variables keep their types; the cache never outgrows its  *)
(* limit, and no more permits are out than there are (SkillBacktestService *)
(* and ThreadBacktestJobQueue).                                            *)
THEOREM ServiceTyped == ServiceSpec => []ServiceTypeOK
  <1>1. ServiceInv => ServiceTypeOK
    BY DEF ServiceInv
  <1> QED
    BY <1>1, ServiceInvariant, PTL

(* A permit is out exactly for each run that was taken by enqueue and has  *)
(* not been through _report: whatever refuses, cancels or breaks a run, no *)
(* permit is lost and none is returned twice.                              *)
THEOREM PermitsAccounted == ServiceSpec => []PermitsOwned
  <1>1. ServiceInv => PermitsOwned
    BY DEF ServiceInv
  <1> QED
    BY <1>1, ServiceInvariant, PTL

(* No run ends for a reason it did not have: no result after an accepted   *)
(* cancellation, no cancellation nobody asked for, no failure without an   *)
(* error (execute, _stage and _with_retry_progress).                       *)
THEOREM RunsEndHonestly == ServiceSpec => []EndsHonestly
  <1>1. ServiceInv => EndsHonestly
    <2> SUFFICES ASSUME ServiceInv, NEW r \in JobRuns
                 PROVE  /\ record[r].state = Succeeded => r \notin accepted
                        /\ record[r].state = Cancelled => r \in accepted
                        /\ record[r].state = Failed => r \in broken \cup raced
      BY DEF EndsHonestly
    <2>1. Succeeded \notin {CancelRequested, Cancelled, Failed}
      BY DEF Succeeded, CancelRequested, Cancelled, Failed
    <2> QED
      BY <2>1, TypesOfInv DEF HonestRun
  <1> QED
    BY <1>1, ServiceInvariant, PTL

(* What the cache serves was asked for since the last forced refresh, one  *)
(* entry for each request (_prepare_candidate).                            *)
THEOREM CacheStaysFresh == ServiceSpec => []PreparationsFresh
  <1>1. ServiceInv => PreparationsFresh
    BY TypesOfInv DEF FreshIn, PreparationsFresh
  <1> QED
    BY <1>1, ServiceInvariant, PTL
===============================================================================
