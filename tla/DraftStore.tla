------------------------------ MODULE DraftStore ------------------------------
(***************************************************************************)
(* SQLAlchemyDraftStore and the routes that use it.  Every request is a    *)
(* process: it loads the draft, computes an outcome (which takes seconds), *)
(* and then stores it in transactions that others may overtake.            *)
(*                                                                         *)
(*   POST /strategy-drafts              create, perhaps from a parent      *)
(*   POST /{d}/revisions/{r}/clarification-answers           answer        *)
(*   POST /{d}/revisions                revise                             *)
(*                                                                         *)
(* A transaction reads the head row, reads the idempotency row, and        *)
(* commits: three steps, for the database isolates no more than single     *)
(* statements.  The commit is atomic.  It takes effect only if the head    *)
(* still has the storage_version read (_compare_and_swap) and no unique    *)
(* key is taken; otherwise _transaction_retry starts over, MaxAttempts     *)
(* times in all.  A request may die at any step; its client then sends     *)
(* another one with the same Idempotency-Key.                              *)
(***************************************************************************)
EXTENDS DraftRecords

CONSTANTS
    Keys,           (* Idempotency-Keys *)
    Scenes,         (* what the requests of a behaviour ask for *)
    NoKey,          (* no Idempotency-Key header *)
    Lost,           (* ids of drafts a client still holds and the store lost *)
    MaxAttempts     (* attempts of a transaction (3 in the code) *)

(* What a request asks for.  Only create and revise read the header; both  *)
(* other routes name a draft.                                              *)
Commands ==
    {m \in [kind : {"create", "answer", "revise"}, draft : Drafts \cup {NoDraft},
            revision : Nat, key : Keys \cup {NoKey}, recover : BOOLEAN] :
        /\ m.kind # "create" => m.draft \in Drafts
        /\ m.kind = "answer" => m.key = NoKey
        /\ m.kind # "create" /\ m.recover => m.draft \in Seeds \cup Lost}

(* canonical_hash of a request: a revision does not name its draft. *)
HashOf(m) == IF m.kind = "create" THEN <<"create", m.draft>> ELSE <<"revise">>

ASSUME LostDrafts == Lost \subseteq Drafts \ Seeds
ASSUME AttemptsPositive == MaxAttempts \in Nat \ {0}
ASSUME KeysKnown == NoKey \notin Keys /\ Slots = ({"create", "http"} \cup Drafts) \X Keys
ASSUME HashesKnown ==
    /\ <<"revise">> \in Hashes
    /\ \A d \in Drafts \cup {NoDraft} : <<"create", d>> \in Hashes
ASSUME ScenesKnown == Scenes \subseteq [Calls -> Commands]

VARIABLES
    heads,          (* dialogue_drafts *)
    rows,           (* dialogue_draft_revisions: revision -> row, per draft *)
    idempotency,    (* dialogue_idempotency *)
    command,        (* what each request asks for *)
    call            (* the local state of each request *)

DraftVars == <<heads, rows, idempotency, command, call>>

NoHead == [latest |-> 0, version |-> 0, turns |-> <<>>]
HeadRow(latest, version, turns) == [latest |-> latest, version |-> version, turns |-> turns]

Stored(d) == heads[d].latest > 0

(* plan: what the outcome computed is to become.  on: the draft row the    *)
(* transaction locks.  expect: the revision the outcome was computed from, *)
(* 0 for any.  seen: the head row the transaction read.  value: what was   *)
(* stored, replayed or answered.                                           *)
Local(pc, plan, on, expect, seen, tries, value) ==
    [pc |-> pc, plan |-> plan, on |-> on, expect |-> expect, seen |-> seen,
     tries |-> tries, value |-> value]

Outside(pc) == Local(pc, "none", NoDraft, 0, NoHead, 0, NoValue)
Answered(value) == Local("answered", "none", NoDraft, 0, NoHead, 0, value)

Final == {"answered", "stale", "conflict", "missing", "dead"}
Plans == {"none", "new", "keep", "revise", "query", "talk"}

DraftInit ==
    /\ heads = [d \in Drafts |-> IF d \in Seeds THEN HeadRow(1, 1, <<>>) ELSE NoHead]
    /\ rows = [d \in Drafts |->
                  IF d \in Seeds THEN [n \in {1} |-> Revision(NoCall, NoDraft)] ELSE <<>>]
    /\ idempotency = [s \in Slots |-> NoEntry]
    /\ command \in Scenes
    /\ call = [c \in Calls |-> Outside("start")]

-----------------------------------------------------------------------------
(* Requests. *)

Become(c, local) ==
    /\ call' = [call EXCEPT ![c] = local]
    /\ UNCHANGED command

(* Request c goes on at pc; it has read a head; it has decided on a plan;  *)
(* it has a value.                                                         *)
At(c, pc) ==
    Local(pc, call[c].plan, call[c].on, call[c].expect, call[c].seen, call[c].tries,
          call[c].value)
Seeing(c, pc, seen) ==
    Local(pc, call[c].plan, call[c].on, call[c].expect, seen, call[c].tries, call[c].value)
Planned(plan, on, expect) == Local("head", plan, on, expect, NoHead, 0, NoValue)
Holding(c, pc, value) ==
    IF pc = "answered" THEN Answered(value)
    ELSE Local(pc, call[c].plan, call[c].on, call[c].expect, NoHead, 0, value)

TablesUnchanged == UNCHANGED <<heads, rows, idempotency>>

Hash(c) == HashOf(command[c])

HttpSlot(c) == <<"http", command[c].key>>

(* The slot of the storing transaction; answers carry no key. *)
StoreSlot(c) ==
    IF command[c].kind = "answer" \/ command[c].key = NoKey THEN NoSlot
    ELSE IF call[c].plan = "revise" THEN <<command[c].draft, command[c].key>>
    ELSE <<"create", command[c].key>>

EntryAt(slot) == IF slot = NoSlot THEN NoEntry ELSE idempotency[slot]

Put(slot, c, value) ==
    IF slot = NoSlot THEN UNCHANGED idempotency
    ELSE idempotency' = [idempotency EXCEPT ![slot] = Entry(Hash(c), value)]

(* get_http_response, and the replay of a whole POST. *)
CreateLookup(c) ==
    LET entry == EntryAt(HttpSlot(c)) IN
    /\ call[c].pc = "start" /\ command[c].kind = "create"
    /\ \/ /\ command[c].key = NoKey
          /\ Become(c, At(c, "load"))
       \/ /\ command[c].key # NoKey /\ ~entry.taken
          /\ Become(c, At(c, "load"))
       \/ /\ command[c].key # NoKey /\ entry.taken /\ entry.hash = Hash(c)
          /\ Become(c, Answered(entry.value))
       \/ /\ command[c].key # NoKey /\ entry.taken /\ entry.hash # Hash(c)
          /\ Become(c, Outside("conflict"))
    /\ TablesUnchanged

(* load_latest_dialogue_state of the parent; then the outcome is computed: *)
(* a new draft, or a reply that leaves the parent's revision as it is.     *)
CreateLoad(c) ==
    LET parent == command[c].draft IN
    /\ call[c].pc = "load"
    /\ \/ /\ parent = NoDraft
          /\ Become(c, Planned("new", NoDraft, 0))
       \/ /\ parent # NoDraft /\ ~Stored(parent)
          /\ Become(c, Outside("missing"))
       \/ /\ parent # NoDraft /\ Stored(parent)
          /\ \E plan \in {"new", "keep"} :
                Become(c, Planned(plan, parent, heads[parent].latest))
    /\ TablesUnchanged

(* load_dialogue_state with the revision in the URL; the answer is a data  *)
(* query, talk, a change of the draft, or the choice of a proposal, which  *)
(* becomes a draft of its own.                                             *)
AnswerLoad(c) ==
    LET d == command[c].draft
        r == command[c].revision
        shown == Value(d, r, rows[d][r].by, c)
    IN
    /\ call[c].pc = "start" /\ command[c].kind = "answer"
    /\ \/ /\ ~Stored(d)
          /\ Become(c, Outside("missing"))
       \/ /\ Stored(d) /\ heads[d].latest # r
          /\ Become(c, Outside("stale"))
       \/ /\ Stored(d) /\ heads[d].latest = r
          /\ \/ \E plan \in {"query", "talk"} :
                   Become(c, Local("turnHead", plan, d, r, NoHead, 0, shown))
             \/ \E plan \in {"revise", "new"} : Become(c, Planned(plan, d, r))
    /\ TablesUnchanged

(* The route loads the draft for its settings only. *)
ReviseLoad(c) ==
    /\ call[c].pc = "start" /\ command[c].kind = "revise"
    /\ Become(c, Planned("revise", command[c].draft, 0))
    /\ TablesUnchanged

-----------------------------------------------------------------------------
(* The storing transaction: create, create with a parent, revise. *)

(* A transaction that lost starts over, or gives up. *)
Attempted(c, pc) ==
    IF call[c].tries + 1 = MaxAttempts THEN Outside("stale")
    ELSE Local(pc, call[c].plan, call[c].on, call[c].expect, NoHead, call[c].tries + 1,
               call[c].value)

(* Slip: the revision is checked in the first attempt only. *)
ReadHeadOnce(c) ==
    LET d == call[c].on IN
    /\ call[c].pc = "head" /\ d # NoDraft
    /\ \/ /\ ~Stored(d)
          /\ Become(c, Outside("missing"))
       \/ /\ Stored(d) /\ call[c].tries = 0 /\ call[c].expect \notin {0, heads[d].latest}
          /\ Become(c, Outside("stale"))
       \/ /\ Stored(d) /\ (call[c].tries > 0 \/ call[c].expect \in {0, heads[d].latest})
          /\ Become(c, Seeing(c, "replay", heads[d]))
    /\ TablesUnchanged

(* _head and _guard_revision. *)
ReadHead(c) ==
    LET d == call[c].on IN
    /\ call[c].pc = "head" /\ d # NoDraft
    /\ \/ /\ ~Stored(d) /\ command[c].kind = "revise" /\ command[c].recover
          /\ Become(c, Planned("new", NoDraft, 0))
       \/ /\ ~Stored(d) /\ ~(command[c].kind = "revise" /\ command[c].recover)
          /\ Become(c, Outside("missing"))
       \/ /\ Stored(d) /\ call[c].expect \notin {0, heads[d].latest}
          /\ Become(c, Outside("stale"))
       \/ /\ Stored(d) /\ call[c].expect \in {0, heads[d].latest}
          /\ Become(c, Seeing(c, "replay", heads[d]))
    /\ TablesUnchanged

(* A root draft has no row to read. *)
ReadNoHead(c) ==
    /\ call[c].pc = "head" /\ call[c].on = NoDraft
    /\ Become(c, At(c, "replay"))
    /\ TablesUnchanged

(* Slip: a replayed exchange is recorded like a new one. *)
AfterStoringAlways(c, replayed) ==
    IF command[c].kind = "revise" THEN "answered" ELSE "turnHead"

(* Where a request goes once its value is stored or replayed. *)
AfterStoring(c, replayed) ==
    IF command[c].kind = "revise" THEN "answered"
    ELSE IF command[c].kind = "create" /\ replayed THEN "remember"
    ELSE "turnHead"

(* _replay. *)
FindReplay(c) ==
    LET entry == EntryAt(StoreSlot(c)) IN
    /\ call[c].pc = "replay"
    /\ \/ /\ ~entry.taken
          /\ Become(c, At(c, "commit"))
       \/ /\ entry.taken /\ entry.hash = Hash(c)
          /\ Become(c, Holding(c, AfterStoring(c, TRUE), entry.value))
       \/ /\ entry.taken /\ entry.hash # Hash(c)
          /\ Become(c, Outside("conflict"))
    /\ TablesUnchanged

(* uuid4 *)
Unused == {d \in Drafts \ Lost : ~Stored(d)}

(* Slip: the row is updated whatever its storage_version has become. *)
SwapsAnyway(c, d) == TRUE

(* _compare_and_swap finds the row as it was read. *)
Swaps(c, d) == d # NoDraft => heads[d].version = call[c].seen.version

(* The columns it writes, all taken from the row that was read. *)
Swapped(c, latest, turns) == HeadRow(latest, call[c].seen.version + 1, Kept(turns))

CommitNew(c) ==
    LET seen   == call[c].seen
        parent == call[c].on
        value  == Value(CHOOSE d \in Unused : TRUE, 1, c, c)
    IN
    /\ call[c].pc = "commit" /\ call[c].plan = "new"
    /\ Unused # {}
    /\ Swaps(c, parent) /\ ~EntryAt(StoreSlot(c)).taken
    /\ heads' = [d \in Drafts |->
                    IF d = value.draft THEN HeadRow(1, 1, Kept(seen.turns))
                    ELSE IF d = parent THEN Swapped(c, seen.latest, seen.turns)
                    ELSE heads[d]]
    /\ rows' = [rows EXCEPT ![value.draft] = [n \in {1} |-> Revision(c, parent)]]
    /\ Put(StoreSlot(c), c, value)
    /\ Become(c, Holding(c, AfterStoring(c, FALSE), value))

CommitKeep(c) ==
    LET seen  == call[c].seen
        value == Value(call[c].on, seen.latest, c, c)
    IN
    /\ call[c].pc = "commit" /\ call[c].plan = "keep"
    /\ Swaps(c, call[c].on) /\ ~EntryAt(StoreSlot(c)).taken
    /\ heads' = [heads EXCEPT ![call[c].on] = Swapped(c, seen.latest, seen.turns)]
    /\ UNCHANGED rows
    /\ Put(StoreSlot(c), c, value)
    /\ Become(c, Holding(c, AfterStoring(c, FALSE), value))

CommitRevise(c) ==
    LET seen  == call[c].seen
        d     == call[c].on
        value == Value(d, seen.latest + 1, c, c)
        added == Revision(c, rows[d][seen.latest].parent)
    IN
    /\ call[c].pc = "commit" /\ call[c].plan = "revise"
    /\ Swaps(c, d) /\ ~EntryAt(StoreSlot(c)).taken
    /\ value.revision \notin DOMAIN rows[d]
    /\ heads' = [heads EXCEPT ![d] = Swapped(c, value.revision, seen.turns)]
    /\ rows' = [rows EXCEPT ![d] = [n \in 1..value.revision |->
                                       IF n = value.revision THEN added ELSE @[n]]]
    /\ Put(StoreSlot(c), c, value)
    /\ Become(c, Holding(c, AfterStoring(c, FALSE), value))

(* The head has moved, or the key has been taken: nothing is written. *)
CommitLost(c) ==
    /\ call[c].pc = "commit"
    /\ Swaps(c, call[c].on) => EntryAt(StoreSlot(c)).taken
    /\ Become(c, Attempted(c, "head"))
    /\ TablesUnchanged

-----------------------------------------------------------------------------
(* record_dialogue_turn, and the answer. *)

(* A reply that leaves the revision alone is only recorded on the latest. *)
NeedsLatest(c) == call[c].plan \in {"keep", "talk"}

ReadTurns(c) ==
    LET d == call[c].value.draft
        r == call[c].value.revision
        late == r > heads[d].latest \/ (NeedsLatest(c) /\ r # heads[d].latest)
    IN
    /\ call[c].pc = "turnHead"
    /\ \/ late /\ Become(c, Outside("stale"))
       \/ ~late /\ Become(c, Seeing(c, "turnCommit", heads[d]))
    /\ TablesUnchanged

CommitTurn(c) ==
    LET d == call[c].value.draft
        seen == call[c].seen
    IN
    /\ call[c].pc = "turnCommit"
    /\ Swaps(c, d)
    /\ heads' = [heads EXCEPT ![d] =
                    Swapped(c, seen.latest, Append(seen.turns, Turn(c, call[c].value.revision)))]
    /\ UNCHANGED <<rows, idempotency>>
    /\ Become(c, Holding(c, IF command[c].kind = "create" THEN "remember" ELSE "answered",
                         call[c].value))

TurnLost(c) ==
    /\ call[c].pc = "turnCommit"
    /\ ~Swaps(c, call[c].value.draft)
    /\ Become(c, Attempted(c, "turnHead"))
    /\ TablesUnchanged

(* What the client reads: a kept revision is shown with the reply stored   *)
(* for it, any other with the reply just computed.                         *)
Response(c) ==
    IF call[c].plan = "keep" THEN call[c].value
    ELSE Value(call[c].value.draft, call[c].value.revision, call[c].value.by, c)

(* Slip: the request answers what it computed itself. *)
RememberMine(c) ==
    LET slot == HttpSlot(c) IN
    /\ call[c].pc = "remember"
    /\ Become(c, Answered(Response(c)))
    /\ IF command[c].key # NoKey /\ ~EntryAt(slot).taken
       THEN Put(slot, c, Response(c)) ELSE UNCHANGED idempotency
    /\ UNCHANGED <<heads, rows>>

(* remember_http_response.  When two requests insert, the second one's     *)
(* insert fails and its next attempt reads the first one's row, so that    *)
(* the outcome is that of one step.                                        *)
RememberAnswer(c) ==
    LET slot  == HttpSlot(c)
        keyed == command[c].key # NoKey
        Answer(value) == Become(c, Answered(value))
    IN
    /\ call[c].pc = "remember"
    /\ \/ /\ ~keyed
          /\ Answer(Response(c)) /\ UNCHANGED idempotency
       \/ /\ keyed /\ ~EntryAt(slot).taken
          /\ Answer(Response(c)) /\ Put(slot, c, Response(c))
       \/ /\ keyed /\ EntryAt(slot).taken /\ EntryAt(slot).hash = Hash(c)
          /\ Answer(EntryAt(slot).value) /\ UNCHANGED idempotency
       \/ /\ keyed /\ EntryAt(slot).taken /\ EntryAt(slot).hash # Hash(c)
          /\ Become(c, Outside("conflict")) /\ UNCHANGED idempotency
    /\ UNCHANGED <<heads, rows>>

(* The process is killed, a provider raises, or a first data query finds   *)
(* the draft it was to open revised already.                               *)
Die(c) ==
    /\ call[c].pc \notin Final \cup {"start"}
    /\ Become(c, Outside("dead"))
    /\ TablesUnchanged

RequestStep(c) ==
    \/ CreateLookup(c) \/ CreateLoad(c) \/ AnswerLoad(c) \/ ReviseLoad(c)
    \/ ReadHead(c) \/ ReadNoHead(c) \/ FindReplay(c)
    \/ CommitNew(c) \/ CommitKeep(c) \/ CommitRevise(c) \/ CommitLost(c)
    \/ ReadTurns(c) \/ CommitTurn(c) \/ TurnLost(c) \/ RememberAnswer(c) \/ Die(c)

DraftNext == \E c \in Calls : RequestStep(c)

DraftSpec == DraftInit /\ [][DraftNext]_DraftVars

-----------------------------------------------------------------------------
(* Properties. *)

HeadRows == [latest : Nat, version : Nat, turns : Seq(Turns)]

CallPcs == Final \cup {"start", "load", "head", "replay", "commit", "turnHead", "turnCommit",
                        "remember"}
Locals ==
    [pc : CallPcs, plan : Plans, on : Drafts \cup {NoDraft}, expect : Nat, seen : HeadRows,
     tries : 0..(MaxAttempts - 1), value : Values \cup {NoValue}]

(* The rows of a draft are numbered from 1 to its latest revision. *)
DraftTypeOK ==
    /\ heads \in [Drafts -> HeadRows]
    /\ rows \in [Drafts -> Seq(Revisions)]
    /\ \A d \in Drafts : Len(rows[d]) = heads[d].latest
    /\ idempotency \in [Slots -> Entries]
    /\ command \in [Calls -> Commands]
    /\ call \in [Calls -> Locals]

(* The persistent store is an implementation of the store kept in memory:  *)
(* its transactions, overtaken, retried and given up, amount to operations *)
(* that happen one at a time.  No revision is ever overwritten, no turn    *)
(* lost between two writers, and no remembered answer without its draft.   *)
Contract == INSTANCE DraftContract WITH
    drafts <- [d \in Drafts |-> [n \in 1..heads[d].latest |-> rows[d][n]]],
    turns  <- [d \in Drafts |-> heads[d].turns],
    slots  <- idempotency

ImplementsContract == Contract!ContractSpec

(* Requests with the same Idempotency-Key that ask for the same thing are  *)
(* answered alike, down to the reply text, although each of them computed  *)
(* its own and they may have run at the same time.                         *)
SameKeySameAnswer ==
    \A c, k \in Calls :
        /\ call[c].pc = "answered" /\ call[k].pc = "answered"
        /\ command[c] = command[k]
        /\ command[c].kind # "answer" /\ command[c].key # NoKey
        => call[c].value = call[k].value

(* A request that was retried is in no conversation twice. *)
OneTurnPerRequest ==
    \A d \in Drafts : \A i, j \in DOMAIN heads[d].turns :
        LET c == heads[d].turns[i].by
            k == heads[d].turns[j].by
        IN (command[c] = command[k] /\ command[c].key # NoKey) => i = j

(* What was computed from one revision of a draft, as a change, a child or *)
(* a reply, is stored only while that revision is the latest one.          *)
LandsOnItsRevision ==
    [][\A c \in Calls :
          LET d == call[c].on IN
          (call'[c] # call[c] /\ call[c].expect # 0 /\ heads' # heads
             /\ (call[c].pc = "commit" \/ NeedsLatest(c)))
          => heads[d].latest = call[c].expect]_DraftVars
==============================================================================
