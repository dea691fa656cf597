--------------------------- MODULE DraftStoreProofs ----------------------------
(***************************************************************************)
(* Proofs about DraftStore: its types, that its transactions implement the *)
(* store kept in memory (DraftContract), that an outcome is stored only on *)
(* the revision it was computed from, and that requests which ask for the  *)
(* same thing under the same Idempotency-Key are answered alike and their  *)
(* exchange is in no conversation twice.                                   *)
(*                                                                         *)
(* The argument: storage_version only grows, and grows with every change   *)
(* of a head row, so that a head row read earlier is still the head row    *)
(* when its version is (SeenSound). All a commit computes from what it     *)
(* read is therefore computed from what is there.                          *)
(*                                                                         *)
(* For the keys: a slot keeps its first value. Whoever was answered holds  *)
(* the value of the one slot its kind of request ends in (AnswerSlot), and *)
(* whoever records a turn is the one whose value its slot for stored       *)
(* drafts holds (Mine), which can be only one of the requests of a key.    *)
(***************************************************************************)
EXTENDS DraftStore, SequenceTheorems, TLAPS

(* What is said of a value that was stored, replayed or is being answered. *)
Written(v) ==
    /\ v.draft \in Drafts /\ Stored(v.draft)
    /\ v.revision \in 1..heads[v.draft].latest
    /\ v.by \in Authors /\ v.reply \in Calls

(* What is said of a head row that was read. *)
SeenSound(d, seen) ==
    /\ d \in Drafts /\ Stored(d)
    /\ seen.version <= heads[d].version
    /\ seen.version = heads[d].version => seen = heads[d]

HeadsSound ==
    \A d \in Drafts : /\ ~Stored(d) => heads[d] = NoHead
                      /\ Len(heads[d].turns) <= HistoryLimit

EntriesSound ==
    \A s \in Slots : idempotency[s].taken => Written(idempotency[s].value)

PlanSound(c, l) ==
    /\ l.pc = "load" => command[c].kind = "create"
    /\ l.pc \in {"head", "replay", "commit"} =>
        /\ l.plan \in {"new", "keep", "revise"}
        /\ l.plan # "new" => l.on # NoDraft
        /\ l.plan = "keep" => l.expect # 0 /\ command[c].kind = "create"
        /\ l.plan = "revise" => command[c].kind # "create"
        /\ l.on = NoDraft => l.seen = NoHead /\ l.expect = 0

ReadSound(l) ==
    l.pc \in {"replay", "commit"} /\ l.on # NoDraft =>
        SeenSound(l.on, l.seen) /\ l.expect \in {0, l.seen.latest}

HeldSound(l) == l.pc \in {"turnHead", "turnCommit", "remember"} => Written(l.value)

TurnSound(l) ==
    /\ l.pc \in {"turnHead", "turnCommit"} /\ l.plan \in {"keep", "talk"} =>
          l.value.draft = l.on /\ l.expect = l.value.revision
    /\ l.pc = "turnCommit" =>
          /\ SeenSound(l.value.draft, l.seen)
          /\ l.value.revision <= l.seen.latest
          /\ l.plan \in {"keep", "talk"} => l.value.revision = l.seen.latest

LocalSound(c, l) == PlanSound(c, l) /\ ReadSound(l) /\ HeldSound(l) /\ TurnSound(l)

CallsSound == \A c \in Calls : LocalSound(c, call[c])

DraftInv == DraftTypeOK /\ HeadsSound /\ EntriesSound /\ CallsSound

-----------------------------------------------------------------------------
(* Types of what the actions build. *)

LEMMA NoHeadType == NoHead \in HeadRows
<1>1. <<>> \in Seq(Turns)  BY EmptySeq
<1> QED  BY <1>1 DEF NoHead, HeadRows

LEMMA HeadRowType ==
    ASSUME NEW n \in Nat, NEW v \in Nat, NEW t \in Seq(Turns)
    PROVE  /\ HeadRow(n, v, t) \in HeadRows
           /\ HeadRow(n, v, t).latest = n /\ HeadRow(n, v, t).version = v
           /\ HeadRow(n, v, t).turns = t
BY DEF HeadRow, HeadRows

LEMMA HeadFields ==
    ASSUME NEW h \in HeadRows
    PROVE  /\ h.latest \in Nat /\ h.version \in Nat /\ h.turns \in Seq(Turns)
           /\ HeadRow(h.latest, h.version, h.turns) = h
BY DEF HeadRow, HeadRows

LEMMA KeptType ==
    ASSUME NEW t \in Seq(Turns)
    PROVE  /\ Kept(t) \in Seq(Turns) /\ Len(Kept(t)) <= HistoryLimit
           /\ Len(t) <= HistoryLimit => Kept(t) = t
<1>1. Len(t) \in Nat /\ HistoryLimit \in Nat \ {0}
  BY LenProperties, HistoryLimitPositive
<1>2. CASE Len(t) <= HistoryLimit
  BY <1>1, <1>2 DEF Kept
<1>3. CASE ~(Len(t) <= HistoryLimit)
  <2> DEFINE m == Len(t) - HistoryLimit + 1
  <2>1. m \in Int /\ Len(t) \in Int /\ m <= Len(t) /\ Len(t) - m + 1 = HistoryLimit /\ m >= 1
    BY <1>1, <1>3
  <2>2. \A i \in m..Len(t) : t[i] \in Turns
    BY <2>1, <1>1, ElementOfSeq
  <2>3. SubSeq(t, m, Len(t)) \in Seq(Turns) /\ Len(SubSeq(t, m, Len(t))) = HistoryLimit
    <3> HIDE DEF m
    <3> QED  BY <2>1, <2>2, SubSeqProperties
  <2>4. Kept(t) = SubSeq(t, m, Len(t))
    BY <1>3 DEF Kept
  <2> QED  BY <2>3, <2>4, <1>3, <1>1
<1> QED  BY <1>2, <1>3

LEMMA ValueType ==
    ASSUME NEW d \in Drafts, NEW n \in Nat, NEW by \in Authors, NEW reply \in Authors
    PROVE  /\ Value(d, n, by, reply) \in Values
           /\ Value(d, n, by, reply).draft = d /\ Value(d, n, by, reply).revision = n
           /\ Value(d, n, by, reply).by = by /\ Value(d, n, by, reply).reply = reply
BY DEF Value, Values

LEMMA ValueFields ==
    ASSUME NEW v \in Values
    PROVE  /\ v.draft \in Drafts /\ v.revision \in Nat /\ v.by \in Authors
           /\ v.reply \in Authors /\ Value(v.draft, v.revision, v.by, v.reply) = v
BY DEF Value, Values

LEMMA EntryType ==
    ASSUME NEW h \in Hashes, NEW v \in Values
    PROVE  /\ Entry(h, v) \in Entries /\ Entry(h, v).taken
           /\ Entry(h, v).hash = h /\ Entry(h, v).value = v
BY DEF Entry, Entries

LEMMA EntryFields ==
    ASSUME NEW e \in Entries
    PROVE  /\ e.taken \in BOOLEAN
           /\ e.taken => e.hash \in Hashes /\ e.value \in Values
           /\ ~e.taken => e = NoEntry
<1>1. CASE e = NoEntry
  <2>1. e.taken = FALSE  BY <1>1 DEF NoEntry
  <2> QED  BY <1>1, <2>1
<1>2. CASE e \in [taken : {TRUE}, hash : Hashes, value : Values]
  <2>1. e.taken = TRUE /\ e.hash \in Hashes /\ e.value \in Values  BY <1>2
  <2> QED  BY <2>1
<1> QED  BY <1>1, <1>2 DEF Entries

LEMMA NoEntryType == NoEntry \in Entries /\ ~NoEntry.taken
BY DEF Entries, NoEntry

LEMMA LocalType ==
    ASSUME NEW pc \in CallPcs, NEW plan \in Plans, NEW on \in Drafts \cup {NoDraft},
           NEW expect \in Nat, NEW seen \in HeadRows, NEW tries \in 0..(MaxAttempts - 1),
           NEW value \in Values \cup {NoValue}
    PROVE  Local(pc, plan, on, expect, seen, tries, value) \in Locals
BY DEF Local, Locals

LEMMA LocalFields ==
    ASSUME NEW pc, NEW plan, NEW on, NEW expect, NEW seen, NEW tries, NEW value
    PROVE  LET l == Local(pc, plan, on, expect, seen, tries, value) IN
           /\ l.pc = pc /\ l.plan = plan /\ l.on = on /\ l.expect = expect /\ l.seen = seen
           /\ l.tries = tries /\ l.value = value
BY DEF Local

LEMMA CallFields ==
    ASSUME NEW l \in Locals
    PROVE  /\ l.pc \in CallPcs /\ l.plan \in Plans /\ l.on \in Drafts \cup {NoDraft}
           /\ l.expect \in Nat /\ l.seen \in HeadRows /\ l.tries \in 0..(MaxAttempts - 1)
           /\ l.value \in Values \cup {NoValue}
BY DEF Locals

LEMMA CommandFields ==
    ASSUME NEW m \in Commands
    PROVE  /\ m.kind \in {"create", "answer", "revise"} /\ m.draft \in Drafts \cup {NoDraft}
           /\ m.revision \in Nat /\ m.key \in Keys \cup {NoKey} /\ m.recover \in BOOLEAN
           /\ m.kind # "create" => m.draft \in Drafts
           /\ m.kind = "answer" => m.key = NoKey
BY DEF Commands

LEMMA SlotTypes ==
    ASSUME DraftTypeOK, NEW c \in Calls
    PROVE  /\ Hash(c) \in Hashes
           /\ command[c].key # NoKey => HttpSlot(c) \in Slots
           /\ (call[c].plan = "revise" => command[c].kind # "create") =>
                 StoreSlot(c) \in Slots \cup {NoSlot}
<1>1. command[c] \in Commands  BY DEF DraftTypeOK
<1>2. Hash(c) \in Hashes  BY <1>1, CommandFields, HashesKnown DEF Hash, HashOf
<1>3. ASSUME command[c].key # NoKey PROVE HttpSlot(c) \in Slots
  BY <1>1, <1>3, CommandFields, KeysKnown DEF HttpSlot
<1>4. ASSUME call[c].plan = "revise" => command[c].kind # "create"
      PROVE  StoreSlot(c) \in Slots \cup {NoSlot}
  BY <1>1, <1>4, CommandFields, KeysKnown DEF StoreSlot
<1> QED  BY <1>2, <1>3, <1>4

LEMMA EntryAtType ==
    ASSUME DraftTypeOK, NEW s \in Slots \cup {NoSlot}
    PROVE  /\ EntryAt(s) \in Entries
           /\ EntryAt(s).taken => s \in Slots /\ EntryAt(s) = idempotency[s]
<1>1. CASE s = NoSlot  BY <1>1, NoEntryType DEF EntryAt
<1>2. CASE s # NoSlot  BY <1>2 DEF EntryAt, DraftTypeOK
<1> QED  BY <1>1, <1>2

LEMMA Becomes ==
    ASSUME DraftTypeOK, NEW c \in Calls, NEW l \in Locals, Become(c, l)
    PROVE  /\ call' \in [Calls -> Locals] /\ call'[c] = l
           /\ \A k \in Calls \ {c} : call'[k] = call[k]
           /\ command' = command
BY DEF DraftTypeOK, Become

-----------------------------------------------------------------------------
(* A local state in which nothing is held or read is sound. *)

LEMMA RestSound ==
    ASSUME NEW c \in Calls, NEW l, l.pc \in Final \cup {"start", "load"},
           l.pc = "load" => command[c].kind = "create"
    PROVE  LocalSound(c, l)
BY DEF Final, LocalSound, PlanSound, ReadSound, HeldSound, TurnSound

LEMMA OutsideLocal ==
    ASSUME NEW c \in Calls, NEW pc \in Final \cup {"start"}
    PROVE  Outside(pc) \in Locals /\ LocalSound(c, Outside(pc)) /\ Outside(pc).pc = pc
<1>1. Outside(pc).pc = pc  BY DEF Outside, Local
<1>2. Outside(pc) \in Locals
  <2>1. pc \in CallPcs /\ "none" \in Plans  BY DEF CallPcs, Plans
  <2>2. 0 \in Nat /\ 0 \in 0..(MaxAttempts - 1)  BY AttemptsPositive
  <2> QED  BY <2>1, <2>2, LocalType, NoHeadType DEF Outside
<1> QED  BY <1>1, <1>2, RestSound DEF Final

LEMMA AnsweredLocal ==
    ASSUME NEW c \in Calls, NEW v \in Values
    PROVE  /\ Answered(v) \in Locals /\ LocalSound(c, Answered(v))
           /\ Answered(v).pc = "answered" /\ Answered(v).value = v
<1>1. Answered(v).pc = "answered" /\ Answered(v).value = v  BY DEF Answered, Local
<1>2. Answered(v) \in Locals
  BY LocalType, NoHeadType, AttemptsPositive DEF Answered, CallPcs, Plans, Final
<1> QED  BY <1>1, <1>2, RestSound DEF Final

LEMMA PlannedLocal ==
    ASSUME NEW c \in Calls, NEW plan \in {"new", "keep", "revise"},
           NEW on \in Drafts \cup {NoDraft}, NEW expect \in Nat,
           plan # "new" => on # NoDraft,
           plan = "keep" => expect # 0 /\ command[c].kind = "create",
           plan = "revise" => command[c].kind # "create",
           on = NoDraft => expect = 0
    PROVE  /\ Planned(plan, on, expect) \in Locals
           /\ LocalSound(c, Planned(plan, on, expect))
<1> DEFINE l == Planned(plan, on, expect)
<1>1. /\ l.pc = "head" /\ l.plan = plan /\ l.on = on /\ l.expect = expect /\ l.seen = NoHead
  BY DEF Planned, Local
<1>2. l \in Locals
  <2>1. "head" \in CallPcs /\ plan \in Plans  BY DEF CallPcs, Plans
  <2>2. 0 \in 0..(MaxAttempts - 1)  BY AttemptsPositive
  <2> QED  BY <2>1, <2>2, LocalType, NoHeadType DEF Planned
<1>3. LocalSound(c, l)
  <2> HIDE DEF l
  <2> QED  BY <1>1 DEF LocalSound, PlanSound, ReadSound, HeldSound, TurnSound
<1> QED  BY <1>2, <1>3

-----------------------------------------------------------------------------
(* What a step may do to the head rows. *)

Grows ==
    \A d \in Drafts : Stored(d) =>
        /\ heads[d].latest <= heads'[d].latest
        /\ heads[d].version <= heads'[d].version
        /\ heads'[d].version = heads[d].version => heads'[d] = heads[d]

LEMMA WrittenKept ==
    ASSUME DraftTypeOK, DraftTypeOK', Grows, NEW v, Written(v)
    PROVE  Written(v)'
<1>1. heads[v.draft] \in HeadRows /\ heads'[v.draft] \in HeadRows
  BY DEF DraftTypeOK, Written
<1> QED  BY <1>1, HeadFields DEF Written, Grows, Stored

LEMMA SeenKept ==
    ASSUME DraftTypeOK, DraftTypeOK', Grows, NEW d, NEW seen \in HeadRows, SeenSound(d, seen)
    PROVE  SeenSound(d, seen)'
<1>1. /\ heads[d] \in HeadRows /\ heads'[d] \in HeadRows /\ d \in Drafts
  BY DEF DraftTypeOK, SeenSound
<1>2. /\ heads[d].latest > 0 /\ heads[d].latest <= heads'[d].latest
      /\ heads[d].version <= heads'[d].version
      /\ heads'[d].version = heads[d].version => heads'[d] = heads[d]
      /\ seen.version <= heads[d].version
      /\ seen.version = heads[d].version => seen = heads[d]
  BY <1>1 DEF SeenSound, Grows, Stored
<1>3. seen.version \in Nat /\ heads[d].version \in Nat /\ heads'[d].version \in Nat
      /\ heads[d].latest \in Nat /\ heads'[d].latest \in Nat
  BY <1>1, HeadFields
<1>4. seen.version <= heads'[d].version  BY <1>2, <1>3
<1>5. ASSUME seen.version = heads'[d].version PROVE seen = heads'[d]
  <2>1. heads[d].version = heads'[d].version /\ seen.version = heads[d].version
    BY <1>2, <1>3, <1>5
  <2> QED  BY <2>1, <1>2
<1>6. heads'[d].latest > 0  BY <1>2, <1>3
<1> QED  BY <1>1, <1>4, <1>5, <1>6 DEF SeenSound, Stored

LEMMA LocalKept ==
    ASSUME DraftTypeOK, DraftTypeOK', Grows, command' = command,
           NEW c \in Calls, NEW l \in Locals, LocalSound(c, l)
    PROVE  LocalSound(c, l)'
<1>1. l.seen \in HeadRows  BY CallFields
<1>2. PlanSound(c, l)'  BY DEF LocalSound, PlanSound
<1>3. ReadSound(l)'  BY <1>1, SeenKept DEF LocalSound, ReadSound
<1>4. HeldSound(l)'  BY WrittenKept DEF LocalSound, HeldSound
<1>5. TurnSound(l)'  BY <1>1, SeenKept DEF LocalSound, TurnSound
<1> QED  BY <1>2, <1>3, <1>4, <1>5 DEF LocalSound

(* A step that leaves the tables alone. *)
LEMMA QuietStep ==
    ASSUME DraftInv, NEW c \in Calls, NEW l \in Locals, LocalSound(c, l), Become(c, l),
           TablesUnchanged
    PROVE  DraftInv'
<1>1. DraftTypeOK'
  BY Becomes DEF DraftInv, DraftTypeOK, TablesUnchanged
<1>2. Grows  BY HeadFields DEF DraftInv, DraftTypeOK, TablesUnchanged, Grows
<1>3. HeadsSound'  BY DEF DraftInv, HeadsSound, Stored, TablesUnchanged
<1>4. EntriesSound'
  BY <1>1, <1>2, WrittenKept DEF DraftInv, EntriesSound, TablesUnchanged
<1>5. CallsSound'
  <2> SUFFICES ASSUME NEW k \in Calls PROVE LocalSound(k, call[k])'
    BY DEF CallsSound
  <2>1. CASE k = c
    <3>1. call'[k] = l  BY <2>1, Becomes DEF DraftInv
    <3>2. LocalSound(c, l)'  BY <1>1, <1>2, LocalKept, Becomes DEF DraftInv
    <3> QED  BY <3>1, <3>2, <2>1
  <2>2. CASE k # c
    <3> DEFINE m == call[k]
    <3>1. m \in Locals /\ LocalSound(k, m) /\ call'[k] = m
      BY <2>2, Becomes DEF DraftInv, CallsSound, DraftTypeOK
    <3>2. command' = command  BY Becomes DEF DraftInv
    <3>3. \A x \in Locals : LocalSound(k, x) => LocalSound(k, x)'
      BY <1>1, <1>2, <3>2, LocalKept DEF DraftInv
    <3> QED  BY <3>1, <3>3
  <2> QED  BY <2>1, <2>2
<1> QED  BY <1>1, <1>3, <1>4, <1>5 DEF DraftInv

-----------------------------------------------------------------------------
(* The steps that leave the tables alone. *)

LEMMA CallKnown ==
    ASSUME DraftInv, NEW c \in Calls
    PROVE  /\ call[c] \in Locals /\ command[c] \in Commands /\ LocalSound(c, call[c])
           /\ \A d \in Drafts : heads[d] \in HeadRows
BY DEF DraftInv, DraftTypeOK, CallsSound

LEMMA AtLocal ==
    ASSUME NEW c \in Calls, call[c] \in Locals, NEW pc \in CallPcs
    PROVE  /\ At(c, pc) \in Locals /\ At(c, pc).pc = pc
           /\ At(c, pc).plan = call[c].plan /\ At(c, pc).on = call[c].on
           /\ At(c, pc).expect = call[c].expect /\ At(c, pc).seen = call[c].seen
           /\ At(c, pc).value = call[c].value
<1>1. At(c, pc) \in Locals  BY CallFields, LocalType DEF At
<1> QED  BY <1>1, LocalFields DEF At

LEMMA SeeingLocal ==
    ASSUME NEW c \in Calls, call[c] \in Locals, NEW pc \in CallPcs, NEW h \in HeadRows
    PROVE  /\ Seeing(c, pc, h) \in Locals /\ Seeing(c, pc, h).pc = pc
           /\ Seeing(c, pc, h).plan = call[c].plan /\ Seeing(c, pc, h).on = call[c].on
           /\ Seeing(c, pc, h).expect = call[c].expect /\ Seeing(c, pc, h).seen = h
           /\ Seeing(c, pc, h).value = call[c].value
<1>1. Seeing(c, pc, h) \in Locals  BY CallFields, LocalType DEF Seeing
<1> QED  BY <1>1, LocalFields DEF Seeing

LEMMA LookupStep == ASSUME DraftInv, NEW c \in Calls, CreateLookup(c) PROVE DraftInv'
<1> DEFINE entry == EntryAt(HttpSlot(c))
<1>1. TablesUnchanged  BY DEF CreateLookup
<1>2. ASSUME Become(c, At(c, "load")), command[c].kind = "create" PROVE DraftInv'
  <2>1. At(c, "load") \in Locals /\ At(c, "load").pc = "load"  BY CallKnown, AtLocal DEF CallPcs
  <2>2. LocalSound(c, At(c, "load"))  BY <1>2, <2>1, RestSound
  <2> QED  BY <1>1, <1>2, <2>1, <2>2, QuietStep
<1>3. ASSUME command[c].key # NoKey, entry.taken, Become(c, Answered(entry.value)) PROVE DraftInv'
  <2>1. HttpSlot(c) \in Slots /\ entry \in Entries
    BY <1>3, SlotTypes, EntryAtType DEF DraftInv
  <2>2. entry.value \in Values  BY <2>1, <1>3, EntryFields
  <2> QED  BY <1>1, <1>3, <2>2, AnsweredLocal, QuietStep
<1>4. ASSUME Become(c, Outside("conflict")) PROVE DraftInv'
  BY <1>1, <1>4, OutsideLocal, QuietStep DEF Final
<1> QED  BY <1>2, <1>3, <1>4 DEF CreateLookup

LEMMA CreateLoadStep == ASSUME DraftInv, NEW c \in Calls, CreateLoad(c) PROVE DraftInv'
<1> DEFINE parent == command[c].draft
<1>1. TablesUnchanged /\ parent \in Drafts \cup {NoDraft}
  BY CallKnown, CommandFields DEF CreateLoad
<1>2. CASE parent = NoDraft /\ Become(c, Planned("new", NoDraft, 0))
  BY <1>1, <1>2, PlannedLocal, QuietStep
<1>3. CASE Become(c, Outside("missing"))
  BY <1>1, <1>3, OutsideLocal, QuietStep DEF Final
<1>4. CASE /\ parent # NoDraft /\ Stored(parent)
           /\ \E plan \in {"new", "keep"} : Become(c, Planned(plan, parent, heads[parent].latest))
  <2>1. PICK plan \in {"new", "keep"} : Become(c, Planned(plan, parent, heads[parent].latest))
    BY <1>4
  <2>2. heads[parent].latest \in Nat /\ heads[parent].latest # 0
    BY <1>1, <1>4, CallKnown, HeadFields DEF Stored
  <2>3. command[c].kind = "create"
    BY CallKnown DEF CreateLoad, LocalSound, PlanSound
  <2> QED  BY <1>1, <1>4, <2>1, <2>2, <2>3, PlannedLocal, QuietStep
<1> QED  BY <1>2, <1>3, <1>4 DEF CreateLoad

LEMMA ReviseLoadStep == ASSUME DraftInv, NEW c \in Calls, ReviseLoad(c) PROVE DraftInv'
<1>1. command[c].draft \in Drafts /\ command[c].kind # "create"
  BY CallKnown, CommandFields DEF ReviseLoad
<1>2. command[c].draft # NoDraft  BY <1>1, DraftNames
<1> QED  BY <1>1, <1>2, PlannedLocal, QuietStep DEF ReviseLoad

LEMMA AnswerLoadStep == ASSUME DraftInv, NEW c \in Calls, AnswerLoad(c) PROVE DraftInv'
<1> DEFINE d == command[c].draft
           r == command[c].revision
           shown == Value(d, r, rows[d][r].by, c)
<1>1. /\ TablesUnchanged /\ d \in Drafts /\ r \in Nat /\ command[c].kind = "answer"
      /\ heads[d] \in HeadRows /\ d # NoDraft
  BY CallKnown, CommandFields, DraftNames DEF AnswerLoad
<1>2. CASE Become(c, Outside("missing")) \/ Become(c, Outside("stale"))
  BY <1>1, <1>2, OutsideLocal, QuietStep DEF Final
<1>3. CASE /\ Stored(d) /\ heads[d].latest = r
           /\ \E plan \in {"query", "talk"} :
                 Become(c, Local("turnHead", plan, d, r, NoHead, 0, shown))
  <2>1. PICK plan \in {"query", "talk"} :
           Become(c, Local("turnHead", plan, d, r, NoHead, 0, shown))
    BY <1>3
  <2> DEFINE l == Local("turnHead", plan, d, r, NoHead, 0, shown)
  <2>2. r > 0  BY <1>3 DEF Stored
  <2>3. rows[d] \in Seq(Revisions) /\ Len(rows[d]) = r
    BY <1>1, <1>3 DEF DraftInv, DraftTypeOK
  <2>4. rows[d][r] \in Revisions  BY <1>1, <2>2, <2>3, ElementOfSeq
  <2>5. rows[d][r].by \in Authors /\ c \in Authors  BY <2>4 DEF Revisions, Authors
  <2>6. shown \in Values /\ shown.draft = d /\ shown.revision = r /\ shown.reply = c
        /\ shown.by \in Authors
    BY <1>1, <2>5, ValueType
  <2>7. Written(shown)
    <3>1. PICK x : x = shown  OBVIOUS
    <3> HIDE DEF shown
    <3>2. /\ x.draft \in Drafts /\ Stored(x.draft) /\ x.by \in Authors /\ x.reply \in Calls
      BY <1>1, <1>3, <2>6, <3>1
    <3>3. x.draft = d /\ x.revision = r /\ heads[d].latest = r  BY <1>3, <2>6, <3>1
    <3>4. r \in 1..r  BY <1>1, <2>2
    <3>5. Written(x)  BY <3>2, <3>3, <3>4 DEF Written
    <3> QED  BY <3>1, <3>5
  <2>8. /\ l.pc = "turnHead" /\ l.plan = plan /\ l.on = d /\ l.expect = r /\ l.value = shown
    BY LocalFields
  <2>9. l \in Locals
    <3>1. "turnHead" \in CallPcs /\ plan \in Plans /\ 0 \in 0..(MaxAttempts - 1)
      BY AttemptsPositive DEF CallPcs, Plans
    <3> QED  BY <1>1, <2>6, <3>1, LocalType, NoHeadType
  <2>10. LocalSound(c, l)
    <3> HIDE DEF l, shown
    <3> QED  BY <2>6, <2>7, <2>8 DEF LocalSound, PlanSound, ReadSound, HeldSound, TurnSound
  <2> QED  BY <1>1, <2>1, <2>9, <2>10, QuietStep
<1>4. CASE /\ Stored(d) /\ heads[d].latest = r
           /\ \E plan \in {"revise", "new"} : Become(c, Planned(plan, d, r))
  <2>1. PICK plan \in {"revise", "new"} : Become(c, Planned(plan, d, r))
    BY <1>4
  <2> QED  BY <1>1, <2>1, PlannedLocal, QuietStep
<1> QED  BY <1>2, <1>3, <1>4 DEF AnswerLoad

LEMMA ReadHeadStep == ASSUME DraftInv, NEW c \in Calls, ReadHead(c) PROVE DraftInv'
<1> DEFINE d == call[c].on
           l == Seeing(c, "replay", heads[d])
<1>1. TablesUnchanged /\ call[c].pc = "head" /\ d # NoDraft /\ d \in Drafts
  BY CallKnown, CallFields DEF ReadHead
<1>2. CASE Become(c, Planned("new", NoDraft, 0))
  BY <1>1, <1>2, PlannedLocal, QuietStep
<1>3. CASE Become(c, Outside("missing")) \/ Become(c, Outside("stale"))
  BY <1>1, <1>3, OutsideLocal, QuietStep DEF Final
<1>4. CASE Stored(d) /\ call[c].expect \in {0, heads[d].latest} /\ Become(c, l)
  <2>1. heads[d] \in HeadRows /\ LocalSound(c, call[c]) /\ call[c] \in Locals
    BY <1>1, CallKnown
  <2>2. /\ l \in Locals /\ l.pc = "replay" /\ l.plan = call[c].plan /\ l.on = d
        /\ l.expect = call[c].expect /\ l.seen = heads[d]
    BY <2>1, SeeingLocal DEF CallPcs
  <2>3. SeenSound(d, heads[d])
    BY <1>1, <1>4, <2>1, HeadFields DEF SeenSound
  <2>4. LocalSound(c, l)
    <3> HIDE DEF l
    <3> QED  BY <1>1, <1>4, <2>1, <2>2, <2>3
         DEF LocalSound, PlanSound, ReadSound, HeldSound, TurnSound
  <2> QED  BY <1>1, <1>4, <2>2, <2>4, QuietStep
<1> QED  BY <1>2, <1>3, <1>4 DEF ReadHead

LEMMA ReadNoHeadStep == ASSUME DraftInv, NEW c \in Calls, ReadNoHead(c) PROVE DraftInv'
<1> DEFINE l == At(c, "replay")
<1>1. call[c].pc = "head" /\ call[c].on = NoDraft /\ TablesUnchanged /\ Become(c, l)
  BY DEF ReadNoHead
<1>2. call[c] \in Locals /\ LocalSound(c, call[c])  BY CallKnown
<1>3. /\ l \in Locals /\ l.pc = "replay" /\ l.plan = call[c].plan /\ l.on = call[c].on
      /\ l.expect = call[c].expect /\ l.seen = call[c].seen
  BY <1>2, AtLocal DEF CallPcs
<1>4. LocalSound(c, l)
  <2> HIDE DEF l
  <2> QED  BY <1>1, <1>2, <1>3 DEF LocalSound, PlanSound, ReadSound, HeldSound, TurnSound
<1> QED  BY <1>1, <1>3, <1>4, QuietStep

LEMMA HoldingLocal ==
    ASSUME NEW c \in Calls, call[c] \in Locals, NEW v \in Values,
           NEW pc \in {"answered", "remember", "turnHead"}
    PROVE  /\ Holding(c, pc, v) \in Locals /\ Holding(c, pc, v).pc = pc
           /\ Holding(c, pc, v).value = v
           /\ pc # "answered" => /\ Holding(c, pc, v).plan = call[c].plan
                                 /\ Holding(c, pc, v).on = call[c].on
                                 /\ Holding(c, pc, v).expect = call[c].expect
<1>1. CASE pc = "answered"
  BY <1>1, AnsweredLocal DEF Holding
<1>2. CASE pc # "answered"
  <2> DEFINE l == Local(pc, call[c].plan, call[c].on, call[c].expect, NoHead, 0, v)
  <2>1. Holding(c, pc, v) = l  BY <1>2 DEF Holding
  <2>2. pc \in CallPcs /\ 0 \in 0..(MaxAttempts - 1)  BY <1>2, AttemptsPositive DEF CallPcs
  <2>3. l \in Locals  BY <2>2, CallFields, LocalType, NoHeadType
  <2> QED  BY <2>1, <2>3, LocalFields
<1> QED  BY <1>1, <1>2

LEMMA AfterStoringIs ==
    ASSUME DraftInv, NEW c \in Calls, NEW replayed \in BOOLEAN
    PROVE  /\ AfterStoring(c, replayed) \in {"answered", "remember", "turnHead"}
           /\ command[c].kind = "create" /\ replayed => AfterStoring(c, replayed) = "remember"
           /\ AfterStoring(c, replayed) = "turnHead" => command[c].kind # "revise"
BY CallKnown, CommandFields DEF AfterStoring

LEMMA FindReplayStep == ASSUME DraftInv, NEW c \in Calls, FindReplay(c) PROVE DraftInv'
<1> DEFINE entry == EntryAt(StoreSlot(c))
<1>1. call[c].pc = "replay" /\ TablesUnchanged  BY DEF FindReplay
<1>2. call[c] \in Locals /\ LocalSound(c, call[c])  BY CallKnown
<1>3. CASE Become(c, At(c, "commit"))
  <2> DEFINE l == At(c, "commit")
  <2>1. /\ l \in Locals /\ l.pc = "commit" /\ l.plan = call[c].plan /\ l.on = call[c].on
        /\ l.expect = call[c].expect /\ l.seen = call[c].seen
    BY <1>2, AtLocal DEF CallPcs
  <2>2. LocalSound(c, l)
    <3> HIDE DEF l
    <3> QED  BY <1>1, <1>2, <2>1 DEF LocalSound, PlanSound, ReadSound, HeldSound, TurnSound
  <2> QED  BY <1>1, <1>3, <2>1, <2>2, QuietStep
<1>4. CASE entry.taken /\ Become(c, Holding(c, AfterStoring(c, TRUE), entry.value))
  <2> DEFINE l == Holding(c, AfterStoring(c, TRUE), entry.value)
  <2>1. StoreSlot(c) \in Slots \cup {NoSlot}
    BY <1>1, <1>2, SlotTypes DEF DraftInv, LocalSound, PlanSound
  <2>2. entry \in Entries /\ StoreSlot(c) \in Slots /\ entry = idempotency[StoreSlot(c)]
    BY <1>4, <2>1, EntryAtType DEF DraftInv
  <2>3. entry.value \in Values /\ Written(entry.value)
    BY <1>4, <2>2, EntryFields DEF DraftInv, EntriesSound
  <2>4. AfterStoring(c, TRUE) \in {"answered", "remember", "turnHead"}
    BY AfterStoringIs
  <2>5. /\ l \in Locals /\ l.pc = AfterStoring(c, TRUE) /\ l.value = entry.value
        /\ l.pc # "answered" => l.plan = call[c].plan
    <3>1. \A pc \in {"answered", "remember", "turnHead"}, v \in Values :
             /\ Holding(c, pc, v) \in Locals /\ Holding(c, pc, v).pc = pc
             /\ Holding(c, pc, v).value = v
             /\ pc # "answered" => Holding(c, pc, v).plan = call[c].plan
      BY <1>2, HoldingLocal
    <3> DEFINE next == AfterStoring(c, TRUE)
               v    == entry.value
    <3>2. next \in {"answered", "remember", "turnHead"} /\ v \in Values  BY <2>3, <2>4
    <3>3. /\ Holding(c, next, v) \in Locals /\ Holding(c, next, v).pc = next
          /\ Holding(c, next, v).value = v
          /\ next # "answered" => Holding(c, next, v).plan = call[c].plan
      <4> HIDE DEF next, v
      <4> QED  BY <3>1, <3>2
    <3> QED  BY <3>3
  <2>6. l.pc = "turnHead" => l.plan \notin {"keep", "talk"}
    <3>1. ASSUME l.pc = "turnHead" PROVE command[c].kind # "create"
      BY <2>5, <3>1, AfterStoringIs
    <3>2. call[c].plan \in {"new", "keep", "revise"}
          /\ (call[c].plan = "keep" => command[c].kind = "create")
      BY <1>1, <1>2 DEF LocalSound, PlanSound
    <3> QED  BY <2>5, <3>1, <3>2
  <2>7. LocalSound(c, l)
    <3> HIDE DEF l
    <3> QED  BY <2>3, <2>4, <2>5, <2>6 DEF LocalSound, PlanSound, ReadSound, HeldSound, TurnSound
  <2> QED  BY <1>1, <1>4, <2>5, <2>7, QuietStep
<1>5. CASE Become(c, Outside("conflict"))
  BY <1>1, <1>5, OutsideLocal, QuietStep DEF Final
<1> QED  BY <1>3, <1>4, <1>5 DEF FindReplay

(* A transaction that lost is back where it began. *)
LEMMA AttemptedLocal ==
    ASSUME DraftInv, NEW c \in Calls, NEW pc \in {"head", "turnHead"},
           pc = "head" => call[c].pc = "commit",
           pc = "turnHead" => call[c].pc = "turnCommit"
    PROVE  Attempted(c, pc) \in Locals /\ LocalSound(c, Attempted(c, pc))
<1>1. call[c] \in Locals /\ LocalSound(c, call[c])  BY CallKnown
<1>2. CASE call[c].tries + 1 = MaxAttempts
  BY <1>2, OutsideLocal DEF Attempted, Final
<1>3. CASE call[c].tries + 1 # MaxAttempts
  <2> DEFINE l == Local(pc, call[c].plan, call[c].on, call[c].expect, NoHead, call[c].tries + 1,
                        call[c].value)
  <2>1. Attempted(c, pc) = l  BY <1>3 DEF Attempted
  <2>2. pc \in CallPcs  BY DEF CallPcs
  <2>3. call[c].tries + 1 \in 0..(MaxAttempts - 1)
    BY <1>1, <1>3, CallFields, AttemptsPositive
  <2>4. l \in Locals  BY <1>1, <2>2, <2>3, CallFields, LocalType, NoHeadType
  <2>5. /\ l.pc = pc /\ l.plan = call[c].plan /\ l.on = call[c].on /\ l.seen = NoHead
        /\ l.expect = call[c].expect /\ l.value = call[c].value
    BY LocalFields
  <2>6. LocalSound(c, l)
    <3> HIDE DEF l
    <3> QED  BY <1>1, <2>5 DEF LocalSound, PlanSound, ReadSound, HeldSound, TurnSound
  <2> QED  BY <2>1, <2>4, <2>6
<1> QED  BY <1>2, <1>3

LEMMA CommitLostStep == ASSUME DraftInv, NEW c \in Calls, CommitLost(c) PROVE DraftInv'
<1>1. call[c].pc = "commit" /\ TablesUnchanged /\ Become(c, Attempted(c, "head"))
  BY DEF CommitLost
<1>2. Attempted(c, "head") \in Locals /\ LocalSound(c, Attempted(c, "head"))
  BY <1>1, AttemptedLocal
<1> QED  BY <1>1, <1>2, QuietStep

LEMMA TurnLostStep == ASSUME DraftInv, NEW c \in Calls, TurnLost(c) PROVE DraftInv'
<1>1. call[c].pc = "turnCommit" /\ TablesUnchanged /\ Become(c, Attempted(c, "turnHead"))
  BY DEF TurnLost
<1>2. Attempted(c, "turnHead") \in Locals /\ LocalSound(c, Attempted(c, "turnHead"))
  BY <1>1, AttemptedLocal
<1> QED  BY <1>1, <1>2, QuietStep

LEMMA ReadTurnsStep == ASSUME DraftInv, NEW c \in Calls, ReadTurns(c) PROVE DraftInv'
<1> DEFINE d == call[c].value.draft
           r == call[c].value.revision
           l == Seeing(c, "turnCommit", heads[d])
<1>1. call[c].pc = "turnHead" /\ TablesUnchanged  BY DEF ReadTurns
<1>2. call[c] \in Locals /\ LocalSound(c, call[c])  BY CallKnown
<1>3. Written(call[c].value) /\ heads[d] \in HeadRows
  BY <1>1, <1>2, CallKnown DEF LocalSound, HeldSound, Written
<1>4. CASE Become(c, Outside("stale"))
  BY <1>1, <1>4, OutsideLocal, QuietStep DEF Final
<1>5. CASE /\ ~(r > heads[d].latest \/ (NeedsLatest(c) /\ r # heads[d].latest))
           /\ Become(c, l)
  <2>1. /\ l \in Locals /\ l.pc = "turnCommit" /\ l.plan = call[c].plan /\ l.on = call[c].on
        /\ l.expect = call[c].expect /\ l.seen = heads[d] /\ l.value = call[c].value
    BY <1>2, <1>3, SeeingLocal DEF CallPcs
  <2>2. SeenSound(d, heads[d])  BY <1>3, HeadFields DEF SeenSound, Written
  <2>3. r <= heads[d].latest /\ (call[c].plan \in {"keep", "talk"} => r = heads[d].latest)
    BY <1>3, <1>5 DEF NeedsLatest, Written
  <2>4. LocalSound(c, l)
    <3> HIDE DEF l
    <3> QED  BY <1>1, <1>2, <1>3, <2>1, <2>2, <2>3
         DEF LocalSound, PlanSound, ReadSound, HeldSound, TurnSound
  <2> QED  BY <1>1, <1>5, <2>1, <2>4, QuietStep
<1> QED  BY <1>4, <1>5 DEF ReadTurns

LEMMA DieStep == ASSUME DraftInv, NEW c \in Calls, Die(c) PROVE DraftInv'
BY OutsideLocal, QuietStep DEF Die, Final

-----------------------------------------------------------------------------
(* The steps that store something. *)

LEMMA StoringStep ==
    ASSUME DraftInv, NEW c \in Calls, NEW l \in Locals, Become(c, l), DraftTypeOK', Grows,
           HeadsSound', EntriesSound', LocalSound(c, l)'
    PROVE  DraftInv'
<1>1. CallsSound'
  <2> SUFFICES ASSUME NEW k \in Calls PROVE LocalSound(k, call[k])'
    BY DEF CallsSound
  <2>1. CASE k = c
    <3>1. call'[k] = l  BY <2>1, Becomes DEF DraftInv
    <3> QED  BY <3>1, <2>1
  <2>2. CASE k # c
    <3> DEFINE m == call[k]
    <3>1. m \in Locals /\ LocalSound(k, m) /\ call'[k] = m
      BY <2>2, Becomes DEF DraftInv, CallsSound, DraftTypeOK
    <3>2. command' = command  BY Becomes DEF DraftInv
    <3>3. \A x \in Locals : LocalSound(k, x) => LocalSound(k, x)'
      BY <3>2, LocalKept DEF DraftInv
    <3> QED  BY <3>1, <3>3
  <2> QED  BY <2>1, <2>2
<1> QED  BY <1>1 DEF DraftInv

LEMMA PutType ==
    ASSUME DraftInv, NEW c \in Calls, NEW slot \in Slots \cup {NoSlot}, NEW v \in Values,
           Put(slot, c, v)
    PROVE  /\ idempotency' \in [Slots -> Entries]
           /\ \A s \in Slots : idempotency'[s] # idempotency[s] =>
                 s = slot /\ idempotency'[s].taken /\ idempotency'[s].value = v
<1>1. Entry(Hash(c), v) \in Entries /\ Entry(Hash(c), v).taken /\ Entry(Hash(c), v).value = v
  BY SlotTypes, EntryType DEF DraftInv
<1>2. idempotency \in [Slots -> Entries]  BY DEF DraftInv, DraftTypeOK
<1>3. CASE slot = NoSlot  BY <1>2, <1>3 DEF Put
<1>4. CASE slot # NoSlot
  <2>1. idempotency' = [idempotency EXCEPT ![slot] = Entry(Hash(c), v)] /\ slot \in Slots
    BY <1>4 DEF Put
  <2> QED  BY <1>1, <1>2, <2>1
<1> QED  BY <1>3, <1>4

LEMMA PutSound ==
    ASSUME DraftInv, DraftTypeOK', Grows, NEW c \in Calls, NEW slot \in Slots \cup {NoSlot},
           NEW v \in Values, Put(slot, c, v), Written(v)'
    PROVE  EntriesSound'
<1> SUFFICES ASSUME NEW s \in Slots, idempotency'[s].taken PROVE Written(idempotency[s].value)'
  BY DEF EntriesSound
<1>1. CASE idempotency'[s] = idempotency[s]
  <2> DEFINE w == idempotency[s].value
  <2>1. Written(w)  BY <1>1 DEF DraftInv, EntriesSound
  <2>2. \A x : Written(x) => Written(x)'  BY WrittenKept DEF DraftInv
  <2> QED  BY <1>1, <2>1, <2>2
<1>2. CASE idempotency'[s] # idempotency[s]
  <2>1. idempotency'[s].value = v  BY <1>2, PutType
  <2> QED  BY <2>1
<1> QED  BY <1>1, <1>2

LEMMA RememberStep == ASSUME DraftInv, NEW c \in Calls, RememberAnswer(c) PROVE DraftInv'
<1> DEFINE entry == EntryAt(HttpSlot(c))
<1>1. call[c].pc = "remember" /\ UNCHANGED <<heads, rows>>  BY DEF RememberAnswer
<1>2. call[c] \in Locals /\ LocalSound(c, call[c])  BY CallKnown
<1>3. Written(call[c].value)  BY <1>1, <1>2 DEF LocalSound, HeldSound
<1>4. call[c].value \in Values
  <2>1. NoValue.reply = NoCall  BY DEF NoValue, Value
  <2>2. call[c].value # NoValue  BY <1>3, <2>1, DraftNames DEF Written
  <2> QED  BY <1>2, <2>2, CallFields
<1>5. Response(c) \in Values /\ Written(Response(c))
  <2>1. CASE call[c].plan = "keep"  BY <1>3, <1>4, <2>1 DEF Response
  <2>2. CASE call[c].plan # "keep"
    <3> DEFINE v == call[c].value
    <3>1. v.draft \in Drafts /\ v.revision \in Nat /\ v.by \in Authors /\ c \in Authors
      BY <1>4, ValueFields DEF Authors
    <3>2. Response(c) = Value(v.draft, v.revision, v.by, c)  BY <2>2 DEF Response
    <3>3. Response(c) \in Values /\ Response(c).draft = v.draft
          /\ Response(c).revision = v.revision /\ Response(c).by = v.by /\ Response(c).reply = c
      BY <3>1, <3>2, ValueType
    <3> QED  BY <1>3, <3>3 DEF Written
  <2> QED  BY <2>1, <2>2
<1>6. command[c].key # NoKey => HttpSlot(c) \in Slots /\ entry \in Entries
  BY SlotTypes, EntryAtType DEF DraftInv
<1>7. CASE Become(c, Answered(Response(c))) /\ UNCHANGED idempotency
  BY <1>1, <1>5, <1>7, AnsweredLocal, QuietStep DEF TablesUnchanged
<1>8. CASE /\ command[c].key # NoKey /\ Become(c, Answered(Response(c)))
           /\ Put(HttpSlot(c), c, Response(c))
  <2> DEFINE l == Answered(Response(c))
             v == Response(c)
  <2>1. l \in Locals /\ l.pc = "answered"  BY <1>5, AnsweredLocal
  <2>2. idempotency' \in [Slots -> Entries]
    BY <1>5, <1>6, <1>8, PutType
  <2>3. DraftTypeOK'
    BY <1>1, <1>8, <2>1, <2>2, Becomes DEF DraftInv, DraftTypeOK
  <2>4. Grows  BY <1>1, HeadFields DEF DraftInv, DraftTypeOK, Grows
  <2>5. HeadsSound'  BY <1>1 DEF DraftInv, HeadsSound, Stored
  <2>6. \A x : Written(x) => Written(x)'  BY <2>3, <2>4, WrittenKept DEF DraftInv
  <2>7. \A x \in Values : Put(HttpSlot(c), c, x) /\ Written(x)' => EntriesSound'
    BY <1>6, <1>8, <2>3, <2>4, PutSound
  <2>8. EntriesSound'
    BY <1>5, <1>8, <2>6, <2>7
  <2>9. \A x \in Locals : x.pc = "answered" => LocalSound(c, x)'
    BY DEF LocalSound, PlanSound, ReadSound, HeldSound, TurnSound
  <2>10. \A x \in Locals : Become(c, x) /\ LocalSound(c, x)' => DraftInv'
    BY <2>3, <2>4, <2>5, <2>8, StoringStep
  <2> QED  BY <1>8, <2>1, <2>9, <2>10
<1>9. CASE /\ command[c].key # NoKey /\ entry.taken /\ UNCHANGED idempotency
           /\ Become(c, Answered(entry.value))
  <2>1. entry.value \in Values  BY <1>6, <1>9, EntryFields
  <2> QED  BY <1>1, <1>9, <2>1, AnsweredLocal, QuietStep DEF TablesUnchanged
<1>10. CASE Become(c, Outside("conflict")) /\ UNCHANGED idempotency
  BY <1>1, <1>10, OutsideLocal, QuietStep DEF Final, TablesUnchanged
<1> QED  BY <1>7, <1>8, <1>9, <1>10 DEF RememberAnswer

-----------------------------------------------------------------------------
(* The storing transaction. *)

(* The row a commit replaces is the row its transaction read. *)
LEMMA CommitReads ==
    ASSUME DraftInv, NEW c \in Calls, call[c].pc = "commit", Swaps(c, call[c].on)
    PROVE  /\ call[c].on # NoDraft =>
                 /\ call[c].on \in Drafts /\ Stored(call[c].on)
                 /\ call[c].seen = heads[call[c].on]
                 /\ call[c].expect \in {0, heads[call[c].on].latest}
           /\ call[c].on = NoDraft => call[c].seen = NoHead
           /\ call[c].seen \in HeadRows /\ Kept(call[c].seen.turns) = call[c].seen.turns
           /\ StoreSlot(c) \in Slots \cup {NoSlot}
<1> DEFINE d    == call[c].on
           seen == call[c].seen
<1>1. call[c] \in Locals /\ LocalSound(c, call[c])  BY CallKnown
<1>2. seen \in HeadRows /\ seen.turns \in Seq(Turns) /\ d \in Drafts \cup {NoDraft}
  BY <1>1, CallFields, HeadFields
<1>3. ASSUME d # NoDraft
      PROVE  /\ d \in Drafts /\ Stored(d) /\ seen = heads[d]
             /\ call[c].expect \in {0, heads[d].latest}
  <2>1. SeenSound(d, seen) /\ call[c].expect \in {0, seen.latest}
    BY <1>1, <1>3 DEF LocalSound, ReadSound
  <2>2. heads[d].version = seen.version  BY <1>3 DEF Swaps
  <2> QED  BY <2>1, <2>2 DEF SeenSound
<1>4. d = NoDraft => seen = NoHead  BY <1>1 DEF LocalSound, PlanSound
<1>5. Len(seen.turns) <= HistoryLimit
  <2>1. CASE d # NoDraft  BY <1>3, <2>1 DEF DraftInv, HeadsSound
  <2>2. CASE d = NoDraft
    <3>1. seen.turns = <<>>  BY <1>4, <2>2 DEF NoHead
    <3> QED  BY <3>1, EmptySeq, HistoryLimitPositive
  <2> QED  BY <2>1, <2>2
<1>6. Kept(seen.turns) = seen.turns  BY <1>2, <1>5, KeptType
<1>7. StoreSlot(c) \in Slots \cup {NoSlot}
  BY <1>1, SlotTypes DEF DraftInv, LocalSound, PlanSound
<1> QED  BY <1>2, <1>3, <1>4, <1>6, <1>7

(* The request holds what it stored. *)
LEMMA StoredLocal ==
    ASSUME DraftInv, NEW c \in Calls, call[c].pc = "commit", NEW v \in Values, Written(v)',
           call[c].plan = "keep" => v.draft = call[c].on /\ call[c].expect = v.revision,
           NEW l, l = Holding(c, AfterStoring(c, FALSE), v)
    PROVE  l \in Locals /\ LocalSound(c, l)'
<1> DEFINE next == AfterStoring(c, FALSE)
<1>1. call[c] \in Locals /\ LocalSound(c, call[c])  BY CallKnown
<1>2. next \in {"answered", "turnHead"}  BY DEF AfterStoring
<1>3. /\ l \in Locals /\ l.pc = next /\ l.value = v
      /\ next # "answered" => /\ l.plan = call[c].plan /\ l.on = call[c].on
                              /\ l.expect = call[c].expect
  <2> HIDE DEF next
  <2>1. l = Holding(c, next, v)  BY DEF next
  <2>2. \A pc \in {"answered", "remember", "turnHead"} :
           /\ Holding(c, pc, v) \in Locals /\ Holding(c, pc, v).pc = pc
           /\ Holding(c, pc, v).value = v
           /\ pc # "answered" => /\ Holding(c, pc, v).plan = call[c].plan
                                 /\ Holding(c, pc, v).on = call[c].on
                                 /\ Holding(c, pc, v).expect = call[c].expect
    BY <1>1, HoldingLocal
  <2>3. next \in {"answered", "remember", "turnHead"}  BY <1>2
  <2> QED  BY <2>1, <2>2, <2>3
<1>4. call[c].plan \in {"new", "keep", "revise"}  BY <1>1 DEF LocalSound, PlanSound
<1>5. l.pc \in {"answered", "turnHead"}
      /\ (l.pc = "turnHead" => /\ l.plan # "talk"
                               /\ l.plan = "keep" => v.draft = l.on /\ l.expect = v.revision)
  <2> HIDE DEF next
  <2> QED  BY <1>2, <1>3, <1>4
<1>6. LocalSound(c, l)'
  BY <1>3, <1>5 DEF LocalSound, PlanSound, ReadSound, HeldSound, TurnSound
<1> QED  BY <1>3, <1>6

LEMMA StoredStep ==
    ASSUME DraftInv, NEW c \in Calls, call[c].pc = "commit", NEW v \in Values, Written(v)',
           call[c].plan = "keep" => v.draft = call[c].on /\ call[c].expect = v.revision,
           StoreSlot(c) \in Slots \cup {NoSlot}, Put(StoreSlot(c), c, v),
           Become(c, Holding(c, AfterStoring(c, FALSE), v)),
           heads' \in [Drafts -> HeadRows], rows' \in [Drafts -> Seq(Revisions)],
           \A d \in Drafts : Len(rows'[d]) = heads'[d].latest,
           Grows, HeadsSound'
    PROVE  DraftInv'
<1>1. command' = command  BY DEF Become
<1>2. PICK l : l = Holding(c, AfterStoring(c, FALSE), v)  OBVIOUS
<1>3. l \in Locals /\ LocalSound(c, l)' /\ Become(c, l)
  BY <1>2, StoredLocal
<1>4. DraftTypeOK'
  BY <1>1, <1>3, Becomes, PutType DEF DraftInv, DraftTypeOK
<1>5. EntriesSound'  BY <1>4, PutSound
<1> QED  BY <1>3, <1>4, <1>5, StoringStep

(* One head row replaced by a later one. *)
LEMMA Swapping ==
    ASSUME DraftInv, NEW d \in Drafts, NEW h \in HeadRows, Stored(d),
           heads' = [heads EXCEPT ![d] = h],
           h.latest >= heads[d].latest, h.version = heads[d].version + 1,
           Len(h.turns) <= HistoryLimit
    PROVE  /\ heads' \in [Drafts -> HeadRows] /\ heads'[d] = h
           /\ \A e \in Drafts \ {d} : heads'[e] = heads[e]
           /\ Grows /\ HeadsSound'
<1>1. heads \in [Drafts -> HeadRows]  BY DEF DraftInv, DraftTypeOK
<1>2. /\ heads' \in [Drafts -> HeadRows] /\ heads'[d] = h
      /\ \A e \in Drafts \ {d} : heads'[e] = heads[e]
  BY <1>1
<1>3. Grows
  <2> SUFFICES ASSUME NEW e \in Drafts, Stored(e)
               PROVE  /\ heads[e].latest <= heads'[e].latest
                      /\ heads[e].version <= heads'[e].version
                      /\ heads'[e].version = heads[e].version => heads'[e] = heads[e]
    BY DEF Grows
  <2>1. heads[e].latest \in Nat /\ heads[e].version \in Nat
        /\ h.latest \in Nat /\ h.version \in Nat
    BY <1>1, HeadFields
  <2>2. CASE e = d  BY <1>2, <2>1, <2>2
  <2>3. CASE e # d  BY <1>2, <2>1, <2>3
  <2> QED  BY <2>2, <2>3
<1>4. HeadsSound'
  <2>1. heads[d].latest \in Nat /\ h.latest \in Nat  BY <1>1, HeadFields
  <2>2. h.latest > 0  BY <2>1 DEF Stored
  <2> QED  BY <1>2, <2>2 DEF HeadsSound, Stored, DraftInv
<1> QED  BY <1>2, <1>3, <1>4

(* What each commit does to the tables, whatever it read. *)
LEMMA KeepDoes ==
    ASSUME DraftInv, NEW c \in Calls, CommitKeep(c)
    PROVE  LET d == call[c].on
               h == HeadRow(heads[d].latest, heads[d].version + 1, heads[d].turns)
               v == Value(d, heads[d].latest, c, c)
           IN  /\ d \in Drafts /\ Stored(d) /\ h \in HeadRows /\ v \in Values
               /\ call[c].expect = heads[d].latest
               /\ heads' = [heads EXCEPT ![d] = h] /\ UNCHANGED rows
               /\ StoreSlot(c) \in Slots \cup {NoSlot}
               /\ ~EntryAt(StoreSlot(c)).taken
               /\ Put(StoreSlot(c), c, v)
               /\ Become(c, Holding(c, AfterStoring(c, FALSE), v))
<1> DEFINE d == call[c].on
<1>1. call[c].pc = "commit" /\ call[c].plan = "keep" /\ Swaps(c, d)
  BY DEF CommitKeep
<1>2. LocalSound(c, call[c])  BY CallKnown
<1>3. d # NoDraft /\ call[c].expect # 0  BY <1>1, <1>2 DEF LocalSound, PlanSound
<1>4. /\ d \in Drafts /\ Stored(d) /\ call[c].seen = heads[d]
      /\ call[c].expect = heads[d].latest
      /\ Kept(call[c].seen.turns) = call[c].seen.turns
      /\ StoreSlot(c) \in Slots \cup {NoSlot}
  BY <1>1, <1>3, CommitReads
<1>5. /\ heads[d].latest \in Nat /\ heads[d].version \in Nat
      /\ heads[d].turns \in Seq(Turns) /\ c \in Authors
  BY <1>4, CallKnown, HeadFields DEF Authors
<1>6. heads[d].version + 1 \in Nat  BY <1>5
<1>7. HeadRow(heads[d].latest, heads[d].version + 1, heads[d].turns) \in HeadRows
  BY <1>5, <1>6, HeadRowType
<1>8. Value(d, heads[d].latest, c, c) \in Values  BY <1>4, <1>5, ValueType
<1> QED  BY <1>4, <1>7, <1>8 DEF CommitKeep, Swapped

LEMMA CommitKeepStep == ASSUME DraftInv, NEW c \in Calls, CommitKeep(c) PROVE DraftInv'
<1> DEFINE d == call[c].on
           h == HeadRow(heads[d].latest, heads[d].version + 1, heads[d].turns)
           v == Value(d, heads[d].latest, c, c)
<1>1. /\ d \in Drafts /\ Stored(d) /\ h \in HeadRows /\ v \in Values
      /\ call[c].expect = heads[d].latest
      /\ heads' = [heads EXCEPT ![d] = h] /\ UNCHANGED rows
      /\ StoreSlot(c) \in Slots \cup {NoSlot}
      /\ Put(StoreSlot(c), c, v)
      /\ Become(c, Holding(c, AfterStoring(c, FALSE), v))
  BY KeepDoes
<1>2. /\ heads[d].latest \in Nat /\ heads[d].version \in Nat
      /\ heads[d].turns \in Seq(Turns) /\ c \in Authors /\ heads[d].latest > 0
  BY <1>1, CallKnown, HeadFields DEF Authors, Stored
<1>3. /\ h.latest = heads[d].latest /\ h.version = heads[d].version + 1
      /\ h.turns = heads[d].turns
  <2>1. heads[d].version + 1 \in Nat  BY <1>2
  <2> QED  BY <1>2, <2>1, HeadRowType
<1>4. Len(heads[d].turns) <= HistoryLimit  BY <1>1 DEF DraftInv, HeadsSound
<1>5. /\ heads' \in [Drafts -> HeadRows] /\ heads'[d] = h
      /\ \A e \in Drafts \ {d} : heads'[e] = heads[e]
      /\ Grows /\ HeadsSound'
  <2> HIDE DEF h
  <2>1. h.latest >= heads[d].latest  BY <1>2, <1>3
  <2> QED  BY <1>1, <1>3, <1>4, <2>1, Swapping
<1>6. rows' \in [Drafts -> Seq(Revisions)] /\ \A e \in Drafts : Len(rows'[e]) = heads'[e].latest
  BY <1>1, <1>3, <1>5 DEF DraftInv, DraftTypeOK
<1>7. PICK x : x = v  OBVIOUS
<1>8. /\ x \in Values /\ x.draft = d /\ x.revision = heads[d].latest /\ x.reply = c
      /\ x.by = c
  <2>1. \A k \in Nat : /\ Value(d, k, c, c) \in Values /\ Value(d, k, c, c).draft = d
                       /\ Value(d, k, c, c).revision = k /\ Value(d, k, c, c).reply = c
                       /\ Value(d, k, c, c).by = c
    <3>1. d \in Drafts /\ c \in Authors  BY <1>1, <1>2
    <3> QED  BY <3>1, ValueType
  <2> QED  BY <1>1, <1>2, <1>7, <2>1
<1>9. Written(x)'
  <2>1. heads'[d].latest = heads[d].latest  BY <1>3, <1>5
  <2> QED  BY SMTT(30), <1>1, <1>2, <1>8, <2>1 DEF Written, Stored
<1>10. Put(StoreSlot(c), c, x) /\ Become(c, Holding(c, AfterStoring(c, FALSE), x))
  BY <1>1, <1>7
<1>11. call[c].pc = "commit"  BY DEF CommitKeep
<1> HIDE DEF h, v
<1> QED  BY <1>1, <1>5, <1>6, <1>8, <1>9, <1>10, <1>11, StoredStep

LEMMA Appended ==
    ASSUME NEW S, NEW q \in Seq(S), NEW a \in S
    PROVE  /\ Append(q, a) \in Seq(S) /\ Len(Append(q, a)) = Len(q) + 1
           /\ Append(q, a) = [n \in 1..(Len(q) + 1) |-> IF n = Len(q) + 1 THEN a ELSE q[n]]
<1>1. /\ Append(q, a) \in Seq(S) /\ Len(Append(q, a)) = Len(q) + 1 /\ Len(q) \in Nat
      /\ \A i \in 1..Len(q) : Append(q, a)[i] = q[i]
      /\ Append(q, a)[Len(q) + 1] = a
  BY AppendProperties, LenProperties
<1>2. Append(q, a) \in [1..(Len(q) + 1) -> S]  BY <1>1, LenProperties
<1>3. \A n \in 1..(Len(q) + 1) :
         Append(q, a)[n] = IF n = Len(q) + 1 THEN a ELSE q[n]
  BY <1>1
<1> QED  BY <1>1, <1>2, <1>3

LEMMA ReviseDoes ==
    ASSUME DraftInv, NEW c \in Calls, CommitRevise(c)
    PROVE  LET d == call[c].on
               n == heads[d].latest
               h == HeadRow(n + 1, heads[d].version + 1, heads[d].turns)
               v == Value(d, n + 1, c, c)
               a == Revision(c, rows[d][n].parent)
           IN  /\ d \in Drafts /\ Stored(d) /\ h \in HeadRows /\ v \in Values /\ a \in Revisions
               /\ call[c].expect \in {0, n}
               /\ rows[d] \in Seq(Revisions) /\ Len(rows[d]) = n
               /\ heads' = [heads EXCEPT ![d] = h]
               /\ rows' = [rows EXCEPT ![d] = Append(rows[d], a)]
               /\ StoreSlot(c) \in Slots \cup {NoSlot}
               /\ ~EntryAt(StoreSlot(c)).taken
               /\ Put(StoreSlot(c), c, v)
               /\ Become(c, Holding(c, AfterStoring(c, FALSE), v))
<1> DEFINE d == call[c].on
           n == heads[d].latest
           a == Revision(c, rows[d][n].parent)
<1>1. call[c].pc = "commit" /\ call[c].plan = "revise" /\ Swaps(c, d)
  BY DEF CommitRevise
<1>2. LocalSound(c, call[c])  BY CallKnown
<1>3. d # NoDraft  BY <1>1, <1>2 DEF LocalSound, PlanSound
<1>4. /\ d \in Drafts /\ Stored(d) /\ call[c].seen = heads[d]
      /\ call[c].expect \in {0, n}
      /\ Kept(call[c].seen.turns) = call[c].seen.turns
      /\ StoreSlot(c) \in Slots \cup {NoSlot}
  BY <1>1, <1>3, CommitReads
<1>5. /\ n \in Nat /\ heads[d].version \in Nat /\ n > 0
      /\ heads[d].turns \in Seq(Turns) /\ c \in Authors
  BY <1>4, CallKnown, HeadFields DEF Authors, Stored
<1>6. heads[d].version + 1 \in Nat /\ n + 1 \in Nat  BY <1>5
<1>7. HeadRow(n + 1, heads[d].version + 1, heads[d].turns) \in HeadRows
  BY <1>5, <1>6, HeadRowType
<1>8. /\ Value(d, n + 1, c, c) \in Values /\ Value(d, n + 1, c, c).revision = n + 1
  BY <1>4, <1>5, <1>6, ValueType
<1>9. rows \in [Drafts -> Seq(Revisions)] /\ rows[d] \in Seq(Revisions) /\ Len(rows[d]) = n
  BY <1>4 DEF DraftInv, DraftTypeOK
<1>10. rows[d][n] \in Revisions  BY <1>5, <1>9, ElementOfSeq
<1>11. a \in Revisions  BY <1>5, <1>10 DEF Revision, Revisions
<1>12. rows' = [rows EXCEPT ![d] = Append(rows[d], a)]
  <2>1. rows' = [rows EXCEPT ![d] = [i \in 1..(n + 1) |-> IF i = n + 1 THEN a ELSE @[i]]]
    BY <1>4, <1>8 DEF CommitRevise
  <2>2. [i \in 1..(n + 1) |-> IF i = n + 1 THEN a ELSE rows[d][i]] = Append(rows[d], a)
    <3>1. \A x \in Revisions, q \in Seq(Revisions) : Len(q) = n =>
             [i \in 1..(n + 1) |-> IF i = n + 1 THEN x ELSE q[i]] = Append(q, x)
      BY Appended
    <3> HIDE DEF a
    <3> QED  BY <1>9, <1>11, <3>1
  <2> HIDE DEF a
  <2> QED  BY <1>4, <1>9, <2>1, <2>2
<1>13. /\ heads' = [heads EXCEPT ![d] = HeadRow(n + 1, heads[d].version + 1, heads[d].turns)]
       /\ ~EntryAt(StoreSlot(c)).taken
       /\ Put(StoreSlot(c), c, Value(d, n + 1, c, c))
       /\ Become(c, Holding(c, AfterStoring(c, FALSE), Value(d, n + 1, c, c)))
  BY <1>4, <1>8 DEF CommitRevise, Swapped
<1> QED  BY <1>4, <1>7, <1>8, <1>9, <1>11, <1>12, <1>13

LEMMA CommitReviseStep == ASSUME DraftInv, NEW c \in Calls, CommitRevise(c) PROVE DraftInv'
<1> DEFINE d == call[c].on
           n == heads[d].latest
           h == HeadRow(n + 1, heads[d].version + 1, heads[d].turns)
           v == Value(d, n + 1, c, c)
           a == Revision(c, rows[d][n].parent)
<1>1. /\ d \in Drafts /\ Stored(d) /\ h \in HeadRows /\ v \in Values /\ a \in Revisions
      /\ rows[d] \in Seq(Revisions) /\ Len(rows[d]) = n
      /\ heads' = [heads EXCEPT ![d] = h]
      /\ rows' = [rows EXCEPT ![d] = Append(rows[d], a)]
      /\ StoreSlot(c) \in Slots \cup {NoSlot}
      /\ Put(StoreSlot(c), c, v)
      /\ Become(c, Holding(c, AfterStoring(c, FALSE), v))
  BY ReviseDoes
<1>2. /\ n \in Nat /\ heads[d].version \in Nat /\ heads[d].turns \in Seq(Turns)
      /\ c \in Authors /\ n > 0
  BY <1>1, CallKnown, HeadFields DEF Authors, Stored
<1>3. n + 1 \in Nat /\ heads[d].version + 1 \in Nat  BY <1>2
<1>4. /\ h.latest = n + 1 /\ h.version = heads[d].version + 1 /\ h.turns = heads[d].turns
  BY <1>2, <1>3, HeadRowType
<1>5. Len(heads[d].turns) <= HistoryLimit  BY <1>1 DEF DraftInv, HeadsSound
<1>6. /\ heads' \in [Drafts -> HeadRows] /\ heads'[d] = h
      /\ \A e \in Drafts \ {d} : heads'[e] = heads[e]
      /\ Grows /\ HeadsSound'
  <2> HIDE DEF h
  <2>1. h.latest >= heads[d].latest  BY <1>2, <1>4
  <2> QED  BY <1>1, <1>4, <1>5, <2>1, Swapping
<1>7. rows' \in [Drafts -> Seq(Revisions)] /\ \A e \in Drafts : Len(rows'[e]) = heads'[e].latest
  <2>1. Append(rows[d], a) \in Seq(Revisions) /\ Len(Append(rows[d], a)) = n + 1
    <3> HIDE DEF a
    <3> QED  BY <1>1, Appended
  <2> HIDE DEF a, h
  <2>2. rows \in [Drafts -> Seq(Revisions)] /\ \A e \in Drafts : Len(rows[e]) = heads[e].latest
    BY DEF DraftInv, DraftTypeOK
  <2>3. rows' \in [Drafts -> Seq(Revisions)] /\ rows'[d] = Append(rows[d], a)
        /\ \A e \in Drafts \ {d} : rows'[e] = rows[e]
    BY <1>1, <2>1, <2>2
  <2> QED  BY <1>4, <1>6, <2>1, <2>2, <2>3
<1>8. PICK x : x = v  OBVIOUS
<1>9. x \in Values /\ x.draft = d /\ x.revision = n + 1 /\ x.reply = c /\ x.by = c
  <2>1. \A k \in Nat : /\ Value(d, k, c, c) \in Values /\ Value(d, k, c, c).draft = d
                       /\ Value(d, k, c, c).revision = k /\ Value(d, k, c, c).reply = c
                       /\ Value(d, k, c, c).by = c
    <3>1. d \in Drafts /\ c \in Authors  BY <1>1, <1>2
    <3> QED  BY <3>1, ValueType
  <2> QED  BY <1>3, <1>8, <2>1
<1>10. Written(x)'
  <2>1. heads'[d].latest = n + 1  BY <1>4, <1>6
  <2>2. n + 1 > 0 /\ n + 1 \in 1..(n + 1)  BY <1>2
  <2> QED  BY <1>1, <1>2, <1>9, <2>1, <2>2 DEF Written, Stored
<1>11. Put(StoreSlot(c), c, x) /\ Become(c, Holding(c, AfterStoring(c, FALSE), x))
  BY <1>1, <1>8
<1>12. call[c].pc = "commit" /\ call[c].plan = "revise"  BY DEF CommitRevise
<1> HIDE DEF h, v, a
<1> QED  BY <1>1, <1>6, <1>7, <1>9, <1>10, <1>11, <1>12, StoredStep

LEMMA TurnDoes ==
    ASSUME DraftInv, NEW c \in Calls, CommitTurn(c)
    PROVE  LET d == call[c].value.draft
               r == call[c].value.revision
               q == Kept(Append(heads[d].turns, Turn(c, r)))
               h == HeadRow(heads[d].latest, heads[d].version + 1, q)
           IN  /\ d \in Drafts /\ Stored(d) /\ h \in HeadRows
               /\ q \in Seq(Turns) /\ Len(q) <= HistoryLimit
               /\ r \in 1..heads[d].latest /\ call[c].value \in Values
               /\ (call[c].plan \in {"keep", "talk"} =>
                      r = heads[d].latest /\ d = call[c].on /\ call[c].expect = r)
               /\ heads' = [heads EXCEPT ![d] = h] /\ UNCHANGED <<rows, idempotency>>
               /\ Become(c, Holding(c, IF command[c].kind = "create" THEN "remember"
                                       ELSE "answered", call[c].value))
<1> DEFINE d == call[c].value.draft
           r == call[c].value.revision
           q == Kept(Append(heads[d].turns, Turn(c, r)))
<1>1. call[c].pc = "turnCommit" /\ Swaps(c, d)  BY DEF CommitTurn
<1>2. call[c] \in Locals /\ LocalSound(c, call[c])  BY CallKnown
<1>3. Written(call[c].value) /\ SeenSound(d, call[c].seen)
      /\ (call[c].plan \in {"keep", "talk"} =>
            r = call[c].seen.latest /\ d = call[c].on /\ call[c].expect = r)
  BY <1>1, <1>2 DEF LocalSound, HeldSound, TurnSound
<1>4. d \in Drafts /\ Stored(d) /\ r \in 1..heads[d].latest  BY <1>3 DEF Written
<1>5. call[c].seen = heads[d]
  <2>1. d # NoDraft  BY <1>4, DraftNames
  <2>2. heads[d].version = call[c].seen.version  BY <1>1, <2>1 DEF Swaps
  <2> QED  BY <1>3, <2>2 DEF SeenSound
<1>6. call[c].value \in Values
  <2>1. NoValue.draft = NoDraft  BY DEF NoValue, Value
  <2>2. call[c].value # NoValue  BY <1>4, <2>1, DraftNames
  <2> QED  BY <1>2, <2>2, CallFields
<1>7. /\ heads[d].latest \in Nat /\ heads[d].version \in Nat
      /\ heads[d].turns \in Seq(Turns) /\ c \in Authors /\ r \in Nat
  BY <1>4, <1>6, CallKnown, HeadFields, ValueFields DEF Authors
<1>8. Turn(c, r) \in Turns  BY <1>7 DEF Turn, Turns
<1>9. q \in Seq(Turns) /\ Len(q) <= HistoryLimit
  BY <1>7, <1>8, Appended, KeptType
<1>10. heads[d].version + 1 \in Nat  BY <1>7
<1>11. HeadRow(heads[d].latest, heads[d].version + 1, q) \in HeadRows
  <2> HIDE DEF q
  <2> QED  BY SMTT(30), <1>7, <1>9, <1>10, HeadRowType
<1> QED  BY <1>3, <1>4, <1>5, <1>6, <1>9, <1>11 DEF CommitTurn, Swapped

LEMMA CommitTurnStep == ASSUME DraftInv, NEW c \in Calls, CommitTurn(c) PROVE DraftInv'
<1> DEFINE d == call[c].value.draft
           r == call[c].value.revision
           q == Kept(Append(heads[d].turns, Turn(c, r)))
           h == HeadRow(heads[d].latest, heads[d].version + 1, q)
           next == IF command[c].kind = "create" THEN "remember" ELSE "answered"
<1>1. /\ d \in Drafts /\ Stored(d) /\ h \in HeadRows
      /\ q \in Seq(Turns) /\ Len(q) <= HistoryLimit
      /\ r \in 1..heads[d].latest /\ call[c].value \in Values
      /\ heads' = [heads EXCEPT ![d] = h] /\ UNCHANGED <<rows, idempotency>>
      /\ Become(c, Holding(c, next, call[c].value))
  BY TurnDoes
<1>2. heads[d].latest \in Nat /\ heads[d].version \in Nat
  BY <1>1, CallKnown, HeadFields
<1>3. /\ h.latest = heads[d].latest /\ h.version = heads[d].version + 1 /\ h.turns = q
  <2>1. heads[d].version + 1 \in Nat  BY <1>2
  <2>2. \A t \in Seq(Turns) :
           LET row == HeadRow(heads[d].latest, heads[d].version + 1, t) IN
           /\ row.latest = heads[d].latest /\ row.version = heads[d].version + 1
           /\ row.turns = t
    BY SMTT(30), <1>2, <2>1, HeadRowType
  <2> HIDE DEF q
  <2> QED  BY <1>1, <2>2
<1>4. /\ heads' \in [Drafts -> HeadRows] /\ heads'[d] = h
      /\ \A e \in Drafts \ {d} : heads'[e] = heads[e]
      /\ Grows /\ HeadsSound'
  <2> HIDE DEF h, q
  <2>1. h.latest >= heads[d].latest  BY <1>2, <1>3
  <2> QED  BY <1>1, <1>3, <2>1, Swapping
<1>5. PICK x : x = call[c].value  OBVIOUS
<1>6. PICK l : l = Holding(c, next, x)  OBVIOUS
<1>7. l \in Locals /\ l.pc \in {"answered", "remember"} /\ l.value = x
  <2>1. next \in {"answered", "remember"}  OBVIOUS
  <2>2. \A pc \in {"answered", "remember", "turnHead"} :
           /\ Holding(c, pc, x) \in Locals /\ Holding(c, pc, x).pc = pc
           /\ Holding(c, pc, x).value = x
    BY <1>1, <1>5, CallKnown, HoldingLocal
  <2> HIDE DEF next
  <2> QED  BY <1>6, <2>1, <2>2
<1>8. Become(c, l)  BY <1>1, <1>5, <1>6
<1>9. DraftTypeOK'
  <2>1. \A e \in Drafts : Len(rows'[e]) = heads'[e].latest
    <3> HIDE DEF h
    <3> QED  BY <1>1, <1>3, <1>4 DEF DraftInv, DraftTypeOK
  <2> HIDE DEF h
  <2> QED  BY <1>1, <1>4, <1>7, <1>8, <2>1, Becomes DEF DraftInv, DraftTypeOK
<1>10. Written(x)
  <2>1. call[c].pc = "turnCommit" /\ LocalSound(c, call[c])  BY CallKnown DEF CommitTurn
  <2> QED  BY <1>5, <2>1 DEF LocalSound, HeldSound
<1>11. \A w : Written(w) => Written(w)'  BY <1>4, <1>9, WrittenKept DEF DraftInv
<1>12. EntriesSound'
  <2>1. \A s \in Slots : idempotency'[s] = idempotency[s]  BY <1>1
  <2> SUFFICES ASSUME NEW s \in Slots, idempotency'[s].taken
               PROVE  Written(idempotency[s].value)'
    BY DEF EntriesSound
  <2>2. PICK w : w = idempotency[s].value  OBVIOUS
  <2>3. Written(w)'  BY <1>11, <2>1, <2>2 DEF DraftInv, EntriesSound
  <2> QED  BY <2>1, <2>2, <2>3
<1>13. LocalSound(c, l)'
  <2>1. Written(x)'  BY <1>10, <1>11
  <2> QED  BY <1>7, <2>1 DEF LocalSound, PlanSound, ReadSound, HeldSound, TurnSound
<1> QED  BY <1>4, <1>7, <1>8, <1>9, <1>12, <1>13, StoringStep

LEMMA Single ==
    ASSUME NEW S, NEW a \in S
    PROVE  [n \in {1} |-> a] = <<a>> /\ <<a>> \in Seq(S) /\ Len(<<a>>) = 1
<1>1. <<a>> \in Seq(S) /\ Len(<<a>>) = 1 /\ <<a>>[1] = a  OBVIOUS
<1>2. <<a>> \in [1..1 -> S]  BY <1>1, LenProperties
<1>3. 1..1 = {1}  OBVIOUS
<1> QED  BY <1>1, <1>2, <1>3

LEMMA NewDoes ==
    ASSUME DraftInv, NEW c \in Calls, CommitNew(c), NEW d, d = CHOOSE e \in Unused : TRUE
    PROVE  LET parent == call[c].on
               t == call[c].seen.turns
               v == Value(d, 1, c, c)
           IN  /\ d \in Drafts /\ ~Stored(d)
               /\ t \in Seq(Turns) /\ Len(t) <= HistoryLimit
               /\ heads' \in [Drafts -> HeadRows] /\ heads'[d] = HeadRow(1, 1, t)
               /\ (parent = NoDraft => t = <<>>)
               /\ (parent # NoDraft =>
                      /\ parent \in Drafts /\ Stored(parent) /\ parent # d
                      /\ t = heads[parent].turns /\ call[c].expect \in {0, heads[parent].latest}
                      /\ heads'[parent] = HeadRow(heads[parent].latest,
                                                  heads[parent].version + 1, t))
               /\ \A e \in Drafts \ {d, parent} : heads'[e] = heads[e]
               /\ Revision(c, parent) \in Revisions
               /\ rows' = [rows EXCEPT ![d] = <<Revision(c, parent)>>]
               /\ v \in Values
               /\ StoreSlot(c) \in Slots \cup {NoSlot}
               /\ ~EntryAt(StoreSlot(c)).taken
               /\ Put(StoreSlot(c), c, v)
               /\ Become(c, Holding(c, AfterStoring(c, FALSE), v))
<1> DEFINE parent == call[c].on
           seen == call[c].seen
           t == seen.turns
           v == Value(d, 1, c, c)
<1>1. call[c].pc = "commit" /\ Swaps(c, parent) /\ ~EntryAt(StoreSlot(c)).taken
  BY DEF CommitNew
<1>2. d \in Unused  BY DEF CommitNew
<1>3. d \in Drafts /\ ~Stored(d) /\ d # NoDraft  BY <1>2, DraftNames DEF Unused
<1>4. /\ (parent # NoDraft => /\ parent \in Drafts /\ Stored(parent) /\ seen = heads[parent]
                             /\ call[c].expect \in {0, heads[parent].latest})
      /\ (parent = NoDraft => seen = NoHead)
      /\ seen \in HeadRows /\ Kept(t) = t /\ StoreSlot(c) \in Slots \cup {NoSlot}
  BY <1>1, CommitReads
<1>5. t \in Seq(Turns) /\ seen.latest \in Nat /\ seen.version \in Nat /\ c \in Authors
  BY <1>4, HeadFields DEF Authors
<1>6. v \in Values /\ v.draft = d  BY <1>3, <1>5, ValueType
<1>7. heads' = [e \in Drafts |-> IF e = d THEN HeadRow(1, 1, t)
                                ELSE IF e = parent THEN HeadRow(seen.latest, seen.version + 1, t)
                                ELSE heads[e]]
  BY <1>4, <1>6 DEF CommitNew, Swapped
<1>8. HeadRow(1, 1, t) \in HeadRows /\ HeadRow(seen.latest, seen.version + 1, t) \in HeadRows
  <2>1. seen.version + 1 \in Nat  BY <1>5
  <2>2. \A n, w \in Nat, q \in Seq(Turns) : HeadRow(n, w, q) \in HeadRows  BY HeadRowType
  <2> QED  BY <1>5, <2>1, <2>2
<1>9. heads' \in [Drafts -> HeadRows]
  <2>1. heads \in [Drafts -> HeadRows]  BY DEF DraftInv, DraftTypeOK
  <2> QED  BY <1>7, <1>8, <2>1
<1>10. heads'[d] = HeadRow(1, 1, t)  BY <1>3, <1>7
<1>11. \A e \in Drafts \ {d, parent} : heads'[e] = heads[e]  BY <1>7
<1>12. parent # NoDraft =>
          /\ parent # d /\ t = heads[parent].turns
          /\ heads'[parent] = HeadRow(heads[parent].latest, heads[parent].version + 1, t)
  BY <1>3, <1>4, <1>7
<1>13. parent = NoDraft => t = <<>>  BY <1>4 DEF NoHead
<1>14. Len(t) <= HistoryLimit
  BY <1>4, <1>5, KeptType
<1>15. parent \in Drafts \cup {NoDraft} /\ Revision(c, parent) \in Revisions
  BY <1>4, <1>5 DEF Revision, Revisions
<1>16. rows' = [rows EXCEPT ![d] = <<Revision(c, parent)>>]
  <2>1. rows' = [rows EXCEPT ![d] = [n \in {1} |-> Revision(c, parent)]]
    BY <1>6 DEF CommitNew
  <2>2. \A a \in Revisions : [n \in {1} |-> a] = <<a>>  BY Single
  <2>3. [n \in {1} |-> Revision(c, parent)] = <<Revision(c, parent)>>
    <3> DEFINE a == Revision(c, parent)
    <3>1. a \in Revisions  BY <1>15
    <3> HIDE DEF a
    <3>2. [n \in {1} |-> a] = <<a>>  BY <2>2, <3>1
    <3> QED  BY <3>2 DEF a
  <2> QED  BY <2>1, <2>3
<1>17. Put(StoreSlot(c), c, v) /\ Become(c, Holding(c, AfterStoring(c, FALSE), v))
  BY DEF CommitNew
<1> QED  BY <1>1, <1>3, <1>4, <1>5, <1>6, <1>9, <1>10, <1>11, <1>12, <1>13, <1>14, <1>15, <1>16,
            <1>17

LEMMA CommitNewStep == ASSUME DraftInv, NEW c \in Calls, CommitNew(c) PROVE DraftInv'
<1> PICK d : d = CHOOSE e \in Unused : TRUE  OBVIOUS
<1> DEFINE parent == call[c].on
           t == call[c].seen.turns
           a == Revision(c, parent)
<1>1. /\ d \in Drafts /\ ~Stored(d)
      /\ t \in Seq(Turns) /\ Len(t) <= HistoryLimit
      /\ heads' \in [Drafts -> HeadRows] /\ heads'[d] = HeadRow(1, 1, t)
      /\ (parent # NoDraft =>
            /\ parent \in Drafts /\ Stored(parent) /\ parent # d /\ t = heads[parent].turns
            /\ heads'[parent] = HeadRow(heads[parent].latest, heads[parent].version + 1, t))
      /\ \A e \in Drafts \ {d, parent} : heads'[e] = heads[e]
      /\ a \in Revisions /\ rows' = [rows EXCEPT ![d] = <<a>>]
      /\ StoreSlot(c) \in Slots \cup {NoSlot}
  BY NewDoes
<1>2. PICK x : x = Value(d, 1, c, c)  OBVIOUS
<1>3. x \in Values /\ Put(StoreSlot(c), c, x)
      /\ Become(c, Holding(c, AfterStoring(c, FALSE), x))
  BY <1>2, NewDoes
<1>4. x.draft = d /\ x.revision = 1 /\ x.by = c /\ x.reply = c  BY <1>2 DEF Value
<1>5. heads'[d].latest = 1 /\ heads'[d].turns = t  BY <1>1 DEF HeadRow
<1>6. ASSUME parent # NoDraft
      PROVE  /\ heads'[parent].latest = heads[parent].latest
             /\ heads'[parent].version = heads[parent].version + 1
             /\ heads'[parent].turns = t
             /\ heads[parent].latest \in Nat /\ heads[parent].version \in Nat
  BY <1>1, <1>6, CallKnown, HeadFields DEF HeadRow
<1>7. Grows
  <2> SUFFICES ASSUME NEW e \in Drafts, Stored(e)
               PROVE  /\ heads[e].latest <= heads'[e].latest
                      /\ heads[e].version <= heads'[e].version
                      /\ heads'[e].version = heads[e].version => heads'[e] = heads[e]
    BY DEF Grows
  <2>1. heads[e].latest \in Nat /\ heads[e].version \in Nat  BY CallKnown, HeadFields
  <2>2. CASE e = parent
    <3>1. parent # NoDraft  BY <2>2, DraftNames
    <3> QED  BY <1>6, <2>2, <3>1
  <2>3. CASE e # parent
    <3>1. e # d  BY <1>1
    <3> QED  BY <1>1, <2>1, <2>3, <3>1
  <2> QED  BY <2>2, <2>3
<1>8. HeadsSound'
  <2> SUFFICES ASSUME NEW e \in Drafts
               PROVE  /\ ~(heads'[e].latest > 0) => heads'[e] = NoHead
                      /\ Len(heads'[e].turns) <= HistoryLimit
    BY DEF HeadsSound, Stored
  <2>1. CASE e = d  BY <1>1, <1>5, <2>1
  <2>2. CASE e = parent
    <3>1. parent # NoDraft  BY <2>2, DraftNames
    <3>2. heads[parent].latest > 0  BY <1>1, <3>1 DEF Stored
    <3> QED  BY <1>1, <1>6, <2>2, <3>1, <3>2
  <2>3. CASE e # d /\ e # parent
    BY <1>1, <2>3 DEF DraftInv, HeadsSound, Stored
  <2> QED  BY <2>1, <2>2, <2>3
<1>9. rows' \in [Drafts -> Seq(Revisions)] /\ \A e \in Drafts : Len(rows'[e]) = heads'[e].latest
  <2>1. <<a>> \in Seq(Revisions) /\ Len(<<a>>) = 1
    <3>1. \A y \in Revisions : <<y>> \in Seq(Revisions) /\ Len(<<y>>) = 1  BY Single
    <3> HIDE DEF a
    <3> QED  BY <1>1, <3>1
  <2> DEFINE q == <<a>>
  <2>2. q \in Seq(Revisions) /\ Len(q) = 1 /\ rows' = [rows EXCEPT ![d] = q]  BY <1>1, <2>1
  <2> HIDE DEF q, a
  <2>3. rows \in [Drafts -> Seq(Revisions)] /\ \A e \in Drafts : Len(rows[e]) = heads[e].latest
    BY DEF DraftInv, DraftTypeOK
  <2>4. rows' \in [Drafts -> Seq(Revisions)] /\ rows'[d] = q
        /\ \A e \in Drafts \ {d} : rows'[e] = rows[e]
    BY <1>1, <2>2, <2>3
  <2> SUFFICES ASSUME NEW e \in Drafts PROVE Len(rows'[e]) = heads'[e].latest  BY <2>4
  <2>5. CASE e = d  BY <1>5, <2>2, <2>4, <2>5
  <2>6. CASE e # d /\ e = parent
    <3>1. parent # NoDraft  BY <2>6, DraftNames
    <3> QED  BY <1>6, <2>3, <2>4, <2>6, <3>1
  <2>7. CASE e # d /\ e # parent  BY <1>1, <2>3, <2>4, <2>7
  <2> QED  BY <2>5, <2>6, <2>7
<1>10. Written(x)'
  BY <1>1, <1>4, <1>5 DEF Written, Stored, Authors
<1>11. call[c].pc = "commit" /\ call[c].plan = "new"  BY DEF CommitNew
<1> HIDE DEF t, a
<1> QED  BY <1>1, <1>3, <1>7, <1>8, <1>9, <1>10, <1>11, StoredStep

-----------------------------------------------------------------------------
(* The invariant. *)

LEMMA InitInv == DraftInit => DraftInv
<1> SUFFICES ASSUME DraftInit PROVE DraftInv  OBVIOUS
<1>1. HeadRow(1, 1, <<>>) \in HeadRows /\ HeadRow(1, 1, <<>>).latest = 1
      /\ HeadRow(1, 1, <<>>).turns = <<>> /\ NoHead.latest = 0 /\ NoHead.turns = <<>>
  <2>1. <<>> \in Seq(Turns)  BY EmptySeq
  <2>2. NoHead.latest = 0 /\ NoHead.turns = <<>>  BY DEF NoHead
  <2>3. \A t \in Seq(Turns) : HeadRow(1, 1, t) \in HeadRows /\ HeadRow(1, 1, t).latest = 1
                               /\ HeadRow(1, 1, t).turns = t
    BY HeadRowType
  <2> QED  BY <2>1, <2>2, <2>3
<1>2. /\ heads \in [Drafts -> HeadRows]
      /\ \A d \in Drafts : heads[d] = IF d \in Seeds THEN HeadRow(1, 1, <<>>) ELSE NoHead
  BY <1>1, NoHeadType DEF DraftInit
<1>3. /\ rows \in [Drafts -> Seq(Revisions)]
      /\ \A d \in Drafts : Len(rows[d]) = heads[d].latest
  <2> DEFINE a == Revision(NoCall, NoDraft)
             q == <<a>>
  <2>1. a \in Revisions  BY DEF Revision, Revisions, Authors
  <2>2. [n \in {1} |-> a] = q /\ q \in Seq(Revisions) /\ Len(q) = 1
    <3>1. \A y \in Revisions : [n \in {1} |-> y] = <<y>> /\ <<y>> \in Seq(Revisions)
                               /\ Len(<<y>>) = 1
      BY Single
    <3> HIDE DEF a
    <3> QED  BY <2>1, <3>1
  <2>3. rows = [d \in Drafts |-> IF d \in Seeds THEN q ELSE <<>>]
    BY <2>2 DEF DraftInit
  <2> HIDE DEF q
  <2>4. <<>> \in Seq(Revisions) /\ Len(<<>>) = 0  BY EmptySeq
  <2>5. rows \in [Drafts -> Seq(Revisions)]  BY <2>2, <2>3, <2>4
  <2>6. \A d \in Drafts : Len(rows[d]) = heads[d].latest
    BY <1>1, <1>2, <2>2, <2>3, <2>4
  <2> QED  BY <2>5, <2>6
<1>4. idempotency \in [Slots -> Entries] /\ \A s \in Slots : ~idempotency[s].taken
  BY NoEntryType DEF DraftInit
<1>5. command \in [Calls -> Commands]  BY ScenesKnown DEF DraftInit
<1>6. /\ call \in [Calls -> Locals]
      /\ \A c \in Calls : LocalSound(c, call[c])
  <2>1. \A c \in Calls : Outside("start") \in Locals /\ LocalSound(c, Outside("start"))
    BY OutsideLocal
  <2>2. call = [c \in Calls |-> Outside("start")]  BY DEF DraftInit
  <2> QED  BY <2>1, <2>2
<1>7. HeadsSound
  <2> SUFFICES ASSUME NEW d \in Drafts
               PROVE  /\ ~(heads[d].latest > 0) => heads[d] = NoHead
                      /\ Len(heads[d].turns) <= HistoryLimit
    BY DEF HeadsSound, Stored
  <2>1. Len(<<>>) = 0 /\ 0 <= HistoryLimit  BY HistoryLimitPositive
  <2>2. CASE d \in Seeds  BY <1>1, <1>2, <2>1, <2>2
  <2>3. CASE d \notin Seeds  BY <1>1, <1>2, <2>1, <2>3
  <2> QED  BY <2>2, <2>3
<1> QED  BY <1>2, <1>3, <1>4, <1>5, <1>6, <1>7
     DEF DraftInv, DraftTypeOK, EntriesSound, CallsSound

LEMMA NextInv == DraftInv /\ [DraftNext]_DraftVars => DraftInv'
<1> SUFFICES ASSUME DraftInv, [DraftNext]_DraftVars PROVE DraftInv'  OBVIOUS
<1>1. ASSUME NEW c \in Calls, RequestStep(c) PROVE DraftInv'
  BY <1>1, LookupStep, CreateLoadStep, AnswerLoadStep, ReviseLoadStep, ReadHeadStep,
     ReadNoHeadStep, FindReplayStep, CommitNewStep, CommitKeepStep, CommitReviseStep,
     CommitLostStep, ReadTurnsStep, CommitTurnStep, TurnLostStep, RememberStep, DieStep
     DEF RequestStep
<1>2. CASE UNCHANGED DraftVars
  BY <1>2 DEF DraftVars, DraftInv, DraftTypeOK, HeadsSound, EntriesSound, CallsSound, LocalSound,
              PlanSound, ReadSound, HeldSound, TurnSound, Written, SeenSound, Stored
<1> QED  BY <1>1, <1>2 DEF DraftNext

LEMMA Invariant == DraftSpec => []DraftInv
BY InitInv, NextInv, PTL DEF DraftSpec

(* The tables and the requests keep their types; in particular the rows of *)
(* a draft are numbered from 1 to the head's latest revision, without gap. *)
THEOREM DraftTypes == DraftSpec => []DraftTypeOK
<1>1. DraftInv => DraftTypeOK  BY DEF DraftInv
<1> QED  BY <1>1, Invariant, PTL

(* A step belongs to the request whose local state it changes. *)
LEMMA StepOf ==
    ASSUME DraftInv, NEW c \in Calls, NEW k \in Calls, RequestStep(k), call'[c] # call[c]
    PROVE  k = c
<1>1. PICK l : Become(k, l)
  BY DEF RequestStep, CreateLookup, CreateLoad, AnswerLoad, ReviseLoad, ReadHead, ReadNoHead,
         FindReplay, CommitNew, CommitKeep, CommitRevise, CommitLost, ReadTurns, CommitTurn,
         TurnLost, RememberAnswer, Die
<1>2. call' = [call EXCEPT ![k] = l]  BY <1>1 DEF Become
<1> QED  BY <1>2 DEF DraftInv, DraftTypeOK

(* _guard_revision and _compare_and_swap together: what was computed from  *)
(* one revision of a draft is stored only while it is the latest one.      *)
THEOREM LandsOnRevision == DraftSpec => LandsOnItsRevision
<1>1. ASSUME DraftInv, [DraftNext]_DraftVars, NEW c \in Calls, call'[c] # call[c],
             call[c].expect # 0, heads' # heads, call[c].pc = "commit" \/ NeedsLatest(c)
      PROVE  heads[call[c].on].latest = call[c].expect
  <2>1. RequestStep(c)
    <3>1. DraftNext  BY <1>1 DEF DraftVars
    <3> QED  BY <1>1, <3>1, StepOf DEF DraftNext
  <2>2. CommitNew(c) \/ CommitKeep(c) \/ CommitRevise(c) \/ CommitTurn(c)
    BY <1>1, <2>1 DEF RequestStep, CreateLookup, CreateLoad, AnswerLoad, ReviseLoad, ReadHead,
       ReadNoHead, FindReplay, CommitLost, ReadTurns, TurnLost, RememberAnswer, Die,
       TablesUnchanged
  <2>3. CASE CommitNew(c)
    <3>1. call[c].on # NoDraft
      BY <1>1, <2>3, CallKnown DEF CommitNew, LocalSound, PlanSound
    <3>2. PICK d : d = CHOOSE e \in Unused : TRUE  OBVIOUS
    <3> QED  BY <1>1, <2>3, <3>1, <3>2, NewDoes
  <2>4. CASE CommitKeep(c)  BY <1>1, <2>4, KeepDoes
  <2>5. CASE CommitRevise(c)  BY <1>1, <2>5, ReviseDoes
  <2>6. CASE CommitTurn(c)
    <3>1. call[c].plan \in {"keep", "talk"}
      BY <1>1, <2>6 DEF CommitTurn, NeedsLatest
    <3> QED  BY <1>1, <2>6, <3>1, TurnDoes
  <2> QED  BY <2>2, <2>3, <2>4, <2>5, <2>6
<1>2. DraftInv /\ [DraftNext]_DraftVars =>
         [\A c \in Calls :
             LET d == call[c].on IN
             (call'[c] # call[c] /\ call[c].expect # 0 /\ heads' # heads
                /\ (call[c].pc = "commit" \/ NeedsLatest(c)))
             => heads[d].latest = call[c].expect]_DraftVars
  BY <1>1
<1> QED  BY <1>2, Invariant, PTL DEF DraftSpec, LandsOnItsRevision

-----------------------------------------------------------------------------
(* The transactions implement the store kept in memory. *)

Revisioned == [d \in Drafts |-> [n \in 1..heads[d].latest |-> rows[d][n]]]
Talked     == [d \in Drafts |-> heads[d].turns]

LEMMA Numbered ==
    ASSUME NEW h, NEW q \in [Drafts -> Seq(Revisions)],
           \A d \in Drafts : Len(q[d]) = h[d].latest
    PROVE  [d \in Drafts |-> [n \in 1..h[d].latest |-> q[d][n]]] = q
<1>1. ASSUME NEW d \in Drafts PROVE [n \in 1..h[d].latest |-> q[d][n]] = q[d]
  <2>1. q[d] \in Seq(Revisions) /\ Len(q[d]) = h[d].latest  OBVIOUS
  <2>2. q[d] \in [1..h[d].latest -> Revisions]  BY <2>1, LenProperties
  <2> QED  BY <2>2
<1> QED  BY <1>1

LEMMA RevisionedIs == DraftTypeOK => Revisioned = rows
BY Numbered DEF DraftTypeOK, Revisioned

LEMMA RevisionedThen == DraftTypeOK' => Revisioned' = rows'
BY Numbered DEF DraftTypeOK, Revisioned

LEMMA SameRecords ==
    /\ \A by, parent : Contract!Revision(by, parent) = Revision(by, parent)
    /\ \A by, revision : Contract!Turn(by, revision) = Turn(by, revision)
    /\ \A q : Contract!Kept(q) = Kept(q)
    /\ \A d, n, by, reply : Contract!Value(d, n, by, reply) = Value(d, n, by, reply)
    /\ \A hash, value : Contract!Entry(hash, value) = Entry(hash, value)
    /\ Contract!NoEntry = NoEntry /\ Contract!Authors = Authors
BY DEF Contract!Revision, Revision, Contract!Turn, Turn, Contract!Kept, Kept, Contract!Value,
       Value, Contract!Entry, Entry, Contract!NoEntry, NoEntry, Contract!NoValue, NoValue,
       Contract!Authors, Authors

LEMMA ContractKnows ==
    ASSUME DraftInv, NEW d \in Drafts
    PROVE  /\ Contract!Known(d) <=> Stored(d)
           /\ Contract!Latest(d) = heads[d].latest
<1>1. Revisioned = rows  BY RevisionedIs DEF DraftInv
<1>2. /\ rows[d] \in Seq(Revisions) /\ Len(rows[d]) = heads[d].latest
      /\ heads[d].latest \in Nat
  BY HeadFields DEF DraftInv, DraftTypeOK
<1>3. rows[d] # <<>> <=> Len(rows[d]) > 0  BY <1>2, EmptySeq
<1> QED  BY <1>1, <1>2, <1>3 DEF Contract!Known, Contract!Latest, Revisioned, Stored

LEMMA PutRemembers ==
    ASSUME DraftInv, NEW c \in Calls, NEW slot \in Slots \cup {NoSlot}, NEW v,
           ~EntryAt(slot).taken, Put(slot, c, v)
    PROVE  Contract!Remember(v)
<1>1. CASE slot = NoSlot  BY <1>1 DEF Put, Contract!Remember
<1>2. CASE slot # NoSlot
  <2>1. slot \in Slots /\ EntryAt(slot) = idempotency[slot]  BY <1>2 DEF EntryAt
  <2>2. idempotency[slot] \in Entries  BY <2>1 DEF DraftInv, DraftTypeOK
  <2>3. idempotency[slot] = NoEntry  BY <2>1, <2>2, EntryFields
  <2>4. Hash(c) \in Hashes  BY SlotTypes DEF DraftInv
  <2>5. idempotency' = [idempotency EXCEPT ![slot] = Entry(Hash(c), v)]  BY <1>2 DEF Put
  <2> QED  BY <2>1, <2>3, <2>4, <2>5, SameRecords DEF Contract!Remember
<1> QED  BY <1>1, <1>2

LEMMA NewRefines ==
    ASSUME DraftInv, DraftInv', NEW c \in Calls, CommitNew(c)
    PROVE  Contract!ContractNext
<1> PICK d : d = CHOOSE e \in Unused : TRUE  OBVIOUS
<1> DEFINE parent == call[c].on
           t == call[c].seen.turns
<1>1. /\ d \in Drafts /\ ~Stored(d)
      /\ heads \in [Drafts -> HeadRows]
      /\ heads' \in [Drafts -> HeadRows] /\ heads'[d] = HeadRow(1, 1, t)
      /\ t \in Seq(Turns) /\ Len(t) <= HistoryLimit
      /\ (parent = NoDraft => t = <<>>)
      /\ (parent # NoDraft =>
            /\ parent \in Drafts /\ Stored(parent) /\ parent # d /\ t = heads[parent].turns
            /\ heads'[parent] = HeadRow(heads[parent].latest, heads[parent].version + 1, t))
      /\ \A e \in Drafts \ {d, parent} : heads'[e] = heads[e]
      /\ rows' = [rows EXCEPT ![d] = <<Revision(c, parent)>>]
      /\ StoreSlot(c) \in Slots \cup {NoSlot} /\ ~EntryAt(StoreSlot(c)).taken
  BY ZenonT(60), NewDoes DEF DraftInv, DraftTypeOK
<1>2. PICK x : x = Value(d, 1, c, c)  OBVIOUS
<1>3. Put(StoreSlot(c), c, x)  BY <1>2, NewDoes
<1>4. Contract!Remember(x)  BY <1>1, <1>3, PutRemembers
<1>5. Revisioned = rows /\ Revisioned' = rows'  BY RevisionedIs, RevisionedThen DEF DraftInv
<1>6. heads'[d].turns = t /\ (parent # NoDraft => heads'[parent].turns = t)
  BY <1>1 DEF HeadRow
<1>7. ~Contract!Known(d) /\ (parent # NoDraft => Contract!Known(parent))
  BY <1>1, ContractKnows
<1>8. CASE parent = NoDraft
  <2>1. heads[d] = NoHead  BY <1>1 DEF DraftInv, HeadsSound
  <2>2. heads[d].turns = <<>>  BY <2>1 DEF NoHead
  <2>3. \A e \in Drafts : heads'[e].turns = heads[e].turns
    <3> SUFFICES ASSUME NEW e \in Drafts PROVE heads'[e].turns = heads[e].turns  OBVIOUS
    <3>1. CASE e = d  BY <1>1, <1>6, <1>8, <2>2, <3>1
    <3>2. CASE e # d  BY <1>1, <1>8, <3>2, DraftNames
    <3> QED  BY <3>1, <3>2
  <2>4. Talked' = Talked  BY <2>3 DEF Talked
  <2>5. Contract!CreateRoot(c, d)
    BY <1>1, <1>2, <1>4, <1>5, <1>7, <1>8, <2>4, SameRecords
    DEF Contract!CreateRoot, Revisioned, Talked
  <2> QED  BY <1>1, <2>5 DEF Contract!ContractNext
<1>9. CASE parent # NoDraft
  <2>1. t = Talked[parent] /\ Kept(t) = t  BY <1>1, <1>9, KeptType DEF Talked
  <2>2. \A e \in Drafts : Talked'[e] = IF e = d THEN t ELSE Talked[e]
    <3> SUFFICES ASSUME NEW e \in Drafts
                 PROVE  heads'[e].turns = IF e = d THEN t ELSE heads[e].turns
      BY DEF Talked
    <3>1. CASE e = d  BY <1>6, <3>1
    <3>2. CASE e # d /\ e = parent  BY <1>1, <1>6, <1>9, <3>2
    <3>3. CASE e # d /\ e # parent  BY <1>1, <3>3
    <3> QED  BY <3>1, <3>2, <3>3
  <2>3. Talked' = [Talked EXCEPT ![d] = Kept(Talked[parent])]
    <3> HIDE DEF t
    <3>1. Talked' = [e \in Drafts |-> heads'[e].turns] /\ Talked = [e \in Drafts |-> heads[e].turns]
      BY DEF Talked
    <3>2. Kept(Talked[parent]) = t  BY <2>1
    <3> QED  BY <1>1, <2>2, <3>1, <3>2
  <2>4. PICK p : p = parent  OBVIOUS
  <2>5. Contract!CreateChild(c, d, p)
    <3> HIDE DEF t
    <3> QED  BY <1>1, <1>2, <1>4, <1>5, <1>7, <1>9, <2>3, <2>4, SameRecords
        DEF Contract!CreateChild, Revisioned, Talked
  <2> QED  BY <1>1, <1>9, <2>4, <2>5 DEF Contract!ContractNext
<1> QED  BY <1>8, <1>9

LEMMA KeepRefines ==
    ASSUME DraftInv, DraftInv', NEW c \in Calls, CommitKeep(c)
    PROVE  Contract!ContractNext
<1> DEFINE d == call[c].on
           h == HeadRow(heads[d].latest, heads[d].version + 1, heads[d].turns)
<1>1. /\ d \in Drafts /\ Stored(d) /\ heads' = [heads EXCEPT ![d] = h] /\ UNCHANGED rows
      /\ StoreSlot(c) \in Slots \cup {NoSlot} /\ ~EntryAt(StoreSlot(c)).taken
      /\ heads \in [Drafts -> HeadRows]
  BY KeepDoes DEF DraftInv, DraftTypeOK
<1>2. PICK x : x = Value(d, heads[d].latest, c, c)  OBVIOUS
<1>3. Put(StoreSlot(c), c, x)  BY <1>2, KeepDoes
<1>4. Contract!Remember(x)  BY <1>1, <1>3, PutRemembers
<1>5. Revisioned' = Revisioned  BY <1>1, RevisionedIs, RevisionedThen DEF DraftInv
<1>6. Talked' = Talked
  <2>1. h.turns = heads[d].turns  BY DEF HeadRow
  <2> HIDE DEF h
  <2>2. \A e \in Drafts : heads'[e].turns = heads[e].turns  BY <1>1, <2>1
  <2> QED  BY <2>2 DEF Talked
<1>7. Contract!Known(d) /\ Contract!Latest(d) = heads[d].latest  BY <1>1, ContractKnows
<1>8. Contract!KeepRevision(c, d)
  BY <1>2, <1>4, <1>5, <1>6, <1>7, SameRecords DEF Contract!KeepRevision, Revisioned, Talked
<1> QED  BY <1>1, <1>8 DEF Contract!ContractNext

LEMMA ReviseRefines ==
    ASSUME DraftInv, DraftInv', NEW c \in Calls, CommitRevise(c)
    PROVE  Contract!ContractNext
<1> DEFINE d == call[c].on
           n == heads[d].latest
           h == HeadRow(n + 1, heads[d].version + 1, heads[d].turns)
<1>1. /\ d \in Drafts /\ Stored(d) /\ heads' = [heads EXCEPT ![d] = h]
      /\ rows' = [rows EXCEPT ![d] = Append(rows[d], Revision(c, rows[d][n].parent))]
      /\ StoreSlot(c) \in Slots \cup {NoSlot} /\ ~EntryAt(StoreSlot(c)).taken
      /\ heads \in [Drafts -> HeadRows]
  BY ReviseDoes DEF DraftInv, DraftTypeOK
<1>2. PICK x : x = Value(d, n + 1, c, c)  OBVIOUS
<1>3. Put(StoreSlot(c), c, x)  BY <1>2, ReviseDoes
<1>4. Contract!Remember(x)  BY <1>1, <1>3, PutRemembers
<1>5. Revisioned = rows /\ Revisioned' = rows'  BY RevisionedIs, RevisionedThen DEF DraftInv
<1>6. Talked' = Talked
  <2>1. h.turns = heads[d].turns  BY DEF HeadRow
  <2> HIDE DEF h
  <2>2. \A e \in Drafts : heads'[e].turns = heads[e].turns  BY <1>1, <2>1
  <2> QED  BY <2>2 DEF Talked
<1>7. Contract!Known(d) /\ Contract!Latest(d) = n  BY <1>1, ContractKnows
<1>8. PICK e : e = d  OBVIOUS
<1>9. Contract!Revise(c, e)
  BY <1>1, <1>2, <1>4, <1>5, <1>6, <1>7, <1>8, SameRecords
  DEF Contract!Revise, Revisioned, Talked
<1> QED  BY <1>1, <1>8, <1>9 DEF Contract!ContractNext

LEMMA TurnRefines ==
    ASSUME DraftInv, DraftInv', NEW c \in Calls, CommitTurn(c)
    PROVE  Contract!ContractNext
<1> DEFINE d == call[c].value.draft
           r == call[c].value.revision
           q == Kept(Append(heads[d].turns, Turn(c, r)))
           h == HeadRow(heads[d].latest, heads[d].version + 1, q)
<1>1. /\ d \in Drafts /\ Stored(d) /\ r \in 1..heads[d].latest
      /\ heads' = [heads EXCEPT ![d] = h] /\ UNCHANGED <<rows, idempotency>>
      /\ heads \in [Drafts -> HeadRows]
  BY TurnDoes DEF DraftInv, DraftTypeOK
<1>2. Revisioned' = Revisioned  BY <1>1, RevisionedIs, RevisionedThen DEF DraftInv
<1>3. Talked' = [Talked EXCEPT ![d] = q]
  <2>1. h.turns = q  BY DEF HeadRow
  <2> HIDE DEF h, q
  <2>2. \A e \in Drafts : heads'[e].turns = IF e = d THEN q ELSE heads[e].turns
    BY <1>1, <2>1
  <2> QED  BY <1>1, <2>2 DEF Talked
<1>4. q = Kept(Append(Talked[d], Turn(c, r)))  BY <1>1 DEF Talked
<1>5. Contract!Known(d) /\ Contract!Latest(d) = heads[d].latest  BY <1>1, ContractKnows
<1>6. PICK e, n : e = d /\ n = r  OBVIOUS
<1>7. Contract!RecordTurn(c, e, n)
  <2> HIDE DEF q
  <2> QED  BY <1>1, <1>2, <1>3, <1>4, <1>5, <1>6, SameRecords
      DEF Contract!RecordTurn, Revisioned, Talked
<1> QED  BY <1>1, <1>5, <1>6, <1>7 DEF Contract!ContractNext

LEMMA RememberRefines ==
    ASSUME DraftInv, DraftInv', NEW c \in Calls, RememberAnswer(c)
    PROVE  Contract!ContractNext \/ UNCHANGED Contract!ContractVars
<1> DEFINE x == Response(c)
<1>1. call[c].pc = "remember" /\ UNCHANGED <<heads, rows>>  BY DEF RememberAnswer
<1>2. Revisioned' = Revisioned /\ Talked' = Talked  BY <1>1 DEF Revisioned, Talked
<1>3. CASE UNCHANGED idempotency
  BY <1>2, <1>3 DEF Contract!ContractVars, Revisioned, Talked
<1>4. CASE /\ command[c].key # NoKey /\ ~EntryAt(HttpSlot(c)).taken
           /\ Put(HttpSlot(c), c, x)
  <2>1. Written(call[c].value)
    BY <1>1, CallKnown DEF LocalSound, HeldSound
  <2>2. /\ x.draft \in Drafts /\ Stored(x.draft) /\ x.revision \in 1..heads[x.draft].latest
        /\ x.by \in Authors /\ x.reply \in Calls
        /\ x = Value(x.draft, x.revision, x.by, x.reply)
    <3>1. CASE call[c].plan = "keep"
      <4>1. call[c].value # NoValue
        <5>1. NoValue.draft = NoDraft  BY DEF NoValue, Value
        <5> QED  BY <2>1, <5>1, DraftNames DEF Written
      <4>2. call[c].value \in Values  BY <4>1, CallKnown, CallFields
      <4>3. x = call[c].value  BY <3>1 DEF Response
      <4> HIDE DEF x
      <4> QED  BY <2>1, <4>2, <4>3, ValueFields DEF Written
    <3>2. CASE call[c].plan # "keep"
      <4>1. /\ x = Value(call[c].value.draft, call[c].value.revision, call[c].value.by, c)
        BY <3>2 DEF Response
      <4>2. /\ x.draft = call[c].value.draft /\ x.revision = call[c].value.revision
            /\ x.by = call[c].value.by /\ x.reply = c
        BY <4>1 DEF Value
      <4> HIDE DEF x
      <4> QED  BY <2>1, <4>1, <4>2 DEF Written
    <3> QED  BY <3>1, <3>2
  <2>3. HttpSlot(c) \in Slots \cup {NoSlot}  BY <1>4, SlotTypes DEF DraftInv
  <2>4. PICK y : y = x  OBVIOUS
  <2>5. Contract!Remember(y)  BY <1>4, <2>3, <2>4, PutRemembers
  <2>6. Contract!Known(y.draft) /\ Contract!Latest(y.draft) = heads[y.draft].latest
    BY <2>2, <2>4, ContractKnows
  <2>7. Contract!RememberResponse(y.draft, y.revision, y.by, y.reply)
    <3> HIDE DEF x
    <3> QED  BY <1>2, <2>2, <2>4, <2>5, <2>6, SameRecords
        DEF Contract!RememberResponse, Revisioned, Talked
  <2> HIDE DEF x
  <2> QED  BY <2>2, <2>4, <2>6, <2>7, SameRecords DEF Contract!ContractNext
<1> QED  BY <1>3, <1>4 DEF RememberAnswer

LEMMA InitRefines == DraftInit => Contract!ContractInit
<1> SUFFICES ASSUME DraftInit PROVE Contract!ContractInit  OBVIOUS
<1>1. Revisioned = rows  BY InitInv, RevisionedIs DEF DraftInv
<1>2. rows = [d \in Drafts |-> IF d \in Seeds THEN <<Revision(NoCall, NoDraft)>> ELSE <<>>]
  <2>1. Revision(NoCall, NoDraft) \in Revisions  BY DEF Revision, Revisions, Authors
  <2>2. \A a \in Revisions : [n \in {1} |-> a] = <<a>>  BY Single
  <2>3. [n \in {1} |-> Revision(NoCall, NoDraft)] = <<Revision(NoCall, NoDraft)>>
    <3> DEFINE a == Revision(NoCall, NoDraft)
    <3> HIDE DEF a
    <3>1. a \in Revisions  BY <2>1 DEF a
    <3>2. [n \in {1} |-> a] = <<a>>  BY <2>2, <3>1
    <3> QED  BY <3>2 DEF a
  <2> QED  BY <2>3 DEF DraftInit
<1>3. Talked = [d \in Drafts |-> <<>>]
  <2>1. NoHead.turns = <<>> /\ HeadRow(1, 1, <<>>).turns = <<>>  BY DEF NoHead, HeadRow
  <2>2. \A d \in Drafts : heads[d].turns = <<>>  BY <2>1 DEF DraftInit
  <2> QED  BY <2>2 DEF Talked
<1> QED  BY <1>1, <1>2, <1>3, SameRecords DEF DraftInit, Contract!ContractInit, Revisioned, Talked

(* The transactions of SQLAlchemyDraftStore, interleaved, overtaken and    *)
(* retried in any way and by any number of requests, implement the store   *)
(* kept in memory: revisions are only appended, no turn of a conversation  *)
(* is lost between two writers, and a slot keeps its first value.          *)
THEOREM StoreRefinesContract == DraftSpec => ImplementsContract
<1>1. ASSUME DraftInv, DraftInv', [DraftNext]_DraftVars
      PROVE  Contract!ContractNext \/ UNCHANGED Contract!ContractVars
  <2>1. CASE UNCHANGED DraftVars
    BY <2>1 DEF DraftVars, Contract!ContractVars
  <2>2. ASSUME NEW c \in Calls, RequestStep(c)
        PROVE  Contract!ContractNext \/ UNCHANGED Contract!ContractVars
    <3>1. CASE TablesUnchanged
      BY <3>1 DEF TablesUnchanged, Contract!ContractVars
    <3>2. CASE CommitNew(c)  BY <1>1, <3>2, NewRefines
    <3>3. CASE CommitKeep(c)  BY <1>1, <3>3, KeepRefines
    <3>4. CASE CommitRevise(c)  BY <1>1, <3>4, ReviseRefines
    <3>5. CASE CommitTurn(c)  BY <1>1, <3>5, TurnRefines
    <3>6. CASE RememberAnswer(c)  BY <1>1, <3>6, RememberRefines
    <3> QED  BY <2>2, <3>1, <3>2, <3>3, <3>4, <3>5, <3>6
        DEF RequestStep, CreateLookup, CreateLoad, AnswerLoad, ReviseLoad, ReadHead, ReadNoHead,
            FindReplay, CommitLost, ReadTurns, TurnLost, Die
  <2> QED  BY <1>1, <2>1, <2>2 DEF DraftNext
<1>2. DraftInv /\ DraftInv' /\ [DraftNext]_DraftVars
         => [Contract!ContractNext]_(Contract!ContractVars)
  BY <1>1
<1> QED  BY <1>2, InitRefines, Invariant, PTL
         DEF DraftSpec, ImplementsContract, Contract!ContractSpec

-----------------------------------------------------------------------------
(* The Idempotency-Keys. *)

Keyed(c) == command[c].kind # "answer" /\ command[c].key # NoKey

(* The slot whose value the client reads.  A recovered revision is stored  *)
(* as a new draft, because the one it names is lost.                       *)
AnswerSlot(c) ==
    IF command[c].kind = "create" THEN HttpSlot(c)
    ELSE IF command[c].draft \in Lost THEN <<"create", command[c].key>>
    ELSE <<command[c].draft, command[c].key>>

CreateSlot(c) == <<"create", command[c].key>>

(* The draft stored under c's key was computed by c itself. *)
Mine(c) == idempotency[CreateSlot(c)].taken /\ idempotency[CreateSlot(c)].value.reply = c

KindSound(c, l) ==
    /\ command[c].kind = "revise" =>
          /\ l.pc \notin {"turnHead", "turnCommit"}
          /\ l.pc \in {"head", "replay", "commit"} =>
                /\ l.plan = "revise" => l.on = command[c].draft
                /\ l.plan = "new" => command[c].draft \in Lost
    /\ l.pc = "remember" => command[c].kind = "create"

AnswerSound(c, l) ==
    l.pc = "answered" /\ Keyed(c) =>
        idempotency[AnswerSlot(c)].taken /\ idempotency[AnswerSlot(c)].value = l.value

Lacks(q, c) == \A i \in DOMAIN q : q[i].by # c

Unrecorded == {"start", "load", "head", "replay", "commit", "turnHead", "turnCommit"}

ExchangeSound(c, l) ==
    Keyed(c) => /\ l.pc \in Unrecorded => \A d \in Drafts : Lacks(heads[d].turns, c)
                /\ l.pc \in {"turnHead", "turnCommit"} => Mine(c)

KeySound(c, l) == KindSound(c, l) /\ AnswerSound(c, l) /\ ExchangeSound(c, l)

(* The turns of one conversation. *)
TurnsSound(q) ==
    \A i \in DOMAIN q :
        /\ q[i].by \in Calls
        /\ Keyed(q[i].by) => /\ command[q[i].by].kind = "create" /\ Mine(q[i].by)
                             /\ \A j \in DOMAIN q : q[j].by = q[i].by => j = i

KeyInv ==
    /\ \A d \in Seeds : Stored(d)
    /\ \A d \in Lost : ~Stored(d)
    /\ \A d \in Drafts : TurnsSound(heads[d].turns)
    /\ \A c \in Calls : KeySound(c, call[c])

-----------------------------------------------------------------------------
(* What every step keeps. *)

SlotsKept == \A s \in Slots : idempotency[s].taken => idempotency'[s] = idempotency[s]

(* Every conversation is one that was there before. *)
TurnsKept ==
    \A d \in Drafts : \/ heads'[d].turns = <<>>
                      \/ \E e \in Drafts : heads'[d].turns = heads[e].turns

LEMMA KeySlots ==
    ASSUME DraftTypeOK, NEW c \in Calls, Keyed(c)
    PROVE  AnswerSlot(c) \in Slots /\ CreateSlot(c) \in Slots
<1>1. command[c] \in Commands  BY DEF DraftTypeOK
<1>2. command[c].key \in Keys /\ (command[c].kind # "create" => command[c].draft \in Drafts)
  BY <1>1, CommandFields DEF Keyed
<1> QED  BY <1>2, KeysKnown DEF AnswerSlot, CreateSlot, HttpSlot

LEMMA MineKept ==
    ASSUME DraftTypeOK, SlotsKept, command' = command, NEW c \in Calls, Keyed(c), Mine(c)
    PROVE  Mine(c)'
BY KeySlots DEF Mine, SlotsKept, CreateSlot

LEMMA AnswerKept ==
    ASSUME DraftTypeOK, SlotsKept, command' = command, NEW c \in Calls, NEW l,
           AnswerSound(c, l)
    PROVE  AnswerSound(c, l)'
<1>1. Keyed(c)' <=> Keyed(c)  BY DEF Keyed
<1>2. AnswerSlot(c)' = AnswerSlot(c)  BY DEF AnswerSlot, HttpSlot
<1> QED  BY <1>1, <1>2, KeySlots DEF AnswerSound, SlotsKept

LEMMA TurnsSoundKept ==
    ASSUME DraftTypeOK, SlotsKept, command' = command, NEW q, TurnsSound(q)
    PROVE  TurnsSound(q)'
<1>1. \A c : Keyed(c)' <=> Keyed(c)  BY DEF Keyed
<1>2. \A c \in Calls : Keyed(c) /\ Mine(c) => Mine(c)'  BY MineKept
<1> QED  BY <1>1, <1>2 DEF TurnsSound

LEMMA NoTurns == TurnsSound(<<>>) /\ \A c : Lacks(<<>>, c)
BY DEF TurnsSound, Lacks

LEMMA ConversationsKept ==
    ASSUME DraftInv, KeyInv, SlotsKept, TurnsKept, command' = command
    PROVE  /\ \A d \in Drafts : TurnsSound(heads[d].turns)'
           /\ \A c : (\A d \in Drafts : Lacks(heads[d].turns, c)) =>
                        \A d \in Drafts : Lacks(heads'[d].turns, c)
<1>1. ASSUME NEW d \in Drafts PROVE TurnsSound(heads[d].turns)'
  <2>1. PICK q : q = heads'[d].turns  OBVIOUS
  <2>2. q = <<>> \/ \E e \in Drafts : q = heads[e].turns  BY <2>1 DEF TurnsKept
  <2>3. TurnsSound(q)  BY <2>2, NoTurns DEF KeyInv
  <2>4. TurnsSound(q)'  BY <2>3, TurnsSoundKept DEF DraftInv
  <2> QED  BY <2>1, <2>4
<1>2. ASSUME NEW c, \A d \in Drafts : Lacks(heads[d].turns, c), NEW d \in Drafts
      PROVE  Lacks(heads'[d].turns, c)
  BY <1>2, NoTurns DEF TurnsKept
<1> QED  BY <1>1, <1>2

(* A step in which no turn is recorded. *)
LEMMA KeyStep ==
    ASSUME DraftInv, DraftInv', KeyInv, SlotsKept, TurnsKept,
           \A d \in Seeds : Stored(d)', \A d \in Lost : ~Stored(d)',
           NEW c \in Calls, NEW l \in Locals, Become(c, l), KeySound(c, l)'
    PROVE  KeyInv'
<1>1. command' = command /\ call'[c] = l /\ \A k \in Calls \ {c} : call'[k] = call[k]
  BY Becomes DEF DraftInv
<1>2. \A d \in Drafts : TurnsSound(heads[d].turns)'  BY <1>1, ConversationsKept
<1>3. \A k \in Calls : KeySound(k, call[k])'
  <2> SUFFICES ASSUME NEW k \in Calls PROVE KeySound(k, call[k])'  OBVIOUS
  <2>1. CASE k = c  BY <1>1, <2>1
  <2>2. CASE k # c
    <3>1. PICK m : m = call[k]  OBVIOUS
    <3>2. call'[k] = m /\ KeySound(k, m)  BY <1>1, <2>2, <3>1 DEF KeyInv
    <3>3. KindSound(k, m)'  BY <1>1, <3>2 DEF KeySound, KindSound
    <3>4. AnswerSound(k, m)'  BY <1>1, <3>2, AnswerKept DEF KeySound, DraftInv
    <3>5. ExchangeSound(k, m)'
      <4>1. Keyed(k)' <=> Keyed(k)  BY <1>1 DEF Keyed
      <4>2. Keyed(k) /\ Mine(k) => Mine(k)'  BY <1>1, MineKept DEF DraftInv
      <4>3. (\A d \in Drafts : Lacks(heads[d].turns, k)) =>
               \A d \in Drafts : Lacks(heads'[d].turns, k)
        BY <1>1, ConversationsKept
      <4> QED  BY <3>2, <4>1, <4>2, <4>3 DEF KeySound, ExchangeSound, Lacks
    <3> QED  BY <3>2, <3>3, <3>4, <3>5 DEF KeySound
  <2> QED  BY <2>1, <2>2
<1> QED  BY <1>2, <1>3 DEF KeyInv

LEMMA QuietKeyStep ==
    ASSUME DraftInv, DraftInv', KeyInv, TablesUnchanged,
           NEW c \in Calls, NEW l \in Locals, Become(c, l), KeySound(c, l)
    PROVE  KeyInv'
<1>1. SlotsKept /\ TurnsKept  BY DEF SlotsKept, TurnsKept, TablesUnchanged
<1>2. (\A d \in Seeds : Stored(d)') /\ (\A d \in Lost : ~Stored(d)')
  BY DEF KeyInv, TablesUnchanged, Stored
<1>3. KeySound(c, l)'
  BY DEF TablesUnchanged, Become, KeySound, KindSound, AnswerSound, ExchangeSound, Keyed,
         AnswerSlot, HttpSlot, CreateSlot, Mine, Lacks
<1> QED  BY <1>1, <1>2, <1>3, KeyStep

-----------------------------------------------------------------------------
(* Local states. *)

LEMMA EndedKey ==
    ASSUME NEW c, NEW l, l.pc \in {"stale", "conflict", "missing", "dead"}
    PROVE  KeySound(c, l)
BY DEF KeySound, KindSound, AnswerSound, ExchangeSound, Unrecorded

LEMMA OutsideKey ==
    ASSUME NEW c \in Calls, NEW pc \in {"stale", "conflict", "missing", "dead"}
    PROVE  Outside(pc) \in Locals /\ KeySound(c, Outside(pc))
<1>1. Outside(pc) \in Locals /\ Outside(pc).pc = pc  BY OutsideLocal DEF Final
<1> QED  BY <1>1, EndedKey

(* The request goes on with the plan and the draft it had. *)
LEMMA SameKey ==
    ASSUME NEW c \in Calls, NEW l, KeySound(c, call[c]),
           l.plan = call[c].plan, l.on = call[c].on,
           \/ l.pc \in {"head", "replay", "commit"} /\ call[c].pc \in {"head", "replay", "commit"}
           \/ l.pc \in {"turnHead", "turnCommit"} /\ call[c].pc \in {"turnHead", "turnCommit"}
    PROVE  KeySound(c, l)
<1>1. CASE l.pc \in {"head", "replay", "commit"} /\ call[c].pc \in {"head", "replay", "commit"}
  BY <1>1 DEF KeySound, KindSound, AnswerSound, ExchangeSound, Unrecorded
<1>2. CASE l.pc \in {"turnHead", "turnCommit"} /\ call[c].pc \in {"turnHead", "turnCommit"}
  BY <1>2 DEF KeySound, KindSound, AnswerSound, ExchangeSound, Unrecorded
<1> QED  BY <1>1, <1>2

(* The request has just made a plan. *)
LEMMA PlannedKey ==
    ASSUME NEW c \in Calls, KeySound(c, call[c]), call[c].pc \in {"start", "load", "head"},
           NEW plan, NEW on, NEW expect,
           command[c].kind = "revise" =>
              /\ plan = "revise" => on = command[c].draft
              /\ plan = "new" => command[c].draft \in Lost
    PROVE  KeySound(c, Planned(plan, on, expect))
<1> DEFINE l == Planned(plan, on, expect)
<1>1. l.pc = "head" /\ l.plan = plan /\ l.on = on  BY LocalFields DEF Planned
<1> HIDE DEF l
<1> QED  BY <1>1 DEF l, KeySound, KindSound, AnswerSound, ExchangeSound, Unrecorded

(* An unkeyed request owes nothing. *)
LEMMA UnkeyedKey ==
    ASSUME NEW c, NEW l, command[c].kind = "answer", l.pc # "remember"
    PROVE  KeySound(c, l)
BY DEF KeySound, KindSound, AnswerSound, ExchangeSound, Keyed

LEMMA AnsweredKey ==
    ASSUME NEW c \in Calls, NEW v \in Values,
           Keyed(c) => /\ idempotency[AnswerSlot(c)].taken
                       /\ idempotency[AnswerSlot(c)].value = v
    PROVE  KeySound(c, Answered(v))
<1>1. Answered(v).pc = "answered" /\ Answered(v).value = v  BY AnsweredLocal
<1> QED  BY <1>1 DEF KeySound, KindSound, AnswerSound, ExchangeSound, Unrecorded

(* A revision is stored, and replayed, under the slot it is answered from. *)
LEMMA RevisionSlot ==
    ASSUME DraftInv, KeyInv, NEW c \in Calls, call[c].pc \in {"replay", "commit"}, Keyed(c),
           command[c].kind = "revise"
    PROVE  StoreSlot(c) = AnswerSlot(c)
<1>1. LocalSound(c, call[c]) /\ KeySound(c, call[c])  BY CallKnown DEF KeyInv
<1>2. call[c].plan \in {"new", "revise"}  BY <1>1 DEF LocalSound, PlanSound
<1>3. CASE call[c].plan = "new"
  BY <1>1, <1>3 DEF KeySound, KindSound, StoreSlot, AnswerSlot, Keyed
<1>4. CASE call[c].plan = "revise"
  <2>1. call[c].on = command[c].draft  BY <1>1, <1>4 DEF KeySound, KindSound
  <2>2. call[c].on # NoDraft  BY <1>1, <1>4 DEF LocalSound, PlanSound
  <2>3. Stored(command[c].draft)
    BY <1>1, <2>1, <2>2 DEF LocalSound, ReadSound, SeenSound
  <2>4. command[c].draft \notin Lost  BY <2>3 DEF KeyInv
  <2> QED  BY <1>4, <2>4 DEF StoreSlot, AnswerSlot, Keyed
<1> QED  BY <1>2, <1>3, <1>4

-----------------------------------------------------------------------------
(* The steps that leave the tables alone. *)

LEMMA KeyKnown ==
    ASSUME DraftInv, KeyInv, NEW c \in Calls
    PROVE  /\ call[c] \in Locals /\ command[c] \in Commands
           /\ LocalSound(c, call[c]) /\ KeySound(c, call[c])
BY CallKnown DEF KeyInv

LEMMA LookupKey ==
    ASSUME DraftInv, DraftInv', KeyInv, NEW c \in Calls, CreateLookup(c) PROVE KeyInv'
<1> DEFINE entry == EntryAt(HttpSlot(c))
<1>1. TablesUnchanged /\ call[c].pc = "start" /\ command[c].kind = "create"
  BY DEF CreateLookup
<1>2. CASE Become(c, At(c, "load"))
  <2>1. At(c, "load") \in Locals /\ At(c, "load").pc = "load"  BY KeyKnown, AtLocal DEF CallPcs
  <2>2. KeySound(c, At(c, "load"))
    BY <1>1, <2>1, KeyKnown DEF KeySound, KindSound, AnswerSound, ExchangeSound, Unrecorded
  <2> QED  BY <1>1, <1>2, <2>1, <2>2, QuietKeyStep
<1>3. CASE command[c].key # NoKey /\ entry.taken /\ Become(c, Answered(entry.value))
  <2>1. /\ HttpSlot(c) \in Slots /\ entry \in Entries /\ entry = idempotency[HttpSlot(c)]
    BY <1>3, SlotTypes, EntryAtType DEF DraftInv
  <2>2. entry.value \in Values  BY <2>1, <1>3, EntryFields
  <2>3. AnswerSlot(c) = HttpSlot(c)  BY <1>1 DEF AnswerSlot
  <2>4. PICK v : v = entry.value  OBVIOUS
  <2>5. KeySound(c, Answered(v))  BY <1>3, <2>1, <2>2, <2>3, <2>4, AnsweredKey
  <2>6. Answered(v) \in Locals  BY <2>2, <2>4, AnsweredLocal
  <2>7. Become(c, Answered(v))  BY <1>3, <2>4
  <2> QED  BY <1>1, <2>5, <2>6, <2>7, QuietKeyStep
<1>4. CASE Become(c, Outside("conflict"))
  BY <1>1, <1>4, OutsideKey, QuietKeyStep
<1> QED  BY <1>2, <1>3, <1>4 DEF CreateLookup

LEMMA CreateLoadKey ==
    ASSUME DraftInv, DraftInv', KeyInv, NEW c \in Calls, CreateLoad(c) PROVE KeyInv'
<1>1. /\ TablesUnchanged /\ call[c].pc = "load" /\ command[c].kind = "create"
      /\ LocalSound(c, call[c])
  BY KeyKnown DEF CreateLoad, LocalSound, PlanSound
<1>2. CASE Become(c, Outside("missing"))
  BY <1>1, <1>2, OutsideKey, QuietKeyStep
<1>3. CASE \E plan, on, expect : Become(c, Planned(plan, on, expect))
                               /\ Planned(plan, on, expect) \in Locals
  <2>1. PICK plan, on, expect : Become(c, Planned(plan, on, expect))
                             /\ Planned(plan, on, expect) \in Locals
    BY <1>3
  <2>2. KeySound(c, Planned(plan, on, expect))  BY <1>1, KeyKnown, PlannedKey
  <2> QED  BY <1>1, <2>1, <2>2, QuietKeyStep
<1>4. ASSUME NEW l, Become(c, l) PROVE l \in Locals
  <2>1. call' = [call EXCEPT ![c] = l]  BY <1>4 DEF Become
  <2>2. call'[c] = l  BY <2>1 DEF DraftInv, DraftTypeOK
  <2> QED  BY <2>2 DEF DraftInv, DraftTypeOK
<1> QED  BY <1>2, <1>3, <1>4 DEF CreateLoad

LEMMA AnswerLoadKey ==
    ASSUME DraftInv, DraftInv', KeyInv, NEW c \in Calls, AnswerLoad(c) PROVE KeyInv'
<1>1. TablesUnchanged /\ command[c].kind = "answer"  BY DEF AnswerLoad
<1>2. PICK l : Become(c, l) /\ l.pc # "remember"
  <2>1. \A pc, plan, on, expect, seen, tries, value :
           Local(pc, plan, on, expect, seen, tries, value).pc = pc
    BY DEF Local
  <2> QED  BY <2>1 DEF AnswerLoad, Planned, Outside
<1>3. KeySound(c, l)  BY <1>1, <1>2, UnkeyedKey
<1>4. l \in Locals
  <2>1. call' = [call EXCEPT ![c] = l]  BY <1>2 DEF Become
  <2>2. call'[c] = l  BY <2>1 DEF DraftInv, DraftTypeOK
  <2> QED  BY <2>2 DEF DraftInv, DraftTypeOK
<1> QED  BY <1>1, <1>2, <1>3, <1>4, QuietKeyStep

LEMMA ReviseLoadKey ==
    ASSUME DraftInv, DraftInv', KeyInv, NEW c \in Calls, ReviseLoad(c) PROVE KeyInv'
<1> DEFINE l == Planned("revise", command[c].draft, 0)
<1>1. TablesUnchanged /\ Become(c, l) /\ call[c].pc = "start"  BY DEF ReviseLoad
<1>2. KeySound(c, l)  BY <1>1, KeyKnown, PlannedKey
<1>3. l \in Locals
  <2>1. command[c].draft \in Drafts /\ command[c].kind # "create"
    BY KeyKnown, CommandFields DEF ReviseLoad
  <2> QED  BY <2>1, DraftNames, PlannedLocal
<1> QED  BY <1>1, <1>2, <1>3, QuietKeyStep

LEMMA ReadHeadKey ==
    ASSUME DraftInv, DraftInv', KeyInv, NEW c \in Calls, ReadHead(c) PROVE KeyInv'
<1> DEFINE d == call[c].on
           l == Seeing(c, "replay", heads[d])
<1>1. /\ TablesUnchanged /\ call[c].pc = "head" /\ d # NoDraft
      /\ call[c] \in Locals /\ command[c] \in Commands /\ d \in Drafts /\ heads[d] \in HeadRows
      /\ KeySound(c, call[c]) /\ LocalSound(c, call[c])
  BY KeyKnown, CallKnown, CallFields DEF ReadHead
<1>2. CASE Become(c, Outside("missing")) \/ Become(c, Outside("stale"))
  BY <1>1, <1>2, OutsideKey, QuietKeyStep
<1>3. CASE Become(c, l)
  <2>1. l \in Locals /\ l.pc = "replay" /\ l.plan = call[c].plan /\ l.on = call[c].on
    BY <1>1, SeeingLocal DEF CallPcs
  <2>2. KeySound(c, l)
    <3> HIDE DEF l
    <3> QED  BY <1>1, <2>1, SameKey
  <2> QED  BY <1>1, <1>3, <2>1, <2>2, QuietKeyStep
<1>4. CASE /\ ~Stored(d) /\ command[c].kind = "revise" /\ command[c].recover
           /\ Become(c, Planned("new", NoDraft, 0))
  <2>1. call[c].plan \in {"new", "revise"}  BY <1>1, <1>4 DEF LocalSound, PlanSound
  <2>2. command[c].draft \in Lost
    <3>1. CASE call[c].plan = "new"  BY <1>1, <1>4, <3>1 DEF KeySound, KindSound
    <3>2. CASE call[c].plan = "revise"
      <4>1. d = command[c].draft  BY <1>1, <1>4, <3>2 DEF KeySound, KindSound
      <4>2. command[c].draft \in Seeds \cup Lost  BY <1>1, <1>4 DEF Commands
      <4> QED  BY <1>4, <4>1, <4>2 DEF KeyInv
    <3> QED  BY <2>1, <3>1, <3>2
  <2>3. KeySound(c, Planned("new", NoDraft, 0))  BY <1>1, <2>2, PlannedKey
  <2>4. Planned("new", NoDraft, 0) \in Locals  BY PlannedLocal
  <2> QED  BY <1>1, <1>4, <2>3, <2>4, QuietKeyStep
<1> QED  BY <1>2, <1>3, <1>4 DEF ReadHead

LEMMA ReadNoHeadKey ==
    ASSUME DraftInv, DraftInv', KeyInv, NEW c \in Calls, ReadNoHead(c) PROVE KeyInv'
<1> DEFINE l == At(c, "replay")
<1>1. TablesUnchanged /\ Become(c, l) /\ call[c].pc = "head"  BY DEF ReadNoHead
<1>2. l \in Locals /\ l.pc = "replay" /\ l.plan = call[c].plan /\ l.on = call[c].on
  BY KeyKnown, AtLocal DEF CallPcs
<1>3. KeySound(c, l)
  <2> HIDE DEF l
  <2> QED  BY <1>1, <1>2, KeyKnown, SameKey
<1> QED  BY <1>1, <1>2, <1>3, QuietKeyStep

LEMMA FindReplayKey ==
    ASSUME DraftInv, DraftInv', KeyInv, NEW c \in Calls, FindReplay(c) PROVE KeyInv'
<1> DEFINE entry == EntryAt(StoreSlot(c))
<1>1. /\ call[c].pc = "replay" /\ TablesUnchanged
      /\ call[c] \in Locals /\ command[c] \in Commands
      /\ KeySound(c, call[c]) /\ LocalSound(c, call[c])
  BY KeyKnown DEF FindReplay
<1>2. CASE Become(c, At(c, "commit"))
  <2> DEFINE l == At(c, "commit")
  <2>1. l \in Locals /\ l.pc = "commit" /\ l.plan = call[c].plan /\ l.on = call[c].on
    BY <1>1, AtLocal DEF CallPcs
  <2>2. KeySound(c, l)
    <3> HIDE DEF l
    <3> QED  BY <1>1, <2>1, SameKey
  <2> QED  BY <1>1, <1>2, <2>1, <2>2, QuietKeyStep
<1>3. CASE entry.taken /\ Become(c, Holding(c, AfterStoring(c, TRUE), entry.value))
  <2>1. StoreSlot(c) \in Slots \cup {NoSlot}
    BY <1>1, SlotTypes DEF DraftInv, LocalSound, PlanSound
  <2>2. entry \in Entries /\ entry = idempotency[StoreSlot(c)]
    BY <1>3, <2>1, EntryAtType DEF DraftInv
  <2>3. PICK v : v = entry.value  OBVIOUS
  <2>4. v \in Values  BY <1>3, <2>2, <2>3, EntryFields
  <2>5. PICK l : l = Holding(c, AfterStoring(c, TRUE), v)  OBVIOUS
  <2>6. Become(c, l)  BY <1>3, <2>3, <2>5
  <2>7. CASE command[c].kind = "revise"
    <3>1. l = Answered(v)  BY <2>5, <2>7 DEF AfterStoring, Holding
    <3>2. Keyed(c) => StoreSlot(c) = AnswerSlot(c)  BY <1>1, <2>7, RevisionSlot
    <3>3. Keyed(c) => idempotency[AnswerSlot(c)].taken /\ idempotency[AnswerSlot(c)].value = v
      BY <1>3, <2>2, <2>3, <3>2
    <3>4. KeySound(c, l) /\ l \in Locals  BY <2>4, <3>1, <3>3, AnsweredKey, AnsweredLocal
    <3> QED  BY <1>1, <2>6, <3>4, QuietKeyStep
  <2>8. CASE command[c].kind # "revise"
    <3>1. PICK pc \in {"remember", "turnHead"} :
             /\ pc = AfterStoring(c, TRUE)
             /\ pc = "remember" => command[c].kind = "create"
             /\ pc = "turnHead" => command[c].kind = "answer"
      BY <1>1, <2>8, CommandFields DEF AfterStoring
    <3>2. l = Holding(c, pc, v)  BY <2>5, <3>1
    <3>3. l \in Locals /\ l.pc = pc  BY <1>1, <2>4, <3>2, HoldingLocal
    <3>4. KeySound(c, l)
      <4>1. CASE pc = "turnHead"  BY <3>1, <3>3, <4>1, UnkeyedKey
      <4>2. CASE pc = "remember"
        BY <3>1, <3>3, <4>2 DEF KeySound, KindSound, AnswerSound, ExchangeSound, Unrecorded
      <4> QED  BY <4>1, <4>2
    <3> QED  BY <1>1, <2>6, <3>3, <3>4, QuietKeyStep
  <2> QED  BY <2>7, <2>8
<1>4. CASE Become(c, Outside("conflict"))
  BY <1>1, <1>4, OutsideKey, QuietKeyStep
<1> QED  BY <1>2, <1>3, <1>4 DEF FindReplay

LEMMA AttemptedKey ==
    ASSUME DraftInv, KeyInv, NEW c \in Calls, NEW pc \in {"head", "turnHead"},
           pc = "head" => call[c].pc = "commit",
           pc = "turnHead" => call[c].pc = "turnCommit"
    PROVE  KeySound(c, Attempted(c, pc))
<1>1. CASE call[c].tries + 1 = MaxAttempts
  BY <1>1, OutsideKey DEF Attempted
<1>2. CASE call[c].tries + 1 # MaxAttempts
  <2> DEFINE l == Attempted(c, pc)
  <2>1. l.pc = pc /\ l.plan = call[c].plan /\ l.on = call[c].on
    BY <1>2, LocalFields DEF Attempted
  <2> HIDE DEF l
  <2>2. KeySound(c, l)  BY <2>1, KeyKnown, SameKey
  <2> QED  BY <2>2 DEF l
<1> QED  BY <1>1, <1>2

LEMMA CommitLostKey ==
    ASSUME DraftInv, DraftInv', KeyInv, NEW c \in Calls, CommitLost(c) PROVE KeyInv'
<1>1. call[c].pc = "commit" /\ TablesUnchanged /\ Become(c, Attempted(c, "head"))
  BY DEF CommitLost
<1>2. Attempted(c, "head") \in Locals /\ KeySound(c, Attempted(c, "head"))
  BY <1>1, AttemptedLocal, AttemptedKey
<1> QED  BY <1>1, <1>2, QuietKeyStep

LEMMA TurnLostKey ==
    ASSUME DraftInv, DraftInv', KeyInv, NEW c \in Calls, TurnLost(c) PROVE KeyInv'
<1>1. call[c].pc = "turnCommit" /\ TablesUnchanged /\ Become(c, Attempted(c, "turnHead"))
  BY DEF TurnLost
<1>2. Attempted(c, "turnHead") \in Locals /\ KeySound(c, Attempted(c, "turnHead"))
  BY <1>1, AttemptedLocal, AttemptedKey
<1> QED  BY <1>1, <1>2, QuietKeyStep

LEMMA ReadTurnsKey ==
    ASSUME DraftInv, DraftInv', KeyInv, NEW c \in Calls, ReadTurns(c) PROVE KeyInv'
<1> DEFINE d == call[c].value.draft
           l == Seeing(c, "turnCommit", heads[d])
<1>1. call[c].pc = "turnHead" /\ TablesUnchanged  BY DEF ReadTurns
<1>2. call[c] \in Locals /\ LocalSound(c, call[c]) /\ KeySound(c, call[c])  BY KeyKnown
<1>3. heads[d] \in HeadRows
  BY <1>1, <1>2, CallKnown DEF LocalSound, HeldSound, Written
<1>4. CASE Become(c, Outside("stale"))
  BY <1>1, <1>4, OutsideKey, QuietKeyStep
<1>5. CASE Become(c, l)
  <2>1. l \in Locals /\ l.pc = "turnCommit" /\ l.plan = call[c].plan /\ l.on = call[c].on
    BY <1>2, <1>3, SeeingLocal DEF CallPcs
  <2>2. KeySound(c, l)
    <3> HIDE DEF l
    <3> QED  BY <1>1, <1>2, <2>1, SameKey
  <2> QED  BY <1>1, <1>5, <2>1, <2>2, QuietKeyStep
<1> QED  BY <1>4, <1>5 DEF ReadTurns

LEMMA DieKey ==
    ASSUME DraftInv, DraftInv', KeyInv, NEW c \in Calls, Die(c) PROVE KeyInv'
BY OutsideKey, QuietKeyStep DEF Die

-----------------------------------------------------------------------------
(* The steps that store something. *)

LEMMA PutKeeps ==
    ASSUME DraftInv, NEW c \in Calls, NEW slot \in Slots \cup {NoSlot}, NEW v \in Values,
           ~EntryAt(slot).taken, Put(slot, c, v)
    PROVE  /\ SlotsKept
           /\ slot \in Slots => idempotency'[slot].taken /\ idempotency'[slot].value = v
<1>1. idempotency \in [Slots -> Entries]  BY DEF DraftInv, DraftTypeOK
<1>2. Entry(Hash(c), v).taken /\ Entry(Hash(c), v).value = v
  BY SlotTypes, EntryType DEF DraftInv
<1>3. CASE slot = NoSlot  BY <1>3, DraftNames DEF Put, SlotsKept
<1>4. CASE slot # NoSlot
  <2>1. /\ idempotency' = [idempotency EXCEPT ![slot] = Entry(Hash(c), v)]
        /\ slot \in Slots /\ ~idempotency[slot].taken
    BY <1>4 DEF Put, EntryAt
  <2> QED  BY <1>1, <1>2, <2>1 DEF SlotsKept
<1> QED  BY <1>3, <1>4

LEMMA StoredKey ==
    ASSUME DraftInv, DraftInv', KeyInv, NEW c \in Calls, call[c].pc = "commit",
           NEW v \in Values, v.reply = c,
           StoreSlot(c) \in Slots \cup {NoSlot}, ~EntryAt(StoreSlot(c)).taken,
           Put(StoreSlot(c), c, v), Become(c, Holding(c, AfterStoring(c, FALSE), v)),
           TurnsKept, \A d \in Seeds : Stored(d)', \A d \in Lost : ~Stored(d)'
    PROVE  KeyInv'
<1>1. /\ call[c] \in Locals /\ command[c] \in Commands
      /\ KeySound(c, call[c]) /\ LocalSound(c, call[c])
  BY KeyKnown
<1>2. /\ SlotsKept
      /\ StoreSlot(c) \in Slots => /\ idempotency'[StoreSlot(c)].taken
                                   /\ idempotency'[StoreSlot(c)].value = v
  <2>1. \A slot \in Slots \cup {NoSlot} : ~EntryAt(slot).taken /\ Put(slot, c, v) =>
           /\ SlotsKept
           /\ slot \in Slots => idempotency'[slot].taken /\ idempotency'[slot].value = v
    BY PutKeeps
  <2> QED  BY <2>1
<1>3. command' = command  BY DEF Become
<1>4. PICK l : l = Holding(c, AfterStoring(c, FALSE), v)  OBVIOUS
<1>5. Become(c, l)  BY <1>4
<1>6. l \in Locals
  <2>1. call' = [call EXCEPT ![c] = l]  BY <1>5 DEF Become
  <2>2. call'[c] = l  BY <2>1 DEF DraftInv, DraftTypeOK
  <2> QED  BY <2>2 DEF DraftInv, DraftTypeOK
<1>7. CASE command[c].kind = "revise"
  <2>1. l = Answered(v)  BY <1>4, <1>7 DEF AfterStoring, Holding
  <2>2. l.pc = "answered" /\ l.value = v  BY <2>1, AnsweredLocal
  <2>3. Keyed(c) => StoreSlot(c) = AnswerSlot(c) /\ AnswerSlot(c) \in Slots
    BY <1>1, <1>7, RevisionSlot, KeySlots DEF DraftInv
  <2>4. Keyed(c)' <=> Keyed(c)  BY <1>3 DEF Keyed
  <2>5. AnswerSlot(c)' = AnswerSlot(c)  BY <1>3 DEF AnswerSlot, HttpSlot
  <2>6. AnswerSound(c, l)'
    BY <1>2, <2>2, <2>3, <2>4, <2>5 DEF AnswerSound
  <2>7. KindSound(c, l)' /\ ExchangeSound(c, l)'
    BY <2>2 DEF KindSound, ExchangeSound, Unrecorded
  <2>8. KeySound(c, l)'  BY <2>6, <2>7 DEF KeySound
  <2> QED  BY <1>2, <1>5, <1>6, <2>8, KeyStep
<1>8. CASE command[c].kind # "revise"
  <2>1. l.pc = "turnHead"
    <3>1. AfterStoring(c, FALSE) = "turnHead"  BY <1>8 DEF AfterStoring
    <3>2. l = Holding(c, "turnHead", v)  BY <1>4, <3>1
    <3> QED  BY <1>1, <3>2, HoldingLocal
  <2>2. Keyed(c)' <=> Keyed(c)  BY <1>3 DEF Keyed
  <2>3. ASSUME Keyed(c) PROVE Mine(c)'
    <3>1. command[c].kind = "create" /\ command[c].key # NoKey
      BY <1>1, <1>8, <2>3, CommandFields DEF Keyed
    <3>2. call[c].plan # "revise"  BY <1>1, <3>1 DEF LocalSound, PlanSound
    <3>3. StoreSlot(c) = CreateSlot(c)  BY <3>1, <3>2 DEF StoreSlot, CreateSlot
    <3>4. CreateSlot(c) \in Slots  BY <2>3, KeySlots DEF DraftInv
    <3>5. CreateSlot(c)' = CreateSlot(c)  BY <1>3 DEF CreateSlot
    <3> QED  BY <1>2, <3>3, <3>4, <3>5 DEF Mine
  <2>4. ASSUME Keyed(c) PROVE \A d \in Drafts : Lacks(heads'[d].turns, c)
    <3>1. \A d \in Drafts : Lacks(heads[d].turns, c)
      BY <1>1, <2>4 DEF KeySound, ExchangeSound, Unrecorded
    <3> QED  BY <1>2, <1>3, <3>1, ConversationsKept
  <2>5. ExchangeSound(c, l)'
    BY <2>2, <2>3, <2>4 DEF ExchangeSound, Lacks
  <2>6. KindSound(c, l)' /\ AnswerSound(c, l)'
    BY <1>3, <1>8, <2>1 DEF KindSound, AnswerSound
  <2>7. KeySound(c, l)'  BY <2>5, <2>6 DEF KeySound
  <2> QED  BY <1>2, <1>5, <1>6, <2>7, KeyStep
<1> QED  BY <1>7, <1>8

(* One head row replaced, its conversation unchanged. *)
LEMMA ReplacedKey ==
    ASSUME DraftInv, KeyInv, NEW d \in Drafts, NEW h, Stored(d),
           heads' = [heads EXCEPT ![d] = h], h.latest > 0, h.turns = heads[d].turns
    PROVE  TurnsKept /\ (\A e \in Seeds : Stored(e)') /\ (\A e \in Lost : ~Stored(e)')
<1>1. heads'[d] = h /\ \A e \in Drafts \ {d} : heads'[e] = heads[e]
  BY DEF DraftInv, DraftTypeOK
<1>2. TurnsKept  BY <1>1 DEF TurnsKept
<1>3. Lost \subseteq Drafts /\ Seeds \subseteq Drafts  BY DraftNames, LostDrafts
<1>4. d \notin Lost  BY DEF KeyInv
<1> QED  BY <1>1, <1>2, <1>3, <1>4 DEF KeyInv, Stored

LEMMA CommitKeepKey ==
    ASSUME DraftInv, DraftInv', KeyInv, NEW c \in Calls, CommitKeep(c) PROVE KeyInv'
<1> DEFINE d == call[c].on
           h == HeadRow(heads[d].latest, heads[d].version + 1, heads[d].turns)
<1>1. /\ d \in Drafts /\ Stored(d) /\ heads' = [heads EXCEPT ![d] = h]
      /\ StoreSlot(c) \in Slots \cup {NoSlot} /\ ~EntryAt(StoreSlot(c)).taken
  BY KeepDoes
<1>2. PICK v : v = Value(d, heads[d].latest, c, c)  OBVIOUS
<1>3. /\ v \in Values /\ Put(StoreSlot(c), c, v)
      /\ Become(c, Holding(c, AfterStoring(c, FALSE), v))
  BY <1>2, KeepDoes
<1>4. v.reply = c  BY <1>2 DEF Value
<1>5. TurnsKept /\ (\A e \in Seeds : Stored(e)') /\ (\A e \in Lost : ~Stored(e)')
  <2>1. h.latest > 0 /\ h.turns = heads[d].turns  BY <1>1 DEF HeadRow, Stored
  <2> HIDE DEF h
  <2> QED  BY <1>1, <2>1, ReplacedKey
<1>6. call[c].pc = "commit"  BY DEF CommitKeep
<1> QED  BY <1>1, <1>3, <1>4, <1>5, <1>6, StoredKey

LEMMA CommitReviseKey ==
    ASSUME DraftInv, DraftInv', KeyInv, NEW c \in Calls, CommitRevise(c) PROVE KeyInv'
<1> DEFINE d == call[c].on
           n == heads[d].latest
           h == HeadRow(n + 1, heads[d].version + 1, heads[d].turns)
<1>1. /\ d \in Drafts /\ Stored(d) /\ heads' = [heads EXCEPT ![d] = h]
      /\ StoreSlot(c) \in Slots \cup {NoSlot} /\ ~EntryAt(StoreSlot(c)).taken
  BY ReviseDoes
<1>2. PICK v : v = Value(d, n + 1, c, c)  OBVIOUS
<1>3. /\ v \in Values /\ Put(StoreSlot(c), c, v)
      /\ Become(c, Holding(c, AfterStoring(c, FALSE), v))
  BY <1>2, ReviseDoes
<1>4. v.reply = c  BY <1>2 DEF Value
<1>5. TurnsKept /\ (\A e \in Seeds : Stored(e)') /\ (\A e \in Lost : ~Stored(e)')
  <2>1. n \in Nat  BY <1>1, CallKnown, HeadFields
  <2>2. h.latest > 0 /\ h.turns = heads[d].turns  BY <2>1 DEF HeadRow
  <2> HIDE DEF h
  <2> QED  BY <1>1, <2>2, ReplacedKey
<1>6. call[c].pc = "commit"  BY DEF CommitRevise
<1> QED  BY <1>1, <1>3, <1>4, <1>5, <1>6, StoredKey

LEMMA CommitNewKey ==
    ASSUME DraftInv, DraftInv', KeyInv, NEW c \in Calls, CommitNew(c) PROVE KeyInv'
<1> PICK d : d = CHOOSE e \in Unused : TRUE  OBVIOUS
<1> DEFINE parent == call[c].on
           t == call[c].seen.turns
<1>1. /\ d \in Drafts /\ ~Stored(d) /\ t \in Seq(Turns)
      /\ heads'[d] = HeadRow(1, 1, t)
      /\ (parent = NoDraft => t = <<>>)
      /\ (parent # NoDraft =>
            /\ parent \in Drafts /\ Stored(parent) /\ parent # d /\ t = heads[parent].turns
            /\ heads'[parent] = HeadRow(heads[parent].latest, heads[parent].version + 1, t))
      /\ \A e \in Drafts \ {d, parent} : heads'[e] = heads[e]
      /\ StoreSlot(c) \in Slots \cup {NoSlot} /\ ~EntryAt(StoreSlot(c)).taken
  BY NewDoes
<1>2. PICK v : v = Value(d, 1, c, c)  OBVIOUS
<1>3. /\ v \in Values /\ Put(StoreSlot(c), c, v)
      /\ Become(c, Holding(c, AfterStoring(c, FALSE), v))
  BY <1>2, NewDoes
<1>4. v.reply = c  BY <1>2 DEF Value
<1>5. heads'[d].latest = 1 /\ heads'[d].turns = t
      /\ (parent # NoDraft => /\ heads'[parent].latest = heads[parent].latest
                             /\ heads'[parent].turns = t)
  BY <1>1 DEF HeadRow
<1>6. TurnsKept
  <2> SUFFICES ASSUME NEW e \in Drafts
               PROVE  heads'[e].turns = <<>> \/ \E f \in Drafts : heads'[e].turns = heads[f].turns
    BY DEF TurnsKept
  <2>1. CASE e = d  BY <1>1, <1>5, <2>1
  <2>2. CASE e = parent  BY <1>1, <1>5, <2>2, DraftNames
  <2>3. CASE e # d /\ e # parent  BY <1>1, <2>3
  <2> QED  BY <2>1, <2>2, <2>3
<1>7. Lost \subseteq Drafts /\ Seeds \subseteq Drafts  BY DraftNames, LostDrafts
<1>8. ASSUME NEW e \in Seeds PROVE heads'[e].latest > 0
  <2>1. heads[e].latest > 0 /\ e \in Drafts  BY <1>7 DEF KeyInv, Stored
  <2>2. CASE e = parent  BY <1>5, <1>7, <2>1, <2>2, DraftNames
  <2>3. CASE e # parent  BY <1>1, <2>1, <2>3 DEF Stored
  <2> QED  BY <2>2, <2>3
<1>9. ASSUME NEW e \in Lost PROVE ~(heads'[e].latest > 0)
  <2>1. ~(heads[e].latest > 0) /\ e \in Drafts  BY <1>7 DEF KeyInv, Stored
  <2>2. e # d  BY DEF CommitNew, Unused
  <2>3. e # parent  BY <1>1, <2>1, DraftNames DEF Stored
  <2> QED  BY <1>1, <2>1, <2>2, <2>3
<1>10. call[c].pc = "commit"  BY DEF CommitNew
<1> QED  BY <1>1, <1>3, <1>4, <1>6, <1>8, <1>9, <1>10, StoredKey DEF Stored

LEMMA RememberKey ==
    ASSUME DraftInv, DraftInv', KeyInv, NEW c \in Calls, RememberAnswer(c) PROVE KeyInv'
<1>1. /\ call[c].pc = "remember" /\ UNCHANGED <<heads, rows>>
      /\ command[c].kind = "create" /\ call[c] \in Locals /\ LocalSound(c, call[c])
  BY KeyKnown DEF RememberAnswer, KeySound, KindSound
<1>2. AnswerSlot(c) = HttpSlot(c)  BY <1>1 DEF AnswerSlot
<1>3. ASSUME NEW l, Become(c, l) PROVE l \in Locals
  <2>1. call' = [call EXCEPT ![c] = l]  BY <1>3 DEF Become
  <2>2. call'[c] = l  BY <2>1 DEF DraftInv, DraftTypeOK
  <2> QED  BY <2>2 DEF DraftInv, DraftTypeOK
<1>4. CASE command[c].key = NoKey /\ Become(c, Answered(Response(c))) /\ UNCHANGED idempotency
  <2>1. PICK l : l = Answered(Response(c))  OBVIOUS
  <2>2. l.pc = "answered"  BY <2>1, LocalFields DEF Answered
  <2>3. KeySound(c, l)
    BY <1>4, <2>2 DEF KeySound, KindSound, AnswerSound, ExchangeSound, Unrecorded, Keyed
  <2>4. Become(c, l)  BY <1>4, <2>1
  <2> QED  BY <1>1, <1>3, <1>4, <2>3, <2>4, QuietKeyStep DEF TablesUnchanged
<1>5. CASE /\ command[c].key # NoKey /\ ~EntryAt(HttpSlot(c)).taken
           /\ Become(c, Answered(Response(c))) /\ Put(HttpSlot(c), c, Response(c))
  <2>1. PICK v : v = Response(c)  OBVIOUS
  <2>2. PICK l : l = Answered(v)  OBVIOUS
  <2>3. Become(c, l) /\ Put(HttpSlot(c), c, v)  BY <1>5, <2>1, <2>2
  <2>4. HttpSlot(c) \in Slots  BY <1>5, SlotTypes DEF DraftInv
  <2>5. l \in Locals /\ l.pc = "answered" /\ l.value = v
    BY <1>3, <2>2, <2>3, LocalFields DEF Answered
  <2>6. idempotency' = [idempotency EXCEPT ![HttpSlot(c)] = Entry(Hash(c), v)]
    BY <2>3, <2>4, DraftNames DEF Put
  <2>7. idempotency \in [Slots -> Entries] /\ ~idempotency[HttpSlot(c)].taken
    BY <1>5, <2>4, DraftNames DEF DraftInv, DraftTypeOK, EntryAt
  <2>8. SlotsKept  BY <2>6, <2>7 DEF SlotsKept
  <2>9. idempotency'[HttpSlot(c)].taken /\ idempotency'[HttpSlot(c)].value = v
    BY <2>4, <2>6, <2>7 DEF Entry
  <2>10. AnswerSlot(c)' = HttpSlot(c)
    BY <1>2, <2>3 DEF Become, AnswerSlot, HttpSlot
  <2>11. KeySound(c, l)'
    BY <2>5, <2>9, <2>10 DEF KeySound, KindSound, AnswerSound, ExchangeSound, Unrecorded
  <2>12. TurnsKept /\ (\A d \in Seeds : Stored(d)') /\ (\A d \in Lost : ~Stored(d)')
    BY <1>1 DEF TurnsKept, KeyInv, Stored
  <2> QED  BY <2>3, <2>5, <2>8, <2>11, <2>12, KeyStep
<1>6. CASE /\ command[c].key # NoKey /\ EntryAt(HttpSlot(c)).taken
           /\ Become(c, Answered(EntryAt(HttpSlot(c)).value)) /\ UNCHANGED idempotency
  <2>1. /\ HttpSlot(c) \in Slots /\ EntryAt(HttpSlot(c)) = idempotency[HttpSlot(c)]
        /\ EntryAt(HttpSlot(c)) \in Entries
    BY <1>6, SlotTypes, EntryAtType DEF DraftInv
  <2>2. PICK v : v = idempotency[HttpSlot(c)].value  OBVIOUS
  <2>3. v \in Values  BY <1>6, <2>1, <2>2, EntryFields
  <2>4. KeySound(c, Answered(v)) /\ Answered(v) \in Locals
    BY <1>2, <1>6, <2>1, <2>2, <2>3, AnsweredKey, AnsweredLocal
  <2>5. Become(c, Answered(v))  BY <1>6, <2>1, <2>2
  <2> QED  BY <1>1, <1>6, <2>4, <2>5, QuietKeyStep DEF TablesUnchanged
<1>7. CASE Become(c, Outside("conflict")) /\ UNCHANGED idempotency
  BY <1>1, <1>7, OutsideKey, QuietKeyStep DEF TablesUnchanged
<1> QED  BY <1>4, <1>5, <1>6, <1>7 DEF RememberAnswer

-----------------------------------------------------------------------------
(* The step that records a turn. *)

LEMMA KeptSuffix ==
    ASSUME NEW q \in Seq(Turns)
    PROVE  \E o \in Nat : /\ Kept(q) \in Seq(Turns) /\ Len(Kept(q)) = Len(q) - o
                         /\ \A i \in 1..Len(Kept(q)) : Kept(q)[i] = q[i + o]
<1>1. Len(q) \in Nat /\ HistoryLimit \in Nat \ {0}  BY LenProperties, HistoryLimitPositive
<1>2. CASE Len(q) <= HistoryLimit
  <2>1. Kept(q) = q  BY <1>2 DEF Kept
  <2>2. Len(q) = Len(q) - 0 /\ \A i \in 1..Len(q) : q[i] = q[i + 0]  BY <1>1
  <2> QED  BY <2>1, <2>2
<1>3. CASE ~(Len(q) <= HistoryLimit)
  <2> DEFINE m == Len(q) - HistoryLimit + 1
             o == Len(q) - HistoryLimit
  <2>1. /\ m \in Int /\ Len(q) \in Int /\ m <= Len(q) /\ m >= 1 /\ o \in Nat
        /\ Len(q) - m + 1 = Len(q) - o /\ m = o + 1
    BY <1>1, <1>3
  <2>2. \A i \in m..Len(q) : q[i] \in Turns
    BY <2>1, <1>1, ElementOfSeq
  <2>3. /\ SubSeq(q, m, Len(q)) \in Seq(Turns)
        /\ Len(SubSeq(q, m, Len(q))) = Len(q) - m + 1
        /\ \A i \in 1..(Len(q) - m + 1) : SubSeq(q, m, Len(q))[i] = q[m + i - 1]
    <3> HIDE DEF m, o
    <3> QED  BY <2>1, <2>2, SubSeqProperties
  <2>4. Kept(q) = SubSeq(q, m, Len(q))  BY <1>3 DEF Kept
  <2>5. \A i \in 1..(Len(q) - o) : m + i - 1 = i + o
    <3> HIDE DEF m, o
    <3> QED  BY <2>1
  <2>6. /\ Kept(q) \in Seq(Turns) /\ Len(Kept(q)) = Len(q) - o
        /\ \A i \in 1..Len(Kept(q)) : Kept(q)[i] = q[i + o]
    <3> HIDE DEF m, o
    <3> QED  BY <2>1, <2>3, <2>4, <2>5
  <2> QED  BY <2>1, <2>6
<1> QED  BY <1>2, <1>3

LEMMA KeptTurns ==
    ASSUME NEW q \in Seq(Turns)
    PROVE  /\ TurnsSound(q) => TurnsSound(Kept(q))
           /\ \A c : Lacks(q, c) => Lacks(Kept(q), c)
<1>1. PICK o \in Nat : /\ Kept(q) \in Seq(Turns) /\ Len(Kept(q)) = Len(q) - o
                       /\ \A i \in 1..Len(Kept(q)) : Kept(q)[i] = q[i + o]
  BY KeptSuffix
<1>2. PICK p : p = Kept(q)  OBVIOUS
<1>3. Len(q) \in Nat /\ DOMAIN q = 1..Len(q) /\ DOMAIN p = 1..Len(p) /\ Len(p) = Len(q) - o
  BY <1>1, <1>2, LenProperties
<1>4. \A i \in DOMAIN p : i + o \in DOMAIN q /\ p[i] = q[i + o]  BY <1>1, <1>2, <1>3
<1>5. \A i, j \in DOMAIN p : i + o = j + o => i = j  BY <1>3
<1>6. TurnsSound(q) => TurnsSound(p)  BY <1>4, <1>5 DEF TurnsSound
<1>7. \A c : Lacks(q, c) => Lacks(p, c)  BY <1>4 DEF Lacks
<1> QED  BY <1>2, <1>6, <1>7

LEMMA AppendedTurns ==
    ASSUME NEW p \in Seq(Turns), NEW t \in Turns, TurnsSound(p), t.by \in Calls,
           Keyed(t.by) => command[t.by].kind = "create" /\ Mine(t.by) /\ Lacks(p, t.by)
    PROVE  /\ Append(p, t) \in Seq(Turns) /\ TurnsSound(Append(p, t))
           /\ \A c : Lacks(p, c) /\ t.by # c => Lacks(Append(p, t), c)
<1>1. PICK q : q = Append(p, t)  OBVIOUS
<1>2. /\ q \in Seq(Turns) /\ Len(q) = Len(p) + 1 /\ Len(p) \in Nat
      /\ \A i \in 1..Len(p) : q[i] = p[i]
      /\ q[Len(p) + 1] = t
  BY <1>1, AppendProperties, LenProperties
<1>3. DOMAIN q = 1..(Len(p) + 1) /\ DOMAIN p = 1..Len(p)  BY <1>2, LenProperties
<1>4. \A i \in DOMAIN q : \/ i \in DOMAIN p /\ q[i] = p[i]
                          \/ i = Len(p) + 1 /\ q[i] = t
  <2> SUFFICES ASSUME NEW i \in 1..(Len(p) + 1)
               PROVE  \/ i \in 1..Len(p) /\ q[i] = p[i]
                      \/ i = Len(p) + 1 /\ q[i] = t
    BY <1>3
  <2>1. i \in 1..Len(p) \/ i = Len(p) + 1  BY <1>2
  <2>2. CASE i \in 1..Len(p)  BY <1>2, <2>2
  <2>3. CASE i = Len(p) + 1  BY <1>2, <2>3
  <2> QED  BY <2>1, <2>2, <2>3
<1>5. TurnsSound(q)
  <2> SUFFICES ASSUME NEW i \in DOMAIN q
               PROVE  /\ q[i].by \in Calls
                      /\ Keyed(q[i].by) => /\ command[q[i].by].kind = "create" /\ Mine(q[i].by)
                                           /\ \A j \in DOMAIN q : q[j].by = q[i].by => j = i
    BY DEF TurnsSound
  <2>1. CASE i \in DOMAIN p /\ q[i] = p[i]
    <3>1. /\ p[i].by \in Calls
          /\ Keyed(p[i].by) => /\ command[p[i].by].kind = "create" /\ Mine(p[i].by)
                               /\ \A j \in DOMAIN p : p[j].by = p[i].by => j = i
      BY <2>1 DEF TurnsSound
    <3>2. ASSUME Keyed(p[i].by), NEW j \in DOMAIN q, q[j].by = p[i].by PROVE j = i
      <4>1. CASE j \in DOMAIN p /\ q[j] = p[j]  BY <3>1, <3>2, <4>1
      <4>2. CASE q[j] = t
        <5>1. Lacks(p, t.by)  BY <3>2, <4>2
        <5> QED  BY <2>1, <3>2, <4>2, <5>1 DEF Lacks
      <4> QED  BY <1>4, <4>1, <4>2
    <3> QED  BY <2>1, <3>1, <3>2
  <2>2. CASE i = Len(p) + 1 /\ q[i] = t
    <3>1. ASSUME Keyed(t.by), NEW j \in DOMAIN q, q[j].by = t.by PROVE j = i
      BY <1>4, <2>2, <3>1 DEF Lacks
    <3> QED  BY <2>2, <3>1
  <2> QED  BY <1>4, <2>1, <2>2
<1>6. \A c : Lacks(p, c) /\ t.by # c => Lacks(q, c)  BY <1>4 DEF Lacks
<1> QED  BY <1>1, <1>2, <1>5, <1>6

LEMMA CommitTurnKey ==
    ASSUME DraftInv, DraftInv', KeyInv, NEW c \in Calls, CommitTurn(c) PROVE KeyInv'
<1> DEFINE d == call[c].value.draft
           r == call[c].value.revision
           next == IF command[c].kind = "create" THEN "remember" ELSE "answered"
<1>1. PICK q : q = Kept(Append(heads[d].turns, Turn(c, r)))  OBVIOUS
<1>2. PICK h : h = HeadRow(heads[d].latest, heads[d].version + 1, q)  OBVIOUS
<1>3. /\ d \in Drafts /\ Stored(d) /\ r \in 1..heads[d].latest /\ call[c].value \in Values
      /\ heads' = [heads EXCEPT ![d] = h] /\ UNCHANGED <<rows, idempotency>>
      /\ Become(c, Holding(c, next, call[c].value))
  BY <1>1, <1>2, TurnDoes
<1>4. /\ h.latest = heads[d].latest /\ h.turns = q  BY <1>2 DEF HeadRow
<1>5. /\ heads'[d] = h /\ \A e \in Drafts \ {d} : heads'[e] = heads[e]
  BY <1>3 DEF DraftInv, DraftTypeOK
<1>6. /\ call[c] \in Locals /\ command[c] \in Commands /\ call[c].pc = "turnCommit"
      /\ KeySound(c, call[c])
  BY KeyKnown DEF CommitTurn
<1>7. command' = command /\ SlotsKept  BY <1>3 DEF Become, SlotsKept
<1>8. PICK l : l = Holding(c, next, call[c].value)  OBVIOUS
<1>9. Become(c, l)  BY <1>3, <1>8
<1>10. /\ call'[c] = l /\ \A k \in Calls \ {c} : call'[k] = call[k]
  <2>1. call' = [call EXCEPT ![c] = l]  BY <1>9 DEF Become
  <2> QED  BY <2>1 DEF DraftInv, DraftTypeOK
<1>11. l.pc = next
  <2>1. PICK pc \in {"answered", "remember"} : pc = next  OBVIOUS
  <2>2. l = Holding(c, pc, call[c].value)  BY <1>8, <2>1
  <2>3. l.pc = pc  BY <1>3, <1>6, <2>2, HoldingLocal
  <2> QED  BY <2>1, <2>3
<1>12. Keyed(c) => /\ command[c].kind = "create" /\ Mine(c)
                   /\ \A e \in Drafts : Lacks(heads[e].turns, c)
  BY <1>6, CommandFields DEF Keyed, KeySound, KindSound, ExchangeSound, Unrecorded
<1>13. TurnsSound(q) /\ \A k : k # c /\ Lacks(heads[d].turns, k) => Lacks(q, k)
  <2>1. PICK p, t : p = heads[d].turns /\ t = Turn(c, r)  OBVIOUS
  <2>2. p \in Seq(Turns) /\ TurnsSound(p)
    BY <1>3, <2>1, CallKnown, HeadFields DEF KeyInv
  <2>3. t \in Turns /\ t.by = c
    <3>1. r \in Nat  BY <1>3, ValueFields
    <3> QED  BY <2>1, <3>1 DEF Turn, Turns, Authors
  <2>4. /\ Append(p, t) \in Seq(Turns) /\ TurnsSound(Append(p, t))
        /\ \A k : Lacks(p, k) /\ k # c => Lacks(Append(p, t), k)
    <3>1. Keyed(c) => command[c].kind = "create" /\ Mine(c) /\ Lacks(p, c)
      BY <1>3, <1>12, <2>1
    <3> QED  BY <2>2, <2>3, <3>1, AppendedTurns
  <2>5. q = Kept(Append(p, t))  BY <1>1, <2>1
  <2> QED  BY <2>1, <2>4, <2>5, KeptTurns
<1>14. ASSUME NEW e \in Drafts PROVE TurnsSound(heads[e].turns)'
  <2>1. PICK w : w = heads'[e].turns  OBVIOUS
  <2>2. TurnsSound(w)  BY <1>4, <1>5, <1>13, <2>1 DEF KeyInv
  <2>3. TurnsSound(w)'  BY <1>7, <2>2, TurnsSoundKept DEF DraftInv
  <2> QED  BY <2>1, <2>3
<1>15. Lost \subseteq Drafts /\ Seeds \subseteq Drafts /\ d \notin Lost
  BY <1>3, DraftNames, LostDrafts DEF KeyInv
<1>16. (\A e \in Seeds : Stored(e)') /\ (\A e \in Lost : ~Stored(e)')
  BY <1>3, <1>4, <1>5, <1>15 DEF KeyInv, Stored
<1>17. ASSUME NEW k \in Calls PROVE KeySound(k, call[k])'
  <2>1. Keyed(k)' <=> Keyed(k)  BY <1>7 DEF Keyed
  <2>2. PICK m : m = call'[k]  OBVIOUS
  <2>3. CASE k = c
    <3>1. m = l  BY <1>10, <2>2, <2>3
    <3>2. KindSound(k, m)'  BY <1>7, <1>11, <2>3, <3>1 DEF KindSound
    <3>3. AnswerSound(k, m)'
      BY <1>11, <1>12, <2>1, <2>3, <3>1 DEF AnswerSound
    <3>4. ExchangeSound(k, m)'  BY <1>11, <3>1 DEF ExchangeSound, Unrecorded
    <3> QED  BY <2>2, <3>2, <3>3, <3>4 DEF KeySound
  <2>4. CASE k # c
    <3>1. m = call[k] /\ KeySound(k, m)  BY <1>10, <2>2, <2>4 DEF KeyInv
    <3>2. KindSound(k, m)'  BY <1>7, <3>1 DEF KeySound, KindSound
    <3>3. AnswerSound(k, m)'  BY <1>7, <3>1, AnswerKept DEF KeySound, DraftInv
    <3>4. (\A e \in Drafts : Lacks(heads[e].turns, k)) =>
             \A e \in Drafts : Lacks(heads'[e].turns, k)
      BY <1>3, <1>4, <1>5, <1>13, <2>4
    <3>5. Keyed(k) /\ Mine(k) => Mine(k)'  BY <1>7, MineKept DEF DraftInv
    <3>6. ExchangeSound(k, m)'
      BY <2>1, <3>1, <3>4, <3>5 DEF KeySound, ExchangeSound, Lacks
    <3> QED  BY <2>2, <3>2, <3>3, <3>6 DEF KeySound
  <2> QED  BY <2>3, <2>4
<1> QED  BY <1>14, <1>16, <1>17 DEF KeyInv

-----------------------------------------------------------------------------
(* The invariant, and what it says of answers and turns. *)

LEMMA InitKey == DraftInit => KeyInv
<1> SUFFICES ASSUME DraftInit PROVE KeyInv  OBVIOUS
<1>1. DraftInv /\ Lost \subseteq Drafts \ Seeds /\ Seeds \subseteq Drafts
  BY InitInv, LostDrafts, DraftNames
<1>2. /\ HeadRow(1, 1, <<>>).latest = 1 /\ HeadRow(1, 1, <<>>).turns = <<>>
      /\ NoHead.latest = 0 /\ NoHead.turns = <<>>
  BY DEF HeadRow, NoHead
<1>3. \A d \in Drafts : heads[d] = IF d \in Seeds THEN HeadRow(1, 1, <<>>) ELSE NoHead
  BY DEF DraftInit
<1>4. \A d \in Drafts : heads[d].turns = <<>>  BY <1>2, <1>3
<1>5. (\A d \in Seeds : Stored(d)) /\ (\A d \in Lost : ~Stored(d))
  BY <1>1, <1>2, <1>3 DEF Stored
<1>6. ASSUME NEW c \in Calls PROVE KeySound(c, call[c])
  <2>1. call[c].pc = "start"
    <3>1. call[c] = Outside("start")  BY DEF DraftInit
    <3> QED  BY <3>1, LocalFields DEF Outside
  <2>2. \A d \in Drafts : Lacks(heads[d].turns, c)  BY <1>4, NoTurns
  <2> QED  BY <2>1, <2>2 DEF KeySound, KindSound, AnswerSound, ExchangeSound, Unrecorded
<1>7. \A d \in Drafts : TurnsSound(heads[d].turns)  BY <1>4, NoTurns
<1> QED  BY <1>5, <1>6, <1>7 DEF KeyInv

LEMMA NextKey == DraftInv /\ DraftInv' /\ KeyInv /\ [DraftNext]_DraftVars => KeyInv'
<1> SUFFICES ASSUME DraftInv, DraftInv', KeyInv, [DraftNext]_DraftVars PROVE KeyInv'
  OBVIOUS
<1>1. ASSUME NEW c \in Calls, RequestStep(c) PROVE KeyInv'
  BY <1>1, LookupKey, CreateLoadKey, AnswerLoadKey, ReviseLoadKey, ReadHeadKey, ReadNoHeadKey,
     FindReplayKey, CommitNewKey, CommitKeepKey, CommitReviseKey, CommitLostKey, ReadTurnsKey,
     CommitTurnKey, TurnLostKey, RememberKey, DieKey
     DEF RequestStep
<1>2. CASE UNCHANGED DraftVars
  <2>1. /\ heads' = heads /\ idempotency' = idempotency /\ command' = command /\ call' = call
    BY <1>2 DEF DraftVars
  <2>2. \A c : (Keyed(c)' <=> Keyed(c)) /\ (Mine(c)' <=> Mine(c)) /\ AnswerSlot(c)' = AnswerSlot(c)
    BY <2>1 DEF Keyed, Mine, CreateSlot, AnswerSlot, HttpSlot
  <2>3. \A c, l : KeySound(c, l) => KeySound(c, l)'
    BY <2>1, <2>2 DEF KeySound, KindSound, AnswerSound, ExchangeSound, Lacks
  <2>4. \A q : TurnsSound(q) => TurnsSound(q)'  BY <2>1, <2>2 DEF TurnsSound
  <2>5. \A d \in Drafts : TurnsSound(heads[d].turns)'
    <3> SUFFICES ASSUME NEW d \in Drafts PROVE TurnsSound(heads[d].turns)'  OBVIOUS
    <3>1. PICK q : q = heads[d].turns  OBVIOUS
    <3> QED  BY <2>1, <2>4, <3>1 DEF KeyInv
  <2>6. \A c \in Calls : KeySound(c, call[c])'
    <3> SUFFICES ASSUME NEW c \in Calls PROVE KeySound(c, call[c])'  OBVIOUS
    <3>1. PICK l : l = call[c]  OBVIOUS
    <3> QED  BY <2>1, <2>3, <3>1 DEF KeyInv
  <2> QED  BY <2>1, <2>5, <2>6 DEF KeyInv, Stored
<1> QED  BY <1>1, <1>2 DEF DraftNext

LEMMA KeyInvariant == DraftSpec => [](DraftInv /\ KeyInv)
BY Invariant, InitKey, NextKey, PTL DEF DraftSpec

(* get_http_response, _replay and remember_http_response together: two     *)
(* requests that ask for the same thing under the same Idempotency-Key are *)
(* answered alike, whichever of them computed, stored or died first.       *)
THEOREM SameAnswer == DraftSpec => []SameKeySameAnswer
<1>1. ASSUME DraftInv, KeyInv PROVE SameKeySameAnswer
  <2> SUFFICES ASSUME NEW c \in Calls, NEW k \in Calls,
                      call[c].pc = "answered", call[k].pc = "answered",
                      command[c] = command[k], command[c].kind # "answer",
                      command[c].key # NoKey
               PROVE  call[c].value = call[k].value
    BY DEF SameKeySameAnswer
  <2>1. AnswerSound(c, call[c]) /\ AnswerSound(k, call[k])  BY <1>1 DEF KeyInv, KeySound
  <2>2. AnswerSlot(c) = AnswerSlot(k)  BY DEF AnswerSlot, HttpSlot
  <2> QED  BY <2>1, <2>2 DEF AnswerSound, Keyed
<1> QED  BY <1>1, KeyInvariant, PTL

(* A create that is sent again records its exchange once: no conversation, *)
(* a child's copy included, holds two turns of one key.                    *)
THEOREM OneTurn == DraftSpec => []OneTurnPerRequest
<1>1. ASSUME DraftInv, KeyInv PROVE OneTurnPerRequest
  <2> SUFFICES ASSUME NEW d \in Drafts, NEW i \in DOMAIN heads[d].turns,
                      NEW j \in DOMAIN heads[d].turns,
                      command[heads[d].turns[i].by] = command[heads[d].turns[j].by],
                      command[heads[d].turns[i].by].key # NoKey
               PROVE  i = j
    BY DEF OneTurnPerRequest
  <2>1. PICK c, k : c = heads[d].turns[i].by /\ k = heads[d].turns[j].by  OBVIOUS
  <2>2. TurnsSound(heads[d].turns)  BY <1>1 DEF KeyInv
  <2>3. c \in Calls /\ k \in Calls  BY <2>1, <2>2 DEF TurnsSound
  <2>4. Keyed(c) /\ Keyed(k)
    BY <1>1, <2>1, <2>3, CallKnown, CommandFields DEF Keyed
  <2>5. Mine(c) /\ Mine(k)  BY <2>1, <2>2, <2>4 DEF TurnsSound
  <2>6. c = k  BY <2>1, <2>5 DEF Mine, CreateSlot
  <2> QED  BY <2>1, <2>2, <2>4, <2>6 DEF TurnsSound
<1> QED  BY <1>1, KeyInvariant, PTL
================================================================================
