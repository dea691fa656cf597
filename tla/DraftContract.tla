---------------------------- MODULE DraftContract ----------------------------
(***************************************************************************)
(* What the draft store promises, as InMemoryDraftStore keeps it under one *)
(* lock: every operation is one step.  A draft is an append-only sequence  *)
(* of revisions, its conversation the latest turns in the order they were  *)
(* recorded, and an idempotency slot keeps the first value stored in it,   *)
(* together with the operation that produced the value.                    *)
(***************************************************************************)
EXTENDS DraftRecords

VARIABLES
    drafts,    (* _drafts: the revisions of each draft, <<>> when unknown *)
    turns,     (* _dialogue_turns *)
    slots      (* _idempotency and _http_responses *)

ContractVars == <<drafts, turns, slots>>

Known(d) == drafts[d] # <<>>
Latest(d) == Len(drafts[d])

ContractInit ==
    /\ drafts = [d \in Drafts |->
                    IF d \in Seeds THEN <<Revision(NoCall, NoDraft)>> ELSE <<>>]
    /\ turns = [d \in Drafts |-> <<>>]
    /\ slots = [s \in Slots |-> NoEntry]

(* _remember, remember_http_response: first come, first kept; a request    *)
(* without a key is not remembered.                                        *)
Remember(value) ==
    \/ UNCHANGED slots
    \/ \E slot \in Slots, hash \in Hashes :
          /\ slots[slot] = NoEntry
          /\ slots' = [slots EXCEPT ![slot] = Entry(hash, value)]

(* create, without a parent. *)
CreateRoot(c, d) ==
    /\ ~Known(d)
    /\ drafts' = [drafts EXCEPT ![d] = <<Revision(c, NoDraft)>>]
    /\ UNCHANGED turns
    /\ Remember(Value(d, 1, c, c))

(* create from a parent: the child takes the parent's conversation along. *)
CreateChild(c, d, parent) ==
    /\ ~Known(d) /\ Known(parent)
    /\ drafts' = [drafts EXCEPT ![d] = <<Revision(c, parent)>>]
    /\ turns' = [turns EXCEPT ![d] = Kept(turns[parent])]
    /\ Remember(Value(d, 1, c, c))

(* create(preserve_parent_revision=True): only the answer is remembered. *)
KeepRevision(c, d) ==
    /\ Known(d)
    /\ UNCHANGED <<drafts, turns>>
    /\ Remember(Value(d, Latest(d), c, c))

Revise(c, d) ==
    /\ Known(d)
    /\ drafts' = [drafts EXCEPT ![d] = Append(@, Revision(c, @[Latest(d)].parent))]
    /\ UNCHANGED turns
    /\ Remember(Value(d, Latest(d) + 1, c, c))

RecordTurn(c, d, revision) ==
    /\ Known(d) /\ revision \in 1..Latest(d)
    /\ turns' = [turns EXCEPT ![d] = Kept(Append(@, Turn(c, revision)))]
    /\ UNCHANGED <<drafts, slots>>

(* The answer of a whole POST, about a stored revision. *)
RememberResponse(d, revision, by, c) ==
    /\ Known(d) /\ revision \in 1..Latest(d)
    /\ UNCHANGED <<drafts, turns>>
    /\ Remember(Value(d, revision, by, c))

ContractNext ==
    \E c \in Calls, d \in Drafts :
        \/ CreateRoot(c, d)
        \/ \E parent \in Drafts : CreateChild(c, d, parent)
        \/ KeepRevision(c, d)
        \/ Revise(c, d)
        \/ \E revision \in 1..Latest(d) :
              \/ RecordTurn(c, d, revision)
              \/ \E by \in Authors : RememberResponse(d, revision, by, c)

ContractSpec == ContractInit /\ [][ContractNext]_ContractVars
==============================================================================
