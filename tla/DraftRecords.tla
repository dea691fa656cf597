----------------------------- MODULE DraftRecords -----------------------------
(***************************************************************************)
(* The vocabulary of a strategy draft: its revisions, the turns of its     *)
(* conversation and the values the idempotency table remembers.            *)
(* Translated from api/store.py (StoredDraftRevision, DialogueTurnRecord,  *)
(* StoreResult) and api/persistent_store.py.                               *)
(*                                                                         *)
(* A compiled outcome is named by the call that computed it: two calls     *)
(* never compute the same text, even for the same request.                 *)
(***************************************************************************)
EXTENDS Integers, Sequences

CONSTANTS
    Drafts,         (* draft ids *)
    Calls,          (* HTTP requests being served *)
    Slots,          (* idempotency slots: a scope and a client's key *)
    Hashes,         (* request hashes *)
    NoDraft,        (* "no parent": not a draft id *)
    NoCall,         (* author of what was stored before: not a call *)
    NoSlot,         (* "no Idempotency-Key": not a slot *)
    Seeds,          (* drafts stored before, with one revision *)
    HistoryLimit    (* turns a conversation keeps (20 in the code) *)

ASSUME DraftNames ==
    /\ NoDraft \notin Drafts /\ NoCall \notin Calls /\ NoSlot \notin Slots
    /\ Seeds \subseteq Drafts
ASSUME HistoryLimitPositive == HistoryLimit \in Nat \ {0}

(* A revision: the call that computed its outcome, the draft it came from. *)
Revision(by, parent) == [by |-> by, parent |-> parent]

(* A turn: the call that answered it, the revision it is about. *)
Turn(by, revision) == [by |-> by, revision |-> revision]

(* turns[-20:] *)
Kept(turns) ==
    IF Len(turns) <= HistoryLimit THEN turns
    ELSE SubSeq(turns, Len(turns) - HistoryLimit + 1, Len(turns))

(* What a call stores or answers: a revision of a draft, whose outcome it  *)
(* shows, and whose reply accompanies it.                                  *)
Value(draft, revision, by, reply) ==
    [draft |-> draft, revision |-> revision, by |-> by, reply |-> reply]

Authors   == Calls \cup {NoCall}
Revisions == [by : Authors, parent : Drafts \cup {NoDraft}]
Turns     == [by : Authors, revision : Nat]
Values    == [draft : Drafts, revision : Nat, by : Authors, reply : Authors]

(* A row of the idempotency table. *)
Entry(hash, value) == [taken |-> TRUE, hash |-> hash, value |-> value]
NoValue == Value(NoDraft, 0, NoCall, NoCall)
NoEntry == [taken |-> FALSE, hash |-> NoSlot, value |-> NoValue]
Entries == [taken : {TRUE}, hash : Hashes, value : Values] \cup {NoEntry}
==============================================================================
