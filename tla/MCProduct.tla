------------------------------ MODULE MCProduct ------------------------------
(***************************************************************************)
(* The two halves of the product's API, DraftStore and ProductService, on  *)
(* small instances.  They share no state, so that their interleavings say  *)
(* nothing new: a behaviour moves one half, chosen at its start (focus),   *)
(* and leaves the other at rest.  Of the backtest service it is either the *)
(* queue, with nobody preparing data in advance, or the cache, with nobody *)
(* shutting down or cancelling (which the cache takes no notice of).       *)
(***************************************************************************)
EXTENDS DraftStore, ProductService, TLC

CONSTANTS d0, d1, d2, d3, gone, c1, c2, c3, ka, r1, r2, p1, qa, qb

VARIABLE focus

ProductVars == <<DraftVars, ServiceVars, focus>>

Create(parent, key) ==
    [kind |-> "create", draft |-> parent, revision |-> 0, key |-> key, recover |-> FALSE]
Answer(draft, revision) ==
    [kind |-> "answer", draft |-> draft, revision |-> revision, key |-> NoKey, recover |-> FALSE]
Change(draft, key, recover) ==
    [kind |-> "revise", draft |-> draft, revision |-> 0, key |-> key, recover |-> recover]

Three(a, b, c) == (c1 :> a) @@ (c2 :> b) @@ (c3 :> c)

(* A child posted twice under one key, against an answer to its parent; a  *)
(* key used for two different requests; a revision posted twice, against   *)
(* an answer; a lost draft recovered twice, under a key used elsewhere;    *)
(* two answers against a revision; answers to two revisions and a child.   *)
DraftScenes ==
    { Three(Create(d0, ka), Create(d0, ka), Answer(d0, 1)),
      Three(Create(d0, ka), Create(NoDraft, ka), Create(NoDraft, ka)),
      Three(Change(d0, ka, FALSE), Change(d0, ka, FALSE), Answer(d0, 1)),
      Three(Change(gone, ka, TRUE), Change(gone, ka, TRUE), Create(NoDraft, ka)),
      Three(Answer(d0, 1), Answer(d0, 1), Change(d0, NoKey, FALSE)),
      Three(Answer(d0, 1), Answer(d0, 2), Create(d0, NoKey)) }

IdempotencySlots == ({"create", "http"} \cup Drafts) \X Keys
RequestHashes == {<<"create", d>> : d \in Drafts \cup {NoDraft}} \cup {<<"revise">>}

(* r1 and the preflight ask for the same data, r2 for other data. *)
KeyOf == [q \in JobRuns \cup Preflights |-> IF q = r2 THEN qb ELSE qa]

ProductInit ==
    /\ DraftInit /\ ServiceInit
    /\ focus \in {"drafts", "queue", "cache"}
    /\ focus # "drafts" => command[c1] = Create(d0, ka) /\ command[c2] = Create(d0, ka)

ProductNext ==
    \/ focus = "drafts" /\ DraftNext /\ UNCHANGED <<ServiceVars, focus>>
    \/ focus = "queue" /\ ServiceNext /\ UNCHANGED <<DraftVars, focus, preflight>>
    \/ focus = "cache" /\ ServiceNext /\ UNCHANGED <<DraftVars, focus, closed, accepted>>

ProductSpec == ProductInit /\ [][ProductNext]_ProductVars /\ ServiceFairness

(* The types of both halves. *)
TypeOK == DraftTypeOK /\ ServiceTypeOK
==============================================================================
