---------------------------- MODULE SemanticDedup ---------------------------
(***************************************************************************)
(* Duplicates found by the similarity of embeddings                        *)
(* (app/services/semantic_deduplication.py) for orders whose text is not a *)
(* copy of another's: which candidate an order is grouped with, and what   *)
(* becomes of the groups when orders are edited and looked at again.       *)
(*                                                                         *)
(* One task runs at a time: DuplicateDetection is about tasks that overlap.*)
(* Vectors are told apart by the text and the model they were made from.   *)
(***************************************************************************)
EXTENDS Integers, FiniteSets, NullValue

CONSTANTS
  Orders,     \* ids of orders
  Rank,       \* their order by published_at
  Groups,     \* ids of duplicate groups
  Contents,   \* what may stand in an order, see Fields
  Alike,      \* sets of texts that the model finds the same
  Near,       \* sets of texts that it finds worth a review
  MaxRevisions, MaxModels  \* bounds: edits, changes of the model

Fields == {"text", "type", "contacts", "budget", "deadline", "performer"}

ASSUME SemanticAssumption ==
  /\ Rank \in [Orders -> Nat] /\ \A o, q \in Orders : Rank[o] = Rank[q] => o = q
  /\ \A c \in Contents : DOMAIN c = Fields
  /\ MaxRevisions \in Nat /\ MaxModels \in Nat
  /\ None \notin Orders \union Groups \union Contents

VARIABLES
  content,    \* what each order says, None before it arrives
  group,      \* duplicate_group_id
  canonical,  \* canonical_order_id of each group, None where there is none
  embedding,  \* semantic_embedding: the text and the model it was made from
  model,      \* semantic_model_version
  pending,    \* orders with a task to look for duplicates
  gone,       \* orders that were deleted
  revisions

semVars == <<content, group, canonical, embedding, model, pending, gone, revisions>>

SemInit ==
  /\ content = [o \in Orders |-> None] /\ group = [o \in Orders |-> None]
  /\ canonical = [g \in Groups |-> None] /\ embedding = [o \in Orders |-> None]
  /\ model = 0 /\ pending = {} /\ gone = {} /\ revisions = 0

Known == {o \in Orders : content[o] # None}

Unused(o, c) == \A q \in Known \ {o} : content[q].text # c.text

\* Classification made an order.
Arrive(o) ==
  /\ o \notin Known \union gone
  /\ \E c \in Contents : Unused(o, c) /\ content' = [content EXCEPT ![o] = c]
  /\ pending' = pending \union {o}
  /\ UNCHANGED <<group, canonical, embedding, model, gone, revisions>>

\* Its message was edited: the order is rewritten and looked at again.
Revise(o) ==
  /\ o \in Known /\ revisions < MaxRevisions /\ revisions' = revisions + 1
  /\ \E c \in Contents : Unused(o, c) /\ content' = [content EXCEPT ![o] = c]
  /\ pending' = pending \union {o} /\ UNCHANGED <<group, canonical, embedding, model, gone>>

\* Its message is no order any more: the row goes, and stays in
\* canonical_order_id, which is no foreign key.
Delete(o) ==
  /\ o \in Known /\ revisions < MaxRevisions /\ revisions' = revisions + 1
  /\ content' = [content EXCEPT ![o] = None] /\ group' = [group EXCEPT ![o] = None]
  /\ embedding' = [embedding EXCEPT ![o] = None] /\ gone' = gone \union {o}
  /\ pending' = pending \ {o} /\ UNCHANGED <<canonical, model>>

\* A restart with another semantic_model_version
ChangeModel ==
  /\ model < MaxModels /\ model' = model + 1
  /\ UNCHANGED <<content, group, canonical, embedding, pending, gone, revisions>>

-----------------------------------------------------------------------------
(* Similarity and contradictions *)

Embedding(o) == [text |-> content[o].text, model |-> model]

\* A stored vector is used whatever it was made from.
Embedded(o) == IF embedding[o] = None THEN Embedding(o) ELSE embedding[o]

Similarity(t, u) ==
  IF t = u \/ {t, u} \in Alike THEN "same" ELSE IF {t, u} \in Near THEN "near" ELSE "far"

\* Vectors of two models may have any similarity.
Similarities(v, w) ==
  IF v.model = w.model THEN {Similarity(v.text, w.text)} ELSE {"same", "near", "far"}

Differ(a, b) == a # None /\ b # None /\ a # b

\* has_strong_contradictions; amounts and dates that differ are those that
\* differ by more than 35 % and by more than 30 days
Contradict(a, b) ==
  \/ \E f \in {"type", "contacts", "budget", "deadline"} : Differ(a[f], b[f])
  \/ a.performer \/ b.performer

IsVisible(o) == group[o] = None \/ canonical[group[o]] = o

Candidates(o) ==
  {q \in Known \ {o} : /\ embedding[q] # None /\ IsVisible(q)
                       /\ ~Contradict(content[o], content[q])}

-----------------------------------------------------------------------------
(* One run of the task *)

\* Disabled, no pgvector, or no model: there is no duplicate.
Fallback(o) ==
  /\ o \in pending /\ pending' = pending \ {o}
  /\ group' = [group EXCEPT ![o] = None]
  /\ UNCHANGED <<content, canonical, embedding, model, gone, revisions>>

\* The group of one of the two, whichever row is read first, or a new one
Target(o, q) ==
  LET old == {group[o], group[q]} \ {None} IN
  IF old # {} THEN old ELSE {g \in Groups : canonical[g] = None}

\* A group keeps the canonical order it was made with.
Merge_Mutant(o, q) ==
  \E g \in Target(o, q) :
    /\ group' = [group EXCEPT ![o] = g, ![q] = g]
    /\ canonical' = [canonical EXCEPT ![g] =
         IF @ # None THEN @ ELSE IF Rank[o] < Rank[q] THEN o ELSE q]

\* upsert_duplicate_group with the two: the older one is canonical.
Merge(o, q) ==
  \E g \in Target(o, q) :
    /\ group' = [group EXCEPT ![o] = g, ![q] = g]
    /\ canonical' = [canonical EXCEPT ![g] = IF Rank[o] < Rank[q] THEN o ELSE q]

Unique(o) == group' = [group EXCEPT ![o] = None] /\ UNCHANGED canonical

Deduplicate(o) ==
  /\ o \in pending /\ pending' = pending \ {o}
  /\ embedding' = [embedding EXCEPT ![o] = Embedded(o)]
  /\ \E level \in [Candidates(o) -> {"same", "near", "far"}] :
       /\ \A q \in Candidates(o) : level[q] \in Similarities(Embedded(o), embedding[q])
       /\ LET At(l) == {q \in Candidates(o) : level[q] = l} IN
          \/ \E q \in At("same") : Merge(o, q)
          \/ At("same") = {} /\ At("near") # {} /\ UNCHANGED <<group, canonical>>
          \/ At("same") \union At("near") = {} /\ Unique(o)
  /\ UNCHANGED <<content, model, gone, revisions>>

\* backfill_order_embeddings: ungrouped and canonical orders that have none
Backfill ==
  LET missing == {o \in Known : embedding[o] = None /\ IsVisible(o)} IN
  /\ missing # {}
  /\ embedding' = [o \in Orders |-> IF o \in missing THEN Embedding(o) ELSE embedding[o]]
  /\ UNCHANGED <<content, group, canonical, model, pending, gone, revisions>>

SemNext ==
  \/ \E o \in Orders : Arrive(o) \/ Revise(o) \/ Delete(o) \/ Fallback(o) \/ Deduplicate(o)
  \/ ChangeModel \/ Backfill

SemSpec == SemInit /\ [][SemNext]_semVars

-----------------------------------------------------------------------------
(* Properties *)

\* A duplicate is shown by the order that stands for it, itself or another one's
\* duplicate.  However groups are joined, left and taken over, orders never stand for
\* each other in a circle: among any of them somebody is shown, or stood for by an
\* order outside.  What nobody repairs is an order whose canonical one was deleted.
NobodyVanishes ==
  /\ \A o \in Orders : group[o] # None => canonical[group[o]] \in Known \union gone
  /\ \A S \in (SUBSET Known) \ {{}} :
       \E o \in S : IsVisible(o) \/ canonical[group[o]] \notin S

=============================================================================
