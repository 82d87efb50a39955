------------------------ MODULE OrderLifecycle_proofs ------------------------
(***************************************************************************)
(* Proofs about OrderLifecycle for any number of operators, classification *)
(* workers, favourites and deliveries, and any bounds.                     *)
(***************************************************************************)
EXTENDS OrderLifecycle, TLAPS

\* The states of a session and of a classifier that does nothing are well typed.
LEMMA IdleTyped ==
  /\ NoRow \in Rows /\ IdleSession \in SessionStates
  /\ IdleClassifier \in ClassifierStates
  BY DEF NoRow, Rows, Statuses, IdleSession, SessionStates, IdleClassifier, ClassifierStates

\* A row keeps its type and its id when an operator or the archiver changes it.
LEMMA Saved ==
  ASSUME NEW r \in Rows, NEW st \in Statuses, NEW v \in Nat
  PROVE  LET new == [r EXCEPT !.status = st, !.version = v] IN new \in Rows /\ new.id = r.id
  BY DEF Rows

LEMMA Archived ==
  ASSUME NEW r \in Rows, NEW st \in Statuses
  PROVE  LET new == [r EXCEPT !.status = st, !.fresh = FALSE] IN new \in Rows /\ new.id = r.id
  BY DEF Rows

\* Every variable keeps its type in every reachable state.
THEOREM TypeCorrect == Spec => []TypeOK
<1>1. Init => TypeOK
  <2>1. NoRow.id = 0
    BY DEF NoRow
  <2>2. ASSUME Init
        PROVE  session \in [Sessions -> SessionStates] /\ classifier \in [Classifiers -> ClassifierStates]
    BY <2>2, IdleTyped DEF Init
  <2>3. ASSUME Init PROVE row \in Rows /\ row.id <= lastId
    <3>1. row = NoRow /\ lastId = 0
      BY <2>3 DEF Init
    <3>. QED BY <3>1, <2>1, IdleTyped
  <2>4. ASSUME Init
        PROVE  /\ lastId \in Nat /\ refs \subseteq References
               /\ wanted \in BOOLEAN /\ deleted \in BOOLEAN /\ age \in Nat
               /\ tasks \in Nat /\ events \in Nat /\ crashes \in Nat /\ retired \in BOOLEAN
    BY <2>4 DEF Init
  <2>. QED BY <2>2, <2>3, <2>4 DEF TypeOK
<1>2. TypeOK /\ [Next]_vars => TypeOK'
  <2> SUFFICES ASSUME TypeOK, [Next]_vars PROVE TypeOK'
    OBVIOUS
  <2>0. row \in Rows
    BY DEF TypeOK
  <2>. USE DEF TypeOK, msgVars
  <2>a. "archived" \in Statuses /\ "new" \in Statuses
    BY DEF Statuses
  <2>b. \A s \in Sessions : session[s].next \in Statuses /\ session[s].loaded \in Rows
    BY DEF SessionStates
  <2>c. \A c \in Classifiers :
          classifier[c].loaded \in Rows /\ classifier[c].create \in BOOLEAN
    BY DEF ClassifierStates
  <2>d. \A r \in Rows : r.status \in Statuses /\ r.version \in Nat /\ r.fresh \in BOOLEAN
    BY DEF Rows
  <2>1. CASE Grow
    BY <2>1 DEF Grow
  <2>2. CASE Edit
    BY <2>2 DEF Edit
  <2>3. CASE DeleteMessage
    BY <2>3 DEF DeleteMessage
  <2>4. CASE Archive
    <3>. DEFINE new == [row EXCEPT !.status = "archived", !.fresh = FALSE]
    <3>0. new \in Rows /\ new.id = row.id
      BY <2>0, <2>a, Archived, Zenon
    <3>1. row' \in Rows /\ row'.id = row.id
      BY <2>4, <3>0 DEF Archive
    <3>. QED BY <2>4, <3>1 DEF Archive
  <2>5. ASSUME NEW s \in Sessions, Save(s) PROVE TypeOK'
    <3>1. row' \in Rows /\ row'.id = row.id
      <4>1. session[s].loaded.version + 1 \in Nat
        BY <2>b, <2>d
      <4>. DEFINE v == session[s].loaded.version + 1
                  new == [row EXCEPT !.status = session[s].next, !.version = v]
      <4>. HIDE DEF v
      <4>2. new \in Rows /\ new.id = row.id
        BY <2>0, <2>5, <2>b, <4>1, Saved, Zenon DEF v
      <4>. QED BY <2>5, <4>2 DEF Save, v
    <3>. QED BY <2>5, <3>1, IdleTyped DEF Save
  <2>6. ASSUME NEW s \in Sessions, NEW next \in Statuses, Open(s, next) PROVE TypeOK'
    <3>1. [phase |-> "loaded", loaded |-> row, next |-> next] \in SessionStates
      BY DEF SessionStates
    <3>. QED BY <2>6, <3>1 DEF Open
  <2>7. ASSUME NEW r \in References, AddReference(r) PROVE TypeOK'
    BY <2>7 DEF AddReference
  <2>8. ASSUME NEW r \in Favourites, RemoveFavourite(r) PROVE TypeOK'
    BY <2>8 DEF RemoveFavourite
  <2>9. ASSUME NEW c \in Classifiers, Read(c) PROVE TypeOK'
    <3>1. [phase |-> "decided", loaded |-> row, create |-> wanted /\ age <= FreshDays,
           children |-> {}] \in ClassifierStates
      BY DEF ClassifierStates
    <3>. QED BY <2>9, <3>1 DEF Read
  <2>10. ASSUME NEW c \in Classifiers, Crash(c) PROVE TypeOK'
    BY <2>10, IdleTyped DEF Crash, Stop
  <2>11. ASSUME NEW c \in Classifiers, Create(c) PROVE TypeOK'
    <3>1. ASSUME row' = [id |-> lastId + 1, status |-> "new", version |-> 1, fresh |-> TRUE],
                 lastId' = lastId + 1
          PROVE  row' \in Rows /\ row'.id <= lastId' /\ lastId' \in Nat
      BY <3>1, <2>a DEF Rows
    <3>. QED BY <2>11, <3>1, IdleTyped DEF Create, Stop
  <2>12. ASSUME NEW c \in Classifiers, Renew(c) PROVE TypeOK'
    <3>. DEFINE old == classifier[c].loaded
                st == IF old.status = "new" THEN row.status ELSE "new"
                v == old.version + 1
    <3>1. st \in Statuses /\ v \in Nat
      BY <2>0, <2>a, <2>c, <2>d
    <3>2. \/ row' = row
          \/ row' = [row EXCEPT !.status = st, !.fresh = IF old.fresh THEN @ ELSE TRUE,
                                !.version = v]
      BY <2>12 DEF Renew
    <3>. HIDE DEF st, v
    <3>3. row' \in Rows /\ row'.id = row.id
      <4>1. CASE row' = row
        BY <2>0, <4>1
      <4>2. CASE row' = [row EXCEPT !.status = st, !.fresh = row.fresh, !.version = v]
        <5>1. row' \in Rows
          BY <2>0, <3>1, <4>2 DEF Rows
        <5>. QED BY <2>0, <4>2, <5>1 DEF Rows
      <4>3. CASE row' = [row EXCEPT !.status = st, !.fresh = TRUE, !.version = v]
        <5>1. row' \in Rows
          BY <2>0, <3>1, <4>3 DEF Rows
        <5>. QED BY <2>0, <4>3, <5>1 DEF Rows
      <4>4. \/ row' = row
            \/ row' = [row EXCEPT !.status = st, !.fresh = row.fresh, !.version = v]
            \/ row' = [row EXCEPT !.status = st, !.fresh = TRUE, !.version = v]
        <5>1. CASE old.fresh
          BY <3>2, <5>1
        <5>2. CASE ~old.fresh
          BY <3>2, <5>2
        <5>. QED BY <5>1, <5>2
      <4>. QED BY <4>1, <4>2, <4>3, <4>4
    <3>. QED BY <2>12, <3>3, IdleTyped DEF Renew, Stop
  <2>13. ASSUME NEW c \in Classifiers, Dismiss(c) PROVE TypeOK'
    BY <2>13, IdleTyped DEF Dismiss, Stop
  <2>14. ASSUME NEW c \in Classifiers, LoadChildren(c) PROVE TypeOK'
    <3>. DEFINE kids == IF row.id = classifier[c].loaded.id THEN refs ELSE {}
    <3>1. [classifier[c] EXCEPT !.phase = "deleting", !.children = kids] \in ClassifierStates
      BY DEF ClassifierStates
    <3>2. classifier' = [classifier EXCEPT ![c] =
                           [classifier[c] EXCEPT !.phase = "deleting", !.children = kids]]
      BY <2>14 DEF LoadChildren
    <3>3. classifier' \in [Classifiers -> ClassifierStates]
      <4>. DEFINE new == [classifier[c] EXCEPT !.phase = "deleting", !.children = kids]
      <4>1. new \in ClassifierStates /\ classifier' = [classifier EXCEPT ![c] = new]
        BY <3>1, <3>2
      <4>. HIDE DEF new
      <4>. QED BY <4>1
    <3>. QED BY <2>14, <3>3 DEF LoadChildren
  <2>15. ASSUME NEW c \in Classifiers, DeleteRefused(c) PROVE TypeOK'
    BY <2>15, IdleTyped DEF DeleteRefused, Stop
  <2>16. ASSUME NEW c \in Classifiers, Delete(c) PROVE TypeOK'
    <3>1. NoRow.id = 0
      BY DEF NoRow
    <3>2. row' \in Rows /\ row'.id <= lastId' /\ refs' \subseteq References /\ retired' \in BOOLEAN
      <4>1. CASE row' = NoRow /\ refs' = {} /\ retired' = FALSE
        <5>1. row' \in Rows /\ row'.id = 0
          BY <3>1, <4>1, IdleTyped
        <5>2. lastId' = lastId
          BY <2>16 DEF Delete
        <5>3. lastId' \in Nat /\ 0 <= lastId'
          BY <5>2
        <5>4. row' \in Rows /\ row'.id <= lastId'
          BY <5>1, <5>3
        <5>5. refs' \subseteq References /\ retired' \in BOOLEAN
          BY <4>1
        <5>. QED BY <5>4, <5>5
      <4>2. CASE UNCHANGED <<row, refs, retired>>
        BY <2>16, <4>2 DEF Delete
      <4>. QED BY <2>16, <4>1, <4>2 DEF Delete
    <3>3. classifier' \in [Classifiers -> ClassifierStates]
      BY <2>16, IdleTyped DEF Delete, Stop
    <3>. QED BY <2>16, <3>2, <3>3 DEF Delete
  <2>17. CASE UNCHANGED vars
    BY <2>17 DEF vars
  <2>. QED
    BY <2>1, <2>2, <2>3, <2>4, <2>5, <2>6, <2>7, <2>8, <2>9, <2>10, <2>11, <2>12,
       <2>13, <2>14, <2>15, <2>16, <2>17 DEF Next, Work
<1>. QED BY <1>1, <1>2, PTL DEF Spec

-----------------------------------------------------------------------------
(***************************************************************************)
(* A row stops being fresh only once the message is past its days, after   *)
(* which no classification decides to create.  So one that did decide to   *)
(* has loaded a fresh row, and its UPDATE leaves is_fresh out.             *)
(***************************************************************************)

FreshInv ==
  /\ Exists(row) /\ ~row.fresh => age > ArchiveDays
  /\ \A c \in Classifiers :
       classifier[c].create /\ Exists(classifier[c].loaded) => classifier[c].loaded.fresh

\* An order the archiver took is never fresh again, provided that orders are
\* not fresh for longer than the archiver waits (both are seven days by default).
THEOREM RetiredIsStale ==
  ASSUME FreshDays <= ArchiveDays
  PROVE  Spec => []RetiredStaysStale
<1>. USE BoundsAssumption DEF RetiredStaysStale, FreshInv, Exists
<1>1. Init => RetiredStaysStale /\ FreshInv
  BY DEF Init, NoRow, IdleClassifier
<1>2. RetiredStaysStale /\ FreshInv /\ TypeOK /\ [Next]_vars => (RetiredStaysStale /\ FreshInv)'
  <2> SUFFICES ASSUME RetiredStaysStale, FreshInv, TypeOK, [Next]_vars
               PROVE  (RetiredStaysStale /\ FreshInv)'
    OBVIOUS
  <2>. USE DEF msgVars, TypeOK, Rows, SessionStates, ClassifierStates
  <2>1. CASE Grow
    BY <2>1 DEF Grow
  <2>2. CASE Edit \/ DeleteMessage
    BY <2>2 DEF Edit, DeleteMessage
  <2>3. CASE Archive
    BY <2>3 DEF Archive, Archivable
  <2>4. ASSUME NEW s \in Sessions, Save(s) PROVE (RetiredStaysStale /\ FreshInv)'
    BY <2>4 DEF Save
  <2>5. ASSUME NEW s \in Sessions, NEW next \in Statuses, Open(s, next)
        PROVE (RetiredStaysStale /\ FreshInv)'
    BY <2>5 DEF Open
  <2>6. ASSUME NEW r \in References, AddReference(r) \/ RemoveFavourite(r)
        PROVE (RetiredStaysStale /\ FreshInv)'
    BY <2>6 DEF AddReference, RemoveFavourite
  <2>7. ASSUME NEW c \in Classifiers, Read(c) PROVE (RetiredStaysStale /\ FreshInv)'
    BY <2>7 DEF Read
  <2>8. ASSUME NEW c \in Classifiers, Crash(c) \/ Dismiss(c) \/ DeleteRefused(c)
        PROVE (RetiredStaysStale /\ FreshInv)'
    BY <2>8 DEF Crash, Dismiss, DeleteRefused, Stop, IdleClassifier, NoRow
  <2>9. ASSUME NEW c \in Classifiers, Create(c) PROVE (RetiredStaysStale /\ FreshInv)'
    BY <2>9 DEF Create, Stop, IdleClassifier, NoRow
  <2>10. ASSUME NEW c \in Classifiers, Renew(c) PROVE (RetiredStaysStale /\ FreshInv)'
    <3>1. classifier[c].loaded.fresh
      BY <2>10 DEF Renew
    <3>2. row'.fresh = row.fresh /\ row'.id = row.id
      BY <2>10, <3>1 DEF Renew
    <3>. QED BY <2>10, <3>2 DEF Renew, Stop, IdleClassifier, NoRow
  <2>11. ASSUME NEW c \in Classifiers, LoadChildren(c) PROVE (RetiredStaysStale /\ FreshInv)'
    BY <2>11 DEF LoadChildren
  <2>12. ASSUME NEW c \in Classifiers, Delete(c) PROVE (RetiredStaysStale /\ FreshInv)'
    BY <2>12 DEF Delete, Stop, IdleClassifier, NoRow
  <2>13. CASE UNCHANGED vars
    BY <2>13 DEF vars
  <2>. QED
    BY <2>1, <2>2, <2>3, <2>4, <2>5, <2>6, <2>7, <2>8, <2>9, <2>10, <2>11, <2>12, <2>13
       DEF Next, Work, References
<1>. QED BY <1>1, <1>2, TypeCorrect, PTL DEF Spec

=============================================================================
