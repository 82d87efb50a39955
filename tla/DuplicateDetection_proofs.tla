---------------------- MODULE DuplicateDetection_proofs ----------------------
(***************************************************************************)
(* The type invariant of DuplicateDetection is more than a table of types: *)
(* an order names a group that exists, and whoever is detected, notified   *)
(* or failed has a committed row.  DInv adds what it rests on: a task in   *)
(* the queue is of a known order, so is one that runs (Running), whose     *)
(* candidates then include the order itself (Searched), so that there is a *)
(* canonical one to write; and the groups a transaction has loaded, and    *)
(* the one it writes to unless it makes it, are there (Loads), because     *)
(* nothing removes a group.  A transaction is looked at by itself (TxOK):  *)
(* what the others do keeps it true, as rows only come (OthersStay).       *)
(*                                                                         *)
(* For any number of workers, orders and texts, rows are written under     *)
(* their locks, and behind whoever waits there is one that goes on, or a   *)
(* deadlock: who holds rows is at work on them (HeldInv), and waiters that *)
(* all wait for each other have a circle among them, the smallest set of   *)
(* them that is closed under waiting (SomeInCycle).                        *)
(*                                                                         *)
(* For any number of workers and orders, a group has orders of one text    *)
(* (GroupsKeepTheirText), when messages keep theirs: what a transaction    *)
(* has found, loaded and is about to write is of the text it read, and two *)
(* of them do not make the same group (TextInv).                           *)
(*                                                                         *)
(* The two properties of groups and notifications are false with three     *)
(* orders of one text and two workers.  They are proved of two orders      *)
(* (Pair), and of any number where the detections of one text do not       *)
(* overlap (NoRivals), for any number of workers that are lost at any time *)
(* and of detections that are repeated.                                    *)
(*                                                                         *)
(* OneGroupInTheEnd, of two orders where two repeats do not overlap        *)
(* (RepeatsDoNotMeet).  Whoever detects an order for the first time holds  *)
(* its row from the mark to the commit.  So of two detections that both    *)
(* found no group and would both make one, the later to commit cannot have *)
(* both rows until the other has ended, which leaves a repeat, that needs  *)
(* no mark: then all fingerprints are there when the first commits, so     *)
(* that no other detection overlaps what is left of it.  PairInv says      *)
(* where a transaction may be in between: it found itself alone, no group, *)
(* or the group both are in; and while the orders are apart, a detection   *)
(* that will find both is pending, whichever a deadlock fails (PairFails). *)
(*                                                                         *)
(* LaterRepostsStaySilent needs none of this.  While the first order is    *)
(* recent, no order leaves its group, every group has the one canonical    *)
(* order there can be, and of two detections that found nothing but their  *)
(* own order the second found the order of the first (SilentInv).          *)
(*                                                                         *)
(* Where the detections of one text do not overlap, SerialInv: recent      *)
(* orders of one text that were detected are in one group led by none that *)
(* is later (Together), and nothing a worker has read of its text is       *)
(* overtaken before it commits (Works).                                    *)
(***************************************************************************)
EXTENDS DuplicateDetection, FiniteSetTheorems, TLAPS

\* A set of numbers has a least one: the intervals up to its members have a smallest.
LEMMA Least ==
  ASSUME NEW S \in SUBSET Nat, S # {}
  PROVE  \E n \in S : \A m \in S : n <= m
<1>. DEFINE Upto(n) == 1 .. n
            Initial == {Upto(n) : n \in S}
<1>1. Initial \subseteq FiniteSubsetsOf(Nat)
  <2> SUFFICES ASSUME NEW n \in S PROVE Upto(n) \in FiniteSubsetsOf(Nat)
    OBVIOUS
  <2>1. IsFiniteSet(1 .. n)
    BY FS_Interval
  <2>. QED BY <2>1 DEF FiniteSubsetsOf
<1>2. Initial # {}
  OBVIOUS
<1>3. PICK I \in Initial : \A J \in Initial : <<J, I>> \notin StrictSubsetOrdering(Nat)
  <2>. HIDE DEF Initial
  <2>. QED BY <1>1, <1>2, WFMin, FS_StrictSubsetOrderingWellFounded
<1>4. PICK n \in S : I = Upto(n)
  BY <1>3
<1>5. ASSUME NEW m \in S, m < n PROVE FALSE
  <2>1. Upto(m) \in SUBSET Nat /\ Upto(n) \in SUBSET Nat /\ Upto(m) \subseteq Upto(n)
    BY <1>5
  <2>2. n \in Upto(n) /\ n \notin Upto(m)
    BY <1>5
  <2>3. <<Upto(m), Upto(n)>> \in StrictSubsetOrdering(Nat)
    <3>. HIDE DEF Upto
    <3>. QED BY <2>1, <2>2 DEF StrictSubsetOrdering
  <2>. QED BY <2>3, <1>3, <1>4
<1>. QED BY <1>5, <1>4

\* choose_canonical_order finds one, and none of the others is before it.
LEMMA CanonicalIsOne ==
  ASSUME NEW S \in SUBSET Orders, S # {}
  PROVE  Canonical(S) \in S /\ \A q \in S : Rank[Canonical(S)] <= Rank[q]
<1>1. {Rank[o] : o \in S} \in SUBSET Nat /\ {Rank[o] : o \in S} # {}
  BY RankAssumption
<1>2. PICK n \in {Rank[o] : o \in S} : \A m \in {Rank[o] : o \in S} : n <= m
  BY <1>1, Least
<1>3. \E o \in S : \A q \in S : Rank[o] <= Rank[q]
  BY <1>2
<1>. QED BY <1>3 DEF Canonical
-----------------------------------------------------------------------------

Real == {g \in Groups : groupRow[g] # NoRow}

Running(t) ==
  t.step # "idle" => t.order \in known /\ t.text \in Texts

\* From the search on, the order itself is among the candidates.
Searched(t) == t.step \in {"group", "write", "publish"} => t.order \in t.cands

\* What a transaction has loaded exists, and so does the group it writes to, unless it
\* is the one it makes.  It writes to none before it has looked for one.
Loads(t) ==
  /\ t.step \notin {"write", "publish"} => t.target = NoGroup
  /\ \A o \in Orders : t.loaded[o] # NoGroup => t.loaded[o] \in Real
  /\ t.step = "write" /\ t.target # NoGroup /\ ~t.new => t.target \in Real

TxOK(t) == t \in TxStates /\ Running(t) /\ Searched(t) /\ Loads(t)

DInv ==
  /\ TypeOK
  /\ \A o \in Orders : tasks[o] > 0 => o \in known
  /\ \A g \in Real : groupRow[g].canonical \in Orders
  /\ \A w \in Workers : TxOK(tx[w])

\* A worker that does nothing is as it should be.
LEMMA IdleOK == known \subseteq Orders => TxOK(IdleTx)
<1>1. NoRow \in GroupRows
  BY DEF NoRow, GroupRows
<1>2. IdleTx \in TxStates
  BY <1>1 DEF IdleTx, TxStates, Steps, Prints
<1>. QED BY <1>2 DEF TxOK, Running, Searched, Loads, IdleTx

\* Rows that were there stay, so what was loaded stays true.
LEMMA OthersStay ==
  ASSUME DInv, NEW w \in Workers, tx' = [v \in Workers |-> tx'[v]],
         \A v \in Workers \ {w} : tx'[v] = tx[v],
         known \subseteq known', Real \subseteq Real', TxOK(tx[w])'
  PROVE  (tx \in [Workers -> TxStates])' /\ \A v \in Workers : TxOK(tx[v])'
<1>1. ASSUME NEW v \in Workers \ {w} PROVE TxOK(tx[v])'
  <2>1. TxOK(tx[v]) /\ tx'[v] = tx[v]
    BY DEF DInv
  <2>2. (tx[v] \in TxStates)'
    BY <2>1 DEF TxOK, TxStates
  <2>3. Running(tx[v])' /\ Searched(tx[v])' /\ Loads(tx[v])'
    BY <2>1 DEF TxOK, Running, Searched, Loads
  <2>. QED BY <2>2, <2>3 DEF TxOK
<1>2. \A v \in Workers : TxOK(tx[v])'
  BY <1>1
<1>3. \A v \in Workers : (tx[v] \in TxStates)'
  BY <1>2 DEF TxOK
<1>. QED BY <1>2, <1>3

\* A step of one transaction that writes no row
LEMMA StepKeeps ==
  ASSUME DInv, NEW w \in Workers, tx' = [v \in Workers |-> tx'[v]],
         \A v \in Workers \ {w} : tx'[v] = tx[v], TxOK(tx[w])',
         UNCHANGED <<envVars, rowVars, sent>>,
         (orderLock \in [Orders -> Workers \union {NoWorker}])',
         (groupLock \in [Groups -> Workers \union {NoWorker}])',
         (tasks \in [Orders -> Nat])', \A o \in Orders : tasks'[o] > 0 => o \in known,
         failed' \subseteq known, toSend' \subseteq known, crashes' \in Nat
  PROVE  DInv'
<1>1. Real' = Real /\ known' = known
  BY DEF Real, envVars, rowVars
<1>2. (tx \in [Workers -> TxStates])' /\ \A v \in Workers : TxOK(tx[v])'
  BY <1>1, OthersStay
<1>. QED BY <1>1, <1>2 DEF DInv, TypeOK, Real, envVars, rowVars

-----------------------------------------------------------------------------

\* What happens outside of detections: arrivals, edits, notifications and age
LEMMA EnvironmentKeeps ==
  ASSUME DInv,
         \/ \E o \in Orders : Arrive(o) \/ Notify(o)
         \/ \E o \in Orders, t \in Texts : Reclassify(o, t)
         \/ Age
         \/ UNCHANGED vars
  PROVE  DInv'
<1>1. /\ UNCHANGED <<rowVars, lockVars, tx, failed>> /\ known \subseteq known'
      /\ known' \subseteq Orders /\ (text \in [Orders -> Texts])'
      /\ toSend' \subseteq toSend /\ sent' \subseteq sent \union toSend
      /\ tasks' \in [Orders -> Nat] /\ \A o \in Orders : tasks'[o] > 0 => o \in known'
      /\ horizon' \in Nat /\ events' \in Nat /\ crashes' \in Nat
  <2>1. ASSUME NEW o \in Orders, Arrive(o) PROVE <1>1!:
    BY <2>1 DEF Arrive, DInv, TypeOK, sendVars
  <2>2. ASSUME NEW o \in Orders, Notify(o) PROVE <1>1!:
    BY <2>2 DEF Notify, DInv, TypeOK, envVars, lockVars
  <2>3. ASSUME NEW o \in Orders, NEW t \in Texts, Reclassify(o, t) PROVE <1>1!:
    BY <2>3 DEF Reclassify, DInv, TypeOK, sendVars
  <2>4. CASE Age
    BY <2>4 DEF Age, DInv, TypeOK, sendVars, lockVars
  <2>5. CASE UNCHANGED vars
    BY <2>5 DEF vars, rowVars, lockVars, DInv, TypeOK
  <2>. QED BY <2>1, <2>2, <2>3, <2>4, <2>5
<1>2. Real' = Real
  BY <1>1 DEF Real, rowVars
<1>3. \A v \in Workers : TxOK(tx[v])'
  <2> SUFFICES ASSUME NEW v \in Workers PROVE TxOK(tx[v])'
    OBVIOUS
  <2>1. TxOK(tx[v]) /\ tx'[v] = tx[v]
    BY <1>1 DEF DInv
  <2>2. (tx[v] \in TxStates)'
    BY <1>1, <2>1 DEF TxOK, TxStates
  <2>. QED BY <1>1, <1>2, <2>1, <2>2 DEF TxOK, Running, Searched, Loads
<1>4. (tx \in [Workers -> TxStates])'
  BY <1>1, <1>3 DEF TxOK, DInv, TypeOK
<1>. QED BY <1>1, <1>2, <1>3, <1>4 DEF DInv, TypeOK, Real, rowVars, lockVars

\* A detection starts: the order it loads is a known one, and its group exists.
LEMMA StartKeeps ==
  ASSUME DInv, NEW w \in Workers, NEW o \in Orders, Start(w, o)
  PROVE  DInv'
<1>. DEFINE l == [[q \in Orders |-> NoGroup] EXCEPT ![o] = group[o]]
<1>1. o \in known /\ text[o] \in Texts /\ print[o] \in Prints
      /\ group[o] \in Real \union {NoGroup}
  BY DEF Start, DInv, TypeOK, Real
<1>2. tx'[w] = [step |-> "mark", order |-> o, text |-> text[o], print |-> print[o],
                cands |-> {}, loaded |-> l, target |-> NoGroup, base |-> NoRow, new |-> FALSE]
  BY DEF Start, IdleTx, DInv, TypeOK
<1>3. l \in [Orders -> Real \union {NoGroup}] /\ l \in [Orders -> Groups \union {NoGroup}]
  BY <1>1 DEF Real
<1>4. NoRow \in GroupRows
  BY DEF NoRow, GroupRows
<1>5. UNCHANGED <<known, groupRow>> /\ Real' = Real
  BY DEF Start, envVars, rowVars, Real
<1>. HIDE DEF l
<1>6. tx'[w] \in TxStates
  BY <1>1, <1>2, <1>3, <1>4 DEF TxStates, Steps
<1>7. (tx[w] \in TxStates)'
  BY <1>5, <1>6 DEF TxStates
<1>8. TxOK(tx[w])'
  BY <1>1, <1>2, <1>3, <1>5, <1>7 DEF TxOK, Running, Searched, Loads
<1>9. /\ (tasks \in [Orders -> Nat])' /\ \A q \in Orders : tasks'[q] > 0 => q \in known
  BY DEF Start, DInv, TypeOK
<1>10. UNCHANGED <<envVars, rowVars, lockVars, failed, sendVars, crashes>>
  BY DEF Start
<1>11. tx' = [v \in Workers |-> tx'[v]] /\ \A v \in Workers \ {w} : tx'[v] = tx[v]
  BY DEF Start, DInv, TypeOK
<1>. QED BY <1>8, <1>9, <1>10, <1>11, StepKeeps DEF DInv, TypeOK, lockVars, sendVars

\* The fingerprint is flushed.
LEMMA MarkKeeps ==
  ASSUME DInv, NEW w \in Workers, Mark(w)
  PROVE  DInv'
<1>1. TxOK(tx[w]) /\ tx[w].step = "mark"
  BY DEF DInv, Mark
<1>2. tx'[w] = [tx[w] EXCEPT !.step = "search"]
  BY DEF Mark, DInv, TypeOK
<1>3. UNCHANGED <<known, groupRow>> /\ Real' = Real
  BY DEF Mark, envVars, rowVars, Real
<1>4. tx'[w] \in TxStates
  BY <1>1, <1>2 DEF TxOK, TxStates, Steps
<1>5. (tx[w] \in TxStates)'
  BY <1>3, <1>4 DEF TxStates
<1>6. /\ tx'[w].step = "search" /\ tx'[w].order = tx[w].order /\ tx'[w].text = tx[w].text
      /\ tx'[w].loaded = tx[w].loaded /\ tx'[w].target = tx[w].target
  BY <1>1, <1>2 DEF TxOK, TxStates
<1>7. TxOK(tx[w])'
  BY <1>1, <1>3, <1>5, <1>6 DEF TxOK, Running, Searched, Loads, Mark, envVars
<1>8. (orderLock \in [Orders -> Workers \union {NoWorker}])'
  BY DEF Mark, DInv, TypeOK
<1>. QED BY <1>7, <1>8, StepKeeps DEF Mark, DInv, TypeOK, lockVars, sendVars, envVars, rowVars

\* The candidates are known orders, and what is loaded of them is committed.
LEMMA SearchKeeps ==
  ASSUME DInv, NEW w \in Workers, Search(w)
  PROVE  DInv'
<1>. DEFINE t == tx[w]
            found == Candidates(w)
            l == [q \in Orders |-> IF q \in found \ {t.order} THEN group[q] ELSE t.loaded[q]]
            s == IF Cardinality(found) <= 1 THEN "write" ELSE "group"
<1>1. TxOK(t) /\ t.step = "search"
  BY DEF DInv, Search
<1>2. found \in SUBSET known /\ t.order \in found
  BY <1>1 DEF TxOK, Running, Candidates
<1>3. l \in [Orders -> Real \union {NoGroup}]
  BY <1>1 DEF DInv, TypeOK, Real, TxOK, TxStates, Loads
<1>4. tx'[w] = [t EXCEPT !.step = s, !.cands = found, !.loaded = l]
  BY DEF Search, DInv, TypeOK
<1>5. UNCHANGED <<known, groupRow>> /\ Real' = Real
  BY DEF Search, envVars, rowVars, Real
<1>. HIDE DEF found, l
<1>6. tx'[w] = [step |-> s, order |-> t.order, text |-> t.text, print |-> t.print,
                cands |-> found, loaded |-> l, target |-> t.target, base |-> t.base,
                new |-> t.new]
  BY <1>1, <1>4 DEF TxOK, TxStates
<1>7. l \in [Orders -> Groups \union {NoGroup}]
  BY <1>3 DEF Real
<1>8. tx'[w] \in TxStates
  BY <1>1, <1>2, <1>6, <1>7 DEF TxOK, TxStates, Steps
<1>9. (tx[w] \in TxStates)'
  BY <1>5, <1>8 DEF TxStates
<1>10. Running(tx[w])' /\ Searched(tx[w])'
  BY <1>1, <1>2, <1>5, <1>6 DEF TxOK, Running, Searched
<1>11. Loads(tx[w])'
  BY <1>1, <1>3, <1>5, <1>6 DEF TxOK, Loads
<1>12. UNCHANGED <<envVars, rowVars, lockVars, tasks, failed, sendVars, crashes>>
  BY DEF Search
<1>13. tx' = [v \in Workers |-> tx'[v]] /\ \A v \in Workers \ {w} : tx'[v] = tx[v]
  BY DEF Search, DInv, TypeOK
<1>. QED BY <1>9, <1>10, <1>11, <1>12, <1>13, StepKeeps
         DEF TxOK, DInv, TypeOK, lockVars, sendVars

\* The group is one that a candidate was loaded with, or a new one.
LEMMA FindGroupKeeps ==
  ASSUME DInv, NEW w \in Workers, FindGroup(w)
  PROVE  DInv'
<1>. DEFINE t == tx[w]
<1>1. TxOK(t) /\ t.step = "group"
  BY DEF DInv, FindGroup
<1>2. UNCHANGED <<known, groupRow>> /\ Real' = Real
  BY DEF FindGroup, envVars, rowVars, Real
<1>3. \/ \E g \in Real : tx'[w] = [t EXCEPT !.step = "write", !.target = g, !.base = groupRow[g]]
      \/ \E g \in Groups : tx'[w] = [t EXCEPT !.step = "write", !.new = TRUE, !.target = g]
  <2>. DEFINE Unused(g) == groupRow[g] = NoRow /\ \A v \in Workers : tx[v].target # g
  <2>1. CASE \E q \in {q \in t.cands : t.loaded[q] # NoGroup} :
               tx' = [tx EXCEPT ![w].step = "write", ![w].target = t.loaded[q],
                                ![w].base = groupRow[t.loaded[q]]]
    <3>1. PICK q \in t.cands : t.loaded[q] # NoGroup /\
               tx' = [tx EXCEPT ![w].step = "write", ![w].target = t.loaded[q],
                                ![w].base = groupRow[t.loaded[q]]]
      BY <2>1
    <3>2. q \in Orders
      BY <1>1 DEF TxOK, TxStates, DInv, TypeOK
    <3>3. t.loaded[q] \in Real
      BY <1>1, <3>1, <3>2 DEF TxOK, Loads
    <3>4. tx'[w] = [t EXCEPT !.step = "write", !.target = t.loaded[q],
                             !.base = groupRow[t.loaded[q]]]
      BY <3>1 DEF DInv, TypeOK
    <3>. QED BY <3>3, <3>4
  <2>2. CASE /\ \E g \in Groups : Unused(g)
             /\ tx' = [tx EXCEPT ![w].step = "write", ![w].new = TRUE,
                                 ![w].target = CHOOSE g \in Groups : Unused(g)]
    <3>1. (CHOOSE g \in Groups : Unused(g)) \in Groups
      <4>. HIDE DEF Unused
      <4>. QED BY <2>2
    <3>2. tx'[w] = [t EXCEPT !.step = "write", !.new = TRUE,
                             !.target = CHOOSE g \in Groups : Unused(g)]
      <4>. HIDE DEF Unused
      <4>. QED BY <2>2 DEF DInv, TypeOK
    <3>. QED BY <3>1, <3>2
  <2>. QED BY <2>1, <2>2 DEF FindGroup
<1>4. /\ tx'[w] \in TxStates /\ tx'[w].step = "write" /\ tx'[w].order = t.order
      /\ tx'[w].text = t.text /\ tx'[w].cands = t.cands /\ tx'[w].loaded = t.loaded
      /\ ~tx'[w].new => tx'[w].target \in Real
  <2>1. ASSUME NEW g \in Real,
               tx'[w] = [t EXCEPT !.step = "write", !.target = g, !.base = groupRow[g]]
        PROVE  <1>4!:
    <3>1. groupRow[g] \in GroupRows /\ g \in Groups
      BY DEF DInv, TypeOK, Real
    <3>2. tx'[w] = [step |-> "write", order |-> t.order, text |-> t.text, print |-> t.print,
                    cands |-> t.cands, loaded |-> t.loaded, target |-> g,
                    base |-> groupRow[g], new |-> t.new]
      BY <1>1, <2>1 DEF TxOK, TxStates
    <3>. QED BY <1>1, <3>1, <3>2 DEF TxOK, TxStates, Steps
  <2>2. ASSUME NEW g \in Groups,
               tx'[w] = [t EXCEPT !.step = "write", !.new = TRUE, !.target = g]
        PROVE  <1>4!:
    <3>1. tx'[w] = [step |-> "write", order |-> t.order, text |-> t.text, print |-> t.print,
                    cands |-> t.cands, loaded |-> t.loaded, target |-> g,
                    base |-> t.base, new |-> TRUE]
      BY <1>1, <2>2 DEF TxOK, TxStates
    <3>. QED BY <1>1, <3>1 DEF TxOK, TxStates, Steps
  <2>. QED BY <1>3, <2>1, <2>2
<1>5. (tx[w] \in TxStates)'
  BY <1>2, <1>4 DEF TxStates
<1>6. TxOK(tx[w])'
  BY <1>1, <1>2, <1>4, <1>5 DEF TxOK, Running, Searched, Loads
<1>7. UNCHANGED <<envVars, rowVars, lockVars, tasks, failed, sendVars, crashes>>
  BY DEF FindGroup
<1>8. tx' = [v \in Workers |-> tx'[v]] /\ \A v \in Workers \ {w} : tx'[v] = tx[v]
  BY DEF FindGroup, DInv, TypeOK
<1>. QED BY <1>6, <1>7, <1>8, StepKeeps DEF DInv, TypeOK, lockVars, sendVars

\* Locks are taken by workers.
LEMMA LockKeeps ==
  ASSUME DInv, NEW w \in Workers, LockGroup(w) \/ LockOrder(w)
  PROVE  DInv'
<1>1. UNCHANGED <<envVars, rowVars, tx, tasks, failed, sendVars, crashes>>
  BY DEF LockGroup, LockOrder
<1>2. (orderLock \in [Orders -> Workers \union {NoWorker}])'
  BY DEF LockGroup, LockOrder, DInv, TypeOK
<1>3. (groupLock \in [Groups -> Workers \union {NoWorker}])'
  BY DEF LockGroup, LockOrder, DInv, TypeOK
<1>4. TxOK(tx[w])'
  <2>1. TxOK(tx[w]) /\ Real' = Real /\ known' = known /\ tx' = tx
    BY <1>1 DEF DInv, Real, envVars, rowVars
  <2>2. (tx[w] \in TxStates)'
    BY <2>1 DEF TxOK, TxStates
  <2>. QED BY <1>1, <2>1, <2>2 DEF TxOK, Running, Searched, Loads
<1>. QED BY <1>1, <1>2, <1>3, <1>4, StepKeeps DEF DInv, TypeOK, sendVars

\* The end of a transaction that did not commit
LEMMA EndKeeps ==
  ASSUME DInv, NEW w \in Workers, Victim(w) \/ Crash(w) \/ Publish(w)
  PROVE  DInv'
<1>1. tx[w].step # "idle" /\ tx' = [tx EXCEPT ![w] = IdleTx] /\ UNCHANGED <<envVars, rowVars, sent>>
  <2>1. ASSUME Victim(w) PROVE tx[w].step # "idle"
    <3>1. WaitsFor(w) # NoWorker
      BY <2>1, NameAssumption DEF Victim, InCycle
    <3>. QED BY <3>1 DEF WaitsFor, GroupToLock, OrdersToLock
  <2>. QED BY <2>1 DEF Victim, Crash, Publish, sendVars
<1>2. tx[w].order \in known
  BY <1>1 DEF DInv, TxOK, Running
<1>3. TxOK(tx[w])'
  <2>1. TxOK(IdleTx) /\ tx'[w] = IdleTx /\ known' = known /\ Real' = Real
    BY <1>1, IdleOK DEF DInv, TypeOK, Real, envVars, rowVars
  <2>2. (tx[w] \in TxStates)'
    BY <2>1 DEF TxOK, TxStates
  <2>. QED BY <2>1, <2>2 DEF TxOK, Running, Searched, Loads, IdleTx
<1>4. (orderLock \in [Orders -> Workers \union {NoWorker}])'
  BY DEF Victim, Crash, Publish, Unlock, lockVars, DInv, TypeOK
<1>5. (groupLock \in [Groups -> Workers \union {NoWorker}])'
  BY DEF Victim, Crash, Publish, Unlock, lockVars, DInv, TypeOK
<1>6. (tasks \in [Orders -> Nat])' /\ \A o \in Orders : tasks'[o] > 0 => o \in known
  BY <1>2 DEF Victim, Crash, Publish, DInv, TypeOK
<1>7. failed' \subseteq known /\ toSend' \subseteq known /\ crashes' \in Nat
  BY <1>2 DEF Victim, Crash, Publish, sendVars, DInv, TypeOK
<1>8. tx' = [v \in Workers |-> tx'[v]] /\ \A v \in Workers \ {w} : tx'[v] = tx[v]
  BY <1>1 DEF DInv, TypeOK
<1>. QED BY <1>1, <1>3, <1>4, <1>5, <1>6, <1>7, <1>8, StepKeeps

\* The row a transaction writes is one of a group with an order.
LEMMA ResultOK ==
  ASSUME DInv, NEW w \in Workers, tx[w].step = "write"
  PROVE  Result(w) \in GroupRows /\ Result(w).canonical \in Orders
<1>. DEFINE S == tx[w].cands
<1>1. S \in SUBSET Orders /\ S # {}
  BY DEF DInv, TypeOK, TxOK, TxStates, Searched
<1>2. Canonical(S) \in Orders
  BY <1>1, CanonicalIsOne
<1>3. Cardinality(S) \in Nat
  BY <1>1, RankAssumption, FS_Subset, FS_CardinalityType
<1>. QED BY <1>2, <1>3 DEF Result, GroupRows

\* The commit writes a group with a canonical order, and moves orders to it only.
LEMMA CommitKeeps ==
  ASSUME DInv, NEW w \in Workers, Commit(w)
  PROVE  DInv'
<1>. DEFINE t == tx[w]
            r == Result(w)
            row == IF t.new THEN r ELSE Written(groupRow[t.target], t.base, r)
<1>1. TxOK(t) /\ t.step = "write"
  BY DEF DInv, Commit
<1>2. r \in GroupRows /\ r.canonical \in Orders
  BY <1>1, ResultOK
<1>3. t.target = NoGroup \/ t.target \in Groups
  BY <1>1 DEF TxOK, TxStates
<1>4. t.target # NoGroup => row \in GroupRows /\ row.canonical \in Orders
  <2>1. CASE t.new
    BY <1>2, <2>1
  <2>2. CASE t.target # NoGroup /\ ~t.new
    <3>1. groupRow[t.target] \in GroupRows /\ groupRow[t.target].canonical \in Orders
      BY <1>1, <1>3, <2>2 DEF TxOK, Loads, DInv, TypeOK
    <3>. QED BY <1>2, <2>2, <3>1 DEF Written, GroupRows
  <2>. QED BY <2>1, <2>2
<1>5. groupRow' = IF t.target = NoGroup THEN groupRow ELSE [groupRow EXCEPT ![t.target] = row]
  BY DEF Commit
<1>. HIDE DEF r, row
<1>6. (groupRow \in [Groups -> GroupRows])'
  BY <1>3, <1>4, <1>5 DEF DInv, TypeOK, GroupRows
<1>7. t.target # NoGroup => row # NoRow
  BY <1>4, NameAssumption DEF NoRow
<1>8. /\ Real \subseteq Real'
      /\ t.target # NoGroup => t.target \in Real'
      /\ \A g \in Real' : groupRow'[g].canonical \in Orders
  BY <1>3, <1>4, <1>5, <1>7 DEF Real, DInv, TypeOK
<1>9. (print \in [Orders -> Prints])'
  BY <1>1 DEF Commit, DInv, TypeOK, TxOK, Running, Prints
<1>10. group' \in [Orders -> Real' \union {NoGroup}]
  <2>1. group' = [q \in Orders |-> IF q \in Moved(w) THEN t.target ELSE group[q]]
    BY DEF Commit
  <2>2. \A q \in Orders : group[q] \in Real \union {NoGroup}
    BY DEF DInv, TypeOK, Real
  <2>. QED BY <1>8, <2>1, <2>2
<1>11. UNCHANGED <<envVars, tasks, failed, sendVars, crashes>>
  BY DEF Commit
<1>12. /\ (orderLock \in [Orders -> Workers \union {NoWorker}])'
       /\ (groupLock \in [Groups -> Workers \union {NoWorker}])'
  BY DEF Commit, Unlock, DInv, TypeOK
<1>13. tx'[w] = [t EXCEPT !.step = "publish"] /\ tx' = [v \in Workers |-> tx'[v]]
       /\ \A v \in Workers \ {w} : tx'[v] = tx[v]
  BY DEF Commit, DInv, TypeOK
<1>14. tx'[w] \in TxStates
  BY <1>1, <1>13 DEF TxOK, TxStates, Steps
<1>15. /\ tx'[w].step = "publish" /\ tx'[w].order = t.order /\ tx'[w].text = t.text
       /\ tx'[w].cands = t.cands /\ tx'[w].loaded = t.loaded
  BY <1>1, <1>13 DEF TxOK, TxStates
<1>16. (tx[w] \in TxStates)' /\ known' = known
  BY <1>11, <1>14 DEF envVars, TxStates
<1>17. TxOK(tx[w])'
  BY <1>1, <1>8, <1>15, <1>16 DEF TxOK, Running, Searched, Loads
<1>18. (tx \in [Workers -> TxStates])' /\ \A v \in Workers : TxOK(tx[v])'
  BY <1>8, <1>13, <1>16, <1>17, OthersStay
<1>. QED BY <1>6, <1>8, <1>9, <1>10, <1>11, <1>12, <1>18
         DEF DInv, TypeOK, Real, envVars, sendVars

\* DInv holds at first, and one step of whoever takes it keeps it.
LEMMA DetectionInductive == Spec => []DInv
<1>1. Init => DInv
  <2> SUFFICES ASSUME Init PROVE DInv
    OBVIOUS
  <2>1. \A w \in Workers : TxOK(tx[w]) /\ tx \in [Workers -> TxStates]
    BY IdleOK DEF Init, TxOK
  <2>2. NoRow \in GroupRows
    BY DEF NoRow, GroupRows
  <2>3. TypeOK
    BY <2>1, <2>2, TextAssumption DEF Init, TypeOK, Prints
  <2>. QED BY <2>1, <2>3 DEF Init, DInv, Real
<1>2. DInv /\ [Next]_vars => DInv'
  <2> SUFFICES ASSUME DInv, [Next]_vars PROVE DInv'
    OBVIOUS
  <2>1. ASSUME NEW w \in Workers, Work(w) PROVE DInv'
    BY <2>1, MarkKeeps, SearchKeeps, FindGroupKeeps, LockKeeps, CommitKeeps, EndKeeps DEF Work
  <2>. QED BY <2>1, EnvironmentKeeps, StartKeeps, EndKeeps DEF Next
<1>. QED BY <1>1, <1>2, PTL DEF Spec

\* For any workers, orders and texts, whatever is lost or deadlocked: every variable
\* keeps its type, the candidates of a detection among them, which are orders with a
\* committed row, and an order that is in a group is in one that has a row.
THEOREM DetectionTypes == Spec => []TypeOK
<1>1. DInv => TypeOK
  BY DEF DInv
<1>. QED BY <1>1, DetectionInductive, PTL

-----------------------------------------------------------------------------
(***************************************************************************)
(* What the steps of a transaction change                                  *)
(***************************************************************************)

Runs(w, o) == tx[w].step # "idle" /\ tx[w].order = o

\* The transaction has not committed yet.
Open(w) == tx[w].step \in {"mark", "search", "group", "write"}

\* The steps of a transaction up to its commit
Inner(w) ==
  Mark(w) \/ Search(w) \/ FindGroup(w) \/ LockGroup(w) \/ LockOrder(w) \/ Commit(w)

\* What Start, find_duplicate_candidates and upsert_duplicate_group leave in a transaction
OthersWait(w) ==
  /\ \A v \in Workers \ {w} : tx'[v] = tx[v]
  /\ UNCHANGED <<envVars, rowVars, lockVars, failed, sendVars, crashes>>
Starts(w, o) ==
  /\ OthersWait(w) /\ tasks[o] > 0 /\ tx[w].step = "idle"
  /\ tasks' = [tasks EXCEPT ![o] = @ - 1]
  /\ tx'[w] = [step |-> "mark", order |-> o, text |-> text[o], print |-> print[o],
               cands |-> {}, target |-> NoGroup, base |-> NoRow, new |-> FALSE,
               loaded |-> [[q \in Orders |-> NoGroup] EXCEPT ![o] = group[o]]]
Finds(w) ==
  /\ OthersWait(w) /\ tasks' = tasks /\ tx[w].step = "search"
  /\ tx'[w] = [tx[w] EXCEPT
       !.step = IF Cardinality(Candidates(w)) <= 1 THEN "write" ELSE "group",
       !.cands = Candidates(w),
       !.loaded = [q \in Orders |-> IF q \in Candidates(w) \ {tx[w].order}
                                   THEN group[q] ELSE tx[w].loaded[q]]]
Joins(w, q) ==
  /\ OthersWait(w) /\ tasks' = tasks /\ tx[w].step = "group"
  /\ q \in tx[w].cands /\ tx[w].loaded[q] # NoGroup
  /\ tx'[w] = [tx[w] EXCEPT !.step = "write", !.target = tx[w].loaded[q],
                            !.base = groupRow[tx[w].loaded[q]]]
Founds(w, g) ==
  /\ OthersWait(w) /\ tasks' = tasks /\ tx[w].step = "group" /\ g \in Groups
  /\ groupRow[g] = NoRow /\ \A v \in Workers : tx[v].target # g
  /\ \A q \in tx[w].cands : tx[w].loaded[q] = NoGroup
  /\ tx'[w] = [tx[w] EXCEPT !.step = "write", !.new = TRUE, !.target = g]

\* Start, as it changes one transaction
LEMMA StartDoes ==
  ASSUME DInv, NEW w \in Workers, NEW o \in Orders, Start(w, o)
  PROVE  Starts(w, o)
BY DEF Start, Starts, OthersWait, IdleTx, DInv, TypeOK

\* Search, as it changes one transaction
LEMMA SearchDoes ==
  ASSUME DInv, NEW w \in Workers, Search(w)
  PROVE  Finds(w)
BY DEF Search, Finds, OthersWait, DInv, TypeOK

\* FindGroup joins a group that a candidate was in, or founds one.
LEMMA FindGroupDoes ==
  ASSUME DInv, NEW w \in Workers, FindGroup(w)
  PROVE  (\E q \in tx[w].cands : Joins(w, q)) \/ \E g \in Groups : Founds(w, g)
<1>. DEFINE t == tx[w]
            Unused(g) == groupRow[g] = NoRow /\ \A v \in Workers : tx[v].target # g
<1>1. /\ \/ \E q \in {q \in t.cands : t.loaded[q] # NoGroup} :
              tx' = [tx EXCEPT ![w].step = "write", ![w].target = t.loaded[q],
                               ![w].base = groupRow[t.loaded[q]]]
         \/ /\ {q \in t.cands : t.loaded[q] # NoGroup} = {} /\ \E g \in Groups : Unused(g)
            /\ tx' = [tx EXCEPT ![w].step = "write", ![w].new = TRUE,
                                ![w].target = CHOOSE g \in Groups : Unused(g)]
      /\ UNCHANGED <<envVars, rowVars, lockVars, tasks, failed, sendVars, crashes>>
      /\ tx[w].step = "group"
  BY DEF FindGroup
<1>. HIDE DEF Unused
<1>2. (\E g \in Groups : Unused(g)) =>
        (CHOOSE g \in Groups : Unused(g)) \in Groups /\ Unused(CHOOSE g \in Groups : Unused(g))
  OBVIOUS
<1>3. tx \in [Workers -> TxStates]
  BY DEF DInv, TypeOK
<1>4. ASSUME NEW q \in t.cands, t.loaded[q] # NoGroup,
             tx' = [tx EXCEPT ![w].step = "write", ![w].target = t.loaded[q],
                              ![w].base = groupRow[t.loaded[q]]]
      PROVE  Joins(w, q)
  BY <1>1, <1>3, <1>4 DEF Joins, OthersWait
<1>5. ASSUME NEW g \in Groups, Unused(g), \A q \in t.cands : t.loaded[q] = NoGroup,
             tx' = [tx EXCEPT ![w].step = "write", ![w].new = TRUE, ![w].target = g]
      PROVE  Founds(w, g)
  BY <1>1, <1>3, <1>5 DEF Founds, OthersWait, Unused
<1>. QED BY <1>1, <1>2, <1>4, <1>5

\* They change one transaction, and what it runs for stays.
GoesOn(w) ==
  /\ UNCHANGED <<envVars, tasks, failed, sendVars, crashes>>
  /\ \A v \in Workers \ {w} : tx'[v] = tx[v]
  /\ Open(w) /\ tx'[w].step # "idle"
  /\ tx'[w].order = tx[w].order /\ tx'[w].text = tx[w].text /\ tx'[w].print = tx[w].print

\* A step before the end of a transaction changes nothing about what it runs for.
LEMMA InnerStep ==
  ASSUME DInv, NEW w \in Workers, Inner(w)
  PROVE  GoesOn(w)
<1>. USE DEF GoesOn
<1>1. tx[w] \in TxStates /\ tx \in [Workers -> TxStates]
  BY DEF DInv, TypeOK
<1>2. CASE Mark(w)
  BY <1>1, <1>2 DEF Mark, Open, TxStates, rowVars
<1>3. CASE Search(w)
  <2>1. Finds(w)
    BY <1>3, SearchDoes
  <2>. QED BY <1>1, <2>1 DEF Finds, OthersWait, Open, TxStates
<1>4. CASE FindGroup(w)
  <2>1. (\E q \in tx[w].cands : Joins(w, q)) \/ \E g \in Groups : Founds(w, g)
    BY <1>4, FindGroupDoes
  <2>2. ASSUME NEW q, Joins(w, q) PROVE GoesOn(w)
    BY <1>1, <2>2 DEF Joins, OthersWait, Open, TxStates
  <2>3. ASSUME NEW g, Founds(w, g) PROVE GoesOn(w)
    BY <1>1, <2>3 DEF Founds, OthersWait, Open, TxStates
  <2>. QED BY <2>1, <2>2, <2>3
<1>5. CASE LockGroup(w)
  BY <1>1, <1>5 DEF LockGroup, GroupToLock, Open, TxStates
<1>6. CASE LockOrder(w)
  BY <1>1, <1>6 DEF LockOrder, OrdersToLock, Open, TxStates
<1>7. CASE Commit(w)
  BY <1>1, <1>7 DEF Commit, Open, TxStates
<1>. QED BY <1>2, <1>3, <1>4, <1>5, <1>6, <1>7 DEF Inner

\* The end of a task, whichever way
LEMMA Ending ==
  ASSUME DInv, NEW w \in Workers, Victim(w) \/ Crash(w) \/ Publish(w)
  PROVE  /\ tx[w].step # "idle" /\ tx[w].order \in Orders /\ tx[w].order \in known
         /\ tx'[w] = IdleTx /\ \A v \in Workers \ {w} : tx'[v] = tx[v]
<1>1. tx[w].step # "idle"
  <2>1. ASSUME Victim(w) PROVE tx[w].step # "idle"
    <3>1. WaitsFor(w) # NoWorker
      BY <2>1, NameAssumption DEF Victim, InCycle
    <3>. QED BY <3>1 DEF WaitsFor, GroupToLock, OrdersToLock
  <2>. QED BY <2>1 DEF Crash, Publish
<1>2. tx[w].order \in known /\ known \subseteq Orders
  BY <1>1 DEF DInv, TypeOK, TxOK, Running
<1>. QED BY <1>1, <1>2 DEF Victim, Crash, Publish, DInv, TypeOK

-----------------------------------------------------------------------------
(***************************************************************************)
(* Locks: any workers, orders and texts                                    *)
(***************************************************************************)

\* A transaction holds rows of orders from its mark to its commit, that of its group when it
\* writes, and that of its order if it will write it.
Held(w) ==
  /\ \A o \in Orders : orderLock[o] = w => tx[w].step \in {"search", "group", "write"}
  /\ \A g \in Groups : groupLock[g] = w => tx[w].step = "write"
  /\ tx[w].step \in {"search", "group", "write"} /\ Marks(w) => orderLock[tx[w].order] = w
HeldInv == \A w \in Workers : Held(w)

\* From w, the waiting leads to one that goes on, or that a deadlock fails: there is one
\* among any workers with whom is who they wait for.
ChainEnds(w) ==
  \A S \in SUBSET Workers :
    w \in S /\ (\A v \in S : WaitsFor(v) # NoWorker => WaitsFor(v) \in S) =>
      \E v \in S : Open(v) /\ (WaitsFor(v) = NoWorker \/ InCycle(v))

\* Nobody waits for itself, or behind one that stays where it is.
NobodyWaitsInVain == \A w \in Workers : Open(w) => WaitsFor(w) # w /\ ChainEnds(w)

\* A row changes only by the commit of the transaction that holds it, or that makes it.
WritesUnderLock ==
  [][/\ \A o \in Orders : print'[o] # print[o] \/ group'[o] # group[o] =>
          \E w \in Workers : Commit(w) /\ orderLock[o] = w
     /\ \A g \in Groups : groupRow'[g] # groupRow[g] =>
          \E w \in Workers : /\ Commit(w) /\ tx[w].target = g
                             /\ groupLock[g] = w \/ tx[w].new]_vars

\* A step of one worker takes free rows and gives back its own.
TakesOwn(w) ==
  /\ \A v \in Workers \ {w} : tx'[v] = tx[v]
  /\ \A o \in Orders : \/ orderLock'[o] = orderLock[o]
                       \/ orderLock[o] = NoWorker /\ orderLock'[o] = w
                       \/ orderLock[o] = w /\ orderLock'[o] = NoWorker
  /\ \A g \in Groups : \/ groupLock'[g] = groupLock[g]
                       \/ groupLock'[g] = w \/ groupLock'[g] = NoWorker

\* What the others hold they still hold.
LEMMA OthersHold ==
  ASSUME DInv, \A v \in Workers : Held(v), NEW w \in Workers, TakesOwn(w), Held(w)'
  PROVE  \A v \in Workers : Held(v)'
<1> SUFFICES ASSUME NEW v \in Workers, v # w PROVE Held(v)'
  OBVIOUS
<1>1. tx[v].step # "idle" => tx[v].order \in Orders
  BY DEF DInv, TypeOK, TxOK, Running
<1>2. tx'[v] = tx[v] /\ (Marks(v)' <=> Marks(v))
  BY DEF Marks, TakesOwn
<1>. QED BY <1>1, <1>2, NameAssumption DEF Held, TakesOwn

\* What Unlock leaves
LEMMA UnlockDoes ==
  ASSUME NEW w \in Workers, Unlock(w)
  PROVE  /\ \A o \in Orders : /\ orderLock'[o] # w
                              /\ \/ orderLock'[o] = orderLock[o]
                                 \/ orderLock[o] = w /\ orderLock'[o] = NoWorker
         /\ \A g \in Groups : /\ groupLock'[g] # w
                              /\ groupLock'[g] = groupLock[g] \/ groupLock'[g] = NoWorker
<1>1. w # NoWorker
  BY NameAssumption
<1>2. ASSUME NEW o \in Orders
      PROVE  orderLock'[o] = IF orderLock[o] = w THEN NoWorker ELSE orderLock[o]
  BY DEF Unlock
<1>3. ASSUME NEW g \in Groups
      PROVE  groupLock'[g] = IF groupLock[g] = w THEN NoWorker ELSE groupLock[g]
  BY DEF Unlock
<1>4. ASSUME NEW o \in Orders
      PROVE  /\ orderLock'[o] # w
             /\ (orderLock'[o] = orderLock[o] \/ (orderLock[o] = w /\ orderLock'[o] = NoWorker))
  BY <1>1, <1>2
<1>5. ASSUME NEW g \in Groups
      PROVE  groupLock'[g] # w /\ (groupLock'[g] = groupLock[g] \/ groupLock'[g] = NoWorker)
  BY <1>1, <1>3
<1>. QED BY <1>4, <1>5

\* Held is kept by every step.
LEMMA HeldStep ==
  ASSUME DInv, \A v \in Workers : Held(v), [Next]_vars
  PROVE  \A v \in Workers : Held(v)'
<1>1. CASE UNCHANGED <<orderLock, groupLock, tx>>
  BY <1>1 DEF Held, Marks
<1>2. tx \in [Workers -> TxStates]
  BY DEF DInv, TypeOK
<1>3. ASSUME NEW w \in Workers, UNCHANGED lockVars, \A v \in Workers \ {w} : tx'[v] = tx[v]
      PROVE  TakesOwn(w)
  BY <1>3 DEF TakesOwn, lockVars
<1>4. ASSUME NEW w \in Workers, NEW o \in Orders, Start(w, o)
      PROVE  \A v \in Workers : Held(v)'
  <2>1. Starts(w, o)
    BY <1>4, StartDoes
  <2>2. /\ tx[w].step = "idle" /\ tx'[w].step = "mark" /\ UNCHANGED lockVars
        /\ \A v \in Workers \ {w} : tx'[v] = tx[v]
    BY <2>1 DEF Starts, OthersWait
  <2>3. Held(w)'
    BY <2>2 DEF Held, lockVars
  <2>. QED BY <1>3, <2>2, <2>3, OthersHold
<1>5. ASSUME NEW w \in Workers, Inner(w), ~Commit(w)
      PROVE  \A v \in Workers : Held(v)'
  <2>1. GoesOn(w)
    BY <1>5, InnerStep
  <2>2. tx'[w].order = tx[w].order /\ (Marks(w)' <=> Marks(w))
    BY <2>1 DEF GoesOn, Marks
  <2>3. \A v \in Workers \ {w} : tx'[v] = tx[v]
    BY <2>1 DEF GoesOn
  <2>4. CASE Mark(w)
    <3>1. tx[w].step = "mark" /\ tx'[w].step = "search" /\ groupLock' = groupLock
      BY <1>2, <2>4 DEF Mark, TxStates
    <3>2. tx[w].order \in Orders /\ orderLock \in [Orders -> Workers \union {NoWorker}]
      BY <3>1 DEF DInv, TypeOK, TxOK, Running
    <3>3. \/ ~Marks(w) /\ orderLock' = orderLock
          \/ /\ orderLock[tx[w].order] = NoWorker
             /\ orderLock' = [orderLock EXCEPT ![tx[w].order] = w]
      BY <2>4 DEF Mark
    <3>4. Held(w)'
      BY <2>2, <3>1, <3>2, <3>3 DEF Held
    <3>5. TakesOwn(w)
      BY <2>3, <3>1, <3>2, <3>3 DEF TakesOwn
    <3>. QED BY <3>4, <3>5, OthersHold
  <2>5. CASE Search(w)
    <3>1. Finds(w)
      BY <2>5, SearchDoes
    <3>2. tx[w].step = "search" /\ tx'[w].step \in {"group", "write"} /\ UNCHANGED lockVars
      BY <1>2, <3>1 DEF Finds, OthersWait, TxStates
    <3>3. Held(w)'
      BY <2>2, <3>2 DEF Held, lockVars
    <3>. QED BY <1>3, <2>3, <3>2, <3>3, OthersHold
  <2>6. CASE FindGroup(w)
    <3>1. (\E q \in tx[w].cands : Joins(w, q)) \/ \E g \in Groups : Founds(w, g)
      BY <2>6, FindGroupDoes
    <3>2. tx[w].step = "group" /\ tx'[w].step = "write" /\ UNCHANGED lockVars
      BY <1>2, <3>1 DEF Joins, Founds, OthersWait, TxStates
    <3>3. Held(w)'
      BY <2>2, <3>2 DEF Held, lockVars
    <3>. QED BY <1>3, <2>3, <3>2, <3>3, OthersHold
  <2>7. CASE LockGroup(w)
    <3>1. tx[w].step = "write" /\ UNCHANGED <<tx, orderLock>>
          /\ groupLock' = [groupLock EXCEPT ![tx[w].target] = w]
      BY <2>7 DEF LockGroup, GroupToLock
    <3>2. \A g \in Groups : groupLock'[g] = groupLock[g] \/ groupLock'[g] = w
      BY <3>1 DEF DInv, TypeOK
    <3>3. Held(w)'
      BY <2>2, <3>1 DEF Held
    <3>4. TakesOwn(w)
      BY <3>1, <3>2 DEF TakesOwn
    <3>. QED BY <3>3, <3>4, OthersHold
  <2>8. CASE LockOrder(w)
    <3>1. /\ tx[w].step = "write" /\ UNCHANGED <<tx, groupLock>>
          /\ orderLock[NextOrder(w)] = NoWorker
          /\ orderLock' = [orderLock EXCEPT ![NextOrder(w)] = w]
      BY <2>8 DEF LockOrder, OrdersToLock
    <3>2. orderLock \in [Orders -> Workers \union {NoWorker}]
      BY DEF DInv, TypeOK
    <3>3. \A o \in Orders : \/ orderLock'[o] = orderLock[o]
                            \/ orderLock[o] = NoWorker /\ orderLock'[o] = w
      <4>1. PICK n : n = NextOrder(w)
        OBVIOUS
      <4>2. orderLock[n] = NoWorker /\ orderLock' = [orderLock EXCEPT ![n] = w]
        BY <3>1, <4>1
      <4>. QED BY ONLY <3>2, <4>2
    <3>4. tx[w].order \in Orders
      BY <3>1 DEF DInv, TypeOK, TxOK, Running
    <3>5. Held(w)'
      BY <2>2, <3>1, <3>3, <3>4, NameAssumption DEF Held
    <3>6. TakesOwn(w)
      BY <3>1, <3>3 DEF TakesOwn
    <3>. QED BY <3>5, <3>6, OthersHold
  <2>. QED BY <1>5, <2>4, <2>5, <2>6, <2>7, <2>8 DEF Inner
<1>6. ASSUME NEW w \in Workers, Unlock(w), tx'[w].step \in {"idle", "publish"},
             \A v \in Workers \ {w} : tx'[v] = tx[v]
      PROVE  \A v \in Workers : Held(v)'
  <2>1. Held(w)'
    BY <1>6, UnlockDoes DEF Held
  <2>2. TakesOwn(w)
    BY <1>6, UnlockDoes DEF TakesOwn
  <2>. QED BY <2>1, <2>2, OthersHold
<1>7. ASSUME NEW w \in Workers, Commit(w)
      PROVE  \A v \in Workers : Held(v)'
  <2>1. \A v \in Workers \ {w} : tx'[v] = tx[v]
    BY <1>7, InnerStep DEF Inner, GoesOn
  <2>2. Unlock(w) /\ tx'[w].step = "publish"
    BY <1>2, <1>7 DEF Commit, TxStates
  <2>. QED BY <1>6, <2>1, <2>2
<1>8. ASSUME NEW w \in Workers, Victim(w) \/ Crash(w)
      PROVE  \A v \in Workers : Held(v)'
  <2>1. Unlock(w) /\ tx'[w].step = "idle" /\ \A v \in Workers \ {w} : tx'[v] = tx[v]
    BY <1>8, Ending DEF Victim, Crash, IdleTx
  <2>. QED BY <1>6, <2>1
<1>9. ASSUME NEW w \in Workers, Publish(w)
      PROVE  \A v \in Workers : Held(v)'
  <2>1. UNCHANGED lockVars /\ tx[w].step = "publish"
    BY <1>9 DEF Publish
  <2>2. tx'[w].step = "idle" /\ \A v \in Workers \ {w} : tx'[v] = tx[v]
    BY <1>9, Ending DEF IdleTx
  <2>3. Held(w)'
    BY <2>1, <2>2 DEF Held, lockVars
  <2>. QED BY <1>3, <2>1, <2>2, <2>3, OthersHold
<1>10. ASSUME NEW w \in Workers, Work(w) \/ Crash(w)
       PROVE  \A v \in Workers : Held(v)'
  BY <1>5, <1>7, <1>8, <1>9, <1>10 DEF Work, Inner
<1>11. CASE UNCHANGED vars
  BY <1>1, <1>11 DEF vars, lockVars
<1>12. ASSUME NEW o \in Orders, Arrive(o) \/ Notify(o) PROVE UNCHANGED <<orderLock, groupLock, tx>>
  BY <1>12 DEF Arrive, Notify, lockVars
<1>13. ASSUME NEW o \in Orders, NEW t \in Texts, Reclassify(o, t)
       PROVE  UNCHANGED <<orderLock, groupLock, tx>>
  BY <1>13 DEF Reclassify, lockVars
<1>14. CASE Age
  BY <1>1, <1>14 DEF Age, lockVars
<1>. QED BY <1>1, <1>4, <1>10, <1>11, <1>12, <1>13, <1>14 DEF Next

\* Held holds at first and is kept.
LEMMA HeldInductive == Spec => [](DInv /\ HeldInv)
<1>1. Init => HeldInv
  BY NameAssumption DEF Init, IdleTx, HeldInv, Held
<1>2. DInv /\ HeldInv /\ [Next]_vars => HeldInv'
  BY HeldStep DEF HeldInv
<1>. QED BY <1>1, <1>2, DetectionInductive, PTL DEF Spec

\* Workers that all wait, for each other only: some of them wait in a circle.
LEMMA SomeInCycle ==
  ASSUME NEW S \in SUBSET Workers, IsFiniteSet(S), S # {}, \A v \in S : WaitsFor(v) \in S
  PROVE  \E v \in S : InCycle(v)
<1>. DEFINE After(C) == {WaitsFor(v) : v \in C}
            Closed == {C \in SUBSET S : C # {} /\ After(C) \subseteq C}
<1>1. S \in Closed
  OBVIOUS
<1>2. Closed \subseteq FiniteSubsetsOf(S)
  BY FS_Subset DEF FiniteSubsetsOf
<1>3. PICK C \in Closed : \A D \in Closed : <<D, C>> \notin StrictSubsetOrdering(S)
  <2>. HIDE DEF Closed
  <2>. QED BY <1>1, <1>2, WFMin, FS_StrictSubsetOrderingWellFounded
<1>4. C \in SUBSET S /\ C # {} /\ After(C) \subseteq C
  BY <1>3
<1>5. After(C) \in Closed
  BY <1>4
<1>6. After(C) = C
  <2>. HIDE DEF After, Closed
  <2>. QED BY <1>3, <1>4, <1>5 DEF StrictSubsetOrdering
<1>7. PICK v \in C : TRUE
  BY <1>4
<1>8. InCycle(v)
  <2>1. C \in SUBSET Workers
    BY <1>4
  <2>. QED BY <1>6, <1>7, <2>1 DEF InCycle
<1>. QED BY <1>4, <1>7, <1>8

\* The row that a transaction needs next
LEMMA NextIsToLock ==
  ASSUME DInv, NEW w \in Workers, OrdersToLock(w) # {}
  PROVE  NextOrder(w) \in OrdersToLock(w) /\ NextOrder(w) \in Orders
<1>. DEFINE S == OrdersToLock(w)
            Keys == {Key[o] : o \in S}
<1>1. S \in SUBSET Orders
  BY DEF OrdersToLock, Moved, DInv, TypeOK, TxOK, TxStates
<1>. HIDE DEF S
<1>2. Keys \in SUBSET Nat /\ Keys # {}
  BY <1>1, RankAssumption DEF S
<1>3. PICK n \in Keys : \A m \in Keys : n <= m
  <2>. HIDE DEF Keys
  <2>. QED BY <1>2, Least
<1>4. \E o \in S : \A q \in S : Key[o] <= Key[q]
  BY <1>3
<1>5. (CHOOSE o \in S : \A q \in S : Key[o] <= Key[q]) \in S
  BY <1>4
<1>. QED BY <1>1, <1>5 DEF NextOrder, S

\* Whoever is waited for is at work, and is another.
LEMMA WaitsForOther ==
  ASSUME DInv, \A v \in Workers : Held(v), NEW w \in Workers, WaitsFor(w) # NoWorker
  PROVE  WaitsFor(w) \in Workers /\ Open(WaitsFor(w)) /\ WaitsFor(w) # w
<1>1. /\ orderLock \in [Orders -> Workers \union {NoWorker}]
      /\ groupLock \in [Groups -> Workers \union {NoWorker}]
      /\ tx[w].target \in Groups \union {NoGroup}
      /\ tx[w].step = "mark" => tx[w].order \in Orders
  BY DEF DInv, TypeOK, TxOK, TxStates, Running
<1>2. CASE tx[w].step = "mark" /\ Marks(w)
  <2>1. WaitsFor(w) = orderLock[tx[w].order]
    BY <1>2 DEF WaitsFor
  <2>. QED BY <1>1, <1>2, <2>1 DEF Held, Open
<1>3. CASE ~(tx[w].step = "mark" /\ Marks(w)) /\ GroupToLock(w)
  <2>1. WaitsFor(w) = groupLock[tx[w].target]
    BY <1>3 DEF WaitsFor
  <2>2. tx[w].target \in Groups /\ groupLock[tx[w].target] # w
    BY <1>1, <1>3 DEF GroupToLock
  <2>. QED BY <1>1, <2>1, <2>2 DEF Held, Open
<1>4. CASE ~(tx[w].step = "mark" /\ Marks(w)) /\ ~GroupToLock(w)
  <2>1. OrdersToLock(w) # {} /\ WaitsFor(w) = orderLock[NextOrder(w)]
    BY <1>4 DEF WaitsFor
  <2>2. NextOrder(w) \in Orders /\ orderLock[NextOrder(w)] # w
    BY <2>1, NextIsToLock DEF OrdersToLock
  <2>. QED BY <1>1, <2>1, <2>2 DEF Held, Open
<1>. QED BY <1>2, <1>3, <1>4

\* Any finite number of workers, orders and texts: there is always somebody whose next step
\* no lock holds up or whom the deadlock that it is in fails, behind every transaction that
\* waits; and none deadlocks with itself, though it locks one row at a time.
THEOREM WaitersGetOn == ASSUME IsFiniteSet(Workers) PROVE Spec => []NobodyWaitsInVain
<1>1. DInv /\ HeldInv => NobodyWaitsInVain
  <2> SUFFICES ASSUME DInv, \A v \in Workers : Held(v), NEW w \in Workers, Open(w)
               PROVE  WaitsFor(w) # w /\ ChainEnds(w)
    BY DEF NobodyWaitsInVain, HeldInv
  <2>1. WaitsFor(w) # w
    BY WaitsForOther, NameAssumption
  <2>2. ASSUME NEW S \in SUBSET Workers, w \in S,
               \A v \in S : WaitsFor(v) # NoWorker => WaitsFor(v) \in S
        PROVE  \E v \in S : Open(v) /\ (WaitsFor(v) = NoWorker \/ InCycle(v))
    <3>. DEFINE Busy == {v \in S : Open(v)}
    <3>1. CASE \E v \in Busy : WaitsFor(v) = NoWorker
      BY <3>1
    <3>2. CASE \A v \in Busy : WaitsFor(v) # NoWorker
      <4>1. \A v \in Busy : WaitsFor(v) \in Busy
        BY <2>2, <3>2, WaitsForOther
      <4>2. IsFiniteSet(Busy)
        BY FS_Subset
      <4>3. Busy \in SUBSET Workers /\ Busy # {}
        BY <2>2
      <4>4. \E v \in Busy : InCycle(v)
        <5>. HIDE DEF Busy
        <5>. QED BY <4>1, <4>2, <4>3, SomeInCycle
      <4>. QED BY <4>4
    <3>. QED BY <3>1, <3>2
  <2>. QED BY <2>1, <2>2 DEF ChainEnds
<1>. QED BY <1>1, HeldInductive, PTL

\* Any workers, orders and texts: no fingerprint, membership or group is overwritten but
\* under the lock of its row, although what is written was read before it was locked.
THEOREM RowsAreLocked == Spec => WritesUnderLock
<1>. DEFINE Locked ==
       /\ \A o \in Orders : print'[o] # print[o] \/ group'[o] # group[o] =>
            \E w \in Workers : Commit(w) /\ orderLock[o] = w
       /\ \A g \in Groups : groupRow'[g] # groupRow[g] =>
            \E w \in Workers : /\ Commit(w) /\ tx[w].target = g
                               /\ groupLock[g] = w \/ tx[w].new
<1>1. DInv /\ HeldInv /\ [Next]_vars => Locked
  <2> SUFFICES ASSUME DInv, \A v \in Workers : Held(v), [Next]_vars PROVE Locked
    BY DEF HeldInv
  <2>1. CASE UNCHANGED rowVars
    BY <2>1 DEF rowVars
  <2>2. ASSUME NEW w \in Workers, Commit(w) PROVE Locked
    <3>1. /\ tx[w].step = "write" /\ ~GroupToLock(w) /\ \A q \in Moved(w) : orderLock[q] = w
      BY <2>2 DEF Commit, OrdersToLock
    <3>2. /\ print' = IF Marks(w) THEN [print EXCEPT ![tx[w].order] = tx[w].text.norm] ELSE print
          /\ group' = [q \in Orders |-> IF q \in Moved(w) THEN tx[w].target ELSE group[q]]
          /\ groupRow' = IF tx[w].target = NoGroup THEN groupRow
                         ELSE [groupRow EXCEPT ![tx[w].target] =
                            IF tx[w].new THEN Result(w) ELSE Written(@, tx[w].base, Result(w))]
      BY <2>2 DEF Commit
    <3>3. Marks(w) => orderLock[tx[w].order] = w
      BY <3>1 DEF Held
    <3>4. ASSUME NEW o \in Orders, print'[o] # print[o] \/ group'[o] # group[o]
          PROVE  orderLock[o] = w
      BY <3>1, <3>2, <3>3, <3>4 DEF DInv, TypeOK
    <3>5. ASSUME NEW g \in Groups, groupRow'[g] # groupRow[g]
          PROVE  tx[w].target = g /\ (groupLock[g] = w \/ tx[w].new)
      <4>1. tx[w].target = g
        BY <3>2, <3>5 DEF DInv, TypeOK
      <4>2. tx[w].target # NoGroup /\ groupRow \in [Groups -> GroupRows]
        BY <4>1, NameAssumption DEF DInv, TypeOK
      <4>3. ASSUME ~tx[w].new, tx[w].base = Result(w) PROVE FALSE
        <5>1. groupRow'[g] = Written(groupRow[g], tx[w].base, Result(w))
          BY <3>2, <4>1, <4>2, <4>3
        <5>2. groupRow[g] \in GroupRows
          BY <4>2
        <5>3. Written(groupRow[g], tx[w].base, Result(w)) = groupRow[g]
          BY <4>3, <5>2 DEF Written, GroupRows
        <5>. QED BY <3>5, <5>1, <5>3
      <4>. QED BY <3>1, <4>1, <4>2, <4>3 DEF GroupToLock
    <3>. QED BY <2>2, <3>4, <3>5
  <2>3. ASSUME NEW w \in Workers, Work(w) \/ Crash(w), ~Commit(w) PROVE UNCHANGED rowVars
    BY <2>3 DEF Work, Crash, Mark, Search, FindGroup, LockGroup, LockOrder, Publish, Victim
  <2>4. ASSUME NEW w \in Workers, Work(w) \/ Crash(w) PROVE Locked
    BY <2>1, <2>2, <2>3, <2>4
  <2>5. ASSUME NEW o \in Orders, Arrive(o) \/ Notify(o) \/ \E t \in Texts : Reclassify(o, t)
        PROVE  UNCHANGED rowVars
    BY <2>5 DEF Arrive, Notify, Reclassify
  <2>6. ASSUME Age \/ \E w \in Workers, o \in Orders : Start(w, o) PROVE UNCHANGED rowVars
    BY <2>6 DEF Age, Start
  <2>7. CASE UNCHANGED vars
    BY <2>1, <2>7 DEF vars, rowVars
  <2>. HIDE DEF Locked
  <2>. QED BY <2>1, <2>4, <2>5, <2>6, <2>7 DEF Next
<1>. QED BY <1>1, HeldInductive, PTL DEF Spec, WritesUnderLock

-----------------------------------------------------------------------------
(***************************************************************************)
(* Any workers, any number of orders of texts that stay                    *)
(***************************************************************************)

\* What the fingerprint is made of comes from the text.
SameFingerprint == \A t, u \in Texts : t.raw = u.raw => t.norm = u.norm

\* Messages may be processed again, but say what they said.
Unedited == text = FirstText

Norm(o) == text[o].norm
Leader(o) == groupRow[group[o]].canonical

\* The canonical order of a group has the text of each order in it.
OneTextPerGroup ==
  \A o \in Orders : group[o] # NoGroup => Leader(o) \in known /\ Norm(Leader(o)) = Norm(o)

\* The text of a group is that of its canonical order.
OfText(g, n) ==
  g \in Real /\ groupRow[g].canonical \in known /\ Norm(groupRow[g].canonical) = n

\* What a transaction has found and loaded is of its text, and so is what it writes to.
StaysWithText(t) ==
  /\ t.step # "idle" => t.text = text[t.order]
  /\ \A q \in Orders : t.loaded[q] # NoGroup => OfText(t.loaded[q], Norm(q))
  /\ t.step \in {"group", "write", "publish"} => \A q \in t.cands : Norm(q) = t.text.norm
  /\ t.step = "write" /\ t.target # NoGroup =>
       IF t.new THEN t.target \notin Real ELSE OfText(t.target, t.text.norm)
  /\ t.step \in {"mark", "search", "group"} => ~t.new

\* Two transactions do not make the same group.
Makes(w, g) == tx[w].step = "write" /\ tx[w].new /\ tx[w].target = g
NoneMakesAnothers == \A v, w \in Workers, g \in Groups : Makes(v, g) /\ Makes(w, g) => v = w

TextInv ==
  /\ text = FirstText
  /\ \A o \in Orders : print[o] \in {NoPrint, Norm(o)}
  /\ \A o \in Orders : group[o] # NoGroup => OfText(group[o], Norm(o))
  /\ \A w \in Workers : StaysWithText(tx[w])
  /\ NoneMakesAnothers

-----------------------------------------------------------------------------

\* A step of one transaction, or of none, that writes no row
LEMMA TextKept ==
  ASSUME DInv, TextInv, UNCHANGED <<text, print, group, groupRow>>, known \subseteq known',
         NEW w, \A v \in Workers \ {w} : tx'[v] = tx[v],
         w \in Workers => StaysWithText(tx[w])' /\ \A g \in Groups : Makes(w, g)' => Makes(w, g)
  PROVE  TextInv'
<1>1. Real' = Real /\ \A o : Norm(o)' = Norm(o)
  BY DEF Real, Norm
<1>2. ASSUME NEW g, NEW n, OfText(g, n) PROVE OfText(g, n)'
  BY <1>1, <1>2 DEF OfText, Norm
<1>3. ASSUME NEW v \in Workers \ {w} PROVE StaysWithText(tx[v])'
  <2>1. StaysWithText(tx[v]) /\ tx'[v] = tx[v]
    BY DEF TextInv
  <2>. QED BY <1>1, <1>2, <2>1 DEF StaysWithText
<1>4. \A v \in Workers, g \in Groups : Makes(v, g)' => Makes(v, g)
  BY DEF Makes
<1>5. NoneMakesAnothers'
  BY <1>4 DEF TextInv, NoneMakesAnothers
<1>6. \A o \in Orders : group[o] # NoGroup => OfText(group[o], Norm(o))'
  <2> SUFFICES ASSUME NEW o \in Orders, group[o] # NoGroup PROVE OfText(group[o], Norm(o))'
    OBVIOUS
  <2>1. OfText(group[o], Norm(o))
    BY DEF TextInv
  <2>. QED BY <1>1, <1>2, <2>1
<1>. QED BY <1>1, <1>3, <1>5, <1>6 DEF TextInv

\* Arrivals, notifications, age, locks, and messages processed again
LEMMA TextWorld ==
  ASSUME DInv, TextInv, Unedited',
         \/ \E o \in Orders : Arrive(o) \/ Notify(o)
         \/ \E o \in Orders, t \in Texts : Reclassify(o, t)
         \/ Age \/ UNCHANGED vars
         \/ \E w \in Workers : LockGroup(w) \/ LockOrder(w)
  PROVE  TextInv'
<1>1. UNCHANGED <<print, group, groupRow, tx>> /\ known \subseteq known'
  BY DEF Arrive, Notify, Reclassify, Age, LockGroup, LockOrder, vars, rowVars, envVars
<1>2. text' = text
  BY DEF TextInv, Unedited
<1>3. \E w : w \notin Workers
  BY NameAssumption
<1>. QED BY <1>1, <1>2, <1>3, TextKept

\* A detection up to what it writes
LEMMA TextWorks ==
  ASSUME SameFingerprint, DInv, TextInv, NEW w \in Workers,
         \/ \E o \in Orders : Start(w, o)
         \/ Mark(w) \/ Search(w)
         \/ Victim(w) \/ Crash(w) \/ Publish(w)
  PROVE  TextInv'
<1>1. ASSUME UNCHANGED <<text, print, group, groupRow, known>>, tx'[w].step # "write" \/ ~tx'[w].new,
             \A v \in Workers \ {w} : tx'[v] = tx[v], StaysWithText(tx[w])'
      PROVE  TextInv'
  BY <1>1, TextKept DEF Makes
<1>. DEFINE Same(x, y) == x.order = y.order /\ x.text = y.text /\ x.loaded = y.loaded
<1>2. UNCHANGED <<text, print, group, groupRow, known>> /\ Real' = Real /\ \A o : Norm(o)' = Norm(o)
  BY DEF Start, Mark, Search, Victim, Crash, Publish, envVars, rowVars, Real, Norm
<1>3. \A g, n : OfText(g, n)' <=> OfText(g, n)
  BY <1>2 DEF OfText, Norm
<1>4. ASSUME NEW o \in Orders, Start(w, o) PROVE TextInv'
  <2>1. Starts(w, o)
    BY <1>4, StartDoes
  <2>2. /\ tx'[w].step = "mark" /\ tx'[w].order = o /\ tx'[w].text = text[o] /\ ~tx'[w].new
        /\ \A q \in Orders : tx'[w].loaded[q] = IF q = o THEN group[o] ELSE NoGroup
    BY <2>1 DEF Starts
  <2>3. StaysWithText(tx[w])'
    BY <1>2, <1>3, <2>2 DEF StaysWithText, TextInv
  <2>. QED BY <1>1, <1>2, <2>1, <2>2, <2>3 DEF Starts, OthersWait
<1>5. CASE Mark(w)
  <2>1. /\ tx[w].step = "mark" /\ tx'[w].step = "search" /\ Same(tx'[w], tx[w])
        /\ tx'[w].new = tx[w].new /\ \A v \in Workers \ {w} : tx'[v] = tx[v]
    BY <1>5 DEF Mark, DInv, TypeOK, TxStates
  <2>2. StaysWithText(tx[w])'
    BY <1>2, <1>3, <2>1 DEF StaysWithText, TextInv
  <2>. QED BY <1>1, <1>2, <2>1, <2>2
<1>6. CASE Search(w)
  <2>. DEFINE t == tx[w]
              found == Candidates(w)
  <2>1. Finds(w) /\ t \in TxStates /\ StaysWithText(t) /\ t.target = NoGroup /\ t.text \in Texts
    BY <1>6, SearchDoes DEF Finds, DInv, TypeOK, TextInv, TxOK, Loads, Running
  <2>2. t.step = "search" /\ t.order \in known /\ found \subseteq known /\ known \subseteq Orders
    BY <2>1 DEF Finds, DInv, TypeOK, TxOK, Running, Candidates
  <2>3. /\ tx'[w].step \in {"write", "group"} /\ tx'[w].cands = found /\ tx'[w].order = t.order
        /\ tx'[w].target = NoGroup /\ tx'[w].text = t.text /\ ~tx'[w].new
        /\ \A q \in Orders : tx'[w].loaded[q] \in {group[q], t.loaded[q]}
    BY <2>1, <2>2 DEF Finds, TxStates, StaysWithText
  <2>4. ASSUME NEW q \in found PROVE Norm(q) = t.text.norm
    <3>1. q \in Orders /\ text[q] \in Texts /\ print[q] \in {NoPrint, Norm(q)}
      BY <2>2 DEF DInv, TypeOK, TextInv
    <3>2. q = t.order \/ print[q] = t.text.norm \/ text[q].raw = t.text.raw
      BY DEF Candidates
    <3>3. t.text.norm # NoPrint /\ t.text = text[t.order]
      BY <2>1, <2>2, TextAssumption DEF StaysWithText
    <3>4. CASE text[q].raw = t.text.raw
      BY <2>1, <3>1, <3>4 DEF SameFingerprint, Norm
    <3>. QED BY <3>1, <3>2, <3>3, <3>4 DEF Norm
  <2>. HIDE DEF found
  <2>5. StaysWithText(tx[w])'
    <3>1. ASSUME NEW q \in Orders, tx'[w].loaded[q] # NoGroup
          PROVE  OfText(tx'[w].loaded[q], Norm(q))
      BY <2>1, <2>3, <3>1 DEF StaysWithText, TextInv
    <3>. QED BY <1>2, <1>3, <2>1, <2>2, <2>3, <2>4, <3>1 DEF StaysWithText
  <2>. QED BY <1>1, <1>2, <2>1, <2>3, <2>5 DEF Finds, OthersWait
<1>7. CASE Victim(w) \/ Crash(w) \/ Publish(w)
  <2>1. tx'[w] = IdleTx /\ \A v \in Workers \ {w} : tx'[v] = tx[v]
    BY <1>7, Ending
  <2>2. StaysWithText(tx[w])'
    BY <2>1 DEF StaysWithText, IdleTx
  <2>. QED BY <1>1, <1>2, <2>1, <2>2 DEF IdleTx
<1>. QED BY <1>4, <1>5, <1>6, <1>7

\* A transaction joins a group of its text, or is the only one to make the one it founds.
LEMMA TextFindsGroup ==
  ASSUME SameFingerprint, DInv, TextInv, NEW w \in Workers, FindGroup(w)
  PROVE  TextInv'
<1>. DEFINE t == tx[w]
<1>1. (\E q \in t.cands : Joins(w, q)) \/ \E g \in Groups : Founds(w, g)
  BY FindGroupDoes
<1>2. /\ UNCHANGED <<text, print, group, groupRow, known>> /\ Real' = Real
      /\ \A o : Norm(o)' = Norm(o)
  BY DEF FindGroup, envVars, rowVars, Real, Norm
<1>3. \A g, n : OfText(g, n)' <=> OfText(g, n)
  BY <1>2 DEF OfText, Norm
<1>4. t \in TxStates /\ t.step = "group" /\ StaysWithText(t) /\ t.cands \subseteq Orders /\ ~t.new
  BY DEF FindGroup, DInv, TypeOK, TxStates, TextInv, StaysWithText
<1>5. ASSUME NEW q \in t.cands, Joins(w, q) PROVE TextInv'
  <2>1. /\ \A v \in Workers \ {w} : tx'[v] = tx[v]
        /\ tx'[w].step = "write" /\ tx'[w].cands = t.cands /\ tx'[w].loaded = t.loaded
        /\ tx'[w].order = t.order /\ tx'[w].text = t.text
        /\ tx'[w].target = t.loaded[q] /\ ~tx'[w].new /\ t.loaded[q] # NoGroup
    BY <1>4, <1>5 DEF Joins, OthersWait, TxStates
  <2>2. OfText(t.loaded[q], Norm(q)) /\ Norm(q) = t.text.norm
    BY <1>4, <2>1 DEF StaysWithText
  <2>3. StaysWithText(tx[w])'
    BY <1>2, <1>3, <1>4, <2>1, <2>2 DEF StaysWithText
  <2>. QED BY <1>2, <2>1, <2>3, TextKept DEF Makes
<1>6. ASSUME NEW g \in Groups, Founds(w, g) PROVE TextInv'
  <2>1. /\ \A v \in Workers \ {w} : tx'[v] = tx[v]
        /\ tx'[w].step = "write" /\ tx'[w].cands = t.cands /\ tx'[w].loaded = t.loaded
        /\ tx'[w].order = t.order /\ tx'[w].text = t.text
        /\ tx'[w].target = g /\ tx'[w].new
    BY <1>4, <1>6 DEF Founds, OthersWait, TxStates
  <2>2. g \notin Real /\ \A v \in Workers : tx[v].target # g
    BY <1>6 DEF Founds, Real
  <2>3. StaysWithText(tx[w])'
    BY <1>2, <1>3, <1>4, <2>1, <2>2 DEF StaysWithText
  <2>4. \A v \in Workers \ {w} : StaysWithText(tx[v])'
    BY <1>2, <1>3, <2>1 DEF StaysWithText, TextInv
  <2>5. ASSUME NEW u \in Workers, NEW v \in Workers, NEW h \in Groups, Makes(u, h)', Makes(v, h)'
        PROVE  u = v
    <3>1. CASE u = w \/ v = w
      BY <2>1, <2>2, <2>5, <3>1 DEF Makes
    <3>2. CASE u # w /\ v # w
      BY <2>1, <2>5, <3>2 DEF Makes, TextInv, NoneMakesAnothers
    <3>. QED BY <3>1, <3>2
  <2>6. \A o \in Orders : group[o] # NoGroup => OfText(group[o], Norm(o))'
    BY <1>2, <1>3 DEF TextInv
  <2>. QED BY <1>2, <2>3, <2>4, <2>5, <2>6 DEF TextInv, NoneMakesAnothers
<1>. QED BY <1>1, <1>5, <1>6

\* A commit removes no group, and makes the one it writes.
LEMMA CommitReal ==
  ASSUME DInv, NEW w \in Workers, Commit(w)
  PROVE  Real \subseteq Real' /\ (tx[w].target # NoGroup => tx[w].target \in Real')
<1>. DEFINE t == tx[w]
            row == groupRow'[t.target]
<1>1. t.step = "write" /\ t.target \in Groups \union {NoGroup}
  BY DEF Commit, DInv, TypeOK, TxStates
<1>2. Result(w).canonical \in Orders
  BY <1>1, ResultOK
<1>3. groupRow' = IF t.target = NoGroup THEN groupRow
                  ELSE [groupRow EXCEPT ![t.target] =
                          IF t.new THEN Result(w) ELSE Written(@, t.base, Result(w))]
  BY DEF Commit
<1>4. ASSUME t.target # NoGroup PROVE row.canonical \in Orders
  <2>1. t.target \in Groups /\ groupRow \in [Groups -> GroupRows]
    BY <1>1, <1>4 DEF DInv, TypeOK
  <2>2. ~t.new => groupRow[t.target].canonical \in Orders
    BY <1>1, <1>4 DEF DInv, TxOK, Loads
  <2>3. ~t.new => Written(groupRow[t.target], t.base, Result(w)).canonical \in Orders
    BY <1>2, <2>2 DEF Written
  <2>. QED BY <1>2, <1>3, <1>4, <2>1, <2>3
<1>5. t.target # NoGroup => row # NoRow
  BY <1>4, NameAssumption DEF NoRow
<1>6. \A g \in Groups : g # t.target \/ t.target = NoGroup => groupRow'[g] = groupRow[g]
  BY <1>1, <1>3 DEF DInv, TypeOK
<1>. QED BY <1>1, <1>5, <1>6, NameAssumption DEF Real

\* A commit writes one group, of which the text stays.
LEMMA TextCommits ==
  ASSUME SameFingerprint, DInv, TextInv, NEW w \in Workers, Commit(w)
  PROVE  TextInv'
<1>. DEFINE t == tx[w]
            lead == Canonical(t.cands)
<1>1. /\ t \in TxStates /\ t.step = "write" /\ t.order \in known /\ t.order \in t.cands
      /\ t.cands \subseteq known /\ known \subseteq Orders /\ t.text = text[t.order]
      /\ t.target \in Groups \union {NoGroup} /\ StaysWithText(t)
  BY DEF Commit, DInv, TypeOK, TxOK, TxStates, Running, Searched, TextInv, StaysWithText
<1>2. PICK n, h : n = t.text.norm /\ h = t.target
  OBVIOUS
<1>3. lead \in t.cands /\ \A q \in t.cands : Norm(q) = n
  <2>1. t.cands \in SUBSET Orders /\ t.cands # {}
    BY <1>1
  <2>. QED BY <1>2, <1>1, <2>1, CanonicalIsOne DEF StaysWithText
<1>. HIDE DEF lead
<1>4. UNCHANGED <<text, known>> /\ \A o : Norm(o)' = Norm(o)
  BY DEF Commit, envVars, Norm
<1>5. /\ tx'[w].step = "publish" /\ tx'[w].order = t.order /\ tx'[w].text = t.text
      /\ tx'[w].cands = t.cands /\ tx'[w].loaded = t.loaded
      /\ \A v \in Workers \ {w} : tx'[v] = tx[v]
  BY <1>1 DEF Commit, DInv, TypeOK, TxStates
\* The group that is written
<1>6. ASSUME t.target # NoGroup
      PROVE  /\ groupRow'[t.target].canonical \in {lead, groupRow[t.target].canonical}
             /\ t.target \notin Real => groupRow'[t.target].canonical = lead
             /\ \A g \in Groups \ {t.target} : groupRow'[g] = groupRow[g]
  <2>1. groupRow' = [groupRow EXCEPT ![t.target] =
                       IF t.new THEN Result(w) ELSE Written(@, t.base, Result(w))]
    BY <1>6 DEF Commit
  <2>2. groupRow \in [Groups -> GroupRows] /\ t.target \in Groups
    BY <1>1, <1>6 DEF DInv, TypeOK
  <2>3. Result(w).canonical = lead
    BY DEF Result, lead
  <2>4. Written(groupRow[t.target], t.base, Result(w)).canonical
          \in {lead, groupRow[t.target].canonical}
    BY <2>3 DEF Written
  <2>5. t.target \notin Real => t.new
    BY <1>1, <1>6 DEF StaysWithText, OfText
  <2>. QED BY <2>1, <2>2, <2>3, <2>4, <2>5
<1>7. t.target = NoGroup => groupRow' = groupRow
  BY DEF Commit
<1>8. ASSUME NEW g, NEW m, OfText(g, m) PROVE OfText(g, m)'
  <2>1. g \in Real' /\ g \in Groups
    BY <1>8, CommitReal DEF OfText, Real
  <2>2. CASE g = t.target /\ t.target # NoGroup
    <3>1. OfText(g, n)
      BY <1>2, <1>1, <1>8, <2>2 DEF StaysWithText, OfText
    <3>2. m = n
      BY <1>8, <3>1 DEF OfText
    <3>. QED BY <1>1, <1>3, <1>4, <1>6, <1>8, <2>1, <2>2, <3>2 DEF OfText
  <2>3. CASE ~(g = t.target /\ t.target # NoGroup)
    <3>1. groupRow'[g] = groupRow[g]
      BY <1>6, <1>7, <2>1, <2>3
    <3>. QED BY <1>4, <1>8, <2>1, <3>1 DEF OfText
  <2>. QED BY <2>2, <2>3
<1>9. h # NoGroup => OfText(h, n)'
  <2>1. CASE h # NoGroup /\ t.new
    <3>1. h \notin Real /\ h \in Real'
      BY <1>2, <1>1, <2>1, CommitReal DEF StaysWithText
    <3>2. groupRow'[h].canonical = lead
      BY <1>2, <1>6, <2>1, <3>1
    <3>. QED BY <1>1, <1>3, <1>4, <3>1, <3>2 DEF OfText
  <2>2. CASE h # NoGroup /\ ~t.new
    BY <1>2, <1>1, <1>8, <2>2 DEF StaysWithText
  <2>. QED BY <2>1, <2>2
<1>10. \A o \in Orders : print'[o] \in {NoPrint, Norm(o)}
  BY <1>1 DEF Commit, TextInv, Norm, DInv, TypeOK
<1>11. ASSUME NEW o \in Orders, NEW g, NEW m, g = group'[o], m = Norm(o), g # NoGroup
       PROVE  OfText(g, m)'
  <2>1. group' = [q \in Orders |-> IF q \in Moved(w) THEN t.target ELSE group[q]]
    BY DEF Commit
  <2>2. CASE o \in Moved(w)
    <3>1. g = h /\ m = n
      BY <1>2, <1>3, <1>11, <2>1, <2>2 DEF Moved
    <3>. QED BY <1>9, <1>11, <3>1
  <2>3. CASE o \notin Moved(w)
    <3>1. OfText(g, m)
      BY <1>11, <2>1, <2>3 DEF TextInv
    <3>. QED BY <1>8, <3>1
  <2>. QED BY <2>2, <2>3
<1>12. \A o \in Orders : group'[o] # NoGroup => OfText(group[o], Norm(o))'
  <2> SUFFICES ASSUME NEW o \in Orders, NEW g, NEW m, g = group'[o], m = Norm(o), g # NoGroup
               PROVE  g \in Real' /\ groupRow'[g].canonical \in known'
                      /\ Norm(groupRow[g].canonical)' = m
    BY <1>4 DEF OfText
  <2>. QED BY <1>11 DEF OfText
<1>13. \A v \in Workers, g \in Groups : Makes(v, g)' => Makes(v, g) /\ v # w
  BY <1>5 DEF Makes
<1>14. NoneMakesAnothers'
  BY <1>13 DEF TextInv, NoneMakesAnothers
<1>15. StaysWithText(tx[w])'
  BY <1>1, <1>4, <1>5, <1>8 DEF StaysWithText
<1>16. ASSUME NEW v \in Workers \ {w} PROVE StaysWithText(tx[v])'
  <2>1. tx'[v] = tx[v] /\ StaysWithText(tx[v])
    BY <1>5 DEF TextInv
  <2>2. ASSUME tx[v].step = "write", tx[v].target # NoGroup, tx[v].new
        PROVE  tx[v].target \notin Real'
    <3>1. tx[v].target \notin Real /\ tx[v].target \in Groups
      BY <2>1, <2>2 DEF StaysWithText, DInv, TypeOK, TxStates
    <3>2. tx[v].target # t.target
      <4>1. CASE t.new
        BY <1>1, <2>2, <3>1, <4>1 DEF TextInv, NoneMakesAnothers, Makes
      <4>2. CASE ~t.new
        BY <1>1, <2>2, <3>1, <4>2 DEF StaysWithText, OfText
      <4>. QED BY <4>1, <4>2
    <3>3. groupRow'[tx[v].target] = groupRow[tx[v].target]
      BY <1>6, <1>7, <3>1, <3>2
    <3>. QED BY <3>1, <3>3 DEF Real
  <2>. QED BY <1>4, <1>8, <2>1, <2>2 DEF StaysWithText
<1>. QED BY <1>4, <1>10, <1>12, <1>14, <1>15, <1>16 DEF TextInv

\* TextInv holds at first and is kept.
LEMMA TextInductive ==
  ASSUME SameFingerprint
  PROVE  Spec /\ []Unedited => [](DInv /\ TextInv)
<1>1. Init => TextInv
  <2> SUFFICES ASSUME Init PROVE TextInv
    OBVIOUS
  <2>1. \A w \in Workers : tx[w] = IdleTx
    BY DEF Init
  <2>2. \A w \in Workers : StaysWithText(tx[w]) /\ tx[w].step = "idle"
    BY <2>1 DEF StaysWithText, IdleTx
  <2>. QED BY <2>2 DEF Init, TextInv, NoneMakesAnothers, Makes
<1>2. DInv /\ TextInv /\ Unedited' /\ [Next]_vars => TextInv'
  <2> SUFFICES ASSUME DInv, TextInv, Unedited', [Next]_vars PROVE TextInv'
    OBVIOUS
  <2>1. ASSUME NEW w \in Workers, Work(w) \/ Crash(w) PROVE TextInv'
    BY <2>1, TextWorks, TextFindsGroup, TextWorld, TextCommits DEF Work
  <2>. QED BY <2>1, TextWorld, TextWorks DEF Next
<1>. QED BY <1>1, <1>2, DetectionInductive, PTL DEF Spec

\* Any number of workers and orders, whatever overlaps, deadlocks or is lost: no order
\* ever stands for one of another text, though groups are looked up, founded and joined
\* with what may have changed since it was read.
THEOREM GroupsKeepTheirText ==
  ASSUME SameFingerprint
  PROVE  Spec /\ []Unedited => []OneTextPerGroup
<1>1. DInv /\ TextInv => OneTextPerGroup
  BY DEF TextInv, OneTextPerGroup, OfText, Leader
<1>. QED BY <1>1, TextInductive, PTL

-----------------------------------------------------------------------------
(***************************************************************************)
(* Two orders of one text, detected again and again                        *)
(***************************************************************************)

Pair == Cardinality(Orders) = 2 /\ \A t, u \in Texts : t.raw = u.raw

\* Of two detections under way at once, one is of an order that was not detected before.
RepeatsDoNotMeet ==
  \A v, w \in Workers :
    v # w /\ Open(v) /\ Open(w) => NoPrint \in {print[tx[v].order], print[tx[w].order]}

Decided(w) == tx[w].step \in {"group", "write"}

Apart == \A o \in Orders : group[o] = NoGroup
Whole == [canonical |-> Canonical(Orders), size |-> Cardinality(Orders)]
TogetherIn(g) ==
  known = Orders /\ groupRow[g] = Whole /\ \A o \in Orders : group[o] = g

\* What a transaction that has searched may have found: itself alone, both without a
\* group, or the group they are in.
Alone(w) ==
  /\ tx[w].step = "write" /\ tx[w].cands = {tx[w].order}
  /\ tx[w].target = NoGroup /\ tx[w].loaded[tx[w].order] = NoGroup
Blind(w) ==
  /\ Decided(w) /\ tx[w].cands = Orders
  /\ \A o \in Orders : tx[w].loaded[o] = NoGroup
  /\ tx[w].step = "write" => tx[w].new /\ tx[w].target \in Groups
Knows(w, g) ==
  /\ Decided(w) /\ tx[w].cands = Orders /\ TogetherIn(g)
  /\ \E o \in Orders : tx[w].loaded[o] = g
  /\ tx[w].step = "write" => ~tx[w].new /\ tx[w].target = g /\ tx[w].base = Whole

\* Somebody will find both.
Pending(o) ==
  \/ tasks[o] > 0
  \/ \E w \in Workers :
       Runs(w, o) /\ (tx[w].step \in {"mark", "search"} \/ (Decided(w) /\ tx[w].cands = Orders))

Calm == \A o \in Orders : Recent(o)

\* What it has loaded is true still, or it will write all of it; a fingerprint it has read
\* is there; and one that will put in another group what is in one is a repeat, as is any
\* that could come after it.
Fits(w) ==
  /\ Open(w) => /\ \A o \in Orders : tx[w].loaded[o] \in {NoGroup, group[o]}
                /\ tx[w].print # NoPrint => print[tx[w].order] # NoPrint
  /\ Decided(w) => Alone(w) \/ Blind(w) \/ \E g \in Groups : Knows(w, g)
  /\ Blind(w) /\ ~Apart => \A o \in Orders : print[o] # NoPrint

PairInv ==
  /\ Apart \/ \E g \in Groups : TogetherIn(g)
  /\ \A w \in Workers : Fits(w)
  /\ Apart /\ known = Orders => \E o \in Orders : Pending(o)

EndInv == Calm => PairInv

-----------------------------------------------------------------------------

\* There is one other order.
LEMMA TwoOrders ==
  ASSUME Pair, NEW o \in Orders
  PROVE  \E q \in Orders : q # o /\ Orders = {o, q}
<1>1. IsFiniteSet(Orders \ {o}) /\ Cardinality(Orders \ {o}) = 1
  <2>1. IsFiniteSet(Orders) /\ Cardinality(Orders) = 2
    BY RankAssumption DEF Pair
  <2>2. /\ IsFiniteSet(Orders \ {o})
        /\ Cardinality(Orders \ {o}) = IF o \in Orders THEN Cardinality(Orders) - 1
                                                       ELSE Cardinality(Orders)
    BY <2>1, FS_RemoveElement
  <2>. QED BY <2>1, <2>2
<1>2. PICK q : Orders \ {o} = {q}
  BY <1>1, FS_Singleton
<1>. QED BY <1>2

\* Nobody gets younger.
LEMMA CalmStep ==
  ASSUME DInv, [Next]_vars, Calm'
  PROVE  Calm
<1>. DEFINE Older == horizon' \in {horizon, horizon + 1}
<1>1. ASSUME NEW w \in Workers, Work(w) \/ Crash(w) PROVE Older
  BY <1>1 DEF Work, Mark, Search, FindGroup, LockGroup, LockOrder, Commit, Publish, Victim, Crash,
     envVars
<1>2. ASSUME NEW w \in Workers, NEW o \in Orders, Start(w, o) PROVE Older
  BY <1>2 DEF Start, envVars
<1>3. ASSUME NEW o \in Orders, Arrive(o) \/ Notify(o) PROVE Older
  BY <1>3 DEF Arrive, Notify, envVars
<1>4. ASSUME NEW o \in Orders, NEW t \in Texts, Reclassify(o, t) PROVE Older
  BY <1>4 DEF Reclassify
<1>5. ASSUME Age \/ UNCHANGED vars PROVE Older
  BY <1>5 DEF Age, vars
<1>6. Older
  BY <1>1, <1>2, <1>3, <1>4, <1>5 DEF Next
<1>7. horizon \in Nat /\ \A o \in Orders : Rank[o] \in Nat
  BY RankAssumption DEF DInv, TypeOK
<1>8. \A o \in Orders : Rank[o] > horizon'
  BY DEF Calm, Recent
<1>. QED BY <1>6, <1>7, <1>8 DEF Calm, Recent

\* A step of one transaction that writes nothing
LEMMA PairKept ==
  ASSUME PairInv, NEW w \in Workers,
         UNCHANGED <<known, group, groupRow, print, tasks>>,
         \A v \in Workers \ {w} : tx'[v] = tx[v],
         Fits(w)',
         known = Orders => \A o \in Orders : Pending(o) => Pending(o)'
  PROVE  PairInv'
<1>1. ASSUME NEW v \in Workers \ {w} PROVE Fits(v)'
  <2>1. Fits(v) /\ tx'[v] = tx[v]
    BY DEF PairInv
  <2>2. (Open(v)' <=> Open(v)) /\ (Decided(v)' <=> Decided(v)) /\ (Alone(v)' <=> Alone(v))
        /\ (Blind(v)' <=> Blind(v))
    BY <2>1 DEF Open, Decided, Alone, Blind
  <2>3. \A g \in Groups : Knows(v, g) => Knows(v, g)'
    BY <2>1, <2>2 DEF Knows, TogetherIn
  <2>. QED BY <2>1, <2>2, <2>3 DEF Fits, Apart
<1>2. (Apart' <=> Apart) /\ \A g : TogetherIn(g)' <=> TogetherIn(g)
  BY DEF Apart, TogetherIn
<1>. QED BY <1>1, <1>2 DEF PairInv

\* A step that concerns no transaction
LEMMA PairUntouched ==
  ASSUME PairInv, UNCHANGED <<known, group, groupRow, print, tx>>,
         \A o \in Orders : tasks[o] > 0 => tasks'[o] > 0
  PROVE  PairInv'
<1>1. (Apart' <=> Apart) /\ \A g : TogetherIn(g)' <=> TogetherIn(g)
  BY DEF Apart, TogetherIn
<1>2. ASSUME NEW v \in Workers PROVE Fits(v)'
  <2>1. Fits(v)
    BY DEF PairInv
  <2>2. (Open(v)' <=> Open(v)) /\ (Decided(v)' <=> Decided(v)) /\ (Alone(v)' <=> Alone(v))
        /\ (Blind(v)' <=> Blind(v))
    BY DEF Open, Decided, Alone, Blind
  <2>3. \A g \in Groups : Knows(v, g) => Knows(v, g)'
    BY <1>1, <2>2 DEF Knows
  <2>. QED BY <1>1, <2>1, <2>2, <2>3 DEF Fits
<1>3. \A o \in Orders : Pending(o) => Pending(o)'
  BY DEF Pending, Runs, Decided
<1>. QED BY <1>1, <1>2, <1>3 DEF PairInv

\* An order arrives with a detection that will find whatever was there.
LEMMA PairArrives ==
  ASSUME DInv, PairInv, NEW o \in Orders, Arrive(o)
  PROVE  PairInv'
<1>1. /\ UNCHANGED <<group, groupRow, print, tx>> /\ known # Orders
      /\ tasks' = [tasks EXCEPT ![o] = @ + 1]
  BY DEF Arrive, rowVars
<1>2. Apart /\ Apart'
  BY <1>1 DEF PairInv, TogetherIn, Apart
<1>3. ASSUME NEW w \in Workers PROVE Fits(w)'
  <2>1. Fits(w) /\ tx'[w] = tx[w] /\ \A g \in Groups : ~Knows(w, g)
    BY <1>1 DEF PairInv, Knows, TogetherIn
  <2>. QED BY <1>1, <1>2, <2>1 DEF Fits, Open, Decided, Alone, Blind
<1>4. Pending(o)'
  BY <1>1 DEF Pending, DInv, TypeOK
<1>. QED BY <1>2, <1>3, <1>4 DEF PairInv

\* Whoever starts will search, and reads the group its order is in.
LEMMA PairStarts ==
  ASSUME DInv, PairInv, NEW w \in Workers, NEW o \in Orders, Start(w, o)
  PROVE  PairInv'
<1>. Starts(w, o)
  BY StartDoes
<1>1. /\ UNCHANGED <<known, group, groupRow, print>> /\ tx[w].step = "idle"
      /\ \A v \in Workers \ {w} : tx'[v] = tx[v]
      /\ \A q \in Orders \ {o} : tasks'[q] = tasks[q]
      /\ tasks[o] > 0
  BY DEF Starts, OthersWait, envVars, rowVars, DInv, TypeOK
<1>2. /\ tx'[w].step = "mark" /\ tx'[w].order = o /\ tx'[w].print = print[o]
      /\ \A q \in Orders : tx'[w].loaded[q] \in {NoGroup, group[q]}
  BY DEF Starts
<1>3. (Apart' <=> Apart) /\ \A g : TogetherIn(g)' <=> TogetherIn(g)
  BY <1>1 DEF Apart, TogetherIn
<1>4. ASSUME NEW v \in Workers \ {w} PROVE Fits(v)'
  <2>1. Fits(v) /\ tx'[v] = tx[v]
    BY <1>1 DEF PairInv
  <2>2. (Open(v)' <=> Open(v)) /\ (Decided(v)' <=> Decided(v)) /\ (Alone(v)' <=> Alone(v))
        /\ (Blind(v)' <=> Blind(v))
    BY <2>1 DEF Open, Decided, Alone, Blind
  <2>3. \A g \in Groups : Knows(v, g) => Knows(v, g)'
    BY <1>3, <2>1, <2>2 DEF Knows
  <2>. QED BY <1>1, <1>3, <2>1, <2>2, <2>3 DEF Fits
<1>5. Fits(w)'
  BY <1>1, <1>2 DEF Fits, Open, Decided, Blind
<1>6. ASSUME NEW q \in Orders, Pending(q) PROVE Pending(q)'
  BY <1>1, <1>2, <1>6 DEF Pending, Runs, Decided
<1>. QED BY <1>1, <1>3, <1>4, <1>5, <1>6 DEF PairInv

\* Whoever waits, or is waited for in a deadlock, has found both or has yet to search.
LEMMA WaiterIsPending ==
  ASSUME DInv, PairInv, NEW w \in Workers, WaitsFor(w) # NoWorker
  PROVE  /\ tx[w].order \in Orders /\ tx[w].step \in {"mark", "write"}
         /\ tx[w].step = "write" => tx[w].cands = Orders
<1>1. tx[w].step \in {"mark", "write"}
  BY DEF WaitsFor, GroupToLock, OrdersToLock
<1>2. tx[w].order \in Orders
  BY <1>1 DEF DInv, TypeOK, TxOK, Running
<1>3. ASSUME tx[w].step = "write" PROVE ~Alone(w)
  <2>1. SUFFICES ASSUME Alone(w) PROVE FALSE
    OBVIOUS
  <2>2. Moved(w) = {} /\ tx[w].target = NoGroup
    BY <2>1 DEF Alone, Moved
  <2>. QED BY <1>3, <2>2 DEF WaitsFor, GroupToLock, OrdersToLock
<1>4. tx[w].step = "write" => tx[w].cands = Orders
  BY <1>3 DEF PairInv, Fits, Decided, Blind, Knows
<1>. QED BY <1>1, <1>2, <1>4

\* A deadlock fails one that waits for another, which will find both.
LEMMA PairFails ==
  ASSUME DInv, HeldInv, PairInv, NEW w \in Workers, Victim(w)
  PROVE  PairInv'
<1>1. tx'[w].step = "idle" /\ \A v \in Workers \ {w} : tx'[v] = tx[v]
  BY Ending DEF IdleTx
<1>2. UNCHANGED <<known, group, groupRow, print, tasks>>
  BY DEF Victim, envVars, rowVars
<1>3. PICK v \in Workers : v # w /\ WaitsFor(v) # NoWorker
  <2>1. PICK C \in SUBSET Workers : w \in C /\ {WaitsFor(u) : u \in C} = C
    BY DEF Victim, InCycle
  <2>2. \A u \in C : WaitsFor(u) \in C /\ WaitsFor(u) # NoWorker
    BY <2>1, NameAssumption
  <2>3. WaitsFor(w) # w
    BY <2>1, <2>2, WaitsForOther DEF HeldInv
  <2>. QED BY <2>1, <2>2, <2>3
<1>4. /\ tx[v].order \in Orders /\ tx[v].step \in {"mark", "write"}
      /\ tx[v].step = "write" => tx[v].cands = Orders
  BY <1>3, WaiterIsPending
<1>5. tx'[v] = tx[v]
  BY <1>1, <1>3
<1>6. PICK o \in Orders : o = tx[v].order
  BY <1>4
<1>7. Pending(o)'
  BY <1>4, <1>5, <1>6 DEF Pending, Runs, Decided
<1>8. (Apart' <=> Apart) /\ \A g : TogetherIn(g)' <=> TogetherIn(g)
  BY <1>2 DEF Apart, TogetherIn
<1>9. ASSUME NEW u \in Workers \ {w} PROVE Fits(u)'
  <2>1. Fits(u) /\ tx'[u] = tx[u]
    BY <1>1 DEF PairInv
  <2>2. (Open(u)' <=> Open(u)) /\ (Decided(u)' <=> Decided(u)) /\ (Alone(u)' <=> Alone(u))
        /\ (Blind(u)' <=> Blind(u))
    BY <2>1 DEF Open, Decided, Alone, Blind
  <2>3. \A g \in Groups : Knows(u, g) => Knows(u, g)'
    BY <1>8, <2>1, <2>2 DEF Knows
  <2>. QED BY <1>2, <1>8, <2>1, <2>2, <2>3 DEF Fits
<1>10. Fits(w)'
  BY <1>1 DEF Fits, Open, Decided, Blind
<1>. QED BY <1>2, <1>7, <1>8, <1>9, <1>10 DEF PairInv

\* The detection of a lost worker is queued again.
LEMMA PairCrashes ==
  ASSUME DInv, PairInv, NEW w \in Workers, Crash(w)
  PROVE  PairInv'
<1>1. PICK o \in Orders : o = tx[w].order
  BY Ending
<1>2. /\ UNCHANGED <<known, group, groupRow, print>> /\ tx'[w].step = "idle"
      /\ \A v \in Workers \ {w} : tx'[v] = tx[v]
      /\ \A q \in Orders \ {o} : tasks'[q] = tasks[q]
      /\ tasks'[o] > 0
  <2>1. tx'[w] = IdleTx /\ \A v \in Workers \ {w} : tx'[v] = tx[v]
    BY Ending
  <2>2. tasks' = [tasks EXCEPT ![o] = @ + 1] /\ UNCHANGED <<known, group, groupRow, print>>
    BY <1>1 DEF Crash, envVars, rowVars
  <2>. QED BY <2>1, <2>2 DEF IdleTx, DInv, TypeOK
<1>3. (Apart' <=> Apart) /\ \A g : TogetherIn(g)' <=> TogetherIn(g)
  BY <1>2 DEF Apart, TogetherIn
<1>4. ASSUME NEW v \in Workers \ {w} PROVE Fits(v)'
  <2>1. Fits(v) /\ tx'[v] = tx[v]
    BY <1>2 DEF PairInv
  <2>2. (Open(v)' <=> Open(v)) /\ (Decided(v)' <=> Decided(v)) /\ (Alone(v)' <=> Alone(v))
        /\ (Blind(v)' <=> Blind(v))
    BY <2>1 DEF Open, Decided, Alone, Blind
  <2>3. \A g \in Groups : Knows(v, g) => Knows(v, g)'
    BY <1>3, <2>1, <2>2 DEF Knows
  <2>. QED BY <1>2, <1>3, <2>1, <2>2, <2>3 DEF Fits
<1>5. Fits(w)'
  BY <1>2 DEF Fits, Open, Decided, Blind
<1>6. ASSUME NEW q \in Orders, Pending(q) PROVE Pending(q)'
  BY <1>1, <1>2, <1>6 DEF Pending, Runs, Decided
<1>. QED BY <1>2, <1>3, <1>4, <1>5, <1>6 DEF PairInv

\* A detection that has committed says nothing about the groups.
LEMMA PairPublishes ==
  ASSUME DInv, PairInv, NEW w \in Workers, Publish(w)
  PROVE  PairInv'
<1>1. tx'[w].step = "idle" /\ \A v \in Workers \ {w} : tx'[v] = tx[v]
  BY Ending DEF IdleTx
<1>2. tx[w].step = "publish" /\ UNCHANGED <<known, group, groupRow, print, tasks>>
  BY DEF Publish, envVars, rowVars
<1>3. Fits(w)'
  BY <1>1 DEF Fits, Open, Decided, Blind
<1>4. \A o \in Orders : Pending(o) => Pending(o)'
  BY <1>1, <1>2 DEF Pending, Runs, Decided
<1>. QED BY <1>1, <1>2, <1>3, <1>4, PairKept

\* The mark leaves the search to come.
LEMMA PairMarks ==
  ASSUME DInv, PairInv, NEW w \in Workers, Mark(w)
  PROVE  PairInv'
<1>1. /\ \A v \in Workers \ {w} : tx'[v] = tx[v]
      /\ tx[w].step = "mark" /\ tx'[w].step = "search" /\ tx'[w].order = tx[w].order
      /\ tx'[w].loaded = tx[w].loaded /\ tx'[w].print = tx[w].print
      /\ UNCHANGED <<known, group, groupRow, print, tasks>>
  BY DEF Mark, envVars, rowVars, DInv, TypeOK, TxStates
<1>2. Fits(w)'
  <2>1. Fits(w)
    BY DEF PairInv
  <2>. QED BY <1>1, <2>1 DEF Fits, Open, Decided, Blind
<1>3. \A o \in Orders : Pending(o) => Pending(o)'
  BY <1>1 DEF Pending, Runs, Decided
<1>. QED BY <1>1, <1>2, <1>3, PairKept

\* The search finds every order that is there, and the groups they are in.
LEMMA PairSearches ==
  ASSUME Pair, DInv, PairInv, Calm, NEW w \in Workers, Search(w)
  PROVE  PairInv'
<1>. Finds(w)
  BY SearchDoes
<1>1. PICK o \in Orders : o = tx[w].order /\ o \in known /\ tx[w].text \in Texts
  BY DEF Finds, DInv, TypeOK, TxOK, Running
<1>2. Candidates(w) = known
  <2>1. ASSUME NEW q \in known PROVE Recent(q) /\ text[q].raw = tx[w].text.raw
    <3>1. q \in Orders /\ text[q] \in Texts
      BY DEF DInv, TypeOK
    <3>. QED BY <1>1, <3>1 DEF Calm, Pair
  <2>. QED BY <1>1, <2>1 DEF Candidates
<1>3. known = Orders \/ known = {o}
  <2>1. PICK q \in Orders : Orders = {o, q}
    BY TwoOrders
  <2>2. known \subseteq Orders
    BY DEF DInv, TypeOK
  <2>. QED BY <1>1, <2>1, <2>2
<1>4. Cardinality({o}) = 1 /\ Cardinality(Orders) = 2 /\ {o} # Orders
  <2>1. Cardinality({o}) = 1
    BY FS_Singleton
  <2>. QED BY <2>1 DEF Pair
<1>5. /\ \A v \in Workers \ {w} : tx'[v] = tx[v]
      /\ UNCHANGED <<known, group, groupRow, print, tasks>> /\ Open(w)
  BY DEF Finds, OthersWait, envVars, rowVars, Open
<1>6. /\ tx'[w].step = IF known = Orders THEN "group" ELSE "write"
      /\ tx'[w].cands = known /\ tx'[w].order = o /\ tx'[w].target = NoGroup
      /\ tx'[w].print = tx[w].print
      /\ tx'[w].loaded = [q \in Orders |-> IF q \in known \ {o} THEN group[q]
                                           ELSE tx[w].loaded[q]]
  <2>1. tx[w] \in TxStates /\ tx[w].target = NoGroup
    BY DEF Finds, DInv, TxOK, Loads
  <2>2. (Cardinality(Candidates(w)) <= 1) = (known # Orders)
    BY <1>2, <1>3, <1>4
  <2>3. /\ tx'[w].step = IF Cardinality(Candidates(w)) <= 1 THEN "write" ELSE "group"
        /\ tx'[w].cands = Candidates(w) /\ tx'[w].order = tx[w].order
        /\ tx'[w].target = tx[w].target /\ tx'[w].print = tx[w].print
        /\ tx'[w].loaded = [q \in Orders |-> IF q \in Candidates(w) \ {tx[w].order}
                                             THEN group[q] ELSE tx[w].loaded[q]]
    BY <2>1 DEF Finds, TxStates
  <2>. QED BY <1>1, <1>2, <2>1, <2>2, <2>3
<1>7. Fits(w)'
  <2>1. Fits(w)
    BY DEF PairInv
  <2>2. /\ \A q \in Orders : tx'[w].loaded[q] \in {NoGroup, group'[q]}
        /\ tx'[w].print # NoPrint => print'[tx'[w].order] # NoPrint
    BY <1>1, <1>5, <1>6, <2>1 DEF Fits
  <2>3. CASE known # Orders
    <3>1. Apart
      BY <2>3 DEF PairInv, TogetherIn
    <3>2. Alone(w)'
      BY <1>1, <1>3, <1>5, <1>6, <2>2, <2>3, <3>1 DEF Alone, Apart
    <3>3. ~Blind(w)'
      BY <1>5, <1>6, <2>3 DEF Blind
    <3>. QED BY <2>2, <3>2, <3>3 DEF Fits
  <2>4. CASE known = Orders /\ Apart
    <3>1. Apart' /\ \A q \in Orders : tx'[w].loaded[q] = NoGroup
      BY <1>5, <2>2, <2>4 DEF Apart
    <3>2. Blind(w)'
      BY <1>5, <1>6, <2>4, <3>1 DEF Blind, Decided
    <3>. QED BY <2>2, <3>1, <3>2 DEF Fits
  <2>5. CASE known = Orders /\ ~Apart
    <3>1. PICK g \in Groups : TogetherIn(g)
      BY <2>5 DEF PairInv
    <3>2. PICK q \in Orders : q # o
      BY TwoOrders
    <3>3. tx'[w].loaded[q] = g /\ g # NoGroup
      BY <1>6, <2>5, <3>1, <3>2, NameAssumption DEF TogetherIn
    <3>4. TogetherIn(g)'
      BY <1>5, <3>1 DEF TogetherIn
    <3>5. Knows(w, g)' /\ ~Blind(w)'
      BY <1>5, <1>6, <2>5, <3>3, <3>4 DEF Knows, Blind, Decided
    <3>. QED BY <2>2, <3>5 DEF Fits
  <2>. QED BY <2>3, <2>4, <2>5
<1>8. ASSUME NEW q \in Orders, Pending(q), known = Orders PROVE Pending(q)'
  BY <1>1, <1>5, <1>6, <1>8 DEF Pending, Runs, Decided
<1>. QED BY <1>5, <1>7, <1>8, PairKept

\* Whoever has found a group writes to that one, whoever has found none to a new one.
LEMMA PairFindsGroup ==
  ASSUME Pair, DInv, TextInv, PairInv, NEW w \in Workers, FindGroup(w)
  PROVE  PairInv'
<1>1. (\E q \in tx[w].cands : Joins(w, q)) \/ \E g \in Groups : Founds(w, g)
  BY FindGroupDoes
<1>2. /\ \A v \in Workers \ {w} : tx'[v] = tx[v]
      /\ UNCHANGED <<known, group, groupRow, print, tasks>>
      /\ tx[w].step = "group" /\ tx'[w].step = "write" /\ tx'[w].order = tx[w].order
      /\ tx'[w].print = tx[w].print
      /\ tx'[w].cands = tx[w].cands /\ tx'[w].loaded = tx[w].loaded
  <2>1. tx[w] \in TxStates
    BY DEF DInv, TxOK
  <2>2. ASSUME NEW q, Joins(w, q) PROVE <1>2!:
    BY <2>1, <2>2 DEF Joins, OthersWait, envVars, rowVars, TxStates
  <2>3. ASSUME NEW g, Founds(w, g) PROVE <1>2!:
    BY <2>1, <2>3 DEF Founds, OthersWait, envVars, rowVars, TxStates
  <2>. QED BY <1>1, <2>2, <2>3
<1>3. Fits(w) /\ ~tx[w].new
  BY <1>2 DEF PairInv, TextInv, StaysWithText
<1>4. (Apart' <=> Apart) /\ \A g : TogetherIn(g)' <=> TogetherIn(g)
  BY <1>2 DEF Apart, TogetherIn
<1>5. ASSUME Blind(w) PROVE Fits(w)'
  <2>1. PICK g \in Groups : Founds(w, g)
    BY <1>1, <1>5 DEF Blind, Joins
  <2>2. tx'[w].new /\ tx'[w].target = g
    <3>1. tx[w] \in TxStates
      BY DEF DInv, TxOK
    <3>. QED BY <2>1, <3>1 DEF Founds, TxStates
  <2>3. Blind(w)'
    BY <1>2, <1>5, <2>2 DEF Blind, Decided
  <2>. QED BY <1>2, <1>3, <1>4, <1>5, <2>3 DEF Fits, Open
<1>6. ASSUME NEW g \in Groups, Knows(w, g) PROVE Fits(w)'
  <2>1. PICK q \in Orders : Joins(w, q)
    <3>1. tx[w].cands = Orders
      BY <1>6 DEF Knows
    <3>2. PICK o \in Orders : tx[w].loaded[o] = g /\ g # NoGroup
      BY <1>6, NameAssumption DEF Knows
    <3>3. \A h : ~Founds(w, h)
      BY <3>1, <3>2 DEF Founds
    <3>. QED BY <1>1, <3>1, <3>3
  <2>2. /\ \A o \in Orders : tx[w].loaded[o] \in {NoGroup, g}
        /\ groupRow[g] = Whole
    BY <1>2, <1>3, <1>6 DEF Fits, Open, Knows, TogetherIn
  <2>3. tx'[w].new = tx[w].new /\ tx'[w].target = g /\ tx'[w].base = Whole
    <3>1. tx[w] \in TxStates
      BY DEF DInv, TxOK
    <3>2. tx[w].loaded[q] = g
      BY <2>1, <2>2 DEF Joins
    <3>. QED BY <2>1, <2>2, <3>1, <3>2 DEF Joins, TxStates
  <2>4. ~tx'[w].new
    BY <1>3, <2>3
  <2>5. Whole' = Whole
    BY DEF Whole
  <2>6. Knows(w, g)'
    BY <1>2, <1>4, <1>6, <2>3, <2>4, <2>5 DEF Knows, Decided
  <2>7. ~Blind(w)'
    BY <2>4, <1>2 DEF Blind
  <2>. QED BY <1>2, <1>3, <2>6, <2>7 DEF Fits, Open
<1>7. Fits(w)'
  BY <1>2, <1>3, <1>5, <1>6 DEF Fits, Decided, Alone
<1>8. \A o \in Orders : Pending(o) => Pending(o)'
  BY <1>2 DEF Pending, Runs, Decided
<1>. QED BY <1>2, <1>7, <1>8, PairKept

\* The commit puts both in one group, or leaves everything as it is.
LEMMA PairCommits ==
  ASSUME Pair, DInv, HeldInv, TextInv, PairInv, RepeatsDoNotMeet, NEW w \in Workers, Commit(w)
  PROVE  PairInv'
<1>. DEFINE t == tx[w]
<1>1. /\ \A v \in Workers \ {w} : tx'[v] = tx[v]
      /\ UNCHANGED <<known, tasks>>
      /\ t.step = "write" /\ tx'[w].step = "publish"
      /\ ~GroupToLock(w) /\ OrdersToLock(w) = {}
      /\ group' = [q \in Orders |-> IF q \in Moved(w) THEN t.target ELSE group[q]]
      /\ groupRow' = IF t.target = NoGroup THEN groupRow
                     ELSE [groupRow EXCEPT ![t.target] =
                             IF t.new THEN Result(w) ELSE Written(@, t.base, Result(w))]
  BY DEF Commit, envVars, DInv, TypeOK
<1>2. Fits(w)' /\ ~Open(w)' /\ Open(w) /\ Decided(w) /\ Fits(w)
  BY <1>1 DEF Fits, Open, Decided, Blind, PairInv
\* A fingerprint stays, and the order has one now.
<1>7. /\ \A o \in Orders : print[o] # NoPrint => print'[o] # NoPrint
      /\ t.order \in Orders /\ print'[t.order] # NoPrint
  <2>1. t.order \in Orders /\ t.text \in Texts /\ t.text = text[t.order]
    BY <1>1 DEF DInv, TypeOK, TxOK, Running, TextInv, StaysWithText
  <2>2. t.text.norm # NoPrint
    BY <2>1, TextAssumption
  <2>3. print' = IF Marks(w) THEN [print EXCEPT ![t.order] = t.text.norm] ELSE print
    BY DEF Commit
  <2>4. ~Marks(w) => print[t.order] # NoPrint
    BY <1>2, <2>2 DEF Marks, Fits
  <2>. QED BY <2>1, <2>2, <2>3, <2>4 DEF DInv, TypeOK
<1>3. ASSUME UNCHANGED <<group, groupRow>>, t.cands = Orders => ~Apart
      PROVE  PairInv'
  <2>1. ASSUME Apart, NEW o \in Orders, Pending(o) PROVE Pending(o)'
    BY <1>1, <1>3, <2>1 DEF Pending, Runs, Decided
  <2>2. \A v \in Workers \ {w} : Fits(v)'
    <3> SUFFICES ASSUME NEW v \in Workers \ {w} PROVE Fits(v)'
      OBVIOUS
    <3>1. Fits(v) /\ tx'[v] = tx[v]
      BY <1>1 DEF PairInv
    <3>2. Open(v) => tx[v].order \in Orders
      BY DEF Open, DInv, TypeOK, TxOK, Running
    <3>3. (Open(v)' <=> Open(v)) /\ (Decided(v)' <=> Decided(v)) /\ (Alone(v)' <=> Alone(v))
          /\ (Blind(v)' <=> Blind(v))
      BY <3>1 DEF Open, Decided, Alone, Blind
    <3>4. \A g \in Groups : Knows(v, g) => Knows(v, g)'
      BY <1>1, <1>3, <3>1, <3>3 DEF Knows, TogetherIn
    <3>. QED BY <1>1, <1>3, <1>7, <3>1, <3>2, <3>3, <3>4 DEF Fits, Apart
  <2>3. (Apart' <=> Apart) /\ \A g : TogetherIn(g)' <=> TogetherIn(g)
    BY <1>1, <1>3 DEF Apart, TogetherIn
  <2>. QED BY <1>1, <1>2, <2>1, <2>2, <2>3 DEF PairInv
<1>4. CASE Alone(w)
  <2>1. Moved(w) = {} /\ t.target = NoGroup
    BY <1>4 DEF Alone, Moved
  <2>2. UNCHANGED <<group, groupRow>>
    BY <1>1, <2>1 DEF DInv, TypeOK
  <2>3. t.cands # Orders
    <3>1. t.cands = {t.order}
      BY <1>4 DEF Alone
    <3>2. Cardinality({t.order}) = 1
      BY FS_Singleton
    <3>. QED BY <3>1, <3>2 DEF Pair
  <2>. QED BY <1>3, <2>2, <2>3
<1>5. ASSUME NEW g \in Groups, Knows(w, g) PROVE PairInv'
  <2>1. /\ \A o \in Orders : t.loaded[o] \in {NoGroup, g} /\ group[o] = g
        /\ ~t.new /\ t.target = g /\ t.base = Whole /\ groupRow[g] = Whole
        /\ g # NoGroup /\ t.cands = Orders
    BY <1>1, <1>2, <1>5, NameAssumption DEF Fits, Knows, TogetherIn
  <2>2. Result(w) = Whole
    BY <2>1 DEF Result, Whole
  <2>3. Written(Whole, Whole, Whole) = Whole
    BY DEF Written, Whole
  <2>4. UNCHANGED <<group, groupRow>>
    BY <1>1, <2>1, <2>2, <2>3 DEF DInv, TypeOK
  <2>5. ~Apart
    <3>1. PICK o \in Orders : TRUE
      BY <1>5 DEF Knows
    <3>. QED BY <2>1, <3>1 DEF Apart
  <2>. QED BY <1>3, <2>4, <2>5
<1>6. CASE Blind(w)
  <2>1. PICK g \in Groups : g = t.target
    BY <1>1, <1>6 DEF Blind
  <2>2. t.new /\ g # NoGroup /\ t.cands = Orders /\ \A o \in Orders : t.loaded[o] = NoGroup
    BY <1>1, <1>6, NameAssumption DEF Blind
  <2>3. Moved(w) = Orders /\ Result(w) = Whole
    BY <2>1, <2>2 DEF Moved, Result, Whole
  <2>4. known = Orders
    BY <2>2 DEF DInv, TypeOK, TxStates
  <2>5. TogetherIn(g)' /\ ~Apart'
    <3>1. \A o \in Orders : group'[o] = g
      BY <1>1, <2>1, <2>3
    <3>2. groupRow'[g] = Whole
      BY <1>1, <2>1, <2>2, <2>3 DEF DInv, TypeOK
    <3>3. Whole' = Whole /\ known' = Orders
      BY <1>1, <2>4 DEF Whole
    <3>4. Orders # {}
      BY FS_EmptySet DEF Pair
    <3>. QED BY <2>2, <3>1, <3>2, <3>3, <3>4 DEF TogetherIn, Apart
  <2>6. \A o \in Orders : orderLock[o] = w
    BY <1>1, <2>3 DEF OrdersToLock
  <2>7. ASSUME ~Apart PROVE \A v \in Workers \ {w} : ~Open(v)
    <3> SUFFICES ASSUME NEW v \in Workers \ {w}, Open(v) PROVE FALSE
      OBVIOUS
    <3>1. \A o \in Orders : print[o] # NoPrint
      BY <1>2, <1>6, <2>7 DEF Fits
    <3>2. tx[v].order \in Orders
      BY DEF Open, DInv, TypeOK, TxOK, Running
    <3>. QED BY <1>2, <1>7, <3>1, <3>2 DEF RepeatsDoNotMeet
  <2>8. ASSUME NEW v \in Workers \ {w}, Apart, Open(v) PROVE Fits(v)'
    <3>1. /\ Fits(v) /\ tx'[v] = tx[v] /\ \A o \in Orders : tx[v].loaded[o] = NoGroup
          /\ tx[v].order \in Orders
      BY <1>1, <2>8 DEF PairInv, Fits, Apart, Open, DInv, TypeOK, TxOK, Running
    <3>2. ASSUME Blind(v) PROVE \A o \in Orders : print'[o] # NoPrint
      <4>1. PICK o \in Orders : o = tx[v].order
        BY <3>1
      <4>2. PICK q \in Orders : q = t.order
        BY <1>7
      <4>3. ~Marks(v)
        BY <2>6, <3>1, <3>2 DEF HeldInv, Held, Blind, Decided
      <4>4. print[o] # NoPrint
        <5>1. tx[v].text.norm # NoPrint
          BY <2>8, TextAssumption DEF Open, DInv, TxOK, Running
        <5>. QED BY <2>8, <3>1, <4>1, <4>3, <5>1 DEF Marks, Fits
      <4>5. print[q] = NoPrint
        BY <1>2, <2>8, <4>1, <4>2, <4>4 DEF RepeatsDoNotMeet
      <4>6. q # o /\ Orders = {o, q}
        BY <4>4, <4>5, TwoOrders
      <4>. QED BY <1>7, <4>2, <4>4, <4>6
    <3>3. \A h \in Groups : ~Knows(v, h)
      BY <2>8, <3>1, NameAssumption DEF Knows
    <3>4. (Open(v)' <=> Open(v)) /\ (Decided(v)' <=> Decided(v)) /\ (Alone(v)' <=> Alone(v))
          /\ (Blind(v)' <=> Blind(v))
      BY <3>1 DEF Open, Decided, Alone, Blind
    <3>. QED BY <1>1, <1>7, <3>1, <3>2, <3>3, <3>4 DEF Fits
  <2>9. ASSUME NEW v \in Workers \ {w}, ~Open(v) PROVE Fits(v)'
    BY <1>1, <2>9 DEF Fits, Open, Decided, Blind
  <2>. QED BY <1>2, <2>5, <2>7, <2>8, <2>9 DEF PairInv
<1>. QED BY <1>2, <1>4, <1>5, <1>6 DEF Fits

\* One step of whoever takes it
LEMMA PairStep ==
  ASSUME Pair, DInv, HeldInv, TextInv, PairInv, Calm, RepeatsDoNotMeet, [Next]_vars
  PROVE  PairInv'
<1>1. ASSUME NEW o \in Orders, Arrive(o) PROVE PairInv'
  BY <1>1, PairArrives
<1>2. ASSUME NEW o \in Orders, Notify(o) PROVE PairInv'
  BY <1>2, PairUntouched DEF Notify, envVars, rowVars
<1>3. ASSUME NEW o \in Orders, NEW t \in Texts, Reclassify(o, t) PROVE PairInv'
  <2>1. UNCHANGED <<known, group, groupRow, print, tx>> /\ tasks' = [tasks EXCEPT ![o] = @ + 1]
    BY <1>3 DEF Reclassify, rowVars
  <2>2. \A q \in Orders : tasks[q] > 0 => tasks'[q] > 0
    BY <2>1 DEF DInv, TypeOK
  <2>. QED BY <2>1, <2>2, PairUntouched
<1>4. ASSUME Age \/ UNCHANGED vars PROVE PairInv'
  BY <1>4, PairUntouched DEF Age, vars, rowVars
<1>5. ASSUME NEW w \in Workers, NEW o \in Orders, Start(w, o) PROVE PairInv'
  BY <1>5, PairStarts
<1>6. ASSUME NEW w \in Workers, LockGroup(w) \/ LockOrder(w) PROVE PairInv'
  BY <1>6, PairUntouched DEF LockGroup, LockOrder, envVars, rowVars
<1>7. ASSUME NEW w \in Workers, Mark(w) \/ Search(w) \/ FindGroup(w) \/ Commit(w) PROVE PairInv'
  BY <1>7, PairMarks, PairSearches, PairFindsGroup, PairCommits
<1>8. ASSUME NEW w \in Workers, Publish(w) \/ Victim(w) \/ Crash(w) PROVE PairInv'
  BY <1>8, PairPublishes, PairFails, PairCrashes
<1>. QED BY <1>1, <1>2, <1>3, <1>4, <1>5, <1>6, <1>7, <1>8 DEF Next, Work

\* A text that all messages have is not edited.
LEMMA OneTextStays ==
  ASSUME Pair, SameFingerprint
  PROVE  DInv => Unedited
<1> SUFFICES ASSUME DInv PROVE text = FirstText
  BY DEF Unedited
<1>1. text \in [Orders -> Texts] /\ FirstText \in [Orders -> Texts]
  BY TextAssumption DEF DInv, TypeOK
<1>2. ASSUME NEW o \in Orders PROVE text[o] = FirstText[o]
  <2>1. PICK t \in Texts, u \in Texts : t = text[o] /\ u = FirstText[o]
    BY <1>1
  <2>2. t.raw = u.raw /\ t.norm = u.norm
    BY DEF Pair, SameFingerprint
  <2>3. t = [raw |-> t.raw, norm |-> t.norm] /\ u = [raw |-> u.raw, norm |-> u.norm]
    BY TextAssumption
  <2>. QED BY <2>1, <2>2, <2>3
<1>. QED BY <1>1, <1>2

\* EndInv holds at first and is kept.
LEMMA PairInductive ==
  ASSUME Pair, SameFingerprint
  PROVE  Spec /\ []RepeatsDoNotMeet => [](DInv /\ EndInv)
<1>1. Init => EndInv
  <2> SUFFICES ASSUME Init PROVE PairInv
    BY DEF EndInv
  <2>1. \A w \in Workers : tx[w] = IdleTx
    BY DEF Init
  <2>2. Apart /\ known # Orders
    BY FS_EmptySet DEF Init, Apart, Pair
  <2>3. \A w \in Workers : Fits(w)
    BY <2>1 DEF Fits, Open, Decided, Blind, IdleTx
  <2>. QED BY <2>2, <2>3 DEF PairInv
<1>2. DInv /\ HeldInv /\ TextInv /\ EndInv /\ RepeatsDoNotMeet /\ [Next]_vars => EndInv'
  BY PairStep, CalmStep DEF EndInv
<1>3. Spec => []Unedited
  BY OneTextStays, DetectionInductive, PTL
<1>. QED BY <1>1, <1>2, <1>3, HeldInductive, TextInductive, DetectionInductive, PTL DEF Spec

\* Two orders of one text, detected any number of times by any workers, however many of
\* these are lost or fail in a deadlock, as long as two repeats do not overlap: when all
\* detections are done and neither order has left the freshness window, both are in one
\* group whose canonical order is the first published, although
\* find_duplicate_candidates shows neither what the other has not committed.
THEOREM PairInOneGroup ==
  ASSUME Pair, SameFingerprint
  PROVE  Spec /\ []RepeatsDoNotMeet => []OneGroupInTheEnd
<1>1. DInv /\ EndInv => OneGroupInTheEnd
  <2> SUFFICES ASSUME DInv, EndInv, Quiet, NEW o \in known,
                      Cardinality(Alike(o)) > 1, \A q \in Alike(o) : Recent(q)
               PROVE  /\ group[o] # NoGroup
                      /\ groupRow[group[o]].canonical \in Alike(o)
                      /\ \A q \in Alike(o) : /\ group[q] = group[o]
                                              /\ Rank[groupRow[group[o]].canonical] <= Rank[q]
    BY DEF OneGroupInTheEnd
  <2>1. Alike(o) = known /\ known \subseteq Orders
    BY DEF Alike, Pair, DInv, TypeOK
  <2>2. known = Orders
    <3>1. PICK q \in Orders : Orders = {o, q}
      BY <2>1, TwoOrders
    <3>2. Cardinality({o}) = 1
      BY FS_Singleton
    <3>3. known # {o}
      BY <2>1, <3>2
    <3>. QED BY <2>1, <3>1, <3>3
  <2>3. PairInv
    BY <2>1, <2>2 DEF EndInv, Calm
  <2>4. \A q \in Orders : ~Pending(q)
    BY DEF Quiet, Pending, Runs
  <2>5. PICK g \in Groups : TogetherIn(g)
    BY <2>2, <2>3, <2>4 DEF PairInv
  <2>6. Canonical(Orders) \in Orders /\ \A q \in Orders : Rank[Canonical(Orders)] <= Rank[q]
    BY <2>2, CanonicalIsOne
  <2>. QED BY <2>1, <2>2, <2>5, <2>6, NameAssumption DEF TogetherIn, Whole
<1>. QED BY <1>1, PairInductive, DetectionInductive, PTL

-----------------------------------------------------------------------------
(***************************************************************************)
(* Two orders of one text, whatever happens to them                        *)
(***************************************************************************)

First == Canonical(Orders)
Grouped == \A o \in Orders : group[o] # NoGroup

\* A detection that has found no other order
Solitary(w, o) ==
  tx[w].step \in {"write", "publish"} /\ tx[w].order = o /\ tx[w].cands = {o}

\* It writes a group if it has found both.  While the first order is recent no order
\* leaves its group, and one that has written a group sees both in one.
Sees(w) ==
  /\ tx[w].step = "group" => tx[w].cands = Orders
  /\ tx[w].step = "write" => (tx[w].target # NoGroup <=> tx[w].cands = Orders)
  /\ Recent(First) =>
       /\ ~Grouped => \A o \in Orders : tx[w].loaded[o] = NoGroup
       /\ tx[w].step = "write" /\ tx[w].cands # Orders =>
            tx[w].loaded[tx[w].order] = NoGroup
       /\ tx[w].step = "publish" /\ tx[w].cands = Orders => Grouped

\* If the first is to be notified, the repost is in a group or was never alone.
Silence ==
  First \in toSend \union sent \/ (\E w \in Workers : Solitary(w, First)) =>
    Grouped \/ \A o \in Orders \ {First} : o \notin toSend /\ \A w \in Workers : ~Solitary(w, o)

SilentInv ==
  /\ \A g \in Groups : groupRow[g] \in {NoRow, Whole}
  /\ \A w \in Workers : Sees(w)
  /\ Recent(First) => /\ known = Orders \/ Apart
                      /\ Apart \/ Grouped
                      /\ Silence

-----------------------------------------------------------------------------

\* The earlier post comes first, and a post alone is the canonical one.
LEMMA PairRanks ==
  ASSUME Pair
  PROVE  /\ First \in Orders
         /\ \A o \in Orders \ {First} : Rank[First] < Rank[o] /\ Orders = {First, o}
         /\ \A o \in Orders : Canonical({o}) = o /\ {o} # Orders
<1>1. Orders # {}
  BY FS_EmptySet DEF Pair
<1>2. First \in Orders /\ \A o \in Orders : Rank[First] <= Rank[o]
  BY <1>1, CanonicalIsOne DEF First
<1>3. ASSUME NEW o \in Orders \ {First} PROVE Rank[First] < Rank[o] /\ Orders = {First, o}
  <2>1. Rank[First] # Rank[o] /\ Rank[First] \in Nat /\ Rank[o] \in Nat
    BY <1>2, RankAssumption
  <2>2. \E q \in Orders : Orders = {First, q}
    BY <1>2, TwoOrders
  <2>. QED BY <1>2, <2>1, <2>2
<1>4. ASSUME NEW o \in Orders PROVE Canonical({o}) = o /\ {o} # Orders
  <2>1. Canonical({o}) \in {o}
    BY CanonicalIsOne
  <2>2. Cardinality({o}) = 1
    BY FS_Singleton
  <2>. QED BY <2>1, <2>2 DEF Pair
<1>. QED BY <1>2, <1>3, <1>4

\* Whoever has searched has found itself, alone or with the other.
LEMMA FoundAre ==
  ASSUME Pair, DInv, NEW w \in Workers, tx[w].step \in {"group", "write", "publish"}
  PROVE  /\ tx[w].order \in Orders /\ tx[w].order \in known
         /\ tx[w].cands = {tx[w].order} \/ (tx[w].cands = Orders /\ known = Orders)
<1>1. /\ tx[w].order \in known /\ tx[w].order \in tx[w].cands
      /\ tx[w].cands \subseteq known /\ known \subseteq Orders
  BY DEF DInv, TypeOK, TxOK, Running, Searched, TxStates
<1>2. \E q \in Orders : Orders = {tx[w].order, q}
  BY <1>1, TwoOrders
<1>. QED BY <1>1, <1>2

\* A step that writes no row
LEMMA SilentKept ==
  ASSUME SilentInv, NEW w \in Workers,
         UNCHANGED <<group, groupRow>>, known = Orders => known' = Orders,
         known' # known => Apart,
         Recent(First)' => Recent(First),
         \A v \in Workers \ {w} : tx'[v] = tx[v],
         Sees(w)', Recent(First) => Silence'
  PROVE  SilentInv'
<1>1. (Apart' <=> Apart) /\ (Grouped' <=> Grouped) /\ Whole' = Whole
  BY DEF Apart, Grouped, Whole
<1>2. ASSUME NEW v \in Workers \ {w} PROVE Sees(v)'
  BY <1>1 DEF SilentInv, Sees
<1>. QED BY <1>1, <1>2 DEF SilentInv

\* A step that leaves the transactions alone
LEMMA SilentStill ==
  ASSUME SilentInv,
         UNCHANGED <<group, groupRow, tx>>, known = Orders => known' = Orders,
         known' # known => Apart,
         Recent(First)' => Recent(First),
         toSend' \subseteq toSend, toSend' \union sent' \subseteq toSend \union sent
  PROVE  SilentInv'
<1>1. (Apart' <=> Apart) /\ (Grouped' <=> Grouped) /\ Whole' = Whole
  BY DEF Apart, Grouped, Whole
<1>2. \A v \in Workers : Sees(v)'
  BY <1>1 DEF SilentInv, Sees
<1>3. \A v \in Workers, o \in Orders \union {First} : Solitary(v, o)' <=> Solitary(v, o)
  BY DEF Solitary
<1>4. Silence => Silence'
  BY <1>1, <1>3 DEF Silence
<1>. QED BY <1>1, <1>2, <1>4 DEF SilentInv

\* New orders, notifications, time and locks
LEMMA SilentWorld ==
  ASSUME Pair, DInv, SilentInv,
         \/ \E o \in Orders : Arrive(o) \/ Notify(o)
         \/ \E o \in Orders, t \in Texts : Reclassify(o, t)
         \/ Age \/ UNCHANGED vars
         \/ \E w \in Workers : LockGroup(w) \/ LockOrder(w)
  PROVE  SilentInv'
<1>1. ASSUME NEW o \in Orders, Arrive(o) PROVE SilentInv'
  <2>1. /\ UNCHANGED <<group, groupRow, tx, toSend, sent, horizon>>
        /\ known # Orders /\ known \subseteq Orders
    BY <1>1 DEF Arrive, rowVars, sendVars, DInv, TypeOK
  <2>2. Recent(First)' => Recent(First)
    BY <2>1 DEF Recent, First
  <2>3. Recent(First) => Apart
    BY <2>1 DEF SilentInv
  <2>4. CASE Recent(First)
    BY <2>1, <2>2, <2>3, <2>4, SilentStill
  <2>5. CASE ~Recent(First)
    <3>1. (Apart' <=> Apart) /\ (Grouped' <=> Grouped) /\ Whole' = Whole
      BY <2>1 DEF Apart, Grouped, Whole
    <3>. QED BY <2>1, <2>2, <2>5, <3>1 DEF SilentInv, Sees
  <2>. QED BY <2>4, <2>5
<1>2. ASSUME UNCHANGED <<known, group, groupRow, tx, toSend, sent, horizon>> PROVE SilentInv'
  <2>1. Recent(First)' => Recent(First)
    BY <1>2 DEF Recent, First
  <2>. QED BY <1>2, <2>1, SilentStill
<1>3. ASSUME NEW o \in Orders, Notify(o) PROVE SilentInv'
  <2>1. UNCHANGED <<known, group, groupRow, tx, horizon>> /\ toSend' \subseteq toSend
        /\ toSend' \union sent' \subseteq toSend \union sent
    BY <1>3 DEF Notify, rowVars, envVars
  <2>2. Recent(First)' => Recent(First)
    BY <2>1 DEF Recent, First
  <2>. QED BY <2>1, <2>2, SilentStill
<1>4. ASSUME Age PROVE SilentInv'
  <2>1. UNCHANGED <<known, group, groupRow, tx, toSend, sent>> /\ horizon' = horizon + 1
    BY <1>4 DEF Age, rowVars, sendVars
  <2>2. Rank[First] \in Nat /\ horizon \in Nat
    BY PairRanks, RankAssumption DEF DInv, TypeOK
  <2>3. Recent(First)' => Recent(First)
    BY <2>1, <2>2 DEF Recent, First
  <2>. QED BY <2>1, <2>3, SilentStill
<1>. QED BY <1>1, <1>2, <1>3, <1>4
         DEF Reclassify, LockGroup, LockOrder, vars, envVars, rowVars, sendVars

\* A task starts with what it reads of its order.
LEMMA SilentStarts ==
  ASSUME Pair, DInv, SilentInv, NEW w \in Workers, NEW o \in Orders, Start(w, o)
  PROVE  SilentInv'
<1>. Starts(w, o)
  BY StartDoes
<1>1. /\ UNCHANGED <<known, group, groupRow, horizon, toSend, sent>>
      /\ \A v \in Workers \ {w} : tx'[v] = tx[v]
  BY DEF Starts, OthersWait, envVars, rowVars, sendVars
<1>2. /\ tx'[w].step = "mark"
      /\ \A q \in Orders : tx'[w].loaded[q] \in {NoGroup, group[q]}
  BY DEF Starts
<1>3. (Recent(First)' <=> Recent(First)) /\ (Grouped' <=> Grouped)
  BY <1>1 DEF Recent, First, Grouped
<1>4. Sees(w)'
  BY <1>2, <1>3 DEF Sees, SilentInv, Apart
<1>5. \A v \in Workers, q \in Orders \union {First} : Solitary(v, q)' => Solitary(v, q)
  BY <1>1, <1>2 DEF Solitary
<1>6. Silence => Silence'
  BY <1>1, <1>3, <1>5 DEF Silence
<1>. QED BY <1>1, <1>3, <1>4, <1>6, SilentKept DEF SilentInv

\* A mark changes no group.
LEMMA SilentMarks ==
  ASSUME Pair, DInv, SilentInv, NEW w \in Workers, Mark(w)
  PROVE  SilentInv'
<1>1. /\ UNCHANGED <<known, group, groupRow, horizon, toSend, sent>>
      /\ \A v \in Workers \ {w} : tx'[v] = tx[v]
      /\ tx'[w].step = "search" /\ tx'[w].loaded = tx[w].loaded
  BY DEF Mark, envVars, rowVars, sendVars, DInv, TypeOK, TxStates
<1>2. (Recent(First)' <=> Recent(First)) /\ (Grouped' <=> Grouped)
  BY <1>1 DEF Recent, First, Grouped
<1>3. Sees(w)'
  BY <1>1, <1>2 DEF Sees, SilentInv
<1>4. \A v \in Workers, q \in Orders \union {First} : Solitary(v, q)' => Solitary(v, q)
  BY <1>1 DEF Solitary
<1>5. Silence => Silence'
  BY <1>1, <1>2, <1>4 DEF Silence
<1>. QED BY <1>1, <1>2, <1>3, <1>5, SilentKept DEF SilentInv

\* What did not commit rolls back, and nothing is published.
LEMMA SilentEnds ==
  ASSUME Pair, DInv, SilentInv, NEW w \in Workers, Victim(w) \/ Crash(w)
  PROVE  SilentInv'
<1>1. /\ UNCHANGED <<known, group, groupRow, horizon, toSend, sent>>
      /\ \A v \in Workers \ {w} : tx'[v] = tx[v]
      /\ tx'[w].step = "idle" /\ \A o \in Orders : tx'[w].loaded[o] = NoGroup
  BY Ending DEF Victim, Crash, envVars, rowVars, sendVars, IdleTx
<1>2. (Recent(First)' <=> Recent(First)) /\ (Grouped' <=> Grouped)
  BY <1>1 DEF Recent, First, Grouped
<1>3. Sees(w)'
  BY <1>1, <1>2 DEF Sees
<1>4. \A v \in Workers, q \in Orders \union {First} : Solitary(v, q)' => Solitary(v, q)
  BY <1>1 DEF Solitary
<1>5. Silence => Silence'
  BY <1>1, <1>2, <1>4 DEF Silence
<1>. QED BY <1>1, <1>2, <1>3, <1>5, SilentKept DEF SilentInv

\* While the first is recent, a search finds all that is committed.
LEMMA SilentSearches ==
  ASSUME Pair, DInv, SilentInv, NEW w \in Workers, Search(w)
  PROVE  SilentInv'
<1>. Finds(w)
  BY SearchDoes
<1>1. PICK o \in Orders : o = tx[w].order /\ o \in known /\ tx[w].text \in Texts
  BY DEF Finds, DInv, TypeOK, TxOK, Running
<1>2. /\ UNCHANGED <<known, group, groupRow, horizon, toSend, sent>>
      /\ \A v \in Workers \ {w} : tx'[v] = tx[v]
  BY DEF Finds, OthersWait, envVars, rowVars, sendVars
<1>3. /\ tx'[w].step = IF Cardinality(Candidates(w)) <= 1 THEN "write" ELSE "group"
      /\ tx'[w].cands = Candidates(w) /\ tx'[w].order = o /\ tx'[w].target = NoGroup
      /\ \A q \in Orders : tx'[w].loaded[q] = IF q \in Candidates(w) \ {o} THEN group[q]
                                               ELSE tx[w].loaded[q]
  <2>1. tx[w] \in TxStates /\ tx[w].target = NoGroup
    BY DEF Finds, DInv, TxOK, Loads
  <2>. QED BY <1>1, <2>1 DEF Finds, TxStates
<1>4. Candidates(w) \subseteq known /\ known \subseteq Orders /\ o \in Candidates(w)
  BY <1>1 DEF Candidates, DInv, TypeOK
<1>5. \/ Candidates(w) = Orders /\ tx'[w].step = "group"
      \/ Candidates(w) = {o} /\ tx'[w].step = "write" /\ {o} # Orders
  <2>1. Candidates(w) = Orders \/ Candidates(w) = {o}
    <3>1. \E q \in Orders : Orders = {o, q}
      BY TwoOrders
    <3>. QED BY <1>4, <3>1
  <2>2. Cardinality(Orders) = 2
    BY DEF Pair
  <2>3. Cardinality({o}) = 1
    BY FS_Singleton
  <2>. QED BY <1>3, <2>1, <2>2, <2>3
<1>6. Recent(First) => Candidates(w) = known
  <2> SUFFICES ASSUME Recent(First), NEW q \in known PROVE q \in Candidates(w)
    BY <1>4
  <2>1. q \in Orders /\ text[q] \in Texts
    BY DEF DInv, TypeOK
  <2>2. text[q].raw = tx[w].text.raw
    BY <1>1, <2>1 DEF Pair
  <2>3. Rank[First] <= Rank[q] /\ Rank[q] \in Nat /\ Rank[First] \in Nat /\ horizon \in Nat
    BY <2>1, PairRanks, RankAssumption DEF DInv, TypeOK
  <2>4. Recent(q)
    BY <2>3 DEF Recent
  <2>. QED BY <2>2, <2>4 DEF Candidates
<1>7. (Recent(First)' <=> Recent(First)) /\ (Grouped' <=> Grouped)
  BY <1>2 DEF Recent, First, Grouped
<1>8. Sees(w)'
  <2>1. ASSUME Recent(First), ~Grouped, NEW q \in Orders PROVE tx'[w].loaded[q] = NoGroup
    BY <1>3, <2>1 DEF SilentInv, Sees, Apart
  <2>2. ASSUME Recent(First), tx'[w].step = "write" PROVE tx'[w].loaded[o] = NoGroup
    <3>1. known # Orders
      BY <1>5, <1>6, <2>2
    <3>2. ~Grouped
      BY <3>1, <1>1, <2>2 DEF SilentInv, Apart, Grouped
    <3>. QED BY <2>1, <2>2, <3>2
  <2>. QED BY <1>3, <1>5, <1>7, <2>1, <2>2 DEF Sees
<1>9. ASSUME Recent(First) PROVE Silence'
  <2>1. \A v \in Workers \ {w}, q \in Orders \union {First} : Solitary(v, q)' <=> Solitary(v, q)
    BY <1>2 DEF Solitary
  <2>2. Silence
    BY <1>9 DEF SilentInv
  <2>3. CASE Candidates(w) = Orders
    <3>1. \A q \in Orders \union {First} : ~Solitary(w, q)'
      BY <1>5, <2>3 DEF Solitary
    <3>. QED BY <1>2, <1>7, <2>1, <2>2, <3>1 DEF Silence
  <2>4. CASE Candidates(w) = {o}
    <3>1. \A q \in Orders \ {o} : q \notin toSend /\ q \notin sent
      BY <1>6, <1>9, <2>4 DEF DInv, TypeOK
    <3>2. \A v \in Workers, q \in Orders \ {o} : ~Solitary(v, q)'
      <4>1. ASSUME NEW v \in Workers \ {w}, NEW q \in Orders \ {o}, Solitary(v, q) PROVE FALSE
        <5>1. tx[v].order \in known
          BY <4>1 DEF Solitary, DInv, TxOK, Running
        <5>. QED BY <4>1, <5>1, <1>6, <1>9, <2>4 DEF Solitary
      <4>2. \A q \in Orders \ {o} : ~Solitary(w, q)'
        BY <1>3 DEF Solitary
      <4>. QED BY <2>1, <4>1, <4>2
    <3>3. First \in Orders
      BY PairRanks
    <3>. QED BY <1>2, <1>7, <3>1, <3>2, <3>3 DEF Silence, First
  <2>. QED BY <1>5, <2>3, <2>4
<1>. QED BY <1>2, <1>7, <1>8, <1>9, SilentKept DEF SilentInv

\* Whoever looks for a group has found both orders.
LEMMA SilentFindsGroup ==
  ASSUME Pair, DInv, SilentInv, NEW w \in Workers, FindGroup(w)
  PROVE  SilentInv'
<1>1. (\E q \in tx[w].cands : Joins(w, q)) \/ \E g \in Groups : Founds(w, g)
  BY FindGroupDoes
<1>2. /\ \A v \in Workers \ {w} : tx'[v] = tx[v]
      /\ UNCHANGED <<known, group, groupRow, horizon, toSend, sent>>
      /\ tx[w].step = "group" /\ tx'[w].step = "write" /\ tx'[w].target # NoGroup
      /\ tx'[w].cands = tx[w].cands /\ tx'[w].loaded = tx[w].loaded
  <2>1. tx[w] \in TxStates
    BY DEF DInv, TxOK
  <2>2. ASSUME NEW q, Joins(w, q) PROVE <1>2!:
    BY <2>1, <2>2 DEF Joins, OthersWait, envVars, rowVars, sendVars, TxStates
  <2>3. ASSUME NEW g, Founds(w, g) PROVE <1>2!:
    BY <2>1, <2>3, NameAssumption DEF Founds, OthersWait, envVars, rowVars, sendVars, TxStates
  <2>. QED BY <1>1, <2>2, <2>3
<1>3. (Recent(First)' <=> Recent(First)) /\ (Grouped' <=> Grouped)
  BY <1>2 DEF Recent, First, Grouped
<1>4. tx[w].cands = Orders
  BY <1>2 DEF SilentInv, Sees
<1>5. Sees(w)'
  BY <1>2, <1>3, <1>4 DEF Sees, SilentInv
<1>6. \A v \in Workers, q \in Orders \union {First} : Solitary(v, q)' => Solitary(v, q)
  <2>1. \A q \in Orders \union {First} : tx'[w].cands # {q}
    BY <1>2, <1>4, PairRanks
  <2>. QED BY <1>2, <2>1 DEF Solitary
<1>7. Silence => Silence'
  BY <1>2, <1>3, <1>6 DEF Silence
<1>. QED BY <1>2, <1>3, <1>5, <1>7, SilentKept DEF SilentInv

\* Whoever has found both writes one row only, and leaves neither without a group.
LEMMA SilentCommits ==
  ASSUME Pair, DInv, SilentInv, NEW w \in Workers, Commit(w)
  PROVE  SilentInv'
<1>. DEFINE t == tx[w]
<1>1. /\ \A v \in Workers \ {w} : tx'[v] = tx[v]
      /\ UNCHANGED <<known, horizon, toSend, sent>>
      /\ t.step = "write" /\ tx'[w].step = "publish" /\ tx'[w].order = t.order
      /\ tx'[w].cands = t.cands /\ tx'[w].loaded = t.loaded
      /\ group' = [q \in Orders |-> IF q \in Moved(w) THEN t.target ELSE group[q]]
      /\ groupRow' = IF t.target = NoGroup THEN groupRow
                     ELSE [groupRow EXCEPT ![t.target] =
                             IF t.new THEN Result(w) ELSE Written(@, t.base, Result(w))]
  BY DEF Commit, envVars, sendVars, DInv, TypeOK, TxStates
<1>2. t.target # NoGroup <=> t.cands = Orders
  BY <1>1 DEF SilentInv, Sees
<1>3. t.order \in Orders /\ (t.cands = {t.order} \/ t.cands = Orders)
  BY <1>1, FoundAre
<1>4. (Recent(First)' <=> Recent(First)) /\ Whole' = Whole
  BY <1>1 DEF Recent, First, Whole
<1>5. \A v \in Workers, q \in Orders \union {First} : Solitary(v, q)' <=> Solitary(v, q)
  BY <1>1 DEF Solitary
<1>6. \A g \in Groups : groupRow'[g] \in {NoRow, Whole}
  <2>1. \A g \in Groups : groupRow[g] \in {NoRow, Whole}
    BY DEF SilentInv
  <2>2. CASE t.target = NoGroup
    BY <1>1, <2>1, <2>2
  <2>3. CASE t.target # NoGroup
    <3>1. Result(w) = Whole
      BY <1>2, <2>3 DEF Result, Whole
    <3>2. ~t.new => t.target \in Groups /\ groupRow[t.target] = Whole
      BY <1>1, <2>1, <2>3 DEF DInv, TxOK, Loads, Real
    <3>3. \A base : Written(Whole, base, Whole) = Whole
      BY DEF Written, Whole
    <3>. QED BY <1>1, <2>1, <2>3, <3>1, <3>2, <3>3 DEF DInv, TypeOK
  <2>. QED BY <2>2, <2>3
<1>7. ASSUME Recent(First)
      PROVE  /\ Grouped => Grouped'
             /\ t.cands # Orders => group' = group
             /\ t.cands = Orders => Grouped'
  <2>1. Sees(w)
    BY DEF SilentInv
  <2>2. CASE t.cands = Orders
    <3>1. ASSUME NEW q \in Orders PROVE group'[q] # NoGroup
      <4>1. CASE q \in Moved(w)
        BY <1>1, <1>2, <2>2, <4>1
      <4>2. CASE q \notin Moved(w)
        <5>1. t.loaded[q] # NoGroup
          BY <1>2, <2>2, <4>2 DEF Moved
        <5>2. Grouped
          BY <1>7, <2>1, <5>1 DEF Sees
        <5>. QED BY <1>1, <4>2, <5>2 DEF Grouped
      <4>. QED BY <4>1, <4>2
    <3>. QED BY <2>2, <3>1 DEF Grouped
  <2>3. CASE t.cands # Orders
    <3>1. t.target = NoGroup /\ t.loaded[t.order] = NoGroup /\ t.cands = {t.order}
      BY <1>1, <1>2, <1>3, <1>7, <2>1, <2>3 DEF Sees
    <3>2. Moved(w) = {}
      BY <3>1 DEF Moved
    <3>3. group' = group
      BY <1>1, <3>2 DEF DInv, TypeOK
    <3>. QED BY <2>3, <3>3 DEF Grouped
  <2>. QED BY <2>2, <2>3
<1>8. ASSUME NEW v \in Workers PROVE Sees(v)'
  <2>1. CASE v = w
    BY <1>1, <1>4, <1>7, <2>1 DEF Sees, SilentInv
  <2>2. CASE v # w
    BY <1>1, <1>4, <1>7, <2>2 DEF Sees, SilentInv
  <2>. QED BY <2>1, <2>2
<1>9. ASSUME Recent(First) PROVE (known = Orders \/ Apart)' /\ (Apart \/ Grouped)' /\ Silence'
  <2>1. (known = Orders \/ Apart) /\ (Apart \/ Grouped) /\ Silence
    BY <1>9 DEF SilentInv
  <2>2. CASE t.cands = Orders
    <3>1. Grouped' /\ known' = Orders
      BY <1>1, <1>7, <1>9, <2>2, FoundAre, PairRanks
    <3>. QED BY <3>1 DEF Silence
  <2>3. CASE t.cands # Orders
    <3>1. (Apart' <=> Apart) /\ (Grouped' <=> Grouped)
      BY <1>7, <1>9, <2>3 DEF Apart, Grouped
    <3>. QED BY <1>1, <1>5, <2>1, <3>1 DEF Silence, First
  <2>. QED BY <2>2, <2>3
<1>. QED BY <1>4, <1>6, <1>8, <1>9 DEF SilentInv

\* Who is to be notified was alone, or is the first and both are in one group.
LEMMA SilentPublishes ==
  ASSUME Pair, DInv, SilentInv, NEW w \in Workers, Publish(w)
  PROVE  SilentInv'
<1>1. PICK o \in Orders : o = tx[w].order
  BY Ending
<1>2. /\ UNCHANGED <<known, group, groupRow, horizon, sent>>
      /\ \A v \in Workers \ {w} : tx'[v] = tx[v]
      /\ tx[w].step = "publish" /\ tx'[w].step = "idle"
      /\ \A q \in Orders : tx'[w].loaded[q] = NoGroup
      /\ toSend' = IF Canonical(tx[w].cands) = o THEN toSend \union {o} ELSE toSend
  <2>1. tx'[w] = IdleTx /\ \A v \in Workers \ {w} : tx'[v] = tx[v]
    BY Ending
  <2>2. tx'[w].step = "idle" /\ \A q \in Orders : tx'[w].loaded[q] = NoGroup
    BY <2>1 DEF IdleTx
  <2>. QED BY <1>1, <2>1, <2>2 DEF Publish, envVars, rowVars
<1>3. (Recent(First)' <=> Recent(First)) /\ (Grouped' <=> Grouped)
  BY <1>2 DEF Recent, First, Grouped
<1>4. Sees(w)'
  BY <1>2, <1>3 DEF Sees
<1>5. \A v \in Workers, q \in Orders \union {First} : Solitary(v, q)' => Solitary(v, q)
  BY <1>2 DEF Solitary
<1>6. ASSUME Recent(First) PROVE Silence'
  <2>1. Silence /\ Sees(w)
    BY <1>6 DEF SilentInv
  <2>2. CASE Canonical(tx[w].cands) # o
    BY <1>2, <1>3, <1>5, <2>1, <2>2 DEF Silence
  <2>3. CASE Canonical(tx[w].cands) = o /\ tx[w].cands = Orders
    BY <1>2, <1>3, <1>6, <2>1, <2>3 DEF Silence, Sees
  <2>4. CASE Canonical(tx[w].cands) = o /\ Solitary(w, o)
    BY <1>2, <1>3, <1>5, <2>1, <2>4 DEF Silence
  <2>. QED BY <1>1, <1>2, <2>2, <2>3, <2>4, FoundAre DEF Solitary
<1>. QED BY <1>2, <1>3, <1>4, <1>6, SilentKept DEF SilentInv

\* SilentInv holds at first and is kept.
LEMMA SilentInductive == ASSUME Pair PROVE Spec => [](DInv /\ SilentInv)
<1>1. Init => SilentInv
  <2> SUFFICES ASSUME Init PROVE SilentInv
    OBVIOUS
  <2>1. \A w \in Workers : tx[w] = IdleTx
    BY DEF Init
  <2>2. Apart /\ \A w \in Workers : Sees(w)
    BY <2>1 DEF Init, Apart, Sees, IdleTx
  <2>3. Silence
    BY <2>1 DEF Init, Silence, Solitary, IdleTx
  <2>. QED BY <2>2, <2>3 DEF Init, SilentInv
<1>2. DInv /\ SilentInv /\ [Next]_vars => SilentInv'
  <2> SUFFICES ASSUME DInv, SilentInv, [Next]_vars PROVE SilentInv'
    OBVIOUS
  <2>1. ASSUME NEW w \in Workers, Work(w) \/ Crash(w) PROVE SilentInv'
    BY <2>1, SilentMarks, SilentSearches, SilentFindsGroup, SilentWorld, SilentCommits,
       SilentPublishes, SilentEnds DEF Work
  <2>. QED BY <2>1, SilentWorld, SilentStarts DEF Next
<1>. QED BY <1>1, <1>2, DetectionInductive, PTL DEF Spec

\* Only the notification task notifies.
LEMMA OnlyNotifySends ==
  ASSUME [Next]_vars, sent' # sent
  PROVE  \E o \in Orders : Notify(o)
<1>1. \A w \in Workers : Work(w) \/ Crash(w) => sent' = sent
  BY DEF Work, Mark, Search, FindGroup, LockGroup, LockOrder, Commit, Publish, Victim,
         Crash, sendVars
<1>. QED BY <1>1 DEF Next, Arrive, Reclassify, Age, Start, vars, sendVars

\* Two orders of one text, whatever happens to them: if they are classified again,
\* workers are lost, detections deadlock and are lost, or the repost is detected first,
\* it is still not notified after the original was, unless that is too old to be found.
THEOREM PairStaysSilent == ASSUME Pair PROVE Spec => LaterRepostsStaySilent
<1>. DEFINE Silent == \A o \in sent' \ sent, q \in sent :
                        Recent(q) /\ text[q].raw = text[o].raw => Rank[o] <= Rank[q]
<1>1. DInv /\ SilentInv /\ [Next]_vars => Silent
  <2> SUFFICES ASSUME DInv, SilentInv, [Next]_vars, NEW o \in sent' \ sent, NEW q \in sent,
                      Recent(q)
               PROVE  Rank[o] <= Rank[q]
    OBVIOUS
  <2>1. PICK p \in Orders : Notify(p)
    BY OnlyNotifySends
  <2>2. p = o /\ o \in toSend /\ Notifiable(o)
    BY <2>1 DEF Notify
  <2>3. o \in Orders /\ q \in Orders /\ Rank[o] \in Nat /\ Rank[q] \in Nat
    BY <2>2, RankAssumption DEF DInv, TypeOK
  <2>4. SUFFICES ASSUME o # First, q # o PROVE FALSE
    BY <2>3, PairRanks
  <2>5. q = First
    BY <2>3, <2>4, PairRanks
  <2>6. Grouped
    BY <2>2, <2>3, <2>4, <2>5 DEF SilentInv, Silence
  <2>7. group[o] # NoGroup /\ group[o] \in Real
    BY <2>3, <2>6 DEF Grouped, DInv, TypeOK, Real
  <2>8. groupRow[group[o]] = Whole
    BY <2>7 DEF SilentInv, Real
  <2>. QED BY <2>2, <2>4, <2>7, <2>8 DEF Notifiable, Whole, First
<1>. QED BY <1>1, SilentInductive, PTL DEF Spec, LaterRepostsStaySilent

-----------------------------------------------------------------------------
(***************************************************************************)
(* Any workers, any number of orders of any texts, where the detections    *)
(* of one text come one after the other                                    *)
(***************************************************************************)

\* No two detections of one text are under way at once, as with one worker.
NoRivals ==
  \A v, w \in Workers : Open(v) /\ Open(w) /\ tx[v].text.norm = tx[w].text.norm => v = w

Detected == {o \in Orders : print[o] # NoPrint /\ Recent(o)}

\* Only known orders are detected, and only detected ones notified.
Detections ==
  /\ \A o \in Orders \ known : print[o] = NoPrint
  /\ \A o \in toSend \union sent : print[o] # NoPrint

\* An order without a fingerprint is going to be detected, if it did not fail.
Owed(o) == tasks[o] > 0 \/ o \in failed \/ \E w \in Workers : Open(w) /\ tx[w].order = o
NoneMissed == \A o \in known : print[o] = NoPrint => Owed(o)

\* Orders of one text that were detected and are recent are in one group, led by one that
\* is not later than any of them.
Together ==
  \A o, q \in Detected : o # q /\ Norm(o) = Norm(q) =>
    group[o] # NoGroup /\ group[o] = group[q] /\ Rank[Leader(o)] <= Rank[o]

\* What a worker has read of a text is true until it commits.
Reads(t) ==
  /\ t.step \in {"mark", "search", "group", "write"} => t.print = print[t.order]
  /\ t.step \in {"mark", "search"} => t.loaded[t.order] = group[t.order]
  /\ t.step \in {"group", "write"} =>
       /\ \A q \in t.cands : t.loaded[q] = group[q]
       /\ \A q \in Detected : Norm(q) = t.text.norm => q \in t.cands
  /\ t.step = "publish" => print[t.order] # NoPrint

\* The group it writes to is new, or one of its candidates is in it; without one it has
\* found itself only.
Aims(t) ==
  t.step = "write" =>
    /\ t.target = NoGroup => t.cands = {t.order}
    /\ t.target # NoGroup =>
         IF t.new THEN groupRow[t.target] = NoRow
         ELSE t.base = groupRow[t.target] /\ \E q \in t.cands : group[q] = t.target

Works(w) == Reads(tx[w]) /\ Aims(tx[w])

SerialInv == Detections /\ NoneMissed /\ Together /\ \A w \in Workers : Works(w)

-----------------------------------------------------------------------------

\* A step that writes no row of an order or a group
LEMMA SerialKept ==
  ASSUME SerialInv, UNCHANGED <<text, print, group, groupRow>>, known \subseteq known',
         \A o \in Orders : Recent(o)' => Recent(o),
         \A o \in toSend' \union sent' : o \in toSend \union sent \/ print[o] # NoPrint,
         NoneMissed', \A w \in Workers : Works(w)'
  PROVE  SerialInv'
<1>1. Detections'
  BY DEF SerialInv, Detections, Norm
<1>2. Detected' \subseteq Detected
  BY DEF Detected
<1>3. \A o : Leader(o)' = Leader(o) /\ Norm(o)' = Norm(o)
  BY DEF Leader, Norm
<1>4. Together'
  BY <1>2, <1>3 DEF SerialInv, Together
<1>. QED BY <1>1, <1>4 DEF SerialInv

\* What a transaction knows stays true when no row is written.
LEMMA WorksOn ==
  ASSUME NEW w \in Workers, Works(w), UNCHANGED <<text, print, group, groupRow>>,
         tx'[w] = tx[w], \A o \in Orders : Recent(o)' => Recent(o)
  PROVE  Works(w)'
<1>1. Detected' \subseteq Detected /\ \A o : Norm(o)' = Norm(o)
  BY DEF Detected, Norm
<1>2. Reads(tx[w])'
  BY <1>1 DEF Works, Reads
<1>3. Aims(tx[w])'
  BY DEF Works, Aims
<1>. QED BY <1>2, <1>3 DEF Works

LEMMA AllWork ==
  ASSUME SerialInv, NEW w \in Workers, UNCHANGED <<text, print, group, groupRow>>,
         \A v \in Workers \ {w} : tx'[v] = tx[v], \A o \in Orders : Recent(o)' => Recent(o),
         Works(w)'
  PROVE  \A v \in Workers : Works(v)'
<1> SUFFICES ASSUME NEW v \in Workers \ {w} PROVE Works(v)'
  OBVIOUS
<1>1. Works(v)
  BY DEF SerialInv
<1>. QED BY <1>1, WorksOn

\* Arrivals, notifications, age, locks, and messages processed again
LEMMA SerialWorld ==
  ASSUME Unedited', DInv, TextInv, SerialInv,
         \/ \E o \in Orders : Arrive(o) \/ Notify(o)
         \/ \E o \in Orders, t \in Texts : Reclassify(o, t)
         \/ Age \/ UNCHANGED vars
         \/ \E w \in Workers : LockGroup(w) \/ LockOrder(w)
  PROVE  SerialInv'
<1>1. /\ UNCHANGED <<print, group, groupRow, tx, failed>> /\ known \subseteq known'
      /\ toSend' \union sent' \subseteq toSend \union sent
      /\ \A o \in Orders : tasks'[o] >= tasks[o]
      /\ \A o \in known' \ known : tasks'[o] > 0
      /\ horizon' \in {horizon, horizon + 1}
  <2>1. ASSUME NEW o \in Orders, Arrive(o) PROVE <1>1!:
    BY <2>1 DEF Arrive, rowVars, sendVars, lockVars, DInv, TypeOK
  <2>2. ASSUME NEW o \in Orders, Notify(o) PROVE <1>1!:
    BY <2>2 DEF Notify, rowVars, envVars, lockVars, DInv, TypeOK
  <2>3. ASSUME NEW o \in Orders, NEW t \in Texts, Reclassify(o, t) PROVE <1>1!:
    BY <2>3 DEF Reclassify, rowVars, sendVars, lockVars, DInv, TypeOK
  <2>4. CASE Age
    BY <2>4 DEF Age, rowVars, sendVars, lockVars, DInv, TypeOK
  <2>5. CASE UNCHANGED vars
    BY <2>5 DEF vars, DInv, TypeOK
  <2>6. ASSUME NEW w \in Workers, LockGroup(w) \/ LockOrder(w) PROVE <1>1!:
    <3>1. UNCHANGED <<envVars, rowVars, tx, tasks, failed, sendVars>>
      BY <2>6 DEF LockGroup, LockOrder
    <3>. QED BY <3>1 DEF envVars, rowVars, sendVars, DInv, TypeOK
  <2>. QED BY <2>1, <2>2, <2>3, <2>4, <2>5, <2>6
<1>2. text' = text
  BY DEF TextInv, Unedited
<1>3. \A o \in Orders : Recent(o)' => Recent(o)
  BY <1>1, RankAssumption DEF Recent, DInv, TypeOK
<1>4. NoneMissed'
  <2> SUFFICES ASSUME NEW o \in known', print[o] = NoPrint PROVE Owed(o)'
    BY <1>1 DEF NoneMissed
  <2>1. CASE o \notin known
    BY <1>1, <2>1 DEF Owed
  <2>2. CASE o \in known
    <3>1. Owed(o) /\ o \in Orders
      BY <2>2 DEF SerialInv, NoneMissed, DInv, TypeOK
    <3>2. tasks[o] \in Nat /\ (tasks'[o] >= tasks[o])
      BY <1>1, <3>1 DEF DInv, TypeOK
    <3>3. tasks[o] > 0 => tasks'[o] > 0
      <4>1. CASE tasks' = tasks
        BY <4>1
      <4>2. ASSUME NEW q \in Orders, tasks' = [tasks EXCEPT ![q] = @ + 1]
            PROVE tasks[o] > 0 => tasks'[o] > 0
        BY <3>1, <4>2 DEF DInv, TypeOK
      <4>. QED BY <4>1, <4>2 DEF Arrive, Notify, Reclassify, Age, vars, LockGroup, LockOrder
    <3>. QED BY <1>1, <3>1, <3>3 DEF Owed, Open
  <2>. QED BY <2>1, <2>2
<1>5. \A w \in Workers : Works(w)'
  BY <1>1, <1>2, <1>3, WorksOn DEF SerialInv
<1>. QED BY <1>1, <1>2, <1>3, <1>4, <1>5, SerialKept

\* A step of a worker that writes no row
LEMMA SerialWorks ==
  ASSUME DInv, TextInv, SerialInv, NEW w \in Workers,
         UNCHANGED <<envVars, rowVars, tasks>>, GoesOn(w), Open(w)', Works(w)'
  PROVE  SerialInv'
<1>1. UNCHANGED <<text, print, group, groupRow, known, toSend, sent, horizon>>
  BY DEF envVars, rowVars, GoesOn, sendVars
<1>2. NoneMissed'
  <2>1. ASSUME NEW o \in known, print[o] = NoPrint PROVE Owed(o)'
    <3>1. Owed(o)
      BY <2>1 DEF SerialInv, NoneMissed
    <3>2. ASSUME NEW v \in Workers, Open(v), tx[v].order = o
          PROVE  Open(v)' /\ tx'[v].order = o
      BY <3>2 DEF GoesOn, Open
    <3>. QED BY <3>1, <3>2 DEF Owed, GoesOn
  <2>. QED BY <1>1, <2>1 DEF NoneMissed
<1>3. \A v \in Workers : Works(v)'
  BY <1>1, AllWork DEF GoesOn, Recent
<1>. QED BY <1>1, <1>2, <1>3, SerialKept DEF Recent

\* A task starts with what it reads of its order.
LEMMA SerialStarts ==
  ASSUME DInv, TextInv, SerialInv, NEW w \in Workers, NEW o \in Orders, Start(w, o)
  PROVE  SerialInv'
<1>. Starts(w, o)
  BY StartDoes
<1>1. /\ UNCHANGED <<text, print, group, groupRow, known, toSend, sent, horizon, failed>>
      /\ \A v \in Workers \ {w} : tx'[v] = tx[v]
  BY DEF Starts, OthersWait, envVars, rowVars, sendVars
<1>2. /\ tx[w].step = "idle" /\ tx'[w].step = "mark" /\ tx'[w].order = o /\ tx'[w].text = text[o]
      /\ tx'[w].print = print[o] /\ tx'[w].loaded[o] = group[o] /\ ~tx'[w].new
  BY DEF Starts
<1>3. NoneMissed'
  <2>1. ASSUME NEW q \in known, print[q] = NoPrint PROVE Owed(q)'
    <3>1. Owed(q) /\ q \in Orders
      BY <2>1 DEF SerialInv, NoneMissed, DInv, TypeOK
    <3>2. CASE q = o
      BY <1>2, <3>2 DEF Owed, Open
    <3>3. CASE q # o
      <4>1. tasks'[q] = tasks[q]
        BY <3>1, <3>3 DEF Starts, DInv, TypeOK
      <4>2. ASSUME NEW v \in Workers, Open(v) PROVE tx'[v] = tx[v]
        BY <1>1, <1>2, <4>2 DEF Open
      <4>. QED BY <1>1, <3>1, <4>1, <4>2 DEF Owed, Open
    <3>. QED BY <3>2, <3>3
  <2>. QED BY <1>1, <2>1 DEF NoneMissed
<1>4. Works(w)'
  <2>1. Reads(tx[w])'
    BY <1>1, <1>2 DEF Reads
  <2>2. Aims(tx[w])'
    BY <1>2 DEF Aims
  <2>. QED BY <2>1, <2>2 DEF Works
<1>5. \A v \in Workers : Works(v)'
  BY <1>1, <1>4, AllWork DEF Recent
<1>. QED BY <1>1, <1>3, <1>5, SerialKept DEF Recent

\* The mark locks the order.
LEMMA SerialMarks ==
  ASSUME DInv, TextInv, SerialInv, NEW w \in Workers, Mark(w)
  PROVE  SerialInv'
<1>1. GoesOn(w)
  BY InnerStep DEF Inner
<1>2. UNCHANGED <<envVars, rowVars, tasks>>
  BY DEF Mark
<1>3. /\ tx[w].step = "mark" /\ tx'[w].step = "search" /\ tx'[w].loaded = tx[w].loaded
      /\ tx'[w].new = tx[w].new
  BY DEF Mark, DInv, TypeOK, TxStates
<1>4. Works(w)'
  <2>1. Reads(tx[w])'
    BY <1>1, <1>2, <1>3 DEF SerialInv, Works, Reads, GoesOn, envVars, rowVars
  <2>2. Aims(tx[w])'
    BY <1>3 DEF Aims
  <2>. QED BY <2>1, <2>2 DEF Works
<1>5. Open(w)'
  BY <1>3 DEF Open
<1>. QED BY <1>1, <1>2, <1>4, <1>5, SerialWorks

\* The search finds all that were detected, and only orders of the text.
LEMMA SerialSearches ==
  ASSUME DInv, TextInv, SerialInv, NEW w \in Workers, Search(w)
  PROVE  SerialInv'
<1>. DEFINE t == tx[w]
            found == Candidates(w)
<1>. Finds(w)
  BY SearchDoes
<1>1. GoesOn(w)
  BY InnerStep DEF Inner
<1>2. UNCHANGED <<envVars, rowVars, tasks>>
  BY DEF Finds, OthersWait
<1>3. UNCHANGED <<text, print, group, groupRow, horizon>>
  BY <1>2 DEF envVars, rowVars
<1>4. /\ t.step = "search" /\ t.order \in known /\ known \subseteq Orders /\ t.text \in Texts
      /\ t.target = NoGroup /\ t.text = text[t.order]
      /\ t.print = print[t.order] /\ t.loaded[t.order] = group[t.order] /\ ~t.new
  BY DEF Finds, DInv, TypeOK, TxOK, Running, Loads, SerialInv, Works, Reads, TextInv,
         StaysWithText
<1>5. /\ tx'[w].step = IF Cardinality(found) <= 1 THEN "write" ELSE "group"
      /\ tx'[w].cands = found /\ tx'[w].order = t.order /\ tx'[w].target = NoGroup
      /\ tx'[w].text = t.text /\ tx'[w].print = t.print /\ tx'[w].new = t.new
      /\ tx'[w].loaded = [q \in Orders |-> IF q \in found \ {t.order} THEN group[q]
                                           ELSE t.loaded[q]]
  <2>1. tx[w] \in TxStates
    BY DEF DInv, TxOK
  <2>. QED BY <1>4, <2>1 DEF Finds, TxStates
<1>6. found \subseteq known /\ t.order \in found
  BY <1>4 DEF Candidates
<1>7. \A q \in found : tx'[w].loaded[q] = group[q]
  <2>. HIDE DEF found
  <2>. QED BY <1>4, <1>5, <1>6
<1>8. ASSUME NEW q \in Detected, Norm(q) = t.text.norm PROVE q \in found
  BY <1>8 DEF Detected, Candidates, SerialInv, Detections, TextInv
<1>9. Cardinality(found) <= 1 => found = {t.order}
  <2>1. IsFiniteSet(found)
    BY <1>4, <1>6, RankAssumption, FS_Subset
  <2>2. Cardinality({t.order}) = 1 /\ IsFiniteSet({t.order})
    BY FS_Singleton
  <2>3. {t.order} \subseteq found
    BY <1>6
  <2>. HIDE DEF found
  <2>4. Cardinality({t.order}) <= Cardinality(found) /\ Cardinality(found) \in Nat
    BY <2>1, <2>3, FS_Subset, FS_CardinalityType
  <2>5. Cardinality(found) <= 1 => Cardinality({t.order}) = Cardinality(found)
    BY <2>2, <2>4
  <2>. QED BY <2>1, <2>3, <2>5, FS_Subset
<1>. HIDE DEF found
<1>10. Works(w)'
  <2>1. Detected' = Detected /\ \A q : Norm(q)' = Norm(q)
    BY <1>3 DEF Detected, Recent, Norm
  <2>2. Reads(tx[w])'
    BY <1>3, <1>4, <1>5, <1>7, <1>8, <2>1 DEF Reads
  <2>3. Aims(tx[w])'
    BY <1>5, <1>9 DEF Aims
  <2>. QED BY <2>2, <2>3 DEF Works
<1>11. Open(w)'
  BY <1>5 DEF Open
<1>. QED BY <1>1, <1>2, <1>10, <1>11, SerialWorks

\* It joins a group that a candidate is in, or founds one that nobody uses.
LEMMA SerialFindsGroup ==
  ASSUME DInv, TextInv, SerialInv, NEW w \in Workers, FindGroup(w)
  PROVE  SerialInv'
<1>. DEFINE t == tx[w]
<1>1. GoesOn(w)
  BY InnerStep DEF Inner
<1>2. UNCHANGED <<envVars, rowVars, tasks>>
  BY DEF FindGroup
<1>3. UNCHANGED <<text, print, group, groupRow, horizon>>
  BY <1>2 DEF envVars, rowVars
<1>4. t \in TxStates /\ t.step = "group" /\ Reads(t) /\ ~t.new /\ t.cands \subseteq Orders
  BY DEF FindGroup, DInv, TypeOK, TxOK, TxStates, SerialInv, Works, TextInv, StaysWithText
<1>5. (\E q \in t.cands : Joins(w, q)) \/ \E g \in Groups : Founds(w, g)
  BY FindGroupDoes
<1>6. /\ tx'[w].step = "write" /\ tx'[w].cands = t.cands /\ tx'[w].loaded = t.loaded
      /\ Aims(tx[w])'
  <2>1. ASSUME NEW q \in t.cands, Joins(w, q) PROVE <1>6!:
    <3>1. /\ tx'[w].step = "write" /\ tx'[w].cands = t.cands /\ tx'[w].loaded = t.loaded
          /\ tx'[w].target = t.loaded[q] /\ tx'[w].base = groupRow[t.loaded[q]]
          /\ tx'[w].new = t.new
      BY <1>4, <2>1 DEF Joins, TxStates
    <3>2. t.loaded[q] = group[q] /\ t.loaded[q] # NoGroup
      BY <1>4, <2>1 DEF Reads, Joins
    <3>3. Aims(tx[w])'
      BY <1>3, <1>4, <2>1, <3>1, <3>2 DEF Aims
    <3>. QED BY <3>1, <3>3
  <2>2. ASSUME NEW g \in Groups, Founds(w, g) PROVE <1>6!:
    <3>1. /\ tx'[w].step = "write" /\ tx'[w].cands = t.cands /\ tx'[w].loaded = t.loaded
          /\ tx'[w].target = g /\ tx'[w].new = TRUE
      BY <1>4, <2>2 DEF Founds, TxStates
    <3>2. Aims(tx[w])'
      BY <1>3, <2>2, <3>1, NameAssumption DEF Aims, Founds
    <3>. QED BY <3>1, <3>2
  <2>. QED BY <1>5, <2>1, <2>2
<1>7. Works(w)'
  <2>1. Detected' = Detected /\ \A q : Norm(q)' = Norm(q)
    BY <1>3 DEF Detected, Recent, Norm
  <2>2. Reads(tx[w])'
    BY <1>1, <1>3, <1>4, <1>6, <2>1 DEF Reads, GoesOn
  <2>. QED BY <1>6, <2>2 DEF Works
<1>8. Open(w)'
  BY <1>6 DEF Open
<1>. QED BY <1>1, <1>2, <1>7, <1>8, SerialWorks

\* A lost worker leaves its task in the queue; a failed one leaves a failure.
LEMMA SerialEnds ==
  ASSUME DInv, TextInv, SerialInv, NEW w \in Workers, Crash(w) \/ Victim(w)
  PROVE  SerialInv'
<1>1. /\ tx[w].step # "idle" /\ tx[w].order \in Orders
      /\ tx'[w] = IdleTx /\ \A v \in Workers \ {w} : tx'[v] = tx[v]
  BY Ending
<1>2. /\ UNCHANGED <<text, print, group, groupRow, known, toSend, sent, horizon>>
      /\ \/ tasks' = [tasks EXCEPT ![tx[w].order] = @ + 1] /\ failed' = failed
         \/ tasks' = tasks /\ failed' = failed \union {tx[w].order}
  BY DEF Crash, Victim, envVars, rowVars, sendVars
<1>3. NoneMissed'
  <2>1. ASSUME NEW o \in known, print[o] = NoPrint PROVE Owed(o)'
    <3>1. Owed(o) /\ o \in Orders
      BY <2>1 DEF SerialInv, NoneMissed, DInv, TypeOK
    <3>2. CASE o = tx[w].order
      <4>1. tasks'[o] > 0 \/ o \in failed'
        BY <1>1, <1>2, <3>2 DEF DInv, TypeOK
      <4>. QED BY <4>1 DEF Owed
    <3>3. CASE o # tx[w].order
      <4>1. tasks'[o] = tasks[o] /\ failed \subseteq failed'
        BY <1>1, <1>2, <3>1, <3>3 DEF DInv, TypeOK
      <4>2. ASSUME NEW v \in Workers, Open(v), tx[v].order = o PROVE tx'[v] = tx[v]
        BY <1>1, <3>3, <4>2
      <4>. QED BY <3>1, <4>1, <4>2 DEF Owed, Open
    <3>. QED BY <3>2, <3>3
  <2>. QED BY <1>2, <2>1 DEF NoneMissed
<1>4. Works(w)'
  <2>1. tx'[w].step = "idle"
    BY <1>1 DEF IdleTx
  <2>. QED BY <2>1 DEF Reads, Aims, Works
<1>5. \A v \in Workers : Works(v)'
  BY <1>1, <1>2, <1>4, AllWork DEF Recent
<1>. QED BY <1>2, <1>3, <1>5, SerialKept DEF Recent

\* Whoever is to be notified was detected.
LEMMA SerialPublishes ==
  ASSUME DInv, TextInv, SerialInv, NEW w \in Workers, Publish(w)
  PROVE  SerialInv'
<1>1. /\ tx'[w] = IdleTx /\ tx[w].step = "publish"
      /\ \A v \in Workers \ {w} : tx'[v] = tx[v]
  BY Ending DEF Publish
<1>2. /\ UNCHANGED <<text, print, group, groupRow, known, sent, horizon, tasks>>
      /\ failed' = failed \ {tx[w].order}
      /\ toSend' \subseteq toSend \union {tx[w].order}
  BY DEF Publish, envVars, rowVars
<1>3. print[tx[w].order] # NoPrint
  BY <1>1 DEF SerialInv, Works, Reads
<1>4. NoneMissed'
  <2>1. ASSUME NEW o \in known, print[o] = NoPrint PROVE Owed(o)'
    <3>1. Owed(o) /\ ~Open(w) /\ o # tx[w].order
      BY <1>1, <1>3, <2>1 DEF SerialInv, NoneMissed, Open
    <3>2. ASSUME NEW v \in Workers, Open(v) PROVE tx'[v] = tx[v]
      BY <1>1, <3>1, <3>2
    <3>. QED BY <1>2, <3>1, <3>2 DEF Owed, Open
  <2>. QED BY <1>2, <2>1 DEF NoneMissed
<1>5. Works(w)'
  <2>1. tx'[w].step = "idle"
    BY <1>1 DEF IdleTx
  <2>. QED BY <2>1 DEF Reads, Aims, Works
<1>6. \A v \in Workers : Works(v)'
  BY <1>1, <1>2, <1>5, AllWork DEF Recent
<1>. QED BY <1>2, <1>3, <1>4, <1>6, SerialKept DEF Recent

\* The commit puts all it has found into one group, led by the first of them.
LEMMA SerialCommits ==
  ASSUME NoRivals, DInv, TextInv, SerialInv, NEW w \in Workers, Commit(w)
  PROVE  SerialInv'
<1>. DEFINE t == tx[w]
            lead == Canonical(t.cands)
<1>1. /\ t \in TxStates /\ t.step = "write" /\ t.order \in known /\ t.order \in t.cands
      /\ t.cands \subseteq known /\ known \subseteq Orders /\ t.text \in Texts
      /\ t.text = text[t.order] /\ t.print = print[t.order]
      /\ t.target \in Groups \union {NoGroup}
  BY DEF Commit, DInv, TypeOK, TxOK, TxStates, Running, Searched, SerialInv, Works, Reads,
         TextInv, StaysWithText
<1>2. /\ \A q \in t.cands : t.loaded[q] = group[q] /\ Norm(q) = t.text.norm
      /\ \A q \in Detected : Norm(q) = t.text.norm => q \in t.cands
  BY <1>1 DEF SerialInv, Works, Reads, TextInv, StaysWithText
<1>3. /\ UNCHANGED <<text, known, toSend, sent, horizon, tasks, failed>>
      /\ \A v \in Workers \ {w} : tx'[v] = tx[v]
  BY DEF Commit, envVars, sendVars
<1>4. /\ tx'[w].step = "publish" /\ tx'[w].order = t.order /\ tx'[w].text = t.text
  BY <1>1 DEF Commit, DInv, TypeOK, TxStates
<1>5. lead \in t.cands /\ \A q \in t.cands : Rank[lead] <= Rank[q]
  <2>1. t.cands \in SUBSET Orders /\ t.cands # {}
    BY <1>1
  <2>. QED BY <2>1, CanonicalIsOne
<1>. HIDE DEF lead
\* The group that is written
<1>6. ASSUME t.target # NoGroup
      PROVE  groupRow'[t.target].canonical = lead
             /\ \A g \in Groups \ {t.target} : groupRow'[g] = groupRow[g]
  <2>1. groupRow' = [groupRow EXCEPT ![t.target] =
                       IF t.new THEN Result(w) ELSE Written(@, t.base, Result(w))]
    BY <1>6 DEF Commit
  <2>2. groupRow \in [Groups -> GroupRows] /\ t.target \in Groups
    BY <1>1, <1>6 DEF DInv, TypeOK
  <2>3. Result(w).canonical = lead
    BY DEF Result, lead
  <2>4. ~t.new => Written(groupRow[t.target], t.base, Result(w)).canonical = lead
    BY <1>1, <1>6, <2>3 DEF SerialInv, Works, Aims, Written
  <2>. QED BY <2>1, <2>2, <2>3, <2>4
<1>7. t.target = NoGroup => groupRow' = groupRow /\ t.cands = {t.order}
  BY <1>1 DEF Commit, SerialInv, Works, Aims
\* The orders that are in it
<1>8. \A q \in Orders : group'[q] = IF q \in t.cands THEN t.target ELSE group[q]
  BY <1>2 DEF Commit, Moved
<1>9. ASSUME NEW q \in Orders, group[q] = t.target, t.target # NoGroup
      PROVE  Norm(q) = t.text.norm
  <2>1. OfText(group[q], Norm(q))
    BY <1>9 DEF TextInv
  <2>2. OfText(t.target, t.text.norm)
    BY <1>1, <1>9, <2>1 DEF TextInv, StaysWithText, OfText
  <2>. QED BY <1>9, <2>1, <2>2 DEF OfText
<1>10. \A q : Norm(q)' = Norm(q)
  BY <1>3 DEF Norm
<1>11. ASSUME NEW q \in Orders, group'[q] # NoGroup, group'[q] = t.target
       PROVE  Leader(q)' = lead /\ Norm(q) = t.text.norm
  <2>1. Leader(q)' = lead
    BY <1>6, <1>11 DEF Leader
  <2>2. Norm(q) = t.text.norm
    BY <1>2, <1>8, <1>9, <1>11
  <2>. QED BY <2>1, <2>2
<1>12. ASSUME NEW q \in Orders, group'[q] # NoGroup, group'[q] # t.target
       PROVE  group'[q] = group[q] /\ Leader(q)' = Leader(q)
  <2>1. group'[q] = group[q]
    BY <1>8, <1>12
  <2>2. group[q] \in Groups
    BY <1>12, <2>1 DEF DInv, TypeOK
  <2>3. groupRow'[group[q]] = groupRow[group[q]]
    BY <1>12, <1>6, <1>7, <2>1, <2>2
  <2>. QED BY <2>1, <2>3 DEF Leader
\* The fingerprint
<1>13. \A o \in Orders : print'[o] = IF o = t.order THEN t.text.norm ELSE print[o]
  BY <1>1 DEF Commit, Marks, DInv, TypeOK
<1>14. t.text.norm # NoPrint /\ Norm(t.order) = t.text.norm /\ t.order \in Orders
  BY <1>1, TextAssumption DEF Norm
<1>15. Detections'
  <2>1. \A o \in Orders \ known : print'[o] = NoPrint
    BY <1>1, <1>13, <1>14 DEF SerialInv, Detections
  <2>2. \A o \in toSend \union sent : print'[o] # NoPrint
    BY <1>13, <1>14 DEF SerialInv, Detections, DInv, TypeOK
  <2>. QED BY <1>3, <2>1, <2>2 DEF Detections
<1>16. NoneMissed'
  <2>1. ASSUME NEW o \in known, print'[o] = NoPrint PROVE Owed(o)'
    <3>1. o \in Orders /\ o # t.order /\ print[o] = NoPrint
      BY <1>1, <1>13, <1>14, <2>1
    <3>2. Owed(o)
      BY <3>1 DEF SerialInv, NoneMissed
    <3>3. ASSUME NEW v \in Workers, Open(v), tx[v].order = o PROVE tx'[v] = tx[v]
      BY <1>3, <3>1, <3>3
    <3>. QED BY <1>3, <3>2, <3>3 DEF Owed, Open
  <2>. QED BY <1>3, <2>1 DEF NoneMissed
<1>17. Together'
  <2>1. \A o \in Detected' : o \in Orders /\ (o \in Detected \/ o = t.order)
    BY <1>3, <1>13 DEF Detected, Recent
  <2>2. ASSUME NEW o \in Detected', NEW q \in Detected', o # q, Norm(o) = Norm(q)
        PROVE  group'[o] # NoGroup /\ group'[o] = group'[q] /\ Rank[Leader(o)'] <= Rank[o]
    <3>1. CASE Norm(o) = t.text.norm
      <4>1. o \in t.cands /\ q \in t.cands
        BY <1>1, <1>2, <2>1, <2>2, <3>1
      <4>2. t.target # NoGroup
        BY <1>7, <2>2, <4>1
      <4>3. group'[o] = t.target /\ group'[q] = t.target
        BY <1>8, <2>1, <4>1
      <4>. QED BY <1>5, <1>11, <2>1, <3>1, <4>1, <4>2, <4>3
    <3>2. CASE Norm(o) # t.text.norm
      <4>1. o \in Detected /\ q \in Detected /\ o \notin t.cands /\ q \notin t.cands
        BY <1>2, <1>14, <2>1, <2>2, <3>2
      <4>2. group[o] # NoGroup /\ group[o] = group[q] /\ Rank[Leader(o)] <= Rank[o]
        BY <2>2, <4>1 DEF SerialInv, Together
      <4>3. group'[o] = group[o] /\ group'[q] = group[q]
        BY <1>8, <2>1, <4>1
      <4>4. group[o] # t.target
        BY <1>9, <2>1, <3>2, <4>2
      <4>5. Leader(o)' = Leader(o)
        BY <1>12, <2>1, <4>2, <4>3, <4>4
      <4>. QED BY <4>2, <4>3, <4>5
    <3>. QED BY <3>1, <3>2
  <2>. QED BY <1>10, <2>2 DEF Together
<1>18. Works(w)'
  <2>1. Reads(tx[w])'
    BY <1>1, <1>3, <1>4, <1>13, <1>14 DEF Reads
  <2>2. Aims(tx[w])'
    BY <1>4 DEF Aims
  <2>. QED BY <2>1, <2>2 DEF Works
\* The others are at work on other texts.
<1>19. ASSUME NEW v \in Workers \ {w} PROVE Works(v)'
  <2>. DEFINE u == tx[v]
  <2>1. /\ tx'[v] = u /\ Reads(u) /\ Aims(u) /\ StaysWithText(u) /\ u \in TxStates
        /\ u.step # "idle" => u.order \in Orders
    BY <1>3 DEF SerialInv, Works, TextInv, DInv, TypeOK, TxOK, Running
  <2>2. CASE ~Open(v)
    <3>1. u.step = "publish" => print'[u.order] # NoPrint
      BY <1>13, <1>14, <2>1 DEF Reads
    <3>2. u.step \in {"idle", "publish"}
      BY <2>1, <2>2 DEF Open, TxStates, Steps
    <3>. QED BY <2>1, <3>1, <3>2 DEF Works, Reads, Aims
  <2>3. CASE Open(v)
    <3>1. u.order \in Orders /\ Norm(u.order) = u.text.norm /\ u.text.norm # t.text.norm
      <4>1. Open(w) /\ u.step # "idle"
        BY <1>1, <2>3 DEF Open
      <4>. QED BY <2>1, <2>3, <4>1 DEF NoRivals, StaysWithText, Norm
    <3>2. u.order # t.order /\ print'[u.order] = print[u.order]
      BY <1>13, <1>14, <3>1
    <3>3. \A q \in Orders : Norm(q) = u.text.norm => q \notin t.cands /\ group'[q] = group[q]
      BY <1>2, <1>8, <3>1
    <3>4. ASSUME NEW q \in Detected', Norm(q) = u.text.norm PROVE q \in Detected
      BY <1>3, <1>13, <1>14, <3>1, <3>4 DEF Detected, Recent
    <3>5. u.step \in {"group", "write"} => u.cands \subseteq Orders
                                           /\ \A q \in u.cands : Norm(q) = u.text.norm
      BY <2>1 DEF StaysWithText, TxStates, DInv, TypeOK
    <3>6. Reads(u)'
      <4>1. \A q \in Detected' : Norm(q)' = u.text.norm => q \in Detected /\ Norm(q) = u.text.norm
        BY <1>10, <3>4
      <4>2. u.step \in {"mark", "search", "group", "write"} /\ u.step # "publish"
        BY <2>3 DEF Open
      <4>3. u.step \in {"group", "write"} =>
              /\ \A q \in u.cands : u.loaded[q] = group'[q]
              /\ \A q \in Detected' : Norm(q)' = u.text.norm => q \in u.cands
        BY <2>1, <3>3, <3>5, <4>1 DEF Reads
      <4>4. u.print = print'[u.order]
        BY <2>1, <3>2, <4>2 DEF Reads
      <4>5. u.step \in {"mark", "search"} => u.loaded[u.order] = group'[u.order]
        BY <2>1, <3>1, <3>3 DEF Reads
      <4>. QED BY <2>1, <4>2, <4>3, <4>4, <4>5 DEF Reads
    <3>7. Aims(u)'
      <4>1. SUFFICES ASSUME u.step = "write", u.target # NoGroup
                     PROVE  IF u.new THEN groupRow'[u.target] = NoRow
                            ELSE /\ u.base = groupRow'[u.target]
                                 /\ \E q \in u.cands : group'[q] = u.target
        BY <2>1 DEF Aims
      <4>2. u.target \in Groups
        BY <2>1, <4>1 DEF TxStates
      <4>3. u.target # t.target
        <5>1. CASE u.new /\ t.new
          BY <1>1, <4>1, <4>2, <5>1 DEF TextInv, NoneMakesAnothers, Makes
        <5>2. CASE u.new # t.new
          BY <1>1, <2>1, <4>1, <5>2 DEF TextInv, StaysWithText, OfText, TxStates
        <5>3. CASE ~u.new /\ ~t.new
          BY <1>1, <2>1, <3>1, <4>1, <5>3 DEF TextInv, StaysWithText, OfText
        <5>. QED BY <1>1, <2>1, <5>1, <5>2, <5>3 DEF TxStates
      <4>4. groupRow'[u.target] = groupRow[u.target]
        BY <1>6, <1>7, <4>2, <4>3
      <4>5. \A q \in u.cands : group'[q] = group[q]
        BY <3>3, <3>5, <4>1
      <4>. QED BY <2>1, <4>1, <4>4, <4>5 DEF Aims
    <3>. QED BY <2>1, <3>6, <3>7 DEF Works
  <2>. QED BY <2>2, <2>3
<1>. QED BY <1>15, <1>16, <1>17, <1>18, <1>19 DEF SerialInv

\* SerialInv holds at first and is kept.
LEMMA SerialInductive ==
  ASSUME SameFingerprint
  PROVE  Spec /\ []Unedited /\ []NoRivals => [](DInv /\ TextInv /\ SerialInv)
<1>1. Init => SerialInv
  <2> SUFFICES ASSUME Init PROVE SerialInv
    OBVIOUS
  <2>1. \A w \in Workers : tx[w].step = "idle"
    BY DEF Init, IdleTx
  <2>2. \A w \in Workers : Works(w)
    BY <2>1 DEF Works, Reads, Aims
  <2>. QED BY <2>2 DEF Init, SerialInv, Detections, NoneMissed, Together, Detected
<1>2. DInv /\ TextInv /\ SerialInv /\ NoRivals /\ Unedited' /\ [Next]_vars => SerialInv'
  <2> SUFFICES ASSUME DInv, TextInv, SerialInv, NoRivals, Unedited', [Next]_vars PROVE SerialInv'
    OBVIOUS
  <2>1. ASSUME NEW w \in Workers, Work(w) \/ Crash(w) PROVE SerialInv'
    BY <2>1, SerialMarks, SerialSearches, SerialFindsGroup, SerialWorld, SerialCommits, SerialPublishes,
       SerialEnds DEF Work
  <2>. QED BY <2>1, SerialWorld, SerialStarts DEF Next
<1>. QED BY <1>1, <1>2, TextInductive, PTL DEF Spec

\* Any workers, any number of orders of any texts, which may be processed again but are not
\* edited, wherever workers are lost and whoever gets too old meanwhile, as long as the
\* detections of one text do not overlap (those of different texts may): when all are
\* done and none failed, the orders of one text that are all recent are in one group,
\* whose canonical order is the first published of them.  Only one text may have a
\* fingerprint: an order of another could be canonical.
THEOREM SerialInOneGroup ==
  ASSUME SameFingerprint, \A t, u \in Texts : t.norm = u.norm => t.raw = u.raw
  PROVE  Spec /\ []Unedited /\ []NoRivals => []OneGroupInTheEnd
<1>1. DInv /\ TextInv /\ SerialInv => OneGroupInTheEnd
  <2> SUFFICES ASSUME DInv, TextInv, SerialInv, Quiet, failed = {}, NEW o \in known,
                      Cardinality(Alike(o)) > 1, \A q \in Alike(o) : Recent(q)
               PROVE  /\ group[o] # NoGroup
                      /\ groupRow[group[o]].canonical \in Alike(o)
                      /\ \A q \in Alike(o) : /\ group[q] = group[o]
                                              /\ Rank[groupRow[group[o]].canonical] <= Rank[q]
    BY DEF OneGroupInTheEnd
  <2>1. /\ known \subseteq Orders /\ \A q \in known : text[q] \in Texts
        /\ o \in Alike(o) /\ Alike(o) \subseteq known
    BY DEF DInv, TypeOK, Alike
  <2>2. \A q \in Alike(o) : q \in Detected /\ Norm(q) = Norm(o)
    <3> SUFFICES ASSUME NEW q \in Alike(o) PROVE q \in Detected /\ Norm(q) = Norm(o)
      OBVIOUS
    <3>1. ~Owed(q)
      BY <2>1 DEF Quiet, Owed, Open
    <3>2. print[q] # NoPrint
      BY <2>1, <3>1 DEF SerialInv, NoneMissed
    <3>3. Norm(q) = Norm(o)
      BY <2>1 DEF SameFingerprint, Norm, Alike
    <3>. QED BY <2>1, <3>2, <3>3 DEF Detected
  <2>3. PICK p \in Alike(o) : p # o
    <3>1. Cardinality({o}) = 1
      BY FS_Singleton
    <3>2. Alike(o) # {o}
      BY <3>1
    <3>. QED BY <2>1, <3>2
  <2>4. group[o] # NoGroup /\ Leader(o) \in known /\ Norm(Leader(o)) = Norm(o)
    <3>1. group[o] # NoGroup
      BY <2>1, <2>2, <2>3 DEF SerialInv, Together
    <3>. QED BY <2>1, <3>1 DEF TextInv, OfText, Leader
  <2>5. Leader(o) \in Alike(o)
    BY <2>1, <2>4 DEF Alike, Norm
  <2>6. ASSUME NEW q \in Alike(o) PROVE group[q] = group[o] /\ Rank[Leader(o)] <= Rank[q]
    <3>1. CASE q = o
      BY <2>1, <2>2, <2>3, <3>1 DEF SerialInv, Together
    <3>2. CASE q # o
      <4>1. group[q] = group[o] /\ Rank[Leader(q)] <= Rank[q]
        BY <2>1, <2>2, <3>2 DEF SerialInv, Together
      <4>. QED BY <4>1 DEF Leader
    <3>. QED BY <3>1, <3>2
  <2>. QED BY <2>4, <2>5, <2>6 DEF Leader
<1>. QED BY <1>1, SerialInductive, PTL

\* Under the same conditions no repost is notified after the original or an earlier repost
\* was, in whatever order they are detected, unless that is too old to be found.
THEOREM SerialStaysSilent ==
  ASSUME SameFingerprint
  PROVE  Spec /\ []Unedited /\ []NoRivals => LaterRepostsStaySilent
<1>. DEFINE Silent == \A o \in sent' \ sent, q \in sent :
                        Recent(q) /\ text[q].raw = text[o].raw => Rank[o] <= Rank[q]
<1>1. DInv /\ TextInv /\ SerialInv /\ [Next]_vars => Silent
  <2> SUFFICES ASSUME DInv, TextInv, SerialInv, [Next]_vars, NEW o \in sent' \ sent, NEW q \in sent,
                      Recent(q), text[q].raw = text[o].raw, q # o
               PROVE  Rank[o] <= Rank[q]
    OBVIOUS
  <2>1. PICK p \in Orders : Notify(p)
    BY OnlyNotifySends
  <2>2. o \in toSend /\ Notifiable(o)
    BY <2>1 DEF Notify
  <2>3. o \in Orders /\ q \in Orders /\ text[o] \in Texts /\ text[q] \in Texts
    BY <2>2 DEF DInv, TypeOK
  <2>4. o \in Detected /\ q \in Detected /\ Norm(o) = Norm(q)
    BY <2>2, <2>3 DEF SerialInv, Detections, Detected, Notifiable, SameFingerprint, Norm
  <2>5. group[o] # NoGroup /\ group[o] = group[q] /\ Rank[Leader(q)] <= Rank[q]
    BY <2>4 DEF SerialInv, Together
  <2>6. Leader(q) = o
    BY <2>2, <2>5 DEF Notifiable, Leader
  <2>. QED BY <2>5, <2>6
<1>. QED BY <1>1, SerialInductive, PTL DEF Spec, LaterRepostsStaySilent

=============================================================================

