------------------------- MODULE DuplicateDetection -------------------------
(***************************************************************************)
(* Detection of duplicate orders (app/services/deduplication.py), one      *)
(* READ COMMITTED transaction per Celery task, and the notification task   *)
(* it publishes.  Rows are locked from the UPDATE that writes them to the  *)
(* end of the transaction; the session flushes a dirty row before its next *)
(* query, updates orders in the order of their keys, and writes only       *)
(* columns whose value it changed.                                         *)
(*                                                                         *)
(* Semantic duplicates are left out: semantic_dedup_enabled is off by      *)
(* default.  So is the deletion of orders.                                 *)
(***************************************************************************)
EXTENDS Integers, FiniteSets

CONSTANTS
  Workers,
  Orders,
  Rank,        \* place in the order of choose_canonical_order, publication first
  Key,         \* place in the order of primary keys
  Texts,       \* what a message may say: content_hash (raw) and the payload of
  FirstText,   \*   the fingerprint (norm); what each says at first
  Groups,      \* ids of duplicate groups
  MaxEvents,   \* bounds: reclassifications,
  MaxCrashes,  \*   lost workers,
  MaxAge,      \*   and ranks that leave the freshness window
  NoWorker, NoOrder, NoGroup, NoPrint

ASSUME RankAssumption ==
  /\ IsFiniteSet(Orders)
  /\ Rank \in [Orders -> Nat \ {0}] /\ Key \in [Orders -> Nat]
  /\ \A o, q \in Orders : Rank[o] = Rank[q] \/ Key[o] = Key[q] => o = q
ASSUME TextAssumption ==
  /\ \A t \in Texts : t = [raw |-> t.raw, norm |-> t.norm] /\ t.norm # NoPrint
  /\ FirstText \in [Orders -> Texts]
ASSUME BoundAssumption == MaxEvents \in Nat /\ MaxCrashes \in Nat /\ MaxAge \in Nat
ASSUME NameAssumption ==
  NoWorker \notin Workers /\ NoOrder \notin Orders /\ NoGroup \notin Groups

VARIABLES
  known,      \* orders with a committed row
  text,       \* what their messages say
  print,      \* orders.duplicate_fingerprint
  group,      \* orders.duplicate_group_id
  groupRow,   \* duplicate_groups
  orderLock,  \* who holds the row of an order,
  groupLock,  \*   and that of a group
  tx,         \* the task and transaction of each worker
  tasks,      \* detection tasks queued for each order
  failed,     \* orders whose last detection failed
  toSend,     \* orders whose notification task is queued
  sent,       \* orders that were notified
  horizon,    \* ranks up to this one have left the freshness window
  events, crashes

rowVars == <<print, group, groupRow>>
lockVars == <<orderLock, groupLock>>
sendVars == <<toSend, sent>>
envVars == <<known, text, horizon, events>>
vars == <<known, text, print, group, groupRow, orderLock, groupLock, tx, tasks,
          failed, toSend, sent, horizon, events, crashes>>

NoRow == [canonical |-> NoOrder, size |-> 0]
Recent(o) == Rank[o] > horizon

IdleTx == [step |-> "idle", order |-> NoOrder, text |-> NoPrint, print |-> NoPrint,
           cands |-> {}, loaded |-> [o \in Orders |-> NoGroup],
           target |-> NoGroup, base |-> NoRow, new |-> FALSE]

Init ==
  /\ known = {} /\ text = FirstText
  /\ print = [o \in Orders |-> NoPrint]
  /\ group = [o \in Orders |-> NoGroup]
  /\ groupRow = [g \in Groups |-> NoRow]
  /\ orderLock = [o \in Orders |-> NoWorker] /\ groupLock = [g \in Groups |-> NoWorker]
  /\ tx = [w \in Workers |-> IdleTx]
  /\ tasks = [o \in Orders |-> 0]
  /\ failed = {} /\ toSend = {} /\ sent = {}
  /\ horizon = 0 /\ events = 0 /\ crashes = 0

-----------------------------------------------------------------------------
(* The environment *)

\* Classification commits a new order and publishes its detection.
Arrive(o) ==
  /\ o \notin known
  /\ known' = known \union {o}
  /\ tasks' = [tasks EXCEPT ![o] = @ + 1]
  /\ UNCHANGED <<text, rowVars, lockVars, tx, failed, sendVars, horizon, events, crashes>>

\* A message is processed again, with its old text or an edited one.
Reclassify(o, t) ==
  /\ o \in known /\ events < MaxEvents
  /\ text' = [text EXCEPT ![o] = t]
  /\ tasks' = [tasks EXCEPT ![o] = @ + 1]
  /\ events' = events + 1
  /\ UNCHANGED <<known, rowVars, lockVars, tx, failed, sendVars, horizon, crashes>>

Age ==
  /\ horizon < MaxAge
  /\ horizon' = horizon + 1
  /\ UNCHANGED <<known, text, rowVars, lockVars, tx, tasks, failed, sendVars, events, crashes>>

\* get_notifiable_order_card: the order is the canonical one of its group, or in none.
Notifiable(o) ==
  /\ Recent(o)
  /\ group[o] = NoGroup \/ groupRow[group[o]].canonical = o

\* The notification task of an order (NotificationDelivery has the details)
Notify(o) ==
  /\ o \in toSend
  /\ toSend' = toSend \ {o}
  /\ sent' = IF Notifiable(o) THEN sent \union {o} ELSE sent
  /\ UNCHANGED <<envVars, rowVars, lockVars, tx, tasks, failed, crashes>>

-----------------------------------------------------------------------------
(* One detection task *)

\* The task is taken; its order and message are read.
Start(w, o) ==
  /\ tx[w].step = "idle" /\ tasks[o] > 0
  /\ tasks' = [tasks EXCEPT ![o] = @ - 1]
  /\ tx' = [tx EXCEPT ![w] = [IdleTx EXCEPT
       !.step = "mark", !.order = o, !.text = text[o], !.print = print[o],
       !.loaded[o] = group[o]]]
  /\ UNCHANGED <<envVars, rowVars, lockVars, failed, sendVars, crashes>>

\* The order gets its fingerprint, if it had another one.
Marks(w) == tx[w].print # tx[w].text.norm

\* The session does not flush before the next query.
Mark_Mutant(w) ==
  /\ tx[w].step = "mark"
  /\ tx' = [tx EXCEPT ![w].step = "search"]
  /\ UNCHANGED <<envVars, rowVars, lockVars, tasks, failed, sendVars, crashes>>

\* The UPDATE the session flushes before the next query: it locks the order.
Mark(w) ==
  /\ tx[w].step = "mark"
  /\ \/ /\ Marks(w) /\ orderLock[tx[w].order] = NoWorker
        /\ orderLock' = [orderLock EXCEPT ![tx[w].order] = w]
     \/ ~Marks(w) /\ UNCHANGED orderLock
  /\ tx' = [tx EXCEPT ![w].step = "search"]
  /\ UNCHANGED <<envVars, rowVars, groupLock, tasks, failed, sendVars, crashes>>

\* find_duplicate_candidates: what others have not committed is not seen.
Candidates(w) ==
  {q \in known : /\ Recent(q)
                 /\ print[q] = tx[w].text.norm \/ text[q].raw = tx[w].text.raw}
    \union {tx[w].order}

\* An order alone leaves its group.  The row of the order itself is not refreshed.
Search(w) ==
  /\ tx[w].step = "search"
  /\ LET found == Candidates(w) IN
     tx' = [tx EXCEPT
       ![w].step = IF Cardinality(found) <= 1 THEN "write" ELSE "group",
       ![w].cands = found,
       ![w].loaded = [q \in Orders |-> IF q \in found \ {tx[w].order} THEN group[q]
                                       ELSE @[q]]]
  /\ UNCHANGED <<envVars, rowVars, lockVars, tasks, failed, sendVars, crashes>>

\* choose_canonical_order, latest first
Canonical_Mutant(S) == CHOOSE o \in S : \A q \in S : Rank[o] >= Rank[q]

Canonical(S) == CHOOSE o \in S : \A q \in S : Rank[o] <= Rank[q]

\* upsert_duplicate_group as far as its first flush: the group of any candidate
\* that has one, otherwise a new one.
FindGroup(w) ==
  LET grouped == {q \in tx[w].cands : tx[w].loaded[q] # NoGroup}
      Unused(g) == groupRow[g] = NoRow /\ \A v \in Workers : tx[v].target # g
  IN
  /\ tx[w].step = "group"
  /\ \/ \E q \in grouped :
          LET g == tx[w].loaded[q] IN
          tx' = [tx EXCEPT ![w].step = "write", ![w].target = g, ![w].base = groupRow[g]]
     \/ /\ grouped = {} /\ \E g \in Groups : Unused(g)
        /\ tx' = [tx EXCEPT ![w].step = "write", ![w].new = TRUE,
                            ![w].target = CHOOSE g \in Groups : Unused(g)]
  /\ UNCHANGED <<envVars, rowVars, lockVars, tasks, failed, sendVars, crashes>>

\* What the transaction writes: the row of its group, and the orders that move.
Result(w) == [canonical |-> Canonical(tx[w].cands), size |-> Cardinality(tx[w].cands)]
Moved(w) == {q \in tx[w].cands : tx[w].loaded[q] # tx[w].target}

\* The rows it has still to lock: first the group, then the orders by their keys.
GroupToLock(w) ==
  /\ tx[w].step = "write" /\ tx[w].target # NoGroup /\ ~tx[w].new
  /\ tx[w].base # Result(w) /\ groupLock[tx[w].target] # w
OrdersToLock(w) ==
  IF tx[w].step = "write" /\ ~GroupToLock(w)
  THEN {q \in Moved(w) : orderLock[q] # w} ELSE {}
NextOrder(w) ==
  CHOOSE o \in OrdersToLock(w) : \A q \in OrdersToLock(w) : Key[o] <= Key[q]

LockGroup(w) ==
  /\ GroupToLock(w) /\ groupLock[tx[w].target] = NoWorker
  /\ groupLock' = [groupLock EXCEPT ![tx[w].target] = w]
  /\ UNCHANGED <<envVars, rowVars, orderLock, tx, tasks, failed, sendVars, crashes>>

LockOrder(w) ==
  /\ OrdersToLock(w) # {} /\ orderLock[NextOrder(w)] = NoWorker
  /\ orderLock' = [orderLock EXCEPT ![NextOrder(w)] = w]
  /\ UNCHANGED <<envVars, rowVars, groupLock, tx, tasks, failed, sendVars, crashes>>

Unlock(w) ==
  /\ orderLock' = [o \in Orders |-> IF orderLock[o] = w THEN NoWorker ELSE orderLock[o]]
  /\ groupLock' = [g \in Groups |-> IF groupLock[g] = w THEN NoWorker ELSE groupLock[g]]

\* The row of an existing group gets the columns that differ from those loaded.
Written(row, base, result) ==
  [canonical |-> IF base.canonical # result.canonical THEN result.canonical ELSE row.canonical,
   size |-> IF base.size # result.size THEN result.size ELSE row.size]

\* The group is never inserted.
Commit_Mutant(w) ==
  /\ tx[w].step = "write" /\ ~GroupToLock(w) /\ OrdersToLock(w) = {}
  /\ group' = [q \in Orders |-> IF q \in Moved(w) THEN tx[w].target ELSE group[q]]
  /\ Unlock(w)
  /\ tx' = [tx EXCEPT ![w].step = "publish"]
  /\ UNCHANGED <<envVars, print, groupRow, tasks, failed, sendVars, crashes>>

Commit(w) ==
  LET t == tx[w] IN
  /\ t.step = "write" /\ ~GroupToLock(w) /\ OrdersToLock(w) = {}
  /\ print' = IF Marks(w) THEN [print EXCEPT ![t.order] = t.text.norm] ELSE print
  /\ group' = [q \in Orders |-> IF q \in Moved(w) THEN t.target ELSE group[q]]
  /\ groupRow' = IF t.target = NoGroup THEN groupRow
                 ELSE [groupRow EXCEPT ![t.target] =
                         IF t.new THEN Result(w) ELSE Written(@, t.base, Result(w))]
  /\ Unlock(w)
  /\ tx' = [tx EXCEPT ![w].step = "publish"]
  /\ UNCHANGED <<envVars, tasks, failed, sendVars, crashes>>

\* detect_duplicates_task after the commit: the canonical order is to be notified.
Publish(w) ==
  /\ tx[w].step = "publish"
  /\ toSend' = IF Canonical(tx[w].cands) = tx[w].order
               THEN toSend \union {tx[w].order} ELSE toSend
  /\ failed' = failed \ {tx[w].order}
  /\ tx' = [tx EXCEPT ![w] = IdleTx]
  /\ UNCHANGED <<envVars, rowVars, lockVars, tasks, sent, crashes>>

-----------------------------------------------------------------------------
(* Failures *)

\* Who holds the row that w needs next
WaitsFor(w) ==
  IF tx[w].step = "mark" /\ Marks(w) THEN orderLock[tx[w].order]
  ELSE IF GroupToLock(w) THEN groupLock[tx[w].target]
  ELSE IF OrdersToLock(w) # {} THEN orderLock[NextOrder(w)]
  ELSE NoWorker

\* Workers of whom each is waited for by another of them wait for each other.
InCycle(w) == \E C \in SUBSET Workers : w \in C /\ {WaitsFor(v) : v \in C} = C

\* PostgreSQL breaks a deadlock by failing one of its transactions.  The task is not
\* retried: its error is none of autoretry_for.
Victim(w) ==
  /\ InCycle(w)
  /\ Unlock(w)
  /\ tx' = [tx EXCEPT ![w] = IdleTx]
  /\ failed' = failed \union {tx[w].order}
  /\ UNCHANGED <<envVars, rowVars, tasks, sendVars, crashes>>

\* Acknowledged before it runs
Crash_Mutant(w) ==
  /\ tx[w].step # "idle" /\ crashes < MaxCrashes
  /\ crashes' = crashes + 1
  /\ Unlock(w)
  /\ tx' = [tx EXCEPT ![w] = IdleTx]
  /\ UNCHANGED <<envVars, rowVars, tasks, failed, sendVars>>

\* The process is lost; what it did not commit rolls back, its task is redelivered.
Crash(w) ==
  /\ tx[w].step # "idle" /\ crashes < MaxCrashes
  /\ crashes' = crashes + 1
  /\ Unlock(w)
  /\ tx' = [tx EXCEPT ![w] = IdleTx]
  /\ tasks' = [tasks EXCEPT ![tx[w].order] = @ + 1]
  /\ UNCHANGED <<envVars, rowVars, failed, sendVars>>

-----------------------------------------------------------------------------

Work(w) ==
  \/ Mark(w) \/ Search(w) \/ FindGroup(w) \/ LockGroup(w) \/ LockOrder(w)
  \/ Commit(w) \/ Publish(w) \/ Victim(w)

Next ==
  \/ \E o \in Orders : Arrive(o) \/ Notify(o)
  \/ \E o \in Orders, t \in Texts : Reclassify(o, t)
  \/ Age
  \/ \E w \in Workers, o \in Orders : Start(w, o)
  \/ \E w \in Workers : Work(w) \/ Crash(w)

Spec == Init /\ [][Next]_vars

\* A running task keeps running, and the queues are served.
Fairness ==
  /\ \A w \in Workers : WF_vars(Work(w))
  /\ \A o \in Orders : WF_vars(\E w \in Workers : Start(w, o)) /\ WF_vars(Notify(o))

FairSpec == Spec /\ Fairness

-----------------------------------------------------------------------------
(* Properties *)

Steps == {"idle", "mark", "search", "group", "write", "publish"}
GroupRows == [canonical : Orders \union {NoOrder}, size : Nat]
Prints == {t.norm : t \in Texts} \union {NoPrint}
TxStates ==
  [step : Steps, order : Orders \union {NoOrder}, text : Texts \union {NoPrint},
   print : Prints, cands : SUBSET known,
   loaded : [Orders -> Groups \union {NoGroup}], target : Groups \union {NoGroup},
   base : GroupRows, new : BOOLEAN]

\* Every variable keeps its type, and an order names a group that exists.
TypeOK ==
  /\ known \subseteq Orders /\ text \in [Orders -> Texts]
  /\ print \in [Orders -> Prints]
  /\ group \in [Orders -> {g \in Groups : groupRow[g] # NoRow} \union {NoGroup}]
  /\ groupRow \in [Groups -> GroupRows]
  /\ orderLock \in [Orders -> Workers \union {NoWorker}]
  /\ groupLock \in [Groups -> Workers \union {NoWorker}]
  /\ tx \in [Workers -> TxStates]
  /\ tasks \in [Orders -> Nat]
  /\ failed \subseteq known /\ toSend \subseteq known /\ sent \subseteq known
  /\ horizon \in Nat /\ events \in Nat /\ crashes \in Nat

\* Messages with the same text
Alike(o) == {q \in known : text[q].raw = text[o].raw}

Quiet == \A o \in Orders : tasks[o] = 0 /\ \A w \in Workers : tx[w].step = "idle"

\* Although no detection sees what another has not committed, once all have run the
\* orders of one text are in one group, and the first published is its canonical
\* order, unless a detection failed or one of them left the freshness window.  If two
\* workers were lost, two detections may run again, lock nothing before they search, as
\* the fingerprints are there, and one adds to a group that the other has just left.
OneGroupInTheEnd ==
  Quiet /\ failed = {} /\ crashes <= 1 =>
    \A o \in known :
      Cardinality(Alike(o)) > 1 /\ (\A q \in Alike(o) : Recent(q)) =>
        /\ group[o] # NoGroup
        /\ groupRow[group[o]].canonical \in Alike(o)
        /\ \A q \in Alike(o) :
             group[q] = group[o] /\ Rank[groupRow[group[o]].canonical] <= Rank[q]

\* A repost is not notified after the original, or an earlier repost, was, unless
\* that has left the freshness window.
LaterRepostsStaySilent ==
  [][\A o \in sent' \ sent, q \in sent :
       Recent(q) /\ text[q].raw = text[o].raw => Rank[o] <= Rank[q]]_vars

\* Every order is notified, or one of its duplicates is, unless a detection of one
\* of them failed or one of them got too old.
SomebodyIsNotified ==
  \A o \in Orders :
    o \in known ~> \/ Alike(o) \intersect (sent \union failed) # {}
                   \/ \E q \in Alike(o) : ~Recent(q)

=============================================================================
