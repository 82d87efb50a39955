--------------------------- MODULE OrderLifecycle ---------------------------
(***************************************************************************)
(* The order of one message: the row of table orders that belongs to it,   *)
(* and everybody who writes it.                                            *)
(*                                                                         *)
(*   update_order_status    operators through the API and the bot          *)
(*                          (src/app/services/orders.py, bot/services.py)  *)
(*   persist_order          the classification task, which creates, renews *)
(*                          or deletes the order of a message              *)
(*                          (src/app/services/order_classification.py)     *)
(*   _archive_stale_orders  the hourly task (src/app/workers/tasks.py)     *)
(*                                                                         *)
(* Each runs in a READ COMMITTED transaction of its own.  A session reads  *)
(* the row, decides, and at its flush updates by primary key the columns   *)
(* it assigned a value other than the one it had loaded; an UPDATE that    *)
(* meets no row raises StaleDataError.  Reading and writing are separate   *)
(* actions; writing and commit are one, for the row stays locked between.  *)
(***************************************************************************)
EXTENDS Integers, FiniteSets

CONSTANTS
  Sessions,     \* API requests and bot callbacks that may be open at once
  Classifiers,  \* Celery processes that consume the classification queue
  Favourites, Deliveries,  \* rows that may come to refer to the order
  FreshDays,    \* settings.relevance_freshness_days
  ArchiveDays,  \* the seven days of _archive_stale_orders
  MaxAge, MaxEvents, MaxCrashes    \* bounds of the model

ASSUME BoundsAssumption ==
  FreshDays \in Nat /\ ArchiveDays \in Nat /\ MaxAge \in Nat
    /\ MaxEvents \in Nat /\ MaxCrashes \in Nat

VARIABLES
  row,        \* the committed row; id 0 when the message has no order
  lastId,     \* the last id given to an order
  refs,       \* committed favourites and deliveries of the row
  wanted,     \* whether the text of the message reads as an order
  deleted,    \* messages.deleted_at is set
  age,        \* days since published_at
  tasks,      \* classification tasks in the broker
  events,     \* edits and deletions of the message so far
  crashes,    \* classification processes lost so far
  session,    \* what each operator session does: phase, loaded row, new status
  classifier, \* what each classifier does: phase, loaded row, decision, children
  retired     \* history: the archiver took the row

msgVars == <<wanted, deleted, age, events>>
vars == <<row, lastId, refs, msgVars, tasks, crashes, session, classifier, retired>>

References == Favourites \union Deliveries

Statuses == {"new", "viewed", "contacted", "irrelevant", "archived"}

\* ALLOWED_STATUS_TRANSITIONS
Allowed ==
  [new        |-> {"viewed", "contacted", "irrelevant", "archived"},
   viewed     |-> {"contacted", "irrelevant", "archived"},
   contacted  |-> {"archived", "irrelevant"},
   irrelevant |-> {"archived"},
   archived   |-> {}]

Rows == [id : Nat, status : Statuses, version : Nat, fresh : BOOLEAN]
NoRow == [id |-> 0, status |-> "new", version |-> 0, fresh |-> FALSE]
Exists(r) == r.id # 0

SessionStates == [phase : {"idle", "loaded"}, loaded : Rows, next : Statuses]
ClassifierStates ==
  [phase : {"idle", "decided", "deleting"}, loaded : Rows, create : BOOLEAN,
   children : SUBSET References]

IdleSession == [phase |-> "idle", loaded |-> NoRow, next |-> "new"]
IdleClassifier == [phase |-> "idle", loaded |-> NoRow, create |-> FALSE, children |-> {}]

Init ==
  /\ row = NoRow /\ lastId = 0 /\ refs = {}
  /\ wanted \in BOOLEAN /\ deleted = FALSE /\ age = 0
  /\ tasks = 1
  /\ events = 0 /\ crashes = 0
  /\ session = [s \in Sessions |-> IdleSession]
  /\ classifier = [c \in Classifiers |-> IdleClassifier]
  /\ retired = FALSE

-----------------------------------------------------------------------------
(* The message: what the collector commits, each time publishing its tasks *)

Grow ==
  /\ age < MaxAge
  /\ age' = age + 1
  /\ UNCHANGED <<row, lastId, refs, wanted, deleted, events, tasks, crashes,
                 session, classifier, retired>>

\* A new text, or new counters under the same text
Edit ==
  /\ ~deleted /\ events < MaxEvents
  /\ wanted' \in BOOLEAN
  /\ tasks' = tasks + 1
  /\ events' = events + 1
  /\ UNCHANGED <<row, lastId, refs, deleted, age, crashes, session, classifier, retired>>

DeleteMessage ==
  /\ ~deleted /\ events < MaxEvents
  /\ deleted' = TRUE
  /\ tasks' = tasks + 1
  /\ events' = events + 1
  /\ UNCHANGED <<row, lastId, refs, wanted, age, crashes, session, classifier, retired>>

-----------------------------------------------------------------------------
(* Operators *)

\* update_order_status up to its checks: the order exists, has the version the
\* request names, and may take the status it asks for.  The bot passes the
\* version it has just read.
Open(s, next) ==
  /\ session[s].phase = "idle"
  /\ Exists(row) /\ next \in Allowed[row.status]
  /\ session' = [session EXCEPT ![s] = [phase |-> "loaded", loaded |-> row, next |-> next]]
  /\ UNCHANGED <<row, lastId, refs, msgVars, tasks, crashes, classifier, retired>>

Save(s) ==
  /\ session[s].phase = "loaded"
  /\ row' = IF row.id = session[s].loaded.id
            THEN [row EXCEPT !.status = session[s].next, !.version = session[s].loaded.version + 1]
            ELSE row
  /\ session' = [session EXCEPT ![s] = IdleSession]
  /\ UNCHANGED <<lastId, refs, msgVars, tasks, crashes, classifier, retired>>

\* add_favorite, or a delivery of send_order_notification
AddReference(r) ==
  /\ Exists(row) /\ r \notin refs
  /\ refs' = refs \union {r}
  /\ UNCHANGED <<row, lastId, msgVars, tasks, crashes, session, classifier, retired>>

RemoveFavourite(r) ==
  /\ r \in refs
  /\ refs' = refs \ {r}
  /\ UNCHANGED <<row, lastId, msgVars, tasks, crashes, session, classifier, retired>>

-----------------------------------------------------------------------------
(* The archiver *)

Archivable == age > ArchiveDays /\ Exists(row) /\ row.status # "archived"

\* Takes an order once
Archive_Mutant ==
  /\ Archivable /\ row.fresh
  /\ row' = [row EXCEPT !.status = "archived", !.fresh = FALSE]
  /\ retired' = TRUE
  /\ UNCHANGED <<lastId, refs, msgVars, tasks, crashes, session, classifier>>

\* One UPDATE: neither reads the version nor advances it.
Archive ==
  /\ Archivable
  /\ row' = [row EXCEPT !.status = "archived", !.fresh = FALSE]
  /\ retired' = TRUE
  /\ UNCHANGED <<lastId, refs, msgVars, tasks, crashes, session, classifier>>

-----------------------------------------------------------------------------
(* The classifier *)

\* The message, its entities and its order are read, and should_create_order
\* decides.  deleted_at is not looked at.
Read(c) ==
  /\ classifier[c].phase = "idle" /\ tasks > 0
  /\ tasks' = tasks - 1
  /\ classifier' = [classifier EXCEPT ![c] =
       [phase |-> "decided", loaded |-> row, create |-> wanted /\ age <= FreshDays,
        children |-> {}]]
  /\ UNCHANGED <<row, lastId, refs, msgVars, crashes, session, retired>>

Stop(c) == classifier' = [classifier EXCEPT ![c] = IdleClassifier]

\* Acknowledged before it runs
Crash_Mutant(c) ==
  /\ classifier[c].phase # "idle" /\ crashes < MaxCrashes
  /\ crashes' = crashes + 1
  /\ Stop(c)
  /\ UNCHANGED <<row, lastId, refs, msgVars, tasks, session, retired>>

\* The process is lost; its transaction rolls back and its task is redelivered.
Crash(c) ==
  /\ classifier[c].phase # "idle" /\ crashes < MaxCrashes
  /\ crashes' = crashes + 1
  /\ tasks' = tasks + 1
  /\ Stop(c)
  /\ UNCHANGED <<row, lastId, refs, msgVars, session, retired>>

\* INSERT.  If another task has inserted the order of this message since, the
\* unique message_id fails this one.
Create(c) ==
  /\ classifier[c].phase = "decided" /\ classifier[c].create
  /\ ~Exists(classifier[c].loaded)
  /\ \/ /\ ~Exists(row)
        /\ lastId' = lastId + 1
        /\ row' = [id |-> lastId + 1, status |-> "new", version |-> 1, fresh |-> TRUE]
        /\ retired' = FALSE
     \/ /\ Exists(row)
        /\ UNCHANGED <<row, lastId, retired>>
  /\ Stop(c)
  /\ UNCHANGED <<refs, msgVars, tasks, crashes, session>>

\* Writes every column, changed or not
Renew_Mutant(c) ==
  LET old == classifier[c].loaded IN
  /\ classifier[c].phase = "decided" /\ classifier[c].create
  /\ Exists(old)
  /\ row' = IF row.id = old.id
            THEN [row EXCEPT !.status = "new", !.fresh = TRUE, !.version = old.version + 1]
            ELSE row
  /\ Stop(c)
  /\ UNCHANGED <<lastId, refs, msgVars, tasks, crashes, session, retired>>

\* UPDATE: the payload says new and fresh, and is written where the loaded row
\* said something else.
Renew(c) ==
  LET old == classifier[c].loaded IN
  /\ classifier[c].phase = "decided" /\ classifier[c].create
  /\ Exists(old)
  /\ row' = IF row.id = old.id
            THEN [row EXCEPT !.status = IF old.status = "new" THEN @ ELSE "new",
                             !.fresh = IF old.fresh THEN @ ELSE TRUE,
                             !.version = old.version + 1]
            ELSE row
  /\ Stop(c)
  /\ UNCHANGED <<lastId, refs, msgVars, tasks, crashes, session, retired>>

\* Not an order, and there is none
Dismiss(c) ==
  /\ classifier[c].phase = "decided" /\ ~classifier[c].create
  /\ ~Exists(classifier[c].loaded)
  /\ Stop(c)
  /\ UNCHANGED <<row, lastId, refs, msgVars, tasks, crashes, session, retired>>

\* session.delete: the flush first loads the favourites and deliveries of the order
LoadChildren(c) ==
  /\ classifier[c].phase = "decided" /\ ~classifier[c].create
  /\ Exists(classifier[c].loaded)
  /\ classifier' = [classifier EXCEPT ![c].phase = "deleting",
       ![c].children = IF row.id = classifier[c].loaded.id THEN refs ELSE {}]
  /\ UNCHANGED <<row, lastId, refs, msgVars, tasks, crashes, session, retired>>

\* It then clears the order_id of each, which is NOT NULL: IntegrityError, and
\* the task fails for good.
DeleteRefused(c) ==
  /\ classifier[c].phase = "deleting" /\ classifier[c].children # {}
  /\ Stop(c)
  /\ UNCHANGED <<row, lastId, refs, msgVars, tasks, crashes, session, retired>>

\* With none loaded it deletes the row, and ON DELETE CASCADE whatever refers to it
\* by now.
Delete(c) ==
  /\ classifier[c].phase = "deleting" /\ classifier[c].children = {}
  /\ \/ /\ row.id = classifier[c].loaded.id
        /\ row' = NoRow /\ refs' = {} /\ retired' = FALSE
     \/ /\ row.id # classifier[c].loaded.id
        /\ UNCHANGED <<row, refs, retired>>
  /\ Stop(c)
  /\ UNCHANGED <<lastId, msgVars, tasks, crashes, session>>

-----------------------------------------------------------------------------

Work(c) ==
  \/ Create(c) \/ Renew(c) \/ Dismiss(c)
  \/ LoadChildren(c) \/ DeleteRefused(c) \/ Delete(c)

Next ==
  \/ Grow \/ Edit \/ DeleteMessage \/ Archive
  \/ \E s \in Sessions : Save(s) \/ \E next \in Statuses : Open(s, next)
  \/ \E r \in References : AddReference(r)
  \/ \E r \in Favourites : RemoveFavourite(r)
  \/ \E c \in Classifiers : Read(c) \/ Crash(c) \/ Work(c)

Spec == Init /\ [][Next]_vars

\* Sessions and tasks that run keep running, a free worker takes a waiting task,
\* and beat publishes the archiving task every hour.
Fairness ==
  /\ \A s \in Sessions : WF_vars(Save(s))
  /\ WF_vars(\E c \in Classifiers : Read(c))
  /\ \A c \in Classifiers : WF_vars(Work(c))
  /\ WF_vars(Archive)

FairSpec == Spec /\ Fairness

-----------------------------------------------------------------------------
(* Properties *)

\* Every variable keeps its type.
TypeOK ==
  /\ row \in Rows /\ lastId \in Nat /\ refs \subseteq References
  /\ row.id <= lastId
  /\ wanted \in BOOLEAN /\ deleted \in BOOLEAN /\ age \in Nat
  /\ tasks \in Nat /\ events \in Nat /\ crashes \in Nat
  /\ session \in [Sessions -> SessionStates]
  /\ classifier \in [Classifiers -> ClassifierStates]
  /\ retired \in BOOLEAN

\* An order that the archiver took is never fresh again, so get_notifiable_order_card
\* never shows it, although an operator or a classification that read it
\* before may still give it back a live status.
RetiredStaysStale == retired => ~row.fresh

\* Whatever status a late writer gives back to an order past its seven days, it ends
\* archived or deleted, and stays so.
StaleEndsArchived ==
  age > ArchiveDays ~> [](Exists(row) => row.status = "archived")

\* A message whose text is no order (any longer) ends with no order, unless it
\* becomes one again.
EditTakesEffect == ~wanted ~> (wanted \/ []~Exists(row))

\* Optimistic locking as the API and the specification (FR-18) promise it: a change
\* is only saved on the version it was requested for.
SavedOnItsVersion ==
  [][\A s \in Sessions :
       session[s].phase = "loaded" /\ session'[s].phase = "idle" /\ row' # row
         => row.version = session[s].loaded.version]_vars

=============================================================================
