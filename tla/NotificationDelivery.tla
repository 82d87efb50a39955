------------------------ MODULE NotificationDelivery ------------------------
(***************************************************************************)
(* Delivery of Telegram notifications about orders: the two Celery tasks   *)
(* of the "notifications" queue and the table notification_deliveries.     *)
(*                                                                         *)
(*   send_notification_task                -> send_order_notification      *)
(*   process_deferred_notifications_task   -> process_deferred_notifications*)
(*                                                                         *)
(* (src/app/bot/services.py).  A worker is one Celery process; it runs one *)
(* task at a time in one READ COMMITTED transaction that it commits after  *)
(* every recipient.  Each await that another worker can interleave with    *)
(* ends an action.  Tasks are acknowledged late and requeued when the      *)
(* worker dies (src/app/workers/celery_app.py).                            *)
(***************************************************************************)
EXTENDS Integers, FiniteSets

CONSTANTS
  Workers,      \* Celery processes that consume the notifications queue
  Orders,
  Users,        \* active users with a chat id: resolve_bot_recipients
  Matching,     \* <<order, user>> pairs that some subscription of the user matches
  QuietEnd,     \* QuietEnd[u][t]: t outside u's quiet hours, else when they end
  Fingerprint,  \* orders.duplicate_fingerprint
  Quota,        \* max_notifications_per_period of each user, or Unlimited
  Period,       \* rate_limit_period_minutes
  Cooldown,     \* similar_cooldown_minutes of each user, or Unlimited
  MaxRetries,   \* settings.bot_send_max_retries
  BatchLimit,   \* LIMIT of the deferred query (100)
  LossyReplies, \* whether Telegram may deliver a message and lose the reply
  MaxTime, MaxTasks, MaxCrashes, MaxChanges,   \* bounds of the model
  NoWorker, NoPair, NoTask, Deferred, Unlimited

Pairs == Orders \X Users
Times == 0 .. MaxTime

ASSUME BoundsAssumption ==
  /\ MaxTime \in Nat /\ MaxTasks \in Nat /\ MaxCrashes \in Nat /\ MaxChanges \in Nat
  /\ MaxRetries \in Nat /\ Period \in Nat /\ BatchLimit \in Nat \ {0}
  /\ LossyReplies \in BOOLEAN

ASSUME SettingsAssumption ==
  /\ Matching \subseteq Pairs
  /\ QuietEnd \in [Users -> [Times -> Nat]]
  /\ Quota \in [Users -> Nat \union {Unlimited}]
  /\ Cooldown \in [Users -> Nat \union {Unlimited}]
  /\ Unlimited \notin Nat

\* There are some workers, and orders are rows of a table.
ASSUME SizesAssumption ==
  IsFiniteSet(Workers) /\ Workers # {} /\ IsFiniteSet(Orders)

ASSUME NamesAssumption ==
  /\ NoWorker \notin Workers
  /\ NoPair \notin Pairs
  /\ NoTask \notin Orders /\ Deferred \notin Orders /\ NoTask # Deferred

VARIABLES
  time,         \* the wall clock
  pending,      \* send tasks of each order waiting in the broker
  issued,       \* send tasks ever published
  crashes,      \* worker processes lost so far
  changes,      \* changes of orders and subscriptions so far
  notifiable,   \* orders whose card get_notifiable_order_card would return
  enabled,      \* users whose subscriptions are enabled
  status,       \* notification_deliveries.status of the committed row, "none" if absent
  scheduled,    \* scheduled_for
  sentAt,       \* sent_at
  inserter,     \* the open transaction that holds an uncommitted insert
  task,         \* what each worker runs: an order, Deferred or NoTask
  pc,           \* where it is
  now,          \* the clock it read when the task started
  todo,         \* pairs it has not looked at yet
  at,           \* the pair it works on
  tries,        \* attempts of send_with_retry so far
  result,       \* outcome it is about to commit
  held,         \* the order a deferred run keeps alive in its identity map
  sends,        \* history: messages Telegram delivered
  excused,      \* history: deliveries no commit recorded (crash, lost reply)
  everDeferred  \* history: pairs whose row was ever deferred

envVars    == <<pending, issued, crashes, changes, notifiable, enabled>>
rowVars    == <<status, scheduled, sentAt, everDeferred>>
workVars   == <<task, now, todo, tries, result, held>>
ghostVars  == <<sends, excused>>
vars == <<time, envVars, rowVars, inserter, workVars, pc, at, ghostVars>>

Statuses == {"none", "sent", "failed", "skipped", "deferred"}
Places == {"idle", "next", "lookup", "insert", "decide", "attempt", "commit"}

Min2(a, b) == IF a < b THEN a ELSE b

Goto(w, place) == pc' = [pc EXCEPT ![w] = place]

Init ==
  /\ time = 0
  /\ pending = [o \in Orders |-> 0]
  /\ issued = 0 /\ crashes = 0 /\ changes = 0
  /\ notifiable = Orders
  /\ enabled = Users
  /\ status = [p \in Pairs |-> "none"]
  /\ scheduled = [p \in Pairs |-> 0]
  /\ sentAt = [p \in Pairs |-> 0]
  /\ inserter = [p \in Pairs |-> NoWorker]
  /\ task = [w \in Workers |-> NoTask]
  /\ pc = [w \in Workers |-> "idle"]
  /\ now = [w \in Workers |-> 0]
  /\ todo = [w \in Workers |-> {}]
  /\ at = [w \in Workers |-> NoPair]
  /\ tries = [w \in Workers |-> 0]
  /\ result = [w \in Workers |-> "none"]
  /\ held = [w \in Workers |-> NoTask]
  /\ sends = [p \in Pairs |-> 0]
  /\ excused = [p \in Pairs |-> 0]
  /\ everDeferred = {}

-----------------------------------------------------------------------------
(* The environment *)

Tick ==
  /\ time < MaxTime
  /\ time' = time + 1
  /\ UNCHANGED <<envVars, rowVars, inserter, workVars, pc, at, ghostVars>>

\* detect_duplicates_task publishes a send task for a canonical order; it does
\* so again each time the order's message is processed again.
Publish(o) ==
  /\ issued < MaxTasks
  /\ issued' = issued + 1
  /\ pending' = [pending EXCEPT ![o] = @ + 1]
  /\ UNCHANGED <<time, crashes, changes, notifiable, enabled, rowVars,
                 inserter, workVars, pc, at, ghostVars>>

\* Archived, irrelevant, stale or no longer canonical; or made new again.
ChangeOrder(o) ==
  /\ changes < MaxChanges
  /\ changes' = changes + 1
  /\ notifiable' = IF o \in notifiable THEN notifiable \ {o} ELSE notifiable \union {o}
  /\ UNCHANGED <<time, pending, issued, crashes, enabled, rowVars, inserter,
                 workVars, pc, at, ghostVars>>

ChangeSubscription(u) ==
  /\ changes < MaxChanges
  /\ changes' = changes + 1
  /\ enabled' = IF u \in enabled THEN enabled \ {u} ELSE enabled \union {u}
  /\ UNCHANGED <<time, pending, issued, crashes, notifiable, rowVars, inserter,
                 workVars, pc, at, ghostVars>>

-----------------------------------------------------------------------------
(* Starting and ending a task *)

\* send_order_notification: no card, nothing to do
SkipOrder(w, o) ==
  /\ pc[w] = "idle" /\ pending[o] > 0
  /\ o \notin notifiable
  /\ pending' = [pending EXCEPT ![o] = @ - 1]
  /\ UNCHANGED <<time, issued, crashes, changes, notifiable, enabled, rowVars,
                 inserter, workVars, pc, at, ghostVars>>

StartSend(w, o) ==
  /\ pc[w] = "idle" /\ pending[o] > 0
  /\ o \in notifiable
  /\ pending' = [pending EXCEPT ![o] = @ - 1]
  /\ task' = [task EXCEPT ![w] = o]
  /\ now' = [now EXCEPT ![w] = time]
  /\ todo' = [todo EXCEPT ![w] = {o} \X Users]
  /\ Goto(w, "next")
  /\ UNCHANGED <<time, issued, crashes, changes, notifiable, enabled, rowVars,
                 inserter, at, tries, result, held, ghostVars>>

Due(p) == status[p] = "deferred" /\ scheduled[p] <= time

\* (Operators whose name ends in _Mutant are wrong variants of the definition after
\* them; PROJECT.json names the property that notices each.)
\* A strict comparison with scheduled_for
DueBatch_Mutant(S) ==
  /\ S \subseteq {p \in Pairs : Due(p) /\ scheduled[p] < time}
  /\ Cardinality(S) = Min2(BatchLimit, Cardinality({p \in Pairs : Due(p) /\ scheduled[p] < time}))

\* The oldest BatchLimit rows that are due.
DueBatch(S) ==
  /\ S \subseteq {p \in Pairs : Due(p)}
  /\ Cardinality(S) = Min2(BatchLimit, Cardinality({p \in Pairs : Due(p)}))
  /\ \A p \in S, q \in Pairs \ S : Due(q) => scheduled[p] <= scheduled[q]

\* Beat publishes the task every minute, whether or not the last one has ended.
StartDeferred(w) ==
  /\ pc[w] = "idle"
  /\ \E S \in SUBSET Pairs \ {{}} :
       /\ DueBatch(S)
       /\ todo' = [todo EXCEPT ![w] = S]
  /\ task' = [task EXCEPT ![w] = Deferred]
  /\ now' = [now EXCEPT ![w] = time]
  /\ Goto(w, "next")
  /\ UNCHANGED <<time, envVars, rowVars, inserter, at, tries, result, held, ghostVars>>

\* What a task leaves behind when it ends or its process is lost: the rollback
\* of its open transaction.
Leave(w) ==
  /\ task' = [task EXCEPT ![w] = NoTask]
  /\ todo' = [todo EXCEPT ![w] = {}]
  /\ at' = [at EXCEPT ![w] = NoPair]
  /\ tries' = [tries EXCEPT ![w] = 0]
  /\ result' = [result EXCEPT ![w] = "none"]
  /\ held' = [held EXCEPT ![w] = NoTask]
  /\ inserter' = [p \in Pairs |-> IF inserter[p] = w THEN NoWorker ELSE inserter[p]]
  /\ Goto(w, "idle")

Finish(w) ==
  /\ pc[w] = "next" /\ todo[w] = {}
  /\ Leave(w)
  /\ UNCHANGED <<time, envVars, rowVars, now, ghostVars>>

LoseWorker(w, backlog) ==
  /\ pc[w] # "idle" /\ crashes < MaxCrashes
  /\ crashes' = crashes + 1
  /\ pending' = backlog
  /\ excused' = IF pc[w] = "commit" /\ result[w] = "sent"
                THEN [excused EXCEPT ![at[w]] = @ + 1] ELSE excused
  /\ Leave(w)
  /\ UNCHANGED <<time, issued, changes, notifiable, enabled, rowVars, now, sends>>

\* Acknowledged before it runs: a lost worker loses its task.
Crash_Mutant(w) == LoseWorker(w, pending)

\* acks_late and reject_on_worker_lost: a send task goes back to the broker.  A
\* deferred run goes back too, which is one more of the runs beat publishes.
Crash(w) ==
  LoseWorker(w, IF task[w] \in Orders THEN [pending EXCEPT ![task[w]] = @ + 1] ELSE pending)

-----------------------------------------------------------------------------
(* One recipient of send_order_notification *)

\* The rows is_rate_limited counts: committed, sent to the user since the cutoff
SentSince(w, u) ==
  {o \in Orders : status[<<o, u>>] = "sent" /\ sentAt[<<o, u>>] >= now[w] - Period}

\* Off by one
RateLimited_Mutant(w, u) ==
  Quota[u] # Unlimited /\ Cardinality(SentSince(w, u)) > Quota[u]

RateLimited(w, u) ==
  Quota[u] # Unlimited /\ Cardinality(SentSince(w, u)) >= Quota[u]

\* is_similar_cooldown_active: another order with this fingerprint was sent
CoolingDown(w, p) ==
  /\ Cooldown[p[2]] # Unlimited
  /\ \E o \in Orders \ {p[1]} :
       /\ Fingerprint[o] = Fingerprint[p[1]]
       /\ status[<<o, p[2]>>] = "sent"
       /\ sentAt[<<o, p[2]>>] >= now[w] - Cooldown[p[2]]

Admitted(w, p) ==
  /\ p \in Matching /\ p[2] \in enabled
  /\ ~RateLimited(w, p[2])
  /\ ~CoolingDown(w, p)

SkipRecipient(w, p) ==
  /\ pc[w] = "next" /\ task[w] \in Orders /\ p \in todo[w]
  /\ ~Admitted(w, p)
  /\ todo' = [todo EXCEPT ![w] = @ \ {p}]
  /\ UNCHANGED <<time, envVars, rowVars, inserter, task, now, tries, result,
                 held, pc, at, ghostVars>>

Admit(w, p) ==
  /\ pc[w] = "next" /\ task[w] \in Orders /\ p \in todo[w]
  /\ Admitted(w, p)
  /\ todo' = [todo EXCEPT ![w] = @ \ {p}]
  /\ at' = [at EXCEPT ![w] = p]
  /\ Goto(w, "lookup")
  /\ UNCHANGED <<time, envVars, rowVars, inserter, task, now, tries, result, held, ghostVars>>

\* The SELECT of get_or_create_delivery and the test on the row it found
Lookup(w) ==
  LET p == at[w] IN
  /\ pc[w] = "lookup"
  /\ \/ /\ status[p] = "none"
        /\ Goto(w, "insert")
        /\ at' = at
     \/ /\ status[p] = "deferred" /\ scheduled[p] <= now[w]
        /\ Goto(w, "decide")
        /\ at' = at
     \/ /\ status[p] # "none" /\ ~(status[p] = "deferred" /\ scheduled[p] <= now[w])
        /\ Goto(w, "next")
        /\ at' = [at EXCEPT ![w] = NoPair]
  /\ UNCHANGED <<time, envVars, rowVars, inserter, workVars, ghostVars>>

\* No unique index
Insert_Mutant(w) ==
  /\ pc[w] = "insert"
  /\ inserter' = [inserter EXCEPT ![at[w]] = w]
  /\ Goto(w, "decide")
  /\ UNCHANGED <<time, envVars, rowVars, workVars, at, ghostVars>>

\* The INSERT of get_or_create_delivery.  The unique index makes it wait while
\* another open transaction holds the same key.
Insert(w) ==
  /\ pc[w] = "insert"
  /\ status[at[w]] = "none" /\ inserter[at[w]] = NoWorker
  /\ inserter' = [inserter EXCEPT ![at[w]] = w]
  /\ Goto(w, "decide")
  /\ UNCHANGED <<time, envVars, rowVars, workVars, at, ghostVars>>

\* IntegrityError: the task fails and is acknowledged, its other recipients with it
InsertConflict(w) ==
  /\ pc[w] = "insert"
  /\ status[at[w]] # "none"
  /\ Leave(w)
  /\ UNCHANGED <<time, envVars, rowVars, now, ghostVars>>

\* Goes on to the next recipient without the commit
Defer_Mutant(w) ==
  /\ pc[w] = "decide" /\ QuietEnd[at[w][2]][now[w]] > now[w]
  /\ at' = [at EXCEPT ![w] = NoPair]
  /\ Goto(w, "next")
  /\ UNCHANGED <<time, envVars, rowVars, inserter, workVars, ghostVars>>

\* In quiet hours, by the clock read when the task started.  A row found "deferred"
\* is assigned the status it was loaded with, which the session does not write: if
\* another worker has sent it since, it stays "sent".
Defer(w) ==
  LET p == at[w]
      end == QuietEnd[p[2]][now[w]]
  IN
  /\ pc[w] = "decide"
  /\ end > now[w]
  /\ status' = [status EXCEPT ![p] = IF inserter[p] = w THEN "deferred" ELSE @]
  /\ scheduled' = [scheduled EXCEPT ![p] = end]
  /\ everDeferred' = everDeferred \union {p}
  /\ inserter' = [inserter EXCEPT ![p] = NoWorker]
  /\ at' = [at EXCEPT ![w] = NoPair]
  /\ Goto(w, "next")
  /\ UNCHANGED <<time, envVars, sentAt, workVars, ghostVars>>

SendNow(w) ==
  /\ pc[w] = "decide"
  /\ QuietEnd[at[w][2]][now[w]] <= now[w]
  /\ Goto(w, "attempt")
  /\ UNCHANGED <<time, envVars, rowVars, inserter, workVars, at, ghostVars>>

-----------------------------------------------------------------------------
(* One row of process_deferred_notifications *)

\* The card is None.  get_notifiable_order_card reads the order through the
\* session, so an order the run still holds may show its earlier state.
SkipDeferred(w, p) ==
  /\ pc[w] = "next" /\ task[w] = Deferred /\ p \in todo[w]
  /\ p[1] \notin notifiable
  /\ status' = [status EXCEPT ![p] = "skipped"]
  /\ todo' = [todo EXCEPT ![w] = @ \ {p}]
  /\ UNCHANGED <<time, envVars, scheduled, sentAt, everDeferred, inserter,
                 task, now, tries, result, held, pc, at, ghostVars>>

TakeDeferred(w, p) ==
  /\ pc[w] = "next" /\ task[w] = Deferred /\ p \in todo[w]
  /\ p[1] \in notifiable \/ held[w] = p[1]
  /\ todo' = [todo EXCEPT ![w] = @ \ {p}]
  /\ at' = [at EXCEPT ![w] = p]
  /\ Goto(w, "attempt")
  /\ UNCHANGED <<time, envVars, rowVars, inserter, task, now, tries, result, held, ghostVars>>

-----------------------------------------------------------------------------
(* send_with_retry and the commit after it, for both tasks *)

Delivered(w) ==
  /\ pc[w] = "attempt" /\ tries[w] < MaxRetries
  /\ sends' = [sends EXCEPT ![at[w]] = @ + 1]
  /\ result' = [result EXCEPT ![w] = "sent"]
  /\ Goto(w, "commit")
  /\ UNCHANGED <<time, envVars, rowVars, inserter, task, now, todo, tries, held, at, excused>>

\* The send raises: refused by Telegram, or delivered with the reply lost
SendError(w) ==
  /\ pc[w] = "attempt" /\ tries[w] < MaxRetries
  /\ tries' = [tries EXCEPT ![w] = @ + 1]
  /\ \/ UNCHANGED <<sends, excused>>
     \/ /\ LossyReplies
        /\ sends' = [sends EXCEPT ![at[w]] = @ + 1]
        /\ excused' = [excused EXCEPT ![at[w]] = @ + 1]
  /\ UNCHANGED <<time, envVars, rowVars, inserter, task, now, todo, result, held, pc, at>>

\* Out of attempts: the last error is raised again
GiveUp(w) ==
  /\ pc[w] = "attempt" /\ tries[w] >= MaxRetries
  /\ result' = [result EXCEPT ![w] = IF MaxRetries = 0 THEN "empty" ELSE "failed"]
  /\ Goto(w, "commit")
  /\ UNCHANGED <<time, envVars, rowVars, inserter, task, now, todo, tries, held, at, ghostVars>>

\* "empty": with no attempt allowed there is no error to raise, and the row
\* is recorded as sent.
CommitResult(w) ==
  LET p == at[w]
      success == result[w] \in {"sent", "empty"}
  IN
  /\ pc[w] = "commit"
  /\ status' = [status EXCEPT ![p] = IF success THEN "sent" ELSE "failed"]
  /\ sentAt' = IF success THEN [sentAt EXCEPT ![p] = time] ELSE sentAt
  /\ scheduled' = IF success THEN [scheduled EXCEPT ![p] = 0] ELSE scheduled
  /\ inserter' = [inserter EXCEPT ![p] = IF @ = w THEN NoWorker ELSE @]
  /\ held' = IF success /\ task[w] = Deferred THEN [held EXCEPT ![w] = p[1]] ELSE held
  /\ tries' = [tries EXCEPT ![w] = 0]
  /\ result' = [result EXCEPT ![w] = "none"]
  /\ at' = [at EXCEPT ![w] = NoPair]
  /\ Goto(w, "next")
  /\ UNCHANGED <<time, envVars, everDeferred, task, now, todo, ghostVars>>

-----------------------------------------------------------------------------

Step(w) ==
  \/ Finish(w)
  \/ \E p \in Pairs : SkipRecipient(w, p) \/ Admit(w, p)
  \/ Lookup(w) \/ Insert(w) \/ InsertConflict(w)
  \/ Defer(w) \/ SendNow(w)
  \/ \E p \in Pairs : SkipDeferred(w, p) \/ TakeDeferred(w, p)
  \/ Delivered(w) \/ SendError(w) \/ GiveUp(w) \/ CommitResult(w)

TakeOrder(o) == \E w \in Workers : SkipOrder(w, o) \/ StartSend(w, o)

Environment ==
  \/ Tick
  \/ \E o \in Orders : Publish(o) \/ ChangeOrder(o)
  \/ \E u \in Users : ChangeSubscription(u)

Next ==
  \/ Environment
  \/ \E o \in Orders : TakeOrder(o)
  \/ \E w \in Workers : StartDeferred(w) \/ Crash(w) \/ Step(w)

Spec == Init /\ [][Next]_vars

\* A worker that runs keeps running.  The broker serves the queue in turn, so a
\* task that idle workers keep meeting is taken, and beat publishes a deferred
\* run every minute.
Fairness ==
  /\ \A w \in Workers : WF_vars(Step(w))
  /\ \A o \in Orders : SF_vars(TakeOrder(o))
  /\ SF_vars(\E w \in Workers : StartDeferred(w))

FairSpec == Spec /\ Fairness

-----------------------------------------------------------------------------
(* Properties *)

\* Every variable keeps its type; a row is never committed as "queued".
TypeOK ==
  /\ time \in Times
  /\ pending \in [Orders -> Nat]
  /\ issued \in Nat /\ crashes \in Nat /\ changes \in Nat
  /\ notifiable \subseteq Orders /\ enabled \subseteq Users
  /\ status \in [Pairs -> Statuses]
  /\ scheduled \in [Pairs -> Nat]
  /\ sentAt \in [Pairs -> Times]
  /\ inserter \in [Pairs -> Workers \union {NoWorker}]
  /\ task \in [Workers -> Orders \union {Deferred, NoTask}]
  /\ pc \in [Workers -> Places]
  /\ now \in [Workers -> Times]
  /\ todo \in [Workers -> SUBSET Pairs]
  /\ at \in [Workers -> Pairs \union {NoPair}]
  /\ \A w \in Workers : at[w] = NoPair <=> pc[w] \in {"idle", "next"}
  /\ tries \in [Workers -> Nat]
  /\ result \in [Workers -> {"none", "sent", "failed", "empty"}]
  /\ held \in [Workers -> Orders \union {NoTask}]
  /\ sends \in [Pairs -> Nat] /\ excused \in [Pairs -> Nat]
  /\ everDeferred \subseteq Pairs

\* The unique index makes send tasks of one order safe against each other: a
\* notification that was never deferred is delivered at most once, save for one
\* more delivery per crash or lost reply that kept an earlier one unrecorded.
AtMostOnceUnlessDeferred ==
  \A p \in Pairs \ everDeferred : sends[p] <= 1 + excused[p]

\* Nothing is recorded as sent that Telegram never delivered, whichever task
\* recorded it.  (bot_send_max_retries = 0 records "sent" without an attempt.)
SentRowWasDelivered ==
  MaxRetries > 0 => \A p \in Pairs : status[p] = "sent" => sends[p] > 0

\* A transaction that others wait for on the unique index is past its own
\* insert: waits never form a cycle, so PostgreSQL never has one to break.
HolderNeverWaits ==
  \A w \in Workers :
    (pc[w] = "insert" /\ inserter[at[w]] # NoWorker)
      => pc[inserter[at[w]]] \in {"decide", "attempt", "commit"}

\* max_notifications_per_period is checked before the row is committed as sent,
\* so concurrent tasks overshoot it; never by more than the other workers.
SentInPeriod(u) ==
  {o \in Orders : /\ <<o, u>> \notin everDeferred
                  /\ status[<<o, u>>] = "sent"
                  /\ sentAt[<<o, u>>] >= time - Period}

QuotaOvershootBounded ==
  \A u \in Users : Quota[u] # Unlimited =>
    Cardinality(SentInPeriod(u)) <= Quota[u] + Cardinality(Workers) - 1

\* Likewise similar_cooldown_minutes: at most one notification per worker about
\* orders with one fingerprint.
SimilarOvershootBounded ==
  \A u \in Users, o \in Orders : Cooldown[u] # Unlimited =>
    Cardinality({q \in Orders : /\ Fingerprint[q] = Fingerprint[o]
                                /\ <<q, u>> \notin everDeferred
                                /\ status[<<q, u>>] = "sent"
                                /\ sentAt[<<q, u>>] >= time - Cooldown[u]})
      <= Cardinality(Workers)

\* Both limits are read before anything is committed as sent; however the tasks
\* overlap, a user gets no more than these notifications too many.
LimitsOvershootBounded == QuotaOvershootBounded /\ SimilarOvershootBounded

\* A recorded outcome is never rewritten, unless the row was once deferred.
OutcomeIsFinal ==
  [][\A p \in Pairs \ everDeferred :
       status[p] \in {"sent", "failed"} => status'[p] = status[p]]_vars

\* The attempt at a notification is the open transaction that has inserted its row.
Attempt ==
  [p \in Pairs |->
     IF inserter[p] = NoWorker THEN "none"
     ELSE IF pc[inserter[p]] = "commit" /\ result[inserter[p]] = "sent" THEN "delivered"
     ELSE "open"]

Ledger == INSTANCE DeliveryLedger WITH
  row <- status, attempt <- Attempt, messages <- sends, unrecorded <- excused,
  putOff <- everDeferred

\* Whatever workers interleave, crash and repeat, seen from outside there is one
\* attempt at a time and its outcome is recorded once: the two tasks implement the
\* ledger.
FollowsLedger == Ledger!LedgerSpec

\* A deferred notification whose time has come is sent, failed, skipped or put
\* off again: the minute-by-minute run gets to it although workers crash.
DueIsServed == \A p \in Pairs : Due(p) ~> ~Due(p)

\* A published task reaches every subscriber: the IntegrityError that ends one
\* of two concurrent tasks, or a crash, loses nobody, unless the order stops being
\* notifiable or the subscription does not ask for it.
EveryRecipientHandled ==
  \A p \in Matching :
    pending[p[1]] > 0 ~> \/ status[p] # "none"
                         \/ p[1] \notin notifiable
                         \/ p[2] \notin enabled

\* Claimed by docs/tg-order-radar-spec.md 16.3 (the dedup_key makes sending again
\* impossible) and by docs/adr/0001 (nor does a worker restart).
NeverSentTwice == \A p \in Pairs : sends[p] <= 1

=============================================================================
