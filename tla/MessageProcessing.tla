------------------------- MODULE MessageProcessing --------------------------
(***************************************************************************)
(* Processing of stored messages (app/services/message_processing.py): a   *)
(* worker loads the row and the dictionaries, matches them, replaces the   *)
(* entities of the message, commits, and publishes its classification      *)
(* (app/workers/tasks.py); with the retries and dead letters of the tasks  *)
(* (app/workers/celery_app.py, dead_letter.py).  The collector commits the *)
(* messages first and publishes their tasks afterwards, and may be lost in *)
(* between.                                                                *)
(*                                                                         *)
(* A transaction locks the row only if it changes it.  Its DELETE removes  *)
(* the entities that were committed when it was executed.                  *)
(***************************************************************************)
EXTENDS Dictionaries

CONSTANTS
  Messages,
  MaxRetries,  \* celery_task_max_retries
  MaxCollections, MaxFailures  \* bounds: changes the collector stores; failures

ASSUME ProcessingAssumption ==
  MaxCollections \in Nat /\ MaxRetries \in Nat /\ MaxFailures \in Nat

VARIABLES
  text,       \* messages: the version of the text, none if 0,
  outcome,    \*   and what runs have written to the row: no normalised text if 0
  stored,     \* collections that have committed a message and not published it
  entities,   \* runs of each worker whose entities are stored
  queued,     \* tasks: a message and the retries so far
  job,        \* the task of each worker
  classified, \* texts of messages whose classification was published
  failed,     \* messages with a row in failed_tasks
  unlocked,   \* history: messages two runs overlapped on, one of them without the lock
  unrecorded, \* history: messages of failures that could not be recorded
  unpublished, \* history: messages no worker has loaded since a collector of theirs was lost
  collections, failures

messageVars == <<text, outcome, stored, entities, queued, job, classified, failed, unlocked,
                 unrecorded, unpublished, collections, failures>>
vars == <<table, cache, edit, read, tainted, collided, edits, misses, text, outcome, stored,
          entities, queued, job, classified, failed, unlocked, unrecorded, unpublished,
          collections, failures>>
endings == <<failed, unrecorded>>
collecting == <<stored, unpublished>>
counts == <<collections, failures>>

Unprocessed == [text |-> 0, passed |-> FALSE]
Task(m, retries) == [message |-> m, retries |-> retries]
IdleJob == [step |-> "idle", task |-> Task(Missing, 0), text |-> 0, row |-> Unprocessed,
            result |-> Unprocessed, dropped |-> [w \in Readers |-> 0]]

Init ==
  /\ DictInit
  /\ text = [m \in Messages |-> 0] /\ outcome = [m \in Messages |-> Unprocessed]
  /\ entities = [m \in Messages |-> [w \in Readers |-> 0]] /\ stored = {}
  /\ queued = {} /\ job = [w \in Readers |-> IdleJob]
  /\ classified = {} /\ failed = {} /\ unlocked = {}
  /\ unrecorded = {} /\ unpublished = {}
  /\ collections = 0 /\ failures = 0

\* A new message or a new text; or another change of the row, with which the normalised text
\* is overwritten by the raw one, if the message is still there and the two differ.
Collected(m) ==
  /\ collections < MaxCollections /\ collections' = collections + 1
  /\ \/ /\ text' = [text EXCEPT ![m] = @ + 1]
        /\ outcome' = [outcome EXCEPT ![m].text = 0]
     \/ /\ text[m] > 0 /\ UNCHANGED text
        /\ \/ outcome' = [outcome EXCEPT ![m].text = 0]
           \/ UNCHANGED outcome
  /\ stored' = stored \union {<<m, collections>>}
  /\ UNCHANGED <<dictVars, entities, queued, job, classified, unlocked, unpublished, endings,
                 failures>>

\* enqueue_message_processing, after the commit
Enqueue(s) ==
  /\ s \in stored /\ stored' = stored \ {s}
  /\ queued' = queued \union {Task(s[1], 0)}
  /\ UNCHANGED <<dictVars, text, outcome, entities, job, classified, unlocked, unpublished,
                 endings, counts>>

\* A collector that is redelivered sees nothing new in what it has stored.
LoseCollector(s) ==
  /\ failures < MaxFailures /\ failures' = failures + 1
  /\ s \in stored /\ stored' = stored \ {s}
  /\ unpublished' = unpublished \union {s[1]}
  /\ UNCHANGED <<dictVars, text, outcome, entities, queued, job, classified, unlocked,
                 endings, collections>>

\* With the dictionaries of the task before
Take_Mutant(w) ==
  /\ job[w].step = "idle"
  /\ \E task \in queued :
       /\ queued' = queued \ {task}
       /\ job' = [job EXCEPT ![w] =
            [IdleJob EXCEPT !.step = "read", !.task = task, !.text = text[task.message],
                            !.row = outcome[task.message]]]
       /\ unpublished' = unpublished \ {task.message}
  /\ UNCHANGED <<dictVars, text, outcome, stored, entities, classified, unlocked, endings,
                 counts>>

Take(w) ==
  /\ job[w].step = "idle"
  /\ \E task \in queued :
       /\ queued' = queued \ {task}
       /\ job' = [job EXCEPT ![w] =
            [IdleJob EXCEPT !.step = "read", !.task = task, !.text = text[task.message],
                            !.row = outcome[task.message]]]
       /\ unpublished' = unpublished \ {task.message}
  /\ StartReading(w)
  /\ UNCHANGED <<text, outcome, stored, entities, classified, unlocked, endings, counts>>

Read(w) == (GetRules(w) \/ StoreRules(w)) /\ UNCHANGED messageVars

RulesLoaded(w) == job[w].step = "read" /\ read[w].step = "loaded"

AllCompile(rules) ==
  \A kind \in Kinds : \A k \in DOMAIN rules[kind] : Compiles(rules[kind][k])

\* A positive keyword and no negative one; every rule is taken to match.
Passes(rules) == rules["positive"] # NoRules /\ rules["negative"] = NoRules

Changes(j) == j.result # j.row

Others(w) ==
  {v \in Readers : job[v].step = "commit" /\ job[v].task.message = job[w].task.message}

\* What the transaction writes; its DELETE sees the entities stored so far.
Prepared(w) ==
  [job[w] EXCEPT !.step = "commit", !.dropped = entities[job[w].task.message],
                 !.result = [text |-> job[w].text, passed |-> Passes(read[w].rules)]]

\* The columns are written after the entities.
MayWrite_Mutant(w) == TRUE

\* The UPDATE, if any column changed, waits for the lock of the row.
MayWrite(w) == Changes(Prepared(w)) => \A v \in Others(w) : ~Changes(job[v])

Persist(w) ==
  /\ RulesLoaded(w) /\ AllCompile(read[w].rules) /\ MayWrite(w)
  /\ job' = [job EXCEPT ![w] = Prepared(w)]
  /\ unlocked' = IF \E v \in Others(w) : ~Changes(Prepared(w)) \/ ~Changes(job[v])
                 THEN unlocked \union {job[w].task.message} ELSE unlocked
  /\ read' = [read EXCEPT ![w] = Unread]
  /\ UNCHANGED <<table, cache, edit, tainted, collided, edits, misses, text, outcome,
                 collecting, entities, queued, classified, endings, counts>>

Commit(w) ==
  LET j == job[w]
      m == j.task.message
      left == [v \in Readers |-> entities[m][v] - j.dropped[v]]
  IN
  /\ j.step = "commit"
  /\ outcome' = [outcome EXCEPT ![m] =
       [c \in DOMAIN j.row |-> IF j.result[c] # j.row[c] THEN j.result[c] ELSE @[c]]]
  /\ entities' = [entities EXCEPT ![m] =
       [v \in Readers |-> (IF left[v] < 0 THEN 0 ELSE left[v]) + (IF v = w THEN 1 ELSE 0)]]
  /\ job' = [job EXCEPT ![w].step = "publish"]
  /\ UNCHANGED <<dictVars, text, collecting, queued, classified, unlocked, endings, counts>>

\* enqueue_classification, then the acknowledgement
Publish(w) ==
  LET j == job[w] IN
  /\ j.step = "publish"
  /\ classified' = classified \union {<<j.task.message, j.text>>}
  /\ job' = [job EXCEPT ![w] = IdleJob]
  /\ UNCHANGED <<dictVars, text, outcome, collecting, entities, queued, unlocked, endings,
                 counts>>

-----------------------------------------------------------------------------
(* Failures *)

Dropped(w) ==
  /\ job' = [job EXCEPT ![w] = IdleJob]
  /\ read' = [read EXCEPT ![w] = Unread]
  /\ UNCHANGED <<table, cache, edit, tainted, collided, edits, misses, text, outcome,
                 collecting, entities, classified, unlocked, collections>>

Failable(w) == job[w].step # "idle" /\ failures < MaxFailures

\* ConnectionError and TimeoutError
Retry(w) ==
  /\ Failable(w) /\ job[w].task.retries < MaxRetries
  /\ failures' = failures + 1
  /\ queued' = queued \union {Task(job[w].task.message, job[w].task.retries + 1)}
  /\ Dropped(w) /\ UNCHANGED <<failed, unrecorded>>

\* Another error, or no retry left: on_failure records it once per message, if the
\* database answers.
Fail(w) ==
  LET m == job[w].task.message IN
  /\ Failable(w) /\ failures' = failures + 1
  /\ \/ failed' = failed \union {m} /\ UNCHANGED unrecorded
     \/ unrecorded' = unrecorded \union {m} /\ UNCHANGED failed
  /\ Dropped(w) /\ UNCHANGED queued

\* InvalidKeywordRegex
RulesBroken(w) ==
  /\ RulesLoaded(w) /\ ~AllCompile(read[w].rules)
  /\ failed' = failed \union {job[w].task.message}
  /\ Dropped(w) /\ UNCHANGED <<queued, unrecorded, failures>>

\* Acknowledged when it was taken
LoseWorker_Mutant(w) ==
  /\ Failable(w) /\ failures' = failures + 1
  /\ Dropped(w) /\ UNCHANGED <<queued, failed, unrecorded>>

\* acks_late, reject_on_worker_lost: the task is delivered again.
LoseWorker(w) ==
  /\ Failable(w) /\ failures' = failures + 1
  /\ queued' = queued \union {job[w].task}
  /\ Dropped(w) /\ UNCHANGED <<failed, unrecorded>>

-----------------------------------------------------------------------------

Work(w) == Read(w) \/ Persist(w) \/ Commit(w) \/ Publish(w) \/ RulesBroken(w)

Next ==
  \/ DictNext /\ UNCHANGED messageVars
  \/ \E m \in Messages : Collected(m)
  \/ \E s \in stored : Enqueue(s) \/ LoseCollector(s)
  \/ \E w \in Readers : Take(w) \/ Work(w) \/ Retry(w) \/ Fail(w) \/ LoseWorker(w)

Spec == Init /\ [][Next]_vars

\* Running tasks and requests go on, waiting tasks are taken, keys expire.
Fairness ==
  /\ WF_vars(\E s \in stored : Enqueue(s))
  /\ \A w \in Readers : WF_vars(Take(w)) /\ WF_vars(Work(w))
  /\ \A e \in Editors : WF_vars(Change(e) /\ UNCHANGED messageVars)
  /\ \A kind \in Kinds : WF_vars(CacheExpires(kind) /\ UNCHANGED messageVars)

FairSpec == Spec /\ Fairness

-----------------------------------------------------------------------------
(* Properties *)

Outcomes == [text : Nat, passed : BOOLEAN]

\* Every variable keeps its type; a worker that reads the dictionaries has a task.
TypeOK ==
  /\ DictTypeOK
  /\ text \in [Messages -> Nat] /\ outcome \in [Messages -> Outcomes]
  /\ entities \in [Messages -> [Readers -> Nat]]
  /\ queued \subseteq [message : Messages, retries : 0 .. MaxRetries]
  /\ \A w \in Readers :
       /\ job[w].step \in {"idle", "read", "commit", "publish"}
       /\ job[w].step # "idle" => job[w].task.message \in Messages
       /\ read[w].step # "idle" <=> job[w].step = "read"
  /\ classified \subseteq Messages \X Nat
  /\ failed \subseteq Messages /\ unlocked \subseteq Messages /\ unrecorded \subseteq Messages
  /\ stored \subseteq Messages \X Nat /\ unpublished \subseteq Messages
  /\ collections \in Nat /\ failures \in Nat

\* A message has the entities of one run, unless two overlapped and one of them found
\* nothing to change in the row, so that they did not wait for each other; and even then
\* never those of more runs than there are workers, one of each.
EntitiesOfOneRun ==
  \A m \in Messages : \A v, w \in Readers :
    /\ entities[m][w] <= 1
    /\ v # w /\ m \notin unlocked => entities[m][v] + entities[m][w] <= 1

\* A stored text is classified, or a failure of its message is on record; except where the
\* failure itself could not be recorded, and where the collector was lost after its commit
\* and nothing has been published for the message since.
TextIsClassified ==
  \A m \in Messages :
    <>[](\/ text[m] = 0 \/ <<m, text[m]>> \in classified
         \/ m \in failed \union unrecorded \union unpublished)

=============================================================================
