----------------------------- MODULE Collection -----------------------------
(***************************************************************************)
(* Collection of the messages of one public source                         *)
(* (app/collector/messages.py): the lease that keeps two collections of it *)
(* apart, the cursor, the comparison of known messages with the channel,   *)
(* the commit, and the processing tasks published after it.                *)
(*                                                                         *)
(* A transaction reads what others have committed and writes at its commit *)
(* the columns it changed; an uncommitted insert blocks another insert of  *)
(* the same message.  The choice of an account and its budget are left out *)
(* (they only decide whether a collection starts).                         *)
(***************************************************************************)
EXTENDS Integers, FiniteSets

CONSTANTS
  Collectors,   \* worker processes of the telegram_collection queue
  MaxPosts,     \* bound: messages of the channel
  BatchLimit,   \* collector_batch_limit
  Plain,        \* messages whose text normalises to itself
  MaxEdits,     \* bounds: edits and deletions,
  MaxFailures,  \*   FloodWaits and lost workers,
  MaxExpiries,  \*   leases that end before their collection
  NoCollector,
  Orphan        \* the token of a run whose worker was lost

Ids == 1 .. MaxPosts

ASSUME BoundAssumption ==
  /\ MaxPosts \in Nat /\ BatchLimit \in Nat \ {0} /\ Plain \subseteq Ids
  /\ MaxEdits \in Nat /\ MaxFailures \in Nat /\ MaxExpiries \in Nat
ASSUME NameAssumption ==
  NoCollector \notin Collectors /\ Orphan \notin Collectors /\ Orphan # NoCollector

VARIABLES
  last,      \* the channel: newest message,
  version,   \*   version of each message,
  gone,      \*   deleted messages
  stored,    \* rows of messages
  cursor,    \* telegram_sources.last_seen_message_id
  status,    \* telegram_sources.access_status and pause_until
  lease,     \* collector:source:<id>:lease in Redis
  run,       \* the collection of each worker
  inserting, \* uncommitted inserts
  queued,    \* messages with a processing task
  overrun,   \* history: collectors whose lease expired while they ran
  edits, failures, expiries

channelVars == <<last, version, gone, edits>>
rowVars == <<stored, cursor, status>>
countVars == <<failures, expiries>>
vars == <<last, version, gone, stored, cursor, status, lease, run, inserting, queued,
          overrun, edits, failures, expiries>>

NoRow == [version |-> 0, normal |-> FALSE, deleted |-> FALSE]
Rows == [version : Nat, normal : BOOLEAN, deleted : BOOLEAN]
Exists(row) == row.version > 0

NoneOf == [i \in Ids |-> NoRow]
IdleRun == [step |-> "idle", cursor |-> 0, seen |-> [i \in Ids |-> 0], todo |-> {},
            loaded |-> NoneOf, new |-> NoneOf, publish |-> {}]

Init ==
  /\ last = 0 /\ version = [i \in Ids |-> 1] /\ gone = {}
  /\ stored = NoneOf /\ cursor = 0 /\ status = "ok"
  /\ lease = NoCollector
  /\ run = [c \in Collectors |-> IdleRun]
  /\ inserting = [i \in Ids |-> NoCollector]
  /\ queued = {} /\ overrun = {}
  /\ edits = 0 /\ failures = 0 /\ expiries = 0

-----------------------------------------------------------------------------
(* The channel *)

Post ==
  /\ last < MaxPosts
  /\ last' = last + 1
  /\ UNCHANGED <<version, gone, edits, rowVars, lease, run, inserting, queued, overrun,
                 countVars>>

\* A new text, or a new number of views
EditPost(i) ==
  /\ i <= last /\ i \notin gone /\ edits < MaxEdits
  /\ edits' = edits + 1
  /\ version' = [version EXCEPT ![i] = @ + 1]
  /\ UNCHANGED <<last, gone, rowVars, lease, run, inserting, queued, overrun,
                 countVars>>

DeletePost(i) ==
  /\ i <= last /\ i \notin gone /\ edits < MaxEdits
  /\ edits' = edits + 1
  /\ gone' = gone \union {i}
  /\ UNCHANGED <<last, version, rowVars, lease, run, inserting, queued, overrun,
                 countVars>>

-----------------------------------------------------------------------------
(* The lease *)

\* SET NX EX.  A task that finds the lease taken ends as "locked".
Acquire(c) ==
  /\ run[c].step = "idle" /\ lease = NoCollector
  /\ lease' = c
  /\ run' = [run EXCEPT ![c] = [IdleRun EXCEPT !.step = "load"]]
  /\ UNCHANGED <<channelVars, rowVars, inserting, queued, overrun, countVars>>

\* DEL without comparing the token
Release_Mutant(c) ==
  /\ run[c].step = "release"
  /\ lease' = NoCollector
  /\ overrun' = overrun \ {c}
  /\ run' = [run EXCEPT ![c] = IdleRun]
  /\ UNCHANGED <<channelVars, rowVars, inserting, queued, countVars>>

\* The script deletes the key if it still holds the token of this run.
Release(c) ==
  /\ run[c].step = "release"
  /\ lease' = IF lease = c THEN NoCollector ELSE lease
  /\ overrun' = overrun \ {c}
  /\ run' = [run EXCEPT ![c] = IdleRun]
  /\ UNCHANGED <<channelVars, rowVars, inserting, queued, countVars>>

\* The time to live of the lease is over.
Expire ==
  /\ lease # NoCollector
  /\ IF lease \in Collectors THEN expiries < MaxExpiries /\ expiries' = expiries + 1
     ELSE UNCHANGED expiries
  /\ overrun' = overrun \union ({lease} \intersect Collectors)
  /\ lease' = NoCollector
  /\ UNCHANGED <<channelVars, rowVars, run, inserting, queued, failures>>

-----------------------------------------------------------------------------
(* One collection *)

\* get_collectable_source
Load(c) ==
  /\ run[c].step = "load"
  /\ run' = [run EXCEPT ![c] =
       IF status = "ok" THEN [IdleRun EXCEPT !.step = "fetch", !.cursor = cursor]
       ELSE [IdleRun EXCEPT !.step = "release"]]
  /\ UNCHANGED <<channelVars, rowVars, lease, inserting, queued, overrun, countVars>>

\* iter_messages: the newest messages after the cursor, at most BatchLimit
Fetched(c) ==
  LET after == {i \in run[c].cursor + 1 .. last : i \notin gone}
  IN {i \in after : Cardinality({j \in after : j > i}) < BatchLimit}

Fetch(c) ==
  /\ run[c].step = "fetch"
  /\ run' = [run EXCEPT ![c].step = "upsert", ![c].todo = Fetched(c),
       ![c].seen = [i \in Ids |-> IF i \in Fetched(c) THEN version[i] ELSE 0]]
  /\ UNCHANGED <<channelVars, rowVars, lease, inserting, queued, overrun, countVars>>

\* Telegram refuses the request: the source is paused.
FloodWait(c) ==
  /\ run[c].step = "fetch" /\ failures < MaxFailures
  /\ failures' = failures + 1
  /\ status' = "floodwait"
  /\ run' = [run EXCEPT ![c] = [IdleRun EXCEPT !.step = "release"]]
  /\ UNCHANGED <<channelVars, stored, cursor, lease, inserting, queued, overrun, expiries>>

\* recover_expired_source_floodwaits, once the pause is over
Recover ==
  /\ status = "floodwait"
  /\ status' = "ok"
  /\ UNCHANGED <<channelVars, stored, cursor, lease, run, inserting, queued, overrun,
                 countVars>>

Snapshot(v) == [version |-> v, normal |-> FALSE, deleted |-> FALSE]
First(i, S) == i \in S /\ \A j \in S : i <= j

\* upsert_message of a message that has a row: apply_snapshot.  normalized_text is
\* compared with, and set to, the text as it was sent.
UpdateRow(c) ==
  /\ run[c].step = "upsert"
  /\ \E i \in Ids :
       /\ First(i, run[c].todo) /\ Exists(stored[i])
       /\ run' = [run EXCEPT ![c].todo = @ \ {i},
            ![c].loaded[i] = stored[i],
            ![c].new[i] = Snapshot(run[c].seen[i]),
            ![c].publish = IF stored[i] # Snapshot(run[c].seen[i]) THEN @ \union {i} ELSE @]
  /\ UNCHANGED <<channelVars, rowVars, lease, inserting, queued, overrun, countVars>>

\* ... and of one that has none
FindNoRow(c) ==
  /\ run[c].step = "upsert"
  /\ \E i \in Ids : First(i, run[c].todo) /\ ~Exists(stored[i])
  /\ run' = [run EXCEPT ![c].step = "insert"]
  /\ UNCHANGED <<channelVars, rowVars, lease, inserting, queued, overrun, countVars>>

InsertRow(c) ==
  /\ run[c].step = "insert"
  /\ \E i \in Ids :
       /\ First(i, run[c].todo) /\ ~Exists(stored[i]) /\ inserting[i] = NoCollector
       /\ inserting' = [inserting EXCEPT ![i] = c]
       /\ run' = [run EXCEPT ![c].step = "upsert", ![c].todo = @ \ {i},
            ![c].new[i] = Snapshot(run[c].seen[i]),
            ![c].publish = @ \union {i}]
  /\ UNCHANGED <<channelVars, rowVars, lease, queued, overrun, countVars>>

Unlocked(c) == [i \in Ids |-> IF inserting[i] = c THEN NoCollector ELSE inserting[i]]

\* The unique index refuses it: the transaction fails, and with it the collection.
InsertFails(c) ==
  /\ run[c].step = "insert"
  /\ \E i \in Ids : First(i, run[c].todo) /\ Exists(stored[i])
  /\ inserting' = Unlocked(c)
  /\ run' = [run EXCEPT ![c] = [IdleRun EXCEPT !.step = "release"]]
  /\ UNCHANGED <<channelVars, rowVars, lease, queued, overrun, countVars>>

\* The columns that differ from those loaded are written. Row i, as this transaction
\* sees it and will commit it:
Column(row, loaded, new, name) ==
  IF new[name] # loaded[name] THEN new[name] ELSE row[name]

Saved(c, i) ==
  LET r == run[c] IN
  IF inserting[i] = c THEN r.new[i]
  ELSE IF ~Exists(r.loaded[i]) THEN stored[i]
  ELSE [n \in DOMAIN NoRow |-> Column(stored[i], r.loaded[i], r.new[i], n)]

\* sync_existing_messages: the known messages, its own among them
ReadKnown(c) ==
  /\ run[c].step = "upsert" /\ run[c].todo = {}
  /\ run' = [run EXCEPT ![c].step = "compare",
       ![c].todo = {i \in Ids : Exists(Saved(c, i)) /\ ~Saved(c, i).deleted},
       ![c].loaded = [i \in Ids |-> IF Exists(@[i]) THEN @[i] ELSE stored[i]],
       ![c].new = [i \in Ids |-> IF Exists(@[i]) THEN @[i] ELSE stored[i]]]
  /\ UNCHANGED <<channelVars, rowVars, lease, inserting, queued, overrun, countVars>>

\* New rows are compared only if they are new in this batch.
Compare_Mutant(c) ==
  LET same == {i \in run[c].todo : inserting[i] = c}
      now == [i \in Ids |->
                IF i \notin same THEN run[c].new[i]
                ELSE IF i \in gone THEN [run[c].new[i] EXCEPT !.deleted = TRUE]
                ELSE Snapshot(version[i])]
  IN
  /\ run[c].step = "compare"
  /\ run' = [run EXCEPT ![c].step = "commit", ![c].todo = {}, ![c].new = now,
       ![c].publish = @ \union {i \in Ids : now[i] # run[c].new[i]}]
  /\ UNCHANGED <<channelVars, rowVars, lease, inserting, queued, overrun, countVars>>

\* get_messages of all known ids: a missing one is deleted, another gets its snapshot.
Compare(c) ==
  LET now == [i \in Ids |->
                IF i \notin run[c].todo THEN run[c].new[i]
                ELSE IF i \in gone THEN [run[c].new[i] EXCEPT !.deleted = TRUE]
                ELSE Snapshot(version[i])]
  IN
  /\ run[c].step = "compare"
  /\ run' = [run EXCEPT ![c].step = "commit", ![c].todo = {}, ![c].new = now,
       ![c].publish = @ \union {i \in Ids : now[i] # run[c].new[i]}]
  /\ UNCHANGED <<channelVars, rowVars, lease, inserting, queued, overrun, countVars>>

\* A FloodWait here is caught by nobody: the transaction rolls back.
CompareFails(c) ==
  /\ run[c].step = "compare" /\ failures < MaxFailures
  /\ failures' = failures + 1
  /\ inserting' = Unlocked(c)
  /\ run' = [run EXCEPT ![c] = [IdleRun EXCEPT !.step = "release"]]
  /\ UNCHANGED <<channelVars, rowVars, lease, queued, overrun, expiries>>

Handled(c) == {i \in Ids : run[c].seen[i] > 0} \union {run[c].cursor}
IsMaxSeen(c, max) == max \in Handled(c) /\ \A i \in Handled(c) : i <= max

\* The cursor moves past whatever the channel has by now.
Commit_Mutant(c) ==
  /\ run[c].step = "commit"
  /\ stored' = [i \in Ids |-> Saved(c, i)]
  /\ cursor' = last
  /\ inserting' = Unlocked(c)
  /\ run' = [run EXCEPT ![c] = [IdleRun EXCEPT !.step = "publish", !.publish = run[c].publish]]
  /\ UNCHANGED <<channelVars, status, lease, queued, overrun, countVars>>

Commit(c) ==
  /\ run[c].step = "commit"
  /\ stored' = [i \in Ids |-> Saved(c, i)]
  /\ \E max \in 0 .. MaxPosts :
       IsMaxSeen(c, max) /\ cursor' = IF max # run[c].cursor THEN max ELSE cursor
  /\ inserting' = Unlocked(c)
  /\ run' = [run EXCEPT ![c] = [IdleRun EXCEPT !.step = "publish", !.publish = run[c].publish]]
  /\ UNCHANGED <<channelVars, status, lease, queued, overrun, countVars>>

\* enqueue_message_processing, one message after the other
Publish(c) ==
  /\ run[c].step = "publish"
  /\ \/ /\ run[c].publish = {}
        /\ run' = [run EXCEPT ![c].step = "release"]
        /\ UNCHANGED queued
     \/ \E i \in Ids :
          /\ First(i, run[c].publish)
          /\ queued' = queued \union {i}
          /\ run' = [run EXCEPT ![c].publish = @ \ {i}]
  /\ UNCHANGED <<channelVars, rowVars, lease, inserting, overrun, countVars>>

\* The process is lost.  Its transaction rolls back; nobody releases its lease.
Crash(c) ==
  /\ run[c].step # "idle" /\ failures < MaxFailures
  /\ failures' = failures + 1
  /\ lease' = IF lease = c THEN Orphan ELSE lease
  /\ overrun' = overrun \ {c}
  /\ inserting' = Unlocked(c)
  /\ run' = [run EXCEPT ![c] = IdleRun]
  /\ UNCHANGED <<channelVars, rowVars, queued, expiries>>

\* process_message: the text is normalised.
Process(i) ==
  /\ i \in queued
  /\ queued' = queued \ {i}
  /\ stored' = [stored EXCEPT ![i].normal = i \notin Plain]
  /\ UNCHANGED <<channelVars, cursor, status, lease, run, inserting, overrun, countVars>>

-----------------------------------------------------------------------------

Work(c) ==
  \/ Load(c) \/ Fetch(c) \/ UpdateRow(c) \/ FindNoRow(c) \/ InsertRow(c)
  \/ InsertFails(c) \/ ReadKnown(c) \/ Compare(c) \/ Commit(c) \/ Publish(c)
  \/ Release(c)

Next ==
  \/ Post \/ \E i \in Ids : EditPost(i) \/ DeletePost(i) \/ Process(i)
  \/ \E c \in Collectors :
       Acquire(c) \/ Work(c) \/ FloodWait(c) \/ CompareFails(c) \/ Crash(c)
  \/ Expire \/ Recover

Spec == Init /\ [][Next]_vars

\* Beat publishes collections and the recovery again and again; a collection that
\* runs keeps running; a lease that nobody releases expires.
Fairness ==
  /\ \A c \in Collectors : WF_vars(Work(c))
  /\ WF_vars(\E c \in Collectors : Acquire(c))
  /\ WF_vars(Recover) /\ WF_vars(lease = Orphan /\ Expire)
  /\ \A i \in Ids : WF_vars(Process(i))

FairSpec == Spec /\ Fairness

-----------------------------------------------------------------------------
(* Properties *)

Steps == {"idle", "load", "fetch", "upsert", "insert", "compare", "commit", "publish",
          "release"}
Runs == [step : Steps, cursor : 0 .. MaxPosts, seen : [Ids -> Nat], todo : SUBSET Ids,
         loaded : [Ids -> Rows], new : [Ids -> Rows], publish : SUBSET Ids]

\* Every variable keeps its type; only messages that have a row are queued.
TypeOK ==
  /\ last \in 0 .. MaxPosts /\ version \in [Ids -> Nat \ {0}] /\ gone \subseteq Ids
  /\ stored \in [Ids -> Rows] /\ cursor \in 0 .. MaxPosts
  /\ status \in {"ok", "floodwait"}
  /\ lease \in Collectors \union {NoCollector, Orphan}
  /\ run \in [Collectors -> Runs]
  /\ inserting \in [Ids -> Collectors \union {NoCollector}]
  /\ queued \subseteq {i \in Ids : Exists(stored[i])}
  /\ overrun \subseteq Collectors
  /\ edits \in Nat /\ failures \in Nat /\ expiries \in Nat

\* A collection has its lease for as long as that has not expired, whoever else expired,
\* crashed or ended: two such collections never overlap.
RunsUnderItsLease ==
  \A c \in Collectors : run[c].step # "idle" /\ c \notin overrun => lease = c

\* The cursor only passes messages that are stored or were deleted before they could
\* be (as long as no batch is longer than the limit), also when collections
\* overlap, fail and roll back.
NothingSkipped ==
  \A i \in 1 .. cursor : Exists(stored[i]) \/ i \in gone

\* Whatever overlaps, fails or is lost on the way, the messages end up as the
\* channel has them: new, edited and deleted.
ChannelMirrored ==
  <>[](\A i \in 1 .. last :
         IF i \in gone THEN ~Exists(stored[i]) \/ stored[i].deleted
         ELSE stored[i].version = version[i] /\ ~stored[i].deleted)

=============================================================================
