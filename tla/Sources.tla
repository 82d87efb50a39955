------------------------------ MODULE Sources -------------------------------
(***************************************************************************)
(* The rows of telegram_sources and telegram_accounts and all who write    *)
(* them: operators (app/services/sources.py), validation                   *)
(* (source_validation.py), the start and the FloodWait of collections      *)
(* (app/collector), and the recovery of pauses (floodwait_recovery.py).    *)
(*                                                                         *)
(* Rows are read by SELECT and written by primary key at the flush, the    *)
(* columns that differ from those read: what others commit in between is   *)
(* overwritten.  Requests go out through sessions of Telegram accounts.    *)
(* Telegram may tell a session to wait, and refuses it until the wait is   *)
(* over.  What a collection does with the messages is in Collection.       *)
(***************************************************************************)
EXTENDS Integers, FiniteSets

CONSTANTS
  SourceIds,       \* the sources
  Clashing,        \*   and those whose name or peer belongs to another source
  Pool,            \* labels of the accounts in the pool
  Place,           \*   and the place of each in the order of their labels
  Hash,            \* sha256 of the id of each source
  DefaultSession,  \* tg_session_name, the session of get_authorized_client
  Limit,           \* collector_max_requests_per_minute
  Recoverers,      \* processes that run recoveries,
  Validators,      \*   and processes that validate
  MaxTime,         \* bounds: the clock,
  MaxQueued,       \*   published validations of a source that did not start yet,
  MaxFloods,       \*   waits that Telegram begins,
  MaxRequests,     \*   validations and changes that operators ask for,
  MaxFailures,     \*   lost workers, and validations without an authorized client
  NoSource, NoAccount

ASSUME PoolAssumption ==
  /\ IsFiniteSet(Pool) /\ Place \in [Pool -> Nat]
  /\ \A a, b \in Pool : Place[a] = Place[b] => a = b
  /\ Hash \in [SourceIds -> Nat] /\ Limit \in Nat \ {0}
  /\ NoAccount \notin Pool \union {DefaultSession} /\ NoSource \notin SourceIds
ASSUME SourceBounds ==
  /\ MaxTime \in Nat /\ MaxQueued \in Nat
  /\ MaxFloods \in Nat /\ MaxRequests \in Nat /\ MaxFailures \in Nat

VARIABLES
  row,       \* telegram_sources
  account,   \* telegram_accounts
  slots,     \* collector:account:<id>:rpm in Redis
  holder,    \* collector:account:<id>:lease in Redis
  job,       \* the collection of each source, under the lease of the source
  recovery,  \* what each of Recoverers is doing
  queued,    \* the published validations of each source
  check,     \* what each of Validators is doing
  wait,      \* Telegram: when it will serve a session again
  now,       \* the clock
  overtaken,  \* history: collections whose account was paused after they chose it;
  unrecorded, \*   accounts whose pause was not stored, too short, or written over;
  closed,     \*   sources stored as private or in error, not found public since,
  flooded,    \*   those of them paused since then,
  overwritten,\*   and those that a recovery opened although they were no longer paused
  floods, requests, failures

rowVars == <<row, closed, flooded, overwritten>>
poolVars == <<account, slots, holder>>
pauses == <<overtaken, unrecorded>>
tasks == <<recovery, queued, check>>
bounds == <<floods, requests, failures>>
vars == <<row, account, slots, holder, job, recovery, queued, check, wait, now, overtaken,
          unrecorded, closed, flooded, overwritten, floods, requests, failures>>

Sessions == Pool \union {DefaultSession}
None == 0
Over(time) == time <= now

Absent == [status |-> "absent", public |-> FALSE, enabled |-> FALSE, pause |-> None]
Unpaused == [status |-> "active", until |-> None]
NobodyFound == [a \in Pool |-> Unpaused]
IdleJob == [step |-> "idle", account |-> NoAccount, found |-> NobodyFound, until |-> None]
IdleRecovery == [step |-> "idle", accounts |-> NobodyFound,
                 sources |-> [s \in SourceIds |-> Absent]]
IdleCheck == [step |-> "idle", source |-> NoSource, loaded |-> Absent, answer |-> "none",
              until |-> None]

\* Some sources were found public before.
Init ==
  /\ \E opened \in SUBSET (SourceIds \ Clashing) :
       row = [s \in SourceIds |->
         IF s \in opened
         THEN [status |-> "ok", public |-> TRUE, enabled |-> TRUE, pause |-> None]
         ELSE Absent]
  /\ account = [a \in Pool |-> Unpaused]
  /\ slots = [a \in Pool |-> [count |-> 0, expires |-> FALSE]]
  /\ holder = [a \in Pool |-> NoSource]
  /\ job = [s \in SourceIds |-> IdleJob] /\ recovery = [r \in Recoverers |-> IdleRecovery]
  /\ queued = [s \in SourceIds |-> 0] /\ check = [v \in Validators |-> IdleCheck]
  /\ wait = [a \in Sessions |-> None] /\ now = 1
  /\ overtaken = {} /\ unrecorded = {} /\ closed = {} /\ flooded = {} /\ overwritten = {}
  /\ floods = 0 /\ requests = 0 /\ failures = 0

-----------------------------------------------------------------------------
(* Operators and time *)

CreateSource(s) ==
  /\ row[s].status = "absent"
  /\ row' = [row EXCEPT ![s] = [status |-> "pending_validation", public |-> FALSE,
                                enabled |-> TRUE, pause |-> None]]
  /\ UNCHANGED <<poolVars, job, tasks, wait, now, pauses, closed, flooded, overwritten,
                 bounds>>

SetEnabled(s, enabled) ==
  /\ row[s].status # "absent" /\ row[s].enabled # enabled /\ requests < MaxRequests
  /\ requests' = requests + 1
  /\ row' = [row EXCEPT ![s].enabled = enabled]
  /\ UNCHANGED <<poolVars, job, tasks, wait, now, pauses, closed, flooded, overwritten,
                 floods, failures>>

Tick ==
  /\ now < MaxTime
  /\ now' = now + 1
  /\ UNCHANGED <<rowVars, poolVars, job, tasks, wait, pauses, bounds>>

-----------------------------------------------------------------------------
(* The pool *)

\* Every paused account, whether its pause is over or not
ExpiredAccounts_Mutant ==
  [a \in Pool |-> IF account[a].status = "floodwait" THEN account[a] ELSE Unpaused]

\* recover_expired_account_floodwaits: what its SELECT finds
ExpiredAccounts ==
  [a \in Pool |-> IF account[a].status = "floodwait" /\ Over(account[a].until)
                  THEN account[a] ELSE Unpaused]

Recovers(found, a) == found[a] # Unpaused

\* ... and what its UPDATE by primary key leaves
Recovered(found) == [a \in Pool |-> IF Recovers(found, a) THEN Unpaused ELSE account[a]]

\* Pauses committed after the SELECT
Erased(found) == {a \in Pool : Recovers(found, a) /\ account[a] # found[a]}

\* From the flush of its accounts to its commit, a recovery locks their rows.
Locked(a) ==
  a \in Pool /\ \E r \in Recoverers :
                   recovery[r].step = "commit" /\ Recovers(recovery[r].accounts, a)

Available(accounts) ==
  {a \in Pool : accounts[a].status = "active" /\ Over(accounts[a].until)}

\* The one that so many of the others come before, if there is any
Selected(s, available) ==
  IF available = {} THEN {NoAccount}
  ELSE {a \in available : Cardinality({b \in available : Place[b] < Place[a]})
                             = Hash[s] % Cardinality(available)}

Session(s) == IF job[s].account = NoAccount THEN DefaultSession ELSE job[s].account

-----------------------------------------------------------------------------
(* Recovery: recover_floodwait_state_task, and the start of enqueue_collectable_sources *)

BeginRecovery(r) ==
  /\ recovery[r].step = "idle"
  /\ recovery' = [recovery EXCEPT ![r] =
       [IdleRecovery EXCEPT !.step = "accounts", !.accounts = ExpiredAccounts]]
  /\ UNCHANGED <<rowVars, poolVars, job, queued, check, wait, now, pauses, bounds>>

\* Only sources that were public
ExpiredPublic_Mutant ==
  [s \in SourceIds |->
     IF /\ row[s].status = "floodwait" /\ row[s].public
        /\ row[s].pause # None /\ Over(row[s].pause)
     THEN row[s] ELSE Absent]

\* Every source whose pause is over, whatever its status
ExpiredSources_Mutant ==
  [s \in SourceIds |-> IF row[s].pause # None /\ Over(row[s].pause) THEN row[s] ELSE Absent]

\* recover_expired_source_floodwaits: what its SELECT finds
ExpiredSources ==
  [s \in SourceIds |->
     IF row[s].status = "floodwait" /\ row[s].pause # None /\ Over(row[s].pause)
     THEN row[s] ELSE Absent]

\* The flush of the accounts, and the SELECT of the sources
SelectSources(r) ==
  /\ recovery[r].step = "accounts"
  /\ \A a \in Pool : Recovers(recovery[r].accounts, a) => ~Locked(a)
  /\ recovery' = [recovery EXCEPT ![r].step = "commit", ![r].sources = ExpiredSources]
  /\ UNCHANGED <<rowVars, poolVars, job, queued, check, wait, now, pauses, bounds>>

\* is_public is written if it was FALSE when it was read.
Reopened(r, s) ==
  [row[s] EXCEPT !.status = "ok", !.pause = None,
                 !.public = IF recovery[r].sources[s].public THEN @ ELSE TRUE]

CommitRecovery(r) ==
  LET found == {s \in SourceIds : recovery[r].sources[s] # Absent} IN
  /\ recovery[r].step = "commit"
  /\ account' = Recovered(recovery[r].accounts)
  /\ unrecorded' = unrecorded \union Erased(recovery[r].accounts)
  /\ row' = [s \in SourceIds |-> IF s \in found THEN Reopened(r, s) ELSE row[s]]
  /\ overwritten' = overwritten \union
       {s \in found : row[s].status # recovery[r].sources[s].status}
  /\ \E next \in {"idle", "publish"} :
       recovery' = [recovery EXCEPT ![r] = [IdleRecovery EXCEPT !.step = next]]
  /\ UNCHANGED <<closed, flooded, slots, holder, job, queued, check, wait, now, overtaken,
                 bounds>>

Collectable(r) == r.enabled /\ r.public /\ r.status = "ok" /\ Over(r.pause)

\* A second task of a source ends at the lease of the first.
EnqueueCollections(r) ==
  /\ recovery[r].step = "publish"
  /\ job' = [s \in SourceIds |->
       IF job[s].step = "idle" /\ Collectable(row[s])
       THEN [IdleJob EXCEPT !.step = "queued"] ELSE job[s]]
  /\ recovery' = [recovery EXCEPT ![r] = IdleRecovery]
  /\ UNCHANGED <<rowVars, poolVars, queued, check, wait, now, pauses, bounds>>

\* Its transaction rolls back; beat publishes the next.
LoseRecovery(r) ==
  /\ recovery[r].step # "idle" /\ failures < MaxFailures
  /\ failures' = failures + 1
  /\ recovery' = [recovery EXCEPT ![r] = IdleRecovery]
  /\ UNCHANGED <<rowVars, poolVars, job, queued, check, wait, now, pauses, floods,
                 requests>>

-----------------------------------------------------------------------------
(* Collection *)

\* resolve_account_for_source begins with a recovery of its own.
FindExpired(s) ==
  /\ job[s].step = "queued"
  /\ job' = [job EXCEPT ![s].step = "choose", ![s].found = ExpiredAccounts]
  /\ UNCHANGED <<rowVars, poolVars, tasks, wait, now, pauses, bounds>>

\* The request is counted before the account is looked at.
ResolveAccount_Mutant(s) ==
  LET recovered == Recovered(job[s].found) IN
  /\ job[s].step = "choose" /\ \A a \in Pool : Recovers(job[s].found, a) => ~Locked(a)
  /\ account' = recovered /\ unrecorded' = unrecorded \union Erased(job[s].found)
  /\ \E a \in Selected(s, Available(recovered)) :
       job' = [job EXCEPT ![s] = [IdleJob EXCEPT !.step = "count", !.account = a]]
  /\ UNCHANGED <<rowVars, slots, holder, tasks, wait, now, overtaken, bounds>>

\* Without a usable account the default client is taken.
ResolveAccount(s) ==
  LET recovered == Recovered(job[s].found) IN
  /\ job[s].step = "choose" /\ \A a \in Pool : Recovers(job[s].found, a) => ~Locked(a)
  /\ account' = recovered /\ unrecorded' = unrecorded \union Erased(job[s].found)
  /\ \E a \in Selected(s, Available(recovered)) :
       job' = [job EXCEPT ![s] = [IdleJob EXCEPT
         !.step = IF a = NoAccount THEN "load" ELSE "count", !.account = a]]
  /\ UNCHANGED <<rowVars, slots, holder, tasks, wait, now, overtaken, bounds>>

End(s) ==
  /\ job' = [job EXCEPT ![s] = IdleJob]
  /\ overtaken' = overtaken \ {s}

\* INCR; counts over the limit are not told apart.
CountRequest(s) ==
  LET a == job[s].account
      count == IF slots[a].count > Limit THEN slots[a].count ELSE slots[a].count + 1
  IN
  /\ job[s].step = "count"
  /\ slots' = [slots EXCEPT ![a].count = count]
  /\ IF count > Limit THEN End(s)
     ELSE /\ job' = [job EXCEPT ![s].step = IF count = 1 THEN "expire" ELSE "lease"]
          /\ UNCHANGED overtaken
  /\ UNCHANGED <<rowVars, account, holder, tasks, wait, now, unrecorded, bounds>>

\* EXPIRE
ExpireCounter(s) ==
  /\ job[s].step = "expire"
  /\ slots' = [slots EXCEPT ![job[s].account].expires = TRUE]
  /\ job' = [job EXCEPT ![s].step = "lease"]
  /\ UNCHANGED <<rowVars, account, holder, tasks, wait, now, pauses, bounds>>

MinuteEnds(a) ==
  /\ slots[a].expires
  /\ slots' = [slots EXCEPT ![a] = [count |-> 0, expires |-> FALSE]]
  /\ UNCHANGED <<rowVars, account, holder, job, tasks, wait, now, pauses, bounds>>

TakeLease(s) ==
  LET a == job[s].account IN
  /\ job[s].step = "lease"
  /\ IF holder[a] = NoSource
     THEN /\ holder' = [holder EXCEPT ![a] = s]
          /\ job' = [job EXCEPT ![s].step = "load"] /\ UNCHANGED overtaken
     ELSE End(s) /\ UNCHANGED holder
  /\ UNCHANGED <<rowVars, account, slots, tasks, wait, now, unrecorded, bounds>>

\* SET NX EX: the lease may end before its collection does.
LeaseExpires(a) ==
  /\ holder[a] # NoSource
  /\ holder' = [holder EXCEPT ![a] = NoSource]
  /\ UNCHANGED <<rowVars, account, slots, job, tasks, wait, now, pauses, bounds>>

Released(s) ==
  [a \in Pool |-> IF holder[a] = s /\ job[s].account = a THEN NoSource ELSE holder[a]]

\* get_collectable_source
LoadSource(s) ==
  /\ job[s].step = "load"
  /\ IF Collectable(row[s])
     THEN /\ job' = [job EXCEPT ![s].step = "request"] /\ UNCHANGED <<holder, overtaken>>
     ELSE End(s) /\ holder' = Released(s)
  /\ UNCHANGED <<rowVars, account, slots, tasks, wait, now, unrecorded, bounds>>

Served(session) == Over(wait[session]) /\ UNCHANGED <<wait, floods>>

Refused(session) ==
  \/ ~Over(wait[session]) /\ UNCHANGED <<wait, floods>>
  \/ /\ Over(wait[session]) /\ floods < MaxFloods
     /\ floods' = floods + 1
     /\ \E until \in now + 1 .. MaxTime : wait' = [wait EXCEPT ![session] = until]

\* fetch_message_snapshots; sync_existing_messages then asks for the known messages.
Fetched(s) ==
  /\ job[s].step = "request" /\ Served(Session(s))
  /\ job' = [job EXCEPT ![s].step = "sync"]
  /\ UNCHANGED <<rowVars, poolVars, tasks, now, pauses, requests, failures>>

Synced(s) ==
  /\ job[s].step = "sync" /\ Served(Session(s))
  /\ End(s) /\ holder' = Released(s)
  /\ UNCHANGED <<rowVars, account, slots, tasks, now, unrecorded, requests, failures>>

\* A FloodWait there is caught by nobody: the task fails, and nothing is paused.
SyncRefused(s) ==
  /\ job[s].step = "sync" /\ Refused(Session(s))
  /\ End(s) /\ holder' = Released(s)
  /\ unrecorded' = unrecorded \union {Session(s)}
  /\ UNCHANGED <<rowVars, account, slots, tasks, now, requests, failures>>

\* One of get_entity and fetch_message_snapshots is caught: the end of the wait is computed.
FloodWaited(s) ==
  /\ job[s].step = "request" /\ Refused(Session(s))
  /\ job' = [job EXCEPT ![s].step = "pause", ![s].until = wait'[Session(s)]]
  /\ UNCHANGED <<rowVars, poolVars, tasks, now, pauses, requests, failures>>

\* The source and, if it came from the pool, the account are paused.
CommitPause(s) ==
  LET a == job[s].account
      until == job[s].until
  IN
  /\ job[s].step = "pause" /\ ~Locked(a)
  /\ row' = [row EXCEPT ![s].status = "floodwait", ![s].pause = until]
  /\ flooded' = flooded \union {s}
  /\ account' = [b \in Pool |-> IF b = a THEN [status |-> "floodwait", until |-> until]
                                ELSE account[b]]
  /\ unrecorded' = IF until < wait[Session(s)] THEN unrecorded \union {Session(s)}
                   ELSE unrecorded \ {Session(s)}
  /\ job' = [job EXCEPT ![s] = IdleJob]
  /\ overtaken' =
       (overtaken \union {t \in SourceIds : a # NoAccount /\ job[t].account = a}) \ {s}
  /\ holder' = Released(s)
  /\ UNCHANGED <<closed, overwritten, slots, tasks, wait, now, bounds>>

\* The task of a lost worker comes back, finds the source locked, and ends.
LoseWorker(s) ==
  /\ job[s].step \notin {"idle", "queued"} /\ failures < MaxFailures
  /\ failures' = failures + 1
  /\ End(s)
  /\ unrecorded' = unrecorded \union (IF job[s].step = "pause" THEN {Session(s)} ELSE {})
  /\ UNCHANGED <<rowVars, poolVars, tasks, wait, now, floods, requests>>

-----------------------------------------------------------------------------
(* Validation *)


\* Every run publishes again, whatever is queued or under way.
EnqueueValidations ==
  /\ queued' = [s \in SourceIds |->
       IF /\ queued[s] < MaxQueued /\ row[s].enabled /\ Over(row[s].pause)
          /\ row[s].status = "pending_validation"
       THEN queued[s] + 1 ELSE queued[s]]
  /\ UNCHANGED <<rowVars, poolVars, job, recovery, check, wait, now, pauses, bounds>>

Load(v, s) ==
  /\ check[v].step = "idle"
  /\ check' = [check EXCEPT ![v] =
       [IdleCheck EXCEPT !.step = "request", !.source = s, !.loaded = row[s]]]
  /\ UNCHANGED <<rowVars, poolVars, job, recovery, wait, now, pauses, floods, failures>>

\* validate_source_task
StartValidation(s) ==
  /\ queued[s] > 0 /\ queued' = [queued EXCEPT ![s] = @ - 1]
  /\ \E v \in Validators : Load(v, s)
  /\ UNCHANGED requests

\* POST /sources/{id}/validate
RequestValidation(s) ==
  /\ row[s].status # "absent" /\ requests < MaxRequests
  /\ requests' = requests + 1
  /\ \E v \in Validators : Load(v, s)
  /\ UNCHANGED queued

\* apply_successful_validation; apply_failed_validation: not_found, private; any other error
Answered(v) ==
  /\ check[v].step = "request" /\ Served(DefaultSession)
  /\ \E answer \in {"ok", "private", "error"} :
       check' = [check EXCEPT ![v].step = "save", ![v].answer = answer]
  /\ UNCHANGED <<rowVars, poolVars, job, recovery, queued, now, pauses, requests, failures>>

ValidationFloodWaited(v) ==
  /\ check[v].step = "request" /\ Refused(DefaultSession)
  /\ check' = [check EXCEPT ![v].step = "save", ![v].answer = "floodwait",
                            ![v].until = wait'[DefaultSession]]
  /\ UNCHANGED <<rowVars, poolVars, job, recovery, queued, now, pauses, requests, failures>>

\* The row as the validation leaves it in its session
Validated(c) ==
  [c.loaded EXCEPT !.status = c.answer, !.public = (c.answer = "ok"),
                   !.pause = IF c.answer \in {"ok", "floodwait"} THEN c.until ELSE @]

\* The columns that differ from those loaded are written.
Saved(c) ==
  [n \in DOMAIN Absent |->
     IF Validated(c)[n] # c.loaded[n] THEN Validated(c)[n] ELSE row[c.source][n]]

SaveValidation(v) ==
  LET c == check[v]
      s == c.source
      open == c.answer = "ok"
      shut == {c.answer, Saved(c).status} \subseteq {"private", "error"}
  IN
  /\ c.step = "save" /\ ~(open /\ s \in Clashing)
  /\ row' = [row EXCEPT ![s] = Saved(c)]
  /\ check' = [check EXCEPT ![v] = IdleCheck]
  /\ closed' = IF shut THEN closed \union {s} ELSE IF open THEN closed \ {s} ELSE closed
  /\ flooded' = IF c.answer = "floodwait" THEN flooded \union {s}
                ELSE IF open \/ shut THEN flooded \ {s} ELSE flooded
  /\ overwritten' = IF open \/ shut THEN overwritten \ {s} ELSE overwritten
  /\ UNCHANGED <<poolVars, job, recovery, queued, wait, now, pauses, bounds>>

\* IntegrityError, however often it is repeated: nothing is saved.
ValidationClashes(v) ==
  /\ check[v].step = "save" /\ check[v].answer = "ok" /\ check[v].source \in Clashing
  /\ check' = [check EXCEPT ![v] = IdleCheck]
  /\ UNCHANGED <<rowVars, poolVars, job, recovery, queued, wait, now, pauses, bounds>>

\* The client is not authorized; or the worker is lost and the task comes back.
ValidationFails(v) ==
  /\ check[v].step # "idle" /\ failures < MaxFailures
  /\ failures' = failures + 1
  /\ check' = [check EXCEPT ![v] = IdleCheck]
  /\ \/ UNCHANGED queued
     \/ /\ queued[check[v].source] < MaxQueued
        /\ queued' = [queued EXCEPT ![check[v].source] = @ + 1]
  /\ UNCHANGED <<rowVars, poolVars, job, recovery, wait, now, pauses, floods,
                 requests>>

-----------------------------------------------------------------------------

Collect(s) ==
  \/ FindExpired(s) \/ ResolveAccount(s) \/ CountRequest(s) \/ ExpireCounter(s)
  \/ TakeLease(s) \/ LoadSource(s) \/ Fetched(s) \/ Synced(s) \/ SyncRefused(s)
  \/ FloodWaited(s) \/ CommitPause(s)

Recover(r) ==
  BeginRecovery(r) \/ SelectSources(r) \/ CommitRecovery(r) \/ EnqueueCollections(r)

Validate(v) ==
  Answered(v) \/ ValidationFloodWaited(v) \/ SaveValidation(v) \/ ValidationClashes(v)

Next ==
  \/ Tick \/ EnqueueValidations
  \/ \E s \in SourceIds :
       \/ CreateSource(s) \/ \E enabled \in BOOLEAN : SetEnabled(s, enabled)
       \/ Collect(s) \/ LoseWorker(s)
       \/ StartValidation(s) \/ RequestValidation(s)
  \/ \E r \in Recoverers : Recover(r) \/ LoseRecovery(r)
  \/ \E v \in Validators : Validate(v) \/ ValidationFails(v)
  \/ \E a \in Pool : MinuteEnds(a) \/ LeaseExpires(a)

Spec == Init /\ [][Next]_vars

\* Time passes, beat publishes its tasks, keys expire, running tasks keep running, and no
\* task waits for ever behind others of its queue.
Fairness ==
  /\ WF_vars(Tick) /\ WF_vars(EnqueueValidations)
  /\ \A r \in Recoverers : WF_vars(Recover(r))
  /\ \A s \in SourceIds : WF_vars(Collect(s)) /\ SF_vars(StartValidation(s))
  /\ \A v \in Validators : WF_vars(Validate(v))
  /\ \A a \in Pool : WF_vars(MinuteEnds(a)) /\ WF_vars(LeaseExpires(a))

FairSpec == Spec /\ Fairness

-----------------------------------------------------------------------------
(* Properties *)

Rows == [status : {"absent", "pending_validation", "ok", "floodwait", "private", "error"},
         public : BOOLEAN, enabled : BOOLEAN, pause : 0 .. MaxTime]
Accounts == [status : {"active", "floodwait"}, until : 0 .. MaxTime]
JobSteps == {"idle", "queued", "choose", "count", "expire", "lease", "load", "request",
             "sync", "pause"}
Jobs == [step : JobSteps, account : Pool \union {NoAccount}, found : [Pool -> Accounts],
         until : 0 .. MaxTime]
Recoveries == [step : {"idle", "accounts", "commit", "publish"},
               accounts : [Pool -> Accounts], sources : [SourceIds -> Rows]]
Checks == [step : {"idle", "request", "save"}, source : SourceIds \union {NoSource},
           loaded : Rows, answer : {"none", "ok", "private", "error", "floodwait"},
           until : 0 .. MaxTime]

\* Every variable keeps its type; a collection has an account wherever it needs one, and a
\* validation its source.
TypeOK ==
  /\ row \in [SourceIds -> Rows] /\ account \in [Pool -> Accounts]
  /\ slots \in [Pool -> [count : Nat, expires : BOOLEAN]]
  /\ holder \in [Pool -> SourceIds \union {NoSource}]
  /\ job \in [SourceIds -> Jobs]
  /\ \A s \in SourceIds :
       job[s].step \in {"count", "expire", "lease"} => job[s].account \in Pool
  /\ recovery \in [Recoverers -> Recoveries]
  /\ queued \in [SourceIds -> 0 .. MaxQueued] /\ check \in [Validators -> Checks]
  /\ \A v \in Validators :
       /\ check[v].step # "idle" => check[v].source \in SourceIds
       /\ check[v].step = "save" => check[v].answer # "none"
  /\ wait \in [Sessions -> 0 .. MaxTime] /\ now \in Nat \ {0}
  /\ overtaken \subseteq SourceIds /\ unrecorded \subseteq Sessions
  /\ closed \subseteq SourceIds /\ flooded \subseteq SourceIds
  /\ overwritten \subseteq SourceIds
  /\ floods \in Nat /\ requests \in Nat /\ failures \in Nat

BeingPaused(a) == \E s \in SourceIds : job[s].step = "pause" /\ job[s].account = a

\* A session that Telegram refuses is left alone: during a wait a collection only goes out
\* through an account of the pool if it had chosen it before its pause was committed, while
\* that commit is under way, or if the pause was never stored, stored too short, or erased
\* by a recovery that read the account before.  Not so for the default session.
RefusedAccountRests ==
  \A s \in SourceIds :
    LET a == job[s].account IN
    a \in Pool \ {DefaultSession} /\ ~Over(wait[a])
      => s \in overtaken \/ a \in unrecorded \/ BeingPaused(a)

\* Whoever else uses an account, its pause lasts as long as Telegram makes it wait, with the
\* same exceptions.
WaitIsRecorded ==
  \A a \in Pool \ {DefaultSession} :
    ~Over(wait[a]) => account[a].until >= wait[a] \/ a \in unrecorded \/ BeingPaused(a)

\* A source stored as private or in error is only opened again by a validation that finds
\* it public, by the end of a pause that was stored after, or by a recovery that had read
\* the source before, while it was paused.
ReopenedOnlyAfterWait ==
  \A s \in closed : row[s].status = "ok" => s \in flooded \union overwritten

\* Pauses end: a paused account is used again, a paused source can be collected again, and
\* a used-up budget of requests comes back.  Not so if the pause of a source was removed and
\* its status left, by validations that overlap; nor if a worker was lost, for instance
\* between INCR and EXPIRE.
PausesEnd ==
  /\ \A s \in SourceIds :
       row[s].status = "floodwait" ~> (row[s].status # "floodwait" \/ row[s].pause = None)
  /\ \A a \in Pool : account[a].status = "floodwait" ~> account[a].status = "active"
  /\ \A a \in Pool : slots[a].count >= Limit ~> (slots[a].count = 0 \/ failures > 0)


=============================================================================
