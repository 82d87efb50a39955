--------------------------- MODULE Sources_proofs ---------------------------
(***************************************************************************)
(* Proofs about the pauses of accounts and sources, and about collections  *)
(* that go on during a pause: whoever uses them, however many recoveries   *)
(* and validations overlap, and whoever is lost on the way.                *)
(***************************************************************************)
EXTENDS Sources, TLAPS

(* Types *)

PoolTypes ==
  /\ account \in [Pool -> Accounts]
  /\ slots \in [Pool -> [count : Nat, expires : BOOLEAN]]
  /\ holder \in [Pool -> SourceIds \union {NoSource}]
JobTypes ==
  /\ job \in [SourceIds -> Jobs]
  /\ \A s \in SourceIds :
       job[s].step \in {"count", "expire", "lease"} => job[s].account \in Pool
CheckTypes ==
  /\ queued \in [SourceIds -> 0 .. MaxQueued] /\ check \in [Validators -> Checks]
  /\ \A v \in Validators :
       /\ check[v].step # "idle" => check[v].source \in SourceIds
       /\ check[v].step = "save" => check[v].answer # "none"
TimeTypes == wait \in [Sessions -> 0 .. MaxTime] /\ now \in Nat \ {0}
HistoryTypes ==
  /\ overtaken \subseteq SourceIds /\ unrecorded \subseteq Sessions
  /\ closed \subseteq SourceIds /\ flooded \subseteq SourceIds
  /\ overwritten \subseteq SourceIds
  /\ floods \in Nat /\ requests \in Nat /\ failures \in Nat

LEMMA Types ==
  TypeOK <=> /\ row \in [SourceIds -> Rows] /\ PoolTypes /\ JobTypes
             /\ recovery \in [Recoverers -> Recoveries] /\ CheckTypes
             /\ TimeTypes /\ HistoryTypes
  BY DEF TypeOK, PoolTypes, JobTypes, CheckTypes, TimeTypes, HistoryTypes

LEMMA IdleOK ==
  /\ Absent \in Rows /\ NobodyFound \in [Pool -> Accounts] /\ Unpaused \in Accounts
  /\ IdleJob \in Jobs /\ IdleJob.step = "idle" /\ IdleJob.account = NoAccount
  /\ IdleRecovery \in Recoveries
  /\ IdleCheck \in Checks /\ IdleCheck.step = "idle"
  /\ MaxTime \in Nat /\ MaxQueued \in Nat /\ None \in 0 .. MaxTime
<1>1. MaxTime \in Nat /\ MaxQueued \in Nat /\ None \in 0 .. MaxTime
  BY SourceBounds DEF None
<1>2. Absent \in Rows /\ Unpaused \in Accounts
  BY <1>1 DEF Absent, Rows, Unpaused, Accounts
<1>3. NobodyFound \in [Pool -> Accounts]
  BY <1>2 DEF NobodyFound
<1>4. IdleJob \in Jobs /\ IdleJob.step = "idle" /\ IdleJob.account = NoAccount
  BY <1>1, <1>3 DEF IdleJob, Jobs, JobSteps
<1>5. IdleRecovery \in Recoveries
  BY <1>2, <1>3 DEF IdleRecovery, Recoveries
<1>6. IdleCheck \in Checks /\ IdleCheck.step = "idle"
  BY <1>1, <1>2 DEF IdleCheck, Checks
<1>. QED BY <1>1, <1>2, <1>3, <1>4, <1>5, <1>6

LEMMA InitTypes == Init => TypeOK
<1> SUFFICES ASSUME Init PROVE TypeOK
  OBVIOUS
<1>1. row \in [SourceIds -> Rows]
  <2>1. PICK opened \in SUBSET (SourceIds \ Clashing) :
          row = [s \in SourceIds |->
            IF s \in opened
            THEN [status |-> "ok", public |-> TRUE, enabled |-> TRUE, pause |-> None]
            ELSE Absent]
    BY DEF Init
  <2>2. [status |-> "ok", public |-> TRUE, enabled |-> TRUE, pause |-> None] \in Rows
    BY IdleOK DEF Rows
  <2>. QED BY <2>1, <2>2, IdleOK
<1>2. PoolTypes
  BY IdleOK DEF Init, PoolTypes
<1>3. JobTypes
  BY IdleOK DEF Init, JobTypes
<1>4. recovery \in [Recoverers -> Recoveries]
  BY IdleOK DEF Init
<1>5. CheckTypes
  BY IdleOK DEF Init, CheckTypes
<1>6. TimeTypes /\ HistoryTypes
  BY IdleOK DEF Init, TimeTypes, HistoryTypes
<1>. QED BY <1>1, <1>2, <1>3, <1>4, <1>5, <1>6, Types

LEMMA ExpiredTypes ==
  ASSUME TypeOK
  PROVE  ExpiredAccounts \in [Pool -> Accounts] /\ ExpiredSources \in [SourceIds -> Rows]
  BY IdleOK DEF TypeOK, ExpiredAccounts, ExpiredSources

LEMMA RecoveredTypes ==
  ASSUME TypeOK, NEW found
  PROVE  Recovered(found) \in [Pool -> Accounts] /\ Erased(found) \subseteq Sessions
  BY IdleOK DEF TypeOK, Recovered, Erased, Sessions

LEMMA WaitType ==
  ASSUME TypeOK, NEW session, Refused(session) \/ Served(session)
  PROVE  /\ wait' \in [Sessions -> 0 .. MaxTime] /\ floods' \in Nat
         /\ \A b \in Sessions : b # session => wait'[b] = wait[b]
<1>0. wait \in [Sessions -> 0 .. MaxTime] /\ now \in Nat /\ floods \in Nat
  BY DEF TypeOK
<1>1. CASE UNCHANGED <<wait, floods>>
  BY <1>0, <1>1
<1>2. CASE /\ floods' = floods + 1
           /\ \E until \in now + 1 .. MaxTime : wait' = [wait EXCEPT ![session] = until]
  <2>1. PICK until \in now + 1 .. MaxTime : wait' = [wait EXCEPT ![session] = until]
    BY <1>2
  <2>2. until \in 0 .. MaxTime
    BY <1>0, SourceBounds
  <2>3. wait' \in [Sessions -> 0 .. MaxTime]
    BY <1>0, <2>1, <2>2
  <2>4. \A b \in Sessions : b # session => wait'[b] = wait[b]
    BY <1>0, <2>1
  <2>. QED BY <1>0, <1>2, <2>3, <2>4
<1>. QED BY <1>1, <1>2 DEF Refused, Served

LEMMA SessionOK == ASSUME TypeOK, NEW s \in SourceIds PROVE Session(s) \in Sessions
  BY DEF TypeOK, Jobs, Session, Sessions

\* A collection goes on as j.
LEMMA JobStep ==
  ASSUME TypeOK, NEW s \in SourceIds, NEW j \in Jobs,
         j.step \in {"count", "expire", "lease"} => j.account \in Pool,
         job' = [job EXCEPT ![s] = j]
  PROVE  JobTypes' /\ job'[s] = j /\ \A t \in SourceIds : t # s => job'[t] = job[t]
  BY DEF TypeOK, JobTypes

LEMMA NextJobs ==
  ASSUME TypeOK, NEW s \in SourceIds, NEW step \in JobSteps
  PROVE  /\ [job[s] EXCEPT !.step = step] \in Jobs
         /\ [job[s] EXCEPT !.step = step].step = step
         /\ [job[s] EXCEPT !.step = step].account = job[s].account
<1>1. job[s] \in Jobs
  BY DEF TypeOK
<1>. QED BY <1>1 DEF Jobs

\* What a collection is after each of its actions
LEMMA GoesOn ==
  ASSUME TypeOK, NEW s \in SourceIds, NEW step \in JobSteps,
         step \in {"count", "expire", "lease"} => job[s].account \in Pool,
         job' = [job EXCEPT ![s].step = step]
  PROVE  /\ JobTypes' /\ job'[s].step = step /\ job'[s].account = job[s].account
         /\ \A t \in SourceIds : t # s => job'[t] = job[t]
<1>. DEFINE j == [job[s] EXCEPT !.step = step]
<1>1. job' = [job EXCEPT ![s] = j]
  OBVIOUS
<1>2. j \in Jobs /\ j.step = step /\ j.account = job[s].account
  BY NextJobs
<1>. HIDE DEF j
<1>. QED BY <1>1, <1>2, JobStep

LEMMA Ends ==
  ASSUME TypeOK, NEW s \in SourceIds, job' = [job EXCEPT ![s] = IdleJob]
  PROVE  /\ JobTypes' /\ job'[s] = IdleJob
         /\ \A t \in SourceIds : t # s => job'[t] = job[t]
  BY IdleOK, JobStep

LEMMA ReleasedType ==
  ASSUME TypeOK, NEW s \in SourceIds
  PROVE  Released(s) \in [Pool -> SourceIds \union {NoSource}]
  BY DEF Released, TypeOK


LEMMA NextTypes ==
  ASSUME row' \in [SourceIds -> Rows], PoolTypes', JobTypes',
         recovery' \in [Recoverers -> Recoveries], CheckTypes', TimeTypes', HistoryTypes'
  PROVE  TypeOK'
  BY DEF TypeOK, PoolTypes, JobTypes, CheckTypes, TimeTypes, HistoryTypes

\* Every row the sources can have after a change of one
LEMMA RowChanges ==
  ASSUME NEW r \in Rows, NEW pause \in 0 .. MaxTime
  PROVE  /\ \A enabled \in BOOLEAN : [r EXCEPT !.enabled = enabled] \in Rows
         /\ [r EXCEPT !.status = "floodwait", !.pause = pause] \in Rows
  BY DEF Rows

LEMMA ReopenedType ==
  ASSUME TypeOK, NEW r \in Recoverers, NEW s \in SourceIds
  PROVE  Reopened(r, s) \in Rows /\ Reopened(r, s).status = "ok"
<1>1. row[s] \in Rows /\ None \in 0 .. MaxTime
  BY IdleOK DEF TypeOK
<1>. QED BY <1>1 DEF Reopened, Rows

LEMMA SavedType ==
  ASSUME TypeOK, NEW v \in Validators, check[v].step = "save"
  PROVE  /\ Saved(check[v]) \in Rows
         /\ Saved(check[v]).status \in {check[v].answer, row[check[v].source].status}
<1>. DEFINE c == check[v]
<1>1. c \in Checks /\ c.source \in SourceIds /\ c.answer # "none" /\ None \in 0 .. MaxTime
  BY IdleOK DEF TypeOK
<1>2. c.loaded \in Rows /\ row[c.source] \in Rows /\ c.until \in 0 .. MaxTime
      /\ c.answer \in {"ok", "private", "error", "floodwait"}
  BY <1>1 DEF TypeOK, Checks
<1>3. Validated(c) \in Rows /\ Validated(c).status = c.answer
  BY <1>2 DEF Validated, Rows
<1>. HIDE DEF c
<1>4. Saved(c) =
        [status |-> IF Validated(c).status # c.loaded.status THEN Validated(c).status
                    ELSE row[c.source].status,
         public |-> IF Validated(c).public # c.loaded.public THEN Validated(c).public
                    ELSE row[c.source].public,
         enabled |-> IF Validated(c).enabled # c.loaded.enabled THEN Validated(c).enabled
                     ELSE row[c.source].enabled,
         pause |-> IF Validated(c).pause # c.loaded.pause THEN Validated(c).pause
                   ELSE row[c.source].pause]
  BY DEF Saved, Absent
<1>5. Saved(c) \in Rows /\ Saved(c).status \in {c.answer, row[c.source].status}
  BY <1>2, <1>3, <1>4 DEF Rows
<1>. QED BY <1>5 DEF c

\* A validation goes on as c.
LEMMA CheckStep ==
  ASSUME TypeOK, NEW v \in Validators, NEW c \in Checks,
         c.step # "idle" => c.source \in SourceIds, c.step = "save" => c.answer # "none",
         check' = [check EXCEPT ![v] = c], queued' \in [SourceIds -> 0 .. MaxQueued]
  PROVE  CheckTypes'
  BY DEF TypeOK, CheckTypes

LEMMA SameCheck == ASSUME TypeOK, UNCHANGED <<queued, check>> PROVE CheckTypes'
  BY DEF TypeOK, CheckTypes

LEMMA SameJobs == ASSUME TypeOK, UNCHANGED job PROVE JobTypes'
  BY DEF TypeOK, JobTypes

LEMMA SamePool == ASSUME TypeOK, UNCHANGED poolVars PROVE PoolTypes'
  BY DEF TypeOK, PoolTypes, poolVars

LEMMA SameTime == ASSUME TypeOK, UNCHANGED <<wait, now>> PROVE TimeTypes'
  BY DEF TypeOK, TimeTypes

LEMMA SameHistory ==
  ASSUME TypeOK, UNCHANGED <<pauses, closed, flooded, overwritten, bounds>>
  PROVE  HistoryTypes'
  BY DEF TypeOK, HistoryTypes, pauses, bounds

LEMMA TypesOfOperators ==
  ASSUME TypeOK, NEW s \in SourceIds,
         CreateSource(s) \/ \E enabled \in BOOLEAN : SetEnabled(s, enabled)
  PROVE  TypeOK'
<1>1. UNCHANGED <<poolVars, job, tasks, wait, now, pauses, closed, flooded, overwritten>>
  BY DEF CreateSource, SetEnabled
<1>2. HistoryTypes'
  <2>1. requests' \in Nat /\ UNCHANGED <<floods, failures>>
    BY DEF CreateSource, SetEnabled, TypeOK, bounds
  <2>. QED BY <1>1, <2>1 DEF TypeOK, HistoryTypes, pauses
<1>3. row' \in [SourceIds -> Rows]
  <2>1. CASE CreateSource(s)
    <3>1. [status |-> "pending_validation", public |-> FALSE, enabled |-> TRUE, pause |-> None]
            \in Rows
      BY IdleOK DEF Rows
    <3>. QED BY <2>1, <3>1 DEF CreateSource, TypeOK
  <2>2. ASSUME NEW enabled \in BOOLEAN, SetEnabled(s, enabled)
        PROVE  row' \in [SourceIds -> Rows]
    <3>1. row' = [row EXCEPT ![s] = [row[s] EXCEPT !.enabled = enabled]]
      BY <2>2 DEF SetEnabled
    <3>2. row[s] \in Rows /\ None \in 0 .. MaxTime
      BY IdleOK DEF TypeOK
    <3>3. [row[s] EXCEPT !.enabled = enabled] \in Rows
      BY <3>2, RowChanges
    <3>. QED BY <3>1, <3>3 DEF TypeOK
  <2>. QED BY <2>1, <2>2
<1>4. recovery' \in [Recoverers -> Recoveries] /\ UNCHANGED <<queued, check>>
  BY <1>1 DEF tasks, TypeOK
<1>. QED BY <1>1, <1>2, <1>3, <1>4, SamePool, SameJobs, SameCheck, SameTime, NextTypes

LEMMA TypesOfTime ==
  ASSUME TypeOK, \/ Tick \/ UNCHANGED vars
                 \/ \E a \in Pool : MinuteEnds(a) \/ LeaseExpires(a)
  PROVE  TypeOK'
<1>1. /\ UNCHANGED <<row, account, job, recovery, queued, check, wait>>
      /\ UNCHANGED <<pauses, closed, flooded, overwritten, bounds>>
  BY DEF Tick, MinuteEnds, LeaseExpires, vars, rowVars, poolVars, pauses, tasks, bounds
<1>2. now' = now \/ now' = now + 1
  BY DEF Tick, MinuteEnds, LeaseExpires, vars
<1>3. PoolTypes'
  <2>1. CASE UNCHANGED <<slots, holder>>
    BY <1>1, <2>1 DEF TypeOK, PoolTypes
  <2>2. ASSUME NEW a \in Pool, MinuteEnds(a) \/ LeaseExpires(a) PROVE PoolTypes'
    <3>1. CASE MinuteEnds(a)
      BY <1>1, <3>1 DEF MinuteEnds, TypeOK, PoolTypes
    <3>2. CASE LeaseExpires(a)
      BY <1>1, <3>2 DEF LeaseExpires, TypeOK, PoolTypes
    <3>. QED BY <2>2, <3>1, <3>2
  <2>. QED BY <2>1, <2>2 DEF Tick, vars, poolVars
<1>4. row' \in [SourceIds -> Rows] /\ recovery' \in [Recoverers -> Recoveries] /\ TimeTypes'
  BY <1>1, <1>2 DEF TypeOK, TimeTypes
<1>. QED BY <1>1, <1>3, <1>4, SameJobs, SameCheck, SameHistory, NextTypes

LEMMA TypesOfRecoveries ==
  ASSUME TypeOK, NEW r \in Recoverers, Recover(r) \/ LoseRecovery(r)
  PROVE  TypeOK'
<1>1. UNCHANGED <<queued, check, wait, now>> /\ CheckTypes' /\ TimeTypes'
  <2>1. UNCHANGED <<queued, check, wait, now>>
    BY DEF Recover, BeginRecovery, SelectSources, CommitRecovery, EnqueueCollections,
           LoseRecovery
  <2>. QED BY <2>1, SameCheck, SameTime
<1>2. CASE BeginRecovery(r)
  <2>1. [IdleRecovery EXCEPT !.step = "accounts", !.accounts = ExpiredAccounts] \in Recoveries
    BY IdleOK, ExpiredTypes DEF Recoveries
  <2>2. recovery' \in [Recoverers -> Recoveries]
    BY <1>2, <2>1 DEF BeginRecovery, TypeOK
  <2>3. UNCHANGED <<rowVars, poolVars, job, pauses, bounds>>
    BY <1>2 DEF BeginRecovery
  <2>. QED BY <1>1, <2>2, <2>3, SamePool, SameJobs, SameHistory, NextTypes DEF rowVars, TypeOK
<1>3. CASE SelectSources(r)
  <2>1. recovery' = [recovery EXCEPT ![r] =
                       [recovery[r] EXCEPT !.step = "commit", !.sources = ExpiredSources]]
    BY <1>3 DEF SelectSources
  <2>2. [recovery[r] EXCEPT !.step = "commit", !.sources = ExpiredSources] \in Recoveries
    <3>1. recovery[r] \in Recoveries
      BY DEF TypeOK
    <3>. QED BY <3>1, ExpiredTypes DEF Recoveries
  <2>3. recovery' \in [Recoverers -> Recoveries]
    BY <2>1, <2>2 DEF TypeOK
  <2>4. UNCHANGED <<rowVars, poolVars, job, pauses, bounds>>
    BY <1>3 DEF SelectSources
  <2>. QED BY <1>1, <2>3, <2>4, SamePool, SameJobs, SameHistory, NextTypes DEF rowVars, TypeOK
<1>4. CASE CommitRecovery(r)
  <2>1. recovery' \in [Recoverers -> Recoveries]
    <3>1. PICK next \in {"idle", "publish"} :
            recovery' = [recovery EXCEPT ![r] = [IdleRecovery EXCEPT !.step = next]]
      BY <1>4 DEF CommitRecovery
    <3>2. [IdleRecovery EXCEPT !.step = next] \in Recoveries
      BY IdleOK DEF Recoveries
    <3>. QED BY <3>1, <3>2 DEF TypeOK
  <2>2. row' \in [SourceIds -> Rows]
    <3>1. \E found : row' = [s \in SourceIds |-> IF s \in found THEN Reopened(r, s) ELSE row[s]]
      BY <1>4 DEF CommitRecovery
    <3>. QED BY <3>1, ReopenedType DEF TypeOK
  <2>3. PoolTypes'
    BY <1>4, RecoveredTypes DEF CommitRecovery, PoolTypes, TypeOK
  <2>4. HistoryTypes'
    <3>1. unrecorded' \subseteq Sessions /\ overwritten' \subseteq SourceIds
      BY <1>4, RecoveredTypes DEF CommitRecovery, TypeOK
    <3>2. UNCHANGED <<closed, flooded, overtaken, bounds>>
      BY <1>4 DEF CommitRecovery
    <3>. QED BY <3>1, <3>2 DEF HistoryTypes, TypeOK, bounds
  <2>5. JobTypes'
    BY <1>4, SameJobs DEF CommitRecovery
  <2>. QED BY <1>1, <2>1, <2>2, <2>3, <2>4, <2>5, NextTypes
<1>5. CASE EnqueueCollections(r)
  <2>1. recovery' \in [Recoverers -> Recoveries]
    BY <1>5, IdleOK DEF EnqueueCollections, TypeOK
  <2>2. JobTypes'
    <3>1. [IdleJob EXCEPT !.step = "queued"] \in Jobs
          /\ [IdleJob EXCEPT !.step = "queued"].step = "queued"
      BY IdleOK DEF Jobs, JobSteps
    <3>. QED BY <1>5, <3>1 DEF EnqueueCollections, JobTypes, TypeOK
  <2>3. UNCHANGED <<rowVars, poolVars, pauses, bounds>>
    BY <1>5 DEF EnqueueCollections
  <2>. QED BY <1>1, <2>1, <2>2, <2>3, SamePool, SameHistory, NextTypes DEF rowVars, TypeOK
<1>6. CASE LoseRecovery(r)
  <2>1. recovery' \in [Recoverers -> Recoveries]
    BY <1>6, IdleOK DEF LoseRecovery, TypeOK
  <2>2. UNCHANGED <<rowVars, poolVars, job, pauses, floods, requests>> /\ failures' \in Nat
    BY <1>6 DEF LoseRecovery, TypeOK
  <2>3. HistoryTypes' /\ row' \in [SourceIds -> Rows]
    BY <2>2 DEF HistoryTypes, TypeOK, rowVars, pauses
  <2>. QED BY <1>1, <2>1, <2>2, <2>3, SamePool, SameJobs, NextTypes
<1>. QED BY <1>2, <1>3, <1>4, <1>5, <1>6 DEF Recover

LEMMA TypesOfCollections ==
  ASSUME TypeOK, NEW s \in SourceIds, Collect(s) \/ LoseWorker(s)
  PROVE  TypeOK'
<1>1. /\ recovery' \in [Recoverers -> Recoveries] /\ UNCHANGED <<queued, check, now>>
      /\ CheckTypes'
  <2>1. UNCHANGED <<recovery, queued, check, now>>
    BY DEF Collect, FindExpired, ResolveAccount, CountRequest, ExpireCounter, TakeLease,
           LoadSource, Fetched, Synced, SyncRefused, FloodWaited, CommitPause, LoseWorker, tasks
  <2>. QED BY <2>1, SameCheck DEF TypeOK
<1>2. CASE FindExpired(s)
  <2>1. job' = [job EXCEPT ![s] = [job[s] EXCEPT !.step = "choose", !.found = ExpiredAccounts]]
    BY <1>2 DEF FindExpired
  <2>2. /\ [job[s] EXCEPT !.step = "choose", !.found = ExpiredAccounts] \in Jobs
        /\ [job[s] EXCEPT !.step = "choose", !.found = ExpiredAccounts].step = "choose"
    <3>1. job[s] \in Jobs
      BY DEF TypeOK
    <3>. QED BY <3>1, ExpiredTypes DEF Jobs, JobSteps
  <2>3. JobTypes'
    BY <2>1, <2>2 DEF TypeOK, JobTypes
  <2>4. UNCHANGED <<rowVars, poolVars, wait, now, pauses, bounds>>
    BY <1>2 DEF FindExpired
  <2>. QED BY <1>1, <2>3, <2>4, SamePool, SameTime, SameHistory, NextTypes DEF rowVars, TypeOK
<1>3. CASE ResolveAccount(s)
  <2>1. PICK a \in Selected(s, Available(Recovered(job[s].found))) :
          job' = [job EXCEPT ![s] = [IdleJob EXCEPT
            !.step = IF a = NoAccount THEN "load" ELSE "count", !.account = a]]
    BY <1>3 DEF ResolveAccount
  <2>2. a \in Pool \union {NoAccount}
    BY DEF Selected, Available
  <2>. DEFINE j == [IdleJob EXCEPT !.step = IF a = NoAccount THEN "load" ELSE "count",
                                   !.account = a]
  <2>3. /\ j \in Jobs /\ j.step \in {"load", "count"} /\ j.account = a
        /\ j.step = "count" => a # NoAccount
    BY <2>2, IdleOK DEF Jobs, JobSteps
  <2>4. job' = [job EXCEPT ![s] = j]
    BY <2>1
  <2>. HIDE DEF j
  <2>5. JobTypes'
    BY <2>2, <2>3, <2>4, JobStep
  <2>6. PoolTypes' /\ unrecorded' \subseteq Sessions
    BY <1>3, RecoveredTypes DEF ResolveAccount, PoolTypes, TypeOK
  <2>7. UNCHANGED <<rowVars, wait, now, overtaken, bounds>>
    BY <1>3 DEF ResolveAccount
  <2>8. HistoryTypes' /\ TimeTypes' /\ row' \in [SourceIds -> Rows]
    BY <2>6, <2>7 DEF HistoryTypes, TimeTypes, TypeOK, rowVars, bounds
  <2>. QED BY <1>1, <2>5, <2>6, <2>8, NextTypes
<1>4. CASE CountRequest(s)
  <2>. DEFINE a == job[s].account
              count == IF slots[a].count > Limit THEN slots[a].count ELSE slots[a].count + 1
  <2>1. a \in Pool
    BY <1>4 DEF CountRequest, TypeOK
  <2>2. slots' \in [Pool -> [count : Nat, expires : BOOLEAN]]
    <3>1. slots[a] \in [count : Nat, expires : BOOLEAN]
      BY <2>1 DEF TypeOK
    <3>2. count \in Nat
      BY <3>1
    <3>3. [slots[a] EXCEPT !.count = count] \in [count : Nat, expires : BOOLEAN]
      BY <3>1, <3>2
    <3>4. slots' = [slots EXCEPT ![a] = [slots[a] EXCEPT !.count = count]]
      BY <1>4 DEF CountRequest
    <3>. QED BY <2>1, <3>3, <3>4 DEF TypeOK
  <2>3. JobTypes' /\ overtaken' \subseteq SourceIds
    <3>1. \/ End(s)
          \/ overtaken' = overtaken /\ job' = [job EXCEPT ![s].step = "expire"]
          \/ overtaken' = overtaken /\ job' = [job EXCEPT ![s].step = "lease"]
      BY <1>4 DEF CountRequest
    <3>2. CASE End(s)
      BY <3>2, Ends DEF End, TypeOK
    <3>3. {"expire", "lease"} \subseteq JobSteps
      BY DEF JobSteps
    <3>. QED BY <2>1, <3>1, <3>2, <3>3, GoesOn DEF TypeOK
  <2>4. UNCHANGED <<rowVars, account, holder, wait, now, unrecorded, bounds>>
    BY <1>4 DEF CountRequest
  <2>5. PoolTypes' /\ HistoryTypes'
    BY <2>2, <2>3, <2>4 DEF PoolTypes, HistoryTypes, TypeOK, rowVars, bounds
  <2>. QED BY <1>1, <2>3, <2>4, <2>5, SameTime, NextTypes DEF rowVars, TypeOK
<1>5. CASE ExpireCounter(s)
  <2>1. job[s].account \in Pool
    BY <1>5 DEF ExpireCounter, TypeOK
  <2>2. slots' \in [Pool -> [count : Nat, expires : BOOLEAN]]
    BY <1>5, <2>1 DEF ExpireCounter, TypeOK
  <2>3. JobTypes'
    <3>1. "lease" \in JobSteps /\ job' = [job EXCEPT ![s].step = "lease"]
      BY <1>5 DEF ExpireCounter, JobSteps
    <3>. QED BY <2>1, <3>1, GoesOn
  <2>4. UNCHANGED <<rowVars, account, holder, wait, now, pauses, bounds>>
    BY <1>5 DEF ExpireCounter
  <2>5. PoolTypes'
    BY <2>2, <2>4 DEF PoolTypes, TypeOK
  <2>. QED BY <1>1, <2>3, <2>4, <2>5, SameTime, SameHistory, NextTypes DEF rowVars, TypeOK
<1>6. CASE TakeLease(s) \/ LoadSource(s)
  <2>1. \/ overtaken' = overtaken /\ job' = [job EXCEPT ![s].step = "load"]
        \/ overtaken' = overtaken /\ job' = [job EXCEPT ![s].step = "request"]
        \/ End(s)
    BY <1>6 DEF TakeLease, LoadSource
  <2>2. JobTypes' /\ overtaken' \subseteq SourceIds
    <3>1. CASE End(s)
      BY <3>1, Ends DEF End, TypeOK
    <3>2. {"load", "request"} \subseteq JobSteps
      BY DEF JobSteps
    <3>. QED BY <2>1, <3>1, <3>2, GoesOn DEF TypeOK
  <2>3. holder' \in [Pool -> SourceIds \union {NoSource}]
    BY <1>6, ReleasedType DEF TakeLease, LoadSource, TypeOK
  <2>4. UNCHANGED <<rowVars, account, slots, wait, now, unrecorded, bounds>>
    BY <1>6 DEF TakeLease, LoadSource
  <2>5. PoolTypes' /\ HistoryTypes'
    BY <2>2, <2>3, <2>4 DEF PoolTypes, HistoryTypes, TypeOK, rowVars, bounds
  <2>. QED BY <1>1, <2>2, <2>4, <2>5, SameTime, NextTypes DEF rowVars, TypeOK
<1>7. CASE Fetched(s) \/ Synced(s) \/ SyncRefused(s) \/ FloodWaited(s)
  <2>1. Refused(Session(s)) \/ Served(Session(s))
    BY <1>7 DEF Fetched, Synced, SyncRefused, FloodWaited
  <2>2. TimeTypes' /\ floods' \in Nat
    BY <1>1, <2>1, WaitType DEF TimeTypes, TypeOK
  <2>3. JobTypes' /\ overtaken' \subseteq SourceIds
    <3>1. CASE Fetched(s)
      <4>1. /\ "sync" \in JobSteps /\ job' = [job EXCEPT ![s].step = "sync"]
            /\ overtaken' = overtaken
        BY <3>1 DEF Fetched, JobSteps, pauses
      <4>. QED BY <4>1, GoesOn DEF TypeOK
    <3>2. CASE Synced(s) \/ SyncRefused(s)
      BY <3>2, Ends DEF Synced, SyncRefused, End, TypeOK
    <3>3. CASE FloodWaited(s)
      <4>. DEFINE until == wait'[Session(s)]
                  j == [job[s] EXCEPT !.step = "pause", !.until = until]
      <4>1. "pause" \in JobSteps /\ until \in 0 .. MaxTime
        BY <2>2, SessionOK DEF JobSteps, TimeTypes
      <4>2. job' = [job EXCEPT ![s] = j] /\ overtaken' = overtaken
        BY <3>3 DEF FloodWaited, pauses
      <4>. HIDE DEF until
      <4>3. \A u \in 0 .. MaxTime :
              /\ [job[s] EXCEPT !.step = "pause", !.until = u] \in Jobs
              /\ [job[s] EXCEPT !.step = "pause", !.until = u].step = "pause"
        <5>1. job[s] \in Jobs
          BY DEF TypeOK
        <5>. QED BY <5>1 DEF Jobs, JobSteps
      <4>4. j \in Jobs /\ j.step = "pause"
        BY <4>1, <4>3
      <4>. HIDE DEF j
      <4>. QED BY <4>2, <4>4, JobStep DEF TypeOK
    <3>. QED BY <1>7, <3>1, <3>2, <3>3
  <2>4. holder' \in [Pool -> SourceIds \union {NoSource}] /\ UNCHANGED <<account, slots>>
    BY <1>7, ReleasedType DEF Fetched, Synced, SyncRefused, FloodWaited, TypeOK, poolVars
  <2>5. UNCHANGED <<rowVars, requests, failures>> /\ unrecorded' \subseteq Sessions
    BY <1>7, SessionOK DEF Fetched, Synced, SyncRefused, FloodWaited, TypeOK, pauses
  <2>6. PoolTypes' /\ HistoryTypes'
    BY <2>2, <2>3, <2>4, <2>5 DEF PoolTypes, HistoryTypes, TypeOK, rowVars
  <2>. QED BY <1>1, <2>2, <2>3, <2>5, <2>6, NextTypes DEF rowVars, TypeOK
<1>8. CASE CommitPause(s)
  <2>. DEFINE a == job[s].account
              until == job[s].until
  <2>1. until \in 0 .. MaxTime
    BY DEF TypeOK, Jobs
  <2>2. row' \in [SourceIds -> Rows]
    <3>1. row' = [row EXCEPT ![s] = [row[s] EXCEPT !.status = "floodwait", !.pause = until]]
      BY <1>8 DEF CommitPause
    <3>2. [row[s] EXCEPT !.status = "floodwait", !.pause = until] \in Rows
      BY <2>1, RowChanges DEF TypeOK
    <3>. QED BY <3>1, <3>2 DEF TypeOK
  <2>3. account' \in [Pool -> Accounts]
    <3>1. [status |-> "floodwait", until |-> until] \in Accounts
      BY <2>1 DEF Accounts
    <3>. QED BY <1>8, <3>1 DEF CommitPause, TypeOK
  <2>4. JobTypes'
    BY <1>8, Ends DEF CommitPause
  <2>5. PoolTypes'
    BY <1>8, <2>3, ReleasedType DEF CommitPause, PoolTypes, TypeOK
  <2>6. /\ overtaken' \subseteq SourceIds /\ flooded' \subseteq SourceIds
        /\ unrecorded' \subseteq Sessions
    BY <1>8, SessionOK DEF CommitPause, TypeOK
  <2>7. UNCHANGED <<closed, overwritten, wait, now, bounds>>
    BY <1>8 DEF CommitPause
  <2>8. HistoryTypes'
    BY <2>6, <2>7 DEF HistoryTypes, TypeOK, bounds
  <2>. QED BY <1>1, <2>2, <2>4, <2>5, <2>7, <2>8, SameTime, NextTypes
<1>9. CASE LoseWorker(s)
  <2>1. JobTypes' /\ overtaken' \subseteq SourceIds
    BY <1>9, Ends DEF LoseWorker, End, TypeOK
  <2>2. unrecorded' \subseteq Sessions /\ failures' \in Nat
    BY <1>9, SessionOK DEF LoseWorker, TypeOK
  <2>3. UNCHANGED <<rowVars, poolVars, wait, now, floods, requests>>
    BY <1>9 DEF LoseWorker
  <2>4. HistoryTypes'
    BY <2>1, <2>2, <2>3 DEF HistoryTypes, TypeOK, rowVars
  <2>. QED BY <1>1, <2>1, <2>3, <2>4, SamePool, SameTime, NextTypes DEF rowVars, TypeOK
<1>. QED BY <1>2, <1>3, <1>4, <1>5, <1>6, <1>7, <1>8, <1>9 DEF Collect

LEMMA TypesOfValidations ==
  ASSUME TypeOK,
         \/ EnqueueValidations
         \/ \E s \in SourceIds : StartValidation(s) \/ RequestValidation(s)
         \/ \E v \in Validators : Validate(v) \/ ValidationFails(v)
  PROVE  TypeOK'
<1>1. PoolTypes' /\ JobTypes' /\ UNCHANGED <<recovery, now, pauses>>
  <2>1. UNCHANGED <<poolVars, job, recovery, now, pauses>>
    BY DEF EnqueueValidations, StartValidation, RequestValidation, Load, Validate, Answered,
           ValidationFloodWaited, SaveValidation, ValidationClashes, ValidationFails
  <2>. QED BY <2>1, SamePool, SameJobs
<1>2. /\ recovery' \in [Recoverers -> Recoveries]
      /\ \A s \in SourceIds : queued[s] \in 0 .. MaxQueued
  BY <1>1 DEF TypeOK
<1>3. ASSUME UNCHANGED <<rowVars, wait>>, CheckTypes', floods' \in Nat, requests' \in Nat,
             failures' \in Nat
      PROVE  TypeOK'
  BY <1>1, <1>2, <1>3, NextTypes DEF TimeTypes, HistoryTypes, TypeOK, rowVars, pauses
<1>4. CASE EnqueueValidations
  <2>1. queued' \in [SourceIds -> 0 .. MaxQueued] /\ check' = check
    BY <1>2, <1>4, SourceBounds DEF EnqueueValidations
  <2>2. CheckTypes'
    BY <2>1 DEF CheckTypes, TypeOK
  <2>3. UNCHANGED <<rowVars, wait, bounds>>
    BY <1>4 DEF EnqueueValidations
  <2>. QED BY <1>3, <2>2, <2>3 DEF bounds, TypeOK
<1>5. ASSUME NEW s \in SourceIds, StartValidation(s) \/ RequestValidation(s) PROVE TypeOK'
  <2>1. queued' \in [SourceIds -> 0 .. MaxQueued]
    <3>1. CASE StartValidation(s)
      <4>1. queued[s] - 1 \in 0 .. MaxQueued
        BY <1>2, <3>1, SourceBounds DEF StartValidation
      <4>2. queued' = [queued EXCEPT ![s] = queued[s] - 1]
        BY <3>1 DEF StartValidation
      <4>. QED BY <4>1, <4>2 DEF TypeOK
    <3>2. CASE RequestValidation(s)
      BY <3>2 DEF RequestValidation, TypeOK
    <3>. QED BY <1>5, <3>1, <3>2
  <2>2. PICK v \in Validators : Load(v, s)
    BY <1>5 DEF StartValidation, RequestValidation
  <2>. DEFINE c == [IdleCheck EXCEPT !.step = "request", !.source = s, !.loaded = row[s]]
  <2>3. c \in Checks /\ c.step = "request" /\ c.source = s
    <3>1. row[s] \in Rows
      BY DEF TypeOK
    <3>. QED BY <3>1, IdleOK DEF Checks
  <2>4. check' = [check EXCEPT ![v] = c] /\ UNCHANGED <<rowVars, wait, floods, failures>>
    BY <2>2 DEF Load
  <2>. HIDE DEF c
  <2>5. CheckTypes'
    BY <2>1, <2>3, <2>4, CheckStep
  <2>6. requests' \in Nat
    BY <1>5 DEF StartValidation, RequestValidation, TypeOK
  <2>. QED BY <1>3, <2>4, <2>5, <2>6 DEF TypeOK
<1>6. ASSUME NEW v \in Validators, NEW answer \in {"ok", "private", "error", "floodwait"},
             NEW until \in 0 .. MaxTime,
             check[v].step = "request", queued' = queued,
             check' = [check EXCEPT ![v].step = "save", ![v].answer = answer, ![v].until = until]
      PROVE  CheckTypes'
  <2>. DEFINE c == [check[v] EXCEPT !.step = "save", !.answer = answer, !.until = until]
  <2>1. check[v] \in Checks /\ check[v].source \in SourceIds
    BY <1>6 DEF TypeOK
  <2>2. c \in Checks /\ c.step = "save" /\ c.answer = answer /\ c.source = check[v].source
    BY <2>1 DEF Checks
  <2>3. check' = [check EXCEPT ![v] = c] /\ queued' \in [SourceIds -> 0 .. MaxQueued]
    BY <1>6 DEF TypeOK
  <2>. HIDE DEF c
  <2>. QED BY <2>1, <2>2, <2>3, CheckStep
<1>7. ASSUME NEW v \in Validators, Answered(v) \/ ValidationFloodWaited(v) PROVE TypeOK'
  <2>1. Refused(DefaultSession) \/ Served(DefaultSession)
    BY <1>7 DEF Answered, ValidationFloodWaited
  <2>2. TimeTypes' /\ floods' \in Nat
    BY <1>1, <2>1, WaitType DEF TimeTypes, TypeOK
  <2>3. CheckTypes'
    <3>1. CASE Answered(v)
      <4>1. PICK answer \in {"ok", "private", "error"} :
              check' = [check EXCEPT ![v].step = "save", ![v].answer = answer]
        BY <3>1 DEF Answered
      <4>2. check[v] \in Checks /\ check[v].until \in 0 .. MaxTime
        BY <1>7 DEF TypeOK, Checks
      <4>3. check' = [check EXCEPT ![v].step = "save", ![v].answer = answer,
                                   ![v].until = check[v].until]
        <5>1. [check[v] EXCEPT !.step = "save", !.answer = answer]
                = [check[v] EXCEPT !.step = "save", !.answer = answer, !.until = check[v].until]
          BY <4>2 DEF Checks
        <5>. QED BY <4>1, <5>1
      <4>. QED BY <1>6, <3>1, <4>2, <4>3 DEF Answered
    <3>2. CASE ValidationFloodWaited(v)
      <4>. DEFINE until == wait'[DefaultSession]
      <4>1. until \in 0 .. MaxTime
        BY <2>2 DEF TimeTypes, Sessions
      <4>2. /\ check[v].step = "request" /\ queued' = queued
            /\ check' = [check EXCEPT ![v].step = "save", ![v].answer = "floodwait",
                                      ![v].until = until]
        BY <3>2 DEF ValidationFloodWaited
      <4>. HIDE DEF until
      <4>. QED BY <1>6, <4>1, <4>2
    <3>. QED BY <1>7, <3>1, <3>2
  <2>4. UNCHANGED <<rowVars, requests, failures>>
    BY <1>7 DEF Answered, ValidationFloodWaited
  <2>. QED BY <1>1, <1>2, <2>2, <2>3, <2>4, NextTypes DEF HistoryTypes, TypeOK, rowVars, pauses
<1>8. ASSUME NEW v \in Validators, SaveValidation(v) PROVE TypeOK'
  <2>1. check[v].step = "save" /\ check[v].source \in SourceIds
    BY <1>8 DEF SaveValidation, TypeOK
  <2>2. row' \in [SourceIds -> Rows]
    <3>1. row' = [row EXCEPT ![check[v].source] = Saved(check[v])]
      BY <1>8 DEF SaveValidation
    <3>. QED BY <2>1, <3>1, SavedType DEF TypeOK
  <2>3. CheckTypes' /\ UNCHANGED <<wait, bounds>>
    <3>1. UNCHANGED <<queued, wait, bounds>> /\ check' = [check EXCEPT ![v] = IdleCheck]
      BY <1>8 DEF SaveValidation
    <3>. QED BY <3>1, IdleOK, CheckStep DEF TypeOK
  <2>4. /\ closed' \subseteq SourceIds /\ flooded' \subseteq SourceIds
        /\ overwritten' \subseteq SourceIds
    BY <1>8, <2>1 DEF SaveValidation, TypeOK
  <2>. QED BY <1>1, <1>2, <2>2, <2>3, <2>4, NextTypes
           DEF TimeTypes, HistoryTypes, TypeOK, pauses, bounds
<1>9. ASSUME NEW v \in Validators, ValidationClashes(v) \/ ValidationFails(v) PROVE TypeOK'
  <2>1. check' = [check EXCEPT ![v] = IdleCheck] /\ UNCHANGED <<rowVars, wait>>
    BY <1>9 DEF ValidationClashes, ValidationFails
  <2>2. queued' \in [SourceIds -> 0 .. MaxQueued]
    <3>1. CASE UNCHANGED queued
      BY <3>1 DEF TypeOK
    <3>2. CASE ~UNCHANGED queued
      <4>. DEFINE s == check[v].source
      <4>1. /\ ValidationFails(v) /\ queued[s] < MaxQueued /\ check[v].step # "idle"
            /\ queued' = [queued EXCEPT ![s] = queued[s] + 1]
        BY <1>9, <3>2 DEF ValidationClashes, ValidationFails
      <4>2. s \in SourceIds
        BY <4>1 DEF TypeOK
      <4>3. queued[s] + 1 \in 0 .. MaxQueued
        BY <1>2, <4>1, <4>2, SourceBounds
      <4>. QED BY <4>1, <4>2, <4>3 DEF TypeOK
    <3>. QED BY <3>1, <3>2
  <2>3. CheckTypes'
    BY <2>1, <2>2, IdleOK, CheckStep
  <2>4. floods' \in Nat /\ requests' \in Nat /\ failures' \in Nat
    BY <1>9 DEF ValidationClashes, ValidationFails, TypeOK, bounds
  <2>. QED BY <1>3, <2>1, <2>3, <2>4
<1>. QED BY <1>4, <1>5, <1>7, <1>8, <1>9 DEF Validate

\* The rows, the accounts, the keys in Redis and the tasks keep their types, and whoever
\* counts a request or takes a lease has an account of the pool.
THEOREM SourceTypes == Spec => []TypeOK
<1>1. TypeOK /\ [Next]_vars => TypeOK'
  BY TypesOfOperators, TypesOfTime, TypesOfRecoveries, TypesOfCollections, TypesOfValidations
     DEF Next
<1>. QED BY <1>1, InitTypes, PTL DEF Spec

-----------------------------------------------------------------------------
(* Pauses that are recorded *)

\* A recovery only ends pauses that were over when it found them.
FoundOver(found, time) == \A a \in Pool : Recovers(found, a) => found[a].until <= time

FoundInv ==
  /\ \A s \in SourceIds : job[s].step = "choose" => FoundOver(job[s].found, now)
  /\ \A r \in Recoverers : FoundOver(recovery[r].accounts, now)

LEMMA FoundLater ==
  ASSUME NEW time \in Nat, NEW found \in [Pool -> Accounts], FoundOver(found, time)
  PROVE  FoundOver(found, time + 1)
<1>1. \A a \in Pool : found[a].until \in Nat
  BY SourceBounds DEF Accounts
<1>. QED BY <1>1 DEF FoundOver

LEMMA FoundNow == FoundOver(ExpiredAccounts, now) /\ FoundOver(NobodyFound, now)
  BY DEF FoundOver, Recovers, Over, ExpiredAccounts, NobodyFound

LEMMA FoundStep == TypeOK /\ FoundInv /\ [Next]_vars => FoundInv'
<1> SUFFICES ASSUME TypeOK, FoundInv, [Next]_vars PROVE FoundInv'
  OBVIOUS
<1>0. /\ job \in [SourceIds -> Jobs] /\ recovery \in [Recoverers -> Recoveries] /\ now \in Nat
      /\ \A s \in SourceIds : job[s].found \in [Pool -> Accounts]
      /\ \A r \in Recoverers : recovery[r].accounts \in [Pool -> Accounts]
  BY DEF TypeOK, Jobs, Recoveries
<1>1. ASSUME now' \in {now, now + 1},
             \A s \in SourceIds :
               job'[s].step = "choose" => job[s].step = "choose" /\ job'[s].found = job[s].found,
             \A r \in Recoverers :
               \/ recovery'[r].accounts = recovery[r].accounts
               \/ now' = now /\ FoundOver(recovery'[r].accounts, now)
      PROVE  FoundInv'
  <2>1. \A r \in Recoverers : FoundOver(recovery'[r].accounts, now')
    BY <1>0, <1>1, FoundLater DEF FoundInv
  <2>2. ASSUME NEW s \in SourceIds, job'[s].step = "choose" PROVE FoundOver(job'[s].found, now')
    BY <1>0, <1>1, <2>2, FoundLater DEF FoundInv
  <2>. QED BY <2>1, <2>2 DEF FoundInv
<1>2. ASSUME NEW r \in Recoverers, now' = now,
             \A s \in SourceIds :
               job'[s].step = "choose" => job[s].step = "choose" /\ job'[s].found = job[s].found,
             NEW x, recovery' = [recovery EXCEPT ![r] = x],
             x.accounts = recovery[r].accounts \/ FoundOver(x.accounts, now)
      PROVE  FoundInv'
  <2>1. \A q \in Recoverers : recovery'[q] = IF q = r THEN x ELSE recovery[q]
    BY <1>0, <1>2
  <2>. QED BY <1>1, <1>2, <2>1
<1>3. ASSUME NEW r \in Recoverers, Recover(r) \/ LoseRecovery(r) PROVE FoundInv'
  <2>1. now' = now
    BY <1>3 DEF Recover, BeginRecovery, SelectSources, CommitRecovery, EnqueueCollections,
                LoseRecovery
  <2>2. CASE BeginRecovery(r)
    <3>. DEFINE x == [IdleRecovery EXCEPT !.step = "accounts", !.accounts = ExpiredAccounts]
    <3>1. recovery' = [recovery EXCEPT ![r] = x] /\ UNCHANGED job
      BY <2>2 DEF BeginRecovery
    <3>2. x.accounts = ExpiredAccounts
      BY DEF IdleRecovery
    <3>. HIDE DEF x
    <3>. QED BY <1>2, <2>1, <3>1, <3>2, FoundNow
  <2>3. CASE SelectSources(r)
    <3>. DEFINE x == [recovery[r] EXCEPT !.step = "commit", !.sources = ExpiredSources]
    <3>1. recovery' = [recovery EXCEPT ![r] = x] /\ UNCHANGED job
      BY <2>3 DEF SelectSources
    <3>2. x.accounts = recovery[r].accounts
      BY <1>0 DEF Recoveries
    <3>. HIDE DEF x
    <3>. QED BY <1>2, <2>1, <3>1, <3>2
  <2>4. CASE CommitRecovery(r)
    <3>1. UNCHANGED job /\ \E next \in {"idle", "publish"} :
            recovery' = [recovery EXCEPT ![r] = [IdleRecovery EXCEPT !.step = next]]
      BY <2>4 DEF CommitRecovery
    <3>2. \A next : [IdleRecovery EXCEPT !.step = next].accounts = NobodyFound
      BY DEF IdleRecovery
    <3>. QED BY <1>2, <2>1, <3>1, <3>2, FoundNow
  <2>5. CASE EnqueueCollections(r)
    <3>1. recovery' = [recovery EXCEPT ![r] = IdleRecovery]
      BY <2>5 DEF EnqueueCollections
    <3>2. \A s \in SourceIds :
            job'[s].step = "choose" => job[s].step = "choose" /\ job'[s].found = job[s].found
      BY <2>5 DEF EnqueueCollections, IdleJob
    <3>. QED BY <1>2, <2>1, <3>1, <3>2, FoundNow DEF IdleRecovery
  <2>6. CASE LoseRecovery(r)
    <3>1. recovery' = [recovery EXCEPT ![r] = IdleRecovery] /\ UNCHANGED job
      BY <2>6 DEF LoseRecovery
    <3>. QED BY <1>2, <2>1, <3>1, FoundNow DEF IdleRecovery
  <2>. QED BY <1>3, <2>2, <2>3, <2>4, <2>5, <2>6 DEF Recover
<1>4. ASSUME NEW s \in SourceIds, Collect(s) \/ LoseWorker(s) PROVE FoundInv'
  <2>1. UNCHANGED <<now, recovery>>
    BY <1>4 DEF Collect, FindExpired, ResolveAccount, CountRequest, ExpireCounter, TakeLease,
           LoadSource, Fetched, Synced, SyncRefused, FloodWaited, CommitPause, LoseWorker, tasks
  <2>2. CASE FindExpired(s)
    <3>. DEFINE j == [job[s] EXCEPT !.step = "choose", !.found = ExpiredAccounts]
    <3>1. job' = [job EXCEPT ![s] = j]
      BY <2>2 DEF FindExpired
    <3>2. j.found = ExpiredAccounts
      BY <1>0 DEF Jobs
    <3>. HIDE DEF j
    <3>3. \A t \in SourceIds : job'[t] = IF t = s THEN j ELSE job[t]
      BY <1>0, <3>1
    <3>. QED BY <2>1, <3>2, <3>3, FoundNow DEF FoundInv
  <2>3. CASE ~FindExpired(s)
    <3>1. \E j : job' = [job EXCEPT ![s] = j] /\ j.step # "choose"
      <4>1. CASE ResolveAccount(s)
        <5>1. PICK a : job' = [job EXCEPT ![s] = [IdleJob EXCEPT
                         !.step = IF a = NoAccount THEN "load" ELSE "count", !.account = a]]
          BY <4>1 DEF ResolveAccount
        <5>2. [IdleJob EXCEPT !.step = IF a = NoAccount THEN "load" ELSE "count",
                              !.account = a].step # "choose"
          BY DEF IdleJob
        <5>. QED BY <5>1, <5>2
      <4>2. CASE End(s) \/ CommitPause(s)
        BY <4>2, IdleOK DEF End, CommitPause
      <4>3. ASSUME NEW step, step # "choose", job' = [job EXCEPT ![s].step = step]
            PROVE  \E j : job' = [job EXCEPT ![s] = j] /\ j.step # "choose"
        <5>1. [job[s] EXCEPT !.step = step].step # "choose"
          BY <1>0, <4>3 DEF Jobs
        <5>. QED BY <4>3, <5>1
      <4>4. CASE FloodWaited(s)
        <5>1. job' = [job EXCEPT ![s] = [job[s] EXCEPT !.step = "pause",
                                                       !.until = wait'[Session(s)]]]
          BY <4>4 DEF FloodWaited
        <5>2. [job[s] EXCEPT !.step = "pause", !.until = wait'[Session(s)]].step # "choose"
          BY <1>0 DEF Jobs
        <5>. QED BY <5>1, <5>2
      <4>5. \/ End(s) \/ CommitPause(s) \/ ResolveAccount(s) \/ FloodWaited(s)
            \/ \E step \in {"expire", "lease", "load", "request", "sync"} :
                 job' = [job EXCEPT ![s].step = step]
        BY <1>4, <2>3 DEF Collect, CountRequest, ExpireCounter, TakeLease, LoadSource, Fetched,
                          Synced, SyncRefused, LoseWorker
      <4>. QED BY <4>1, <4>2, <4>3, <4>4, <4>5
    <3>2. \A t \in SourceIds : t # s => job'[t] = job[t]
      BY <1>0, <3>1
    <3>3. job'[s].step # "choose"
      BY <1>0, <3>1
    <3>. QED BY <1>1, <2>1, <3>2, <3>3
  <2>. QED BY <2>2, <2>3
<1>5. ASSUME UNCHANGED <<job, recovery>>, now' \in {now, now + 1} PROVE FoundInv'
  BY <1>1, <1>5
<1>6. ASSUME NEW s \in SourceIds,
             \/ CreateSource(s) \/ \E enabled \in BOOLEAN : SetEnabled(s, enabled)
             \/ StartValidation(s) \/ RequestValidation(s)
      PROVE  FoundInv'
  BY <1>5, <1>6 DEF CreateSource, SetEnabled, StartValidation, RequestValidation, Load, tasks
<1>7. ASSUME NEW v \in Validators, Validate(v) \/ ValidationFails(v) PROVE FoundInv'
  BY <1>5, <1>7 DEF Validate, Answered, ValidationFloodWaited, SaveValidation,
                    ValidationClashes, ValidationFails
<1>8. ASSUME NEW a \in Pool, MinuteEnds(a) \/ LeaseExpires(a) PROVE FoundInv'
  BY <1>5, <1>8 DEF MinuteEnds, LeaseExpires, tasks
<1>9. CASE Tick \/ EnqueueValidations \/ UNCHANGED vars
  BY <1>5, <1>9 DEF Tick, EnqueueValidations, vars, tasks
<1>. QED BY <1>3, <1>4, <1>6, <1>7, <1>8, <1>9 DEF Next

LEMMA SessionOfAccount ==
  ASSUME TypeOK, NEW s \in SourceIds, NEW a \in Pool \ {DefaultSession}, Session(s) = a
  PROVE  job[s].account = a
  BY PoolAssumption DEF Session

\* A recovery of accounts ends no pause that lasts, or the pause counts as erased.
LEMMA WaitsRecovered ==
  ASSUME TypeOK, WaitIsRecorded, NEW found, FoundOver(found, now),
         account' = Recovered(found), unrecorded' = unrecorded \union Erased(found),
         UNCHANGED <<wait, now>>, \A a \in Pool : BeingPaused(a) => BeingPaused(a)'
  PROVE  WaitIsRecorded'
<1>1. ASSUME NEW a \in Pool \ {DefaultSession}, ~Over(wait[a])
      PROVE  account'[a].until >= wait[a] \/ a \in unrecorded' \/ BeingPaused(a)'
  <2>1. account[a].until >= wait[a] \/ a \in unrecorded \/ BeingPaused(a)
    BY <1>1 DEF WaitIsRecorded
  <2>2. CASE ~Recovers(found, a)
    BY <2>1, <2>2 DEF Recovered
  <2>3. CASE Recovers(found, a) /\ account[a] # found[a]
    BY <2>3 DEF Erased
  <2>4. CASE Recovers(found, a) /\ account[a] = found[a]
    <3>1. account[a].until \in Nat /\ wait[a] \in Nat /\ now \in Nat /\ account[a].until <= now
      BY <2>4, SourceBounds DEF TypeOK, Accounts, Sessions, FoundOver
    <3>2. ~(account[a].until >= wait[a])
      BY <1>1, <3>1 DEF Over
    <3>. QED BY <2>1, <3>2
  <2>. QED BY <2>2, <2>3, <2>4
<1>. QED BY <1>1 DEF WaitIsRecorded, Over

LEMMA WaitsStep == TypeOK /\ FoundInv /\ WaitIsRecorded /\ [Next]_vars => WaitIsRecorded'
<1> SUFFICES ASSUME TypeOK, FoundInv, WaitIsRecorded, [Next]_vars PROVE WaitIsRecorded'
  OBVIOUS
<1>0. /\ job \in [SourceIds -> Jobs] /\ account \in [Pool -> Accounts] /\ now \in Nat
      /\ wait \in [Sessions -> 0 .. MaxTime] /\ MaxTime \in Nat
  BY SourceBounds DEF TypeOK
<1>1. ASSUME UNCHANGED account, now' \in {now, now + 1},
             \A a \in Pool \ {DefaultSession} : wait'[a] = wait[a],
             \A a \in Pool \ {DefaultSession} :
               a \in unrecorded \/ BeingPaused(a) => a \in unrecorded' \/ BeingPaused(a)'
      PROVE  WaitIsRecorded'
  <2>1. ASSUME NEW a \in Pool \ {DefaultSession}, ~(wait'[a] <= now')
        PROVE  account'[a].until >= wait'[a] \/ a \in unrecorded' \/ BeingPaused(a)'
    <3>1. wait[a] \in Nat /\ wait'[a] = wait[a]
      BY <1>0, <1>1 DEF Sessions
    <3>2. ~(wait[a] <= now)
      BY <1>0, <1>1, <2>1, <3>1
    <3>. QED BY <1>1, <3>1, <3>2 DEF WaitIsRecorded, Over
  <2>. QED BY <2>1 DEF WaitIsRecorded, Over
<1>2. ASSUME UNCHANGED <<account, unrecorded, wait>>, now' \in {now, now + 1},
             \A s \in SourceIds : job[s].step = "pause" => job'[s] = job[s]
      PROVE  WaitIsRecorded'
  BY <1>1, <1>2 DEF BeingPaused
\* One collection goes on that is not about to pause its account.
<1>3. ASSUME NEW s \in SourceIds, job[s].step # "pause",
             \A t \in SourceIds : t # s => job'[t] = job[t]
      PROVE  \A a \in Pool : BeingPaused(a) => BeingPaused(a)'
  BY <1>3 DEF BeingPaused
<1>4. ASSUME NEW r \in Recoverers, Recover(r) \/ LoseRecovery(r) PROVE WaitIsRecorded'
  <2>1. CASE CommitRecovery(r)
    <3>1. /\ account' = Recovered(recovery[r].accounts)
          /\ unrecorded' = unrecorded \union Erased(recovery[r].accounts)
          /\ UNCHANGED <<job, wait, now>>
      BY <2>1 DEF CommitRecovery
    <3>2. FoundOver(recovery[r].accounts, now)
      BY DEF FoundInv
    <3>. QED BY <3>1, <3>2, WaitsRecovered DEF BeingPaused
  <2>2. CASE ~CommitRecovery(r)
    BY <1>2, <1>4, <2>2 DEF Recover, BeginRecovery, SelectSources, EnqueueCollections,
                            LoseRecovery, poolVars, pauses
  <2>. QED BY <2>1, <2>2
<1>5. ASSUME NEW s \in SourceIds, Collect(s) \/ LoseWorker(s) PROVE WaitIsRecorded'
  <2>0. \A x : job' = [job EXCEPT ![s] = x] => \A t \in SourceIds : t # s => job'[t] = job[t]
    BY <1>0
  <2>1. \A t \in SourceIds : t # s => job'[t] = job[t]
    <3>1. \E x : job' = [job EXCEPT ![s] = x]
      BY <1>5 DEF Collect, FindExpired, ResolveAccount, CountRequest, ExpireCounter, TakeLease,
             LoadSource, Fetched, Synced, SyncRefused, FloodWaited, CommitPause, LoseWorker, End
    <3>. QED BY <2>0, <3>1
  <2>2. CASE ResolveAccount(s)
    <3>1. /\ account' = Recovered(job[s].found) /\ job[s].step = "choose"
          /\ unrecorded' = unrecorded \union Erased(job[s].found) /\ UNCHANGED <<wait, now>>
      BY <2>2 DEF ResolveAccount
    <3>. QED BY <1>3, <2>1, <3>1, WaitsRecovered DEF FoundInv
  <2>3. CASE \/ FindExpired(s) \/ CountRequest(s) \/ ExpireCounter(s) \/ TakeLease(s)
             \/ LoadSource(s) \/ Fetched(s) \/ Synced(s)
    <3>1. job[s].step # "pause" /\ UNCHANGED <<account, unrecorded, wait, now>>
      BY <2>3 DEF FindExpired, CountRequest, ExpireCounter, TakeLease, LoadSource, Fetched,
                  Synced, Served, End, poolVars, pauses
    <3>. QED BY <1>1, <1>3, <2>1, <3>1
  <2>4. CASE SyncRefused(s) \/ FloodWaited(s)
    <3>. DEFINE b == Session(s)
    <3>1. /\ job[s].step # "pause" /\ UNCHANGED <<account, now>> /\ Refused(b)
          /\ unrecorded \subseteq unrecorded'
      BY <2>4 DEF SyncRefused, FloodWaited, poolVars, pauses
    <3>2. \A a \in Sessions : a # b => wait'[a] = wait[a]
      BY <3>1, WaitType
    <3>3. ASSUME NEW a \in Pool \ {DefaultSession}, a = b
          PROVE  a \in unrecorded' \/ BeingPaused(a)'
      <4>1. CASE SyncRefused(s)
        BY <3>3, <4>1 DEF SyncRefused
      <4>2. CASE FloodWaited(s)
        <5>1. job' = [job EXCEPT ![s] = [job[s] EXCEPT !.step = "pause", !.until = wait'[b]]]
          BY <4>2 DEF FloodWaited
        <5>2. job'[s].step = "pause" /\ job'[s].account = job[s].account
          BY <1>0, <5>1 DEF Jobs
        <5>. QED BY <3>3, <5>2, SessionOfAccount DEF BeingPaused
      <4>. QED BY <2>4, <4>1, <4>2
    <3>4. ASSUME NEW a \in Pool \ {DefaultSession}, ~(wait'[a] <= now')
          PROVE  account'[a].until >= wait'[a] \/ a \in unrecorded' \/ BeingPaused(a)'
      <4>1. CASE a = b
        BY <3>3, <4>1
      <4>2. CASE a # b
        BY <1>3, <2>1, <3>1, <3>2, <3>4, <4>2 DEF WaitIsRecorded, Over, Sessions
      <4>. QED BY <4>1, <4>2
    <3>. QED BY <3>4 DEF WaitIsRecorded, Over
  <2>5. CASE CommitPause(s)
    <3>. DEFINE b == Session(s)
                until == job[s].until
    <3>1. /\ UNCHANGED <<wait, now>>
          /\ account' = [c \in Pool |-> IF c = job[s].account
                                        THEN [status |-> "floodwait", until |-> until]
                                        ELSE account[c]]
          /\ unrecorded' = IF until < wait[b] THEN unrecorded \union {b} ELSE unrecorded \ {b}
      BY <2>5 DEF CommitPause
    <3>2. until \in Nat
      BY <1>0 DEF Jobs
    <3>3. ASSUME NEW a \in Pool \ {DefaultSession}, ~(wait[a] <= now)
          PROVE  account'[a].until >= wait[a] \/ a \in unrecorded' \/ BeingPaused(a)'
      <4>1. CASE a = job[s].account
        <5>1. b = a /\ account'[a].until = until /\ wait[a] \in Nat
          BY <1>0, <3>1, <4>1, PoolAssumption DEF Session, Sessions
        <5>. QED BY <3>1, <3>2, <5>1
      <4>2. CASE a # job[s].account
        <5>1. account'[a] = account[a] /\ (a \in unrecorded => a \in unrecorded')
          BY <3>1, <4>2, SessionOfAccount
        <5>2. BeingPaused(a) => BeingPaused(a)'
          BY <2>1, <4>2 DEF BeingPaused
        <5>. QED BY <3>3, <5>1, <5>2 DEF WaitIsRecorded, Over
      <4>. QED BY <4>1, <4>2
    <3>. QED BY <3>1, <3>3 DEF WaitIsRecorded, Over
  <2>6. CASE LoseWorker(s)
    <3>1. /\ UNCHANGED <<account, wait, now>>
          /\ unrecorded' = unrecorded
                             \union (IF job[s].step = "pause" THEN {Session(s)} ELSE {})
      BY <2>6 DEF LoseWorker, poolVars
    <3>2. ASSUME NEW a \in Pool \ {DefaultSession}, BeingPaused(a)
          PROVE  a \in unrecorded' \/ BeingPaused(a)'
      <4>1. PICK t \in SourceIds : job[t].step = "pause" /\ job[t].account = a
        BY <3>2 DEF BeingPaused
      <4>2. CASE t = s
        BY <3>1, <4>1, <4>2, PoolAssumption DEF Session
      <4>3. CASE t # s
        BY <2>1, <4>1, <4>3 DEF BeingPaused
      <4>. QED BY <4>2, <4>3
    <3>. QED BY <1>1, <3>1, <3>2
  <2>. QED BY <1>5, <2>2, <2>3, <2>4, <2>5, <2>6 DEF Collect
<1>6. ASSUME NEW s \in SourceIds,
             \/ CreateSource(s) \/ \E enabled \in BOOLEAN : SetEnabled(s, enabled)
             \/ StartValidation(s) \/ RequestValidation(s)
      PROVE  WaitIsRecorded'
  BY <1>2, <1>6 DEF CreateSource, SetEnabled, StartValidation, RequestValidation, Load,
                    poolVars, pauses
<1>7. ASSUME NEW v \in Validators, Validate(v) \/ ValidationFails(v) PROVE WaitIsRecorded'
  <2>1. UNCHANGED <<account, unrecorded, job, now>>
    BY <1>7 DEF Validate, Answered, ValidationFloodWaited, SaveValidation, ValidationClashes,
                ValidationFails, poolVars, pauses
  <2>2. \A a \in Pool \ {DefaultSession} : wait'[a] = wait[a]
    <3>1. UNCHANGED wait \/ Refused(DefaultSession)
      BY <1>7 DEF Validate, Answered, Served, ValidationFloodWaited, SaveValidation,
                  ValidationClashes, ValidationFails
    <3>. QED BY <3>1, WaitType DEF Sessions
  <2>. QED BY <1>1, <2>1, <2>2 DEF BeingPaused
<1>8. ASSUME NEW a \in Pool, MinuteEnds(a) \/ LeaseExpires(a) PROVE WaitIsRecorded'
  BY <1>2, <1>8 DEF MinuteEnds, LeaseExpires, pauses
<1>9. CASE Tick \/ EnqueueValidations \/ UNCHANGED vars
  BY <1>2, <1>9 DEF Tick, EnqueueValidations, vars, poolVars, pauses
<1>. QED BY <1>4, <1>5, <1>6, <1>7, <1>8, <1>9 DEF Next

PauseInv == TypeOK /\ FoundInv /\ WaitIsRecorded

LEMMA PausesInductive == Spec => []PauseInv
<1>1. Init => PauseInv
  <2>1. Init => FoundInv
    BY FoundNow, IdleOK DEF Init, FoundInv, IdleRecovery
  <2>2. Init => WaitIsRecorded
    BY DEF Init, WaitIsRecorded, Over, Sessions, None
  <2>. QED BY <2>1, <2>2, InitTypes DEF PauseInv
<1>2. PauseInv /\ [Next]_vars => FoundInv' /\ WaitIsRecorded'
  BY FoundStep, WaitsStep DEF PauseInv
<1>3. PauseInv /\ TypeOK' /\ FoundInv' /\ WaitIsRecorded' => PauseInv'
  BY DEF PauseInv
<1>. QED BY <1>1, <1>2, <1>3, SourceTypes, PTL DEF Spec

\* The pause of an account lasts as long as Telegram makes it wait, however many collections
\* and recoveries there are at once, except where the code never stores it, stores another
\* that is shorter, or has a recovery write over it.
THEOREM PausesAreRecorded == Spec => []WaitIsRecorded
<1>1. PauseInv => WaitIsRecorded
  BY DEF PauseInv
<1>. QED BY <1>1, PausesInductive, PTL

-----------------------------------------------------------------------------
(* Collections in a pause *)

Excused(s, a) == s \in overtaken \/ a \in unrecorded \/ BeingPaused(a)

\* Whoever goes on with its account, or ends, rests as before.
LEMMA RestsOn ==
  ASSUME TypeOK, RefusedAccountRests, now' \in {now, now + 1},
         \A a \in Pool \ {DefaultSession} : wait'[a] = wait[a],
         \A s \in SourceIds :
           \/ job'[s].account = NoAccount
           \/ job'[s].account = job[s].account
              /\ \A a \in Pool \ {DefaultSession} : Excused(s, a) => Excused(s, a)'
  PROVE  RefusedAccountRests'
<1>1. ASSUME NEW s \in SourceIds, NEW a \in Pool \ {DefaultSession}, job'[s].account = a,
             ~(wait'[a] <= now')
      PROVE  Excused(s, a)'
  <2>1. a # NoAccount /\ wait[a] \in Nat /\ now \in Nat
    BY PoolAssumption, SourceBounds DEF TypeOK, Sessions
  <2>2. ~(wait[a] <= now) /\ job[s].account = a
    BY <1>1, <2>1
  <2>3. Excused(s, a)
    BY <2>2 DEF RefusedAccountRests, Excused, Over
  <2>. QED BY <1>1, <2>1, <2>3
<1>. QED BY <1>1 DEF RefusedAccountRests, Excused, Over

LEMMA RestsStep == PauseInv /\ PauseInv' /\ RefusedAccountRests /\ [Next]_vars
                     => RefusedAccountRests'
<1> SUFFICES ASSUME PauseInv, PauseInv', RefusedAccountRests, [Next]_vars
             PROVE  RefusedAccountRests'
  OBVIOUS
<1>0. /\ TypeOK /\ job \in [SourceIds -> Jobs] /\ IdleJob.account = NoAccount
      /\ NoAccount \notin Pool
  BY PoolAssumption, IdleOK DEF PauseInv, TypeOK
<1>1. ASSUME UNCHANGED <<job, wait, overtaken, unrecorded>>, now' \in {now, now + 1}
      PROVE  RefusedAccountRests'
  BY <1>0, <1>1, RestsOn DEF Excused, BeingPaused
\* Another collection than s may only lose an account that is about to be paused.
<1>2. ASSUME NEW s \in SourceIds, now' = now,
             \A a \in Pool \ {DefaultSession} : wait'[a] = wait[a],
             \A t \in SourceIds : t # s => job'[t] = job[t],
             job'[s].account \in {NoAccount, job[s].account},
             overtaken \ {s} \subseteq overtaken',
             job'[s].account = NoAccount \/ overtaken' = overtaken,
             \A a \in Pool \ {DefaultSession} :
               a \in unrecorded \/ BeingPaused(a) => a \in unrecorded' \/ BeingPaused(a)'
      PROVE  RefusedAccountRests'
  <2>1. ASSUME NEW t \in SourceIds
        PROVE  \/ job'[t].account = NoAccount
               \/ job'[t].account = job[t].account
                  /\ \A a \in Pool \ {DefaultSession} : Excused(t, a) => Excused(t, a)'
    BY <1>2 DEF Excused
  <2>. QED BY <1>0, <1>2, <2>1, RestsOn
<1>3. ASSUME NEW r \in Recoverers, Recover(r) \/ LoseRecovery(r) PROVE RefusedAccountRests'
  <2>1. /\ UNCHANGED <<wait, now, overtaken>> /\ unrecorded \subseteq unrecorded'
        /\ \A s \in SourceIds : \/ job'[s] = job[s]
                                \/ job[s].step = "idle" /\ job'[s].account = NoAccount
    BY <1>3 DEF Recover, BeginRecovery, SelectSources, CommitRecovery, EnqueueCollections,
                LoseRecovery, pauses, IdleJob
  <2>2. \A a \in Pool : BeingPaused(a) => BeingPaused(a)'
    BY <2>1 DEF BeingPaused
  <2>. QED BY <1>0, <2>1, <2>2, RestsOn DEF Excused
<1>4. ASSUME NEW s \in SourceIds, ResolveAccount(s) PROVE RefusedAccountRests'
  <2>1. PICK a \in Selected(s, Available(Recovered(job[s].found))) :
          job' = [job EXCEPT ![s] = [IdleJob EXCEPT
            !.step = IF a = NoAccount THEN "load" ELSE "count", !.account = a]]
    BY <1>4 DEF ResolveAccount
  <2>2. /\ account' = Recovered(job[s].found) /\ UNCHANGED <<now, wait, overtaken>>
        /\ unrecorded \subseteq unrecorded' /\ job[s].step = "choose"
    BY <1>4 DEF ResolveAccount
  <2>3. /\ job'[s].account = a /\ job'[s].step # "pause"
        /\ \A t \in SourceIds : t # s => job'[t] = job[t]
    <3>. DEFINE j == [IdleJob EXCEPT !.step = IF a = NoAccount THEN "load" ELSE "count",
                                     !.account = a]
    <3>1. j.account = a /\ j.step # "pause" /\ job' = [job EXCEPT ![s] = j]
      BY <2>1 DEF IdleJob
    <3>. HIDE DEF j
    <3>. QED BY <1>0, <3>1
  <2>4. \A b \in Pool : BeingPaused(b) => BeingPaused(b)'
    BY <2>2, <2>3 DEF BeingPaused
  <2>5. ASSUME a \in Pool \ {DefaultSession}, ~(wait'[a] <= now')
        PROVE  a \in unrecorded' \/ BeingPaused(a)'
    <3>1. account'[a].until <= now
      BY <1>0, <2>2, <2>5 DEF Selected, Available, Over
    <3>2. account'[a].until >= wait'[a] \/ a \in unrecorded' \/ BeingPaused(a)'
      BY <2>5 DEF PauseInv, WaitIsRecorded, Over
    <3>3. account'[a].until \in Nat /\ wait'[a] \in Nat /\ now \in Nat
      BY <1>0, <2>5, SourceBounds DEF PauseInv, TypeOK, Accounts, Sessions
    <3>. QED BY <2>2, <2>5, <3>1, <3>2, <3>3
  <2>6. ASSUME NEW t \in SourceIds, NEW b \in Pool \ {DefaultSession}, job'[t].account = b,
               ~(wait'[b] <= now')
        PROVE  t \in overtaken' \/ b \in unrecorded' \/ BeingPaused(b)'
    <3>1. CASE t = s
      BY <2>3, <2>5, <2>6, <3>1
    <3>2. CASE t # s
      BY <2>2, <2>3, <2>4, <2>6, <3>2 DEF RefusedAccountRests, Over
    <3>. QED BY <3>1, <3>2
  <2>. QED BY <2>6 DEF RefusedAccountRests, Over
<1>5. ASSUME NEW s \in SourceIds,
             \/ FindExpired(s) \/ CountRequest(s) \/ ExpireCounter(s) \/ TakeLease(s)
             \/ LoadSource(s) \/ Fetched(s) \/ Synced(s) \/ LoseWorker(s)
      PROVE  RefusedAccountRests'
  <2>1. now' = now /\ wait' = wait
    BY <1>5 DEF FindExpired, CountRequest, ExpireCounter, TakeLease, LoadSource, Fetched, Synced,
                Served, LoseWorker
  <2>2. \/ End(s)
        \/ /\ overtaken' = overtaken /\ job[s].step # "pause"
           /\ \/ \E step : job' = [job EXCEPT ![s].step = step]
              \/ job' = [job EXCEPT ![s].step = "choose", ![s].found = ExpiredAccounts]
    BY <1>5 DEF FindExpired, CountRequest, ExpireCounter, TakeLease, LoadSource, Fetched, Synced,
                LoseWorker, pauses
  <2>3. /\ \A t \in SourceIds : t # s => job'[t] = job[t]
        /\ job'[s].account \in {NoAccount, job[s].account}
        /\ job'[s].account = NoAccount \/ overtaken' = overtaken
        /\ overtaken \ {s} \subseteq overtaken'
    <3>1. CASE End(s)
      BY <1>0, <3>1, Ends DEF End
    <3>2. ASSUME NEW step, overtaken' = overtaken, job' = [job EXCEPT ![s].step = step]
          PROVE  /\ \A t \in SourceIds : t # s => job'[t] = job[t]
                 /\ job'[s].account = job[s].account
      BY <1>0, <3>2 DEF Jobs
    <3>3. CASE /\ overtaken' = overtaken
               /\ job' = [job EXCEPT ![s].step = "choose", ![s].found = ExpiredAccounts]
      BY <1>0, <3>3 DEF Jobs
    <3>. QED BY <2>2, <3>1, <3>2, <3>3
  <2>4. ASSUME NEW a \in Pool \ {DefaultSession}, a \in unrecorded \/ BeingPaused(a)
        PROVE  a \in unrecorded' \/ BeingPaused(a)'
    <3>1. CASE job[s].step = "pause" /\ job[s].account = a
      <4>1. LoseWorker(s)
        BY <1>5, <3>1 DEF FindExpired, CountRequest, ExpireCounter, TakeLease, LoadSource,
                          Fetched, Synced
      <4>2. Session(s) = a
        BY <1>0, <3>1 DEF Session
      <4>. QED BY <3>1, <4>1, <4>2 DEF LoseWorker
    <3>2. CASE ~(job[s].step = "pause" /\ job[s].account = a)
      <4>1. BeingPaused(a) => BeingPaused(a)'
        BY <2>3, <3>2 DEF BeingPaused
      <4>2. unrecorded \subseteq unrecorded'
        BY <1>5 DEF FindExpired, CountRequest, ExpireCounter, TakeLease, LoadSource, Fetched,
                    Synced, End, LoseWorker, pauses
      <4>. QED BY <2>4, <4>1, <4>2
    <3>. QED BY <3>1, <3>2
  <2>. QED BY <1>2, <2>1, <2>3, <2>4
\* Telegram refuses b: its collection is about to pause it, or its wait is never stored.
<1>6. ASSUME NEW s \in SourceIds, SyncRefused(s) \/ FloodWaited(s) PROVE RefusedAccountRests'
  <2>. DEFINE b == Session(s)
  <2>1. now' = now /\ Refused(b) /\ job[s].step # "pause" /\ unrecorded \subseteq unrecorded'
    BY <1>6 DEF SyncRefused, FloodWaited, pauses
  <2>2. \A a \in Sessions : a # b => wait'[a] = wait[a]
    BY <1>0, <2>1, WaitType
  <2>3. /\ \A t \in SourceIds : t # s => job'[t] = job[t]
        /\ \/ SyncRefused(s) /\ job'[s].account = NoAccount /\ overtaken' = overtaken \ {s}
           \/ /\ FloodWaited(s) /\ job'[s].account = job[s].account /\ job'[s].step = "pause"
              /\ overtaken' = overtaken
    <3>1. CASE SyncRefused(s)
      BY <1>0, <3>1, Ends DEF SyncRefused, End
    <3>2. CASE FloodWaited(s)
      <4>1. job' = [job EXCEPT ![s] = [job[s] EXCEPT !.step = "pause", !.until = wait'[b]]]
        BY <3>2 DEF FloodWaited
      <4>2. overtaken' = overtaken
        BY <3>2 DEF FloodWaited, pauses
      <4>. QED BY <1>0, <3>2, <4>1, <4>2 DEF Jobs
    <3>. QED BY <1>6, <3>1, <3>2
  <2>4. \A a \in Pool : BeingPaused(a) => BeingPaused(a)'
    BY <2>1, <2>3 DEF BeingPaused
  <2>5. ASSUME NEW a \in Pool \ {DefaultSession}, a = b
        PROVE  a \in unrecorded' \/ BeingPaused(a)'
    <3>1. CASE SyncRefused(s)
      BY <2>5, <3>1 DEF SyncRefused
    <3>2. CASE FloodWaited(s)
      <4>1. job'[s].step = "pause" /\ job'[s].account = job[s].account
        BY <2>3, <3>2 DEF SyncRefused, FloodWaited
      <4>. QED BY <1>0, <2>5, <4>1, SessionOfAccount DEF BeingPaused
    <3>. QED BY <1>6, <3>1, <3>2
  <2>6. ASSUME NEW t \in SourceIds, NEW a \in Pool \ {DefaultSession}, job'[t].account = a,
               ~(wait'[a] <= now')
        PROVE  t \in overtaken' \/ a \in unrecorded' \/ BeingPaused(a)'
    <3>1. CASE a = b
      BY <2>5, <3>1
    <3>2. CASE a # b
      <4>1. wait[a] = wait'[a] /\ a # NoAccount
        BY <1>0, <2>2, <3>2 DEF Sessions
      <4>2. job[t].account = a /\ (t \in overtaken => t \in overtaken')
        BY <2>3, <2>6, <4>1
      <4>3. t \in overtaken \/ a \in unrecorded \/ BeingPaused(a)
        BY <2>1, <2>6, <4>1, <4>2 DEF RefusedAccountRests, Over
      <4>. QED BY <2>1, <2>4, <4>2, <4>3
    <3>. QED BY <3>1, <3>2
  <2>. QED BY <2>6 DEF RefusedAccountRests, Over
<1>7. ASSUME NEW s \in SourceIds, CommitPause(s) PROVE RefusedAccountRests'
  <2>. DEFINE c == job[s].account
  <2>1. /\ UNCHANGED <<wait, now>> /\ job' = [job EXCEPT ![s] = IdleJob]
        /\ overtaken' =
             (overtaken \union {t \in SourceIds : c # NoAccount /\ job[t].account = c}) \ {s}
        /\ unrecorded \ {Session(s)} \subseteq unrecorded'
    BY <1>7 DEF CommitPause
  <2>2. job'[s].account = NoAccount /\ \A t \in SourceIds : t # s => job'[t] = job[t]
    BY <1>0, <2>1, Ends
  <2>3. ASSUME NEW t \in SourceIds, NEW a \in Pool \ {DefaultSession}, job'[t].account = a,
               ~(wait'[a] <= now')
        PROVE  t \in overtaken' \/ a \in unrecorded' \/ BeingPaused(a)'
    <3>1. t # s /\ job[t].account = a /\ a # NoAccount
      BY <1>0, <2>2, <2>3
    <3>2. CASE a = c
      BY <2>1, <3>1, <3>2
    <3>3. CASE a # c
      <4>1. t \in overtaken \/ a \in unrecorded \/ BeingPaused(a)
        BY <2>1, <2>3, <3>1 DEF RefusedAccountRests, Over
      <4>2. a # Session(s)
        BY <1>0, <3>3, SessionOfAccount
      <4>3. BeingPaused(a) => BeingPaused(a)'
        BY <2>2, <3>3 DEF BeingPaused
      <4>. QED BY <2>1, <3>1, <4>1, <4>2, <4>3
    <3>. QED BY <3>2, <3>3
  <2>. QED BY <2>3 DEF RefusedAccountRests, Over
<1>8. ASSUME NEW v \in Validators, Validate(v) \/ ValidationFails(v) PROVE RefusedAccountRests'
  <2>1. UNCHANGED <<job, now, overtaken, unrecorded>>
    BY <1>8 DEF Validate, Answered, ValidationFloodWaited, SaveValidation, ValidationClashes,
                ValidationFails, pauses
  <2>2. \A a \in Pool \ {DefaultSession} : wait'[a] = wait[a]
    <3>1. UNCHANGED wait \/ Refused(DefaultSession)
      BY <1>8 DEF Validate, Answered, Served, ValidationFloodWaited, SaveValidation,
                  ValidationClashes, ValidationFails
    <3>. QED BY <1>0, <3>1, WaitType DEF Sessions
  <2>. QED BY <1>0, <2>1, <2>2, RestsOn DEF Excused, BeingPaused
<1>9. ASSUME NEW s \in SourceIds,
             \/ CreateSource(s) \/ \E enabled \in BOOLEAN : SetEnabled(s, enabled)
             \/ StartValidation(s) \/ RequestValidation(s)
      PROVE  RefusedAccountRests'
  BY <1>1, <1>9 DEF CreateSource, SetEnabled, StartValidation, RequestValidation, Load, pauses
<1>10. ASSUME NEW a \in Pool, MinuteEnds(a) \/ LeaseExpires(a) PROVE RefusedAccountRests'
  BY <1>1, <1>10 DEF MinuteEnds, LeaseExpires, pauses
<1>11. CASE Tick \/ EnqueueValidations \/ UNCHANGED vars
  BY <1>1, <1>11 DEF Tick, EnqueueValidations, vars, pauses
<1>. QED BY <1>3, <1>4, <1>5, <1>6, <1>7, <1>8, <1>9, <1>10, <1>11 DEF Next, Collect

\* With any number of accounts, collections and recoveries: an account that Telegram refuses
\* is only used by collections that had chosen it before its pause was committed, or while
\* its pause is not in the table.
THEOREM RefusedAccountsRest == Spec => []RefusedAccountRests
<1>1. Init => RefusedAccountRests
  BY PoolAssumption DEF Init, RefusedAccountRests, IdleJob
<1>. QED BY <1>1, RestsStep, PausesInductive, PTL DEF Spec

-----------------------------------------------------------------------------
(* A closed source that collections come back to *)

\* A recovery only finds sources that are paused.
FoundPaused ==
  \A r \in Recoverers : \A s \in SourceIds :
    recovery[r].sources[s] # Absent => recovery[r].sources[s].status = "floodwait"

Reopenable ==
  \A s \in closed :
    row[s].status \in {"ok", "floodwait"} => s \in flooded \union overwritten

ReopeningInv == TypeOK /\ FoundPaused /\ Reopenable

LEMMA FoundPausedStep == TypeOK /\ FoundPaused /\ [Next]_vars => FoundPaused'
<1> SUFFICES ASSUME TypeOK, FoundPaused, [Next]_vars PROVE FoundPaused'
  OBVIOUS
<1>1. ASSUME UNCHANGED recovery PROVE FoundPaused'
  BY <1>1 DEF FoundPaused
<1>2. ASSUME NEW r \in Recoverers, NEW x, recovery' = [recovery EXCEPT ![r] = x],
             \A s \in SourceIds : x.sources[s] # Absent => x.sources[s].status = "floodwait"
      PROVE  FoundPaused'
  <2>1. \A q \in Recoverers : recovery'[q] = IF q = r THEN x ELSE recovery[q]
    BY <1>2 DEF TypeOK
  <2>. QED BY <1>2, <2>1 DEF FoundPaused
<1>3. ASSUME NEW r \in Recoverers, Recover(r) \/ LoseRecovery(r) PROVE FoundPaused'
  <2>1. CASE SelectSources(r)
    <3>. DEFINE x == [recovery[r] EXCEPT !.step = "commit", !.sources = ExpiredSources]
    <3>1. recovery' = [recovery EXCEPT ![r] = x]
      BY <2>1 DEF SelectSources
    <3>2. x.sources = ExpiredSources
      BY DEF TypeOK, Recoveries
    <3>3. \A s \in SourceIds :
            ExpiredSources[s] # Absent => ExpiredSources[s].status = "floodwait"
      BY DEF ExpiredSources
    <3>. HIDE DEF x
    <3>. QED BY <1>2, <3>1, <3>2, <3>3
  <2>2. CASE ~SelectSources(r)
    <3>1. \A s \in SourceIds : IdleRecovery.sources[s] = Absent
      BY DEF IdleRecovery
    <3>2. CASE BeginRecovery(r)
      <4>1. [IdleRecovery EXCEPT !.step = "accounts", !.accounts = ExpiredAccounts].sources
              = IdleRecovery.sources
        BY DEF IdleRecovery
      <4>. QED BY <1>2, <3>1, <3>2, <4>1 DEF BeginRecovery
    <3>3. CASE CommitRecovery(r)
      <4>1. PICK next : recovery' = [recovery EXCEPT ![r] = [IdleRecovery EXCEPT !.step = next]]
        BY <3>3 DEF CommitRecovery
      <4>. DEFINE x == [IdleRecovery EXCEPT !.step = next]
      <4>2. x.sources = IdleRecovery.sources
        BY DEF IdleRecovery
      <4>3. recovery' = [recovery EXCEPT ![r] = x]
        BY <4>1
      <4>. HIDE DEF x
      <4>. QED BY <1>2, <3>1, <4>2, <4>3
    <3>4. CASE EnqueueCollections(r) \/ LoseRecovery(r)
      BY <1>2, <3>1, <3>4 DEF EnqueueCollections, LoseRecovery
    <3>. QED BY <1>3, <2>2, <3>2, <3>3, <3>4 DEF Recover
  <2>. QED BY <2>1, <2>2
<1>4. ASSUME NEW s \in SourceIds,
             \/ Collect(s) \/ LoseWorker(s)
             \/ CreateSource(s) \/ \E enabled \in BOOLEAN : SetEnabled(s, enabled)
             \/ StartValidation(s) \/ RequestValidation(s)
      PROVE  FoundPaused'
  BY <1>1, <1>4
     DEF Collect, FindExpired, ResolveAccount, CountRequest, ExpireCounter, TakeLease,
         LoadSource, Fetched, Synced, SyncRefused, FloodWaited, CommitPause, LoseWorker,
         CreateSource, SetEnabled, StartValidation, RequestValidation, Load, tasks
<1>5. ASSUME NEW v \in Validators, Validate(v) \/ ValidationFails(v) PROVE FoundPaused'
  BY <1>1, <1>5 DEF Validate, Answered, ValidationFloodWaited, SaveValidation,
                    ValidationClashes, ValidationFails
<1>6. ASSUME NEW a \in Pool, MinuteEnds(a) \/ LeaseExpires(a) PROVE FoundPaused'
  BY <1>1, <1>6 DEF MinuteEnds, LeaseExpires, tasks
<1>7. CASE Tick \/ EnqueueValidations \/ UNCHANGED vars
  BY <1>1, <1>7 DEF Tick, EnqueueValidations, vars, tasks
<1>. QED BY <1>3, <1>4, <1>5, <1>6, <1>7 DEF Next

LEMMA ReopenableStep == ReopeningInv /\ [Next]_vars => Reopenable'
<1> SUFFICES ASSUME ReopeningInv, [Next]_vars PROVE Reopenable'
  OBVIOUS
<1>0. /\ TypeOK /\ FoundPaused /\ Reopenable /\ row \in [SourceIds -> Rows]
      /\ closed \subseteq SourceIds
  BY DEF ReopeningInv, TypeOK
<1>1. ASSUME UNCHANGED rowVars PROVE Reopenable'
  BY <1>0, <1>1 DEF Reopenable, rowVars
<1>2. ASSUME NEW s \in SourceIds, UNCHANGED <<closed, flooded, overwritten>>,
             CreateSource(s) \/ \E enabled \in BOOLEAN : SetEnabled(s, enabled)
      PROVE  Reopenable'
  <2>1. CASE CreateSource(s)
    BY <1>0, <1>2, <2>1 DEF CreateSource, Reopenable
  <2>2. ASSUME NEW enabled \in BOOLEAN, SetEnabled(s, enabled) PROVE Reopenable'
    <3>1. row' = [row EXCEPT ![s] = [row[s] EXCEPT !.enabled = enabled]]
      BY <2>2 DEF SetEnabled
    <3>2. [row[s] EXCEPT !.enabled = enabled].status = row[s].status
      BY <1>0 DEF Rows
    <3>3. \A t \in SourceIds : row'[t].status = row[t].status
      BY <1>0, <3>1, <3>2
    <3>. QED BY <1>0, <1>2, <3>3 DEF Reopenable
  <2>. QED BY <1>2, <2>1, <2>2
<1>3. ASSUME NEW r \in Recoverers, CommitRecovery(r) PROVE Reopenable'
  <2>. DEFINE found == {s \in SourceIds : recovery[r].sources[s] # Absent}
  <2>1. /\ row' = [s \in SourceIds |-> IF s \in found THEN Reopened(r, s) ELSE row[s]]
        /\ overwritten' = overwritten \union
             {s \in found : row[s].status # recovery[r].sources[s].status}
        /\ UNCHANGED <<closed, flooded>>
    BY <1>3 DEF CommitRecovery
  <2>2. \A s \in found : recovery[r].sources[s].status = "floodwait"
    BY <1>0 DEF FoundPaused
  <2>3. ASSUME NEW s \in closed, row'[s].status \in {"ok", "floodwait"}
        PROVE  s \in flooded \union overwritten'
    <3>1. CASE s \in found
      BY <1>0, <2>1, <2>2, <3>1 DEF Reopenable
    <3>2. CASE s \notin found
      BY <1>0, <2>1, <2>3, <3>2 DEF Reopenable
    <3>. QED BY <3>1, <3>2
  <2>. QED BY <2>1, <2>3 DEF Reopenable
<1>4. ASSUME NEW s \in SourceIds, CommitPause(s) PROVE Reopenable'
  <2>1. /\ row' = [row EXCEPT ![s].status = "floodwait", ![s].pause = job[s].until]
        /\ flooded' = flooded \union {s} /\ UNCHANGED <<closed, overwritten>>
    BY <1>4 DEF CommitPause
  <2>2. \A t \in SourceIds : t # s => row'[t] = row[t]
    BY <1>0, <2>1
  <2>. QED BY <1>0, <2>1, <2>2 DEF Reopenable
<1>5. ASSUME NEW v \in Validators, SaveValidation(v) PROVE Reopenable'
  <2>. DEFINE c == check[v]
              s == c.source
              open == c.answer = "ok"
              shut == {c.answer, Saved(c).status} \subseteq {"private", "error"}
  <2>1. /\ c.step = "save" /\ row' = [row EXCEPT ![s] = Saved(c)]
        /\ closed' = IF shut THEN closed \union {s} ELSE IF open THEN closed \ {s} ELSE closed
        /\ flooded' = IF c.answer = "floodwait" THEN flooded \union {s}
                      ELSE IF open \/ shut THEN flooded \ {s} ELSE flooded
        /\ overwritten' = IF open \/ shut THEN overwritten \ {s} ELSE overwritten
    BY <1>5 DEF SaveValidation
  <2>2. s \in SourceIds /\ c.answer \in {"ok", "private", "error", "floodwait"}
    BY <1>0, <2>1 DEF TypeOK, Checks
  <2>3. Saved(c).status \in {c.answer, row[s].status}
    BY <1>0, <2>1, SavedType
  <2>4. row'[s].status = Saved(c).status /\ \A t \in SourceIds : t # s => row'[t] = row[t]
    BY <1>0, <2>1, <2>2
  <2>. HIDE DEF c, s
  <2>5. ASSUME NEW t \in closed', row'[t].status \in {"ok", "floodwait"}
        PROVE  t \in flooded' \union overwritten'
    <3>1. CASE t # s
      <4>1. t \in closed
        BY <2>1, <2>5, <3>1
      <4>2. t \in flooded \union overwritten
        BY <1>0, <2>4, <2>5, <3>1, <4>1 DEF Reopenable
      <4>. QED BY <2>1, <3>1, <4>2
    <3>2. CASE t = s /\ c.answer = "floodwait"
      BY <2>1, <3>2
    <3>3. CASE t = s /\ c.answer = "ok"
      BY <2>1, <2>5, <3>3
    <3>4. CASE t = s /\ c.answer \in {"private", "error"}
      <4>1. ~shut /\ ~open
        BY <2>4, <2>5, <3>4
      <4>2. row'[s].status = row[s].status
        BY <2>3, <2>4, <3>4, <4>1
      <4>3. t \in closed /\ flooded' = flooded /\ overwritten' = overwritten
        BY <2>1, <2>5, <3>4, <4>1
      <4>. QED BY <1>0, <2>5, <3>4, <4>2, <4>3 DEF Reopenable
    <3>. QED BY <2>2, <3>1, <3>2, <3>3, <3>4
  <2>. QED BY <2>5 DEF Reopenable
<1>6. ASSUME NEW r \in Recoverers, Recover(r) \/ LoseRecovery(r), ~CommitRecovery(r)
      PROVE  Reopenable'
  BY <1>1, <1>6 DEF Recover, BeginRecovery, SelectSources, EnqueueCollections, LoseRecovery
<1>7. ASSUME NEW s \in SourceIds,
             \/ (Collect(s) /\ ~CommitPause(s)) \/ LoseWorker(s)
             \/ StartValidation(s) \/ RequestValidation(s)
      PROVE  Reopenable'
  BY <1>1, <1>7
     DEF Collect, FindExpired, ResolveAccount, CountRequest, ExpireCounter, TakeLease,
         LoadSource, Fetched, Synced, SyncRefused, FloodWaited, LoseWorker, StartValidation,
         RequestValidation, Load
<1>8. ASSUME NEW v \in Validators, Validate(v) \/ ValidationFails(v), ~SaveValidation(v)
      PROVE  Reopenable'
  BY <1>1, <1>8 DEF Validate, Answered, ValidationFloodWaited, ValidationClashes,
                    ValidationFails
<1>9. ASSUME NEW a \in Pool, MinuteEnds(a) \/ LeaseExpires(a) PROVE Reopenable'
  BY <1>1, <1>9 DEF MinuteEnds, LeaseExpires
<1>10. CASE Tick \/ EnqueueValidations \/ UNCHANGED vars
  BY <1>1, <1>10 DEF Tick, EnqueueValidations, vars, rowVars
<1>11. ASSUME NEW s \in SourceIds,
              CreateSource(s) \/ \E enabled \in BOOLEAN : SetEnabled(s, enabled)
       PROVE  Reopenable'
  BY <1>2, <1>11 DEF CreateSource, SetEnabled
<1>. QED BY <1>3, <1>4, <1>5, <1>6, <1>7, <1>8, <1>9, <1>10, <1>11 DEF Next, Collect, Validate

LEMMA ReopeningInductive == Spec => []ReopeningInv
<1>1. Init => ReopeningInv
  <2>1. Init => FoundPaused
    <3>1. \A s \in SourceIds : IdleRecovery.sources[s] = Absent
      BY DEF IdleRecovery
    <3>. QED BY <3>1 DEF Init, FoundPaused
  <2>2. Init => Reopenable
    BY DEF Init, Reopenable
  <2>. QED BY <2>1, <2>2, InitTypes DEF ReopeningInv
<1>2. ReopeningInv /\ [Next]_vars => FoundPaused' /\ Reopenable'
  BY FoundPausedStep, ReopenableStep DEF ReopeningInv
<1>3. TypeOK' /\ FoundPaused' /\ Reopenable' => ReopeningInv'
  BY DEF ReopeningInv
<1>. QED BY <1>1, <1>2, <1>3, SourceTypes, PTL DEF Spec

\* A source that was closed is only open again once a validation has found it public, once
\* a pause stored since has ended, or because a recovery had read it before it was closed.
THEOREM ClosedStaysClosed == Spec => []ReopenedOnlyAfterWait
<1>1. ReopeningInv => ReopenedOnlyAfterWait
  BY DEF ReopeningInv, Reopenable, ReopenedOnlyAfterWait
<1>. QED BY <1>1, ReopeningInductive, PTL

=============================================================================
