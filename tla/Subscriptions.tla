--------------------------- MODULE Subscriptions ----------------------------
(***************************************************************************)
(* Notification subscriptions and the requests that keep them              *)
(* (app/services/subscriptions.py behind app/api/subscriptions.py): who    *)
(* may change which, and what becomes of two requests that overlap.        *)
(*                                                                         *)
(* Every request is one session: the row is read, the access checked and   *)
(* the payload applied; the commit writes the columns that differ from     *)
(* what was read.  Hours and amounts are small sets, None is NULL.         *)
(***************************************************************************)
EXTENDS Integers, FiniteSets, NullValue

CONSTANTS
  Subs,       \* ids of subscriptions
  Requests,   \* sessions of the API
  Hours,      \* times of day
  Amounts,    \* budgets
  Payloads,   \* bodies: functions from some columns to values
  MaxRequests \* bound: requests

ASSUME SubscriptionAssumption ==
  /\ Amounts \subseteq Nat /\ None \notin Amounts \union Hours
  /\ MaxRequests \in Nat

RoleLevels == [viewer |-> 1, operator |-> 2, admin |-> 3]
Roles == DOMAIN RoleLevels
Users == Roles \union {"chat"}   \* api-<role>@local, and a user of the bot

Columns == {"enabled", "start", "end", "min", "max"}
ColumnValues(c) ==
  CASE c = "enabled" -> BOOLEAN
    [] c \in {"start", "end"} -> Hours \union {None}
    [] c \in {"min", "max"} -> Amounts \union {None}

Default == [enabled |-> TRUE, start |-> None, end |-> None, min |-> None, max |-> None]
Filters == [enabled : BOOLEAN, start : Hours \union {None}, end : Hours \union {None},
            min : Amounts \union {None}, max : Amounts \union {None}]

ASSUME PayloadAssumption ==
  \A p \in Payloads :
    DOMAIN p \subseteq Columns /\ \A c \in DOMAIN p : p[c] \in ColumnValues(c)

VARIABLES
  owner,     \* user_id of each row, None where there is no row
  filters,   \* the other columns
  users,     \* rows of the table users
  request,   \* the state of each session
  overlapped,  \* history: rows written over what another session had changed
  requests

subVars == <<owner, filters, users, request, overlapped, requests>>

Idle == [step |-> "idle", role |-> "viewer", id |-> None, loaded |-> Default,
         payload |-> <<>>]

SubInit ==
  /\ owner = [s \in Subs |-> None] /\ filters = [s \in Subs |-> Default]
  /\ users = {} /\ request = [r \in Requests |-> Idle]
  /\ overlapped = {} /\ requests = 0

-----------------------------------------------------------------------------
(* The payload *)

Given(p, c) == IF c \in DOMAIN p THEN p[c] ELSE None

Ordered(low, high) == {low, high} \subseteq Amounts => low <= high

\* A quiet hour that is not in the payload is left as it is.
Normalised_Mutant(p) == p

\* One quiet hour in the payload stands for both: the other is then NULL.
Normalised(p) ==
  LET both == IF DOMAIN p \intersect {"start", "end"} = {} THEN {} ELSE {"start", "end"}
  IN  [c \in DOMAIN p \union both |-> Given(p, c)]

\* 422 otherwise.  Bounds of the budget are compared when the payload has both.
Acceptable(p) ==
  /\ (Given(p, "start") = None) = (Given(p, "end") = None)
  /\ Ordered(Given(p, "min"), Given(p, "max"))

Applied(p, row) == [c \in Columns |-> IF c \in DOMAIN p THEN p[c] ELSE row[c]]

\* ck_notification_subscriptions_budget_range
CheckHolds(row) == Ordered(row.min, row.max)

-----------------------------------------------------------------------------
(* Requests *)

Authorised(role) ==
  /\ requests < MaxRequests /\ requests' = requests + 1
  /\ RoleLevels[role] >= RoleLevels.operator

\* attach is "self", "tg_chat_id" or "user_id" with the user it names
OwnerOf(role, attach, user) ==
  \/ attach = "self" /\ user = role
  \/ attach = "tg_chat_id" /\ user = "chat" /\ RoleLevels[role] >= RoleLevels.operator
  \/ attach = "user_id" /\ user \in users /\ RoleLevels[role] >= RoleLevels.admin

CreateSubscription(role, s) ==
  /\ Authorised(role) /\ owner[s] = None /\ \A r \in Requests : request[r].id # s
  /\ \E attach \in {"self", "tg_chat_id", "user_id"}, user \in Users :
       /\ OwnerOf(role, attach, user)
       /\ owner' = [owner EXCEPT ![s] = user] /\ users' = users \union {user}
  /\ \E p \in Payloads :
       /\ Acceptable(p) /\ CheckHolds(Applied(p, Default))
       /\ filters' = [filters EXCEPT ![s] = Applied(p, Default)]
  /\ UNCHANGED <<request, overlapped>>

MayAccess(role, s) == RoleLevels[role] >= RoleLevels.admin \/ owner[s] = role

\* PATCH, enable and disable: the row is read and the payload applied to it.
LoadForUpdate(r, role, s) ==
  /\ request[r].step = "idle" /\ owner[s] # None /\ MayAccess(role, s) /\ Authorised(role)
  /\ \E p \in Payloads :
       /\ Acceptable(p)
       /\ request' = [request EXCEPT ![r] =
            [step |-> "update", role |-> role, id |-> s, loaded |-> filters[s],
             payload |-> Normalised(p)]]
  /\ UNCHANGED <<owner, filters, users, overlapped>>

LoadForDelete(r, role, s) ==
  /\ request[r].step = "idle" /\ owner[s] # None /\ MayAccess(role, s) /\ Authorised(role)
  /\ request' = [request EXCEPT ![r] =
       [step |-> "delete", role |-> role, id |-> s, loaded |-> filters[s], payload |-> <<>>]]
  /\ UNCHANGED <<owner, filters, users, overlapped>>

\* The columns that differ from what was read
Flushed(row, q) ==
  [c \in Columns |-> IF c \in DOMAIN q.payload /\ q.payload[c] # q.loaded[c]
                     THEN q.payload[c] ELSE row[c]]

\* A row that is gone, or one that breaks the CHECK, is an error: nothing is
\* written.
CommitUpdate(r) ==
  LET q == request[r]
      row == Flushed(filters[q.id], q)
  IN
  /\ q.step = "update"
  /\ IF owner[q.id] # None /\ CheckHolds(row)
     THEN /\ filters' = [filters EXCEPT ![q.id] = row]
          /\ overlapped' = IF filters[q.id] = q.loaded THEN overlapped
                         ELSE overlapped \union {q.id}
     ELSE UNCHANGED <<filters, overlapped>>
  /\ request' = [request EXCEPT ![r] = Idle] /\ UNCHANGED <<owner, users, requests>>

CommitDelete(r) ==
  LET s == request[r].id IN
  /\ request[r].step = "delete"
  /\ owner' = [owner EXCEPT ![s] = None] /\ filters' = [filters EXCEPT ![s] = Default]
  /\ request' = [request EXCEPT ![r] = Idle] /\ overlapped' = overlapped \ {s}
  /\ UNCHANGED <<users, requests>>

SubNext ==
  \/ \E role \in Roles, s \in Subs : CreateSubscription(role, s)
  \/ \E r \in Requests, role \in Roles, s \in Subs :
       LoadForUpdate(r, role, s) \/ LoadForDelete(r, role, s)
  \/ \E r \in Requests : CommitUpdate(r) \/ CommitDelete(r)

SubSpec == SubInit /\ [][SubNext]_subVars

-----------------------------------------------------------------------------
(* Properties *)

\* Rows and sessions have their types and every row an owner that exists.
SubTypeOK ==
  /\ owner \in [Subs -> users \union {None}] /\ users \subseteq Users
  /\ filters \in [Subs -> Filters] /\ overlapped \subseteq Subs
  /\ requests \in 0 .. MaxRequests
  /\ \A r \in Requests :
       /\ request[r].step \in {"idle", "update", "delete"}
       /\ request[r].role \in Roles /\ request[r].loaded \in Filters
       /\ request[r].step # "idle" => request[r].id \in Subs

\* A subscription has both quiet hours or none, so that none is ignored
\* (is_in_quiet_hours wants both), unless two requests that overlapped each
\* wrote one of them.
QuietHoursWhole ==
  \A s \in Subs \ overlapped : (filters[s].start = None) = (filters[s].end = None)

\* A subscription is changed and deleted by its owner's key and the admin's.
ChangedByItsOwner ==
  [][\A s \in Subs : owner[s] # None /\ (owner'[s] # owner[s] \/ filters'[s] # filters[s]) =>
       \E r \in Requests : /\ request[r].id = s /\ request'[r] = Idle
                           /\ request[r].role \in {owner[s], "admin"}]_subVars

=============================================================================
