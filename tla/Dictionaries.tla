---------------------------- MODULE Dictionaries ----------------------------
(***************************************************************************)
(* The keyword dictionaries: the tables keywords and negative_keywords,    *)
(* the requests that change them (app/services/keywords.py), and the cache *)
(* of the enabled rules in Redis (app/services/dictionaries.py), which     *)
(* readers fill and changes empty.                                         *)
(*                                                                         *)
(* A phrase is told apart by whether it is a valid regular expression.  A  *)
(* request writes the columns it changed from what it had loaded.          *)
(***************************************************************************)
EXTENDS Integers, FiniteSets

CONSTANTS
  Keywords,   \* ids of keywords
  Positive,   \*   those of the table keywords; the others are negative
  Editors,    \* requests that change the dictionaries
  Readers,    \* worker processes
  Tables,     \* the tables there may be at the start
  Drafts,     \* the rows that requests ask for
  MaxEdits,   \* bounds: changes,
  MaxMisses,  \*   invalidations that fail
  Missing

ASSUME DictionaryAssumption ==
  /\ Positive \subseteq Keywords /\ MaxEdits \in Nat /\ MaxMisses \in Nat

NoRow == [present |-> FALSE, valid |-> TRUE, regex |-> FALSE, enabled |-> FALSE]
Rows == [present : BOOLEAN, valid : BOOLEAN, regex : BOOLEAN, enabled : BOOLEAN]
NoRules == [k \in {} |-> NoRow]

Compiles(r) == r.regex => r.valid

ASSUME RowAssumption ==
  /\ Drafts \subseteq {r \in Rows : r.present}
  /\ Tables \subseteq [Keywords -> Rows]

VARIABLES
  table,   \* rows of both tables
  cache,   \* dict:keywords:<kind>:v1
  edit,    \* the change each request is about
  read,    \* what each reader has loaded
  tainted, \* history: caches a fill or a failed invalidation may have left stale
  collided,\* history: keywords with a column written over another request's
  edits, misses

dictVars == <<table, cache, edit, read, tainted, collided, edits, misses>>

Kinds == {"positive", "negative"}
Of(kind) == IF kind = "positive" THEN Positive ELSE Keywords \ Positive

\* The enabled rows of one table
EnabledRules(kind) ==
  [k \in {k \in Of(kind) : table[k].present /\ table[k].enabled} |-> table[k]]

Edit(step, k) == [step |-> step, id |-> k, loaded |-> NoRow, new |-> NoRow]
IdleEdit == Edit("idle", Missing)
Unread == [step |-> "idle", kind |-> "positive", rules |-> [kind \in Kinds |-> NoRules]]

DictInit ==
  /\ table \in Tables /\ collided = {k \in Keywords : ~Compiles(table[k])}
  /\ cache = [kind \in Kinds |-> Missing]
  /\ edit = [e \in Editors |-> IdleEdit]
  /\ read = [r \in Readers |-> Unread]
  /\ tainted = {} /\ edits = 0 /\ misses = 0

-----------------------------------------------------------------------------
(* Changes *)

Begun(e) == edit[e].step = "idle" /\ edits < MaxEdits /\ edits' = edits + 1

\* 409 for an existing phrase, 422 for an invalid regex
CreateKeyword(e, k) ==
  /\ Begun(e) /\ ~table[k].present /\ \A f \in Editors : edit[f].id # k
  /\ \E r \in Drafts : Compiles(r) /\ table' = [table EXCEPT ![k] = r]
  /\ edit' = [edit EXCEPT ![e] = Edit("refresh", k)]
  /\ UNCHANGED <<cache, read, tainted, collided, misses>>

\* The regex is tried before the payload is applied.
LoadKeyword_Mutant(e, k) ==
  /\ Begun(e) /\ table[k].present /\ Compiles(table[k])
  /\ \E new \in {NoRow} \union Drafts :
       edit' = [edit EXCEPT ![e] =
         [step |-> "commit", id |-> k, loaded |-> table[k], new |-> new]]
  /\ UNCHANGED <<table, cache, read, tainted, collided, misses>>

\* PATCH: the row with the payload applied must compile; or DELETE
LoadKeyword(e, k) ==
  /\ Begun(e) /\ table[k].present
  /\ \E new \in {NoRow} \union {r \in Drafts : Compiles(r)} :
       edit' = [edit EXCEPT ![e] =
         [step |-> "commit", id |-> k, loaded |-> table[k], new |-> new]]
  /\ UNCHANGED <<table, cache, read, tainted, collided, misses>>

Written(row, loaded, new) ==
  [c \in DOMAIN NoRow |-> IF new[c] # loaded[c] THEN new[c] ELSE row[c]]

\* The UPDATE of a row that is gone fails; its DELETE does not.
CommitKeyword(e) ==
  LET k == edit[e].id
      absent == ~table[k].present
      deleted == ~edit[e].new.present
  IN
  /\ edit[e].step = "commit"
  /\ table' = [table EXCEPT ![k] =
       IF absent \/ deleted THEN NoRow ELSE Written(@, edit[e].loaded, edit[e].new)]
  /\ collided' = IF table[k] = edit[e].loaded THEN collided ELSE collided \union {k}
  /\ edit' = [edit EXCEPT ![e] =
       IF deleted THEN Edit("invalidate", k) ELSE IF absent THEN IdleEdit ELSE Edit("refresh", k)]
  /\ UNCHANGED <<cache, read, tainted, edits, misses>>

Refreshed(e) ==
  \/ edit[e].step = "invalidate"
  \/ edit[e].step = "refresh" /\ table[edit[e].id].present

\* A deleted keyword needs no invalidation.
Invalidate_Mutant(e) ==
  /\ edit[e].step \in {"refresh", "invalidate"}
  /\ cache' = IF edit[e].step = "refresh" THEN [kind \in Kinds |-> Missing] ELSE cache
  /\ tainted' = IF edit[e].step = "refresh" THEN {} ELSE tainted
  /\ edit' = [edit EXCEPT ![e] = IdleEdit]
  /\ UNCHANGED <<table, read, collided, edits, misses>>

\* One DEL of both keys
Invalidate(e) ==
  /\ Refreshed(e)
  /\ cache' = [kind \in Kinds |-> Missing] /\ tainted' = {}
  /\ edit' = [edit EXCEPT ![e] = IdleEdit]
  /\ UNCHANGED <<table, read, collided, edits, misses>>

\* Redis does not answer, which is ignored; or the process is lost after its commit.
InvalidateFails(e) ==
  /\ Refreshed(e) /\ misses < MaxMisses
  /\ misses' = misses + 1 /\ tainted' = Kinds
  /\ edit' = [edit EXCEPT ![e] = IdleEdit]
  /\ UNCHANGED <<table, cache, read, collided, edits>>

\* Another request has deleted the row that is refreshed.
RefreshFails(e) ==
  /\ edit[e].step = "refresh" /\ ~table[edit[e].id].present
  /\ edit' = [edit EXCEPT ![e] = IdleEdit]
  /\ UNCHANGED <<table, cache, read, tainted, collided, edits, misses>>

Change(e) == CommitKeyword(e) \/ Invalidate(e) \/ RefreshFails(e)

-----------------------------------------------------------------------------
(* Readers *)

Got(r, kind, rules) ==
  read' = [read EXCEPT ![r] =
    [step |-> IF kind = "positive" THEN "get" ELSE "loaded", kind |-> "negative",
     rules |-> [read[r].rules EXCEPT ![kind] = rules]]]

\* A rule found in the cache, or else the table: to be stored next
GetRules(r) ==
  LET kind == read[r].kind IN
  /\ read[r].step = "get"
  /\ IF cache[kind] # Missing
     THEN Got(r, kind, cache[kind])
     ELSE read' = [read EXCEPT ![r].step = "store", ![r].rules[kind] = EnabledRules(kind)]
  /\ UNCHANGED <<table, cache, edit, tainted, collided, edits, misses>>

\* SET EX, whatever became of the cache or the table meanwhile
StoreRules(r) ==
  LET kind == read[r].kind
      rules == read[r].rules[kind]
  IN
  /\ read[r].step = "store"
  /\ cache' = [cache EXCEPT ![kind] = rules]
  /\ tainted' = IF rules = EnabledRules(kind) THEN tainted \ {kind} ELSE tainted \union {kind}
  /\ Got(r, kind, rules)
  /\ UNCHANGED <<table, edit, collided, edits, misses>>

\* A SET without a time to live
CacheExpires_Mutant(kind) == FALSE /\ UNCHANGED dictVars

\* The time to live of the key
CacheExpires(kind) ==
  /\ cache[kind] # Missing
  /\ cache' = [cache EXCEPT ![kind] = Missing]
  /\ tainted' = tainted \ {kind}
  /\ UNCHANGED <<table, edit, read, collided, edits, misses>>

StartReading(r) ==
  /\ read[r].step \in {"idle", "loaded"}
  /\ read' = [read EXCEPT ![r] = [Unread EXCEPT !.step = "get"]]
  /\ UNCHANGED <<table, cache, edit, tainted, collided, edits, misses>>

DictNext ==
  \/ \E e \in Editors :
       \/ \E k \in Keywords : CreateKeyword(e, k) \/ LoadKeyword(e, k)
       \/ Change(e) \/ InvalidateFails(e)
  \/ \E kind \in Kinds : CacheExpires(kind)

\* Requests that began go on, and keys expire.
DictSpec ==
  /\ DictInit
  /\ [][DictNext \/ \E r \in Readers : StartReading(r) \/ GetRules(r) \/ StoreRules(r)]_dictVars
  /\ \A e \in Editors : WF_dictVars(Change(e))
  /\ \A r \in Readers : WF_dictVars(StoreRules(r))
  /\ \A kind \in Kinds : WF_dictVars(CacheExpires(kind))

-----------------------------------------------------------------------------
(* Properties *)

DictTypeOK ==
  /\ table \in [Keywords -> Rows]
  /\ \A kind \in Kinds :
       cache[kind] # Missing => DOMAIN cache[kind] \subseteq Of(kind)
  /\ DOMAIN cache = Kinds
  /\ \A e \in Editors : /\ edit[e].step \in {"idle", "commit", "refresh", "invalidate"}
                        /\ edit[e].id \in Keywords \union {Missing}
                        /\ edit[e].loaded \in Rows /\ edit[e].new \in Rows
  /\ \A r \in Readers : /\ read[r].step \in {"idle", "get", "store", "loaded"}
                        /\ read[r].kind \in Kinds
  /\ tainted \subseteq Kinds /\ collided \subseteq Keywords
  /\ edits \in Nat /\ misses \in Nat

\* A dictionary in the cache is the one in the table, unless a change is about to be
\* invalidated, a fill read the table before a change that was invalidated before the fill
\* was stored, or an invalidation failed.
StaleIsExcused ==
  \A kind \in Kinds :
    cache[kind] \notin {Missing, EnabledRules(kind)} =>
      kind \in tainted \/ \E e \in Editors : edit[e].step \in {"refresh", "invalidate"}

\* No stored rule has an invalid regex, so none breaks the processing of every message:
\* unless two requests changed a keyword at once, each valid on the row it had loaded.
RulesCompile ==
  \A k \in Keywords : Compiles(table[k]) \/ k \in collided

\* Once nobody changes the dictionaries, the cache is brought up to date.
CacheCatchesUp ==
  \A kind \in Kinds : <>[](cache[kind] \in {Missing, EnabledRules(kind)})

=============================================================================
