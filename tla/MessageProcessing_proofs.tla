----------------------- MODULE MessageProcessing_proofs ---------------------
(***************************************************************************)
(* Proofs about the processing of messages and the dictionaries it reads:  *)
(* which rules may be stored, what the cache may hold while requests       *)
(* change them and readers fill it, and whose entities a message has.      *)
(***************************************************************************)
EXTENDS MessageProcessing, TLAPS

-----------------------------------------------------------------------------
(* The dictionaries *)

Edits == [step : {"idle", "commit", "refresh", "invalidate"}, id : Keywords \union {Missing},
          loaded : Rows, new : Rows]

DInv ==
  /\ table \in [Keywords -> Rows]
  /\ cache = [kind \in Kinds |-> cache[kind]]
  /\ edit \in [Editors -> Edits]
  /\ \A e \in Editors : /\ edit[e].step # "idle" => edit[e].id \in Keywords
                        /\ edit[e].step = "commit" => Compiles(edit[e].new)
  /\ RulesCompile

RuleSets == UNION {[S -> Rows] : S \in SUBSET Keywords}
Reads == [step : {"idle", "get", "store", "loaded"}, kind : Kinds, rules : [Kinds -> RuleSets]]

\* A cache holds, and a reader is about to store, rules of the right table.
DTypes ==
  /\ cache \in [Kinds -> RuleSets \union {Missing}]
  /\ \A kind \in Kinds : cache[kind] # Missing => DOMAIN cache[kind] \subseteq Of(kind)
  /\ read \in [Readers -> Reads]
  /\ \A r \in Readers :
       read[r].step = "store" => DOMAIN read[r].rules[read[r].kind] \subseteq Of(read[r].kind)
  /\ tainted \subseteq Kinds /\ collided \subseteq Keywords
  /\ edits \in Nat /\ misses \in Nat

\* StaleIsExcused by a request that can still empty the cache: not by one whose row another
\* request has deleted, and that will find it gone.
Excused ==
  \A kind \in Kinds :
    cache[kind] \notin {Missing, EnabledRules(kind)} =>
      kind \in tainted \/ \E e \in Editors : Refreshed(e)

\* A worker that is done with its rules, or gives up
Forget(r) ==
  /\ read' = [read EXCEPT ![r] = Unread]
  /\ UNCHANGED <<table, cache, edit, tainted, collided, edits, misses>>

DStep ==
  \/ DictNext
  \/ \E r \in Readers : StartReading(r) \/ GetRules(r) \/ StoreRules(r) \/ Forget(r)

LEMMA RowsOK == NoRow \in Rows /\ Compiles(NoRow) /\ ~NoRow.present /\ Drafts \subseteq Rows
                /\ \A r \in Drafts : r.present
  BY RowAssumption DEF NoRow, Rows, Compiles

LEMMA IdleEditOK ==
  /\ IdleEdit \in Edits /\ IdleEdit.step = "idle"
  /\ \A k \in Keywords, s \in {"refresh", "invalidate"} :
       Edit(s, k) \in Edits /\ Edit(s, k).step = s /\ Edit(s, k).id = k
  BY RowsOK DEF IdleEdit, Edit, Edits

LEMMA WrittenOK ==
  ASSUME NEW row \in Rows, NEW loaded \in Rows, NEW new \in Rows
  PROVE  /\ Written(row, loaded, new) \in Rows
         /\ row = loaded => Written(row, loaded, new) = new
         /\ row.present /\ new.present => Written(row, loaded, new).present
<1>1. DOMAIN NoRow = {"present", "valid", "regex", "enabled"}
  BY DEF NoRow
<1>2. Written(row, loaded, new)
        = [present |-> IF new.present # loaded.present THEN new.present ELSE row.present,
           valid |-> IF new.valid # loaded.valid THEN new.valid ELSE row.valid,
           regex |-> IF new.regex # loaded.regex THEN new.regex ELSE row.regex,
           enabled |-> IF new.enabled # loaded.enabled THEN new.enabled ELSE row.enabled]
  BY <1>1 DEF Written
<1>. QED BY <1>2 DEF Rows

LEMMA DictionariesInductive == DictInit /\ [][DStep]_dictVars => []DInv
<1>1. DictInit => DInv
  BY RowAssumption, RowsOK, IdleEditOK DEF DictInit, DInv, RulesCompile
<1>2. DInv /\ [DStep]_dictVars => DInv'
  <2> SUFFICES ASSUME DInv, [DStep]_dictVars PROVE DInv'
    OBVIOUS
  <2>. USE DEF DInv, RulesCompile
  <2>1. ASSUME NEW e \in Editors, NEW k \in Keywords, CreateKeyword(e, k) PROVE DInv'
    <3>1. PICK r \in Drafts : Compiles(r) /\ table' = [table EXCEPT ![k] = r]
      BY <2>1 DEF CreateKeyword
    <3>2. edit' = [edit EXCEPT ![e] = Edit("refresh", k)] /\ UNCHANGED <<cache, collided>>
      BY <2>1 DEF CreateKeyword
    <3>3. edit' \in [Editors -> Edits]
      BY <3>2, IdleEditOK
    <3>4. \A f \in Editors : /\ edit'[f].step # "idle" => edit'[f].id \in Keywords
                             /\ edit'[f].step = "commit" => Compiles(edit'[f].new)
      BY <3>2, IdleEditOK
    <3>. QED BY <3>1, <3>2, <3>3, <3>4, RowsOK DEF Compiles
  <2>2. ASSUME NEW e \in Editors, NEW k \in Keywords, LoadKeyword(e, k) PROVE DInv'
    <3>1. PICK new \in {NoRow} \union {r \in Drafts : Compiles(r)} :
            edit' = [edit EXCEPT ![e] =
              [step |-> "commit", id |-> k, loaded |-> table[k], new |-> new]]
      BY <2>2 DEF LoadKeyword
    <3>2. new \in Rows /\ Compiles(new)
      BY RowsOK
    <3>. QED BY <2>2, <3>1, <3>2 DEF LoadKeyword, Edits, Compiles
  <2>3. ASSUME NEW e \in Editors, CommitKeyword(e) PROVE DInv'
    <3>. DEFINE k == edit[e].id
    <3>1. /\ k \in Keywords /\ Compiles(edit[e].new)
          /\ edit[e].loaded \in Rows /\ edit[e].new \in Rows
      BY <2>3 DEF CommitKeyword, Edits
    <3>2. edit' \in [Editors -> Edits] /\ \A f \in Editors :
            /\ edit'[f].step # "idle" => edit'[f].id \in Keywords
            /\ edit'[f].step = "commit" => Compiles(edit'[f].new)
      BY <2>3, <3>1, IdleEditOK, RowsOK DEF CommitKeyword, Edits
    <3>3. PICK row \in Rows :
            /\ table' = [table EXCEPT ![k] = row]
            /\ Compiles(row) \/ table[k] # edit[e].loaded
      <4>. DEFINE written == Written(table[k], edit[e].loaded, edit[e].new)
      <4>1. table[k] \in Rows
        BY <3>1
      <4>2. written \in Rows /\ (table[k] = edit[e].loaded => Compiles(written))
        BY <3>1, <4>1, WrittenOK
      <4>3. table' = [table EXCEPT ![k] = NoRow] \/ table' = [table EXCEPT ![k] = written]
        BY <2>3 DEF CommitKeyword
      <4>. QED BY <4>2, <4>3, RowsOK
    <3>4. cache' = cache /\ collided' = IF table[k] = edit[e].loaded THEN collided
                                        ELSE collided \union {k}
      BY <2>3 DEF CommitKeyword
    <3>. QED BY <3>1, <3>2, <3>3, <3>4 DEF Compiles
  <2>4. ASSUME NEW e \in Editors, Invalidate(e) \/ InvalidateFails(e) \/ RefreshFails(e)
        PROVE  DInv'
    BY <2>4, IdleEditOK DEF Invalidate, InvalidateFails, RefreshFails, Compiles
  <2>5. ASSUME NEW kind \in Kinds, CacheExpires(kind) PROVE DInv'
    BY <2>5 DEF CacheExpires, Compiles
  <2>6. ASSUME NEW r \in Readers,
               StartReading(r) \/ GetRules(r) \/ StoreRules(r) \/ Forget(r)
        PROVE  DInv'
    BY <2>6 DEF StartReading, GetRules, StoreRules, Forget, Compiles
  <2>7. CASE UNCHANGED dictVars
    BY <2>7 DEF dictVars, Compiles
  <2>. QED BY <2>1, <2>2, <2>3, <2>4, <2>5, <2>6, <2>7 DEF DStep, DictNext, Change
<1>. QED BY <1>1, <1>2, PTL

LEMMA ExcusedInductive == DictInit /\ [][DStep]_dictVars => []Excused
<1>1. DictInit => Excused
  BY DEF DictInit, Excused
<1>2. DInv /\ Excused /\ [DStep]_dictVars => Excused'
  <2> SUFFICES ASSUME DInv, Excused, [DStep]_dictVars PROVE Excused'
    OBVIOUS
  <2>. USE DEF Excused
  <2>1. ASSUME NEW e \in Editors, NEW k \in Keywords, CreateKeyword(e, k) PROVE Excused'
    <3>1. PICK r \in Drafts : table' = [table EXCEPT ![k] = r]
      BY <2>1 DEF CreateKeyword
    <3>2. edit' = [edit EXCEPT ![e] = Edit("refresh", k)]
      BY <2>1 DEF CreateKeyword
    <3>3. edit'[e].step = "refresh" /\ edit'[e].id = k /\ table'[k].present
      BY <3>1, <3>2, RowsOK, IdleEditOK DEF DInv
    <3>. QED BY <3>3 DEF Refreshed
  <2>2. ASSUME NEW e \in Editors, NEW k \in Keywords, LoadKeyword(e, k) PROVE Excused'
    <3>1. UNCHANGED <<table, cache, tainted>>
      BY <2>2 DEF LoadKeyword
    <3>2. edit[e].step = "idle" /\ \A f \in Editors : f # e => edit'[f] = edit[f]
      BY <2>2 DEF LoadKeyword, Begun, DInv
    <3>. QED BY <3>1, <3>2 DEF Refreshed, EnabledRules
  <2>3. ASSUME NEW e \in Editors, CommitKeyword(e) PROVE Excused'
    <3>. DEFINE k == edit[e].id
    <3>1. /\ k \in Keywords /\ edit[e].step = "commit"
          /\ edit[e].loaded \in Rows /\ edit[e].new \in Rows
      BY <2>3 DEF CommitKeyword, DInv, Edits
    <3>2. CASE ~edit[e].new.present
      <4>1. edit'[e].step = "invalidate"
        BY <2>3, <3>1, <3>2, IdleEditOK DEF CommitKeyword, DInv
      <4>. QED BY <4>1 DEF Refreshed
    <3>3. CASE edit[e].new.present /\ table[k].present
      <4>1. edit'[e].step = "refresh" /\ edit'[e].id = k
        BY <2>3, <3>1, <3>3, IdleEditOK DEF CommitKeyword, DInv
      <4>2. table'[k] = Written(table[k], edit[e].loaded, edit[e].new)
        BY <2>3, <3>1, <3>3 DEF CommitKeyword, DInv
      <4>3. table'[k].present
        BY <3>1, <3>3, <4>2, WrittenOK DEF DInv
      <4>. QED BY <4>1, <4>3 DEF Refreshed
    <3>4. CASE edit[e].new.present /\ ~table[k].present
      <4>1. table' = [table EXCEPT ![k] = NoRow] /\ UNCHANGED <<cache, tainted>>
        BY <2>3, <3>4 DEF CommitKeyword
      <4>2. \A i \in Keywords : table'[i] = IF i = k THEN NoRow ELSE table[i]
        BY <4>1 DEF DInv
      <4>3. \A kind \in Kinds : Of(kind) \subseteq Keywords
        BY DictionaryAssumption DEF Of
      <4>4. \A kind \in Kinds :
              {i \in Of(kind) : table'[i].present /\ table'[i].enabled}
                = {i \in Of(kind) : table[i].present /\ table[i].enabled}
        BY <3>4, <4>2, <4>3, RowsOK
      <4>5. \A kind \in Kinds : EnabledRules(kind)' = EnabledRules(kind)
        BY <3>4, <4>2, <4>3, <4>4, RowsOK DEF EnabledRules
      <4>6. \A f \in Editors : f # e => edit'[f] = edit[f]
        BY <2>3 DEF CommitKeyword, DInv
      <4>7. \A f \in Editors : Refreshed(f) => Refreshed(f)'
        BY <3>1, <3>4, <4>2, <4>6, RowsOK DEF Refreshed, DInv
      <4>. QED BY <4>1, <4>5, <4>7
    <3>. QED BY <3>2, <3>3, <3>4
  <2>4. ASSUME NEW e \in Editors, Invalidate(e) PROVE Excused'
    BY <2>4 DEF Invalidate
  <2>5. ASSUME NEW e \in Editors, InvalidateFails(e) PROVE Excused'
    BY <2>5 DEF InvalidateFails
  <2>6. ASSUME NEW e \in Editors, RefreshFails(e) PROVE Excused'
    <3>1. ~Refreshed(e) /\ UNCHANGED <<table, cache, tainted>>
      BY <2>6 DEF RefreshFails, Refreshed
    <3>2. \A f \in Editors : f # e => edit'[f] = edit[f]
      BY <2>6 DEF RefreshFails, DInv
    <3>. QED BY <3>1, <3>2 DEF Refreshed, EnabledRules
  <2>7. ASSUME NEW kind \in Kinds, CacheExpires(kind) PROVE Excused'
    BY <2>7 DEF CacheExpires, DInv, Refreshed, EnabledRules
  <2>8. ASSUME NEW r \in Readers, StartReading(r) \/ GetRules(r) \/ Forget(r) PROVE Excused'
    BY <2>8 DEF StartReading, GetRules, Forget, Refreshed, EnabledRules
  <2>9. ASSUME NEW r \in Readers, StoreRules(r) PROVE Excused'
    <3>1. /\ cache' = [cache EXCEPT ![read[r].kind] = read[r].rules[read[r].kind]]
          /\ tainted' = IF read[r].rules[read[r].kind] = EnabledRules(read[r].kind)
                        THEN tainted \ {read[r].kind} ELSE tainted \union {read[r].kind}
          /\ UNCHANGED <<table, edit>>
      BY <2>9 DEF StoreRules
    <3>2. ASSUME NEW kind \in Kinds, cache'[kind] \notin {Missing, EnabledRules(kind)}
          PROVE  kind \in tainted' \/ \E e \in Editors : Refreshed(e)
      <4>1. CASE kind = read[r].kind
        BY <3>1, <3>2, <4>1 DEF DInv
      <4>2. CASE kind # read[r].kind
        BY <3>1, <3>2, <4>2 DEF DInv
      <4>. QED BY <4>1, <4>2
    <3>3. /\ \A kind \in Kinds : EnabledRules(kind)' = EnabledRules(kind)
          /\ \A e \in Editors : Refreshed(e)' = Refreshed(e)
      BY <3>1 DEF Refreshed, EnabledRules
    <3>. QED BY <3>2, <3>3
  <2>10. CASE UNCHANGED dictVars
    BY <2>10 DEF dictVars, Refreshed, EnabledRules
  <2>. QED BY <2>1, <2>2, <2>3, <2>4, <2>5, <2>6, <2>7, <2>8, <2>9, <2>10
           DEF DStep, DictNext, Change
<1>. QED BY <1>1, <1>2, DictionariesInductive, PTL

LEMMA RuleSetsOK ==
  ASSUME table \in [Keywords -> Rows], NEW kind \in Kinds
  PROVE  EnabledRules(kind) \in RuleSets /\ DOMAIN EnabledRules(kind) \subseteq Of(kind)
<1>. DEFINE S == {k \in Of(kind) : table[k].present /\ table[k].enabled}
<1>1. Of(kind) \subseteq Keywords
  BY DictionaryAssumption DEF Of
<1>2. EnabledRules(kind) \in [S -> Rows] /\ S \in SUBSET Keywords
  BY <1>1 DEF EnabledRules
<1>. QED BY <1>2 DEF RuleSets, EnabledRules

LEMMA UnreadOK == Unread \in Reads /\ Unread.step = "idle"
<1>1. NoRules \in [{} -> Rows]
  BY DEF NoRules
<1>2. NoRules \in RuleSets
  BY <1>1 DEF RuleSets
<1>. QED BY <1>2 DEF Unread, Reads, Kinds

LEMMA TypesInductive == DictInit /\ [][DStep]_dictVars => []DTypes
<1>1. DictInit => DTypes
  BY UnreadOK DEF DictInit, DTypes
<1>2. DInv /\ DTypes /\ [DStep]_dictVars => DTypes'
  <2> SUFFICES ASSUME DInv, DTypes, [DStep]_dictVars PROVE DTypes'
    OBVIOUS
  <2>. USE DEF DTypes
  <2>1. ASSUME NEW e \in Editors, NEW k \in Keywords, CreateKeyword(e, k) \/ LoadKeyword(e, k)
        PROVE  DTypes'
    <3>1. edits' = edits + 1 /\ UNCHANGED <<cache, read, tainted, collided, misses>>
      BY <2>1 DEF CreateKeyword, LoadKeyword, Begun
    <3>. QED BY <3>1
  <2>2. ASSUME NEW e \in Editors,
               CommitKeyword(e) \/ Invalidate(e) \/ InvalidateFails(e) \/ RefreshFails(e)
        PROVE  DTypes'
    <3>1. CASE CommitKeyword(e)
      BY <3>1 DEF CommitKeyword, DInv
    <3>2. CASE Invalidate(e)
      BY <3>2 DEF Invalidate
    <3>3. CASE InvalidateFails(e) \/ RefreshFails(e)
      BY <3>3 DEF InvalidateFails, RefreshFails
    <3>. QED BY <2>2, <3>1, <3>2, <3>3
  <2>3. ASSUME NEW kind \in Kinds, CacheExpires(kind) PROVE DTypes'
    BY <2>3 DEF CacheExpires
  <2>4. ASSUME NEW r \in Readers, StartReading(r) \/ Forget(r) PROVE DTypes'
    <3>1. PICK new \in Reads : new.step \in {"idle", "get"} /\ read' = [read EXCEPT ![r] = new]
      <4>1. [Unread EXCEPT !.step = "get"] \in Reads
            /\ [Unread EXCEPT !.step = "get"].step = "get"
        BY UnreadOK DEF Reads
      <4>. QED BY <2>4, <4>1, UnreadOK DEF StartReading, Forget
    <3>. QED BY <2>4, <3>1 DEF StartReading, Forget
  <2>5. ASSUME NEW r \in Readers, GetRules(r) PROVE DTypes'
    <3>. DEFINE kind == read[r].kind
    <3>1. kind \in Kinds /\ EnabledRules(kind) \in RuleSets
          /\ DOMAIN EnabledRules(kind) \subseteq Of(kind)
      BY RuleSetsOK DEF DInv, Reads
    <3>2. PICK new \in Reads :
            /\ read' = [read EXCEPT ![r] = new]
            /\ new.step = "store" => DOMAIN new.rules[new.kind] \subseteq Of(new.kind)
      <4>1. CASE cache[kind] # Missing
        <5>. DEFINE new == [step |-> IF kind = "positive" THEN "get" ELSE "loaded",
                            kind |-> "negative",
                            rules |-> [read[r].rules EXCEPT ![kind] = cache[kind]]]
        <5>1. read' = [read EXCEPT ![r] = new]
          BY <2>5, <4>1 DEF GetRules, Got
        <5>2. new \in Reads /\ new.step # "store"
          BY <3>1, <4>1 DEF Reads, Kinds
        <5>. QED BY <5>1, <5>2
      <4>2. CASE cache[kind] = Missing
        <5>. DEFINE new == [step |-> "store", kind |-> kind,
                            rules |-> [read[r].rules EXCEPT ![kind] = EnabledRules(kind)]]
        <5>1. read' = [read EXCEPT ![r] = new]
          BY <2>5, <4>2 DEF GetRules, Reads
        <5>2. new \in Reads /\ new.rules[kind] = EnabledRules(kind)
          BY <3>1 DEF Reads
        <5>. QED BY <3>1, <5>1, <5>2
      <4>. QED BY <4>1, <4>2
    <3>. QED BY <2>5, <3>2 DEF GetRules
  <2>6. ASSUME NEW r \in Readers, StoreRules(r) PROVE DTypes'
    <3>. DEFINE kind == read[r].kind
                rules == read[r].rules[kind]
                new == [step |-> IF kind = "positive" THEN "get" ELSE "loaded",
                        kind |-> "negative", rules |-> [read[r].rules EXCEPT ![kind] = rules]]
    <3>1. kind \in Kinds /\ rules \in RuleSets /\ DOMAIN rules \subseteq Of(kind)
      BY <2>6 DEF StoreRules, Reads
    <3>2. new \in Reads /\ new.step # "store"
      BY <3>1 DEF Reads, Kinds
    <3>3. read' = [read EXCEPT ![r] = new] /\ cache' = [cache EXCEPT ![kind] = rules]
      BY <2>6 DEF StoreRules, Got
    <3>4. tainted' \subseteq Kinds
      BY <2>6, <3>1 DEF StoreRules
    <3>. QED BY <2>6, <3>1, <3>2, <3>3, <3>4 DEF StoreRules
  <2>7. CASE UNCHANGED dictVars
    BY <2>7 DEF dictVars
  <2>. QED BY <2>1, <2>2, <2>3, <2>4, <2>5, <2>6, <2>7 DEF DStep, DictNext, Change
<1>. QED BY <1>1, <1>2, DictionariesInductive, PTL

LEMMA DictSpecSteps == DictSpec => DictInit /\ [][DStep]_dictVars
<1>1. [DictNext \/ \E r \in Readers : StartReading(r) \/ GetRules(r) \/ StoreRules(r)]_dictVars
        => [DStep]_dictVars
  BY DEF DStep
<1>. QED BY <1>1, PTL DEF DictSpec

\* A stale dictionary in the cache always has one of the three causes.
THEOREM StaleHasACause == DictSpec => []StaleIsExcused
<1>1. Excused => StaleIsExcused
  BY DEF Excused, StaleIsExcused, Refreshed
<1>. QED BY <1>1, ExcusedInductive, DictSpecSteps, PTL

\* One request at a time, no invalid regex is ever stored.
THEOREM StoredRulesCompile == DictSpec => []RulesCompile
<1>1. DInv => RulesCompile
  BY DEF DInv
<1>. QED BY <1>1, DictionariesInductive, DictSpecSteps, PTL

-----------------------------------------------------------------------------
(* The messages *)

LEMMA ProcessingSteps == Spec => DictInit /\ [][DStep]_dictVars
<1>1. Init => DictInit
  BY DEF Init
<1>2. [Next]_vars => [DStep]_dictVars
  <2> SUFFICES ASSUME [Next]_vars PROVE [DStep]_dictVars
    OBVIOUS
  <2>1. ASSUME NEW m \in Messages, Collected(m) PROVE UNCHANGED dictVars
    BY <2>1 DEF Collected
  <2>6. ASSUME NEW s \in stored, Enqueue(s) \/ LoseCollector(s) PROVE UNCHANGED dictVars
    BY <2>6 DEF Enqueue, LoseCollector
  <2>2. ASSUME NEW w \in Readers, Take(w) PROVE StartReading(w)
    BY <2>2 DEF Take
  <2>3. ASSUME NEW w \in Readers, Work(w) PROVE [DStep]_dictVars
    BY <2>3 DEF Work, Read, Persist, Commit, Publish, RulesBroken, Dropped, DStep, Forget
  <2>4. ASSUME NEW w \in Readers, Retry(w) \/ Fail(w) \/ LoseWorker(w) PROVE Forget(w)
    BY <2>4 DEF Retry, Fail, LoseWorker, Dropped, Forget
  <2>5. CASE UNCHANGED vars
    BY <2>5 DEF vars, dictVars
  <2>. QED BY <2>1, <2>2, <2>3, <2>4, <2>5, <2>6 DEF Next, DStep
<1>. QED BY <1>1, <1>2, PTL DEF Spec

Tasks == [message : Messages \union {Missing}, retries : 0 .. MaxRetries]
Jobs == [step : {"idle", "read", "commit", "publish"}, task : Tasks, text : Nat,
         row : Outcomes, result : Outcomes, dropped : [Readers -> Nat]]

\* A worker has a task unless it is idle, and reads the dictionaries for it.
MTypes ==
  /\ text \in [Messages -> Nat] /\ outcome \in [Messages -> Outcomes]
  /\ entities \in [Messages -> [Readers -> Nat]]
  /\ queued \subseteq [message : Messages, retries : 0 .. MaxRetries]
  /\ job \in [Readers -> Jobs]
  /\ \A w \in Readers : /\ job[w].step # "idle" => job[w].task.message \in Messages
                        /\ read[w].step # "idle" <=> job[w].step = "read"
  /\ classified \subseteq Messages \X Nat
  /\ failed \subseteq Messages /\ unlocked \subseteq Messages /\ unrecorded \subseteq Messages
  /\ stored \subseteq Messages \X Nat /\ unpublished \subseteq Messages
  /\ collections \in Nat /\ failures \in Nat

Writes(w, m) == job[w].step = "commit" /\ job[w].task.message = m

\* A transaction deletes what its own worker has stored before, and, unless it overlapped
\* with another one that did not wait, all there is.
DeletesAll ==
  \A m \in Messages : \A w \in Readers :
    Writes(w, m) =>
      /\ entities[m][w] <= job[w].dropped[w]
      /\ m \notin unlocked => job[w].dropped = entities[m]
      /\ \A v \in Readers : v # w /\ Writes(v, m) => m \in unlocked

LEMMA IdleJobOK ==
  /\ IdleJob \in Jobs /\ IdleJob.step = "idle" /\ Unprocessed \in Outcomes
  /\ \A m \in Messages, n \in 0 .. MaxRetries :
       Task(m, n) \in [message : Messages, retries : 0 .. MaxRetries]
  BY ProcessingAssumption DEF IdleJob, Jobs, Tasks, Task, Unprocessed, Outcomes

\* What a worker does next to its own job
LEMMA JobChanges ==
  ASSUME MTypes, NEW w \in Readers, NEW j \in Jobs, job' = [job EXCEPT ![w] = j],
         j.step # "idle" => j.task.message \in Messages,
         read'[w].step # "idle" <=> j.step = "read",
         \A v \in Readers : v # w => read'[v] = read[v]
  PROVE  /\ job' \in [Readers -> Jobs]
         /\ \A v \in Readers :
              /\ job'[v].step # "idle" => job'[v].task.message \in Messages
              /\ read'[v].step # "idle" <=> job'[v].step = "read"
  BY DEF MTypes

LEMMA TaskOf ==
  ASSUME MTypes, NEW w \in Readers, job[w].step # "idle"
  PROVE  /\ job[w] \in Jobs /\ job[w].task \in [message : Messages, retries : 0 .. MaxRetries]
         /\ job[w].task.message \in Messages /\ job[w].task.retries \in 0 .. MaxRetries
  BY DEF MTypes, Jobs, Tasks

LEMMA DroppedOK ==
  ASSUME MTypes, read \in [Readers -> Reads], NEW w \in Readers, Dropped(w)
  PROVE  /\ job' \in [Readers -> Jobs]
         /\ \A v \in Readers :
              /\ job'[v].step # "idle" => job'[v].task.message \in Messages
              /\ read'[v].step # "idle" <=> job'[v].step = "read"
  <1>1. read'[w].step = "idle" /\ \A v \in Readers : v # w => read'[v] = read[v]
    BY UnreadOK DEF Dropped
  <1>. QED BY <1>1, JobChanges, IdleJobOK DEF Dropped

LEMMA PreparedOK ==
  ASSUME MTypes, NEW w \in Readers, job[w].step # "idle"
  PROVE  /\ Prepared(w) \in Jobs /\ Prepared(w).step = "commit"
         /\ Prepared(w).task = job[w].task
         /\ Prepared(w).dropped = entities[job[w].task.message]
<1>1. Passes(read[w].rules) \in BOOLEAN
  BY DEF Passes
<1>. QED BY <1>1, TaskOf DEF Prepared, MTypes, Jobs, Outcomes

LEMMA MessageTypes == Spec => []MTypes
<1>1. Init => MTypes
  BY IdleJobOK, UnreadOK, ProcessingAssumption DEF Init, DictInit, MTypes
<1>2. DTypes /\ MTypes /\ [Next]_vars => MTypes'
  <2> SUFFICES ASSUME read \in [Readers -> Reads], MTypes, [Next]_vars PROVE MTypes'
    BY DEF DTypes
  <2>1. ASSUME NEW m \in Messages, Collected(m) PROVE MTypes'
    <3>1. text' \in [Messages -> Nat] /\ collections' \in Nat
      BY <2>1 DEF Collected, MTypes
    <3>2. outcome' \in [Messages -> Outcomes]
      <4>1. [outcome[m] EXCEPT !.text = 0] \in Outcomes
        BY DEF MTypes, Outcomes
      <4>2. outcome' = outcome \/ outcome' = [outcome EXCEPT ![m] = [outcome[m] EXCEPT !.text = 0]]
        BY <2>1 DEF Collected
      <4>. QED BY <4>1, <4>2 DEF MTypes
    <3>3. stored' \subseteq Messages \X Nat
      BY <2>1 DEF Collected, MTypes
    <3>. QED BY <2>1, <3>1, <3>2, <3>3 DEF Collected, MTypes, dictVars, endings
  <2>2. ASSUME NEW w \in Readers, Take(w) PROVE MTypes'
    <3>1. PICK task \in queued :
            /\ queued' = queued \ {task}
            /\ job' = [job EXCEPT ![w] =
                 [IdleJob EXCEPT !.step = "read", !.task = task, !.text = text[task.message],
                                 !.row = outcome[task.message]]]
      BY <2>2 DEF Take
    <3>. DEFINE j == [IdleJob EXCEPT !.step = "read", !.task = task,
                                     !.text = text[task.message], !.row = outcome[task.message]]
    <3>2. /\ j \in Jobs /\ j.step = "read" /\ j.task = task
          /\ task \in [message : Messages, retries : 0 .. MaxRetries]
      BY IdleJobOK DEF MTypes, Jobs, Tasks
    <3>3. read'[w].step = "get" /\ \A v \in Readers : v # w => read'[v] = read[v]
      BY <2>2, UnreadOK DEF Take, StartReading, Reads
    <3>4. /\ job' \in [Readers -> Jobs]
          /\ \A v \in Readers :
               /\ job'[v].step # "idle" => job'[v].task.message \in Messages
               /\ read'[v].step # "idle" <=> job'[v].step = "read"
      <4>. HIDE DEF j
      <4>. QED BY <3>1, <3>2, <3>3, JobChanges DEF j
    <3>5. unpublished' \subseteq Messages
      BY <2>2 DEF Take, MTypes
    <3>. QED BY <2>2, <3>1, <3>4, <3>5 DEF Take, MTypes, endings, counts
  <2>3. ASSUME NEW w \in Readers, Read(w) PROVE MTypes'
    <3>1. /\ read[w].step # "idle" /\ read'[w].step # "idle"
          /\ \A v \in Readers : v # w => read'[v] = read[v]
      BY <2>3 DEF Read, GetRules, StoreRules, Got, Reads
    <3>2. \A v \in Readers : read'[v].step # "idle" <=> read[v].step # "idle"
      BY <3>1
    <3>. QED BY <2>3, <3>2 DEF Read, MTypes, messageVars
  <2>4. ASSUME NEW w \in Readers, Persist(w) PROVE MTypes'
    <3>1. job[w].step = "read" /\ job' = [job EXCEPT ![w] = Prepared(w)]
      BY <2>4 DEF Persist, RulesLoaded
    <3>2. read'[w].step = "idle" /\ \A v \in Readers : v # w => read'[v] = read[v]
      BY <2>4, UnreadOK DEF Persist
    <3>3. /\ Prepared(w) \in Jobs /\ Prepared(w).step = "commit"
          /\ Prepared(w).task.message \in Messages
      BY <3>1, PreparedOK, TaskOf
    <3>4. /\ job' \in [Readers -> Jobs]
          /\ \A v \in Readers :
               /\ job'[v].step # "idle" => job'[v].task.message \in Messages
               /\ read'[v].step # "idle" <=> job'[v].step = "read"
      BY <3>1, <3>2, <3>3, JobChanges
    <3>5. unlocked' \subseteq Messages
      BY <2>4, <3>1, TaskOf DEF Persist, MTypes
    <3>. QED BY <2>4, <3>4, <3>5 DEF Persist, MTypes, collecting, endings, counts
  <2>5. ASSUME NEW w \in Readers, Commit(w) PROVE MTypes'
    <3>. DEFINE j == job[w]
                m == job[w].task.message
    <3>1. j.step = "commit" /\ j \in Jobs /\ m \in Messages
      BY <2>5, TaskOf DEF Commit
    <3>2. outcome' \in [Messages -> Outcomes]
      <4>1. j.row \in Outcomes /\ j.result \in Outcomes /\ outcome[m] \in Outcomes
        BY <3>1 DEF Jobs, MTypes
      <4>2. DOMAIN j.row = {"text", "passed"}
        BY <4>1 DEF Outcomes
      <4>3. [c \in DOMAIN j.row |-> IF j.result[c] # j.row[c] THEN j.result[c]
                                     ELSE outcome[m][c]]
              = [text |-> IF j.result.text # j.row.text THEN j.result.text
                          ELSE outcome[m].text,
                 passed |-> IF j.result.passed # j.row.passed THEN j.result.passed
                            ELSE outcome[m].passed]
        BY <4>2
      <4>4. [c \in DOMAIN j.row |-> IF j.result[c] # j.row[c] THEN j.result[c]
                                     ELSE outcome[m][c]] \in Outcomes
        BY <4>1, <4>3 DEF Outcomes
      <4>. QED BY <2>5, <3>1, <4>4 DEF Commit, MTypes
    <3>3. entities' \in [Messages -> [Readers -> Nat]]
      <4>. DEFINE left == [v \in Readers |-> entities[m][v] - j.dropped[v]]
                  new == [v \in Readers |-> (IF left[v] < 0 THEN 0 ELSE left[v])
                                            + (IF v = w THEN 1 ELSE 0)]
      <4>1. left \in [Readers -> Int]
        BY <3>1 DEF Jobs, MTypes
      <4>2. new \in [Readers -> Nat]
        BY <4>1
      <4>3. entities' = [entities EXCEPT ![m] = new]
        BY <2>5 DEF Commit
      <4>. HIDE DEF new
      <4>. QED BY <3>1, <4>2, <4>3 DEF MTypes
    <3>4. job' = [job EXCEPT ![w] = [j EXCEPT !.step = "publish"]] /\ read' = read
      BY <2>5 DEF Commit, dictVars
    <3>5. /\ [j EXCEPT !.step = "publish"] \in Jobs
          /\ [j EXCEPT !.step = "publish"].step = "publish"
          /\ [j EXCEPT !.step = "publish"].task = j.task
      BY <3>1 DEF Jobs
    <3>6. /\ job' \in [Readers -> Jobs]
          /\ \A v \in Readers :
               /\ job'[v].step # "idle" => job'[v].task.message \in Messages
               /\ read'[v].step # "idle" <=> job'[v].step = "read"
      <4>1. read[w].step = "idle"
        BY <3>1 DEF MTypes
      <4>. QED BY <3>1, <3>4, <3>5, <4>1, JobChanges
    <3>. QED BY <2>5, <3>2, <3>3, <3>6 DEF Commit, MTypes, collecting, endings, counts
  <2>6. ASSUME NEW w \in Readers, Publish(w) PROVE MTypes'
    <3>1. job[w].step = "publish" /\ job' = [job EXCEPT ![w] = IdleJob] /\ read' = read
      BY <2>6 DEF Publish, dictVars
    <3>2. read[w].step = "idle"
      BY <3>1 DEF MTypes
    <3>3. /\ job' \in [Readers -> Jobs]
          /\ \A v \in Readers :
               /\ job'[v].step # "idle" => job'[v].task.message \in Messages
               /\ read'[v].step # "idle" <=> job'[v].step = "read"
      BY <3>1, <3>2, JobChanges, IdleJobOK
    <3>4. <<job[w].task.message, job[w].text>> \in Messages \X Nat
      BY <3>1, TaskOf DEF Jobs
    <3>. QED BY <2>6, <3>3, <3>4 DEF Publish, MTypes, collecting, endings, counts
  <2>7. ASSUME NEW w \in Readers, RulesBroken(w) \/ Retry(w) \/ Fail(w) \/ LoseWorker(w)
        PROVE  MTypes'
    <3>1. job[w].step # "idle" /\ Dropped(w)
      BY <2>7 DEF RulesBroken, RulesLoaded, Retry, Fail, LoseWorker, Failable
    <3>2. /\ job' \in [Readers -> Jobs]
          /\ \A v \in Readers :
               /\ job'[v].step # "idle" => job'[v].task.message \in Messages
               /\ read'[v].step # "idle" <=> job'[v].step = "read"
      BY <3>1, DroppedOK
    <3>3. /\ job[w].task \in [message : Messages, retries : 0 .. MaxRetries]
          /\ job[w].task.message \in Messages /\ job[w].task.retries \in 0 .. MaxRetries
      BY <3>1, TaskOf
    <3>4. queued' \subseteq [message : Messages, retries : 0 .. MaxRetries]
      <4>1. CASE Retry(w)
        <5>1. job[w].task.retries + 1 \in 0 .. MaxRetries
          BY <4>1, <3>3, ProcessingAssumption DEF Retry
        <5>. QED BY <4>1, <3>3, <5>1, IdleJobOK DEF Retry, MTypes
      <4>. QED BY <2>7, <3>3, <4>1 DEF RulesBroken, Fail, LoseWorker, MTypes
    <3>5. failed' \subseteq Messages /\ unrecorded' \subseteq Messages /\ failures' \in Nat
      BY <2>7, <3>3 DEF RulesBroken, Retry, Fail, LoseWorker, MTypes
    <3>. QED BY <3>1, <3>2, <3>4, <3>5 DEF Dropped, MTypes, collecting
  <2>8. ASSUME DictNext, UNCHANGED messageVars PROVE MTypes'
    <3>1. read' = read
      BY <2>8 DEF DictNext, Change, CreateKeyword, LoadKeyword, CommitKeyword, Invalidate,
                  InvalidateFails, RefreshFails, CacheExpires
    <3>. QED BY <2>8, <3>1 DEF messageVars, MTypes
  <2>9. CASE UNCHANGED vars
    BY <2>9 DEF vars, MTypes
  <2>10. ASSUME NEW s \in stored, Enqueue(s) \/ LoseCollector(s) PROVE MTypes'
    <3>0. PICK m \in Messages : m = s[1]
      BY DEF MTypes
    <3>1. Task(m, 0) \in [message : Messages, retries : 0 .. MaxRetries]
      BY IdleJobOK, ProcessingAssumption
    <3>5. stored' \subseteq Messages \X Nat
      BY <2>10 DEF Enqueue, LoseCollector, MTypes
    <3>2. queued' \subseteq [message : Messages, retries : 0 .. MaxRetries]
          /\ unpublished' \subseteq Messages
      BY <2>10, <3>0, <3>1 DEF Enqueue, LoseCollector, MTypes
    <3>3. failures' \in Nat /\ collections' \in Nat
      BY <2>10 DEF Enqueue, LoseCollector, MTypes, counts
    <3>4. UNCHANGED <<read, text, outcome, entities, job, classified, unlocked, failed,
                     unrecorded>>
      BY <2>10 DEF Enqueue, LoseCollector, dictVars, endings
    <3>. QED BY <3>2, <3>3, <3>4, <3>5 DEF MTypes
  <2>. QED BY <2>1, <2>2, <2>3, <2>4, <2>5, <2>6, <2>7, <2>8, <2>9, <2>10 DEF Next, Work
<1>. QED BY <1>1, <1>2, ProcessingSteps, TypesInductive, PTL DEF Spec

\* The entities of a message change only when a worker commits, and a worker starts to
\* write only when it persists.
LEMMA OnlyCommits ==
  ASSUME MTypes, [Next]_vars, \A w \in Readers : ~Persist(w) /\ ~Commit(w)
  PROVE  /\ entities' = entities /\ unlocked' = unlocked
         /\ \A w \in Readers : job'[w].step = "commit" => job'[w] = job[w]
<1>1. ASSUME NEW w \in Readers, Take(w)
      PROVE  \A v \in Readers : job'[v].step = "commit" => job'[v] = job[v]
  <2>1. PICK task \in queued : job' = [job EXCEPT ![w] =
            [IdleJob EXCEPT !.step = "read", !.task = task, !.text = text[task.message],
                            !.row = outcome[task.message]]]
    BY <1>1 DEF Take
  <2>2. job'[w].step = "read" /\ \A v \in Readers : v # w => job'[v] = job[v]
    BY <2>1, IdleJobOK DEF MTypes, Jobs
  <2>. QED BY <2>2
<1>2. ASSUME NEW w \in Readers,
             Publish(w) \/ RulesBroken(w) \/ Retry(w) \/ Fail(w) \/ LoseWorker(w)
      PROVE  /\ entities' = entities /\ unlocked' = unlocked
             /\ \A v \in Readers : job'[v].step = "commit" => job'[v] = job[v]
  <2>1. job' = [job EXCEPT ![w] = IdleJob] /\ entities' = entities /\ unlocked' = unlocked
    BY <1>2 DEF Publish, RulesBroken, Retry, Fail, LoseWorker, Dropped
  <2>. QED BY <2>1, IdleJobOK DEF MTypes
<1>. QED BY <1>1, <1>2
         DEF Next, Work, Collected, Enqueue, LoseCollector, Take, Read, messageVars, vars

EInv == DeletesAll /\ EntitiesOfOneRun

LEMMA EntitiesInductive == Spec => []EInv
<1>1. Init => EInv
  <2> SUFFICES ASSUME Init PROVE EInv
    OBVIOUS
  <2>1. \A w \in Readers : job[w].step # "commit"
    BY IdleJobOK DEF Init
  <2>2. \A m \in Messages : \A w \in Readers : entities[m][w] = 0
    BY DEF Init
  <2>. QED BY <2>1, <2>2 DEF EInv, DeletesAll, Writes, EntitiesOfOneRun
<1>2. MTypes /\ EInv /\ [Next]_vars => EInv'
  <2> SUFFICES ASSUME MTypes, EInv, [Next]_vars PROVE EInv'
    OBVIOUS
  <2>1. ASSUME NEW w \in Readers, Persist(w) PROVE EInv'
    <3>. DEFINE m == job[w].task.message
    <3>1. /\ job[w].step = "read" /\ job' = [job EXCEPT ![w] = Prepared(w)]
          /\ entities' = entities /\ m \in Messages /\ unlocked \subseteq unlocked'
      BY <2>1, TaskOf DEF Persist, RulesLoaded
    <3>2. \A v \in Readers : v # w => job'[v] = job[v]
      BY <3>1 DEF MTypes
    <3>3. /\ job'[w].step = "commit" /\ job'[w].task.message = m
          /\ job'[w].dropped = entities[m]
      BY <3>1, PreparedOK DEF MTypes
    <3>4. ASSUME NEW v \in Readers, v # w, Writes(v, m) PROVE m \in unlocked'
      <4>1. v \in Others(w)
        BY <3>4 DEF Writes, Others
      <4>2. Changes(Prepared(w)) => ~Changes(job[v])
        BY <2>1, <4>1 DEF Persist, MayWrite
      <4>. QED BY <2>1, <4>1, <4>2 DEF Persist
    <3>5. \A n \in Messages, v \in Readers :
            Writes(v, n)' <=> IF v = w THEN n = m ELSE Writes(v, n)
      BY <3>2, <3>3 DEF Writes
    <3>6. DeletesAll'
      <4> SUFFICES ASSUME NEW n \in Messages, NEW v \in Readers, Writes(v, n)'
                   PROVE  /\ entities[n][v] <= job'[v].dropped[v]
                          /\ n \notin unlocked' => job'[v].dropped = entities[n]
                          /\ \A u \in Readers : u # v /\ Writes(u, n)' => n \in unlocked'
        BY <3>1 DEF DeletesAll
      <4>1. CASE v = w
        <5>1. n = m /\ entities[m][w] \in Nat
          BY <3>5, <4>1 DEF MTypes
        <5>. QED BY <3>3, <3>4, <3>5, <4>1, <5>1
      <4>2. CASE v # w
        <5>1. Writes(v, n) /\ job'[v] = job[v]
          BY <3>2, <3>5, <4>2
        <5>2. \A u \in Readers : u # v /\ Writes(u, n)' => n \in unlocked'
          BY <3>1, <3>4, <3>5, <4>2, <5>1 DEF EInv, DeletesAll
        <5>. QED BY <3>1, <5>1, <5>2 DEF EInv, DeletesAll
      <4>. QED BY <4>1, <4>2
    <3>7. EntitiesOfOneRun'
      BY <3>1 DEF EInv, EntitiesOfOneRun
    <3>. QED BY <3>6, <3>7 DEF EInv
  <2>2. ASSUME NEW w \in Readers, Commit(w) PROVE EInv'
    <3>. DEFINE m == job[w].task.message
                dropped == job[w].dropped
    <3>1. job[w].step = "commit" /\ m \in Messages /\ dropped \in [Readers -> Nat]
      BY <2>2, TaskOf DEF Commit, Jobs
    <3>2. /\ job' = [job EXCEPT ![w] = [job[w] EXCEPT !.step = "publish"]]
          /\ unlocked' = unlocked
      BY <2>2 DEF Commit
    <3>3. job'[w].step = "publish" /\ \A v \in Readers : v # w => job'[v] = job[v]
      BY <3>1, <3>2, TaskOf DEF MTypes, Jobs
    <3>4. \A n \in Messages : n # m => entities'[n] = entities[n]
      BY <2>2, <3>1 DEF Commit, MTypes
    <3>5. \A v \in Readers :
            /\ entities[m][v] \in Nat /\ dropped[v] \in Nat
            /\ entities'[m][v] = (IF entities[m][v] - dropped[v] < 0 THEN 0
                                  ELSE entities[m][v] - dropped[v]) + (IF v = w THEN 1 ELSE 0)
      BY <2>2, <3>1 DEF Commit, MTypes
    <3>6. entities[m][w] <= dropped[w] /\ (m \notin unlocked => dropped = entities[m])
      BY <3>1 DEF EInv, DeletesAll, Writes
    <3>7. /\ entities'[m][w] = 1
          /\ \A v \in Readers : v # w => entities'[m][v] <= entities[m][v]
      BY <3>5, <3>6
    <3>8. m \notin unlocked => \A v \in Readers : v # w => entities'[m][v] = 0
      BY <3>5, <3>6
    <3>9. ASSUME NEW n \in Messages, NEW v \in Readers, Writes(v, n)'
          PROVE  v # w /\ Writes(v, n) /\ job'[v] = job[v] /\ (n = m => m \in unlocked)
      BY <3>1, <3>3, <3>9 DEF Writes, EInv, DeletesAll
    <3>10. DeletesAll'
      <4> SUFFICES ASSUME NEW n \in Messages, NEW v \in Readers, Writes(v, n)'
                   PROVE  /\ entities'[n][v] <= job'[v].dropped[v]
                          /\ n \notin unlocked' => job'[v].dropped = entities'[n]
                          /\ \A u \in Readers : u # v /\ Writes(u, n)' => n \in unlocked'
        BY DEF DeletesAll
      <4>1. v # w /\ Writes(v, n) /\ job'[v] = job[v] /\ (n = m => m \in unlocked)
        BY <3>9
      <4>2. /\ entities[n][v] <= job[v].dropped[v]
            /\ n \notin unlocked => job[v].dropped = entities[n]
            /\ \A u \in Readers : u # v /\ Writes(u, n) => n \in unlocked
        BY <4>1 DEF EInv, DeletesAll
      <4>3. \A u \in Readers : u # v /\ Writes(u, n)' => n \in unlocked'
        BY <3>2, <3>9, <4>2
      <4>4. CASE n = m
        <5>1. entities'[m][v] <= entities[m][v] /\ entities'[m][v] \in Int
          BY <3>5, <3>7, <4>1
        <5>2. job[v].dropped[v] \in Nat
          BY <4>1, TaskOf DEF Writes, Jobs
        <5>. QED BY <3>2, <3>5, <4>1, <4>2, <4>3, <4>4, <5>1, <5>2
      <4>5. CASE n # m
        BY <3>2, <3>4, <4>1, <4>2, <4>3, <4>5
      <4>. QED BY <4>4, <4>5
    <3>11. EntitiesOfOneRun'
      <4> SUFFICES ASSUME NEW n \in Messages, NEW u \in Readers, NEW v \in Readers
                   PROVE  /\ entities'[n][v] <= 1
                          /\ u # v /\ n \notin unlocked' => entities'[n][u] + entities'[n][v] <= 1
        BY DEF EntitiesOfOneRun
      <4>1. /\ entities[n][v] <= 1
            /\ u # v /\ n \notin unlocked => entities[n][u] + entities[n][v] <= 1
        BY DEF EInv, EntitiesOfOneRun
      <4>2. CASE n # m
        BY <3>2, <3>4, <4>1, <4>2
      <4>3. CASE n = m
        <5>1. entities'[m][v] <= 1
          BY <3>5, <3>7, <4>1, <4>3
        <5>2. u # v /\ m \notin unlocked => entities'[m][u] + entities'[m][v] <= 1
          BY <3>7, <3>8
        <5>. QED BY <3>2, <4>3, <5>1, <5>2
      <4>. QED BY <4>2, <4>3
    <3>. QED BY <3>10, <3>11 DEF EInv
  <2>3. CASE \A w \in Readers : ~Persist(w) /\ ~Commit(w)
    <3>1. /\ entities' = entities /\ unlocked' = unlocked
          /\ \A w \in Readers : job'[w].step = "commit" => job'[w] = job[w]
      BY <2>3, OnlyCommits
    <3>2. \A m \in Messages : \A w \in Readers : Writes(w, m)' => Writes(w, m) /\ job'[w] = job[w]
      BY <3>1 DEF Writes
    <3>. QED BY <3>1, <3>2 DEF EInv, DeletesAll, EntitiesOfOneRun
  <2>. QED BY <2>1, <2>2, <2>3
<1>. QED BY <1>1, <1>2, MessageTypes, PTL DEF Spec

\* The variables of processing and of the dictionaries keep their types, and a worker reads
\* the dictionaries only for a task it has taken.
THEOREM ProcessingTypes == Spec => []TypeOK
<1>1. DInv /\ DTypes => DictTypeOK
  BY DEF DInv, DTypes, DictTypeOK, Edits, Reads
<1>2. DictTypeOK /\ MTypes => TypeOK
  BY DEF MTypes, TypeOK, Jobs
<1>. QED BY <1>1, <1>2, ProcessingSteps, DictionariesInductive, TypesInductive, MessageTypes, PTL

\* However many workers process a message at once, and whatever fails: it keeps the entities
\* of one run, unless two runs overlapped without waiting for each other.
THEOREM OneRunOfEntities == Spec => []EntitiesOfOneRun
<1>1. EInv => EntitiesOfOneRun
  BY DEF EInv
<1>. QED BY <1>1, EntitiesInductive, PTL

\* While workers process messages, fail and are lost: every stored rule compiles unless two
\* requests changed its keyword at once, and a stale dictionary in the cache has a cause.
THEOREM ProcessedWithSoundRules == Spec => [](RulesCompile /\ StaleIsExcused)
<1>1. DInv /\ Excused => RulesCompile /\ StaleIsExcused
  BY DEF DInv, Excused, StaleIsExcused, Refreshed
<1>. QED BY <1>1, ProcessingSteps, DictionariesInductive, ExcusedInductive, PTL

=============================================================================
