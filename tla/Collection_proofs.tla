-------------------------- MODULE Collection_proofs --------------------------
(***************************************************************************)
(* Proofs about Collection, for every set of collectors, every number of   *)
(* messages and every bound.                                               *)
(***************************************************************************)
EXTENDS Collection, FiniteSetTheorems, TLAPS

-----------------------------------------------------------------------------
(* Rows: what a transaction handles is a row or will be one at its commit. *)

\* A transaction with uncommitted inserts
Open == {"upsert", "insert", "compare", "commit"}

\* Collector c will have row i once it commits: it inserts it or has loaded it.
Mine(c, i) == inserting[i] = c \/ Exists(run[c].loaded[i])

\* What c inserts or loaded is a row it holds, and what it loaded stays a row.
HeldInv(c) ==
  \A i \in Ids :
    /\ inserting[i] = c => Exists(run[c].new[i]) /\ run[c].step \in Open
    /\ Exists(run[c].loaded[i]) => Exists(stored[i]) /\ Exists(run[c].new[i])

\* What is left to do was fetched, or is known.
TodoInv(c) ==
  \A i \in run[c].todo :
    /\ run[c].step \in {"upsert", "insert"} => run[c].seen[i] > 0
    /\ run[c].step = "compare" => Mine(c, i)

\* What is to be published is a row after the commit.
PublishInv(c) ==
  \A i \in run[c].publish :
    IF run[c].step = "publish" THEN Exists(stored[i]) ELSE Mine(c, i)

OwnInv(c) == HeldInv(c) /\ TodoInv(c) /\ PublishInv(c)

RowInv == TypeOK /\ \A c \in Collectors : OwnInv(c)

\* The type invariant without what relates two variables
Typed ==
  /\ last \in 0 .. MaxPosts /\ version \in [Ids -> Nat \ {0}] /\ gone \subseteq Ids
  /\ stored \in [Ids -> Rows] /\ cursor \in 0 .. MaxPosts
  /\ status \in {"ok", "floodwait"}
  /\ lease \in Collectors \union {NoCollector, Orphan}
  /\ run \in [Collectors -> Runs]
  /\ inserting \in [Ids -> Collectors \union {NoCollector}]
  /\ queued \subseteq Ids
  /\ overrun \subseteq Collectors
  /\ edits \in Nat /\ failures \in Nat /\ expiries \in Nat

LEMMA RowInvTyped == RowInv => Typed
  BY DEF RowInv, TypeOK, Typed

\* A step of c leaves the others what they have, if it leaves them their runs and inserts,
\* and every row stays one.
LEMMA OthersKeep ==
  ASSUME RowInv, NEW c \in Collectors, NEW r \in Runs, run' = [run EXCEPT ![c] = r],
         \A i \in Ids, d \in Collectors \ {c} : inserting'[i] = d => inserting[i] = d,
         \A i \in Ids, d \in Collectors \ {c} : inserting[i] = d => inserting'[i] = d,
         \A i \in Ids : Exists(stored[i]) => Exists(stored'[i]),
         OwnInv(c)'
  PROVE  \A d \in Collectors : OwnInv(d)'
<1> SUFFICES ASSUME NEW d \in Collectors, d # c PROVE OwnInv(d)'
  OBVIOUS
<1>1. run'[d] = run[d]
  BY RowInvTyped DEF Typed
<1>1a. run[d].todo \subseteq Ids /\ run[d].publish \subseteq Ids
  BY RowInvTyped DEF Typed, Runs
<1>2. HeldInv(d) /\ TodoInv(d) /\ PublishInv(d)
  BY DEF RowInv, OwnInv
<1>3. HeldInv(d)'
  BY <1>1, <1>2 DEF HeldInv, Exists
<1>4. \A i \in Ids : Mine(d, i) => Mine(d, i)'
  BY <1>1 DEF Mine, Exists
<1>5. TodoInv(d)'
  BY <1>1, <1>1a, <1>2, <1>4 DEF TodoInv
<1>6. PublishInv(d)'
  BY <1>1, <1>1a, <1>2, <1>4 DEF PublishInv
<1>. QED BY <1>3, <1>5, <1>6 DEF OwnInv

\* A run that has handled nothing
EmptyRuns == {r \in Runs : r.loaded = NoneOf /\ r.todo = {} /\ r.publish = {}}

LEMMA FreshRun ==
  ASSUME NEW s \in Steps, NEW n \in 0 .. MaxPosts
  PROVE  /\ IdleRun \in EmptyRuns
         /\ [IdleRun EXCEPT !.step = s] \in EmptyRuns
         /\ [IdleRun EXCEPT !.step = s, !.cursor = n] \in EmptyRuns
<1>1. IdleRun \in Runs
  BY BoundAssumption DEF IdleRun, Runs, NoneOf, NoRow, Rows, Steps
<1>2. [IdleRun EXCEPT !.step = s] \in Runs
  BY <1>1 DEF Runs
<1>3. [IdleRun EXCEPT !.step = s, !.cursor = n] \in Runs
  BY <1>1 DEF Runs
<1>. QED BY <1>1, <1>2, <1>3 DEF IdleRun, EmptyRuns

LEMMA IdleTyped == IdleRun \in Runs /\ NoRow \in Rows /\ ~Exists(NoRow)
  BY BoundAssumption DEF IdleRun, Runs, NoneOf, NoRow, Rows, Steps, Exists

\* A snapshot of a version is a row.
LEMMA SnapshotRow ==
  ASSUME NEW v \in Nat
  PROVE  Snapshot(v) \in Rows /\ Snapshot(v).version = v
  BY DEF Snapshot, Rows

\* A run without uncommitted inserts, loaded rows and work has nothing to keep.
LEMMA EmptyRun ==
  ASSUME NEW c \in Collectors, NEW r \in EmptyRuns, run' = [run EXCEPT ![c] = r],
         run \in [Collectors -> Runs],
         \A i \in Ids : inserting'[i] # c
  PROVE  OwnInv(c)'
<1>1. run'[c] = r /\ r.loaded = NoneOf /\ r.todo = {} /\ r.publish = {}
  BY DEF EmptyRuns
<1>2. \A i \in Ids : ~Exists(r.loaded[i])
  BY <1>1 DEF NoneOf, NoRow, Exists
<1>3. HeldInv(c)'
  BY <1>1, <1>2 DEF HeldInv, Exists
<1>. QED BY <1>1, <1>3 DEF OwnInv, TodoInv, PublishInv

\* A transaction that ends without a commit releases its inserts only.
LEMMA UnlockedOthers ==
  ASSUME Typed, NEW c \in Collectors, inserting' = Unlocked(c)
  PROVE  /\ inserting' \in [Ids -> Collectors \union {NoCollector}]
         /\ \A i \in Ids : inserting'[i] # c
         /\ \A i \in Ids, d \in Collectors \ {c} : inserting'[i] = d <=> inserting[i] = d
  BY NameAssumption DEF Unlocked, Typed

\* A row with all its columns
LEMMA SavedRow ==
  ASSUME Typed, NEW c \in Collectors, NEW i \in Ids
  PROVE  /\ Saved(c, i) \in Rows
         /\ ~(inserting[i] = c) /\ Exists(run[c].loaded[i]) =>
              Saved(c, i).version = IF run[c].new[i].version # run[c].loaded[i].version
                                    THEN run[c].new[i].version ELSE stored[i].version
<1>1. /\ run[c].new[i] \in Rows /\ run[c].loaded[i] \in Rows /\ stored[i] \in Rows
  BY DEF Typed, Runs
<1>2. CASE inserting[i] = c
  BY <1>1, <1>2 DEF Saved
<1>3. CASE inserting[i] # c /\ ~Exists(run[c].loaded[i])
  BY <1>1, <1>3 DEF Saved
<1>4. CASE inserting[i] # c /\ Exists(run[c].loaded[i])
  <2> DEFINE s == [n \in {"version", "normal", "deleted"} |->
                     Column(stored[i], run[c].loaded[i], run[c].new[i], n)]
  <2>0. DOMAIN NoRow = {"version", "normal", "deleted"}
    BY DEF NoRow
  <2>1. Saved(c, i) = s
    BY <1>4, <2>0 DEF Saved
  <2>2. s = [version |-> s["version"], normal |-> s["normal"], deleted |-> s["deleted"]]
    OBVIOUS
  <2>3. s["version"] \in Nat /\ s["normal"] \in BOOLEAN /\ s["deleted"] \in BOOLEAN
    BY <1>1 DEF Column, Rows
  <2>4. s \in Rows
    BY <2>2, <2>3 DEF Rows
  <2>5. s.version = IF run[c].new[i].version # run[c].loaded[i].version
                    THEN run[c].new[i].version ELSE stored[i].version
    BY DEF Column
  <2>. QED BY <1>4, <2>1, <2>4, <2>5
<1>. QED BY <1>2, <1>3, <1>4

LEMMA InitRow == Init => RowInv
<1> SUFFICES ASSUME Init PROVE RowInv
  OBVIOUS
<1>1. Typed
  BY IdleTyped, BoundAssumption DEF Init, Typed, NoneOf
<1>2. TypeOK
  BY <1>1 DEF Typed, TypeOK, Init
<1>3. ASSUME NEW c \in Collectors PROVE OwnInv(c)
  <2>1. /\ run[c] = IdleRun /\ \A i \in Ids : inserting[i] # c /\ ~Exists(run[c].loaded[i])
    BY <1>3, NameAssumption, IdleTyped DEF Init, IdleRun, NoneOf
  <2>. QED BY <2>1 DEF OwnInv, HeldInv, TodoInv, PublishInv, IdleRun
<1>. QED BY <1>2, <1>3 DEF RowInv

\* A step that leaves the runs, the inserts and the versions of the rows alone
LEMMA RunsKeep ==
  ASSUME RowInv, UNCHANGED <<run, inserting>>,
         \A i \in Ids : Exists(stored[i]) => Exists(stored'[i])
  PROVE  \A c \in Collectors : OwnInv(c)'
<1> SUFFICES ASSUME NEW c \in Collectors PROVE OwnInv(c)'
  OBVIOUS
<1>0. run[c].publish \subseteq Ids /\ run'[c] = run[c]
  BY RowInvTyped DEF Typed, Runs
<1>1. HeldInv(c) /\ TodoInv(c) /\ PublishInv(c)
  BY DEF RowInv, OwnInv
<1>2. HeldInv(c)'
  BY <1>1 DEF HeldInv, Exists
<1>3. TodoInv(c)'
  BY <1>1 DEF TodoInv, Mine, Exists
<1>4. PublishInv(c)'
  BY <1>0, <1>1 DEF PublishInv, Mine, Exists
<1>. QED BY <1>2, <1>3, <1>4 DEF OwnInv

\* A row keeps its type and version when it is marked.
LEMMA MarkedRow ==
  ASSUME NEW r \in Rows, NEW b \in BOOLEAN
  PROVE  /\ [r EXCEPT !.normal = b] \in Rows /\ [r EXCEPT !.normal = b].version = r.version
         /\ [r EXCEPT !.deleted = b] \in Rows /\ [r EXCEPT !.deleted = b].version = r.version
  BY DEF Rows

\* The channel, leases and FloodWaits move; a processing task writes its row.
LEMMA WorldRow ==
  ASSUME RowInv,
         \/ Post \/ Expire \/ Recover
         \/ \E i \in Ids : EditPost(i) \/ DeletePost(i) \/ Process(i)
  PROVE  RowInv'
<1>1. CASE Post
  <2>1. TypeOK'
    BY <1>1, BoundAssumption DEF RowInv, Post, TypeOK, rowVars, countVars
  <2>. QED BY <1>1, <2>1, RunsKeep DEF Post, rowVars, RowInv
<1>2. CASE Expire
  <2>1. TypeOK'
    BY <1>2 DEF RowInv, Expire, TypeOK, rowVars, channelVars
  <2>. QED BY <1>2, <2>1, RunsKeep DEF Expire, rowVars, RowInv
<1>3. CASE Recover
  <2>1. TypeOK'
    BY <1>3 DEF RowInv, Recover, TypeOK, countVars, channelVars
  <2>. QED BY <1>3, <2>1, RunsKeep DEF Recover, RowInv
<1>4. ASSUME NEW i \in Ids, EditPost(i) PROVE RowInv'
  <2>1. TypeOK'
    BY <1>4 DEF RowInv, EditPost, TypeOK, rowVars, countVars
  <2>. QED BY <1>4, <2>1, RunsKeep DEF EditPost, rowVars, RowInv
<1>5. ASSUME NEW i \in Ids, DeletePost(i) PROVE RowInv'
  <2>1. TypeOK'
    BY <1>5 DEF RowInv, DeletePost, TypeOK, rowVars, countVars
  <2>. QED BY <1>5, <2>1, RunsKeep DEF DeletePost, rowVars, RowInv
<1>6. ASSUME NEW i \in Ids, Process(i) PROVE RowInv'
  <2>1. stored \in [Ids -> Rows] /\ (i \notin Plain) \in BOOLEAN
    BY DEF RowInv, TypeOK
  <2>2. stored' \in [Ids -> Rows] /\ \A j \in Ids : stored'[j].version = stored[j].version
    <3>1. /\ [stored[i] EXCEPT !.normal = i \notin Plain] \in Rows
          /\ [stored[i] EXCEPT !.normal = i \notin Plain].version = stored[i].version
      BY <2>1, MarkedRow
    <3>2. stored' = [stored EXCEPT ![i] = [stored[i] EXCEPT !.normal = i \notin Plain]]
      BY <1>6 DEF Process
    <3>. QED BY <2>1, <3>1, <3>2
  <2>3. TypeOK'
    BY <1>6, <2>2 DEF RowInv, Process, TypeOK, countVars, channelVars, Exists
  <2>. QED BY <1>6, <2>2, <2>3, RunsKeep DEF Process, RowInv, Exists
<1>. QED BY <1>1, <1>2, <1>3, <1>4, <1>5, <1>6

\* The steps of a collector that hold no transaction, or give it up
LEMMA OutsideRow ==
  ASSUME RowInv, NEW c \in Collectors,
         \/ Acquire(c) \/ Release(c) \/ Load(c) \/ FloodWait(c)
         \/ InsertFails(c) \/ CompareFails(c) \/ Crash(c)
  PROVE  RowInv'
<1>0. Typed /\ OwnInv(c)
  BY RowInvTyped DEF RowInv
<1>1. PICK r \in EmptyRuns : run' = [run EXCEPT ![c] = r]
  <2>1. "idle" \in Steps /\ "load" \in Steps /\ "release" \in Steps /\ "fetch" \in Steps
        /\ cursor \in 0 .. MaxPosts
    BY <1>0 DEF Steps, Typed
  <2>2. CASE Acquire(c)
    BY <2>1, <2>2, FreshRun DEF Acquire
  <2>3. CASE Release(c) \/ Crash(c)
    BY <2>1, <2>3, FreshRun DEF Release, Crash
  <2>4. CASE FloodWait(c) \/ InsertFails(c) \/ CompareFails(c)
    BY <2>1, <2>4, FreshRun DEF FloodWait, InsertFails, CompareFails
  <2>5. CASE Load(c)
    BY <2>1, <2>5, FreshRun DEF Load
  <2>. QED BY <2>2, <2>3, <2>4, <2>5
<1>2. r \in Runs
  BY DEF EmptyRuns
<1>3. /\ inserting' \in [Ids -> Collectors \union {NoCollector}]
      /\ \A i \in Ids : inserting'[i] # c
      /\ \A i \in Ids, d \in Collectors \ {c} : inserting'[i] = d <=> inserting[i] = d
  <2>1. CASE inserting' = Unlocked(c)
    BY <1>0, <2>1, UnlockedOthers
  <2>2. CASE inserting' = inserting /\ run[c].step \notin Open
    BY <1>0, <2>2 DEF Typed, OwnInv, HeldInv
  <2>3. inserting' = Unlocked(c) \/ (inserting' = inserting /\ run[c].step \notin Open)
    BY DEF Acquire, Release, Load, FloodWait, InsertFails, CompareFails, Crash, Open
  <2>. QED BY <2>1, <2>2, <2>3
<1>4. run' \in [Collectors -> Runs]
  BY <1>0, <1>1, <1>2 DEF Typed
<1>5. OwnInv(c)'
  BY <1>0, <1>1, <1>3, EmptyRun DEF Typed
<1>6. stored' = stored
  BY DEF Acquire, Release, Load, FloodWait, InsertFails, CompareFails, Crash, rowVars
<1>7. \A d \in Collectors : OwnInv(d)'
  BY <1>1, <1>2, <1>3, <1>5, <1>6, OthersKeep
<1>8. TypeOK'
  <2>1. CASE Acquire(c) \/ Release(c) \/ Load(c)
    BY <1>3, <1>4, <2>1 DEF RowInv, TypeOK, Acquire, Release, Load, channelVars, rowVars, countVars
  <2>2. CASE FloodWait(c) \/ InsertFails(c) \/ CompareFails(c) \/ Crash(c)
    BY <1>3, <1>4, <2>2
    DEF RowInv, TypeOK, FloodWait, InsertFails, CompareFails, Crash, channelVars, rowVars, countVars
  <2>. QED BY <2>1, <2>2
<1>. QED BY <1>7, <1>8 DEF RowInv

\* A step of an open transaction: it changes its own run, and may insert.
LEMMA InsideStep ==
  ASSUME RowInv, NEW c \in Collectors, NEW r \in Runs, run' = [run EXCEPT ![c] = r],
         UNCHANGED <<channelVars, rowVars, lease, queued, overrun, countVars>>,
         inserting' \in [Ids -> Collectors \union {NoCollector}],
         \A i \in Ids, d \in Collectors \ {c} : inserting'[i] = d <=> inserting[i] = d,
         OwnInv(c)'
  PROVE  RowInv'
<1>1. run' \in [Collectors -> Runs]
  BY RowInvTyped DEF Typed
<1>2. TypeOK'
  BY <1>1 DEF RowInv, TypeOK, channelVars, rowVars, countVars
<1>3. \A d \in Collectors : OwnInv(d)'
  BY OthersKeep DEF rowVars
<1>. QED BY <1>2, <1>3 DEF RowInv

LEMMA FetchRow ==
  ASSUME RowInv, NEW c \in Collectors, Fetch(c)
  PROVE  RowInv'
<1> DEFINE seen == [i \in Ids |-> IF i \in Fetched(c) THEN version[i] ELSE 0]
           r == [run[c] EXCEPT !.step = "upsert", !.todo = Fetched(c), !.seen = seen]
<1>0. Typed /\ OwnInv(c) /\ run[c] \in Runs
  BY RowInvTyped DEF RowInv, Typed
<1>1. Fetched(c) \subseteq Ids
  <2>1. run[c].cursor \in Nat /\ last \in Nat /\ last <= MaxPosts
    BY <1>0, BoundAssumption DEF Typed, Runs
  <2>2. run[c].cursor + 1 .. last \subseteq Ids
    BY <2>1, BoundAssumption DEF Ids
  <2>. QED BY <2>2 DEF Fetched
<1>2. seen \in [Ids -> Nat] /\ \A i \in Fetched(c) : seen[i] > 0
  BY <1>0, <1>1 DEF Typed
<1>3. r \in Runs
  BY <1>0, <1>1, <1>2 DEF Runs, Steps
<1>4. run' = [run EXCEPT ![c] = r] /\ run[c].step = "fetch"
  BY DEF Fetch
<1>5. /\ run'[c] = r /\ r.step = "upsert" /\ r.todo = Fetched(c) /\ r.seen = seen
      /\ r.loaded = run[c].loaded /\ r.new = run[c].new /\ r.publish = run[c].publish
  BY <1>0, <1>3, <1>4 DEF Typed, Runs
<1>6. inserting' = inserting /\ stored' = stored
  BY DEF Fetch, rowVars
<1>7. HeldInv(c)'
  BY <1>0, <1>5, <1>6 DEF OwnInv, HeldInv, Open, Exists
<1>8. TodoInv(c)'
  BY <1>2, <1>5 DEF TodoInv
<1>9. PublishInv(c)'
  BY <1>0, <1>4, <1>5, <1>6 DEF OwnInv, PublishInv, Mine, Exists, Runs
<1>10. OwnInv(c)'
  BY <1>7, <1>8, <1>9 DEF OwnInv
<1>. QED BY <1>0, <1>3, <1>4, <1>6, <1>10, InsideStep DEF Fetch, Typed

LEMMA UpdateRowRow ==
  ASSUME RowInv, NEW c \in Collectors, UpdateRow(c)
  PROVE  RowInv'
<1>1. PICK i \in Ids :
        /\ First(i, run[c].todo) /\ Exists(stored[i])
        /\ run' = [run EXCEPT ![c].todo = @ \ {i},
             ![c].loaded[i] = stored[i],
             ![c].new[i] = Snapshot(run[c].seen[i]),
             ![c].publish = IF stored[i] # Snapshot(run[c].seen[i]) THEN @ \union {i} ELSE @]
  BY DEF UpdateRow
<1> DEFINE snap == Snapshot(run[c].seen[i])
           loaded == [run[c].loaded EXCEPT ![i] = stored[i]]
           new == [run[c].new EXCEPT ![i] = snap]
           publish == IF stored[i] # snap THEN run[c].publish \union {i} ELSE run[c].publish
           r == [run[c] EXCEPT !.todo = run[c].todo \ {i}, !.loaded = loaded, !.new = new,
                               !.publish = publish]
<1>0. Typed /\ OwnInv(c) /\ run[c] \in Runs /\ run[c].step = "upsert"
  BY RowInvTyped DEF RowInv, Typed, UpdateRow
<1>2. i \in run[c].todo /\ run[c].seen[i] > 0 /\ run[c].seen[i] \in Nat
  BY <1>0, <1>1 DEF First, OwnInv, TodoInv, Runs
<1>3. snap \in Rows /\ Exists(snap)
  BY <1>2, SnapshotRow DEF Exists
<1>4. r \in Runs
  BY <1>0, <1>3 DEF Runs, Typed
<1>5. run' = [run EXCEPT ![c] = r]
  <2>1. run' = [run EXCEPT ![c] = run'[c]] /\ run'[c] = r
    BY <1>1, <1>0 DEF Typed, Runs
  <2>. QED BY <2>1
<1>6. /\ run'[c] = r /\ r.step = "upsert" /\ r.todo = run[c].todo \ {i}
      /\ r.seen = run[c].seen /\ r.loaded = loaded /\ r.new = new /\ r.publish = publish
  BY <1>0, <1>4, <1>5 DEF Typed, Runs
<1>7. inserting' = inserting /\ stored' = stored
  BY DEF UpdateRow, rowVars
<1>8. /\ loaded[i] = stored[i] /\ new[i] = snap
      /\ \A j \in Ids : j # i => loaded[j] = run[c].loaded[j] /\ new[j] = run[c].new[j]
  BY <1>0 DEF Runs
<1>9. HeldInv(c)'
  <2> SUFFICES ASSUME NEW j \in Ids
               PROVE  /\ inserting'[j] = c => Exists(new[j])
                      /\ Exists(loaded[j]) => Exists(stored[j]) /\ Exists(new[j])
    BY <1>6, <1>7 DEF HeldInv, Open, Exists
  <2>1. CASE j = i
    BY <1>1, <1>3, <1>8, <2>1
  <2>2. CASE j # i
    BY <1>0, <1>7, <1>8, <2>2 DEF OwnInv, HeldInv
  <2>. QED BY <2>1, <2>2
<1>10. TodoInv(c)'
  BY <1>0, <1>6 DEF OwnInv, TodoInv
<1>11. PublishInv(c)'
  <2> SUFFICES ASSUME NEW j \in publish PROVE inserting'[j] = c \/ Exists(loaded[j])
    BY <1>6 DEF PublishInv, Mine, Exists
  <2>0. publish \subseteq Ids
    BY <1>0 DEF Runs
  <2>1. CASE j = i
    BY <1>1, <1>8, <2>1
  <2>2. CASE j # i
    <3>1. j \in run[c].publish
      BY <2>2
    <3>. QED BY <1>0, <1>7, <1>8, <2>0, <2>2, <3>1 DEF OwnInv, PublishInv, Mine
  <2>. QED BY <2>1, <2>2
<1>12. OwnInv(c)'
  BY <1>9, <1>10, <1>11 DEF OwnInv
<1>. QED BY <1>0, <1>4, <1>5, <1>7, <1>12, InsideStep DEF UpdateRow, Typed

LEMMA FindNoRowRow ==
  ASSUME RowInv, NEW c \in Collectors, FindNoRow(c)
  PROVE  RowInv'
<1> DEFINE r == [run[c] EXCEPT !.step = "insert"]
<1>0. Typed /\ OwnInv(c) /\ run[c] \in Runs /\ run[c].step = "upsert"
  BY RowInvTyped DEF RowInv, Typed, FindNoRow
<1>1. r \in Runs
  BY <1>0 DEF Runs, Steps
<1>2. run' = [run EXCEPT ![c] = r] /\ inserting' = inserting /\ stored' = stored
  BY DEF FindNoRow, rowVars
<1>3. /\ run'[c] = r /\ r.step = "insert" /\ r.todo = run[c].todo /\ r.seen = run[c].seen
      /\ r.loaded = run[c].loaded /\ r.new = run[c].new /\ r.publish = run[c].publish
  BY <1>0, <1>1, <1>2 DEF Typed, Runs
<1>4. OwnInv(c)'
  BY <1>0, <1>2, <1>3 DEF OwnInv, HeldInv, TodoInv, PublishInv, Mine, Exists, Open, Runs
<1>. QED BY <1>0, <1>1, <1>2, <1>4, InsideStep DEF FindNoRow, Typed

LEMMA InsertRowRow ==
  ASSUME RowInv, NEW c \in Collectors, InsertRow(c)
  PROVE  RowInv'
<1>1. PICK i \in Ids :
        /\ First(i, run[c].todo) /\ ~Exists(stored[i]) /\ inserting[i] = NoCollector
        /\ inserting' = [inserting EXCEPT ![i] = c]
        /\ run' = [run EXCEPT ![c].step = "upsert", ![c].todo = @ \ {i},
             ![c].new[i] = Snapshot(run[c].seen[i]),
             ![c].publish = @ \union {i}]
  BY DEF InsertRow
<1> DEFINE snap == Snapshot(run[c].seen[i])
           new == [run[c].new EXCEPT ![i] = snap]
           r == [run[c] EXCEPT !.step = "upsert", !.todo = run[c].todo \ {i}, !.new = new,
                               !.publish = run[c].publish \union {i}]
<1>0. Typed /\ OwnInv(c) /\ run[c] \in Runs /\ run[c].step = "insert"
  BY RowInvTyped DEF RowInv, Typed, InsertRow
<1>2. i \in run[c].todo /\ run[c].seen[i] > 0 /\ run[c].seen[i] \in Nat
  BY <1>0, <1>1 DEF First, OwnInv, TodoInv, Runs
<1>3. snap \in Rows /\ Exists(snap)
  BY <1>2, SnapshotRow DEF Exists
<1>4. r \in Runs
  BY <1>0, <1>3 DEF Runs, Steps
<1>5. run' = [run EXCEPT ![c] = r]
  <2>1. run' = [run EXCEPT ![c] = run'[c]] /\ run'[c] = r
    BY <1>1, <1>0 DEF Typed, Runs
  <2>. QED BY <2>1
<1>6. /\ run'[c] = r /\ r.step = "upsert" /\ r.todo = run[c].todo \ {i}
      /\ r.seen = run[c].seen /\ r.loaded = run[c].loaded /\ r.new = new
      /\ r.publish = run[c].publish \union {i}
  BY <1>0, <1>4, <1>5 DEF Typed, Runs
<1>7. /\ stored' = stored /\ inserting' \in [Ids -> Collectors \union {NoCollector}]
      /\ inserting'[i] = c /\ \A j \in Ids : j # i => inserting'[j] = inserting[j]
      /\ \A j \in Ids, d \in Collectors \ {c} : inserting'[j] = d <=> inserting[j] = d
  BY <1>0, <1>1, NameAssumption DEF InsertRow, rowVars, Typed
<1>8. new[i] = snap /\ \A j \in Ids : j # i => new[j] = run[c].new[j]
  BY <1>0 DEF Runs
<1>9. HeldInv(c)'
  <2> SUFFICES ASSUME NEW j \in Ids
               PROVE  /\ inserting'[j] = c => Exists(new[j])
                      /\ Exists(run[c].loaded[j]) => Exists(stored[j]) /\ Exists(new[j])
    BY <1>6, <1>7 DEF HeldInv, Open, Exists
  <2>1. CASE j = i
    BY <1>0, <1>3, <1>8, <2>1 DEF OwnInv, HeldInv
  <2>2. CASE j # i
    BY <1>0, <1>7, <1>8, <2>2 DEF OwnInv, HeldInv
  <2>. QED BY <2>1, <2>2
<1>10. TodoInv(c)'
  BY <1>0, <1>6 DEF OwnInv, TodoInv
<1>11. PublishInv(c)'
  <2> SUFFICES ASSUME NEW j \in run[c].publish \union {i}
               PROVE  inserting'[j] = c \/ Exists(run[c].loaded[j])
    BY <1>6 DEF PublishInv, Mine, Exists
  <2>0. run[c].publish \subseteq Ids
    BY <1>0 DEF Runs
  <2>1. CASE j = i
    BY <1>7, <2>1
  <2>2. CASE j # i
    BY <1>0, <1>7, <2>0, <2>2 DEF OwnInv, PublishInv, Mine
  <2>. QED BY <2>1, <2>2
<1>12. OwnInv(c)'
  BY <1>9, <1>10, <1>11 DEF OwnInv
<1>. QED BY <1>4, <1>5, <1>7, <1>12, InsideStep DEF InsertRow

\* What the transaction of c will commit as row i is one just if it is one now or is its own.
LEMMA SavedExists ==
  ASSUME RowInv, NEW c \in Collectors, NEW i \in Ids
  PROVE  Exists(Saved(c, i)) <=> Mine(c, i) \/ Exists(stored[i])
<1>0. Typed /\ OwnInv(c)
  BY RowInvTyped DEF RowInv
<1>1. run[c].new[i] \in Rows /\ stored[i] \in Rows
  BY <1>0 DEF Typed, Runs
<1>2. CASE inserting[i] = c
  BY <1>0, <1>2 DEF Saved, Mine, OwnInv, HeldInv
<1>3. CASE inserting[i] # c /\ ~Exists(run[c].loaded[i])
  BY <1>3 DEF Saved, Mine
<1>4. CASE inserting[i] # c /\ Exists(run[c].loaded[i])
  <2>1. Exists(run[c].new[i]) /\ Exists(stored[i])
    BY <1>0, <1>4 DEF OwnInv, HeldInv
  <2>2. Saved(c, i).version = run[c].new[i].version \/ Saved(c, i).version = stored[i].version
    BY <1>0, <1>4, SavedRow
  <2>. QED BY <1>4, <2>1, <2>2 DEF Exists, Mine
<1>. QED BY <1>2, <1>3, <1>4

LEMMA ReadKnownRow ==
  ASSUME RowInv, NEW c \in Collectors, ReadKnown(c)
  PROVE  RowInv'
<1> DEFINE todo == {i \in Ids : Exists(Saved(c, i)) /\ ~Saved(c, i).deleted}
           loaded == [i \in Ids |-> IF Exists(run[c].loaded[i]) THEN run[c].loaded[i] ELSE stored[i]]
           new == [i \in Ids |-> IF Exists(run[c].new[i]) THEN run[c].new[i] ELSE stored[i]]
           r == [run[c] EXCEPT !.step = "compare", !.todo = todo, !.loaded = loaded, !.new = new]
<1>0. Typed /\ OwnInv(c) /\ run[c] \in Runs /\ run[c].step = "upsert"
  BY RowInvTyped DEF RowInv, Typed, ReadKnown
<1>1. r \in Runs
  BY <1>0 DEF Runs, Steps, Typed
<1>2. run' = [run EXCEPT ![c] = r] /\ inserting' = inserting /\ stored' = stored
  BY DEF ReadKnown, rowVars
<1>3. /\ run'[c] = r /\ r.step = "compare" /\ r.todo = todo
      /\ r.loaded = loaded /\ r.new = new /\ r.publish = run[c].publish
  BY <1>0, <1>1, <1>2 DEF Typed, Runs
<1>4. HeldInv(c)'
  <2> SUFFICES ASSUME NEW j \in Ids
               PROVE  /\ inserting[j] = c => Exists(new[j])
                      /\ Exists(loaded[j]) => Exists(stored[j]) /\ Exists(new[j])
    BY <1>2, <1>3 DEF HeldInv, Open, Exists
  <2>. QED BY <1>0 DEF OwnInv, HeldInv
<1>5. TodoInv(c)'
  <2> SUFFICES ASSUME NEW j \in todo PROVE inserting[j] = c \/ Exists(loaded[j])
    BY <1>2, <1>3 DEF TodoInv, Mine, Exists
  <2>1. Mine(c, j) \/ Exists(stored[j])
    BY SavedExists
  <2>. QED BY <2>1 DEF Mine
<1>6. PublishInv(c)'
  <2> SUFFICES ASSUME NEW j \in run[c].publish PROVE inserting[j] = c \/ Exists(loaded[j])
    BY <1>2, <1>3 DEF PublishInv, Mine, Exists
  <2>1. j \in Ids /\ Mine(c, j)
    BY <1>0 DEF OwnInv, PublishInv, Runs
  <2>. QED BY <2>1 DEF Mine
<1>7. OwnInv(c)'
  BY <1>4, <1>5, <1>6 DEF OwnInv
<1>. QED BY <1>0, <1>1, <1>2, <1>7, InsideStep DEF ReadKnown, Typed

LEMMA CompareRow ==
  ASSUME RowInv, NEW c \in Collectors, Compare(c)
  PROVE  RowInv'
<1> DEFINE now == [i \in Ids |->
                     IF i \notin run[c].todo THEN run[c].new[i]
                     ELSE IF i \in gone THEN [run[c].new[i] EXCEPT !.deleted = TRUE]
                     ELSE Snapshot(version[i])]
           publish == run[c].publish \union {i \in Ids : now[i] # run[c].new[i]}
           r == [run[c] EXCEPT !.step = "commit", !.todo = {}, !.new = now, !.publish = publish]
<1>0. Typed /\ OwnInv(c) /\ run[c] \in Runs /\ run[c].step = "compare"
  BY RowInvTyped DEF RowInv, Typed, Compare
<1>1. \A i \in Ids : now[i] \in Rows /\ (Exists(run[c].new[i]) => Exists(now[i]))
  <2> SUFFICES ASSUME NEW i \in Ids
               PROVE  now[i] \in Rows /\ (Exists(run[c].new[i]) => Exists(now[i]))
    OBVIOUS
  <2>0. run[c].new[i] \in Rows /\ version[i] \in Nat \ {0}
    BY <1>0 DEF Runs, Typed
  <2>1. CASE i \notin run[c].todo
    BY <2>0, <2>1
  <2>2. CASE i \in run[c].todo /\ i \in gone
    <3>1. now[i] = [run[c].new[i] EXCEPT !.deleted = TRUE]
      BY <2>2
    <3>. QED BY <2>0, <3>1, MarkedRow DEF Exists
  <2>3. CASE i \in run[c].todo /\ i \notin gone
    <3>1. now[i] = Snapshot(version[i])
      BY <2>3
    <3>. QED BY <2>0, <3>1, SnapshotRow DEF Exists
  <2>. QED BY <2>1, <2>2, <2>3
<1>2. r \in Runs
  <2>1. now \in [Ids -> Rows] /\ publish \in SUBSET Ids
    BY <1>0, <1>1 DEF Runs
  <2>. QED BY <1>0, <2>1 DEF Runs, Steps
<1>3. run' = [run EXCEPT ![c] = r] /\ inserting' = inserting /\ stored' = stored
  BY DEF Compare, rowVars
<1>4. /\ run'[c] = r /\ r.step = "commit" /\ r.todo = {}
      /\ r.loaded = run[c].loaded /\ r.new = now /\ r.publish = publish
  BY <1>0, <1>2, <1>3 DEF Typed, Runs
<1>5. HeldInv(c)'
  <2> SUFFICES ASSUME NEW j \in Ids
               PROVE  /\ inserting[j] = c => Exists(now[j])
                      /\ Exists(run[c].loaded[j]) => Exists(stored[j]) /\ Exists(now[j])
    BY <1>3, <1>4 DEF HeldInv, Open, Exists
  <2>. QED BY <1>0, <1>1 DEF OwnInv, HeldInv
<1>6. TodoInv(c)'
  BY <1>4 DEF TodoInv
<1>7. PublishInv(c)'
  <2> SUFFICES ASSUME NEW j \in publish PROVE Mine(c, j)
    BY <1>3, <1>4 DEF PublishInv, Mine, Exists
  <2>1. CASE j \in run[c].publish
    BY <1>0, <2>1 DEF OwnInv, PublishInv
  <2>2. CASE j \in Ids /\ now[j] # run[c].new[j]
    BY <1>0, <2>2 DEF OwnInv, TodoInv
  <2>. QED BY <2>1, <2>2
<1>8. OwnInv(c)'
  BY <1>5, <1>6, <1>7 DEF OwnInv
<1>. QED BY <1>0, <1>2, <1>3, <1>8, InsideStep DEF Compare, Typed

\* A commit keeps every row and adds those of its collector.
LEMMA CommitStored ==
  ASSUME RowInv, NEW c \in Collectors, Commit(c)
  PROVE  /\ stored' \in [Ids -> Rows]
         /\ \A i \in Ids : Exists(stored'[i]) <=> Mine(c, i) \/ Exists(stored[i])
<1>1. stored' = [i \in Ids |-> Saved(c, i)]
  BY DEF Commit
<1>2. \A i \in Ids : Saved(c, i) \in Rows
  BY RowInvTyped, SavedRow
<1>. QED BY <1>1, <1>2, SavedExists

LEMMA CommitRow ==
  ASSUME RowInv, NEW c \in Collectors, Commit(c)
  PROVE  RowInv'
<1> DEFINE r == [IdleRun EXCEPT !.step = "publish", !.publish = run[c].publish]
<1>0. Typed /\ OwnInv(c) /\ run[c] \in Runs /\ run[c].step = "commit"
  BY RowInvTyped DEF RowInv, Typed, Commit
<1>1. r \in Runs
  BY <1>0, IdleTyped DEF Runs, Steps
<1>2. run' = [run EXCEPT ![c] = r] /\ inserting' = Unlocked(c)
  BY DEF Commit
<1>3. /\ run'[c] = r /\ r.step = "publish" /\ r.todo = {}
      /\ r.loaded = NoneOf /\ r.publish = run[c].publish
  BY <1>0, <1>2 DEF Typed, IdleRun
<1>4. /\ inserting' \in [Ids -> Collectors \union {NoCollector}]
      /\ \A i \in Ids : inserting'[i] # c
      /\ \A i \in Ids, d \in Collectors \ {c} : inserting'[i] = d <=> inserting[i] = d
  BY <1>0, <1>2, UnlockedOthers
<1>5. HeldInv(c)'
  BY <1>3, <1>4, IdleTyped DEF HeldInv, NoneOf, Exists
<1>6. TodoInv(c)'
  BY <1>3 DEF TodoInv
<1>7. PublishInv(c)'
  <2> SUFFICES ASSUME NEW j \in run[c].publish PROVE Exists(stored'[j])
    BY <1>3 DEF PublishInv, Exists
  <2>1. j \in Ids /\ Mine(c, j)
    BY <1>0 DEF OwnInv, PublishInv, Runs
  <2>. QED BY <2>1, CommitStored
<1>8. OwnInv(c)'
  BY <1>5, <1>6, <1>7 DEF OwnInv
<1>9. \A d \in Collectors : OwnInv(d)'
  BY <1>1, <1>2, <1>4, <1>8, CommitStored, OthersKeep
<1>10. run' \in [Collectors -> Runs]
  BY <1>0, <1>1, <1>2 DEF Typed
<1>11. cursor' \in 0 .. MaxPosts
  BY <1>0 DEF Commit, Typed
<1>12. queued' \subseteq {i \in Ids : Exists(stored'[i])}
  BY CommitStored DEF RowInv, TypeOK, Commit
<1>13. TypeOK'
  BY <1>4, <1>10, <1>11, <1>12, CommitStored
  DEF RowInv, TypeOK, Commit, channelVars, countVars, Exists
<1>. QED BY <1>9, <1>13 DEF RowInv

LEMMA PublishRow ==
  ASSUME RowInv, NEW c \in Collectors, Publish(c)
  PROVE  RowInv'
<1>0. Typed /\ OwnInv(c) /\ run[c] \in Runs /\ run[c].step = "publish"
  BY RowInvTyped DEF RowInv, Typed, Publish
<1>1. inserting' = inserting /\ stored' = stored
  BY DEF Publish, rowVars
<1>2. PICK s \in {"publish", "release"}, P \in SUBSET run[c].publish :
        /\ run' = [run EXCEPT ![c] = [run[c] EXCEPT !.step = s, !.publish = P]]
        /\ s = "release" => P = {}
        /\ queued' \subseteq queued \union run[c].publish
  <2>1. CASE run[c].publish = {} /\ run' = [run EXCEPT ![c].step = "release"] /\ queued' = queued
    <3>1. [run[c] EXCEPT !.step = "release"]
            = [run[c] EXCEPT !.step = "release", !.publish = {}]
      BY <1>0, <2>1 DEF Runs
    <3>. QED BY <2>1, <3>1
  <2>2. ASSUME NEW i \in Ids, First(i, run[c].publish), queued' = queued \union {i},
               run' = [run EXCEPT ![c].publish = @ \ {i}]
        PROVE  \E P \in SUBSET run[c].publish :
                 /\ run' = [run EXCEPT ![c] = [run[c] EXCEPT !.step = "publish", !.publish = P]]
                 /\ queued' \subseteq queued \union run[c].publish
    <3>1. [run[c] EXCEPT !.publish = run[c].publish \ {i}]
            = [run[c] EXCEPT !.step = "publish", !.publish = run[c].publish \ {i}]
      BY <1>0 DEF Runs
    <3>. QED BY <2>2, <3>1 DEF First
  <2>. QED BY <2>1, <2>2 DEF Publish
<1> DEFINE r == [run[c] EXCEPT !.step = s, !.publish = P]
<1>3. r \in Runs
  BY <1>0 DEF Runs, Steps
<1>4. /\ run'[c] = r /\ r.step = s /\ r.todo = run[c].todo /\ r.loaded = run[c].loaded
      /\ r.new = run[c].new /\ r.publish = P
  BY <1>0, <1>2, <1>3 DEF Typed, Runs
<1>5. HeldInv(c)'
  BY <1>0, <1>1, <1>4 DEF OwnInv, HeldInv, Open, Exists
<1>6. TodoInv(c)'
  BY <1>4 DEF TodoInv
<1>7. PublishInv(c)'
  BY <1>0, <1>1, <1>2, <1>4 DEF OwnInv, PublishInv, Exists
<1>8. \A d \in Collectors : OwnInv(d)'
  <2>1. OwnInv(c)'
    BY <1>5, <1>6, <1>7 DEF OwnInv
  <2>. QED BY <1>1, <1>2, <1>3, <2>1, OthersKeep
<1>9. run' \in [Collectors -> Runs]
  BY <1>0, <1>2, <1>3 DEF Typed
<1>10. queued' \subseteq {i \in Ids : Exists(stored[i])}
  BY <1>0, <1>2 DEF RowInv, TypeOK, OwnInv, PublishInv, Runs
<1>11. TypeOK'
  BY <1>1, <1>9, <1>10 DEF RowInv, TypeOK, Publish, channelVars, rowVars, countVars
<1>. QED BY <1>8, <1>11 DEF RowInv

LEMMA NextRow == RowInv /\ [Next]_vars => RowInv'
<1> SUFFICES ASSUME RowInv, [Next]_vars PROVE RowInv'
  OBVIOUS
<1>1. CASE Post \/ Expire \/ Recover \/ \E i \in Ids : EditPost(i) \/ DeletePost(i) \/ Process(i)
  BY <1>1, WorldRow
<1>2. ASSUME NEW c \in Collectors, Acquire(c) \/ Work(c) \/ FloodWait(c) \/ CompareFails(c) \/ Crash(c)
      PROVE  RowInv'
  BY <1>2, OutsideRow, FetchRow, UpdateRowRow, FindNoRowRow, InsertRowRow, ReadKnownRow,
     CompareRow, CommitRow, PublishRow DEF Work
<1>3. CASE UNCHANGED vars
  <2>1. TypeOK'
    BY <1>3 DEF RowInv, TypeOK, vars, Exists
  <2>. QED BY <1>3, <2>1, RunsKeep DEF vars, RowInv
<1>. QED BY <1>1, <1>2, <1>3 DEF Next

\* Every variable keeps its type, and no task is published for a message without a row.
THEOREM TypeCorrect == Spec => []TypeOK
<1>1. RowInv => TypeOK
  BY DEF RowInv
<1>. QED BY <1>1, InitRow, NextRow, PTL DEF Spec

-----------------------------------------------------------------------------
(* The lease *)

\* A collection whose lease has not expired holds it, whatever the others do: two such
\* collections never overlap.
THEOREM LeaseIsExclusive == Spec => []RunsUnderItsLease
<1>1. Init => RunsUnderItsLease
  BY DEF Init, RunsUnderItsLease, IdleRun
<1>2. TypeOK /\ RunsUnderItsLease /\ [Next]_vars => RunsUnderItsLease'
  <2> SUFFICES ASSUME TypeOK, RunsUnderItsLease, [Next]_vars PROVE RunsUnderItsLease'
    OBVIOUS
  <2>0. run \in [Collectors -> Runs]
    BY DEF TypeOK
  <2>1. CASE UNCHANGED <<run, lease, overrun>>
    BY <2>1 DEF RunsUnderItsLease
  <2>2. CASE Expire
    BY <2>2, NameAssumption DEF Expire, RunsUnderItsLease
  <2>3. ASSUME NEW c \in Collectors, Acquire(c) PROVE RunsUnderItsLease'
    BY <2>0, <2>3, NameAssumption DEF Acquire, RunsUnderItsLease
  <2>4. ASSUME NEW c \in Collectors, Release(c) \/ Crash(c) PROVE RunsUnderItsLease'
    <3>1. run' = [run EXCEPT ![c] = IdleRun] /\ overrun' = overrun \ {c} /\ IdleRun.step = "idle"
          /\ (lease' = lease \/ lease = c)
      BY <2>4 DEF Release, Crash, IdleRun
    <3>. QED BY <2>0, <3>1 DEF RunsUnderItsLease
  <2>5. ASSUME NEW c \in Collectors, run[c].step # "idle", UNCHANGED <<lease, overrun>>,
               \A d \in Collectors \ {c} : run'[d] = run[d]
        PROVE  RunsUnderItsLease'
    BY <2>5 DEF RunsUnderItsLease
  <2>6. ASSUME NEW c \in Collectors, Load(c) \/ Fetch(c) \/ UpdateRow(c) \/ FindNoRow(c)
                 \/ InsertRow(c) \/ InsertFails(c)
        PROVE  RunsUnderItsLease'
    <3>1. run[c].step # "idle" /\ UNCHANGED <<lease, overrun>>
      BY <2>6 DEF Load, Fetch, UpdateRow, FindNoRow, InsertRow, InsertFails
    <3>2. \A d \in Collectors \ {c} : run'[d] = run[d]
      BY <2>0, <2>6 DEF Load, Fetch, UpdateRow, FindNoRow, InsertRow, InsertFails
    <3>. QED BY <2>5, <3>1, <3>2
  <2>7. ASSUME NEW c \in Collectors, ReadKnown(c) \/ Compare(c) \/ Commit(c) \/ Publish(c)
                 \/ FloodWait(c) \/ CompareFails(c)
        PROVE  RunsUnderItsLease'
    <3>1. run[c].step # "idle" /\ UNCHANGED <<lease, overrun>>
      BY <2>7 DEF ReadKnown, Compare, Commit, Publish, FloodWait, CompareFails
    <3>2. \A d \in Collectors \ {c} : run'[d] = run[d]
      BY <2>0, <2>7 DEF ReadKnown, Compare, Commit, Publish, FloodWait, CompareFails
    <3>. QED BY <2>5, <3>1, <3>2
  <2>8. CASE Post \/ Recover \/ (\E i \in Ids : EditPost(i) \/ DeletePost(i) \/ Process(i))
             \/ UNCHANGED vars
    BY <2>1, <2>8 DEF Post, Recover, EditPost, DeletePost, Process, vars
  <2>. QED BY <2>2, <2>3, <2>4, <2>6, <2>7, <2>8 DEF Next, Work
<1>. QED BY <1>1, <1>2, TypeCorrect, PTL DEF Spec

-----------------------------------------------------------------------------
(* The cursor *)

\* The messages up to n are stored or deleted.
Covered(n) == \A i \in Ids : i <= n => Exists(stored[i]) \/ i \in gone

\* The cursor a collection started from is covered.
StartInv(c) == Covered(run[c].cursor)

\* Between that cursor and a message it has seen, a collection has seen all but the deleted.
GapInv(c) ==
  \A i, j \in Ids :
    run[c].seen[j] > 0 /\ i <= j => i <= run[c].cursor \/ run[c].seen[i] > 0 \/ i \in gone

\* What it has seen it will commit, or has yet to handle.
SeenInv(c) ==
  \A i \in Ids :
    run[c].seen[i] > 0 =>
      Mine(c, i) \/ (run[c].step \in {"upsert", "insert"} /\ i \in run[c].todo)

FetchInv(c) == StartInv(c) /\ GapInv(c) /\ SeenInv(c)

CursorInv == Covered(cursor) /\ \A c \in Collectors : FetchInv(c)

\* No step removes a row or brings a deleted message back.
Grows == (\A i \in Ids : Exists(stored[i]) => Exists(stored'[i])) /\ gone \subseteq gone'

LEMMA RowsGrow == RowInv /\ [Next]_vars => Grows
<1> SUFFICES ASSUME RowInv, [Next]_vars PROVE Grows
  OBVIOUS
<1>1. CASE UNCHANGED <<stored, gone>>
  BY <1>1 DEF Grows
<1>2. ASSUME NEW i \in Ids, DeletePost(i) PROVE Grows
  BY <1>2 DEF DeletePost, rowVars, Grows
<1>3. ASSUME NEW i \in Ids, Process(i) PROVE Grows
  <2>1. stored \in [Ids -> Rows] /\ (i \notin Plain) \in BOOLEAN
    BY DEF RowInv, TypeOK
  <2>2. [stored[i] EXCEPT !.normal = i \notin Plain].version = stored[i].version
    BY <2>1, MarkedRow
  <2>3. stored' = [stored EXCEPT ![i] = [stored[i] EXCEPT !.normal = i \notin Plain]]
    BY <1>3 DEF Process
  <2>. QED BY <1>3, <2>1, <2>2, <2>3 DEF Process, channelVars, Grows, Exists
<1>4. ASSUME NEW c \in Collectors, Commit(c) PROVE Grows
  BY <1>4, CommitStored DEF Commit, channelVars, Grows
<1>5. CASE Post \/ Expire \/ Recover \/ \E i \in Ids : EditPost(i)
  BY <1>1, <1>5 DEF Post, Expire, Recover, EditPost, rowVars, channelVars
<1>6. ASSUME NEW c \in Collectors, Load(c) \/ Fetch(c) \/ UpdateRow(c) \/ FindNoRow(c)
               \/ InsertRow(c) \/ InsertFails(c) \/ Acquire(c) \/ Release(c)
      PROVE  Grows
  BY <1>1, <1>6
  DEF Load, Fetch, UpdateRow, FindNoRow, InsertRow, InsertFails, Acquire, Release, rowVars, channelVars
<1>7. ASSUME NEW c \in Collectors, ReadKnown(c) \/ Compare(c) \/ Publish(c)
               \/ FloodWait(c) \/ CompareFails(c) \/ Crash(c)
      PROVE  Grows
  BY <1>1, <1>7 DEF ReadKnown, Compare, Publish, FloodWait, CompareFails, Crash, rowVars, channelVars
<1>8. CASE UNCHANGED vars
  BY <1>1, <1>8 DEF vars
<1>. QED BY <1>2, <1>3, <1>4, <1>5, <1>6, <1>7, <1>8 DEF Next, Work

LEMMA CoveredGrows == ASSUME Grows, NEW n, Covered(n) PROVE \A i \in Ids : i <= n => Exists(stored'[i]) \/ i \in gone'
  BY DEF Grows, Covered

\* A run that another collector's step leaves alone
LEMMA OtherFetch ==
  ASSUME Grows, NEW d \in Collectors, FetchInv(d), run'[d] = run[d],
         \A i \in Ids : inserting[i] = d => inserting'[i] = d
  PROVE  FetchInv(d)'
<1>1. StartInv(d)'
  BY CoveredGrows DEF FetchInv, StartInv, Covered, Exists
<1>2. GapInv(d)'
  BY DEF FetchInv, GapInv, Grows
<1>3. SeenInv(d)'
  BY DEF FetchInv, SeenInv, Mine, Exists
<1>. QED BY <1>1, <1>2, <1>3 DEF FetchInv

\* A run of which only the work changes
LEMMA SameFetch ==
  ASSUME Grows, NEW c \in Collectors, FetchInv(c), SeenInv(c)',
         run'[c].cursor = run[c].cursor, run'[c].seen = run[c].seen
  PROVE  FetchInv(c)'
<1>1. StartInv(c)'
  BY CoveredGrows DEF FetchInv, StartInv, Covered, Exists
<1>2. GapInv(c)'
  BY DEF FetchInv, GapInv, Grows
<1>. QED BY <1>1, <1>2 DEF FetchInv

\* A run that has seen nothing
LEMMA NoFetch ==
  ASSUME NEW c \in Collectors, \A i \in Ids : run'[c].seen[i] = 0, StartInv(c)'
  PROVE  FetchInv(c)'
  BY DEF FetchInv, GapInv, SeenInv

\* Within the limit a request returns all messages after the cursor.
LEMMA FetchedAll ==
  ASSUME MaxPosts <= BatchLimit, Typed, NEW c \in Collectors
  PROVE  Fetched(c) = {i \in run[c].cursor + 1 .. last : i \notin gone}
<1> DEFINE after == {i \in run[c].cursor + 1 .. last : i \notin gone}
<1>0. run[c].cursor \in Nat /\ last \in Nat /\ last <= MaxPosts /\ MaxPosts \in Nat /\ BatchLimit \in Nat
  BY BoundAssumption DEF Typed, Runs
<1>1. ASSUME NEW i \in after PROVE Cardinality({j \in after : j > i}) < BatchLimit
  <2> DEFINE later == {j \in after : j > i}
  <2>1. IsFiniteSet(1 .. MaxPosts) /\ Cardinality(1 .. MaxPosts) = MaxPosts
    BY <1>0, FS_Interval
  <2>2. i \in 1 .. MaxPosts /\ later \subseteq (1 .. MaxPosts) \ {i}
    BY <1>0
  <2>3. /\ IsFiniteSet((1 .. MaxPosts) \ {i})
        /\ Cardinality((1 .. MaxPosts) \ {i}) = MaxPosts - 1
    BY <2>1, <2>2, FS_RemoveElement
  <2>4. Cardinality(later) <= MaxPosts - 1 /\ Cardinality(later) \in Nat
    BY <2>2, <2>3, FS_Subset, FS_CardinalityType
  <2>. QED BY <1>0, <2>4
<1>. QED BY <1>1 DEF Fetched

\* A step of c that leaves its inserts or adds to them keeps the others' collections.
LEMMA OthersFetch ==
  ASSUME Grows, CursorInv, Typed, NEW c \in Collectors, NEW r \in Runs, run' = [run EXCEPT ![c] = r],
         \A i \in Ids, d \in Collectors \ {c} : inserting[i] = d => inserting'[i] = d,
         FetchInv(c)'
  PROVE  \A d \in Collectors : FetchInv(d)'
<1> SUFFICES ASSUME NEW d \in Collectors, d # c PROVE FetchInv(d)'
  OBVIOUS
<1>1. run'[d] = run[d] /\ FetchInv(d)
  BY DEF Typed, CursorInv
<1>. QED BY <1>1, OtherFetch

LEMMA CoveredKept == ASSUME Grows, Covered(cursor), cursor' = cursor PROVE Covered(cursor)'
  BY CoveredGrows DEF Covered, Exists

LEMMA OutsideFetch ==
  ASSUME RowInv, CursorInv, Grows, NEW c \in Collectors,
         \/ Acquire(c) \/ Release(c) \/ Load(c) \/ FloodWait(c)
         \/ InsertFails(c) \/ CompareFails(c) \/ Crash(c)
  PROVE  CursorInv'
<1>0. Typed
  BY RowInvTyped
<1>1. PICK s \in Steps, n \in {0, cursor} :
        run' = [run EXCEPT ![c] = IdleRun] \/ run' = [run EXCEPT ![c] = [IdleRun EXCEPT !.step = s]]
        \/ (n = cursor /\ run' = [run EXCEPT ![c] = [IdleRun EXCEPT !.step = s, !.cursor = n]])
  <2>1. "load" \in Steps /\ "release" \in Steps /\ "fetch" \in Steps
    BY DEF Steps
  <2>2. CASE Acquire(c)
    BY <2>1, <2>2 DEF Acquire
  <2>3. CASE Release(c) \/ Crash(c)
    BY <2>1, <2>3 DEF Release, Crash
  <2>4. CASE FloodWait(c) \/ InsertFails(c) \/ CompareFails(c)
    BY <2>1, <2>4 DEF FloodWait, InsertFails, CompareFails
  <2>5. CASE Load(c)
    BY <2>1, <2>5 DEF Load
  <2>. QED BY <2>2, <2>3, <2>4, <2>5
<1>2. PICK r \in Runs : /\ run' = [run EXCEPT ![c] = r]
                        /\ \A i \in Ids : r.seen[i] = 0
                        /\ r.cursor = 0 \/ r.cursor = cursor
  <2>1. s \in Steps /\ 0 \in 0 .. MaxPosts /\ cursor \in 0 .. MaxPosts
    BY <1>0, BoundAssumption DEF Typed
  <2>2. CASE run' = [run EXCEPT ![c] = IdleRun]
    <3>1. IdleRun \in Runs /\ IdleRun.cursor = 0 /\ \A i \in Ids : IdleRun.seen[i] = 0
      BY IdleTyped DEF IdleRun
    <3>. QED BY <2>2, <3>1
  <2>3. CASE run' = [run EXCEPT ![c] = [IdleRun EXCEPT !.step = s]]
    <3> DEFINE r == [IdleRun EXCEPT !.step = s]
    <3>1. r \in Runs
      BY <2>1, FreshRun DEF EmptyRuns
    <3>2. r.cursor = 0 /\ \A i \in Ids : r.seen[i] = 0
      BY DEF IdleRun
    <3>. QED BY <2>3, <3>1, <3>2
  <2>4. CASE run' = [run EXCEPT ![c] = [IdleRun EXCEPT !.step = s, !.cursor = cursor]]
    <3> DEFINE r == [IdleRun EXCEPT !.step = s, !.cursor = cursor]
    <3>1. r \in Runs
      BY <2>1, FreshRun DEF EmptyRuns
    <3>2. r.cursor = cursor /\ \A i \in Ids : r.seen[i] = 0
      BY DEF IdleRun
    <3>. QED BY <2>4, <3>1, <3>2
  <2>. QED BY <1>1, <2>2, <2>3, <2>4
<1>3. cursor' = cursor
  BY DEF Acquire, Release, Load, FloodWait, InsertFails, CompareFails, Crash, rowVars
<1>4. Covered(cursor)'
  BY <1>3, CoveredKept DEF CursorInv
<1>5. run'[c] = r
  BY <1>0, <1>2 DEF Typed
<1>6. StartInv(c)'
  <2>1. CASE r.cursor = 0
    BY <1>5, <2>1, BoundAssumption DEF StartInv, Covered, Ids
  <2>2. CASE r.cursor = cursor
    BY <1>3, <1>4, <1>5, <2>2 DEF StartInv, Covered
  <2>. QED BY <1>2, <2>1, <2>2
<1>7. FetchInv(c)'
  BY <1>2, <1>5, <1>6, NoFetch
<1>8. \A i \in Ids, d \in Collectors \ {c} : inserting[i] = d => inserting'[i] = d
  <2>1. inserting' = inserting \/ inserting' = Unlocked(c)
    BY DEF Acquire, Release, Load, FloodWait, InsertFails, CompareFails, Crash
  <2>. QED BY <1>0, <2>1, UnlockedOthers
<1>9. \A d \in Collectors : FetchInv(d)'
  BY <1>0, <1>2, <1>7, <1>8, OthersFetch
<1>. QED BY <1>4, <1>9 DEF CursorInv

LEMMA FetchFetch ==
  ASSUME MaxPosts <= BatchLimit, RowInv, CursorInv, Grows, NEW c \in Collectors, Fetch(c)
  PROVE  CursorInv'
<1> DEFINE seen == [i \in Ids |-> IF i \in Fetched(c) THEN version[i] ELSE 0]
           r == [run[c] EXCEPT !.step = "upsert", !.todo = Fetched(c), !.seen = seen]
<1>0. Typed /\ FetchInv(c) /\ run[c] \in Runs /\ MaxPosts \in Nat
  BY RowInvTyped, BoundAssumption DEF CursorInv, Typed
<1>1. /\ run' = [run EXCEPT ![c] = r]
      /\ UNCHANGED <<last, gone, stored, cursor, inserting>>
  BY DEF Fetch, channelVars, rowVars
<1>2. /\ run'[c] = r /\ r.step = "upsert" /\ r.todo = Fetched(c) /\ r.seen = seen
      /\ r.cursor = run[c].cursor
  BY <1>0, <1>1 DEF Typed, Runs
<1>3. Fetched(c) = {i \in run[c].cursor + 1 .. last : i \notin gone}
  BY <1>0, FetchedAll
<1>4. run[c].cursor \in Nat /\ last \in Nat /\ last <= MaxPosts
  BY <1>0 DEF Typed, Runs
<1>5. r \in Runs
  <2>1. Fetched(c) \subseteq Ids
    BY <1>0, <1>3, <1>4 DEF Ids
  <2>2. seen \in [Ids -> Nat]
    BY <1>0, <2>1 DEF Typed
  <2>. QED BY <1>0, <2>1, <2>2 DEF Runs, Steps
<1>6. StartInv(c)'
  BY <1>0, <1>1, <1>2 DEF FetchInv, StartInv, Covered
<1>7. \A i \in Ids : seen[i] > 0 <=> i \in Fetched(c)
  BY <1>0 DEF Typed
<1>8. GapInv(c)'
  <2> SUFFICES ASSUME NEW i \in Ids, NEW j \in Ids, seen[j] > 0, i <= j
               PROVE  i <= run[c].cursor \/ seen[i] > 0 \/ i \in gone
    BY <1>1, <1>2 DEF GapInv
  <2>1. j \in Fetched(c)
    BY <1>7
  <2>2. j \in run[c].cursor + 1 .. last
    BY <1>3, <2>1
  <2>3. i \in run[c].cursor + 1 .. last \/ i <= run[c].cursor
    BY <1>0, <1>4, <2>2 DEF Ids
  <2>. QED BY <1>3, <1>7, <2>3
<1>9. SeenInv(c)'
  BY <1>2, <1>7 DEF SeenInv
<1>10. \A d \in Collectors : FetchInv(d)'
  <2>1. FetchInv(c)'
    BY <1>6, <1>8, <1>9 DEF FetchInv
  <2>. QED BY <1>0, <1>1, <1>5, <2>1, OthersFetch
<1>11. Covered(cursor)'
  BY <1>1, CoveredKept DEF CursorInv
<1>. QED BY <1>10, <1>11 DEF CursorInv

\* A step of c that keeps what it has seen
LEMMA InsideFetch ==
  ASSUME RowInv, CursorInv, Grows, NEW c \in Collectors, cursor' = cursor,
         \A d \in Collectors \ {c} : run'[d] = run[d],
         run'[c].cursor = run[c].cursor, run'[c].seen = run[c].seen,
         \A i \in Ids, d \in Collectors \ {c} : inserting[i] = d => inserting'[i] = d,
         \A i \in Ids :
           /\ Mine(c, i) => Mine(c, i)'
           /\ i \in run[c].todo /\ run[c].step \in {"upsert", "insert"} =>
                Mine(c, i)' \/ (run'[c].step \in {"upsert", "insert"} /\ i \in run'[c].todo)
  PROVE  CursorInv'
<1>1. Covered(cursor)'
  BY CoveredKept DEF CursorInv
<1>2. FetchInv(c)
  BY DEF CursorInv
<1>3. SeenInv(c)'
  BY <1>2 DEF FetchInv, SeenInv
<1>4. FetchInv(c)'
  BY <1>2, <1>3, SameFetch
<1>5. ASSUME NEW d \in Collectors, d # c PROVE FetchInv(d)'
  <2>1. FetchInv(d) /\ run'[d] = run[d] /\ \A i \in Ids : inserting[i] = d => inserting'[i] = d
    BY <1>5 DEF CursorInv
  <2>. QED BY <2>1, OtherFetch
<1>. QED BY <1>1, <1>4, <1>5 DEF CursorInv

LEMMA WorkFetch ==
  ASSUME RowInv, CursorInv, Grows, NEW c \in Collectors,
         \/ UpdateRow(c) \/ FindNoRow(c) \/ InsertRow(c) \/ ReadKnown(c) \/ Compare(c) \/ Publish(c)
  PROVE  CursorInv'
<1>0. Typed /\ run[c] \in Runs /\ run \in [Collectors -> Runs] /\ OwnInv(c)
  BY RowInvTyped DEF RowInv, Typed
<1>1. CASE UpdateRow(c)
  <2>1. PICK i \in Ids :
          /\ First(i, run[c].todo) /\ Exists(stored[i])
          /\ run' = [run EXCEPT ![c].todo = @ \ {i},
               ![c].loaded[i] = stored[i],
               ![c].new[i] = Snapshot(run[c].seen[i]),
               ![c].publish = IF stored[i] # Snapshot(run[c].seen[i]) THEN @ \union {i} ELSE @]
    BY <1>1 DEF UpdateRow
  <2>2. /\ run'[c].cursor = run[c].cursor /\ run'[c].seen = run[c].seen
        /\ run'[c].step = run[c].step /\ run'[c].todo = run[c].todo \ {i}
        /\ run'[c].loaded = [run[c].loaded EXCEPT ![i] = stored[i]]
        /\ \A d \in Collectors \ {c} : run'[d] = run[d]
    BY <1>0, <2>1 DEF Runs
  <2>3. inserting' = inserting /\ cursor' = cursor
    BY <1>1 DEF UpdateRow, rowVars
  <2>4. \A j \in Ids : (Mine(c, j) => Mine(c, j)') /\ (j = i => Mine(c, j)')
    BY <1>0, <2>1, <2>2, <2>3 DEF Mine, Exists, Runs
  <2>. QED BY <2>2, <2>3, <2>4, InsideFetch
<1>2. CASE FindNoRow(c)
  <2>1. run' = [run EXCEPT ![c].step = "insert"] /\ inserting' = inserting /\ cursor' = cursor
    BY <1>2 DEF FindNoRow, rowVars
  <2>2. /\ run'[c].cursor = run[c].cursor /\ run'[c].seen = run[c].seen
        /\ run'[c].step = "insert" /\ run'[c].todo = run[c].todo
        /\ run'[c].loaded = run[c].loaded
        /\ \A d \in Collectors \ {c} : run'[d] = run[d]
    BY <1>0, <2>1 DEF Runs
  <2>3. \A j \in Ids : Mine(c, j) => Mine(c, j)'
    BY <2>1, <2>2 DEF Mine, Exists
  <2>. QED BY <2>1, <2>2, <2>3, InsideFetch
<1>3. CASE InsertRow(c)
  <2>1. PICK i \in Ids :
          /\ inserting[i] = NoCollector /\ inserting' = [inserting EXCEPT ![i] = c]
          /\ run' = [run EXCEPT ![c].step = "upsert", ![c].todo = @ \ {i},
               ![c].new[i] = Snapshot(run[c].seen[i]),
               ![c].publish = @ \union {i}]
    BY <1>3 DEF InsertRow
  <2>2. /\ run'[c].cursor = run[c].cursor /\ run'[c].seen = run[c].seen
        /\ run'[c].step = "upsert" /\ run'[c].todo = run[c].todo \ {i}
        /\ run'[c].loaded = run[c].loaded
        /\ \A d \in Collectors \ {c} : run'[d] = run[d]
    BY <1>0, <2>1 DEF Runs
  <2>3. cursor' = cursor
    BY <1>3 DEF InsertRow, rowVars
  <2>4. /\ \A j \in Ids : (Mine(c, j) => Mine(c, j)') /\ (j = i => Mine(c, j)')
        /\ \A j \in Ids, d \in Collectors \ {c} : inserting[j] = d => inserting'[j] = d
    BY <1>0, <2>1, <2>2, NameAssumption DEF Mine, Exists, Typed
  <2>. QED BY <2>2, <2>3, <2>4, InsideFetch
<1>4. CASE ReadKnown(c)
  <2> DEFINE loaded == [i \in Ids |-> IF Exists(run[c].loaded[i]) THEN run[c].loaded[i] ELSE stored[i]]
  <2>1. /\ run'[c].cursor = run[c].cursor /\ run'[c].seen = run[c].seen
        /\ run'[c].loaded = loaded
        /\ \A d \in Collectors \ {c} : run'[d] = run[d]
    BY <1>0, <1>4 DEF ReadKnown, Runs
  <2>2. inserting' = inserting /\ cursor' = cursor /\ run[c].todo = {}
    BY <1>4 DEF ReadKnown, rowVars
  <2>3. \A j \in Ids : Mine(c, j) => Mine(c, j)'
    BY <2>1, <2>2 DEF Mine, Exists
  <2>. QED BY <2>1, <2>2, <2>3, InsideFetch
<1>5. CASE Compare(c)
  <2>1. /\ run'[c].cursor = run[c].cursor /\ run'[c].seen = run[c].seen
        /\ run'[c].loaded = run[c].loaded /\ run[c].step = "compare"
        /\ \A d \in Collectors \ {c} : run'[d] = run[d]
    BY <1>0, <1>5 DEF Compare, Runs
  <2>2. inserting' = inserting /\ cursor' = cursor
    BY <1>5 DEF Compare, rowVars
  <2>3. \A j \in Ids : Mine(c, j) => Mine(c, j)'
    BY <2>1, <2>2 DEF Mine, Exists
  <2>. QED BY <2>1, <2>2, <2>3, InsideFetch
<1>6. CASE Publish(c)
  <2>1. /\ run'[c].cursor = run[c].cursor /\ run'[c].seen = run[c].seen
        /\ run'[c].loaded = run[c].loaded /\ run[c].step = "publish"
        /\ \A d \in Collectors \ {c} : run'[d] = run[d]
    BY <1>0, <1>6 DEF Publish, Runs
  <2>2. inserting' = inserting /\ cursor' = cursor
    BY <1>6 DEF Publish, rowVars
  <2>3. \A j \in Ids : Mine(c, j) => Mine(c, j)'
    BY <2>1, <2>2 DEF Mine, Exists
  <2>. QED BY <2>1, <2>2, <2>3, InsideFetch
<1>. QED BY <1>1, <1>2, <1>3, <1>4, <1>5, <1>6

LEMMA CommitFetch ==
  ASSUME RowInv, CursorInv, Grows, NEW c \in Collectors, Commit(c)
  PROVE  CursorInv'
<1> DEFINE r == [IdleRun EXCEPT !.step = "publish", !.publish = run[c].publish]
<1>0. Typed /\ run[c] \in Runs /\ FetchInv(c) /\ run[c].step = "commit"
  BY RowInvTyped DEF CursorInv, Typed, Commit
<1>1. /\ run' = [run EXCEPT ![c] = r] /\ inserting' = Unlocked(c) /\ gone' = gone
  BY DEF Commit, channelVars
<1>2. PICK max \in 0 .. MaxPosts :
        IsMaxSeen(c, max) /\ cursor' = IF max # run[c].cursor THEN max ELSE cursor
  BY DEF Commit
<1>3. Covered(cursor)'
  <2>1. CASE max = run[c].cursor
    BY <1>2, <2>1, CoveredKept DEF CursorInv
  <2>2. CASE max # run[c].cursor
    <3>1. max \in Ids /\ run[c].seen[max] > 0 /\ cursor' = max
      BY <1>2, <2>2 DEF IsMaxSeen, Handled
    <3>2. ASSUME NEW i \in Ids, i <= max PROVE Exists(stored'[i]) \/ i \in gone
      <4>1. i <= run[c].cursor \/ run[c].seen[i] > 0 \/ i \in gone
        BY <1>0, <3>1, <3>2 DEF FetchInv, GapInv
      <4>2. CASE i <= run[c].cursor
        BY <1>0, <1>1, <4>2 DEF FetchInv, StartInv, Covered, Grows
      <4>3. CASE run[c].seen[i] > 0
        <5>1. Mine(c, i)
          BY <1>0, <4>3 DEF FetchInv, SeenInv
        <5>. QED BY <5>1, CommitStored
      <4>. QED BY <4>1, <4>2, <4>3
    <3>. QED BY <1>1, <3>1, <3>2 DEF Covered, Exists
  <2>. QED BY <2>1, <2>2
<1>4. run'[c].cursor = 0 /\ \A i \in Ids : run'[c].seen[i] = 0
  BY <1>0, <1>1 DEF Typed, IdleRun
<1>5. FetchInv(c)'
  <2>1. StartInv(c)'
    BY <1>4, BoundAssumption DEF StartInv, Covered, Ids
  <2>. QED BY <1>4, <2>1, NoFetch
<1>6. ASSUME NEW d \in Collectors, d # c PROVE FetchInv(d)'
  <2>1. run'[d] = run[d] /\ FetchInv(d)
    BY <1>0, <1>1, <1>6 DEF Typed, CursorInv
  <2>2. \A i \in Ids : inserting[i] = d => inserting'[i] = d
    BY <1>0, <1>1, <1>6, UnlockedOthers
  <2>. QED BY <2>1, <2>2, OtherFetch
<1>. QED BY <1>3, <1>5, <1>6 DEF CursorInv

LEMMA WorldFetch ==
  ASSUME CursorInv, Grows, UNCHANGED <<cursor, run, inserting>>
  PROVE  CursorInv'
<1>1. Covered(cursor)'
  BY CoveredKept DEF CursorInv
<1>2. ASSUME NEW d \in Collectors PROVE FetchInv(d)'
  <2>1. run'[d] = run[d] /\ FetchInv(d) /\ \A i \in Ids : inserting[i] = d => inserting'[i] = d
    BY DEF CursorInv
  <2>. QED BY <2>1, OtherFetch
<1>. QED BY <1>1, <1>2 DEF CursorInv

LEMMA NextFetch ==
  ASSUME MaxPosts <= BatchLimit
  PROVE  RowInv /\ CursorInv /\ [Next]_vars => CursorInv'
<1> SUFFICES ASSUME RowInv, CursorInv, [Next]_vars PROVE CursorInv'
  OBVIOUS
<1>1. Grows
  BY RowsGrow
<1>2. CASE Post \/ Expire \/ Recover \/ (\E i \in Ids : EditPost(i) \/ DeletePost(i) \/ Process(i))
           \/ UNCHANGED vars
  <2>1. UNCHANGED <<cursor, run, inserting>>
    BY <1>2 DEF Post, Expire, Recover, EditPost, DeletePost, Process, vars, rowVars
  <2>. QED BY <1>1, <2>1, WorldFetch
<1>3. ASSUME NEW c \in Collectors, Acquire(c) \/ Work(c) \/ FloodWait(c) \/ CompareFails(c) \/ Crash(c)
      PROVE  CursorInv'
  BY <1>1, <1>3, OutsideFetch, FetchFetch, WorkFetch, CommitFetch DEF Work
<1>. QED BY <1>2, <1>3 DEF Next

\* If no request meets the batch limit, the cursor passes no message that is neither stored
\* nor deleted, however collections overlap, fail, roll back and are lost.
THEOREM CursorSkipsNothing ==
  ASSUME MaxPosts <= BatchLimit
  PROVE  Spec => []NothingSkipped
<1>1. Init => CursorInv
  <2> SUFFICES ASSUME Init PROVE CursorInv
    OBVIOUS
  <2>1. Covered(0)
    BY BoundAssumption DEF Covered, Ids
  <2>2. ASSUME NEW c \in Collectors PROVE FetchInv(c)
    <3>1. run[c].cursor = 0 /\ \A i \in Ids : run[c].seen[i] = 0
      BY DEF Init, IdleRun
    <3>. QED BY <2>1, <3>1 DEF FetchInv, StartInv, GapInv, SeenInv
  <2>. QED BY <2>1, <2>2 DEF CursorInv, Init
<1>2. RowInv /\ CursorInv => NothingSkipped
  BY BoundAssumption DEF RowInv, TypeOK, CursorInv, Covered, NothingSkipped, Ids
<1>3. RowInv /\ CursorInv /\ [Next]_vars => CursorInv'
  BY NextFetch
<1>. QED BY <1>1, <1>2, <1>3, InitRow, NextRow, PTL DEF Spec

=============================================================================
