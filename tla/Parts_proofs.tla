---------------------------- MODULE Parts_proofs ----------------------------
(***************************************************************************)
(* Proofs about the parts that stand alone: the model file, the partitions *)
(* of the messages, the classification of a message, the dates in it, the  *)
(* requests that keep the subscriptions, what a subscription matches and   *)
(* when it is quiet, the groups of similar orders, and fuzzy keywords.     *)
(***************************************************************************)
EXTENDS ModelArtifact, MessagePartitions, Classification, Deadlines, Subscriptions,
        SubscriptionMatching, QuietHours, SemanticDedup, KeywordMatching,
        SequenceTheorems, WellFoundedInduction, TLAPS

-----------------------------------------------------------------------------
(* ModelArtifact: what a worker holds is what it was started with, and what *)
(* it used it still holds.                                                  *)

ArtifactTypeOK ==
  /\ file \in Versions \union {None} /\ writing \in Versions \union {None}
  /\ config \in Versions \union {None}
  /\ expected \in [Workers -> Versions \union {None}]
  /\ artifact \in [Workers -> Versions \union {None}]
  /\ used \in [Workers -> Versions \union {None}]

AInv ==
  /\ ArtifactTypeOK
  /\ \A w \in Workers : /\ expected[w] # None => artifact[w] \in {None, expected[w]}
                        /\ used[w] # None => used[w] = artifact[w]

LEMMA ArtifactInductive == ArtifactSpec => []AInv
<1>. USE DEF AInv, ArtifactTypeOK
<1>1. ArtifactInit => AInv
  BY DEF ArtifactInit
<1>2. AInv /\ [ArtifactNext]_artifactVars => AInv'
  <2> SUFFICES ASSUME AInv, [ArtifactNext]_artifactVars PROVE AInv'
    OBVIOUS
  <2>1. ASSUME NEW v \in Versions, StartSave(v) PROVE AInv'
    BY <2>1 DEF StartSave
  <2>2. CASE EndSave
    BY <2>2 DEF EndSave
  <2>3. ASSUME NEW v \in Versions \union {None}, Configure(v) PROVE AInv'
    BY <2>3 DEF Configure
  <2>4. ASSUME NEW w \in Workers, Restart(w) PROVE AInv'
    BY <2>4 DEF Restart
  <2>5. ASSUME NEW w \in Workers, Predict(w) PROVE AInv'
    BY <2>5 DEF Predict, Loaded
  <2>6. CASE UNCHANGED artifactVars
    BY <2>6 DEF artifactVars
  <2>. QED BY <2>1, <2>2, <2>3, <2>4, <2>5, <2>6 DEF ArtifactNext
<1>. QED BY <1>1, <1>2, PTL DEF ArtifactSpec

\* A deployment that pins a version classifies with no other model, whenever files are
\* written and workers started.
THEOREM PinIsKept == ArtifactSpec => []PinnedVersionOnly
<1>1. AInv => PinnedVersionOnly
  BY DEF AInv, ArtifactTypeOK, PinnedVersionOnly
<1>. QED BY <1>1, ArtifactInductive, PTL

-----------------------------------------------------------------------------
(* MessagePartitions: as long as the last creation of partitions reaches as far as *)
(* the current month, every month from it on has a partition, and only earlier    *)
(* ones may have left messages in the default partition.                          *)

LEMMA LaterMonth ==
  ASSUME NEW a \in Int, NEW b \in Int, a <= b
  PROVE  MonthOf(a) \in Int /\ MonthOf(b) \in Int /\ MonthOf(a) <= MonthOf(b)
<1>1. DaysPerMonth \in Nat /\ DaysPerMonth > 0
  BY PartitionAssumption
<1>2. \A n \in Nat : n > 0 => a \div n \in Int /\ b \div n \in Int /\ a \div n <= b \div n
  BY SMT
<1>. QED BY <1>1, <1>2 DEF MonthOf

\* add_months counts months, across any number of years and backwards too.
THEOREM AddMonthsAdds ==
  ASSUME NEW m \in Int, NEW k \in Int PROVE Index(AddMonths(Date(m), k)) = m + k
  BY DEF Index, AddMonths, Date

LEMMA WindowIs ==
  ASSUME NEW m \in Int PROVE Window(m) = m - MonthsBehind .. m + MonthsAhead
<1>1. MonthsBehind \in Nat /\ MonthsAhead \in Nat
  BY PartitionAssumption
<1>2. \A k \in -MonthsBehind .. MonthsAhead : Index(AddMonths(Date(m), k)) = m + k
  BY <1>1, AddMonthsAdds
<1>3. \A x \in m - MonthsBehind .. m + MonthsAhead : x - m \in -MonthsBehind .. MonthsAhead
  BY <1>1
<1>. QED BY <1>1, <1>2, <1>3 DEF Window

Ahead ==
  ~lapsed => /\ MonthOf(today) <= ensured + MonthsAhead
             /\ MonthOf(today) .. ensured + MonthsAhead \subseteq partitions
             /\ \A d \in inDefault : MonthOf(d) < MonthOf(today)

LEMMA PartitionsInductive == PartSpec => [](PartTypeOK /\ Ahead)
<1>0. /\ MonthsBehind \in Nat /\ MonthsAhead \in Nat /\ RetentionDays \in Nat
      /\ FirstDay \in Nat /\ LastDay \in Nat /\ FirstDay <= LastDay
  BY PartitionAssumption
<1>1. ASSUME PartInit PROVE PartTypeOK /\ Ahead
  <2>1. MonthOf(FirstDay) \in Int
    BY <1>0, LaterMonth
  <2>2. Window(MonthOf(FirstDay)) = MonthOf(FirstDay) - MonthsBehind .. MonthOf(FirstDay) + MonthsAhead
    BY <2>1, WindowIs
  <2>3. /\ today = FirstDay /\ ensured = MonthOf(FirstDay) /\ partitions = Window(ensured)
        /\ lapsed \in BOOLEAN /\ stored = {} /\ inDefault = {}
    BY <1>1 DEF PartInit
  <2>4. PartTypeOK
    BY <1>0, <2>1, <2>2, <2>3 DEF PartTypeOK
  <2>5. MonthOf(today) <= ensured + MonthsAhead
    BY <1>0, <2>1, <2>3
  <2>6. MonthOf(today) .. ensured + MonthsAhead \subseteq partitions
    BY <1>0, <2>1, <2>2, <2>3
  <2>. QED BY <2>3, <2>4, <2>5, <2>6 DEF Ahead
<1>2. PartTypeOK /\ Ahead /\ [PartNext]_partVars => (PartTypeOK /\ Ahead)'
  <2> SUFFICES ASSUME PartTypeOK, Ahead, [PartNext]_partVars PROVE (PartTypeOK /\ Ahead)'
    OBVIOUS
  <2>. DEFINE m == MonthOf(today)
              old == MonthOf(today - RetentionDays)
  <2>0. /\ today \in Int /\ ensured \in Int /\ m \in Int /\ old \in Int /\ old <= m
        /\ \A d \in 0 .. LastDay : d \in Int /\ MonthOf(d) \in Int
    BY <1>0, LaterMonth DEF PartTypeOK
  <2>1. CASE NextDay
    <3>1. m <= MonthOf(today + 1) /\ MonthOf(today + 1) \in Int
      BY <2>0, LaterMonth
    <3>2. PartTypeOK'
      BY <1>0, <2>0, <2>1 DEF NextDay, PartTypeOK
    <3>3. ASSUME ~lapsed'
          PROVE  ~lapsed /\ MonthOf(today') <= ensured + MonthsAhead
      <4>1. ~lapsed /\ ~(MonthOf(today') > ensured + MonthsAhead)
        BY <2>1, <3>3, Zenon DEF NextDay
      <4>2. MonthOf(today') \in Int
        BY <2>1, <3>1 DEF NextDay
      <4>. QED BY <1>0, <2>0, <4>1, <4>2
    <3>4. ASSUME ~lapsed', NEW k \in MonthOf(today') .. ensured + MonthsAhead
          PROVE  k \in partitions
      <4>1. k \in m .. ensured + MonthsAhead
        BY <1>0, <2>0, <2>1, <3>1, <3>4 DEF NextDay
      <4>. QED BY <3>3, <3>4, <4>1 DEF Ahead
    <3>5. ASSUME ~lapsed', NEW d \in inDefault
          PROVE  MonthOf(d) < MonthOf(today')
      <4>1. MonthOf(d) < m /\ MonthOf(d) \in Int
        BY <2>0, <3>3, <3>5 DEF Ahead, PartTypeOK
      <4>. QED BY <2>0, <2>1, <3>1, <4>1 DEF NextDay
    <3>. QED BY <2>1, <3>2, <3>3, <3>4, <3>5 DEF NextDay, Ahead, MonthOf
  <2>2. CASE EnsurePartitions
    <3>1. Window(m) = m - MonthsBehind .. m + MonthsAhead
      BY <2>0, WindowIs
    <3>2. PartTypeOK'
      <4>1. Window(m) \subseteq Int
        BY <1>0, <2>0, <3>1
      <4>. QED BY <2>0, <2>2, <4>1 DEF EnsurePartitions, PartTypeOK, MonthOf
    <3>3. m <= m + MonthsAhead /\ m .. m + MonthsAhead \subseteq Window(m)
      BY <1>0, <2>0, <3>1
    <3>. QED BY <2>2, <3>2, <3>3 DEF EnsurePartitions, Ahead, MonthOf
  <2>3. CASE DropExpired
    <3>1. PartTypeOK'
      BY <2>3 DEF DropExpired, PartTypeOK, MonthOf
    <3>2. ASSUME NEW k \in m .. ensured + MonthsAhead PROVE k \notin Expired
      BY <1>0, <2>0, <3>2 DEF Expired
    <3>. QED BY <2>3, <3>1, <3>2 DEF DropExpired, Ahead, MonthOf
  <2>4. ASSUME NEW day \in 0 .. LastDay, Store(day) PROVE (PartTypeOK /\ Ahead)'
    <3>1. day <= today /\ day \in Int
      BY <1>0, <2>0, <2>4 DEF Store
    <3>2. MonthOf(day) <= m /\ MonthOf(day) \in Int
      BY <2>0, <3>1, LaterMonth
    <3>3. PartTypeOK'
      BY <2>4 DEF Store, PartTypeOK, MonthOf
    <3>4. ASSUME ~lapsed, MonthOf(day) \notin partitions PROVE MonthOf(day) < m
      <4>1. MonthOf(day) # m
        BY <1>0, <2>0, <3>4 DEF Ahead
      <4>. QED BY <2>0, <3>2, <4>1
    <3>. QED BY <2>4, <3>3, <3>4 DEF Store, Ahead, MonthOf
  <2>5. CASE UNCHANGED partVars
    BY <2>5 DEF partVars, PartTypeOK, Ahead, MonthOf
  <2>. QED BY <2>1, <2>2, <2>3, <2>4, <2>5 DEF PartNext
<1>. QED BY <1>1, <1>2, PTL DEF PartSpec

\* With a creation of partitions in every stretch of the months ahead, today's messages
\* have their partition and no later creation can fail on the current month.
THEOREM TodayIsCovered == PartSpec => []CurrentMonthHasPartition
<1>1. PartTypeOK /\ Ahead => CurrentMonthHasPartition
  BY LaterMonth, PartitionAssumption
     DEF PartTypeOK, Ahead, CurrentMonthHasPartition, Conflicts
<1>. QED BY <1>1, PartitionsInductive, PTL

\* Nothing younger than the retention is removed with its partition.
THEOREM RetentionIsKept == PartSpec => OnlyExpiredDisappear
<1>. DEFINE Kept == \A d \in (stored \union inDefault) \ (stored' \union inDefault') :
                      d < today - RetentionDays
<1>1. PartTypeOK /\ [PartNext]_partVars => [Kept]_partVars
  <2> SUFFICES ASSUME PartTypeOK, PartNext PROVE Kept
    OBVIOUS
  <2>. USE PartitionAssumption DEF PartTypeOK
  <2>1. ASSUME DropExpired, NEW d \in stored, MonthOf(d) < MonthOf(today - RetentionDays)
        PROVE  d < today - RetentionDays
    BY <2>1, LaterMonth
  <2>2. CASE DropExpired
    BY <2>1, <2>2 DEF DropExpired, Expired
  <2>3. CASE ~DropExpired
    BY <2>3 DEF PartNext, NextDay, EnsurePartitions, Store
  <2>. QED BY <2>2, <2>3
<1>. QED BY <1>1, PartitionsInductive, PTL DEF PartSpec, OnlyExpiredDisappear

-----------------------------------------------------------------------------
(* Classification *)

\* No message becomes an order that the rules do not call one, whatever a model says.
THEOREM RulesDecide == ClassSpec => []OnlyRulesMakeOrders
<1>1. OnlyRulesMakeOrders
  BY DEF OnlyRulesMakeOrders, CreatesOrder, Decision, RulesResult
<1>. QED BY <1>1, PTL

\* The signals that count for an order, in parts of the whole
SignalsOK ==
  /\ {Need, Deadline, Contact, Niche, Ad, Spam} \subseteq {0, 140}
  /\ Task \in {0, 70, 140} /\ Budget \in {0, 70, 140} /\ PClient \in Int

\* Every state has such signals.
LEMMA SignalsBounded == SignalsOK
<1>1. {Need, Deadline, Contact, Niche, Ad, Spam} \subseteq {0, 140}
  BY DEF Need, Deadline, Contact, Niche, Ad, Spam, Signal, Full
<1>2. 0 \div 2 = 0 /\ 140 \div 2 = 70
  OBVIOUS
<1>3. Task \in {0, 70, 140} /\ Budget \in {0, 70, 140}
  BY <1>2 DEF Task, Budget, Signal, Full
<1>4. PClient \in Int
  BY <1>1 DEF PClient, Full
<1>. QED BY <1>1, <1>3, <1>4 DEF SignalsOK

\* Neither the strength of a request nor a score gets less when its parts get no less.
WholeParts(x) == x \div 140

LEMMA PartsGrow ==
  ASSUME NEW a \in Int, NEW b \in Int, a <= b
  PROVE  WholeParts(a) <= WholeParts(b) /\ {WholeParts(a), WholeParts(b)} \subseteq Int
BY DEF WholeParts

\* calculate_relevance_score rounds and clamps.
Rounded(raw) == ((IF raw < 0 THEN 0 ELSE IF raw > 14000 THEN 14000 ELSE raw) + 70) \div 140

\* What it returns grows with what it is given.
LEMMA RoundedGrows ==
  ASSUME NEW a \in Int, NEW b \in Int, a <= b
  PROVE  Rounded(a) <= Rounded(b) /\ Rounded(a) \in Int
<1>. DEFINE Clamped(raw) == (IF raw < 0 THEN 0 ELSE IF raw > 14000 THEN 14000 ELSE raw) + 70
<1>1. Clamped(a) \in Int /\ Clamped(b) \in Int /\ Clamped(a) <= Clamped(b)
  OBVIOUS
<1>2. Rounded(a) = WholeParts(Clamped(a)) /\ Rounded(b) = WholeParts(Clamped(b))
  BY DEF Rounded, WholeParts
<1>. HIDE DEF Clamped
<1>. QED BY <1>1, <1>2, PartsGrow

\* A score is such a number.
LEMMA ScoreIsRounded == Score = Rounded(Raw)
<1>1. 140 \div 2 = 70
  OBVIOUS
<1>. QED BY <1>1 DEF Score, Rounded, Full

\* What makes an order: the rules call it one, for sure unless the model does, and it
\* scores enough.
LEMMA OrderIsMade ==
  CreatesOrder <=> /\ Rules.label = "order" /\ Score >= 60 /\ age <= 7
                   /\ IF ml = None
                      THEN Rules.confidence >= 60 /\ ~ManualReview(Rules.confidence)
                      ELSE ml = "order"
BY DEF CreatesOrder, Decision, RulesResult

\* The rules call it an order when nothing else is said of the text and it is strong.
NothingSaid == markers = {} /\ facts = {}
SomethingElse ==
  \/ Seen("spam") \/ Seen("vacancy") \/ Seen("resume") \/ Seen("partnership")
  \/ Ad = Full \/ (Seen("discussion") /\ Need < Full)

\* Nothing but these makes the rules say so.
LEMMA OrderByRules ==
  /\ Rules.label = "order" <=> ~NothingSaid /\ ~SomethingElse /\ Strength >= 42
  /\ Rules.label = "order" => Rules = OrderVerdict
<1>1. Strength \in Int
  <2>1. 32 * Need + 24 * Task + 16 * Niche + 12 * Budget + 8 * Contact + 8 * Deadline
          \in Int
    BY SignalsBounded DEF SignalsOK
  <2>. QED BY <2>1 DEF Strength, Full
<1>2. CASE NothingSaid \/ SomethingElse
  <2>1. Rules.label # "order"
    BY <1>2 DEF Rules, Verdict, NothingSaid, SomethingElse
  <2>. QED BY <1>2, <2>1
<1>3. CASE ~NothingSaid /\ ~SomethingElse /\ Strength >= 42
  <2>1. Rules = OrderVerdict
    BY <1>1, <1>3 DEF Rules, NothingSaid, SomethingElse
  <2>. QED BY <1>3, <2>1 DEF OrderVerdict, Verdict
<1>4. CASE ~NothingSaid /\ ~SomethingElse /\ ~(Strength >= 42)
  <2>1. Strength < 42
    BY <1>1, <1>4
  <2>2. Rules.label # "order"
    BY <1>4, <2>1 DEF Rules, Verdict, NothingSaid, SomethingElse
  <2>. QED BY <1>4, <2>2
<1>. QED BY <1>2, <1>3, <1>4

\* It is sure of strong ones only.
LEMMA SureOfStrong ==
  ASSUME Strength \in Int
  PROVE  OrderVerdict.confidence >= 60 /\ ~ManualReview(OrderVerdict.confidence)
           <=> Strength >= 58
BY DEF OrderVerdict, Verdict, ManualReview

\* All of it in terms of what is found
Criteria ==
  /\ ~NothingSaid /\ ~SomethingElse /\ Score >= 60 /\ age <= 7
  /\ IF ml = None THEN Strength >= 58 ELSE ml = "order" /\ Strength >= 42

\* An order is made by these and nothing else.
LEMMA OrderCriteria == CreatesOrder <=> Criteria
<1>1. Strength \in Int
  <2>1. 32 * Need + 24 * Task + 16 * Niche + 12 * Budget + 8 * Contact + 8 * Deadline
          \in Int
    BY SignalsBounded DEF SignalsOK
  <2>. QED BY <2>1 DEF Strength, Full
<1>2. Rules.label = "order" =>
        (Rules.confidence >= 60 /\ ~ManualReview(Rules.confidence) <=> Strength >= 58)
  BY <1>1, OrderByRules, SureOfStrong
<1>3. Strength >= 58 => Strength >= 42
  BY <1>1
<1>. QED BY <1>2, <1>3, OrderIsMade, OrderByRules DEF Criteria

\* What the strength of a request is made of
Demand == 32 * Need + 24 * Task + 16 * Niche + 12 * Budget + 8 * Contact + 8 * Deadline

\* Whoever finds more, or waits less, has no less of any part.
LEMMA Weigh ==
  ASSUME SignalsOK, SignalsOK', Freshness \in Int, Freshness' \in Int,
         Need <= Need', Task <= Task', Niche <= Niche', Budget <= Budget',
         Contact <= Contact', Deadline <= Deadline', Freshness <= Freshness',
         Ad' = Ad, Spam' = Spam, PClient' = PClient
  PROVE  /\ Strength <= Strength' /\ Score <= Score'
         /\ {Strength, Strength', Score, Score'} \subseteq Int
<1>0. /\ {Need, Task, Niche, Budget, Contact, Deadline, Ad, Spam, PClient} \subseteq Int
      /\ {Need', Task', Niche', Budget', Contact', Deadline'} \subseteq Int
  BY DEF SignalsOK
<1>1. Demand \in Int /\ Demand' \in Int /\ Demand <= Demand'
  BY <1>0 DEF Demand
<1>2. Strength = WholeParts(Demand) /\ Strength' = WholeParts(Demand')
  BY DEF Demand, Strength, Full, WholeParts
<1>3. Raw \in Int /\ Raw' \in Int /\ Raw <= Raw'
  BY <1>0 DEF Raw
<1>4. Score = Rounded(Raw) /\ Score' = Rounded(Raw')
  <2>1. (Score = Rounded(Raw))'
    BY ScoreIsRounded, PTL
  <2>. QED BY <2>1, ScoreIsRounded DEF Rounded
<1>5. Strength <= Strength' /\ Strength \in Int /\ Strength' \in Int
  BY <1>1, <1>2, PartsGrow
<1>6. Score <= Score' /\ Score \in Int /\ Score' \in Int
  BY <1>3, <1>4, RoundedGrows
<1>. QED BY <1>5, <1>6

\* A fact more
LEMMA FactsWeigh ==
  ASSUME UNCHANGED <<markers, age>>, NEW f \in Facts, Find(f), f # "negative", age \in Nat
  PROVE  /\ Strength <= Strength' /\ Score <= Score' /\ Need <= Need' /\ Ad' = Ad
         /\ {Strength, Strength', Score, Score'} \subseteq Int
<1>1. SignalsOK /\ SignalsOK'
  BY SignalsBounded, PTL
<1>2. facts' = facts \union {f} /\ \A m : Seen(m)' <=> Seen(m)
  BY DEF Find, Seen
<1>3. Ad' = Ad /\ Spam' = Spam
  BY <1>2 DEF Ad, Spam, Found, Seen
<1>4. PClient' = PClient
  BY <1>2, <1>3 DEF PClient
<1>5. Freshness' = Freshness /\ Freshness \in Int
  <2>1. 140 \div 7 = 20
    OBVIOUS
  <2>. QED BY <2>1 DEF Freshness, Full
<1>6. /\ Need <= Need' /\ Niche <= Niche' /\ Contact <= Contact' /\ Deadline <= Deadline'
  BY <1>2 DEF Need, Niche, Contact, Deadline, Signal, Full, Found, Seen
<1>7. Task <= Task'
  <2>1. 140 \div 2 = 70 /\ 0 \div 2 = 0
    OBVIOUS
  <2>. QED BY <1>2, <2>1 DEF Task, Signal, Full, Found, Seen
<1>8. Budget <= Budget'
  <2>1. 140 \div 2 = 70 /\ 0 \div 2 = 0
    OBVIOUS
  <2>. QED BY <1>2, <2>1 DEF Budget, Signal, Full, Found, Find
<1>. QED BY <1>1, <1>3, <1>4, <1>5, <1>6, <1>7, <1>8, Weigh

\* To be older by a day
LEMMA DaysWeigh ==
  ASSUME GrowOld, age \in Nat
  PROVE  Score' <= Score /\ {Score, Score'} \subseteq Int /\ Strength' = Strength
<1>1. UNCHANGED <<markers, facts, ml>> /\ age' = age + 1
  BY DEF GrowOld
<1>2. UNCHANGED <<Need, Task, Budget, Deadline, Contact, Niche, Ad, Spam, PClient,
                  Strength>>
  BY <1>1 DEF Need, Task, Budget, Deadline, Contact, Niche, Ad, Spam, PClient, Strength,
              Found, Seen
<1>3. Freshness' <= Freshness /\ Freshness \in Int /\ Freshness' \in Int
  <2>1. 140 \div 7 = 20
    OBVIOUS
  <2>. QED BY <1>1, <2>1 DEF Freshness, Full
<1>4. Raw' <= Raw /\ Raw \in Int /\ Raw' \in Int
  BY <1>2, <1>3, SignalsBounded DEF SignalsOK, Raw
<1>5. (Score = Rounded(Raw))'
  BY ScoreIsRounded, PTL
<1>6. Score = Rounded(Raw) /\ Score' = Rounded(Raw')
  BY <1>5, ScoreIsRounded DEF Rounded
<1>. QED BY <1>2, <1>4, <1>6, RoundedGrows

\* Whatever a text says and whatever a model is sure of: an order that is an order stays
\* one when a deadline, a contact, a budget or a project is found in it, and no message
\* becomes an order by getting older.
THEOREM FactsKeepTheOrder == ClassSpec => MoreFactsKeepTheOrder
<1>. DEFINE Kept ==
       /\ facts \subseteq facts' /\ facts' # facts /\ "negative" \notin facts'
             /\ CreatesOrder => CreatesOrder'
       /\ age' > age /\ CreatesOrder' => CreatesOrder
<1>. DEFINE IInv == age \in Nat
<1>1. ClassInit => IInv
  BY DEF ClassInit
<1>2. IInv /\ [ClassNext]_classVars => IInv'
  BY DEF ClassNext, See, Find, GrowOld, ConsultModel, classVars
<1>3. (CreatesOrder <=> Criteria) /\ (CreatesOrder <=> Criteria)'
  BY OrderCriteria, PTL
<1>4. IInv /\ [ClassNext]_classVars => [Kept]_classVars
  <2> SUFFICES ASSUME IInv, [ClassNext]_classVars PROVE Kept
    OBVIOUS
  <2>1. ASSUME facts \subseteq facts', facts' # facts, "negative" \notin facts',
               CreatesOrder
        PROVE  CreatesOrder'
    <3>1. PICK f \in Facts : Find(f)
      BY <2>1 DEF ClassNext, See, GrowOld, ConsultModel, classVars
    <3>2. UNCHANGED <<markers, age, ml>> /\ f # "negative" /\ facts' # {}
      BY <2>1, <3>1 DEF Find
    <3>3. Strength <= Strength' /\ Score <= Score' /\ Need <= Need' /\ Ad' = Ad
          /\ {Strength, Strength', Score, Score'} \subseteq Int
      BY <3>1, <3>2, FactsWeigh
    <3>4. ~SomethingElse'
      <4>1. ~SomethingElse /\ \A m : Seen(m)' <=> Seen(m)
        BY <1>3, <2>1, <3>2 DEF Criteria, Seen
      <4>2. Need' < Full => Need < Full
        <5>1. SignalsOK /\ SignalsOK'
          BY SignalsBounded, PTL
        <5>. QED BY <3>3, <5>1 DEF SignalsOK, Full
      <4>. QED BY <3>3, <4>1, <4>2 DEF SomethingElse, Full
    <3>. QED BY <1>3, <2>1, <3>2, <3>3, <3>4 DEF Criteria, NothingSaid
  <2>2. ASSUME age' > age, CreatesOrder' PROVE CreatesOrder
    <3>1. GrowOld
      BY <2>2 DEF ClassNext, See, Find, ConsultModel, classVars
    <3>2. UNCHANGED <<markers, facts, ml>> /\ age' = age + 1
      BY <3>1 DEF GrowOld
    <3>3. Score' <= Score /\ {Score, Score'} \subseteq Int /\ Strength' = Strength
      BY <3>1, DaysWeigh
    <3>4. (SomethingElse' <=> SomethingElse) /\ (NothingSaid' <=> NothingSaid)
      BY <3>2 DEF SomethingElse, NothingSaid, Seen, Ad, Need, Found
    <3>. QED BY <1>3, <2>2, <3>2, <3>3, <3>4 DEF Criteria
  <2>. QED BY <2>1, <2>2
<1>. QED BY <1>1, <1>2, <1>4, PTL DEF ClassSpec, MoreFactsKeepTheOrder

-----------------------------------------------------------------------------
(* Deadlines *)

\* No two years in a row are leap years.
LEMMA LeapAlone == ASSUME NEW y \in Nat PROVE ~(Leap(y) /\ Leap(y + 1))
<1>1. ~(y % 4 = 0 /\ (y + 1) % 4 = 0)
  OBVIOUS
<1>. QED BY <1>1 DEF Leap

LEMMA NoDate ==
  ASSUME NEW y, NEW m, NEW d PROVE DateOf(y, m, d) = Error <=> ~Exists(y, m, d)
<1>1. <<y, m, d>> # <<>>
  OBVIOUS
<1>. QED BY <1>1 DEF DateOf, Error

\* A day and a month are looked for in years that do not change which days exist, but
\* for the 29th of February.
LEMMA DayExists ==
  ASSUME NEW y \in Nat, NEW m \in Nat, NEW d \in Nat
  PROVE  ~Exists(y, m, d) <=> \/ m \notin 1 .. 12 \/ d = 0 \/ d > DaysIn(2000, m)
                              \/ m = 2 /\ d = 29 /\ ~Leap(y)
<1>1. Leap(2000)
  BY DEF Leap
<1>. QED BY <1>1 DEF Exists, DaysIn

\* Whatever the day, exactly the days no calendar has and the 29th of February of other
\* years end the processing of a message.
THEOREM ImpossibleDatesFail ==
  ASSUME NEW y \in Nat, NEW m \in Nat, NEW d \in Nat, current = <<y, m, d>>, Exists(y, m, d),
         saidDay \in Nat, saidMonth \in Nat, saidYear \in Nat
  PROVE  FailsOnImpossibleDates
<1>. DEFINE Never == saidMonth \notin 1 .. 12 \/ saidDay = 0 \/ saidDay > DaysIn(2000, saidMonth)
            Here == DateOf(y, saidMonth, saidDay)
            There == DateOf(y + 1, saidMonth, saidDay)
<1>0. current[1] = y /\ current[2] = m /\ current[3] = d
  OBVIOUS
<1>1. CASE saidYear # Unsaid
  <2>1. ByDate(current, saidDay, saidMonth, saidYear) = DateOf(saidYear, saidMonth, saidDay)
    BY <1>1 DEF ByDate
  <2>. QED BY <1>1, <2>1, NoDate, DayExists DEF FailsOnImpossibleDates
<1>2. CASE saidYear = Unsaid
  <2>1. ByDate(current, saidDay, saidMonth, saidYear)
          = IF Here # Error /\ Before(Here, current) THEN There ELSE Here
    BY <1>0, <1>2 DEF ByDate
  <2>2. Here # Error => (Before(Here, current) <=> saidMonth < m \/ (saidMonth = m /\ saidDay < d))
    <3>1. Here # Error => Here = <<y, saidMonth, saidDay>>
      BY DEF DateOf, Error
    <3>. QED BY <1>0, <3>1 DEF Before
  <2>3. saidMonth = 2 /\ saidDay = 29 /\ Leap(y) =>
          ((saidMonth < m \/ (saidMonth = m /\ saidDay < d)) <=> m > 2)
    BY DEF Exists, DaysIn
  <2>4. Here = Error <=> Never \/ (saidMonth = 2 /\ saidDay = 29 /\ ~Leap(y))
    BY NoDate, DayExists
  <2>5. There = Error <=> Never \/ (saidMonth = 2 /\ saidDay = 29 /\ ~Leap(y + 1))
    BY NoDate, DayExists
  <2>6. ByDate(current, saidDay, saidMonth, saidYear) = Error <=>
          Never \/ (saidMonth = 2 /\ saidDay = 29 /\ (~Leap(y) \/ m > 2))
    BY <2>1, <2>2, <2>3, <2>4, <2>5, LeapAlone
  <2>. QED BY <1>0, <1>2, <2>6 DEF FailsOnImpossibleDates
<1>. QED BY <1>1, <1>2

DeadlineInv ==
  /\ \E y, m, d \in Nat : current = <<y, m, d>> /\ Exists(y, m, d)
  /\ saidDay \in Nat /\ saidMonth \in Nat /\ saidYear \in Nat

LEMMA DeadlineInductive == DeadlineSpec => []DeadlineInv
<1>1. DeadlineInit => DeadlineInv
  <2> SUFFICES ASSUME DeadlineInit PROVE DeadlineInv
    OBVIOUS
  <2>1. FirstYear \in Nat /\ LastYear \in Nat /\ saidDay \in Nat /\ saidMonth \in Nat
    BY DeadlineAssumption DEF DeadlineInit
  <2>2. saidYear \in Nat
    BY <2>1 DEF DeadlineInit, Unsaid
  <2>3. current = <<FirstYear, 1, 1>> /\ Exists(FirstYear, 1, 1)
    BY DEF DeadlineInit, Exists, DaysIn
  <2>. QED BY <2>1, <2>2, <2>3 DEF DeadlineInv
<1>2. DeadlineInv /\ [Tomorrow]_deadlineVars => DeadlineInv'
  <2> SUFFICES ASSUME DeadlineInv, Tomorrow PROVE DeadlineInv'
    BY DEF DeadlineInv, deadlineVars
  <2>1. PICK y, m, d \in Nat : current = <<y, m, d>> /\ Exists(y, m, d)
    BY DEF DeadlineInv
  <2>2. \/ d < DaysIn(y, m) /\ current' = <<y, m, d + 1>>
        \/ m < 12 /\ current' = <<y, m + 1, 1>>
        \/ current' = <<y + 1, 1, 1>>
    BY <2>1 DEF Tomorrow, NextDate
  <2>3. \E a, b, c \in Nat : current' = <<a, b, c>> /\ Exists(a, b, c)
    <3>1. CASE d < DaysIn(y, m) /\ current' = <<y, m, d + 1>>
      <4>1. Exists(y, m, d + 1)
        BY <2>1, <3>1 DEF Exists, DaysIn
      <4>. QED BY <3>1, <4>1
    <3>2. CASE m < 12 /\ current' = <<y, m + 1, 1>>
      <4>1. Exists(y, m + 1, 1)
        BY <2>1, <3>2 DEF Exists, DaysIn
      <4>. QED BY <3>2, <4>1
    <3>3. CASE current' = <<y + 1, 1, 1>>
      <4>1. Exists(y + 1, 1, 1)
        BY DEF Exists, DaysIn
      <4>. QED BY <3>3, <4>1
    <3>. QED BY <2>2, <3>1, <3>2, <3>3
  <2>. QED BY <2>3 DEF Tomorrow, DeadlineInv
<1>. QED BY <1>1, <1>2, PTL DEF DeadlineSpec

\* A deadline without a year is not over, by whatever day it is.
LEMMA NeverOver ==
  ASSUME NEW y \in Nat, NEW m \in Nat, NEW d \in Nat, current = <<y, m, d>>, Exists(y, m, d),
         saidDay \in Nat, saidMonth \in Nat
  PROVE  DeadlineIsAhead
<1>0. current[1] = y /\ current[2] = m /\ current[3] = d
  OBVIOUS
<1>1. ASSUME NEW t, t = ByDate(current, saidDay, saidMonth, Unsaid), t # Error
      PROVE  ~Before(t, current)
  <2>. DEFINE Here == DateOf(y, saidMonth, saidDay)
  <2>1. t = IF Here # Error /\ Before(Here, current)
            THEN DateOf(y + 1, saidMonth, saidDay) ELSE Here
    BY <1>0, <1>1 DEF ByDate
  <2>2. CASE Here # Error /\ Before(Here, current)
    <3>1. t = <<y + 1, saidMonth, saidDay>>
      BY <1>1, <2>1, <2>2 DEF DateOf
    <3>. QED BY <1>0, <3>1 DEF Before
  <2>. QED BY <1>1, <2>1, <2>2
<1>2. ASSUME saidMonth \in 1 .. 12, Before(ByMonth(current, saidMonth), current)
      PROVE  saidMonth = m
  <2>. DEFINE year == IF saidMonth >= m THEN y ELSE y + 1
  <2>1. Exists(year, saidMonth, 1)
    BY <1>2 DEF Exists, DaysIn
  <2>2. ByMonth(current, saidMonth) = <<year, saidMonth, 1>>
    BY <1>0, <2>1 DEF ByMonth, DateOf
  <2>. QED BY <1>0, <1>2, <2>2 DEF Before
<1>. QED BY <1>0, <1>1, <1>2 DEF DeadlineIsAhead

\* Whatever the day and whatever a text says: a deadline that is read is ahead, except where
\* the text names the year or, as a month, the current one; and reading fails exactly for
\* the dates that there are not.
THEOREM DeadlinesAlwaysRight == DeadlineSpec => []DeadlinesAreRight
<1>1. DeadlineInv => DeadlinesAreRight
  BY NeverOver, ImpossibleDatesFail DEF DeadlineInv, DeadlinesAreRight
<1>. QED BY <1>1, DeadlineInductive, PTL

-----------------------------------------------------------------------------
(* Subscriptions: the types, what rows can be reached, and what a request may change. *)

HasType(p) == /\ DOMAIN p \subseteq Columns
              /\ \A c \in DOMAIN p : p[c] \in ColumnValues(c)

\* A payload has both quiet hours or none, and both are set or both are empty.
WholePayload(p) ==
  /\ "start" \in DOMAIN p <=> "end" \in DOMAIN p
  /\ "start" \in DOMAIN p => (p["start"] = None <=> p["end"] = None)

\* What a running request has loaded, and that its key may change the row it is about:
\* as no row is created over a request, its owner stays or is gone.
RequestsOK ==
  /\ request = [r \in Requests |-> request[r]]
  /\ \A r \in Requests :
       \/ request[r] = Idle
       \/ /\ request[r].step \in {"update", "delete"}
          /\ request[r].id \in Subs
          /\ request[r].role \in Roles
          /\ request[r].loaded \in Filters
          /\ HasType(request[r].payload) /\ WholePayload(request[r].payload)
          /\ owner[request[r].id] \in {None, request[r].role} \/ request[r].role = "admin"

SubInv == SubTypeOK /\ RequestsOK /\ QuietHoursWhole

LEMMA DefaultOK == Default \in Filters
  BY SubscriptionAssumption DEF Default, Filters

LEMMA IdleOK ==
  /\ Idle.step = "idle" /\ Idle.role \in Roles /\ Idle.loaded \in Filters
  BY DefaultOK DEF Idle, Roles, RoleLevels

LEMMA NormalisedOK ==
  ASSUME NEW p \in Payloads, Acceptable(p)
  PROVE  HasType(Normalised(p)) /\ WholePayload(Normalised(p))
<1>1. DOMAIN p \subseteq Columns /\ \A c \in DOMAIN p : p[c] \in ColumnValues(c)
  BY PayloadAssumption
<1>2. None \in ColumnValues("start") /\ None \in ColumnValues("end")
  BY DEF ColumnValues
<1>. DEFINE both == IF DOMAIN p \intersect {"start", "end"} = {} THEN {} ELSE {"start", "end"}
<1>3. Normalised(p) = [c \in DOMAIN p \union both |-> Given(p, c)]
  BY DEF Normalised
<1>4. \A c \in DOMAIN p \union both : Given(p, c) \in ColumnValues(c) /\ c \in Columns
  BY <1>1, <1>2 DEF Given, Columns
<1>5. HasType(Normalised(p))
  BY <1>3, <1>4 DEF HasType
<1>6. Given(p, "start") = None <=> Given(p, "end") = None
  BY DEF Acceptable
<1>. QED BY <1>3, <1>5, <1>6 DEF WholePayload

LEMMA AppliedOK ==
  ASSUME NEW p, HasType(p), NEW row \in Filters
  PROVE  Applied(p, row) \in Filters
<1>1. \A c \in Columns : row[c] \in ColumnValues(c)
  BY DEF Columns, ColumnValues, Filters
<1>2. \A c \in Columns : Applied(p, row)[c] \in ColumnValues(c)
  BY <1>1 DEF Applied, HasType
<1>. QED BY <1>2 DEF Applied, Columns, ColumnValues, Filters

LEMMA FlushedOK ==
  ASSUME NEW q, HasType(q.payload), NEW row \in Filters
  PROVE  Flushed(row, q) \in Filters
<1>1. \A c \in Columns : row[c] \in ColumnValues(c)
  BY DEF Columns, ColumnValues, Filters
<1>2. \A c \in Columns : Flushed(row, q)[c] \in ColumnValues(c)
  BY <1>1 DEF Flushed, HasType
<1>. QED BY <1>2 DEF Flushed, Columns, ColumnValues, Filters

LEMMA SubscriptionsInductive == SubSpec => []SubInv
<1>1. SubInit => SubInv
  BY SubscriptionAssumption, DefaultOK, IdleOK
     DEF SubInit, SubInv, SubTypeOK, RequestsOK, QuietHoursWhole, Default
<1>2. SubInv /\ [SubNext]_subVars => SubInv'
  <2> SUFFICES ASSUME SubInv, [SubNext]_subVars PROVE SubInv'
    OBVIOUS
  <2>0. MaxRequests \in Nat
    BY SubscriptionAssumption
  <2>1. ASSUME NEW role \in Roles, NEW s \in Subs, CreateSubscription(role, s) PROVE SubInv'
    <3>1. PICK attach \in {"self", "tg_chat_id", "user_id"}, user \in Users :
            OwnerOf(role, attach, user) /\ owner' = [owner EXCEPT ![s] = user]
            /\ users' = users \union {user}
      BY <2>1 DEF CreateSubscription
    <3>2. PICK p \in Payloads :
            Acceptable(p) /\ CheckHolds(Applied(p, Default))
            /\ filters' = [filters EXCEPT ![s] = Applied(p, Default)]
      BY <2>1 DEF CreateSubscription
    <3>3. HasType(p)
      BY PayloadAssumption DEF HasType
    <3>4. Applied(p, Default) \in Filters
      BY <3>3, AppliedOK, DefaultOK
    <3>5. SubTypeOK'
      <4>1. requests' \in 0 .. MaxRequests
        BY <2>0, <2>1 DEF SubInv, SubTypeOK, CreateSubscription, Authorised
      <4>2. owner' \in [Subs -> users' \union {None}] /\ users' \subseteq Users
        BY <3>1 DEF SubInv, SubTypeOK
      <4>. QED BY <2>1, <3>2, <3>4, <4>1, <4>2 DEF SubInv, SubTypeOK, CreateSubscription
    <3>6. RequestsOK'
      BY <2>1, <3>1 DEF SubInv, SubTypeOK, RequestsOK, CreateSubscription
    <3>7. (Applied(p, Default).start = None) = (Applied(p, Default).end = None)
      BY <3>2 DEF Acceptable, Applied, Given, Columns, Default
    <3>8. QuietHoursWhole'
      BY <2>1, <3>2, <3>7 DEF SubInv, SubTypeOK, QuietHoursWhole, CreateSubscription
    <3>. QED BY <3>5, <3>6, <3>8 DEF SubInv
  <2>2. ASSUME NEW r \in Requests, NEW role \in Roles, NEW s \in Subs, LoadForUpdate(r, role, s)
        PROVE  SubInv'
    <3>1. PICK p \in Payloads :
            Acceptable(p) /\ request' = [request EXCEPT ![r] =
              [step |-> "update", role |-> role, id |-> s, loaded |-> filters[s],
               payload |-> Normalised(p)]]
      BY <2>2 DEF LoadForUpdate
    <3>2. HasType(Normalised(p)) /\ WholePayload(Normalised(p))
      BY <3>1, NormalisedOK
    <3>3. owner[s] = role \/ role = "admin"
      BY <2>2 DEF LoadForUpdate, MayAccess, RoleLevels, Roles
    <3>4. RequestsOK'
      BY <2>2, <3>1, <3>2, <3>3 DEF LoadForUpdate, SubInv, SubTypeOK, RequestsOK
    <3>5. requests' \in 0 .. MaxRequests
      BY <2>0, <2>2 DEF SubInv, SubTypeOK, LoadForUpdate, Authorised
    <3>6. SubTypeOK'
      BY <2>2, <3>1, <3>5 DEF LoadForUpdate, SubInv, SubTypeOK, RequestsOK
    <3>. QED BY <2>2, <3>4, <3>6 DEF LoadForUpdate, SubInv, QuietHoursWhole
  <2>3. ASSUME NEW r \in Requests, NEW role \in Roles, NEW s \in Subs, LoadForDelete(r, role, s)
        PROVE  SubInv'
    <3>. DEFINE q == [step |-> "delete", role |-> role, id |-> s, loaded |-> filters[s],
                      payload |-> <<>>]
    <3>1. request' = [request EXCEPT ![r] = q]
      BY <2>3 DEF LoadForDelete
    <3>2. HasType(q.payload) /\ WholePayload(q.payload)
      <4>1. \A c : c \notin DOMAIN << >>
        OBVIOUS
      <4>2. q.payload = << >>
        OBVIOUS
      <4>. HIDE DEF q
      <4>. QED BY <4>1, <4>2 DEF HasType, WholePayload
    <3>3. owner[s] = role \/ role = "admin"
      BY <2>3 DEF LoadForDelete, MayAccess, RoleLevels, Roles
    <3>4. RequestsOK'
      BY <2>3, <3>1, <3>2, <3>3 DEF LoadForDelete, SubInv, SubTypeOK, RequestsOK
    <3>5. requests' \in 0 .. MaxRequests
      BY <2>0, <2>3 DEF SubInv, SubTypeOK, LoadForDelete, Authorised
    <3>6. SubTypeOK'
      BY <2>3, <3>1, <3>5 DEF LoadForDelete, SubInv, SubTypeOK, RequestsOK
    <3>. QED BY <2>3, <3>4, <3>6 DEF LoadForDelete, SubInv, QuietHoursWhole
  <2>4. ASSUME NEW r \in Requests, CommitUpdate(r) PROVE SubInv'
    <3>. DEFINE q == request[r]
                row == Flushed(filters[q.id], q)
    <3>1. /\ q.id \in Subs /\ q.loaded \in Filters
          /\ HasType(q.payload) /\ WholePayload(q.payload)
      BY <2>4, IdleOK DEF SubInv, RequestsOK, CommitUpdate
    <3>2. row \in Filters
      BY <3>1, FlushedOK DEF SubInv, SubTypeOK
    <3>3. RequestsOK'
      BY <2>4 DEF CommitUpdate, SubInv, RequestsOK
    <3>4. CASE UNCHANGED <<filters, overlapped>>
      BY <2>4, <3>3, <3>4, IdleOK
         DEF CommitUpdate, SubInv, SubTypeOK, QuietHoursWhole, RequestsOK
    <3>5. CASE /\ CheckHolds(row) /\ filters' = [filters EXCEPT ![q.id] = row]
               /\ overlapped' = IF filters[q.id] = q.loaded THEN overlapped
                                ELSE overlapped \union {q.id}
      <4>1. SubTypeOK'
        BY <2>4, <3>1, <3>2, <3>5, IdleOK DEF CommitUpdate, SubInv, SubTypeOK, RequestsOK
      <4>3. ASSUME q.id \notin overlapped, filters[q.id] = q.loaded
            PROVE  row.start = None <=> row.end = None
        <5>1. q.loaded.start = None <=> q.loaded.end = None
          BY <3>1, <4>3 DEF SubInv, QuietHoursWhole
        <5>2. /\ row.start = IF "start" \in DOMAIN q.payload THEN q.payload["start"]
                             ELSE q.loaded.start
              /\ row.end = IF "end" \in DOMAIN q.payload THEN q.payload["end"]
                           ELSE q.loaded.end
          BY <4>3 DEF Flushed, Columns
        <5>. QED BY <3>1, <5>1, <5>2 DEF WholePayload
      <4>4. QuietHoursWhole'
        BY <3>1, <3>5, <4>3 DEF SubInv, SubTypeOK, QuietHoursWhole
      <4>. QED BY <3>3, <4>1, <4>4 DEF SubInv
    <3>. QED BY <2>4, <3>4, <3>5 DEF CommitUpdate
  <2>5. ASSUME NEW r \in Requests, CommitDelete(r) PROVE SubInv'
    <3>1. request[r].id \in Subs
      BY <2>5, IdleOK DEF SubInv, RequestsOK, CommitDelete
    <3>2. SubTypeOK'
      BY <2>5, <3>1, IdleOK, DefaultOK DEF CommitDelete, SubInv, SubTypeOK, RequestsOK
    <3>3. RequestsOK'
      BY <2>5, <3>1 DEF CommitDelete, SubInv, SubTypeOK, RequestsOK
    <3>4. (Default.start = None) = (Default.end = None)
      BY DEF Default
    <3>5. QuietHoursWhole'
      BY <2>5, <3>1, <3>4, DefaultOK
         DEF CommitDelete, SubInv, SubTypeOK, QuietHoursWhole
    <3>. QED BY <3>2, <3>3, <3>5 DEF SubInv
  <2>6. CASE UNCHANGED subVars
    BY <2>6 DEF subVars, SubInv, SubTypeOK, RequestsOK, QuietHoursWhole
  <2>. QED BY <2>1, <2>2, <2>3, <2>4, <2>5, <2>6 DEF SubNext
<1>. QED BY <1>1, <1>2, PTL DEF SubSpec

\* The types, for any rows, requests and payloads.
THEOREM SubscriptionTypes == SubSpec => []SubTypeOK
<1>1. SubInv => SubTypeOK
  BY DEF SubInv
<1>. QED BY <1>1, SubscriptionsInductive, PTL

\* Unless two requests overlapped, a row has both quiet hours or none.
THEOREM QuietHoursStayWhole == SubSpec => []QuietHoursWhole
<1>1. SubInv => QuietHoursWhole
  BY DEF SubInv
<1>. QED BY <1>1, SubscriptionsInductive, PTL

\* Only the owner's key and the admin's change a subscription, whatever was deleted and
\* created again between the check of the access and the commit.
THEOREM OwnersDecide == SubSpec => ChangedByItsOwner
<1>. DEFINE Kept == \A s \in Subs :
              owner[s] # None /\ (owner'[s] # owner[s] \/ filters'[s] # filters[s]) =>
                \E r \in Requests : /\ request[r].id = s /\ request'[r] = Idle
                                    /\ request[r].role \in {owner[s], "admin"}
<1>1. SubInv /\ [SubNext]_subVars => [Kept]_subVars
  <2> SUFFICES ASSUME SubInv, SubNext PROVE Kept
    OBVIOUS
  <2>. USE DEF SubInv, SubTypeOK
  <2>1. ASSUME NEW role \in Roles, NEW s \in Subs, CreateSubscription(role, s) PROVE Kept
    BY <2>1 DEF CreateSubscription
  <2>2. ASSUME NEW r \in Requests, NEW role \in Roles, NEW s \in Subs,
               LoadForUpdate(r, role, s) \/ LoadForDelete(r, role, s)
        PROVE  Kept
    BY <2>2 DEF LoadForUpdate, LoadForDelete
  <2>3. ASSUME NEW r \in Requests, CommitUpdate(r) \/ CommitDelete(r) PROVE Kept
    <3>1. request[r].step # "idle" /\ request'[r] = Idle
      BY <2>3 DEF CommitUpdate, CommitDelete, RequestsOK
    <3>2. owner[request[r].id] \in {None, request[r].role} \/ request[r].role = "admin"
      BY <3>1, IdleOK DEF RequestsOK
    <3>3. \A s \in Subs : s # request[r].id => owner'[s] = owner[s] /\ filters'[s] = filters[s]
      BY <2>3 DEF CommitUpdate, CommitDelete
    <3>. QED BY <3>1, <3>2, <3>3
  <2>. QED BY <2>1, <2>2, <2>3 DEF SubNext
<1>. QED BY <1>1, SubscriptionsInductive, PTL DEF SubSpec, ChangedByItsOwner

-----------------------------------------------------------------------------
(* SubscriptionMatching: each way to widen a subscription, filter by filter *)

MatchInv ==
  /\ sub = [f \in SubscriptionFields |-> sub[f]] /\ sub.days \in Nat \union {None}
  /\ order = [f \in OfferFields |-> order[f]] /\ order.age \in Nat

\* Each way to widen a subscription, filter by filter
AtLeast(s) ==
  /\ s = [f \in SubscriptionFields |-> s[f]]
  /\ s.enabled \in {sub.enabled, TRUE}
  /\ \A f \in {"relevance", "min", "max", "days"} : s[f] \in {sub[f], None}
  /\ s.types # {} => s.types = sub.types
  /\ s.negative \subseteq sub.negative
  /\ s.positive # {} => sub.positive # {} /\ sub.positive \subseteq s.positive

LEMMA WiderFilters == ASSUME MatchInv, NEW s \in Wider(sub) PROVE AtLeast(s)
<1>. USE DEF MatchInv, SubscriptionFields, AtLeast
<1>1. CASE s = [sub EXCEPT !.enabled = TRUE]
  BY <1>1
<1>2. CASE s = [sub EXCEPT !.types = {}]
  BY <1>2
<1>3. CASE s = [sub EXCEPT !.positive = {}]
  <2>1. /\ s = [g \in SubscriptionFields |-> s[g]] /\ s.positive = {}
        /\ \A g \in SubscriptionFields \ {"positive"} : s[g] = sub[g]
    BY <1>3
  <2>. QED BY <2>1
<1>4. ASSUME NEW f \in {"relevance", "min", "max", "days"}, s = [sub EXCEPT ![f] = None]
      PROVE  AtLeast(s)
  <2>1. /\ s = [g \in SubscriptionFields |-> s[g]]
        /\ \A g \in SubscriptionFields : s[g] = IF g = f THEN None ELSE sub[g]
    BY <1>4
  <2>2. /\ s.enabled = sub.enabled /\ s.types = sub.types
        /\ s.negative = sub.negative /\ s.positive = sub.positive
    BY <1>4, <2>1
  <2>. QED BY <2>1, <2>2
<1>5. ASSUME NEW w \in Words, s = [sub EXCEPT !.negative = @ \ {w}] PROVE AtLeast(s)
  BY <1>5
<1>6. ASSUME NEW w \in Words,
             s = [sub EXCEPT !.positive = IF @ = {} THEN {} ELSE @ \union {w}]
      PROVE  AtLeast(s)
  <2>1. /\ s = [g \in SubscriptionFields |-> s[g]]
        /\ s.positive = IF sub.positive = {} THEN {} ELSE sub.positive \union {w}
        /\ \A g \in SubscriptionFields \ {"positive"} : s[g] = sub[g]
    BY <1>6
  <2>. QED BY <2>1
<1>. QED
  <2>. HIDE DEF AtLeast
  <2>. QED BY <1>1, <1>2, <1>3, <1>4, <1>5, <1>6 DEF Wider

LEMMA WiderMatches ==
  ASSUME MatchInv, NEW s \in Wider(sub), Matches(sub, order)
  PROVE  Matches(s, order)
<1>0. AtLeast(s)
  BY WiderFilters
<1>1. BudgetFits(s, order)
  BY <1>0 DEF AtLeast, Matches, BudgetFits
<1>2. In(s.types, order.type)
  BY <1>0 DEF AtLeast, Matches, In
<1>3. ~KeywordHit(order, s.negative) /\ (s.positive # {} => KeywordHit(order, s.positive))
  BY <1>0 DEF AtLeast, Matches, KeywordHit
<1>4. (s.relevance # None => order.relevance >= s.relevance) /\ (s.days # None => order.age <= s.days)
  BY <1>0 DEF AtLeast, Matches
<1>5. s.enabled
  BY <1>0 DEF AtLeast, Matches
<1>. QED BY <1>1, <1>2, <1>3, <1>4, <1>5 DEF Matches

LEMMA MatchInductive == MatchSpec => []MatchInv
<1>1. MatchInit => MatchInv
  BY MatchAssumption DEF MatchInit, MatchInv, SubscriptionFields, OfferFields
<1>2. MatchInv /\ [MatchNext]_matchVars => MatchInv'
  <2> SUFFICES ASSUME MatchInv, [MatchNext]_matchVars PROVE MatchInv'
    OBVIOUS
  <2>1. CASE Widen
    BY <2>1, WiderFilters DEF Widen, AtLeast, MatchInv
  <2>2. CASE GrowOlder
    BY <2>2 DEF GrowOlder, MatchInv, OfferFields
  <2>3. CASE UNCHANGED matchVars
    BY <2>3 DEF matchVars, MatchInv
  <2>. QED BY <2>1, <2>2, <2>3 DEF MatchNext
<1>. QED BY <1>1, <1>2, PTL DEF MatchSpec

\* Whatever a subscription filters by and an order offers: a wider filter keeps every
\* order it matched, and to wait brings it none.
THEOREM WiderIsMore == MatchSpec => WiderMatchesMore
<1>. DEFINE Monotone ==
       /\ sub' \in Wider(sub) /\ order' = order /\ Matches(sub, order) => Matches(sub', order)
       /\ order'.age > order.age /\ Matches(sub, order') => Matches(sub, order)
<1>1. MatchInv /\ MatchInv' /\ [MatchNext]_matchVars => [Monotone]_matchVars
  <2> SUFFICES ASSUME MatchInv, MatchInv', MatchNext PROVE Monotone
    OBVIOUS
  <2>1. ASSUME sub' \in Wider(sub), Matches(sub, order) PROVE Matches(sub', order)
    BY <2>1, WiderMatches
  <2>2. ASSUME order'.age > order.age, Matches(sub, order') PROVE Matches(sub, order)
    <3>1. order' = [order EXCEPT !.age = @ + 1]
      BY <2>2 DEF MatchNext, Widen, GrowOlder, MatchInv
    <3>2. \A f \in OfferFields \ {"age"} : order'[f] = order[f]
      BY <3>1 DEF MatchInv, OfferFields
    <3>3. BudgetFits(sub, order)
      BY <2>2, <3>2 DEF Matches, BudgetFits, Representative, OfferFields
    <3>4. /\ sub.relevance # None => order.relevance >= sub.relevance
          /\ In(sub.types, order.type) /\ ~KeywordHit(order, sub.negative)
          /\ sub.positive # {} => KeywordHit(order, sub.positive)
      BY <2>2, <3>2 DEF Matches, KeywordHit, OfferFields
    <3>5. sub.days # None => order.age <= sub.days
      BY <2>2 DEF Matches, MatchInv
    <3>. QED BY <2>2, <3>3, <3>4, <3>5 DEF Matches
  <2>. QED BY <2>1, <2>2
<1>. QED BY <1>1, MatchInductive, PTL DEF MatchSpec, WiderMatchesMore

-----------------------------------------------------------------------------
(* QuietHours: an argument by the local clock *)

QInv ==
  /\ zone \in Settings /\ now \in Nat
  /\ \/ asked = -1
     \/ asked \in Nat /\ IsInQuietHours(asked) /\ due = NextQuietHoursEnd(asked)

\* A moment is told apart into days and the time of the day.
LEMMA DayAndTime ==
  ASSUME NEW D \in Int, D > 0, NEW x \in Int
  PROVE  /\ x \div D \in Int /\ x % D \in 0 .. D - 1
         /\ D * (x \div D) \in Int /\ x % D = x - D * (x \div D)
  OBVIOUS

LEMMA TimeOfDay ==
  ASSUME NEW D \in Int, D > 0, NEW k \in Int, NEW r \in 0 .. D - 1
  PROVE  (D * k + r) % D = r
<1>. DEFINE x == D * k + r
            n == k - x \div D
<1>1. x \in Int /\ x \div D \in Int /\ x % D = x - D * (x \div D) /\ x % D \in 0 .. D - 1
  BY DayAndTime
<1>2. n \in Int
  BY <1>1
<1>3. D * n = (x % D) - r
  <2>. DEFINE q == x \div D
              s == x % D
  <2>1. q \in Int /\ s \in Int /\ s = D * k + r - D * q
    BY <1>1
  <2>2. D * (k - q) = D * k - D * q
    <3>. HIDE DEF q
    <3>. QED BY <2>1
  <2>3. D * k \in Int /\ D * q \in Int
    <3>. HIDE DEF q
    <3>. QED BY <2>1
  <2>. HIDE DEF s
  <2>. QED BY <2>1, <2>2, <2>3 DEF s
<1>4. (x % D) - r < D /\ (x % D) - r > -D
  BY <1>1
<1>5. n = 0
  <2>. HIDE DEF n, x
  <2>1. ASSUME n >= 1 PROVE FALSE
    <3>1. D * n >= D
      BY <1>2, <2>1
    <3>. QED BY <1>1, <1>3, <1>4, <3>1
  <2>2. ASSUME n <= -1 PROVE FALSE
    <3>1. D * n <= -D
      BY <1>2, <2>2
    <3>. QED BY <1>1, <1>3, <1>4, <3>1
  <2>. QED BY <1>2, <2>1, <2>2
<1>6. x % D = r
  <2>1. D * n = 0
    BY <1>5
  <2>. HIDE DEF n, x
  <2>. QED BY <1>1, <1>3, <2>1
<1>. QED BY <1>6

QuietTime(t) ==
  IF zone.start <= zone.end THEN zone.start <= t /\ t < zone.end
  ELSE t >= zone.start \/ t < zone.end

\* The midnight before x, and the end of the quiet hours after x
Midnight(x) == (x \div DayLength) * DayLength
NextEnd(x) ==
  IF Midnight(x) + zone.end <= x THEN Midnight(x) + zone.end + DayLength
  ELSE Midnight(x) + zone.end

\* It is quiet until the end, and then open until the next start.
LEMMA QuietStretch ==
  ASSUME zone.start \in 0 .. DayLength - 1, zone.end \in 0 .. DayLength - 1,
         DayLength \in Int, DayLength > 0, NEW x \in Int, QuietTime(x % DayLength)
  PROVE  /\ NextEnd(x) \in Int /\ NextEnd(x) > x
         /\ \A l \in x .. NextEnd(x) - 1 : QuietTime(l % DayLength)
         /\ Open \in 0 .. DayLength - 1
         /\ \A l \in NextEnd(x) .. NextEnd(x) + Open - 1 : ~QuietTime(l % DayLength)
<1>. DEFINE Q == Midnight(x)
            E == NextEnd(x)
<1>0. Q \in Int /\ E \in Int /\ E = IF Q + zone.end <= x THEN Q + zone.end + DayLength
                                    ELSE Q + zone.end
  <2>1. Q \in Int
    BY DayAndTime DEF Midnight
  <2>. HIDE DEF Q
  <2>. QED BY <2>1 DEF NextEnd, Q
<1>9. Q = (x \div DayLength) * DayLength
  BY DEF Midnight
<1>. SUFFICES /\ E > x
              /\ \A l \in x .. E - 1 : QuietTime(l % DayLength)
              /\ Open \in 0 .. DayLength - 1
              /\ \A l \in E .. E + Open - 1 : ~QuietTime(l % DayLength)
  BY <1>0
<1>. HIDE DEF Q, E
<1>. USE <1>0
<1>. DEFINE D == DayLength
            r == x % D
<1>1. r \in 0 .. D - 1 /\ x = Q + r
  <2>1. /\ x \div D \in Int /\ x % D \in 0 .. D - 1 /\ D * (x \div D) \in Int
        /\ x % D = x - D * (x \div D)
    BY DayAndTime
  <2>2. D * (x \div D) = (x \div D) * D
    BY <2>1
  <2>. QED BY <1>9, <2>1, <2>2
\* The time of the day of what is less than a day away
<1>2. ASSUME NEW s \in 0 .. D - 1 PROVE (Q + s) % D = s /\ (Q + D + s) % D = s
  <2>. DEFINE k == x \div D
  <2>1. k \in Int /\ D * k \in Int /\ Q = D * k
    BY <1>9, DayAndTime
  <2>2. (D * k + s) % D = s
    BY <2>1, TimeOfDay
  <2>3. (D * (k + 1) + s) % D = s
    <3>1. k + 1 \in Int
      BY <2>1
    <3>. HIDE DEF k
    <3>. QED BY <3>1, TimeOfDay
  <2>4. D * (k + 1) = D * k + D
    <3>. HIDE DEF k
    <3>. QED BY <2>1
  <2>. HIDE DEF k
  <2>. QED BY <2>1, <2>2, <2>3, <2>4
<1>3. \A l \in Int : /\ l - Q \in 0 .. D - 1 => l % D = l - Q
                     /\ l - Q - D \in 0 .. D - 1 => l % D = l - Q - D
  <2> SUFFICES ASSUME NEW l \in Int
               PROVE  /\ l - Q \in 0 .. D - 1 => l % D = l - Q
                      /\ l - Q - D \in 0 .. D - 1 => l % D = l - Q - D
    OBVIOUS
  <2>1. l = Q + (l - Q) /\ l = Q + D + (l - Q - D)
    OBVIOUS
  <2>. QED BY <1>2, <2>1
<1>4. Open = IF zone.start >= zone.end THEN zone.start - zone.end
             ELSE D + zone.start - zone.end
  <2>1. CASE zone.start >= zone.end
    <3>1. (D * 0 + (zone.start - zone.end)) % D = zone.start - zone.end
      BY <2>1, TimeOfDay
    <3>. QED BY <2>1, <3>1 DEF Open
  <2>2. CASE zone.start < zone.end
    <3>1. (D * (-1) + (D + zone.start - zone.end)) % D = D + zone.start - zone.end
      BY <2>2, TimeOfDay
    <3>2. D * (-1) + (D + zone.start - zone.end) = zone.start - zone.end
      OBVIOUS
    <3>. QED BY <2>2, <3>1, <3>2 DEF Open
  <2>. QED BY <2>1, <2>2
<1>5. CASE zone.start <= zone.end
  <2>1. zone.start <= r /\ r < zone.end /\ E = Q + zone.end
    BY <1>1, <1>5 DEF QuietTime
  <2>2. \A l \in x .. E - 1 : l % D = l - Q /\ zone.start <= l - Q /\ l - Q < zone.end
    BY <1>1, <1>3, <2>1
  <2>3. \A l \in E .. E + Open - 1 :
          \/ l % D = l - Q /\ l - Q >= zone.end
          \/ l % D = l - Q - D /\ l - Q - D < zone.start
    BY <1>3, <1>4, <2>1
  <2>4. \A l \in x .. E - 1 : QuietTime(l % D)
    BY <1>5, <2>2 DEF QuietTime
  <2>5. \A l \in E .. E + Open - 1 : ~QuietTime(l % D)
    BY <1>5, <2>3 DEF QuietTime
  <2>6. E > x /\ Open \in 0 .. D - 1
    BY <1>1, <1>4, <2>1
  <2>. QED BY <2>4, <2>5, <2>6
<1>6. CASE zone.start > zone.end /\ r < zone.end
  <2>1. E = Q + zone.end
    BY <1>1, <1>6
  <2>2. \A l \in x .. E - 1 : l % D = l - Q /\ l - Q < zone.end
    BY <1>1, <1>3, <1>6, <2>1
  <2>3. \A l \in E .. E + Open - 1 : l % D = l - Q /\ l - Q >= zone.end /\ l - Q < zone.start
    BY <1>3, <1>4, <1>6, <2>1
  <2>4. \A l \in x .. E - 1 : QuietTime(l % D)
    BY <1>6, <2>2 DEF QuietTime
  <2>5. \A l \in E .. E + Open - 1 : ~QuietTime(l % D)
    BY <1>6, <2>3 DEF QuietTime
  <2>6. E > x /\ Open \in 0 .. D - 1
    BY <1>1, <1>4, <1>6, <2>1
  <2>. QED BY <2>4, <2>5, <2>6
<1>7. CASE zone.start > zone.end /\ r >= zone.start
  <2>1. E = Q + zone.end + D
    BY <1>1, <1>7
  <2>2. \A l \in x .. E - 1 : \/ l % D = l - Q /\ l - Q >= zone.start
                              \/ l % D = l - Q - D /\ l - Q - D < zone.end
    BY <1>1, <1>3, <1>7, <2>1
  <2>3. \A l \in E .. E + Open - 1 :
          l % D = l - Q - D /\ l - Q - D >= zone.end /\ l - Q - D < zone.start
    BY <1>3, <1>4, <1>7, <2>1
  <2>4. \A l \in x .. E - 1 : QuietTime(l % D)
    <3> SUFFICES ASSUME NEW l \in x .. E - 1 PROVE QuietTime(l % D)
      OBVIOUS
    <3>1. l % D >= zone.start \/ l % D < zone.end
      BY <2>2
    <3>. QED BY <1>7, <3>1 DEF QuietTime
  <2>5. \A l \in E .. E + Open - 1 : ~QuietTime(l % D)
    BY <1>7, <2>3 DEF QuietTime
  <2>6. E > x /\ Open \in 0 .. D - 1
    BY <1>1, <1>4, <1>7, <2>1
  <2>. QED BY <2>4, <2>5, <2>6
<1>. QED BY <1>1, <1>5, <1>6, <1>7 DEF QuietTime

LEMMA QuietInductive == QuietSpec => []QInv
<1>1. QuietInit => QInv
  BY DEF QuietInit, QInv
<1>2. QInv /\ [QuietNext]_quietVars => QInv'
  <2> SUFFICES ASSUME QInv, [QuietNext]_quietVars PROVE QInv'
    OBVIOUS
  <2>1. CASE Tick \/ UNCHANGED quietVars
    BY <2>1 DEF Tick, quietVars, QInv, IsInQuietHours, NextQuietHoursEnd, Local, ToUTC
  <2>2. CASE Defer
    BY <2>2 DEF Defer, QInv, IsInQuietHours, NextQuietHoursEnd, Local, ToUTC
  <2>. QED BY <2>1, <2>2 DEF QuietNext
<1>. QED BY <1>1, <1>2, PTL DEF QuietSpec

\* For any length of the day, quiet hours and change of the clock: a notice is deferred
\* to the end of the quiet hours it fell into.
THEOREM QuietHoursEnd == QuietSpec => []DueWhenQuietEnds
<1>1. QInv => DueWhenQuietEnds
  <2> SUFFICES ASSUME QInv, asked >= 0 PROVE DueWhenQuietEnds
    BY DEF DueWhenQuietEnds
  <2>1. /\ asked \in Nat /\ IsInQuietHours(asked) /\ due = NextQuietHoursEnd(asked)
    BY DEF QInv
  <2>2. /\ DayLength \in Int /\ DayLength > 0
        /\ zone.start \in 0 .. DayLength - 1 /\ zone.end \in 0 .. DayLength - 1
        /\ zone.change \in Nat /\ zone.before \in Nat /\ zone.after \in Nat
    BY QuietAssumption DEF QInv
  <2>. DEFINE x == Local(asked)
              E == NextEnd(x)
  <2>3. x \in Int
    BY <2>1, <2>2 DEF Local
  <2>4. \A u : IsInQuietHours(u) <=> QuietTime(Local(u) % DayLength)
    BY DEF IsInQuietHours, QuietTime
  <2>5. QuietTime(x % DayLength)
    BY <2>1, <2>4
  <2>6. /\ E \in Int /\ E > x
        /\ \A l \in x .. E - 1 : QuietTime(l % DayLength)
        /\ Open \in 0 .. DayLength - 1
        /\ \A l \in E .. E + Open - 1 : ~QuietTime(l % DayLength)
    <3>. HIDE DEF x
    <3>. QED BY <2>2, <2>3, <2>5, QuietStretch
  <2>7. due = ToUTC(E)
    BY <2>1 DEF NextQuietHoursEnd, NextEnd, Midnight
  <2>. HIDE DEF E
  <2>9. due \in Int /\ Shift \in Nat
    BY <2>2, <2>6, <2>7 DEF ToUTC, Shift
  <2>10. ASSUME Open > Shift PROVE ~IsInQuietHours(due)
    <3>1. Local(due) \in E .. E + Shift
      BY <2>2, <2>6, <2>7 DEF ToUTC, Shift, Local
    <3>. QED BY <2>4, <2>6, <2>9, <2>10, <3>1
  <2>11. due > asked - Shift
    BY <2>1, <2>2, <2>6, <2>7 DEF ToUTC, Shift, Local
  <2>12. ASSUME NEW u \in asked .. due - 1, u < due - Shift,
                ~(u - zone.change \in 0 .. Shift - 2)
         PROVE  IsInQuietHours(u)
    <3>1. u \in Int
      BY <2>1, <2>9
    <3>2. Local(u) \in Int /\ Local(u) <= E - 1
      BY <2>2, <2>6, <2>7, <2>12, <3>1 DEF ToUTC, Shift, Local
    <3>3. Local(u) >= x
      BY <2>1, <2>2, <2>9, <2>12, <3>1 DEF Shift, Local
    <3>4. Local(u) \in x .. E - 1
      BY <2>3, <2>6, <3>2, <3>3
    <3>. QED BY <2>4, <2>6, <3>4
  <2>. QED BY <2>1, <2>9, <2>10, <2>11, <2>12 DEF DueWhenQuietEnds
<1>. QED BY <1>1, QuietInductive, PTL

-----------------------------------------------------------------------------
(* SemanticDedup: who stands for whom.  The invariant is about the groups: from one *)
(* to that of its canonical order there is no way back.                             *)

SemTypeOK ==
  /\ content \in [Orders -> Contents \union {None}]
  /\ group \in [Orders -> Groups \union {None}]
  /\ canonical \in [Groups -> Orders \union {None}]
  /\ embedding = [o \in Orders |-> embedding[o]]
  /\ pending \subseteq Known

\* Where there is no order there is no duplicate, and what stands for one was there.
Members ==
  /\ \A o \in Orders : group[o] # None => o \in Known /\ canonical[group[o]] # None
  /\ \A g \in Groups : canonical[g] # None => canonical[g] \in Known \union gone

\* The canonical order of a group may belong to another group by now, and so on: of any
\* groups one is not followed by another of them.
NoCircle ==
  \A T \in (SUBSET Groups) \ {{}} : \E g \in T :
    canonical[g] = None \/ group[canonical[g]] \in {g} \union (Groups \ T) \union {None}

SemInv == SemTypeOK /\ Members /\ NoCircle

LEMMA MergeKeeps ==
  ASSUME SemInv, NEW o \in Known, NEW q \in Known \ {o}, Merge(o, q),
         UNCHANGED <<content, gone>>, embedding' = [x \in Orders |-> embedding'[x]],
         pending' \subseteq pending
  PROVE  SemInv'
<1>. USE DEF Known
<1>1. PICK g \in Target(o, q) :
        /\ group' = [group EXCEPT ![o] = g, ![q] = g]
        /\ canonical' = [canonical EXCEPT ![g] = IF Rank[o] < Rank[q] THEN o ELSE q]
  BY DEF Merge
<1>2. g \in Groups
  BY <1>1 DEF Target, SemInv, SemTypeOK
<1>3. PICK c \in {o, q} : canonical' = [canonical EXCEPT ![g] = c]
  BY <1>1
<1>4. /\ canonical'[g] = c /\ \A h \in Groups \ {g} : canonical'[h] = canonical[h]
      /\ group'[o] = g /\ group'[q] = g
      /\ \A x \in Orders \ {o, q} : group'[x] = group[x]
  BY <1>1, <1>2, <1>3 DEF SemInv, SemTypeOK
<1>5. SemTypeOK'
  BY <1>1, <1>2, <1>3 DEF SemInv, SemTypeOK
<1>6. Members'
  BY <1>2, <1>4, SemanticAssumption DEF SemInv, SemTypeOK, Members
<1>7. NoCircle'
  <2> SUFFICES ASSUME NEW T \in (SUBSET Groups) \ {{}}
               PROVE  \E h \in T : \/ canonical'[h] = None
                                   \/ group'[canonical'[h]] \in {h} \union (Groups \ T) \union {None}
    BY DEF NoCircle
  <2>1. CASE g \in T
    BY <1>3, <1>4, <2>1
  <2>2. CASE g \notin T
    <3>1. PICK h \in T :
            canonical[h] = None \/ group[canonical[h]] \in {h} \union (Groups \ T) \union {None}
      BY DEF SemInv, NoCircle
    <3>2. canonical'[h] = canonical[h] /\ canonical[h] \in Orders \union {None}
      BY <1>4, <2>2, <3>1 DEF SemInv, SemTypeOK
    <3>3. canonical[h] \in Orders => group'[canonical[h]] \in {g, group[canonical[h]]}
      BY <1>4
    <3>. QED BY <1>2, <2>2, <3>1, <3>2, <3>3
  <2>. QED BY <2>1, <2>2
<1>. QED BY <1>5, <1>6, <1>7 DEF SemInv

\* An order leaves its group, or nothing changes.
LEMMA LeavingKeeps ==
  ASSUME SemInv, NEW o \in Orders, group' \in {group, [group EXCEPT ![o] = None]},
         content' \in [Orders -> Contents \union {None}],
         embedding' = [x \in Orders |-> embedding'[x]],
         pending' \subseteq Known', UNCHANGED canonical, Known \ {o} \subseteq Known', gone \subseteq gone',
         o \in Known' \/ (group'[o] = None /\ o \in gone')
  PROVE  SemInv'
<1>1. SemTypeOK'
  BY DEF SemInv, SemTypeOK
<1>2. \A x \in Orders : group'[x] \in {group[x], None}
  BY DEF SemInv, SemTypeOK
<1>3. Members'
  BY <1>2 DEF SemInv, SemTypeOK, Members, Known
<1>4. NoCircle'
  BY <1>2 DEF SemInv, SemTypeOK, NoCircle
<1>. QED BY <1>1, <1>3, <1>4 DEF SemInv

LEMMA SemanticInductive == SemSpec => []SemInv
<1>1. SemInit => SemInv
  BY DEF SemInit, SemInv, SemTypeOK, Members, NoCircle, Known
<1>2. SemInv /\ [SemNext]_semVars => SemInv'
  <2> SUFFICES ASSUME SemInv, [SemNext]_semVars PROVE SemInv'
    OBVIOUS
  <2>0. None \notin Orders \union Groups \union Contents
    BY SemanticAssumption
  <2>1. ASSUME NEW o \in Orders, Arrive(o) \/ Revise(o) PROVE SemInv'
    <3>1. PICK c \in Contents : content' = [content EXCEPT ![o] = c]
      BY <2>1 DEF Arrive, Revise
    <3>2. content' \in [Orders -> Contents \union {None}] /\ Known' = Known \union {o}
      BY <2>0, <3>1 DEF SemInv, SemTypeOK, Known
    <3>3. UNCHANGED <<group, canonical, embedding, gone>> /\ pending' = pending \union {o}
      BY <2>1 DEF Arrive, Revise
    <3>. QED BY <3>2, <3>3, LeavingKeeps DEF SemInv, SemTypeOK
  <2>2. ASSUME NEW o \in Orders, Delete(o) PROVE SemInv'
    <3>1. /\ content' = [content EXCEPT ![o] = None]
          /\ group' = [group EXCEPT ![o] = None]
          /\ embedding' = [embedding EXCEPT ![o] = None]
          /\ gone' = gone \union {o} /\ pending' = pending \ {o} /\ UNCHANGED canonical
      BY <2>2 DEF Delete
    <3>2. content' \in [Orders -> Contents \union {None}] /\ Known' = Known \ {o}
      BY <3>1 DEF SemInv, SemTypeOK, Known
    <3>3. embedding' = [x \in Orders |-> embedding'[x]] /\ group'[o] = None
      BY <3>1 DEF SemInv, SemTypeOK
    <3>4. pending' \subseteq Known'
      BY <3>1, <3>2 DEF SemInv, SemTypeOK
    <3>. QED BY <3>1, <3>2, <3>3, <3>4, LeavingKeeps
  <2>3. ASSUME NEW o \in Orders, Fallback(o) PROVE SemInv'
    <3>1. o \in Known /\ pending' \subseteq pending /\ Known' = Known
      BY <2>3 DEF Fallback, SemInv, SemTypeOK, Known
    <3>2. /\ group' = [group EXCEPT ![o] = None]
          /\ UNCHANGED <<content, canonical, embedding, gone>>
      BY <2>3 DEF Fallback
    <3>. QED BY <3>1, <3>2, LeavingKeeps DEF SemInv, SemTypeOK
  <2>4. ASSUME NEW o \in Orders, Deduplicate(o) PROVE SemInv'
    <3>1. o \in Known /\ pending' \subseteq pending /\ Known' = Known
      BY <2>4 DEF Deduplicate, SemInv, SemTypeOK, Known
    <3>2. /\ embedding' = [embedding EXCEPT ![o] = Embedded(o)]
          /\ UNCHANGED <<content, gone>>
      BY <2>4 DEF Deduplicate
    <3>3. embedding' = [x \in Orders |-> embedding'[x]]
      BY <3>2 DEF SemInv, SemTypeOK
    <3>4. \/ \E q \in Candidates(o) : Merge(o, q)
          \/ UNCHANGED <<group, canonical>> \/ Unique(o)
      BY <2>4 DEF Deduplicate
    <3>5. ASSUME NEW q \in Candidates(o), Merge(o, q) PROVE SemInv'
      <4>1. q \in Known \ {o}
        BY DEF Candidates
      <4>. QED BY <3>1, <3>2, <3>3, <3>5, <4>1, MergeKeeps
    <3>6. CASE UNCHANGED <<group, canonical>> \/ Unique(o)
      <4>1. group' \in {group, [group EXCEPT ![o] = None]} /\ UNCHANGED canonical
        BY <3>6 DEF Unique
      <4>. QED BY <3>1, <3>2, <3>3, <4>1, LeavingKeeps DEF SemInv, SemTypeOK
    <3>. QED BY <3>4, <3>5, <3>6
  <2>5. CASE ChangeModel \/ UNCHANGED semVars
    BY <2>5 DEF ChangeModel, semVars, SemInv, SemTypeOK, Members, NoCircle, Known
  <2>6. CASE Backfill
    <3>1. embedding' = [x \in Orders |-> embedding'[x]]
      BY <2>6 DEF Backfill
    <3>. QED BY <2>6, <3>1 DEF Backfill, SemInv, SemTypeOK, Members, NoCircle, Known
  <2>. QED BY <2>1, <2>2, <2>3, <2>4, <2>5, <2>6 DEF SemNext
<1>. QED BY <1>1, <1>2, PTL DEF SemSpec

\* For any orders and groups: however groups are joined, left, taken over and deleted
\* from, no orders stand for each other in a circle.
THEOREM NobodyIsLost == SemSpec => []NobodyVanishes
<1>1. SemInv => NobodyVanishes
  <2> SUFFICES ASSUME SemInv PROVE NobodyVanishes
    OBVIOUS
  <2>1. ASSUME NEW o \in Orders, group[o] # None
        PROVE  canonical[group[o]] \in Known \union gone
    BY <2>1 DEF SemInv, SemTypeOK, Members
  <2>2. ASSUME NEW S \in (SUBSET Known) \ {{}},
               \A o \in S : ~IsVisible(o) /\ canonical[group[o]] \in S
        PROVE  FALSE
    <3>. DEFINE T == {group[o] : o \in S}
    <3>1. \A o \in S : o \in Orders /\ group[o] \in Groups
      BY <2>2 DEF SemInv, SemTypeOK, IsVisible, Known
    <3>2. T \in (SUBSET Groups) \ {{}}
      BY <3>1
    <3>3. PICK g \in T :
            canonical[g] = None \/ group[canonical[g]] \in {g} \union (Groups \ T) \union {None}
      <4>. HIDE DEF T
      <4>. QED BY <3>2 DEF SemInv, NoCircle
    <3>4. PICK o \in S : g = group[o]
      BY <3>3
    <3>5. canonical[g] \in S /\ ~IsVisible(canonical[g])
      BY <2>2, <3>4
    <3>6. /\ group[canonical[g]] \in T /\ group[canonical[g]] # None
          /\ group[canonical[g]] # g
      BY <3>5 DEF IsVisible
    <3>7. canonical[g] # None
      BY <3>1, <3>5, SemanticAssumption
    <3>. QED BY <3>3, <3>6, <3>7
  <2>. QED BY <2>1, <2>2 DEF NobodyVanishes
<1>. QED BY <1>1, SemanticInductive, PTL

-----------------------------------------------------------------------------
(* KeywordMatching: the loop with two cursors is the edit distance.  What a *)
(* recursive function computes is shown in two halves: its closed form      *)
(* satisfies what defines it, and nothing else does, for of the positions   *)
(* at which two such functions differ there would be a last one.            *)

\* Numbers that satisfy something have a least one.
LEMMA Least ==
  ASSUME NEW S \in SUBSET Nat, S # {}
  PROVE  \E n \in S : \A m \in S : n <= m
<1>. DEFINE R == {ss \in Nat \X Nat : ss[1] < ss[2]}
<1>1. IsWellFoundedOn(R, Nat)
  BY NatLessThanWellFounded DEF OpToRel
<1>2. PICK n \in S : \A m \in S : <<m, n>> \notin R
  <2>. HIDE DEF R
  <2>. QED BY <1>1, WFMin
<1>3. \A m \in S : ~(m < n)
  BY <1>2
<1>. QED BY <1>3

DifferFurtherOn(n, f, v) == \A i \in 1 .. n + 1 : f[i] # v[i] => i <= n /\ f[i + 1] # v[i + 1]
Agree(n, f, v) == \A i \in 1 .. n + 1 : f[i] = v[i]

\* Functions that only differ where they differ further on do not differ.
LEMMA SameFromTheTop ==
  ASSUME NEW n \in Nat, NEW f, NEW v, DifferFurtherOn(n, f, v)
  PROVE  Agree(n, f, v)
<1>. USE DEF DifferFurtherOn, Agree
<1>. DEFINE Bad == {i \in 1 .. n + 1 : f[i] # v[i]}
            S == {n + 1 - i : i \in Bad}
<1>1. S \in SUBSET Nat
  OBVIOUS
<1>2. \A i \in Bad : i \in 1 .. n + 1 /\ i + 1 \in Bad
  <2> SUFFICES ASSUME NEW i \in 1 .. n + 1, f[i] # v[i] PROVE i + 1 \in Bad
    OBVIOUS
  <2>1. i <= n /\ f[i + 1] # v[i + 1]
    OBVIOUS
  <2>. QED BY <2>1
<1>3. ASSUME Bad # {} PROVE FALSE
  <2>. HIDE DEF Bad
  <2>1. PICK k \in S : \A m \in S : k <= m
    <3>1. S # {}
      BY <1>3
    <3>. HIDE DEF S
    <3>. QED BY <1>1, <3>1, Least
  <2>2. PICK i \in Bad : k = n + 1 - i
    BY <2>1
  <2>3. n + 1 - (i + 1) \in S /\ i \in 1 .. n + 1
    BY <1>2, <2>2
  <2>. HIDE DEF S
  <2>. QED BY <2>1, <2>2, <2>3
<1>. QED BY <1>3

\* The letters of s from i on are those of l one further on.
Fits(s, l, i) == \A m \in i .. Len(s) : s[m] = l[m + 1]

\* They are when one letter of l is left out.
Skips(s, l, i) == \E k \in Nat : \A m \in i .. Len(s) : s[m] = IF m < k THEN l[m] ELSE l[m + 1]

\* The loop goes on when the letters are the same; it skips one otherwise.
LEMMA SkipsStep ==
  ASSUME NEW s, NEW l, Len(s) \in Nat, NEW i \in 1 .. Len(s)
  PROVE  Skips(s, l, i) <=> IF s[i] = l[i] THEN Skips(s, l, i + 1) ELSE Fits(s, l, i)
<1>1. ASSUME s[i] = l[i], Skips(s, l, i) PROVE Skips(s, l, i + 1)
  <2>1. PICK k \in Nat : \A m \in i .. Len(s) : s[m] = IF m < k THEN l[m] ELSE l[m + 1]
    BY <1>1 DEF Skips
  <2>2. \A m \in i + 1 .. Len(s) : s[m] = IF m < k THEN l[m] ELSE l[m + 1]
    BY <2>1
  <2>. QED BY <2>2 DEF Skips
<1>2. ASSUME s[i] = l[i], Skips(s, l, i + 1) PROVE Skips(s, l, i)
  <2>1. PICK k \in Nat : \A m \in i + 1 .. Len(s) : s[m] = IF m < k THEN l[m] ELSE l[m + 1]
    BY <1>2 DEF Skips
  <2>2. CASE i < k
    <3>1. \A m \in i .. Len(s) : m = i \/ m \in i + 1 .. Len(s)
      OBVIOUS
    <3>2. \A m \in i .. Len(s) : s[m] = IF m < k THEN l[m] ELSE l[m + 1]
      BY <1>2, <2>1, <2>2, <3>1
    <3>. QED BY <3>2 DEF Skips
  <2>3. CASE k <= i
    <3>1. \A m \in i .. Len(s) : s[m] = IF m < i + 1 THEN l[m] ELSE l[m + 1]
      BY <1>2, <2>1, <2>3
    <3>2. \E n \in Nat : \A m \in i .. Len(s) : s[m] = IF m < n THEN l[m] ELSE l[m + 1]
      <4>. WITNESS i + 1 \in Nat
      <4>. QED BY <3>1
    <3>. QED BY <3>2 DEF Skips
  <2>. QED BY <2>2, <2>3
<1>3. ASSUME s[i] # l[i], Skips(s, l, i) PROVE Fits(s, l, i)
  BY <1>3 DEF Skips, Fits
<1>4. ASSUME s[i] # l[i], Fits(s, l, i) PROVE Skips(s, l, i)
  BY <1>4 DEF Skips, Fits
<1>. QED BY <1>1, <1>2, <1>3, <1>4

\* The two functions of the walk, as what defines them
Skipped(s, l, f) ==
  [i \in 1 .. Len(s) + 1 |-> IF i > Len(s) THEN 1
                             ELSE IF s[i] = l[i + 1] THEN f[i + 1] ELSE 2]
Walked(s, l, f, g) ==
  [i \in 1 .. Len(s) + 1 |-> IF i > Len(s) THEN 1
                             ELSE IF s[i] = l[i] THEN g[i + 1] ELSE f[i]]

LEMMA SkippedIs ==
  ASSUME NEW s, NEW l, Len(s) \in Nat
  PROVE  LET f == CHOOSE f : f = Skipped(s, l, f) IN
         f = [i \in 1 .. Len(s) + 1 |-> IF Fits(s, l, i) THEN 1 ELSE 2]
<1>. DEFINE f == CHOOSE f : f = Skipped(s, l, f)
            v == [i \in 1 .. Len(s) + 1 |-> IF Fits(s, l, i) THEN 1 ELSE 2]
<1>1. \A i \in 1 .. Len(s) + 1 :
        v[i] = IF i > Len(s) THEN 1 ELSE IF s[i] = l[i + 1] THEN v[i + 1] ELSE 2
  BY DEF Fits
<1>2. v = Skipped(s, l, v)
  <2>1. v = [i \in 1 .. Len(s) + 1 |-> v[i]]
    OBVIOUS
  <2>. HIDE DEF v
  <2>. QED BY <1>1, <2>1 DEF Skipped
<1>3. f = Skipped(s, l, f)
  <2>. HIDE DEF v
  <2>. QED BY <1>2
<1>4. \A i \in 1 .. Len(s) + 1 :
        f[i] = IF i > Len(s) THEN 1 ELSE IF s[i] = l[i + 1] THEN f[i + 1] ELSE 2
  <2>. HIDE DEF f
  <2>. QED BY <1>3 DEF Skipped
<1>. HIDE DEF f, v
<1>5. f = [i \in 1 .. Len(s) + 1 |-> f[i]] /\ v = [i \in 1 .. Len(s) + 1 |-> v[i]]
  BY <1>3 DEF Skipped, v
<1>6. DifferFurtherOn(Len(s), f, v)
  <2> SUFFICES ASSUME NEW i \in 1 .. Len(s) + 1, f[i] # v[i]
               PROVE  i <= Len(s) /\ f[i + 1] # v[i + 1]
    BY DEF DifferFurtherOn
  <2>1. /\ v[i] = IF i > Len(s) THEN 1 ELSE IF s[i] = l[i + 1] THEN v[i + 1] ELSE 2
        /\ f[i] = IF i > Len(s) THEN 1 ELSE IF s[i] = l[i + 1] THEN f[i + 1] ELSE 2
    BY <1>1, <1>4
  <2>2. ~(i > Len(s)) /\ s[i] = l[i + 1]
    BY <2>1, Zenon
  <2>3. v[i] = v[i + 1] /\ f[i] = f[i + 1]
    BY <2>1, <2>2, Zenon
  <2>4. i <= Len(s)
    BY <2>2
  <2>. QED BY <2>3, <2>4, Zenon
<1>7. Agree(Len(s), f, v)
  BY <1>6, SameFromTheTop
<1>8. f = v
  BY <1>5, <1>7 DEF Agree
<1>. QED BY <1>8 DEF f, v

LEMMA WalkedIs ==
  ASSUME NEW s, NEW l, Len(s) \in Nat, NEW f,
         \A i \in 1 .. Len(s) + 1 : f[i] = IF Fits(s, l, i) THEN 1 ELSE 2
  PROVE  LET g == CHOOSE g : g = Walked(s, l, f, g) IN
         g = [i \in 1 .. Len(s) + 1 |-> IF Skips(s, l, i) THEN 1 ELSE 2]
<1>. DEFINE g == CHOOSE g : g = Walked(s, l, f, g)
            v == [i \in 1 .. Len(s) + 1 |-> IF Skips(s, l, i) THEN 1 ELSE 2]
<1>1. \A i \in 1 .. Len(s) + 1 :
        v[i] = IF i > Len(s) THEN 1 ELSE IF s[i] = l[i] THEN v[i + 1] ELSE f[i]
  <2>1. Skips(s, l, Len(s) + 1)
    BY DEF Skips
  <2>. QED BY <2>1, SkipsStep
<1>2. v = Walked(s, l, f, v)
  <2>1. v = [i \in 1 .. Len(s) + 1 |-> v[i]]
    OBVIOUS
  <2>. HIDE DEF v
  <2>. QED BY <1>1, <2>1 DEF Walked
<1>3. g = Walked(s, l, f, g)
  <2>. HIDE DEF v
  <2>. QED BY <1>2
<1>4. \A i \in 1 .. Len(s) + 1 :
        g[i] = IF i > Len(s) THEN 1 ELSE IF s[i] = l[i] THEN g[i + 1] ELSE f[i]
  <2>. HIDE DEF g
  <2>. QED BY <1>3 DEF Walked
<1>. HIDE DEF g, v
<1>5. g = [i \in 1 .. Len(s) + 1 |-> g[i]] /\ v = [i \in 1 .. Len(s) + 1 |-> v[i]]
  BY <1>3 DEF Walked, v
<1>6. DifferFurtherOn(Len(s), g, v)
  <2> SUFFICES ASSUME NEW i \in 1 .. Len(s) + 1, g[i] # v[i]
               PROVE  i <= Len(s) /\ g[i + 1] # v[i + 1]
    BY DEF DifferFurtherOn
  <2>1. /\ v[i] = IF i > Len(s) THEN 1 ELSE IF s[i] = l[i] THEN v[i + 1] ELSE f[i]
        /\ g[i] = IF i > Len(s) THEN 1 ELSE IF s[i] = l[i] THEN g[i + 1] ELSE f[i]
    BY <1>1, <1>4
  <2>2. ~(i > Len(s)) /\ s[i] = l[i]
    BY <2>1, Zenon
  <2>3. v[i] = v[i + 1] /\ g[i] = g[i + 1]
    BY <2>1, <2>2, Zenon
  <2>4. i <= Len(s)
    BY <2>2
  <2>. QED BY <2>3, <2>4, Zenon
<1>7. Agree(Len(s), g, v)
  BY <1>6, SameFromTheTop
<1>8. g = v
  BY <1>5, <1>7 DEF Agree
<1>. QED BY <1>8 DEF g, v

\* The loop finds out whether one letter of the longer word can be left out.
LEMMA WalkFromIs ==
  ASSUME NEW s, NEW l, Len(s) \in Nat
  PROVE  WalkFrom(s, l) = IF Skips(s, l, 1) THEN 1 ELSE 2
<1>. DEFINE f == CHOOSE f : f = Skipped(s, l, f)
            g == CHOOSE g : g = Walked(s, l, f, g)
<1>1. WalkFrom(s, l) = g[1]
  BY DEF WalkFrom, Skipped, Walked
<1>2. f = [i \in 1 .. Len(s) + 1 |-> IF Fits(s, l, i) THEN 1 ELSE 2]
  BY SkippedIs
<1>. HIDE DEF f
<1>3. g = [i \in 1 .. Len(s) + 1 |-> IF Skips(s, l, i) THEN 1 ELSE 2]
  BY <1>2, WalkedIs
<1>. HIDE DEF g
<1>. QED BY <1>1, <1>3

\* What is left of a word without one of its letters
LEMMA WithoutIs ==
  ASSUME NEW S, NEW w \in Seq(S), NEW i \in 1 .. Len(w)
  PROVE  /\ Without(w, i) \in Seq(S) /\ Len(Without(w, i)) = Len(w) - 1
         /\ \A m \in 1 .. Len(w) - 1 : Without(w, i)[m] = IF m < i THEN w[m] ELSE w[m + 1]
<1>. DEFINE front == SubSeq(w, 1, i - 1)
            back == SubSeq(w, i + 1, Len(w))
<1>1. Len(w) \in Nat /\ \A m \in 1 .. Len(w) : w[m] \in S
  OBVIOUS
<1>2. /\ front \in Seq(S) /\ Len(front) = i - 1
      /\ \A m \in 1 .. i - 1 : front[m] = w[m]
  BY <1>1, SubSeqProperties
<1>3. /\ back \in Seq(S) /\ Len(back) = Len(w) - i
      /\ \A m \in 1 .. Len(w) - i : back[m] = w[m + i]
  BY <1>1, SubSeqProperties
<1>. HIDE DEF front, back
<1>4. /\ front \o back \in Seq(S) /\ Len(front \o back) = Len(w) - 1
      /\ \A m \in 1 .. Len(w) - 1 :
           (front \o back)[m] = IF m <= i - 1 THEN front[m] ELSE back[m - (i - 1)]
  <2>1. /\ front \o back \in Seq(S) /\ Len(front \o back) = Len(front) + Len(back)
        /\ \A m \in 1 .. Len(front) + Len(back) :
             (front \o back)[m] = IF m <= Len(front) THEN front[m] ELSE back[m - Len(front)]
    BY <1>2, <1>3, ConcatProperties
  <2>2. Len(front) + Len(back) = Len(w) - 1
    BY <1>1, <1>2, <1>3
  <2>. QED BY <1>2, <2>1, <2>2
<1>5. ASSUME NEW m \in 1 .. Len(w) - 1
      PROVE  (front \o back)[m] = IF m < i THEN w[m] ELSE w[m + 1]
  <2>1. CASE m < i
    BY <1>1, <1>2, <1>4, <2>1
  <2>2. CASE ~(m < i)
    <3>1. m - (i - 1) \in 1 .. Len(w) - i /\ m - (i - 1) + i = m + 1 /\ ~(m <= i - 1)
      BY <1>1, <2>2
    <3>. QED BY <1>3, <1>4, <2>2, <3>1
  <2>. QED BY <2>1, <2>2
<1>. QED BY <1>4, <1>5 DEF Without, front, back

\* Words of one length: at most one letter differs, or they are the same without one.
LEMMA OneReplaced ==
  ASSUME NEW S, NEW v \in Seq(S), NEW w \in Seq(S), Len(v) = Len(w), v # w
  PROVE  (\E i \in DOMAIN v : Without(v, i) = Without(w, i))
           <=> \A i, j \in {m \in DOMAIN v : v[m] # w[m]} : i = j
<1>. DEFINE n == Len(v)
<1>1. n \in Nat /\ DOMAIN v = 1 .. n /\ Len(v) = n /\ Len(w) = n
  OBVIOUS
<1>2. \A i \in 1 .. n :
        /\ Without(v, i) \in Seq(S) /\ Len(Without(v, i)) = n - 1
        /\ \A m \in 1 .. n - 1 : Without(v, i)[m] = IF m < i THEN v[m] ELSE v[m + 1]
  BY <1>1, WithoutIs
<1>3. \A i \in 1 .. n :
        /\ Without(w, i) \in Seq(S) /\ Len(Without(w, i)) = n - 1
        /\ \A m \in 1 .. n - 1 : Without(w, i)[m] = IF m < i THEN w[m] ELSE w[m + 1]
  BY <1>1, WithoutIs
<1>. HIDE DEF n
<1>4. ASSUME NEW i \in 1 .. n, Without(v, i) = Without(w, i), NEW m \in 1 .. n, m # i
      PROVE  v[m] = w[m]
  <2>1. CASE m < i
    <3>1. m \in 1 .. n - 1
      BY <1>1, <2>1
    <3>2. Without(v, i)[m] = v[m] /\ Without(w, i)[m] = w[m]
      BY <1>2, <1>3, <2>1, <3>1
    <3>. QED BY <1>4, <3>2
  <2>2. CASE m > i
    <3>1. m - 1 \in 1 .. n - 1 /\ (m - 1) + 1 = m /\ ~(m - 1 < i)
      BY <1>1, <2>2
    <3>2. Without(v, i)[m - 1] = v[m] /\ Without(w, i)[m - 1] = w[m]
      BY <1>2, <1>3, <3>1
    <3>. QED BY <1>4, <3>2
  <2>. QED BY <1>4, <2>1, <2>2
<1>5. PICK i \in 1 .. n : v[i] # w[i]
  BY <1>1, SeqEqual
<1>6. ASSUME \A m \in 1 .. n : v[m] # w[m] => m = i
      PROVE  Without(v, i) = Without(w, i)
  <2>1. ASSUME NEW m \in 1 .. n - 1 PROVE Without(v, i)[m] = Without(w, i)[m]
    <3>1. m \in 1 .. n /\ m + 1 \in 1 .. n /\ (m < i => m # i) /\ (~(m < i) => m + 1 # i)
      BY <1>1
    <3>. QED BY <1>2, <1>3, <1>6, <3>1
  <2>. QED BY <1>2, <1>3, <2>1, SeqEqual
<1>. QED BY <1>1, <1>4, <1>5, <1>6

\* A word one letter longer: the loop finds out whether it is the other with one added.
LEMMA OneAdded ==
  ASSUME NEW S, NEW s \in Seq(S), NEW l \in Seq(S), Len(l) = Len(s) + 1
  PROVE  Skips(s, l, 1) <=> \E i \in DOMAIN l : Without(l, i) = s
<1>1. Len(s) \in Nat /\ DOMAIN l = 1 .. Len(l)
  OBVIOUS
<1>2. ASSUME NEW i \in 1 .. Len(l), Without(l, i) = s PROVE Skips(s, l, 1)
  <2>1. \A m \in 1 .. Len(s) : s[m] = IF m < i THEN l[m] ELSE l[m + 1]
    BY <1>1, <1>2, WithoutIs
  <2>. QED BY <1>1, <2>1 DEF Skips
<1>3. ASSUME Skips(s, l, 1) PROVE \E i \in 1 .. Len(l) : Without(l, i) = s
  <2>1. PICK k \in Nat : \A m \in 1 .. Len(s) : s[m] = IF m < k THEN l[m] ELSE l[m + 1]
    BY <1>3 DEF Skips
  <2>. DEFINE i == IF k < 1 THEN 1 ELSE IF k > Len(l) THEN Len(l) ELSE k
  <2>2. i \in 1 .. Len(l) /\ \A m \in 1 .. Len(s) : m < i <=> m < k
    BY <1>1
  <2>. HIDE DEF i
  <2>3. \A m \in 1 .. Len(l) - 1 : Without(l, i)[m] = IF m < i THEN l[m] ELSE l[m + 1]
    BY <2>2, WithoutIs
  <2>4. \A m \in 1 .. Len(s) : Without(l, i)[m] = s[m]
    BY <1>1, <2>1, <2>2, <2>3
  <2>5. Without(l, i) \in Seq(S) /\ Len(Without(l, i)) = Len(s)
    BY <1>1, <2>2, WithoutIs
  <2>. QED BY <2>2, <2>4, <2>5, SeqEqual
<1>. QED BY <1>1, <1>2, <1>3

\* levenshtein_at_most_one is right about every two words.
LEMMA DistanceIsOneEdit ==
  ASSUME NEW S, NEW v \in Seq(S), NEW w \in Seq(S)
  PROVE  Distance(v, w) <= 1 <=> OneEdit(v, w)
<1>0. DOMAIN v = 1 .. Len(v) /\ DOMAIN w = 1 .. Len(w) /\ (v = w => Len(v) = Len(w))
  OBVIOUS
<1>1. Len(v) \in Nat /\ Len(w) \in Nat
  OBVIOUS
<1>2. \A i \in DOMAIN v : Without(v, i) = w => Len(v) = Len(w) + 1
  <2> SUFFICES ASSUME NEW i \in 1 .. Len(v) PROVE Without(v, i) = w => Len(v) = Len(w) + 1
    BY <1>0
  <2>1. Len(Without(v, i)) = Len(v) - 1
    BY WithoutIs
  <2>. QED BY <1>1, <2>1
<1>3. \A i \in DOMAIN w : Without(w, i) = v => Len(w) = Len(v) + 1
  <2> SUFFICES ASSUME NEW i \in 1 .. Len(w) PROVE Without(w, i) = v => Len(w) = Len(v) + 1
    BY <1>0
  <2>1. Len(Without(w, i)) = Len(w) - 1
    BY WithoutIs
  <2>. QED BY <1>1, <2>1
<1>4. CASE v = w
  BY <1>4 DEF Distance, OneEdit
<1>5. CASE Len(v) > Len(w) + 1 \/ Len(w) > Len(v) + 1
  <2>1. Len(v) # Len(w) /\ Len(v) # Len(w) + 1 /\ Len(w) # Len(v) + 1
    BY <1>1, <1>5
  <2>2. Distance(v, w) = 2
    BY <1>0, <1>5, <2>1 DEF Distance
  <2>3. ~OneEdit(v, w)
    BY <1>0, <1>2, <1>3, <2>1 DEF OneEdit
  <2>. QED BY <2>2, <2>3
<1>6. CASE v # w /\ Len(v) = Len(w)
  <2>1. Len(v) # Len(w) + 1 /\ Len(w) # Len(v) + 1
    BY <1>1, <1>6
  <2>2. OneEdit(v, w) <=> \E i \in DOMAIN v : Without(v, i) = Without(w, i)
    BY <1>2, <1>3, <1>6, <2>1 DEF OneEdit
  <2>3. Distance(v, w) = IF \A i, j \in {m \in DOMAIN v : v[m] # w[m]} : i = j THEN 1 ELSE 2
    BY <1>1, <1>6 DEF Distance
  <2>. QED BY <1>6, <2>2, <2>3, OneReplaced
<1>7. CASE Len(w) = Len(v) + 1
  <2>1. Len(v) # Len(w) /\ Len(v) # Len(w) + 1 /\ Len(v) < Len(w)
        /\ ~(Len(v) > Len(w) + 1) /\ ~(Len(w) > Len(v) + 1)
    BY <1>1, <1>7
  <2>2. OneEdit(v, w) <=> \E i \in DOMAIN w : Without(w, i) = v
    BY <1>0, <1>2, <2>1 DEF OneEdit
  <2>3. Distance(v, w) = WalkFrom(v, w)
    BY <1>0, <2>1 DEF Distance
  <2>4. WalkFrom(v, w) = IF Skips(v, w, 1) THEN 1 ELSE 2
    BY <1>1, WalkFromIs
  <2>. QED BY <1>7, <2>2, <2>3, <2>4, OneAdded
<1>8. CASE Len(v) = Len(w) + 1
  <2>1. Len(v) # Len(w) /\ Len(w) # Len(v) + 1 /\ ~(Len(v) < Len(w))
        /\ ~(Len(v) > Len(w) + 1) /\ ~(Len(w) > Len(v) + 1)
    BY <1>1, <1>8
  <2>2. OneEdit(v, w) <=> \E i \in DOMAIN v : Without(v, i) = w
    BY <1>0, <1>3, <2>1 DEF OneEdit
  <2>3. Distance(v, w) = WalkFrom(w, v)
    BY <1>0, <2>1 DEF Distance
  <2>4. WalkFrom(w, v) = IF Skips(w, v, 1) THEN 1 ELSE 2
    BY <1>1, WalkFromIs
  <2>. QED BY <1>8, <2>2, <2>3, <2>4, OneAdded
<1>. QED BY <1>1, <1>4, <1>5, <1>6, <1>7, <1>8

\* For words of any letters and any length: a long keyword hits exactly the long words that
\* one letter added, removed or replaced makes of it.
THEOREM FuzzyHitsOneEdit == KeywordSpec => []FuzzyIsOneEdit
<1>. DEFINE Spelled == phrase \in Seq(Letters) /\ word \in Seq(Letters)
<1>1. KeywordInit => Spelled
  BY DEF KeywordInit
<1>2. Spelled /\ [KeywordNext]_keywordVars => Spelled'
  <2> SUFFICES ASSUME Spelled, [KeywordNext]_keywordVars PROVE Spelled'
    OBVIOUS
  <2>1. CASE UNCHANGED keywordVars
    BY <2>1 DEF keywordVars
  <2>2. ASSUME NEW l \in Letters, Type(l) PROVE Spelled'
    <3>1. Append(phrase, l) \in Seq(Letters) /\ Append(word, l) \in Seq(Letters)
      BY AppendProperties
    <3>. QED BY <2>2, <3>1 DEF Type
  <2>. QED BY <2>1, <2>2 DEF KeywordNext
<1>3. Spelled => FuzzyIsOneEdit
  BY DistanceIsOneEdit DEF FuzzyIsOneEdit, FuzzyHit
<1>. QED BY <1>1, <1>2, <1>3, PTL DEF KeywordSpec
=============================================================================
