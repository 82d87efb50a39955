--------------------------- MODULE Classification ---------------------------
(***************************************************************************)
(* What becomes of a message: the rules (app/classification/rules.py), the *)
(* decision between them and the model, and whether an order is made       *)
(* (app/services/order_classification.py), with the default settings.      *)
(*                                                                         *)
(* A text is the set of the markers whose expression it matches, its       *)
(* entities are a set of facts.  Signals are in 140ths, so that halves,    *)
(* twentieths and sevenths are whole; weights and confidences in           *)
(* hundredths.                                                             *)
(***************************************************************************)
EXTENDS Integers, FiniteSets, NullValue

CONSTANTS
  Texts,       \* sets of markers to start from
  MaxMarkers,  \* bounds: markers,
  MaxMessageAge       \*   days

Markers == {"need", "task", "object", "vacancy", "ad", "resume", "partnership",
            "spam", "discussion"}
Facts == {"keyword", "negative", "project", "budget", "negotiable", "deadline", "contact"}
Labels == {"order", "vacancy", "service_ad", "resume", "partnership", "spam",
           "discussion", "irrelevant"}

ASSUME TextAssumption == Texts \subseteq SUBSET Markers /\ {MaxMarkers, MaxMessageAge} \subseteq Nat

VARIABLES
  markers, facts,
  age,    \* days since published_at
  ml      \* the label a model is sure of, None when there is none

classVars == <<markers, facts, age, ml>>

-----------------------------------------------------------------------------
(* Signals *)

Full == 140
Signal(p) == IF p THEN Full ELSE 0
Seen(m) == m \in markers
Found(f) == f \in facts

Need == Signal(Found("keyword") \/ Seen("need"))
Task == IF Found("project") \/ Seen("task") THEN Full ELSE Signal(Seen("object")) \div 2
Budget == IF Found("negotiable") THEN Full \div 2 ELSE Signal(Found("budget"))
Deadline == Signal(Found("deadline"))
Contact == Signal(Found("contact"))
Niche == Signal(Found("project"))
Freshness == IF age >= 7 THEN 0 ELSE Full - (Full \div 7) * age
Ad == Signal(Found("negative") \/ Seen("ad"))
Spam == Signal(Seen("spam"))
PClient ==
  LET p == (100 * Full - 75 * Ad - 35 * Spam) \div 100
      client == IF p < 0 THEN 0 ELSE p
  IN  IF (Seen("vacancy") \/ Seen("resume")) /\ client > 49 THEN 49 ELSE client

-----------------------------------------------------------------------------
(* The rules *)

Strength ==
  (32 * Need + 24 * Task + 16 * Niche + 12 * Budget + 8 * Contact + 8 * Deadline) \div Full

Verdict(label, confidence) == [label |-> label, confidence |-> confidence]

\* The weak orders are the certain ones.
OrderVerdict_Mutant == Verdict("order", IF Strength >= 58 THEN 55 ELSE 62)

OrderVerdict ==
  LET c == Strength + 18 IN
  Verdict("order", IF Strength < 58 THEN 55
                   ELSE IF c < 62 THEN 62 ELSE IF c > 95 THEN 95 ELSE c)

\* choose_label
Rules ==
  IF markers = {} /\ facts = {} THEN Verdict("irrelevant", 90)
  ELSE IF Seen("spam") THEN Verdict("spam", 92)
  ELSE IF Seen("vacancy") THEN Verdict("vacancy", 86)
  ELSE IF Seen("resume") THEN Verdict("resume", 86)
  ELSE IF Seen("partnership") THEN Verdict("partnership", 82)
  ELSE IF Ad = Full THEN Verdict("service_ad", 88)
  ELSE IF Seen("discussion") /\ Need < Full THEN Verdict("discussion", 76)
  ELSE IF ~Found("keyword") /\ Strength < 42 THEN Verdict("irrelevant", 90)
  ELSE IF Strength >= 42 THEN OrderVerdict
  ELSE IF Seen("discussion") THEN Verdict("discussion", 72)
  ELSE Verdict("irrelevant", 78)

ManualReview(c) == 40 <= c /\ c <= 60

Raw ==
  18 * Need + 16 * Task + 14 * Budget + 8 * Deadline + 10 * Contact + 14 * Niche
    + 8 * Freshness + 12 * PClient - 10 * Ad - 10 * Spam

\* calculate_relevance_score
Score ==
  LET raw == IF Raw < 0 THEN 0 ELSE IF Raw > 100 * Full THEN 100 * Full ELSE Raw
  IN  (raw + Full \div 2) \div Full

\* classify_rules
RulesResult ==
  [label |-> Rules.label, confidence |-> Rules.confidence,
   review |-> ManualReview(Rules.confidence),
   relevance |-> IF Rules.label = "order" THEN Score ELSE 0]

-----------------------------------------------------------------------------
(* The decision *)

\* A model that is sure is followed, without a review, but it gives no score.
Decision ==
  IF ml = None THEN RulesResult
  ELSE [label |-> ml, confidence |-> 70, review |-> FALSE,
        relevance |-> IF ml = "order" THEN RulesResult.relevance ELSE 0]

\* should_create_order
CreatesOrder ==
  /\ Decision.label = "order" /\ ~Decision.review
  /\ Decision.confidence >= 60 /\ Decision.relevance >= 60
  /\ age <= 7

ClassInit == markers \in Texts /\ facts = {} /\ age = 0 /\ ml = None

See(m) ==
  /\ Cardinality(markers) < MaxMarkers /\ markers' = markers \union {m}
  /\ UNCHANGED <<facts, age, ml>>

\* The first budget decides whether it is negotiable.
Find(f) ==
  /\ f \in {"budget", "negotiable"} => facts \intersect {"budget", "negotiable"} = {}
  /\ facts' = facts \union {f} /\ UNCHANGED <<markers, age, ml>>

GrowOld == age < MaxMessageAge /\ age' = age + 1 /\ UNCHANGED <<markers, facts, ml>>

ConsultModel == ml = None /\ ml' \in Labels /\ UNCHANGED <<markers, facts, age>>

ClassNext ==
  (\E m \in Markers : See(m)) \/ (\E f \in Facts : Find(f)) \/ GrowOld \/ ConsultModel

ClassSpec == ClassInit /\ [][ClassNext]_classVars

-----------------------------------------------------------------------------
(* Properties *)

\* A model may veto an order of the rules or lift one out of the manual
\* review, but makes none by itself: without the label of the rules there is
\* no relevance.
OnlyRulesMakeOrders == CreatesOrder => Rules.label = "order"

\* To learn more of an order (a deadline, a contact, a budget) never loses it,
\* and to wait never makes one.
MoreFactsKeepTheOrder ==
  [][/\ facts \subseteq facts' /\ facts' # facts /\ "negative" \notin facts' /\ CreatesOrder
          => CreatesOrder'
     /\ age' > age /\ CreatesOrder' => CreatesOrder]_classVars

=============================================================================
