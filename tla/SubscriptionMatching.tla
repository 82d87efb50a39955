------------------------ MODULE SubscriptionMatching ------------------------
(***************************************************************************)
(* Which orders a subscription is told of                                  *)
(* (app/services/subscription_matching.py).  The text of an order is the   *)
(* set of the keywords that occur in it, a None is a NULL.  The owner      *)
(* widens the subscription one filter after the other, the order ages.     *)
(***************************************************************************)
EXTENDS Integers, NullValue

CONSTANTS
  Narrow,  \* subscriptions to start from
  Offers,  \* orders there may be
  Words,   \* keywords
  MaxOrderAge \* bound: days

SubscriptionFields ==
  {"enabled", "relevance", "types", "min", "max", "days", "negative", "positive"}
OfferFields == {"relevance", "type", "from", "to", "age", "words"}

ASSUME MatchAssumption ==
  /\ \A s \in Narrow : /\ s = [f \in SubscriptionFields |-> s[f]]
                       /\ s.days \in Nat \union {None}
  /\ \A o \in Offers : o = [f \in OfferFields |-> o[f]] /\ o.age \in Nat
  /\ MaxOrderAge \in Nat

VARIABLES sub, order

matchVars == <<sub, order>>

\* Twice the amount.  A lower bound of 0 counts as none, an upper one does not.
Representative(o) ==
  IF o.from # None /\ o.to # None THEN o.from + o.to
  ELSE IF o.from \notin {None, 0} THEN 2 * o.from
  ELSE IF o.to # None THEN 2 * o.to
  ELSE None

KeywordHit(o, keywords) == o.words \intersect keywords # {}

In(filter, value) == filter # {} => value \in filter

BudgetFits(s, o) ==
  LET amount == Representative(o) IN
  s.min # None \/ s.max # None =>
    /\ amount # None
    /\ s.min # None => amount >= 2 * s.min
    /\ s.max # None => amount <= 2 * s.max

\* An empty list of positive keywords is no exception.
Matches_Mutant(s, o) ==
  /\ s.enabled /\ (s.relevance # None => o.relevance >= s.relevance)
  /\ In(s.types, o.type) /\ BudgetFits(s, o)
  /\ ~KeywordHit(o, s.negative) /\ KeywordHit(o, s.positive)

\* types stands for project types, sources and currencies
Matches(s, o) ==
  /\ s.enabled
  /\ s.relevance # None => o.relevance >= s.relevance
  /\ In(s.types, o.type)
  /\ BudgetFits(s, o)
  /\ s.days # None => o.age <= s.days
  /\ ~KeywordHit(o, s.negative)
  /\ s.positive # {} => KeywordHit(o, s.positive)

\* One filter removed, or one that lets more through
Wider(s) ==
  {[s EXCEPT !.enabled = TRUE], [s EXCEPT !.types = {}], [s EXCEPT !.positive = {}]}
  \union {[s EXCEPT ![f] = None] : f \in {"relevance", "min", "max", "days"}}
  \union {[s EXCEPT !.negative = @ \ {w}] : w \in Words}
  \union {[s EXCEPT !.positive = IF @ = {} THEN {} ELSE @ \union {w}] : w \in Words}

MatchInit == sub \in Narrow /\ order \in Offers

Widen == sub' \in Wider(sub) /\ UNCHANGED order

GrowOlder == order.age < MaxOrderAge /\ order' = [order EXCEPT !.age = @ + 1] /\ UNCHANGED sub

MatchNext == Widen \/ GrowOlder

MatchSpec == MatchInit /\ [][MatchNext]_matchVars

-----------------------------------------------------------------------------
(* Properties *)

\* Removing or loosening a filter never loses an order; time alone never
\* brings one.
WiderMatchesMore ==
  [][/\ sub' \in Wider(sub) /\ order' = order /\ Matches(sub, order) => Matches(sub', order)
     /\ order'.age > order.age /\ Matches(sub, order') => Matches(sub, order)]_matchVars

=============================================================================
