------------------------------ MODULE MCParts -------------------------------
(***************************************************************************)
(* Small instances for TLC of the parts that share no state with the rest  *)
(* of the system or with each other.  A behaviour is one of one part, the  *)
(* others stand still: what is checked is the sum of their state spaces.   *)
(***************************************************************************)
EXTENDS Dictionaries, Subscriptions, SubscriptionMatching, QuietHours, MessagePartitions,
        Classification, SemanticDedup, KeywordMatching, Deadlines, ModelArtifact, TLC

CONSTANTS pos, neg, t1, t2, o1, o2, o3

VARIABLE part

All == <<dictVars, subVars, matchVars, quietVars, partVars, classVars, semVars, keywordVars,
         deadlineVars, artifactVars>>

vars == <<part, All>>

Parts == {"dictionaries", "subscriptions", "matching", "quiet", "partitions", "classification",
          "semantic", "keywords", "deadlines", "artifact"}

First(S) == CHOOSE x \in S : TRUE

Init ==
  /\ part \in Parts
  /\ DictInit /\ SubInit /\ PartInit /\ SemInit /\ KeywordInit /\ ArtifactInit
  /\ IF part = "matching" THEN MatchInit ELSE sub = First(Narrow) /\ order = First(Offers)
  /\ IF part = "quiet" THEN QuietInit
     ELSE zone = First(Settings) /\ now = 0 /\ asked = -1 /\ due = -1
  /\ IF part = "classification" THEN ClassInit
     ELSE markers = First(Texts) /\ facts = {} /\ age = 0 /\ ml = None
  /\ IF part = "deadlines" THEN DeadlineInit
     ELSE /\ current = <<FirstYear, 1, 1>>
          /\ saidDay = First(Days) /\ saidMonth = First(Months) /\ saidYear = Unsaid

\* What part p does, the variables of the others being rest
Alone(p, rest) == part = p /\ UNCHANGED <<part, rest>>

Next ==
  \/ /\ Alone("dictionaries", <<subVars, matchVars, quietVars, partVars, classVars, semVars,
                                keywordVars, deadlineVars, artifactVars>>)
     /\ DictNext \/ \E r \in Readers : StartReading(r) \/ GetRules(r) \/ StoreRules(r)
  \/ /\ Alone("subscriptions", <<dictVars, matchVars, quietVars, partVars, classVars, semVars,
                                 keywordVars, deadlineVars, artifactVars>>)
     /\ SubNext
  \/ /\ Alone("matching", <<dictVars, subVars, quietVars, partVars, classVars, semVars,
                            keywordVars, deadlineVars, artifactVars>>)
     /\ MatchNext
  \/ /\ Alone("quiet", <<dictVars, subVars, matchVars, partVars, classVars, semVars,
                         keywordVars, deadlineVars, artifactVars>>)
     /\ QuietNext
  \/ /\ Alone("partitions", <<dictVars, subVars, matchVars, quietVars, classVars, semVars,
                              keywordVars, deadlineVars, artifactVars>>)
     /\ PartNext
  \/ /\ Alone("classification", <<dictVars, subVars, matchVars, quietVars, partVars, semVars,
                                  keywordVars, deadlineVars, artifactVars>>)
     /\ ClassNext
  \/ /\ Alone("semantic", <<dictVars, subVars, matchVars, quietVars, partVars, classVars,
                            keywordVars, deadlineVars, artifactVars>>)
     /\ SemNext
  \/ /\ Alone("keywords", <<dictVars, subVars, matchVars, quietVars, partVars, classVars,
                            semVars, deadlineVars, artifactVars>>)
     /\ KeywordNext
  \/ /\ Alone("deadlines", <<dictVars, subVars, matchVars, quietVars, partVars, classVars,
                             semVars, keywordVars, artifactVars>>)
     /\ Tomorrow
  \/ /\ Alone("artifact", <<dictVars, subVars, matchVars, quietVars, partVars, classVars,
                            semVars, keywordVars, deadlineVars>>)
     /\ ArtifactNext

Spec == Init /\ [][Next]_vars

-----------------------------------------------------------------------------
(* Values of the constants *)

Plain == [present |-> TRUE, valid |-> TRUE, regex |-> FALSE, enabled |-> TRUE]
Rewrites == {[Plain EXCEPT !.valid = FALSE], [Plain EXCEPT !.regex = TRUE],
             [Plain EXCEPT !.valid = FALSE, !.regex = TRUE],
             [Plain EXCEPT !.enabled = FALSE]}
OnePositive == {[k \in Keywords |-> IF k = pos THEN Plain ELSE NoRow]}

Bodies ==
  {[start |-> t1, end |-> t1], [start |-> t2, end |-> t1], [start |-> None],
   [start |-> t2], [min |-> 2], [max |-> 1], [min |-> 1, max |-> None],
   [enabled |-> FALSE], [enabled |-> TRUE]}

Filters3 ==
  [enabled : {FALSE}, relevance : {70}, types : {{"web"}}, min : {None, 2},
   max : {1, 3}, days : {1}, negative : {{"cheap"}}, positive : {{"shop"}, {"shop", "bot"}}]

Orders3 ==
  [relevance : {60}, type : {None, "web"}, from : {None, 0, 4}, to : {None, 1, 4},
   age : {0}, words : {{}, {"bot"}, {"cheap", "shop"}}]

QuietSettings ==
  [start : 0 .. 7, end : 0 .. 7, change : {9, 12}, before : 1 .. 3, after : 1 .. 3]

PlainTexts == SUBSET {"need", "task"}

Offer(t, k) == [text |-> t, type |-> None, contacts |-> k, budget |-> None,
                deadline |-> None, performer |-> FALSE]
SaidOffers == {Offer("a", None), Offer("b", "x"), Offer("c", "y"), Offer("d", None)}
SameTexts == {{"a", "b"}, {"a", "c"}, {"b", "c"}}
NearTexts == {{"a", "d"}}
ByAge == (o1 :> 1) @@ (o2 :> 2) @@ (o3 :> 3)

=============================================================================
