------------------------ MODULE MCDuplicateDetection ------------------------
(* Small instances of DuplicateDetection for TLC. *)
EXTENDS DuplicateDetection, TLC

CONSTANTS o1, o2, o3, w1

\* o1 was published first.  The keys, which are random, come in another order.
Places == (o1 :> 1 @@ o2 :> 2 @@ o3 :> 3)
Published == [o \in Orders |-> Places[o]]
Keys == [o \in Orders |-> 4 - Places[o]]

\* One order in several sources
OneText == {[raw |-> 1, norm |-> 1]}
AllSame == [o \in Orders |-> [raw |-> 1, norm |-> 1]]

-----------------------------------------------------------------------------
(***************************************************************************)
(* Two workers detect two posts at once, or one worker detects three, one  *)
(* of them again.  Not three posts by two workers, nor one post by both:   *)
(* then a detection that missed the earliest post may write to the group   *)
(* after the one that saw it, and the orders need not end together.        *)
(***************************************************************************)

VARIABLE crew

Crowded == crew = Workers

MCInit == Init /\ (crew = Workers \/ crew = {w1})

MCNext ==
  /\ Next /\ UNCHANGED crew
  /\ IF Crowded THEN o3 \notin known' /\ events' = 0
     ELSE \A w \in Workers \ crew : tx'[w] = IdleTx

MCSpec == MCInit /\ [][MCNext]_<<vars, crew>> /\ Fairness

=============================================================================
