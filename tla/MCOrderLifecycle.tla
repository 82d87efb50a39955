-------------------------- MODULE MCOrderLifecycle --------------------------
(* Small instances of OrderLifecycle for TLC. *)
EXTENDS OrderLifecycle

CONSTANTS c1, Scenes

-----------------------------------------------------------------------------
(***************************************************************************)
(* In "crowd" several classification processes and references meet; in     *)
(* "alone" there is one classification process, and nothing refers to the  *)
(* order.                                                                  *)
(***************************************************************************)

VARIABLE scene

MCInit == Init /\ scene \in Scenes

MCNext ==
  /\ Next /\ UNCHANGED scene
  /\ \/ scene = "crowd"
     \/ /\ scene = "alone" /\ refs' = {}
        /\ \A c \in Classifiers \ {c1} : classifier'[c].phase = "idle"

MCVars == <<vars, scene>>
MCSpec == MCInit /\ [][MCNext]_MCVars
MCFairSpec == MCSpec /\ Fairness


=============================================================================
