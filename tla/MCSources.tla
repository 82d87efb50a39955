----------------------------- MODULE MCSources ------------------------------
(* Small instances of Sources for TLC. *)
EXTENDS Sources

CONSTANTS s1, s2, s3, a1, a2, r1, v1, v2, Scenes

ByLabel == [a \in Pool |-> IF a = a1 THEN 1 ELSE 2]
Hashes == [s \in SourceIds |-> IF s = s1 THEN 3 ELSE 4]

-----------------------------------------------------------------------------
(***************************************************************************)
(* Two open sources and Telegram, who makes their account wait twice; two  *)
(* validations of a source at a time, with its collection, or without, but *)
(* with an operator or a failure; one validation with all of these; and a  *)
(* source whose name belongs to another.                                   *)
(***************************************************************************)

VARIABLE scene

MCInit ==
  /\ Init /\ scene \in Scenes
  /\ \E open \in SUBSET SourceIds :
       /\ open = {s \in SourceIds : row[s].status = "ok"}
       /\ \/ scene = "pool" /\ open = {s1, s2}
          \/ scene \in {"meet", "overlap", "operator"} /\ open \in {{}, {s1}}
          \/ scene = "clash" /\ open = {}

Only(s) == \A t \in SourceIds \ {s} : row'[t].status = "absent"

MCNext ==
  /\ Next /\ UNCHANGED scene
  /\ \/ scene = "pool" /\ row'[s3].status = "absent" /\ requests' + failures' = 0
     \/ /\ scene = "meet" /\ Only(s1) /\ requests' + failures' = 0 /\ floods' < 2
     \/ /\ scene = "overlap" /\ Only(s1) /\ requests' + failures' < 2 /\ floods' < 2
        /\ job'[s1].step = "idle"
     \/ /\ scene = "operator" /\ Only(s1) /\ requests' + failures' < 2 /\ floods' < 2
        /\ check'[v2].step = "idle"
     \/ /\ scene = "clash" /\ Only(s3) /\ requests' + failures' = 0 /\ floods' < 2
        /\ check'[v2].step = "idle"

MCVars == <<vars, scene>>
MCSpec == MCInit /\ [][MCNext]_MCVars
MCFairSpec == MCSpec /\ Fairness

=============================================================================
