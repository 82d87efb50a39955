------------------------ MODULE MCMessageProcessing -------------------------
(* Small instances of MessageProcessing for TLC. *)
EXTENDS MessageProcessing

CONSTANTS pos, neg, m1, e1, w1, w2

Plain == [present |-> TRUE, valid |-> TRUE, regex |-> FALSE, enabled |-> TRUE]
Broken == [Plain EXCEPT !.valid = FALSE, !.regex = TRUE]
Rewrites == {[Plain EXCEPT !.regex = TRUE]}
SoundOrBroken == {[k \in Keywords |-> Plain], [k \in Keywords |-> Broken]}

=============================================================================
