---------------------------- MODULE MCCollection ----------------------------
(* Small instances of Collection for TLC. *)
EXTENDS Collection, TLC

CollectorSymmetry == Permutations(Collectors)

=============================================================================
