-------------------------- MODULE MCAccountDeletion --------------------------
(***************************************************************************)
(* Small instances of AccountDeletion.                                     *)
(***************************************************************************)
EXTENDS AccountDeletion, TLC

CONSTANTS q1, q2, l1

AllFaults == {"server", "worker"}
NoFaults == {}
RequestSymmetry == Permutations(Requests)
=============================================================================
