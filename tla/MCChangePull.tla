----------------------------- MODULE MCChangePull -----------------------------
(***************************************************************************)
(* Instances of ChangePull for model checking.                             *)
(***************************************************************************)
EXTENDS ChangePull, TLC

CONSTANTS n1, n2

NoteSymmetry == Permutations(Notes)
=============================================================================
