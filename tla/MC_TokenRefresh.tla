-------------------------- MODULE MC_TokenRefresh --------------------------
(***************************************************************************)
(* Instances of TokenRefresh for TLC.                                      *)
(***************************************************************************)
EXTENDS TokenRefresh, TLC

(* The callers are interchangeable.                                        *)
ProcSymmetry == Permutations(Proc)
=============================================================================
