------------------------ MODULE MC_StainlessBinding ------------------------
(***************************************************************************)
(* Instances of StainlessBinding for TLC.                                  *)
(***************************************************************************)
EXTENDS StainlessBinding, TLC

Symmetry == Permutations(Request) \cup Permutations(Key) \cup Permutations(Value)

=============================================================================
