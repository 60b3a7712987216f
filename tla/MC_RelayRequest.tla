-------------------------- MODULE MC_RelayRequest --------------------------
(***************************************************************************)
(* Instances of RelayRequest for TLC: accounts of equal priorities, or one *)
(* preferred to the others.                                                *)
(***************************************************************************)
EXTENDS RelayRequest

CONSTANT Preferred    \* the accounts of higher priority

TwoPriorities == [a \in Account |-> IF a \in Preferred THEN 60 ELSE 50]
=============================================================================
