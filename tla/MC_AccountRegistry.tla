------------------------- MODULE MC_AccountRegistry -------------------------
(***************************************************************************)
(* Instances of AccountRegistry for TLC.                                   *)
(***************************************************************************)
EXTENDS AccountRegistry, TLC

CONSTANTS MaxOrgs, MaxCaps   \* BOUNDs: organisations of a user, capabilities

(* An organisation with "chat" has a capability; how many another one has  *)
(* does not matter.                                                        *)
Listings ==
    UNION { [1..n -> { r \in [ org : Org, chat : BOOLEAN, caps : 0..MaxCaps ] :
                         r.chat <=> r.caps > 0 }] : n \in 0..MaxOrgs }

Symmetry == Permutations(Id) \cup Permutations(Org) \cup Permutations(Admin)

=============================================================================
