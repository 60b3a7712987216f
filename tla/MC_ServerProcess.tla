-------------------------- MODULE MC_ServerProcess --------------------------
(***************************************************************************)
(* Instances of ServerProcess for TLC: accounts with one proxy under two   *)
(* users, and with a proxy on another port.  (An account without a proxy   *)
(* as a fourth one doubles the states; the theorems are about any proxies, *)
(* and none.)                                                              *)
(***************************************************************************)
EXTENDS ServerProcess, TLC

CONSTANTS alice, bob, other

Proxies ==
    [ a \in Account |->
        CASE a = alice -> [host |-> "h", port |-> 1, user |-> "alice"]
          [] a = bob   -> [host |-> "h", port |-> 1, user |-> "bob"]
          [] a = other -> [host |-> "h", port |-> 2, user |-> "alice"] ]
=============================================================================
