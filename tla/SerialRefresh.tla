--------------------------- MODULE SerialRefresh ---------------------------
(***************************************************************************)
(* What the token manager promises for one account, however many relay     *)
(* processes use it: refreshes happen one at a time, each ends with either *)
(* a younger token in the store or the token that was there before, and    *)
(* the token in the store is never replaced by an older one.               *)
(***************************************************************************)
EXTENDS Naturals

CONSTANTS Proc, NoProc

VARIABLES
    holder,  \* who is refreshing, if anyone
    gen      \* the generation of the stored token

TypeOK == holder \in Proc \cup {NoProc} /\ gen \in Nat

Init == holder = NoProc /\ gen = 0

Begin(p) == holder = NoProc /\ holder' = p /\ UNCHANGED gen

Commit(p) ==
    /\ holder = p /\ holder' = NoProc
    /\ gen' \in Nat /\ gen' > gen

GiveUp(p) == holder = p /\ holder' = NoProc /\ UNCHANGED gen

Next == \E p \in Proc : Begin(p) \/ Commit(p) \/ GiveUp(p)

Spec == Init /\ [][Next]_<< holder, gen >>
=============================================================================
