---------------------------- MODULE AccountLife ----------------------------
(***************************************************************************)
(* What the account store promises of the ids in its index, whoever adds   *)
(* and deletes accounts at the same time and writes to them late: an id    *)
(* enters the pool once, is removed once, and has no other life.           *)
(***************************************************************************)

CONSTANT Id

VARIABLE life

Stage == { "new", "pooled", "gone" }

TypeOK == life \in [Id -> Stage]

Init == life = [i \in Id |-> "new"]

Enter(i)  == life[i] = "new" /\ life' = [life EXCEPT ![i] = "pooled"]

Remove(i) == life[i] = "pooled" /\ life' = [life EXCEPT ![i] = "gone"]

Next == \E i \in Id : Enter(i) \/ Remove(i)

Spec == Init /\ [][Next]_life
=============================================================================
