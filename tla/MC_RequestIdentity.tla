------------------------- MODULE MC_RequestIdentity -------------------------
(***************************************************************************)
(* Instances of RequestIdentity for TLC: bodies of a few blocks, and       *)
(* bodies with all kinds of user ids.                                      *)
(***************************************************************************)
EXTENDS RequestIdentity, SequencesExt

CONSTANTS Identified,   \* the accounts that have an account_uuid
          AnyUUID,
          MaxSystem, MaxMessages   \* BOUNDs: the numbers of blocks

UUIDs == [a \in Account |-> IF a \in Identified THEN AnyUUID ELSE NoUUID]

Shapes == [ system   : BoundedSeq(Block, MaxSystem),
            messages : BoundedSeq(Unbilled, MaxMessages),
            user     : {NoUser},
            prompt   : {TRUE} ]

Users == [ system : {<< >>}, messages : {<< >>},
           user : ClientUser \cup {NoUser}, prompt : BOOLEAN ]

(* The blocks and the user id do not depend on each other.                 *)
Bodies == Shapes \cup Users
=============================================================================
