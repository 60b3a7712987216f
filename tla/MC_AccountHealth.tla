-------------------------- MODULE MC_AccountHealth --------------------------
(***************************************************************************)
(* Instances of AccountHealth for TLC.  One account: the records of        *)
(* different accounts share nothing but the cleanup's pass over them.      *)
(***************************************************************************)
EXTENDS AccountHealth, TLC

Reply(code, fiveHour, resetIn, retryAfter, ban) ==
    [ code |-> code, fiveHour |-> fiveHour, resetIn |-> resetIn,
      retryAfter |-> retryAfter, ban |-> ban ]

Ok         == Reply(200, "", NoTime, 0, FALSE)
Allowed    == Reply(200, "allowed", NoTime, 0, FALSE)
Warning    == Reply(200, "allowed_warning", NoTime, 0, FALSE)
Rejected   == Reply(429, "rejected", 2, 0, FALSE)
NoReset    == Reply(429, "rejected", NoTime, 1, FALSE)
Overloaded == Reply(529, "", NoTime, 0, FALSE)
Banned     == Reply(403, "", NoTime, 0, TRUE)
Forbidden  == Reply(403, "", NoTime, 0, FALSE)
Denied     == Reply(401, "", NoTime, 0, FALSE)
Broken     == Reply(500, "allowed_warning", 2, 0, FALSE)

AllResponses   == { Ok, Allowed, Warning, Rejected, NoReset, Overloaded,
                    Banned, Forbidden, Denied, Broken }
StopResponses  == { Ok, Allowed, Warning, Rejected, NoReset }
BlockResponses == { Ok, Overloaded, Banned }

RequestSymmetry == Permutations(Request)
=============================================================================
