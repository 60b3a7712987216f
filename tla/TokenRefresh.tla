---------------------------- MODULE TokenRefresh ----------------------------
(***************************************************************************)
(* EnsureValidToken and ForceRefresh for one account, called by concurrent *)
(* requests of one or several relay processes that share a Redis.  The     *)
(* stored tokens are read and written by single Redis commands; the lock   *)
(* is a key set with SETNX and a TTL and deleted by a script that compares *)
(* its value first; the OAuth server is external, and every refresh it     *)
(* grants makes a new generation of access and refresh token.              *)
(*                                                                         *)
(* A caller may end anywhere (its process dies, or the context of its      *)
(* request is canceled, on which every later Redis command and the OAuth   *)
(* call fail): Abandon.  A single command may fail: the Lose actions.      *)
(*                                                                         *)
(* Time: the lock protects only holders that end before its TTL.  A holder *)
(* makes one OAuth call, which the HTTP client cuts off after 30 seconds,  *)
(* and a few Redis commands with timeouts of their own; HoldLimit is a     *)
(* bound on the sum, and the clock does not pass it while one holds.       *)
(***************************************************************************)
EXTENDS Integers

CONSTANTS
    Proc,       \* callers
    NoProc,
    LockTTL,    \* 60 seconds
    HoldLimit,  \* from taking the lock to the last write under it
    Wait,       \* 2 seconds of sleep when the lock is taken
    Advance,    \* cfg.TokenRefreshAdvance
    Life,       \* expires_in of a new token
    Horizon,    \* BOUND: calls start before this time
    MaxTime,    \* BOUND: the clock stops here
    MaxIssued   \* BOUND: generations the server grants

ASSUME RefreshAssumption ==
    /\ NoProc \notin Proc
    /\ LockTTL \in Nat /\ HoldLimit \in Nat /\ Wait \in Nat
    /\ Advance \in Nat /\ Life \in Nat
    /\ Horizon \in Nat /\ MaxTime \in Nat /\ MaxIssued \in Nat
    /\ HoldLimit < LockTTL

(* Generation gen of the tokens; refresh is FALSE if the server sent no    *)
(* refresh token along, which is stored all the same, as an empty one.     *)
Token   == [ gen : Nat, expires : Nat, refresh : BOOLEAN ]
NoToken == [ gen |-> -1, expires |-> 0, refresh |-> FALSE ]

VARIABLES
    now,
    stored,   \* accessToken, refreshToken and expiresAt of the account
    status,   \* the account's status field
    issued,   \* the OAuth server: the last generation it granted
    orphans,  \* the OAuth server: requests under way whose caller is gone
    lost,     \* a granted refresh token did not make it to the store
    lock,     \* the key claude:token_refresh_lock:<id>
    pc,       \* per caller: the next command
    got,      \* per caller: the token in hand, and at last the result
    since,    \* per caller: when it took the lock or went to sleep
    base      \* per caller: the stored generation when it was called

server == << issued, orphans, lost >>
vars == << now, stored, status, issued, orphans, lost, lock, pc, got, since, base >>

(* "granted" and "refused" are calls whose answer is on its way.           *)
CriticalPC == {"read", "call", "granted", "refused", "store", "fail"}
PC == {"idle", "fast", "lock", "asleep", "recheck", "release"} \cup CriticalPC

Holding(p) == pc[p] \in CriticalPC

TypeOK ==
    /\ now \in Nat
    /\ stored \in Token
    /\ status \in {"active", "error"}
    /\ issued \in Nat
    /\ orphans \subseteq Nat
    /\ lost \in BOOLEAN
    /\ lock \in [ owner : Proc \cup {NoProc}, until : Nat ]
    /\ pc \in [Proc -> PC]
    /\ got \in [Proc -> Token \cup {NoToken}]
    /\ since \in [Proc -> Nat]
    /\ base \in [Proc -> Nat]

Init ==
    /\ now = 0
    /\ stored = [ gen |-> 0, expires |-> Life, refresh |-> TRUE ]
    /\ status = "active"
    /\ issued = 0 /\ orphans = {} /\ lost = FALSE
    /\ lock = [ owner |-> NoProc, until |-> 0 ]
    /\ pc = [p \in Proc |-> "idle"]
    /\ got = [p \in Proc |-> NoToken]
    /\ since = [p \in Proc |-> 0]
    /\ base = [p \in Proc |-> 0]

Goto(p, label) == pc' = [pc EXCEPT ![p] = label]
Hold(p, token) == got' = [got EXCEPT ![p] = token]

(* The timer of p is read only while p holds or sleeps.                    *)
StopTimer(p) == since' = [since EXCEPT ![p] = 0]

-----------------------------------------------------------------------------
(* EnsureValidToken up to the refresh.                                     *)

Begin(p, label) ==
    /\ pc[p] = "idle" /\ now < Horizon
    /\ Goto(p, label)
    /\ Hold(p, NoToken)
    /\ base' = [base EXCEPT ![p] = stored.gen]
    /\ UNCHANGED << now, stored, status, server, lock, since >>

(* The first read, of expiresAt.                                           *)
EnsureValidToken(p) ==
    Begin(p, IF now < stored.expires - Advance THEN "fast" ELSE "lock")

ForceRefresh(p) == Begin(p, "lock")

(* The second read, of the token itself.                                   *)
ReturnStored(p) ==
    /\ pc[p] = "fast"
    /\ Goto(p, "idle")
    /\ Hold(p, stored)
    /\ UNCHANGED << now, stored, status, server, lock, since, base >>

-----------------------------------------------------------------------------
(* The lock.                                                               *)

LockTaken == lock.owner # NoProc /\ now < lock.until

(* Mutants: the result of SETNX is not looked at; the TTL is too short for *)
(* the OAuth call; there is no TTL.                                        *)
AcquireAlways(p) ==
    /\ pc[p] = "lock"
    /\ since' = [since EXCEPT ![p] = now]
    /\ Goto(p, "read") /\ lock' = [owner |-> p, until |-> now + LockTTL]
    /\ UNCHANGED << now, stored, status, server, got, base >>

AcquireFor(p, ttl) ==
    /\ pc[p] = "lock"
    /\ since' = [since EXCEPT ![p] = now]
    /\ IF LockTaken
         THEN Goto(p, "asleep") /\ UNCHANGED lock
         ELSE Goto(p, "read") /\ lock' = [owner |-> p, until |-> now + ttl]
    /\ UNCHANGED << now, stored, status, server, got, base >>

AcquireBriefly(p)    == AcquireFor(p, HoldLimit - 1)
AcquireForEver(p)    == AcquireFor(p, MaxTime + 1)

AcquireRefreshLock(p) ==
    /\ pc[p] = "lock"
    /\ since' = [since EXCEPT ![p] = now]
    /\ IF LockTaken
         THEN Goto(p, "asleep") /\ UNCHANGED lock
         ELSE Goto(p, "read") /\ lock' = [owner |-> p, until |-> now + LockTTL]
    /\ UNCHANGED << now, stored, status, server, got, base >>

(* SETNX takes the lock, but its reply is lost: the call fails, or the     *)
(* client sends the command again and finds its own key in the way.        *)
LoseAcquire(p) ==
    /\ pc[p] = "lock" /\ ~ LockTaken
    /\ lock' = [owner |-> p, until |-> now + LockTTL]
    /\ \/ Goto(p, "idle") /\ UNCHANGED since
       \/ Goto(p, "asleep") /\ since' = [since EXCEPT ![p] = now]
    /\ Hold(p, NoToken)
    /\ UNCHANGED << now, stored, status, server, base >>

(* Mutant: DEL without the comparison.                                     *)
ReleaseAnyLock(p) ==
    /\ pc[p] = "release"
    /\ Goto(p, "idle")
    /\ lock' = [lock EXCEPT !.owner = NoProc]
    /\ UNCHANGED << now, stored, status, server, got, since, base >>

(* Compare and delete.  got is the result, NoToken for an error.           *)
ReleaseRefreshLock(p) ==
    /\ pc[p] = "release"
    /\ Goto(p, "idle")
    /\ lock' = IF LockTaken /\ lock.owner = p THEN [lock EXCEPT !.owner = NoProc]
               ELSE lock
    /\ UNCHANGED << now, stored, status, server, got, since, base >>

LoseRelease(p) ==
    /\ pc[p] = "release"
    /\ Goto(p, "idle")
    /\ UNCHANGED << now, stored, status, server, lock, got, since, base >>

-----------------------------------------------------------------------------
(* Who does not get the lock sleeps, then reads token and expiry.          *)

(* Mutant: the sleeper waits for a valid token instead of giving up.       *)
ReadWhenValid(p) ==
    /\ pc[p] = "asleep" /\ now >= since[p] + Wait /\ stored.expires > now
    /\ Goto(p, "recheck")
    /\ StopTimer(p)
    /\ Hold(p, stored)
    /\ UNCHANGED << now, stored, status, server, lock, base >>

ReadAfterWait(p) ==
    /\ pc[p] = "asleep" /\ now >= since[p] + Wait
    /\ Goto(p, "recheck")
    /\ StopTimer(p)
    /\ Hold(p, stored)
    /\ UNCHANGED << now, stored, status, server, lock, base >>

Recheck(p) ==
    /\ pc[p] = "recheck"
    /\ Goto(p, "idle")
    /\ Hold(p, IF stored.expires > now THEN got[p] ELSE NoToken)
    /\ UNCHANGED << now, stored, status, server, lock, since, base >>

-----------------------------------------------------------------------------
(* Under the lock.                                                         *)

GetRefreshToken(p) ==
    /\ pc[p] = "read"
    /\ Goto(p, IF stored.refresh THEN "call" ELSE "fail")
    /\ Hold(p, stored)
    /\ UNCHANGED << now, stored, status, server, lock, since, base >>

(* The server grants the refresh, and at times without a refresh token of  *)
(* its own; it may or may not still accept a superseded one.               *)
Grant(p) ==
    /\ pc[p] = "call" /\ issued < MaxIssued
    /\ Goto(p, "granted")
    /\ \E refresh \in BOOLEAN :
          /\ Hold(p, [ gen |-> issued + 1, expires |-> now + Life,
                       refresh |-> refresh ])
          /\ lost' = (lost \/ ~ refresh)
    /\ issued' = issued + 1
    /\ UNCHANGED << now, stored, status, orphans, lock, since, base >>

Refuse(p) ==
    /\ pc[p] = "call"
    /\ Goto(p, "refused")
    /\ UNCHANGED << now, stored, status, server, lock, got, since, base >>

Answer(p) ==
    /\ \/ pc[p] = "granted" /\ Goto(p, "store")
       \/ pc[p] = "refused" /\ Goto(p, "fail")
    /\ UNCHANGED << now, stored, status, server, lock, got, since, base >>

(* No usable answer in time, or the read before the call failed.           *)
LoseAnswer(p) ==
    /\ pc[p] \in {"read", "call", "granted"}
    /\ Goto(p, "fail")
    /\ lost' = (lost \/ pc[p] = "granted")
    /\ orphans' = IF pc[p] = "call" THEN orphans \cup {got[p].gen} ELSE orphans
    /\ UNCHANGED << now, stored, status, issued, lock, got, since, base >>

(* Mutant: the new refresh token is not stored.                            *)
StoreAccessToken(p) ==
    /\ pc[p] = "store"
    /\ Goto(p, "release")
    /\ StopTimer(p)
    /\ stored' = [stored EXCEPT !.expires = now + Life]
    /\ status' = "active"
    /\ UNCHANGED << now, server, lock, got, base >>

(* The token's lifetime counts from the write.                             *)
StoreTokens(p) ==
    /\ pc[p] = "store"
    /\ Goto(p, "release")
    /\ StopTimer(p)
    /\ stored' = [got[p] EXCEPT !.expires = now + Life]
    /\ status' = "active"
    /\ UNCHANGED << now, server, lock, got, base >>

(* The write fails, or only its reply is lost.                             *)
LoseStore(p) ==
    /\ pc[p] = "store"
    /\ Goto(p, "release")
    /\ StopTimer(p)
    /\ Hold(p, NoToken)
    /\ \/ lost' = TRUE /\ UNCHANGED << stored, status >>
       \/ /\ stored' = [got[p] EXCEPT !.expires = now + Life]
          /\ status' = "active"
          /\ UNCHANGED lost
    /\ UNCHANGED << now, issued, orphans, lock, base >>

(* Mutant: a status the Account type does not know.                        *)
MarkExpired(p) ==
    /\ pc[p] = "fail"
    /\ Goto(p, "release")
    /\ StopTimer(p)
    /\ Hold(p, NoToken)
    /\ status' = "expired"
    /\ UNCHANGED << now, stored, server, lock, base >>

MarkError(p) ==
    /\ pc[p] = "fail"
    /\ Goto(p, "release")
    /\ StopTimer(p)
    /\ Hold(p, NoToken)
    /\ status' = "error"
    /\ UNCHANGED << now, stored, server, lock, base >>

-----------------------------------------------------------------------------
(* The environment.                                                        *)

Abandon(p) ==
    /\ pc[p] # "idle"
    /\ Goto(p, "idle")
    /\ StopTimer(p)
    /\ Hold(p, NoToken)
    /\ lost' = (lost \/ pc[p] \in {"granted", "store"})
    /\ orphans' = IF pc[p] = "call" THEN orphans \cup {got[p].gen} ELSE orphans
    /\ UNCHANGED << now, stored, status, issued, lock, base >>

(* The server answers a request nobody waits for any more, or drops it.    *)
ServeOrphan ==
    /\ \E g \in orphans : orphans' = orphans \ {g}
    /\ \/ issued < MaxIssued /\ issued' = issued + 1 /\ lost' = TRUE
       \/ UNCHANGED << issued, lost >>
    /\ UNCHANGED << now, stored, status, lock, pc, got, since, base >>

(* handleOAuthAdd for this account: a new grant, stored without the lock.  *)
Resubmit ==
    /\ now < Horizon /\ issued < MaxIssued
    /\ issued' = issued + 1
    /\ stored' = [ gen |-> issued + 1, expires |-> now + Life, refresh |-> TRUE ]
    /\ status' = "active"
    /\ UNCHANGED << now, orphans, lost, lock, pc, got, since, base >>

(* BOUND: from Horizon on the clock waits for those who have yet to ask    *)
(* for the lock, so that it does not stop before the last sleeper wakes.   *)
Tick ==
    /\ now < MaxTime
    /\ now >= Horizon => \A p \in Proc : pc[p] # "lock"
    /\ \A p \in Proc : Holding(p) => now < since[p] + HoldLimit
    /\ now' = now + 1
    /\ UNCHANGED << stored, status, server, lock, pc, got, since, base >>

Step(p) ==
    \/ ReturnStored(p) \/ AcquireRefreshLock(p) \/ ReleaseRefreshLock(p)
    \/ ReadAfterWait(p) \/ Recheck(p)
    \/ GetRefreshToken(p) \/ Grant(p) \/ Refuse(p) \/ Answer(p)
    \/ StoreTokens(p) \/ MarkError(p)

Fault(p) == LoseAcquire(p) \/ LoseRelease(p) \/ LoseAnswer(p) \/ LoseStore(p) \/ Abandon(p)

Next ==
    \/ \E p \in Proc : EnsureValidToken(p) \/ ForceRefresh(p) \/ Step(p) \/ Fault(p)
    \/ ServeOrphan
    \/ Tick

Spec == Init /\ [][Next]_vars

(* The same, with an administrator who submits the account again.          *)
AdminSpec == Init /\ [][Next \/ Resubmit]_vars

(* A call in progress goes on: every command and the OAuth call have       *)
(* timeouts.  Nobody is obliged to call, or to fail.                       *)
FairSpec == AdminSpec /\ WF_vars(Tick) /\ \A p \in Proc : WF_vars(Step(p))

-----------------------------------------------------------------------------
(* Safety.                                                                 *)

(* At most one caller is between taking the lock and its last write under  *)
(* it, whatever calls are abandoned, replies lost and releases late.       *)
MutualExclusion == \A p, q \in Proc : Holding(p) /\ Holding(q) => p = q

(* A lock that has not expired is deleted by the call that took it and by  *)
(* no other: a holder that is late to release finds the next one's lock    *)
(* and leaves it alone (the script at redis.go:168-174).                   *)
OnlyOwnerReleases ==
    [][LockTaken /\ lock'.owner # lock.owner
       => pc[lock.owner] = "release" /\ pc'[lock.owner] = "idle"]_vars

(* A lock that is taken ends by itself: its deadline is no further away    *)
(* than the TTL and stays where it is, whoever else tries to take the lock *)
(* and however often, so that a holder that died holds up the others for   *)
(* LockTTL at most (redis.go:164).  The safety half of LockIsFreed.        *)
LockNotProlonged ==
    [][LockTaken => /\ lock.until <= now + LockTTL
                    /\ lock'.until = lock.until]_vars

(* The store never goes back to an older token pair.                       *)
StoredNeverRegresses == [][stored'.gen >= stored.gen]_vars

(* A call never returns a token older than the one that was stored when it *)
(* began, on none of its three paths (fast, after a wait, refreshed).      *)
ResultNotOlder ==
    \A p \in Proc : pc[p] = "idle" /\ got[p] # NoToken => got[p].gen >= base[p]

(* The refresh token in the store is the server's current one, unless its  *)
(* successor is in the hands of a holder or was lost on the way (an        *)
(* abandoned call, a lost answer, a failed write).  Two refreshers never   *)
(* spend each other's token.                                               *)
NoTokenBurnt ==
    \/ stored.gen = issued /\ stored.refresh
    \/ \E p \in Proc : pc[p] \in {"granted", "store"}
    \/ lost

(* Refreshes are serial, and each replaces the stored token by a younger   *)
(* one or leaves it: TokenRefresh implements SerialRefresh.                *)
Holder == IF \E p \in Proc : Holding(p) THEN CHOOSE p \in Proc : Holding(p)
          ELSE NoProc

Serial == INSTANCE SerialRefresh WITH holder <- Holder, gen <- stored.gen

ImplementsSerialRefresh == Serial!Spec

-----------------------------------------------------------------------------
(* Liveness.                                                               *)

(* No lock stays for ever, though holders may end without releasing it.    *)
LockIsFreed == LockTaken ~> ~ LockTaken

(* Every call ends, with a token or an error, though the refresh it waits  *)
(* for may fail or never end.                                              *)
CallsEnd == \A p \in Proc : pc[p] # "idle" ~> pc[p] = "idle"

=============================================================================
