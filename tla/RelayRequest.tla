---------------------------- MODULE RelayRequest ----------------------------
(***************************************************************************)
(* How Relay.Handle takes a request through session binding, account       *)
(* selection and the retry loop, with Scheduler.Select and the session     *)
(* bindings in Redis.  The pool's records are reduced to what Handle and   *)
(* Select ask of them: whether an account is active and schedulable, and   *)
(* whether some deadline still keeps it from being available.  The other   *)
(* writers of the records (AccountHealth models them) are Change.          *)
(*                                                                         *)
(* Every Redis access is a step, and each of them may fail: a read of the  *)
(* binding, of an account or of the list of ids goes on as the code does   *)
(* without its result, a write that fails is ignored (LoseCooldown,        *)
(* LoseBinding).  An account's lastUsedAt orders accounts of the same      *)
(* priority only, and no property tells these apart: it is left out.       *)
(* Requests answered before the session lookup (no key, bad body, warmup)  *)
(* touch no shared state and are left out, and so are API keys bound to an *)
(* account, which validateKey never issues.                                *)
(***************************************************************************)
EXTENDS Integers, Sequences, FiniteSets

CONSTANTS
    Account,          \* accounts that are in the pool at some time
    Request,          \* requests in progress at the same time
    Session,          \* values of the session UUID
    Priority,         \* the accounts' priorities
    MaxRetryAccounts, \* cfg.MaxRetryAccounts
    Code,             \* status codes the upstream answers with
    NoAccount, NoSession,
    Unnamed           \* of a binding's hash that has no accountId

ASSUME RelayAssumption ==
    /\ NoAccount \notin Account /\ NoSession \notin Session
    /\ Unnamed \notin Account \cup {NoAccount}
    /\ Priority \in [Account -> Nat]
    /\ MaxRetryAccounts \in Nat
    /\ 200 \in Code /\ Code \subseteq Nat \ {0, 1}

RetriableCode == {401, 403, 429, 529}

(* What became of an attempt: the upstream's code, or no token, or no      *)
(* response.                                                               *)
TokenFailed     == 0
TransportFailed == 1
Outcome == Code \cup {TokenFailed, TransportFailed}

VARIABLES
    pool,     \* accounts in the index
    active,   \* accounts whose status is active and that are schedulable
    paused,   \* accounts with a deadline (overload, window) still to come
    binding,  \* the session bindings' accountId; NoAccount if there is no hash
    timeless, \* sessions whose binding has no TTL
    unset,    \* history: of these, those of which the command that sets it was lost
    req       \* the requests

accounts == << pool, active, paused >>
bindings == << binding, timeless, unset >>
vars == << accounts, bindings, req >>

(* A finished attempt: with which account, and whether it ended with 403.  *)
Try == [ acct : Account, forbidden : BOOLEAN ]

Phase == { "idle", "lookup", "check", "renew", "select", "list", "scan", "token",
           "sent", "handle", "bind", "expire", "stream", "done" }

(* The code answers 503 both if the pool has no account left (unavailable) *)
(* and if the session's account is there and not available (held).         *)
Answer == { "none", "served", "forwarded", "unavailable", "held", "refused", "gone" }

(* tries holds the finished attempts, whose number is the loop's counter.  *)
RequestState ==
    [ phase    : Phase,
      session  : Session \cup {NoSession},
      bound    : Account \cup {NoAccount},     \* sessionBoundAccountID
      acct     : Account \cup {NoAccount},     \* selected for this attempt
      code     : Code,                         \* of a response being handled
      todo     : SUBSET Account,               \* still to be read by List
      seen     : SUBSET Account,               \* candidates
      unread   : SUBSET Account,               \* history: not read by this List
      missed   : BOOLEAN,                      \* history: bound could not be read
      excluded : SUBSET Account,               \* excludeIDs
      tries    : Seq(Try),
      answer   : Answer ]

Fresh == [ phase |-> "idle", session |-> NoSession, bound |-> NoAccount,
           acct |-> NoAccount, code |-> 200, todo |-> {},
           seen |-> {}, unread |-> {}, missed |-> FALSE, excluded |-> {},
           tries |-> << >>, answer |-> "none" ]

(* What a handler knew is gone when it returns.                            *)
Over(answer) == [Fresh EXCEPT !.phase = "done", !.answer = answer]

TypeOK ==
    /\ pool \subseteq Account /\ active \subseteq pool /\ paused \subseteq pool
    /\ binding \in [Session -> Account \cup {NoAccount, Unnamed}]
    /\ timeless \subseteq { s \in Session : binding[s] # NoAccount }
    /\ unset \subseteq timeless
    /\ req \in [Request -> RequestState]
    /\ \A q \in Request : Len(req[q].tries) <= MaxRetryAccounts + 1

Init ==
    /\ pool = Account /\ active = Account /\ paused = {}
    /\ binding = [s \in Session |-> NoAccount] /\ timeless = {} /\ unset = {}
    /\ req = [q \in Request |-> Fresh]

Available(a) == a \in pool /\ a \in active /\ a \notin paused

-----------------------------------------------------------------------------
(* Session binding.                                                        *)

Arrive(q) ==
    /\ req[q].phase \in {"idle", "done"}
    /\ \E s \in Session \cup {NoSession} :
          req' = [req EXCEPT ![q] =
                    [Fresh EXCEPT !.phase = IF s = NoSession THEN "select" ELSE "lookup",
                                  !.session = s]]
    /\ UNCHANGED << accounts, bindings >>

(* The binding's hash is not there, has no accountId, or cannot be read.   *)
Lookup(q) ==
    LET b == binding[req[q].session] IN
    /\ req[q].phase = "lookup"
    /\ \/ /\ b \in Account
          /\ req' = [req EXCEPT ![q].phase = "check", ![q].bound = b]
       \/ req' = [req EXCEPT ![q].phase = "select"]
    /\ UNCHANGED << accounts, bindings >>

(* The binding counts if its account can be read and is active; deadlines  *)
(* are not looked at.  Whether the body is that of an old session          *)
(* (isOldSession) matters only here.                                       *)
Check(q) ==
    /\ req[q].phase = "check"
    /\ \/ /\ req[q].bound \in pool \cap active
          /\ req' = [req EXCEPT ![q].phase = "renew"]
       \/ \E old \in BOOLEAN :
             req' = [req EXCEPT ![q] =
                       IF old THEN Over("refused")
                       ELSE [@ EXCEPT !.phase = "select", !.bound = NoAccount]]
    /\ UNCHANGED << accounts, bindings >>

(* A pipeline writes the hash, then its TTL; it serves a renewal, before   *)
(* there is an account, and the setting of a binding after a success.      *)
AfterBinding(j) == IF j.acct = NoAccount THEN "select" ELSE "stream"

(* HSET of some fields on the session's key, which creates an absent key   *)
(* without a TTL and leaves an existing one its TTL.                       *)
WriteBinding(q, acct) ==
    LET s == req[q].session IN
    /\ binding'  = [binding EXCEPT ![s] = acct]
    /\ timeless' = IF binding[s] = NoAccount THEN timeless \cup {s} ELSE timeless
    /\ req' = [req EXCEPT ![q].phase = "expire"]
    /\ UNCHANGED << accounts, unset >>

(* A renewal does not write the accountId: a binding that has expired in   *)
(* the meantime comes back without one.                                    *)
RenewSessionBinding(q) ==
    LET b == binding[req[q].session] IN
    /\ req[q].phase = "renew"
    /\ WriteBinding(q, IF b = NoAccount THEN Unnamed ELSE b)

(* Mutant: a renewal that finds no binding sets no TTL.                    *)
SetTTLOfBound(q) ==
    LET s == req[q].session IN
    /\ req[q].phase = "expire"
    /\ timeless' = IF binding[s] = Unnamed THEN timeless ELSE timeless \ {s}
    /\ unset' = unset \ {s}
    /\ req' = [req EXCEPT ![q].phase = AfterBinding(req[q])]
    /\ UNCHANGED << accounts, binding >>

SetTTL(q) ==
    LET s == req[q].session IN
    /\ req[q].phase = "expire"
    /\ timeless' = timeless \ {s} /\ unset' = unset \ {s}
    /\ req' = [req EXCEPT ![q].phase = AfterBinding(req[q])]
    /\ UNCHANGED << accounts, binding >>

LoseTTL(q) ==
    unset' = IF req[q].phase = "expire" THEN unset \cup ({req[q].session} \cap timeless)
             ELSE unset

(* Either command of a pipeline may fail, or both.                         *)
LoseBinding(q) ==
    /\ req[q].phase \in {"renew", "bind", "expire"}
    /\ LoseTTL(q)
    /\ \/ req' = [req EXCEPT ![q].phase = AfterBinding(req[q])]
       \/ req[q].phase # "expire" /\ req' = [req EXCEPT ![q].phase = "expire"]
    /\ UNCHANGED << accounts, binding, timeless >>

-----------------------------------------------------------------------------
(* The selection of an account for an attempt.                             *)

(* Mutant: only the API key's account is asked for.                        *)
PrefersNone(j) == FALSE

(* The session's account is asked for in the first attempt only.           *)
PrefersBound(j) == j.tries = << >> /\ j.bound # NoAccount

(* Select with the session's account: that account, or none if it is not   *)
(* available; but an account that is not found, or that cannot be read, is *)
(* silently passed over for the pool.                                      *)
SelectBound(q) ==
    LET b == req[q].bound IN
    /\ req[q].phase = "select" /\ PrefersBound(req[q])
    /\ \/ /\ Available(b)
          /\ req' = [req EXCEPT ![q].phase = "token", ![q].acct = b]
       \/ /\ b \in pool /\ ~ Available(b)
          /\ req' = [req EXCEPT ![q].phase = "done", ![q].answer = "held"]
       \/ req' = [req EXCEPT ![q].phase = "list", ![q].missed = b \in pool]
    /\ UNCHANGED << accounts, bindings >>

(* Select from the pool lists the ids, reads the accounts one by one and   *)
(* sorts the candidates.                                                   *)
SelectPool(q) ==
    /\ \/ req[q].phase = "list"
       \/ req[q].phase = "select" /\ ~ PrefersBound(req[q])
    /\ \/ req' = [req EXCEPT ![q].phase = "scan", ![q].todo = pool]
       \/ req' = [req EXCEPT ![q].phase = "done", ![q].answer = "unavailable",
                              ![q].unread = pool]
    /\ UNCHANGED << accounts, bindings >>

(* Mutant: List gives up at the first account that it cannot read.         *)
ScanReadOrStop(q, a) ==
    LET j == req[q] IN
    /\ j.phase = "scan" /\ a \in j.todo
    /\ req' = [req EXCEPT ![q] =
                 IF Available(a) /\ a \notin j.excluded
                   THEN [@ EXCEPT !.todo = @ \ {a}, !.seen = @ \cup {a}]
                   ELSE [@ EXCEPT !.todo = {}]]
    /\ UNCHANGED << accounts, bindings >>

(* An account that cannot be read is left out.                             *)
ScanRead(q, a) ==
    LET j == req[q] IN
    /\ j.phase = "scan" /\ a \in j.todo
    /\ \E read \in BOOLEAN :
          req' = [req EXCEPT
                    ![q].todo = @ \ {a},
                    ![q].seen = IF read /\ Available(a) /\ a \notin j.excluded
                                  THEN @ \cup {a} ELSE @,
                    ![q].unread = IF read THEN @ ELSE @ \cup {a}]
    /\ UNCHANGED << accounts, bindings >>

(* Mutant: the candidates are not sorted.                                  *)
BestUnsorted(j) == j.seen

(* The candidates none of which sorts before another: of equal ones, any.  *)
Best(j) == { a \in j.seen : \A b \in j.seen : Priority[a] >= Priority[b] }

ScanEnd(q) ==
    /\ req[q].phase = "scan" /\ req[q].todo = {}
    /\ \/ /\ req[q].seen = {}
          /\ req' = [req EXCEPT ![q].phase = "done", ![q].answer = "unavailable"]
       \/ \E a \in Best(req[q]) :
             req' = [req EXCEPT ![q] = [@ EXCEPT !.phase = "token", !.acct = a,
                                                 !.seen = {}, !.unread = {}]]
    /\ UNCHANGED << accounts, bindings >>

-----------------------------------------------------------------------------
(* The attempt.                                                            *)

Forbidden(j) == Cardinality({ i \in DOMAIN j.tries : j.tries[i].forbidden })

(* Mutant: an account that could not be reached is not excluded.           *)
ExcludesAnswered(j, outcome) ==
    outcome # TransportFailed /\ (outcome = 403 => Forbidden(j) >= 2)

(* A 403 does not exclude the account, the first two times.                *)
Excludes(j, outcome) == outcome = 403 => Forbidden(j) >= 2

(* Mutant: asking the same account again does not count as an attempt.     *)
TriedElsewhere(j, outcome) ==
    IF Excludes(j, outcome)
      THEN Append(j.tries, [acct |-> j.acct, forbidden |-> outcome = 403])
      ELSE j.tries

Tried(j, outcome) == Append(j.tries, [acct |-> j.acct, forbidden |-> outcome = 403])

(* Mutant: the selection has been cleared before it is excluded.           *)
ExcludedCleared(j, outcome) ==
    IF Excludes(j, outcome) THEN j.excluded \cup {NoAccount} ELSE j.excluded

Excluded(j, outcome) ==
    IF Excludes(j, outcome) THEN j.excluded \cup {j.acct} ELSE j.excluded

(* The loop goes on after an attempt that ended with outcome, unless it    *)
(* was the last one.                                                       *)
Continue(j, outcome) ==
    LET more == Len(Tried(j, outcome)) <= MaxRetryAccounts
    IN  [ j EXCEPT !.phase    = IF more THEN "select" ELSE "done",
                   !.answer   = IF more THEN "none" ELSE "unavailable",
                   !.acct     = NoAccount,
                   !.code     = 200,
                   !.tries    = Tried(j, outcome),
                   !.excluded = Excluded(j, outcome) ]

TokenOK(q) ==
    /\ req[q].phase = "token"
    /\ req' = [req EXCEPT ![q].phase = "sent"]
    /\ UNCHANGED << accounts, bindings >>

(* EnsureValidToken failed, and may have marked the account (Change).      *)
TokenFails(q) ==
    /\ req[q].phase = "token"
    /\ req' = [req EXCEPT ![q] = Continue(@, TokenFailed)]
    /\ UNCHANGED << accounts, bindings >>

TransportFails(q) ==
    /\ req[q].phase = "sent"
    /\ req' = [req EXCEPT ![q] = Continue(@, TransportFailed)]
    /\ UNCHANGED << accounts, bindings >>

(* A retriable code is handled if an attempt is left, and else forwarded   *)
(* like any other error.                                                   *)
Respond(q, code) ==
    LET j == req[q] IN
    /\ j.phase = "sent"
    /\ req' = [req EXCEPT ![q] =
                 IF code \in RetriableCode /\ Len(j.tries) < MaxRetryAccounts
                   THEN [@ EXCEPT !.phase = "handle", !.code = code]
                 ELSE IF code # 200 THEN Over("forwarded")
                 ELSE [@ EXCEPT !.phase = IF j.session = NoSession THEN "stream" ELSE "bind"]]
    /\ UNCHANGED << accounts, bindings >>

(* handleUpstreamError's Update: a pause, and after a 401 or a ban signal  *)
(* the account is not active any more.  (What an update leaves of a        *)
(* deleted account is not in the pool: AccountRegistry.)                   *)
Handle(q) ==
    LET j == req[q] IN
    /\ j.phase = "handle"
    /\ paused' = paused \cup ({j.acct} \cap pool)
    /\ \/ j.code # 401 /\ active' = active
       \/ j.code \in {401, 403} /\ active' = active \ {j.acct}
    /\ req' = [req EXCEPT ![q] = Continue(@, j.code)]
    /\ UNCHANGED << pool, bindings >>

LoseCooldown(q) ==
    /\ req[q].phase = "handle"
    /\ req' = [req EXCEPT ![q] = Continue(@, @.code)]
    /\ UNCHANGED << accounts, bindings >>

-----------------------------------------------------------------------------
(* Success.                                                                *)

SetSessionBinding(q) ==
    /\ req[q].phase = "bind"
    /\ WriteBinding(q, req[q].acct)

(* The answer has been passed on, as far as the client took it, and the    *)
(* use of the account noted.                                               *)
Served(q) ==
    /\ req[q].phase = "stream"
    /\ req' = [req EXCEPT ![q] = Over("served")]
    /\ UNCHANGED << accounts, bindings >>

(* The client goes away: whatever is left to do fails on its context.      *)
Disconnect(q) ==
    /\ req[q].phase \notin {"idle", "done", "stream"}
    /\ req' = [req EXCEPT ![q] = Over("gone")]
    /\ LoseTTL(q)
    /\ UNCHANGED << accounts, binding, timeless >>

-----------------------------------------------------------------------------
(* The rest of the system: other writers of the records, the administrator *)
(* (an id is not used again), the TTL of the bindings.                     *)

Change(a) ==
    /\ a \in pool
    /\ \E act, pau \in BOOLEAN :
          /\ active' = IF act THEN active \cup {a} ELSE active \ {a}
          /\ paused' = IF pau THEN paused \cup {a} ELSE paused \ {a}
    /\ UNCHANGED << pool, bindings, req >>

Delete(a) ==
    /\ a \in pool
    /\ pool' = pool \ {a} /\ active' = active \ {a} /\ paused' = paused \ {a}
    /\ UNCHANGED << bindings, req >>

Expire(s) ==
    /\ binding[s] # NoAccount /\ s \notin timeless
    /\ binding' = [binding EXCEPT ![s] = NoAccount]
    /\ UNCHANGED << accounts, timeless, unset, req >>

-----------------------------------------------------------------------------
(* What the goroutine of a request does by itself.                         *)
Step(q) ==
    \/ Lookup(q) \/ Check(q)
    \/ RenewSessionBinding(q) \/ SetTTL(q) \/ LoseBinding(q)
    \/ SelectBound(q) \/ SelectPool(q)
    \/ \E a \in Account : ScanRead(q, a)
    \/ ScanEnd(q)
    \/ TokenOK(q) \/ TokenFails(q) \/ TransportFails(q)
    \/ \E code \in Code : Respond(q, code)
    \/ Handle(q) \/ LoseCooldown(q)
    \/ SetSessionBinding(q)
    \/ Served(q)

Next ==
    \/ \E q \in Request : Arrive(q) \/ Step(q) \/ Disconnect(q)
    \/ \E a \in Account : Change(a) \/ Delete(a)
    \/ \E s \in Session : Expire(s)

Spec == Init /\ [][Next]_vars

(* A handler that has started runs on: Redis, the token refresh and the    *)
(* upstream client all have timeouts.  Each of its steps changes req.      *)
FairSpec == Spec /\ \A q \in Request : WF_req(Step(q))

-----------------------------------------------------------------------------
(* Safety.                                                                 *)

(* The 403s among the first n attempts.                                    *)
ForbiddenUpTo(j, n) == Cardinality({ i \in 1..n : j.tries[i].forbidden })

(* A request is a POST that must not be sent twice at random: within one   *)
(* request an account is asked again only after it answered 403, and that  *)
(* was one of the first two 403s of the request (relay.go:220-230).        *)
AskedAgainOnlyAfterForbidden ==
    \A q \in Request : LET j == req[q] IN
       \A i \in DOMAIN j.tries :
          \/ j.acct = j.tries[i].acct
          \/ \E k \in DOMAIN j.tries : k > i /\ j.tries[k].acct = j.tries[i].acct
          => j.tries[i].forbidden /\ ForbiddenUpTo(j, i) <= 2

(* "Refuses to silently switch accounts mid-conversation" (README), as far *)
(* as it goes: a request whose session is bound to an account of the pool  *)
(* is sent to another one only after an attempt with this account failed,  *)
(* also if the account is paused, deleted or disabled between the look-up, *)
(* the selection and the retries.  The exception is a Get of this account  *)
(* that fails in the first selection (scheduler.go:39-47), which sends the *)
(* request to the pool though the account is there.                        *)
BoundTriedFirst ==
    \A q \in Request : LET j == req[q] IN
       j.phase = "sent" /\ j.bound \in pool \ {j.acct}
       => j.missed \/ \E i \in DOMAIN j.tries : j.tries[i].acct = j.bound

(* A request that is turned away has used all its attempts, or has had an *)
(* attempt with account a, or its latest listing could not read a (or the  *)
(* ids); and if it was told that its session's account is not available,   *)
(* this is not a.                                                          *)
NotTurnedAway(j, a) ==
    /\ j.answer = "unavailable"
          => Len(j.tries) = MaxRetryAccounts + 1 \/ a \in j.excluded \cup j.unread
    /\ j.answer = "held" => j.bound # a

(* No account of a lower priority is selected from the pool in place of a, *)
(* unless a was excluded or could not be read.                             *)
NotPassedOver(j, a) ==
    j.phase = "scan" /\ j.todo = {} /\ a \notin j.excluded \cup j.unread
       => \A b \in Best(j) : Priority[b] >= Priority[a]

(* An account that is available all the time is neither overlooked, nor    *)
(* passed over against "priority DESC" (README), although the accounts are *)
(* read one by one while the others change, and some reads fail: neither   *)
(* the others' changes nor reads of them that fail ever hide it.           *)
SteadyAccountIsReached ==
    \A a \in Account :
       []Available(a)
       => [](\A q \in Request : NotTurnedAway(req[q], a) /\ NotPassedOver(req[q], a))

(* A session moves from one account to another only by a request that did  *)
(* not know of the binding, or found its account unusable or could not     *)
(* read it, or asked this account in vain, or when the account has been    *)
(* deleted.                                                                *)
BindingMovesForCause ==
    [][\A s \in Session :
         binding[s] \in Account /\ binding'[s] \in Account \ {binding[s]}
         => \E q \in Request :
               /\ req[q].phase = "bind" /\ req[q].session = s
               /\ \/ req[q].bound # binding[s]
                  \/ req[q].missed
                  \/ binding[s] \notin pool
                  \/ \E i \in DOMAIN req[q].tries : req[q].tries[i].acct = binding[s]]_vars

(* "TTL 24h" (README): a session binding without a TTL, which would never  *)
(* go, exists only between the commands of a pipeline, also if another     *)
(* request's renewal has brought back an expired one, unless the command   *)
(* that sets the TTL was lost.                                             *)
BindingsExpire ==
    timeless \subseteq unset \cup { req[q].session : q \in { p \in Request : req[p].phase = "expire" } }

(* "403 may be transient - retry same account up to 2x before switching":  *)
(* the attempt after a first or second 403 goes to the same account, if it *)
(* has not been deleted.                                                   *)
ForbiddenIsRetried ==
    \A q \in Request : LET j == req[q] IN
       /\ j.phase = "sent" /\ j.tries # << >> /\ Forbidden(j) <= 2
       /\ j.tries[Len(j.tries)].forbidden
       /\ j.tries[Len(j.tries)].acct \in pool
       => j.acct = j.tries[Len(j.tries)].acct

(* What a handler has left to do in an attempt, at most; the pipeline of a *)
(* binding is on the way to the selection or to the stream.                *)
StepsLeft(j) ==
    CASE j.phase = "lookup" -> 11
      [] j.phase = "check"  -> 10
      [] j.phase = "renew"  -> 9
      [] j.phase = "expire" -> IF j.acct = NoAccount THEN 8 ELSE 1
      [] j.phase = "select" -> 7
      [] j.phase = "list"   -> 6
      [] j.phase = "scan"   -> 5
      [] j.phase = "token"  -> 4
      [] j.phase = "sent"   -> 3
      [] j.phase \in {"handle", "bind"} -> 2
      [] OTHER -> 0

(* A handler never goes round in a loop, whatever the other requests, the  *)
(* administrator and the failures do to it: every step of it is its last,  *)
(* or ends one of the limited number of attempts, or takes the attempt     *)
(* further, or reads one account more.                                     *)
EveryStepCounts ==
    [][\A q \in Request : LET j == req[q]  k == req'[q] IN
         k # j /\ j.phase \notin {"idle", "done"}
         => \/ k.phase = "done"
            \/ Len(k.tries) > Len(j.tries) /\ Len(k.tries) <= MaxRetryAccounts
            \/ k.tries = j.tries /\ StepsLeft(k) < StepsLeft(j)
            \/ /\ k.tries = j.tries /\ k.phase = j.phase
               /\ k.todo \subseteq j.todo /\ k.todo # j.todo]_vars

-----------------------------------------------------------------------------
(* Liveness.                                                               *)

(* Every request is answered or given up by its client: whatever happens   *)
(* to accounts and bindings, the retry loop ends.                          *)
RequestsEnd ==
    \A q \in Request : req[q].phase # "done" ~> req[q].phase \in {"idle", "done"}

=============================================================================
