--------------------------- MODULE AccountHealth ---------------------------
(***************************************************************************)
(* The life of the pooled accounts' records under all their concurrent     *)
(* writers: relay requests that act on upstream responses, the goroutines  *)
(* that refresh a token after a 401, the rate limit manager's cleanup and  *)
(* the administrator who submits an account again.                         *)
(*                                                                         *)
(* Nothing but single Redis commands is atomic, so each command is a step  *)
(* of its own: a request executes the HSETs its response calls for one by  *)
(* one, and the cleanup reads a record in one step and writes to it in     *)
(* later ones, by what it read.  Write errors are ignored by the program   *)
(* (LoseWrite, LoseSweepStep), a client that goes away cancels the context *)
(* of the remaining writes (Disconnect), and the process may restart.      *)
(***************************************************************************)
EXTENDS AccountRecord, FiniteSets

CONSTANTS
    Account,     \* accounts in the index
    Request,     \* relay requests in progress at the same time
    WarnStops,   \* accounts whose autoStopOnWarning an operator has set
    Response,    \* upstream responses considered
    Quiet,       \* the response of an upstream that has no complaints
    NoAccount, NoResponse,
    Horizon,     \* BOUND: after this time every response is Quiet
    MaxTime,     \* BOUND: the clock stops here
    MaxFaults    \* BOUND: lost writes and restarts

RetriableCode == {401, 403, 429, 529}

ResponseType == [ code       : {200, 500} \cup RetriableCode,
                  fiveHour   : FiveHourStatus,  \* "" if the header is absent
                  resetIn    : Time,            \* unified-reset, from now
                  retryAfter : Nat,             \* 0 if absent or unusable
                  ban        : BOOLEAN ]        \* the body has a ban signal

ASSUME AccountAssumption == NoAccount \notin Account /\ WarnStops \subseteq Account

ASSUME ResponseAssumption == Response \subseteq ResponseType /\ NoResponse \notin Response

ASSUME QuietAssumption ==
    /\ Quiet \in Response
    /\ Quiet.code = 200 /\ Quiet.fiveHour = "" /\ Quiet.resetIn = NoTime

ASSUME BoundAssumption == Horizon \in Nat /\ MaxTime \in Nat /\ MaxFaults \in Nat

VARIABLES
    now,        \* the clock
    rec,        \* the account hashes in Redis
    job,        \* what each relay request is doing
    refreshing, \* accounts with a background ForceRefresh goroutine
    sweep,      \* what the cleanup goroutine is doing
    faults      \* lost writes and restarts so far

vars == << now, rec, job, refreshing, sweep, faults >>

-----------------------------------------------------------------------------
(* A request is idle, or it has selected an account and needs a token, or  *)
(* waits for the upstream, or has writes pending on account of a response  *)
(* that arrived at time `at`.  The time.Now() calls of one handler run are *)
(* taken to return that same time; its writes may land later.              *)

RequestWrite == {"fiveHour", "reset", "cooldown", "opus"}

Job == [ phase   : {"idle", "token", "sent", "writing"},
         acct    : Account \cup {NoAccount},
         opus    : BOOLEAN,
         last    : BOOLEAN,     \* attempt = MaxRetryAccounts
         resp    : Response \cup {NoResponse},
         at      : Nat,
         pending : SUBSET RequestWrite ]

Idle == [ phase |-> "idle", acct |-> NoAccount, opus |-> FALSE, last |-> FALSE,
          resp |-> NoResponse, at |-> 0, pending |-> {} ]

(* The cleanup is between passes when it has neither accounts to do nor a  *)
(* record in hand; snap is the hash it read for account id.                *)

SweepWriteKind == {"fiveHour", "overload", "opus", "unblock"}

Sweep == [ todo    : SUBSET Account,
           id      : Account \cup {NoAccount},
           snap    : Record,
           at      : Nat,
           pending : SUBSET SweepWriteKind ]

Resting == [ todo |-> {}, id |-> NoAccount, snap |-> Created, at |-> 0,
             pending |-> {} ]

TypeOK ==
    /\ now \in Nat
    /\ rec \in [Account -> Record]
    /\ job \in [Request -> Job]
    /\ refreshing \subseteq Account
    /\ sweep \in Sweep
    /\ faults \in Nat

Init ==
    /\ now = 0
    /\ rec = [a \in Account |->
                [StoreTokens(Created) EXCEPT !.warnStops = (a \in WarnStops)]]
    /\ job = [q \in Request |-> Idle]
    /\ refreshing = {}
    /\ sweep = Resting
    /\ faults = 0

-----------------------------------------------------------------------------
(* Relay requests.                                                         *)

(* One pass of the retry loop begins: the scheduler returns an available   *)
(* account, whose token is valid or has to be refreshed first.             *)
Select(q, a) ==
    /\ job[q].phase = "idle"
    /\ \E opus, last \in BOOLEAN :
          /\ IsAvailable(rec[a], opus, now)
          /\ \E phase \in {"token", "sent"} :
                job' = [job EXCEPT ![q] = [Idle EXCEPT !.phase = phase,
                                                       !.acct = a,
                                                       !.opus = opus,
                                                       !.last = last]]
    /\ UNCHANGED << now, rec, refreshing, sweep, faults >>

(* EnsureValidToken refreshed the token and stored it.                     *)
TokenStored(q) ==
    LET a == job[q].acct IN
    /\ job[q].phase = "token"
    /\ rec' = [rec EXCEPT ![a] = StoreTokens(@)]
    /\ job' = [job EXCEPT ![q].phase = "sent"]
    /\ UNCHANGED << now, refreshing, sweep, faults >>

(* The refresh failed: the account is marked and the attempt is over.      *)
TokenFailed(q) ==
    LET a == job[q].acct IN
    /\ job[q].phase = "token"
    /\ rec' = [rec EXCEPT ![a] = MarkError(@)]
    /\ job' = [job EXCEPT ![q] = Idle]
    /\ UNCHANGED << now, refreshing, sweep, faults >>

(* handleUpstreamError runs for a retriable code unless no retry is left.  *)
Handled(j, r) == r.code \in RetriableCode /\ ~ j.last

(* CaptureHeaders runs for the responses that are not retried, and for 429.*)
Captured(j, r) == ~ Handled(j, r) \/ r.code = 429

WritesFor(j, r) ==
    (IF Captured(j, r) /\ r.fiveHour # "" THEN {"fiveHour"} ELSE {})
    \cup (IF Captured(j, r) /\ r.resetIn # NoTime THEN {"reset"} ELSE {})
    \cup (IF Handled(j, r) THEN {"cooldown"} ELSE {})
    \cup (IF Handled(j, r) /\ r.code = 429 /\ j.opus /\ r.resetIn # NoTime
            THEN {"opus"} ELSE {})

Receive(q, r) ==
    LET writes == WritesFor(job[q], r) IN
    /\ job[q].phase = "sent"
    /\ now > Horizon => r = Quiet
    /\ job' = [job EXCEPT ![q] =
                 IF writes = {} THEN Idle
                 ELSE [@ EXCEPT !.phase = "writing", !.resp = r,
                                !.at = now, !.pending = writes]]
    /\ UNCHANGED << now, rec, refreshing, sweep, faults >>

(* The job once its write w is done, or lost.                              *)
After(j, w) ==
    IF j.pending = {w} THEN Idle ELSE [j EXCEPT !.pending = @ \ {w}]

(* w is the next of the writes, which go in the order listed.              *)
NextWrite(j, w) ==
    /\ w \in j.pending
    /\ CASE w = "fiveHour" -> TRUE
         [] w = "reset"    -> "fiveHour" \notin j.pending
         [] w = "cooldown" -> j.pending \cap {"fiveHour", "reset"} = {}
         [] w = "opus"     -> j.pending = {"opus"}

ResetAt(j) == IF j.resp.resetIn = NoTime THEN NoTime ELSE j.at + j.resp.resetIn

(* The record after handleUpstreamError's Update.                          *)
Cooldown(r, j) ==
    CASE j.resp.code = 529 -> Overload(r, j.at + Pause529)
      [] j.resp.code = 429 ->
             Overload(r, RateLimitedUntil(j.at, j.resp.retryAfter, ResetAt(j)))
      [] j.resp.code = 403 -> IF j.resp.ban THEN Ban(r, j.at)
                              ELSE Overload(r, j.at + Pause403)
      [] j.resp.code = 401 -> AuthFailed(r, j.at)
      [] OTHER -> r

Written(r, j, w) ==
    CASE w = "fiveHour" -> UpdateFiveHourStatus(r, j.resp.fiveHour, j.at)
      [] w = "reset"    -> UpdateResetTime(r, ResetAt(j))
      [] w = "cooldown" -> Cooldown(r, j)
      [] w = "opus"     -> MarkOpusRateLimited(r, ResetAt(j))

(* After the Update of a 401, done or failed, a goroutine refreshes.       *)
StartRefresh(j, w) ==
    refreshing' = IF w = "cooldown" /\ j.resp.code = 401
                    THEN refreshing \cup {j.acct} ELSE refreshing

Write(q, w) ==
    LET j == job[q] IN
    /\ j.phase = "writing"
    /\ NextWrite(j, w)
    /\ rec' = [rec EXCEPT ![j.acct] = Written(@, j, w)]
    /\ job' = [job EXCEPT ![q] = After(j, w)]
    /\ StartRefresh(j, w)
    /\ UNCHANGED << now, sweep, faults >>

(* Redis refuses one write; the program drops the error and goes on.       *)
LoseWrite(q, w) ==
    LET j == job[q] IN
    /\ faults < MaxFaults
    /\ j.phase = "writing"
    /\ NextWrite(j, w)
    /\ job' = [job EXCEPT ![q] = After(j, w)]
    /\ StartRefresh(j, w)
    /\ faults' = faults + 1
    /\ UNCHANGED << now, rec, sweep >>

(* The client goes away, or the upstream cannot be reached: what is left   *)
(* to do fails on the canceled context.  A 401 still starts its goroutine, *)
(* which has a context of its own.                                         *)
Disconnect(q) ==
    LET j == job[q] IN
    /\ j.phase # "idle"
    /\ job' = [job EXCEPT ![q] = Idle]
    /\ refreshing' = IF "cooldown" \in j.pending /\ j.resp.code = 401
                       THEN refreshing \cup {j.acct} ELSE refreshing
    /\ UNCHANGED << now, rec, sweep, faults >>

-----------------------------------------------------------------------------
(* The background ForceRefresh, and the administrator.                     *)

RefreshStored(a) ==
    /\ a \in refreshing
    /\ rec' = [rec EXCEPT ![a] = StoreTokens(@)]
    /\ refreshing' = refreshing \ {a}
    /\ UNCHANGED << now, job, sweep, faults >>

RefreshFailed(a) ==
    /\ a \in refreshing
    /\ rec' = [rec EXCEPT ![a] = MarkError(@)]
    /\ refreshing' = refreshing \ {a}
    /\ UNCHANGED << now, job, sweep, faults >>

(* Another refresh holds the lock: this one ends without a write.          *)
RefreshSkipped(a) ==
    /\ a \in refreshing
    /\ refreshing' = refreshing \ {a}
    /\ UNCHANGED << now, rec, job, sweep, faults >>

(* handleOAuthAdd for an account that is already pooled.                   *)
Resubmit(a) ==
    /\ rec' = [rec EXCEPT ![a] = StoreTokens(@)]
    /\ UNCHANGED << now, job, refreshing, sweep, faults >>

-----------------------------------------------------------------------------
(* The cleanup.                                                            *)

(* Mutant: the cleanup looks at active accounts only.                       *)
DueIfActive(r, t) ==
    IF r.status # "active" THEN {}
    ELSE (IF FiveHourOver(r, t) THEN {"fiveHour"} ELSE {})
         \cup (IF OverloadOver(r, t) THEN {"overload"} ELSE {})
         \cup (IF OpusOver(r, t) THEN {"opus"} ELSE {})

Due(r, t) ==
    (IF FiveHourOver(r, t) THEN {"fiveHour"} ELSE {})
    \cup (IF OverloadOver(r, t) THEN {"overload"} ELSE {})
    \cup (IF OpusOver(r, t) THEN {"opus"} ELSE {})
    \cup (IF BlockOver(r, t) THEN {"unblock"} ELSE {})

SweepStart ==
    /\ sweep.todo = {} /\ sweep.id = NoAccount
    /\ sweep' = [Resting EXCEPT !.todo = Account, !.at = now]
    /\ UNCHANGED << now, rec, job, refreshing, faults >>

(* Between two accounts the sweep has nothing in hand; after the last one  *)
(* it rests until the next tick of its ticker.                             *)
Leave(s) ==
    IF s.todo = {} THEN Resting
    ELSE [s EXCEPT !.id = NoAccount, !.snap = Created, !.pending = {}]

SweepRead(a) ==
    LET due  == Due(rec[a], sweep.at)
        rest == [sweep EXCEPT !.todo = @ \ {a}]
    IN
    /\ a \in sweep.todo /\ sweep.id = NoAccount
    /\ sweep' = IF due = {} THEN Leave(rest)
                ELSE [rest EXCEPT !.id = a, !.snap = rec[a], !.pending = due]
    /\ UNCHANGED << now, rec, job, refreshing, faults >>

Swept(r, w) ==
    CASE w = "fiveHour" -> Restore(r)
      [] w = "overload" -> ClearOverload(r)
      [] w = "opus"     -> ClearOpus(r)
      [] w = "unblock"  -> Unblock(r)

NextSweepWrite(w) ==
    /\ w \in sweep.pending
    /\ CASE w = "fiveHour" -> TRUE
         [] w = "overload" -> "fiveHour" \notin sweep.pending
         [] w = "opus"     -> sweep.pending \cap {"fiveHour", "overload"} = {}
         [] w = "unblock"  -> sweep.pending = {"unblock"}

SweepAfter(w) ==
    IF sweep.pending = {w} THEN Leave(sweep)
    ELSE [sweep EXCEPT !.pending = @ \ {w}]

SweepWrite(w) ==
    /\ NextSweepWrite(w)
    /\ rec' = [rec EXCEPT ![sweep.id] = Swept(@, w)]
    /\ sweep' = SweepAfter(w)
    /\ UNCHANGED << now, job, refreshing, faults >>

(* Redis refuses a read or a write of the sweep, which goes on without.    *)
LoseSweepStep ==
    /\ faults < MaxFaults
    /\ \/ \E w \in SweepWriteKind : NextSweepWrite(w) /\ sweep' = SweepAfter(w)
       \/ \E a \in sweep.todo :
             /\ sweep.id = NoAccount
             /\ sweep' = Leave([sweep EXCEPT !.todo = @ \ {a}])
    /\ faults' = faults + 1
    /\ UNCHANGED << now, rec, job, refreshing >>

-----------------------------------------------------------------------------

(* The process is stopped and started: only Redis survives.                *)
Restart ==
    /\ faults < MaxFaults
    /\ job' = [q \in Request |-> Idle]
    /\ refreshing' = {}
    /\ sweep' = Resting
    /\ faults' = faults + 1
    /\ UNCHANGED << now, rec >>

Tick ==
    /\ now < MaxTime
    /\ now' = now + 1
    /\ UNCHANGED << rec, job, refreshing, sweep, faults >>

RequestStep(q) ==
    \/ \E a \in Account : Select(q, a)
    \/ TokenStored(q)
    \/ TokenFailed(q)
    \/ \E r \in Response : Receive(q, r)
    \/ \E w \in RequestWrite : Write(q, w) \/ LoseWrite(q, w)
    \/ Disconnect(q)

RefreshStep(a) == RefreshStored(a) \/ RefreshFailed(a) \/ RefreshSkipped(a)

SweepStep ==
    \/ SweepStart
    \/ \E a \in Account : SweepRead(a)
    \/ \E w \in SweepWriteKind : SweepWrite(w)

Next ==
    \/ \E q \in Request : RequestStep(q)
    \/ \E a \in Account : RefreshStep(a) \/ Resubmit(a)
    \/ SweepStep
    \/ LoseSweepStep
    \/ Restart
    \/ Tick

Spec == Init /\ [][Next]_vars

(* The ticker fires and the cleanup goroutine is scheduled; the clock      *)
(* advances; a request in progress goes on, as the client timeout ends     *)
(* every upstream call.  Nobody is obliged to send a request.              *)
Fairness ==
    /\ WF_vars(Tick)
    /\ WF_vars(SweepStep)
    /\ \A q \in Request : WF_vars(\E w \in RequestWrite : Write(q, w))
    /\ \A q \in Request : WF_vars(\E r \in Response : Receive(q, r))
    /\ \A a \in Account : WF_vars(RefreshStep(a))

FairSpec == Spec /\ Fairness
-----------------------------------------------------------------------------
(* Safety.                                                                 *)

(* Whatever order the header writes of several responses land in, and      *)
(* whichever of them are lost, a stopped account has a time from which the *)
(* cleanup can compute its restoration: the end of its window, or else the *)
(* time of the stop (manager.go:134-156 has no third case).                *)
StopCanBeLifted ==
    \A a \in Account :
       rec[a].autoStopped => rec[a].windowEnd # NoTime \/ rec[a].stoppedAt # NoTime

(* The cleanup may write long after it read.  It never ends an overload    *)
(* pause that is still running, unless another writer replaced the pause   *)
(* that the cleanup saw between its read and its write; nobody else ends   *)
(* a pause (manager.go:159-191).                                           *)
PauseEndsOnlyWhenOver ==
    [][\A a \in Account :
         rec[a].overloadedUntil # NoTime /\ rec'[a].overloadedUntil = NoTime
         => \/ now > rec[a].overloadedUntil
            \/ /\ sweep.id = a
               /\ sweep.snap.overloadedUntil # rec[a].overloadedUntil]_vars

(* A response that says "allowed" is being written to account a.           *)
Allowing(a) ==
    \E q \in Request : /\ job[q].phase = "writing" /\ job[q].acct = a
                       /\ job[q].resp.fiveHour = "allowed"

(* By what the cleanup has read, the 5-hour stop is over.                  *)
StopSeenOver ==
    /\ sweep.snap.autoStopped
    /\ IF sweep.snap.windowEnd # NoTime
         THEN now > sweep.snap.windowEnd + Grace
         ELSE now > sweep.snap.stoppedAt + Window + Grace

(* A 5-hour stop ends because the upstream said "allowed" or because the   *)
(* window and its grace are over, by the record itself or, when the record *)
(* changed under the cleanup, by what the cleanup had read.  In particular *)
(* no "allowed_warning", no token refresh and no unblocking ends it.       *)
StopEndsOnlyWhenOver ==
    [][\A a \in Account :
         rec[a].autoStopped /\ ~ rec'[a].autoStopped
         => Allowing(a) \/ (sweep.id = a /\ StopSeenOver)]_vars

(* An account that a stop or a ban has taken out of the pool is put back   *)
(* by the cleanup alone, for a stop that is over or a ban that is over,    *)
(* and never by fresh tokens, whoever stores them.  It is either of the    *)
(* two: when an account is stopped and banned, the first to be over puts   *)
(* it back, and then only the window's end, if there is one, and the       *)
(* status keep the scheduler from choosing it (scheduler.go:105-124).      *)
BackOnlyWhenOver ==
    [][\A a \in Account :
         ~ rec[a].schedulable /\ rec'[a].schedulable
         => /\ sweep.id = a
            /\ \/ StopSeenOver
               \/ /\ sweep.snap.status = "blocked"
                  /\ sweep.snap.overloadedUntil # NoTime
                  /\ now > sweep.snap.overloadedUntil]_vars

(* What one pass of the cleanup at time t makes of a record that nobody    *)
(* else writes to: the writes that are due by the record as it was read.   *)
Passed(r, t) ==
    LET due      == Due(r, t)
        Do(n, w) == IF w \in due THEN Swept(n, w) ELSE n
    IN  Do(Do(Do(Do(r, "fiveHour"), "overload"), "opus"), "unblock")

(* At time t the account is still to be kept out of the pool: its pause,   *)
(* its 5-hour stop or its Opus limit has not ended yet.  A stop without a  *)
(* window ends Window after it was made.                                   *)
StillOut(r, t) ==
    \/ r.overloadedUntil # NoTime /\ t <= r.overloadedUntil
    \/ r.opusEnd # NoTime /\ t <= r.opusEnd
    \/ /\ r.autoStopped
       /\ t <= Grace + IF r.windowEnd # NoTime THEN r.windowEnd
                       ELSE r.stoppedAt + Window

(* The three dead ends of a record: nothing in the program leaves them     *)
(* unless an administrator submits the account again, and for the last of  *)
(* them not even then.                                                     *)
DeadEnd(r) ==
    \/ r.status = "error"
    \/ r.status = "blocked" /\ r.overloadedUntil = NoTime
    \/ ~ r.schedulable /\ ~ r.autoStopped /\ r.status = "active"

(* Whatever the writers of a record have made of it together, a single     *)
(* pass of the cleanup that nobody disturbs puts the account back into the *)
(* pool, for all models, unless something of it has not ended yet or it is *)
(* in one of the dead ends already (manager.go:118-197).  This is what     *)
(* AlwaysBackOrDeadEnd needs in every state.                               *)
OnePassIsEnough ==
    \A a \in Account : \/ IsAvailable(Passed(rec[a], now), TRUE, now)
                       \/ StillOut(rec[a], now)
                       \/ DeadEnd(rec[a])

-----------------------------------------------------------------------------
(* Liveness.                                                               *)

(* A 5-hour stop is always lifted in the end, with or without a window end *)
(* from the upstream.                                                      *)
StopsAreLifted == \A a \in Account : rec[a].autoStopped ~> ~ rec[a].autoStopped

(* However responses, disconnects and cleanups interleave, every account   *)
(* keeps coming back to the pool (for all models) or is in one of the dead *)
(* ends above: cooldowns, stops and bans do not pile up to any other state *)
(* the cleanup does not leave.                                             *)
AlwaysBackOrDeadEnd ==
    \A a \in Account : []<>(IsAvailable(rec[a], TRUE, now) \/ DeadEnd(rec[a]))

(* Accounts in `rejected` state "automatically recover when the window     *)
(* expires" (README): when the window and its grace are over, an active    *)
(* account that was rejected is at some time schedulable again.            *)
RejectedRecovers ==
    \A a \in Account :
       rec[a].fiveHourStatus = "rejected" ~> rec[a].schedulable \/ rec[a].status # "active"

(* "Blocked account recovery (auto-unblock after pause expires)": no       *)
(* account stays blocked.                                                  *)
BlockedRecovers == \A a \in Account : rec[a].status = "blocked" ~> rec[a].status # "blocked"

=============================================================================
