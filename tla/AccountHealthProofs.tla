------------------------- MODULE AccountHealthProofs -------------------------
(***************************************************************************)
(* Theorems about AccountHealth, for any accounts, requests, responses and *)
(* durations that satisfy the modules' assumptions.                        *)
(***************************************************************************)
EXTENDS AccountHealth, TLAPS

(* A stop is dated (the second half of StopCanBeLifted, which holds by     *)
(* itself: the end of a window is not needed for it).                      *)
Dated(r) == r.autoStopped => r.stoppedAt # NoTime

-----------------------------------------------------------------------------
(* What the writes do to a record.                                         *)

LEMMA TimeArithmetic ==
    /\ \A t \in Nat : t \in Time /\ t # NoTime
    /\ \A t \in Nat, d \in Nat : t + d \in Nat
    /\ \A t \in Nat : (t - (t % Hour)) + Window \in Nat
<1>1. ASSUME NEW t \in Nat PROVE t % Hour \in Nat /\ t % Hour <= t
  <2>1. t % Hour \in Nat
    BY DurationAssumption
  <2>2. t % Hour <= t
    BY DurationAssumption, Z3T(30)
  <2> QED
    BY <2>1, <2>2
<1>2. \A t \in Nat : (t - (t % Hour)) + Window \in Nat
  BY <1>1, DurationAssumption
<1> QED
  BY <1>2 DEF Time, NoTime

LEMMA CreatedRecord == Created \in Record /\ StoreTokens(Created) \in Record
BY DEF Created, StoreTokens, Record, AccountStatus, FiveHourStatus, Time, NoTime

LEMMA TokenWrites ==
    ASSUME NEW r \in Record
    PROVE  /\ StoreTokens(r) \in Record /\ MarkError(r) \in Record
           /\ StoreTokens(r).autoStopped = r.autoStopped
           /\ StoreTokens(r).stoppedAt = r.stoppedAt
           /\ StoreTokens(r).overloadedUntil = r.overloadedUntil
           /\ StoreTokens(r).schedulable = r.schedulable
           /\ MarkError(r).schedulable = r.schedulable
           /\ MarkError(r).autoStopped = r.autoStopped
           /\ MarkError(r).stoppedAt = r.stoppedAt
           /\ MarkError(r).overloadedUntil = r.overloadedUntil
BY DEF StoreTokens, MarkError, Record, AccountStatus

LEMMA ResetTime ==
    ASSUME NEW j \in Job, j.resp \in Response
    PROVE  ResetAt(j) \in Time
<1>1. j.at \in Nat /\ j.resp.resetIn \in Time
  <2>1. j.resp \in ResponseType
    BY ResponseAssumption
  <2> QED
    BY <2>1 DEF Job, ResponseType
<1> QED
  BY <1>1 DEF ResetAt, Time, NoTime

LEMMA FiveHourWrite ==
    ASSUME NEW r \in Record, NEW t \in Nat, NEW status \in FiveHourStatus
    PROVE  LET n == UpdateFiveHourStatus(r, status, t) IN
           /\ n \in Record
           /\ Dated(r) => Dated(n)
           /\ n.overloadedUntil = r.overloadedUntil
           /\ r.autoStopped /\ ~ n.autoStopped => status = "allowed"
           /\ n.schedulable => r.schedulable
<1>1. (t - (t % Hour)) + Window \in Time /\ t \in Time /\ t # NoTime
  BY TimeArithmetic
<1>2. CASE status = "allowed"
  BY <1>2 DEF UpdateFiveHourStatus, Record, Dated
<1>3. CASE status = "allowed_warning" /\ r.warnStops
  BY <1>1, <1>3 DEF UpdateFiveHourStatus, Stopped, Record, Dated
<1>4. CASE status = "rejected"
  BY <1>1, <1>4 DEF UpdateFiveHourStatus, Stopped, Record, Dated
<1>5. CASE ~ (status = "allowed") /\ ~ (status = "allowed_warning" /\ r.warnStops)
           /\ ~ (status = "rejected")
  BY <1>5 DEF UpdateFiveHourStatus, Record, Dated
<1> QED
  BY <1>2, <1>3, <1>4, <1>5

LEMMA CooldownWrite ==
    ASSUME NEW r \in Record, NEW j \in Job, j.resp \in Response
    PROVE  LET n == Cooldown(r, j) IN
           /\ n \in Record
           /\ n.autoStopped = r.autoStopped /\ n.stoppedAt = r.stoppedAt
           /\ r.overloadedUntil # NoTime => n.overloadedUntil # NoTime
           /\ n.schedulable => r.schedulable
<1>0. j.resp \in ResponseType
  BY ResponseAssumption
<1>1. j.at \in Nat /\ j.resp.retryAfter \in Nat /\ ResetAt(j) \in Time
  BY <1>0, ResetTime DEF Job, ResponseType
<1>2. \A d \in Nat : j.at + d \in Time /\ j.at + d # NoTime
  BY <1>1, TimeArithmetic
<1>a. Pause401 \in Nat /\ Pause403 \in Nat /\ Pause429 \in Nat /\ Pause529 \in Nat
  BY DurationAssumption
<1>3. LET until == RateLimitedUntil(j.at, j.resp.retryAfter, ResetAt(j)) IN
      until \in Time /\ until # NoTime
  BY <1>1, <1>2, <1>a DEF RateLimitedUntil
<1> DEFINE Good(n) == /\ n \in Record
                      /\ n.autoStopped = r.autoStopped /\ n.stoppedAt = r.stoppedAt
                      /\ r.overloadedUntil # NoTime => n.overloadedUntil # NoTime
                      /\ n.schedulable => r.schedulable
<1>4. \A until \in Time : until # NoTime => Good(Overload(r, until))
  BY DEF Overload, Record
<1>5. Good(Ban(r, j.at))
  BY <1>2, <1>a DEF Ban, Record, AccountStatus
<1>6. Good(AuthFailed(r, j.at))
  BY <1>2, <1>a DEF AuthFailed, Record, AccountStatus
<1>7. Good(r)
  OBVIOUS
<1>8. \/ Cooldown(r, j) \in {r, Ban(r, j.at), AuthFailed(r, j.at)}
      \/ \E until \in Time : until # NoTime /\ Cooldown(r, j) = Overload(r, until)
  BY <1>2, <1>3, <1>a DEF Cooldown
<1> QED
  BY <1>4, <1>5, <1>6, <1>7, <1>8

LEMMA RequestWrites ==
    ASSUME NEW r \in Record, NEW j \in Job, j.resp \in Response, NEW w \in RequestWrite,
           w = "fiveHour" => j.resp.fiveHour # ""
    PROVE  LET n == Written(r, j, w) IN
           /\ n \in Record
           /\ Dated(r) => Dated(n)
           /\ r.overloadedUntil # NoTime => n.overloadedUntil # NoTime
           /\ r.autoStopped /\ ~ n.autoStopped => j.resp.fiveHour = "allowed"
           /\ n.schedulable => r.schedulable
<1>1. j.at \in Nat /\ j.resp.fiveHour \in FiveHourStatus /\ ResetAt(j) \in Time
  <2>1. j.resp \in ResponseType
    BY ResponseAssumption
  <2> QED
    BY <2>1, ResetTime DEF Job, ResponseType
<1>3. CASE w = "fiveHour"
  <2>1. Written(r, j, w) = UpdateFiveHourStatus(r, j.resp.fiveHour, j.at)
    BY <1>3 DEF Written
  <2> DEFINE n == UpdateFiveHourStatus(r, j.resp.fiveHour, j.at)
  <2>2. /\ n \in Record
        /\ Dated(r) => Dated(n)
        /\ n.overloadedUntil = r.overloadedUntil
        /\ r.autoStopped /\ ~ n.autoStopped => j.resp.fiveHour = "allowed"
        /\ n.schedulable => r.schedulable
    BY <1>1, FiveHourWrite
  <2> HIDE DEF n
  <2>3. Written(r, j, w) = n
    BY <2>1 DEF n
  <2> QED
    BY <2>2, <2>3 DEF Dated
<1>4. CASE w = "reset"
  BY <1>1, <1>4 DEF Written, UpdateResetTime, Record, Dated
<1>5. CASE w = "cooldown"
  BY <1>5, CooldownWrite DEF Written, Dated
<1>6. CASE w = "opus"
  BY <1>1, <1>6 DEF Written, MarkOpusRateLimited, Record, Dated
<1> QED
  BY <1>3, <1>4, <1>5, <1>6 DEF RequestWrite

LEMMA SweepWrites ==
    ASSUME NEW r \in Record, NEW w \in SweepWriteKind
    PROVE  LET n == Swept(r, w) IN
           /\ n \in Record
           /\ Dated(r) => Dated(n)
           /\ r.overloadedUntil # NoTime /\ n.overloadedUntil = NoTime
              => w \in {"overload", "unblock"}
           /\ r.autoStopped /\ ~ n.autoStopped => w = "fiveHour"
           /\ n.schedulable => r.schedulable \/ w \in {"fiveHour", "unblock"}
<1>1. CASE w = "fiveHour"
  BY <1>1 DEF Swept, Restore, Record, FiveHourStatus, Dated
<1>2. CASE w = "overload"
  BY <1>2 DEF Swept, ClearOverload, Record, Time, Dated
<1>3. CASE w = "opus"
  BY <1>3 DEF Swept, ClearOpus, Record, Time, Dated
<1>4. CASE w = "unblock"
  BY <1>4 DEF Swept, Unblock, Record, AccountStatus, Time, Dated
<1> QED
  BY <1>1, <1>2, <1>3, <1>4 DEF SweepWriteKind

-----------------------------------------------------------------------------
(* The inductive invariant.  Busy: a request past Select has an account,   *)
(* and one with writes pending has a response that calls for them.  Known: *)
(* what the cleanup still has to write was due by the record it read, at   *)
(* the time it took, which is not in the future.                           *)
BusyJob(j) ==
    /\ j.phase # "idle" => j.acct \in Account
    /\ j.phase = "writing" => j.resp \in Response
    /\ "fiveHour" \in j.pending => j.resp.fiveHour # ""

Busy == \A q \in Request : BusyJob(job[q])

Known ==
    /\ sweep.pending # {} => sweep.id \in Account
    /\ sweep.at <= now
    /\ \A w \in sweep.pending : w \in Due(sweep.snap, sweep.at)

AllDated == \A a \in Account : Dated(rec[a])

HealthInv == TypeOK /\ Busy /\ Known /\ AllDated

LEMMA InitHealth == Init => HealthInv
<1> SUFFICES ASSUME Init PROVE HealthInv
  OBVIOUS
<1>1. ASSUME NEW a \in Account PROVE rec[a] \in Record /\ Dated(rec[a])
  <2> DEFINE r0 == StoreTokens(Created)
             b  == a \in WarnStops
  <2>1. rec[a] = [r0 EXCEPT !.warnStops = b]
    BY Zenon DEF Init
  <2>2. r0 \in Record /\ ~ r0.autoStopped
    <3>1. r0 \in Record
      BY CreatedRecord
    <3>2. ~ r0.autoStopped
      BY DEF StoreTokens, Created
    <3> QED
      BY <3>1, <3>2
  <2>3. b \in BOOLEAN
    <3>1. CASE a \in WarnStops
      <4>1. b = TRUE
        BY <3>1
      <4> QED
        BY <4>1
    <3>2. CASE a \notin WarnStops
      <4>1. b = FALSE
        BY <3>2
      <4> QED
        BY <4>1
    <3> QED
      BY <3>1, <3>2
  <2> HIDE DEF r0, b
  <2>4. rec[a] \in Record
    BY <2>1, <2>2, <2>3 DEF Record
  <2>5. ~ rec[a].autoStopped
    BY <2>1, <2>2 DEF Record
  <2> QED
    BY <2>4, <2>5 DEF Dated
<1>2. Idle \in Job
  BY DEF Idle, Job
<1>3. Resting \in Sweep
  BY CreatedRecord DEF Resting, Sweep
<1>4. TypeOK
  <2>1. rec = [a \in Account |-> rec[a]]
    BY Zenon DEF Init
  <2>2. rec \in [Account -> Record]
    BY <1>1, <2>1
  <2>3. job \in [Request -> Job]
    BY <1>2 DEF Init
  <2> QED
    BY <1>3, <2>2, <2>3 DEF Init, TypeOK
<1>5. Busy /\ Known
  <2>1. sweep = Resting /\ now = 0
    BY Zenon DEF Init
  <2>2. \A q \in Request : job[q] = Idle
    BY Zenon DEF Init
  <2>3. sweep.pending = {} /\ sweep.at <= now
    BY <2>1 DEF Resting
  <2>4. Idle.phase = "idle" /\ Idle.pending = {}
    BY DEF Idle
  <2>5. Busy
    BY <2>2, <2>4 DEF Busy, BusyJob
  <2>6. Known
    BY <2>3 DEF Known
  <2> QED
    BY <2>5, <2>6
<1> QED
  BY <1>1, <1>4, <1>5 DEF HealthInv, AllDated

-----------------------------------------------------------------------------
(* What a step does to the record of account a.                            *)
Effect(a) ==
    \/ rec'[a] \in {rec[a], StoreTokens(rec[a]), MarkError(rec[a])}
    \/ \E q \in Request, w \in RequestWrite :
          /\ job[q].phase = "writing" /\ job[q].acct = a /\ w \in job[q].pending
          /\ rec'[a] = Written(rec[a], job[q], w)
    \/ \E w \in SweepWriteKind :
          /\ sweep.id = a /\ w \in sweep.pending
          /\ rec'[a] = Swept(rec[a], w)

LEMMA Effects ==
    HealthInv /\ [Next]_vars
    => rec' = [a \in Account |-> rec'[a]] /\ \A a \in Account : Effect(a)
<1> SUFFICES ASSUME HealthInv, [Next]_vars
             PROVE  rec' = [a \in Account |-> rec'[a]] /\ \A a \in Account : Effect(a)
  OBVIOUS
<1> USE DEF Effect
<1>0. rec = [a \in Account |-> rec[a]]
  BY DEF HealthInv, TypeOK
<1>1. CASE rec' = rec
  BY <1>0, <1>1
<1>2. ASSUME NEW q \in Request, TokenStored(q) \/ TokenFailed(q)
      PROVE  rec' = [a \in Account |-> rec'[a]] /\ \A a \in Account : Effect(a)
  BY <1>0, <1>2 DEF TokenStored, TokenFailed
<1>3. ASSUME NEW q \in Request, NEW w \in RequestWrite, Write(q, w)
      PROVE  rec' = [a \in Account |-> rec'[a]] /\ \A a \in Account : Effect(a)
  <2>1. /\ job[q].phase = "writing" /\ w \in job[q].pending
        /\ rec' = [rec EXCEPT ![job[q].acct] = Written(@, job[q], w)]
    BY <1>3 DEF Write, NextWrite
  <2> QED
    BY <1>0, <2>1
<1>4. ASSUME NEW a \in Account, RefreshStep(a) \/ Resubmit(a)
      PROVE  rec' = [b \in Account |-> rec'[b]] /\ \A b \in Account : Effect(b)
  BY <1>0, <1>4 DEF RefreshStep, RefreshStored, RefreshFailed, RefreshSkipped, Resubmit
<1>5. ASSUME NEW w \in SweepWriteKind, SweepWrite(w)
      PROVE  rec' = [a \in Account |-> rec'[a]] /\ \A a \in Account : Effect(a)
  BY <1>0, <1>5 DEF SweepWrite, NextSweepWrite
<1>6. CASE UNCHANGED vars
  BY <1>1, <1>6 DEF vars
<1>7. ASSUME NEW q \in Request, RequestStep(q)
      PROVE  \/ rec' = rec
             \/ TokenStored(q) \/ TokenFailed(q)
             \/ \E w \in RequestWrite : Write(q, w)
  BY <1>7 DEF RequestStep, Select, Receive, LoseWrite, Disconnect
<1>8. SweepStep => rec' = rec \/ \E w \in SweepWriteKind : SweepWrite(w)
  BY DEF SweepStep, SweepStart, SweepRead
<1>9. LoseSweepStep \/ Restart \/ Tick => rec' = rec
  BY DEF LoseSweepStep, Restart, Tick
<1> QED
  BY <1>1, <1>2, <1>3, <1>4, <1>5, <1>6, <1>7, <1>8, <1>9 DEF Next

(* Of any step: the records stay well-formed and their stops dated, and    *)
(* pauses and stops end as the two action properties say.                  *)
LEMMA Records ==
    ASSUME HealthInv, [Next]_vars
    PROVE  /\ rec' \in [Account -> Record]
           /\ AllDated'
           /\ \A a \in Account :
                 /\ rec[a].overloadedUntil # NoTime /\ rec'[a].overloadedUntil = NoTime
                    => /\ sweep.id = a
                       /\ \E w \in sweep.pending : w \in {"overload", "unblock"}
                 /\ rec[a].autoStopped /\ ~ rec'[a].autoStopped
                    => \/ Allowing(a)
                       \/ sweep.id = a /\ "fiveHour" \in sweep.pending
                 /\ ~ rec[a].schedulable /\ rec'[a].schedulable
                    => /\ sweep.id = a
                       /\ \E w \in sweep.pending : w \in {"fiveHour", "unblock"}
<1> DEFINE Good(a) ==
             /\ rec'[a] \in Record /\ Dated(rec'[a])
             /\ rec[a].overloadedUntil # NoTime /\ rec'[a].overloadedUntil = NoTime
                => /\ sweep.id = a
                   /\ \E w \in sweep.pending : w \in {"overload", "unblock"}
             /\ rec[a].autoStopped /\ ~ rec'[a].autoStopped
                => \/ Allowing(a)
                   \/ sweep.id = a /\ "fiveHour" \in sweep.pending
             /\ ~ rec[a].schedulable /\ rec'[a].schedulable
                => /\ sweep.id = a
                   /\ \E w \in sweep.pending : w \in {"fiveHour", "unblock"}
<1>1. ASSUME NEW a \in Account PROVE Good(a)
  <2>1. rec[a] \in Record /\ Dated(rec[a])
    BY DEF HealthInv, TypeOK, AllDated
  <2>2. CASE rec'[a] \in {rec[a], StoreTokens(rec[a]), MarkError(rec[a])}
    BY <2>1, <2>2, TokenWrites DEF Dated
  <2>3. ASSUME NEW q \in Request, NEW w \in RequestWrite,
               job[q].phase = "writing", job[q].acct = a, w \in job[q].pending,
               rec'[a] = Written(rec[a], job[q], w)
        PROVE  Good(a)
    <3>1. /\ job[q] \in Job /\ job[q].resp \in Response
          /\ w = "fiveHour" => job[q].resp.fiveHour # ""
      BY <2>3 DEF HealthInv, TypeOK, Busy, BusyJob
    <3> DEFINE n == Written(rec[a], job[q], w)
    <3>2. /\ n \in Record
          /\ Dated(rec[a]) => Dated(n)
          /\ rec[a].overloadedUntil # NoTime => n.overloadedUntil # NoTime
          /\ rec[a].autoStopped /\ ~ n.autoStopped => job[q].resp.fiveHour = "allowed"
          /\ n.schedulable => rec[a].schedulable
      BY <2>1, <3>1, RequestWrites
    <3>3. job[q].resp.fiveHour = "allowed" => Allowing(a)
      BY <2>3 DEF Allowing
    <3> HIDE DEF n
    <3>4. rec'[a] = n
      BY <2>3 DEF n
    <3> QED
      BY <2>1, <3>2, <3>3, <3>4
  <2>4. ASSUME NEW w \in SweepWriteKind, sweep.id = a, w \in sweep.pending,
               rec'[a] = Swept(rec[a], w)
        PROVE  Good(a)
    <3> DEFINE n == Swept(rec[a], w)
    <3>1. /\ n \in Record
          /\ Dated(rec[a]) => Dated(n)
          /\ rec[a].overloadedUntil # NoTime /\ n.overloadedUntil = NoTime
             => w \in {"overload", "unblock"}
          /\ rec[a].autoStopped /\ ~ n.autoStopped => w = "fiveHour"
          /\ n.schedulable => rec[a].schedulable \/ w \in {"fiveHour", "unblock"}
      BY <2>1, SweepWrites
    <3> HIDE DEF n
    <3>2. rec'[a] = n
      BY <2>4 DEF n
    <3> QED
      BY <2>1, <2>4, <3>1, <3>2
  <2> HIDE DEF Good
  <2> QED
    BY <2>2, <2>3, <2>4, Effects DEF Effect
<1>2. rec' \in [Account -> Record]
  BY <1>1, Effects
<1> QED
  BY <1>1, <1>2 DEF AllDated

-----------------------------------------------------------------------------
(* The requests' jobs stay well-formed and Busy.                           *)

LEMMA IdleJob == Idle \in Job /\ BusyJob(Idle)
BY DEF Idle, Job, BusyJob

LEMMA AfterWrite ==
    ASSUME NEW j \in Job, BusyJob(j), NEW w \in RequestWrite
    PROVE  After(j, w) \in Job /\ BusyJob(After(j, w))
<1>1. CASE j.pending = {w}
  BY <1>1, IdleJob DEF After
<1>2. CASE j.pending # {w}
  BY <1>2 DEF After, Job, BusyJob
<1> QED
  BY <1>1, <1>2

LEMMA Received ==
    ASSUME NEW j \in Job, BusyJob(j), j.phase = "sent", NEW r \in Response, NEW t \in Nat
    PROVE  LET n == [j EXCEPT !.phase = "writing", !.resp = r,
                              !.at = t, !.pending = WritesFor(j, r)]
           IN  n \in Job /\ BusyJob(n)
<1> DEFINE W == WritesFor(j, r)
<1>1. W \subseteq RequestWrite
  BY DEF WritesFor, RequestWrite
<1>2. "fiveHour" \in W => r.fiveHour # ""
  BY DEF WritesFor
<1> HIDE DEF W
<1>3. [j EXCEPT !.phase = "writing", !.resp = r, !.at = t, !.pending = W] \in Job
  BY <1>1 DEF Job
<1>4. BusyJob([j EXCEPT !.phase = "writing", !.resp = r, !.at = t, !.pending = W])
  BY <1>2 DEF Job, BusyJob
<1> QED
  BY <1>3, <1>4 DEF W

LEMMA Requests ==
    ASSUME HealthInv, [Next]_vars
    PROVE  job' \in [Request -> Job] /\ Busy'
<1>0. job \in [Request -> Job] /\ Busy /\ now \in Nat
  BY DEF HealthInv, TypeOK
<1> DEFINE Good(f) == f \in [Request -> Job] /\ \A q \in Request : BusyJob(f[q])
           New(q, j) == job' = [job EXCEPT ![q] = j] /\ j \in Job /\ BusyJob(j)
<1>1. Good(job)
  BY <1>0 DEF Busy
<1>2. ASSUME NEW q \in Request, NEW j, New(q, j) PROVE Good(job')
  BY <1>1, <1>2
<1>3. ASSUME NEW q \in Request, RequestStep(q) PROVE \E j : New(q, j)
  <2>0. job[q] \in Job /\ BusyJob(job[q])
    BY <1>1
  <2>1. ASSUME NEW a \in Account, Select(q, a) PROVE \E j : New(q, j)
    <3>1. PICK opus \in BOOLEAN, last \in BOOLEAN, phase \in {"token", "sent"} :
             job' = [job EXCEPT ![q] = [Idle EXCEPT !.phase = phase, !.acct = a,
                                                    !.opus = opus, !.last = last]]
      BY <2>1 DEF Select
    <3> DEFINE j == [Idle EXCEPT !.phase = phase, !.acct = a,
                                 !.opus = opus, !.last = last]
    <3>2. j \in Job
      BY IdleJob DEF Job
    <3>3. BusyJob(j)
      BY DEF Idle, BusyJob
    <3> QED
      BY <3>1, <3>2, <3>3
  <2>2. CASE TokenStored(q)
    <3> DEFINE j == [job[q] EXCEPT !.phase = "sent"]
    <3>1. j \in Job /\ BusyJob(j)
      BY <2>0, <2>2 DEF Job, BusyJob, TokenStored
    <3> QED
      BY <2>2, <3>1 DEF TokenStored
  <2>3. CASE TokenFailed(q) \/ Disconnect(q)
    BY <2>3, IdleJob DEF TokenFailed, Disconnect
  <2>4. ASSUME NEW r \in Response, Receive(q, r) PROVE \E j : New(q, j)
    <3> DEFINE W == WritesFor(job[q], r)
               j == [job[q] EXCEPT !.phase = "writing", !.resp = r,
                                   !.at = now, !.pending = W]
    <3>1. job' = [job EXCEPT ![q] = IF W = {} THEN Idle ELSE j]
      BY <2>4 DEF Receive
    <3>2. j \in Job /\ BusyJob(j)
      BY <1>0, <2>0, <2>4, Received DEF Receive
    <3> HIDE DEF W, j
    <3>3. (IF W = {} THEN Idle ELSE j) \in {Idle, j}
      OBVIOUS
    <3> QED
      BY <3>1, <3>2, <3>3, IdleJob
  <2>5. ASSUME NEW w \in RequestWrite, Write(q, w) \/ LoseWrite(q, w)
        PROVE  \E j : New(q, j)
    <3>1. job' = [job EXCEPT ![q] = After(job[q], w)]
      BY <2>5 DEF Write, LoseWrite
    <3> QED
      BY <2>0, <3>1, AfterWrite
  <2> QED
    BY <1>3, <2>1, <2>2, <2>3, <2>4, <2>5 DEF RequestStep
<1>4. Restart => Good(job')
  BY IdleJob DEF Restart
<1>5. ASSUME NEW a \in Account, RefreshStep(a) \/ Resubmit(a) PROVE job' = job
  BY <1>5 DEF RefreshStep, RefreshStored, RefreshFailed, RefreshSkipped, Resubmit
<1>6. SweepStep \/ LoseSweepStep \/ Tick \/ UNCHANGED vars => job' = job
  BY DEF SweepStep, SweepStart, SweepRead, SweepWrite, LoseSweepStep, Tick, vars
<1>7. Good(job')
  <2> HIDE DEF Good, New
  <2> QED
    BY <1>1, <1>2, <1>3, <1>4, <1>5, <1>6 DEF Next, Good
<1> QED
  BY <1>7 DEF Busy

-----------------------------------------------------------------------------
(* The cleanup's state stays well-formed and Known.                        *)
LEMMA Cleanup ==
    ASSUME HealthInv, [Next]_vars
    PROVE  sweep' \in Sweep /\ now' \in Nat /\ Known'
<1>0. sweep \in Sweep /\ now \in Nat /\ rec \in [Account -> Record] /\ Known
  BY DEF HealthInv, TypeOK
<1> DEFINE Good(s) == /\ s \in Sweep /\ s.at <= now
                      /\ s.pending # {} => s.id \in Account
                      /\ \A w \in s.pending : w \in Due(s.snap, s.at)
<1>1. Good(sweep)
  BY <1>0 DEF Known
<1>2. Good(Resting) /\ Good([Resting EXCEPT !.todo = Account, !.at = now])
  <2>1. /\ Resting \in Sweep /\ Resting.at = 0 /\ Resting.pending = {}
    BY CreatedRecord DEF Resting, Sweep
  <2> DEFINE started == [Resting EXCEPT !.todo = Account, !.at = now]
  <2>2. started \in Sweep /\ started.at = now /\ started.pending = {}
    BY <1>0, <2>1 DEF Sweep
  <2> HIDE DEF started
  <2>3. Good(started)
    BY <1>0, <2>2
  <2>4. Good(Resting)
    BY <1>0, <2>1
  <2> QED
    BY <2>3, <2>4 DEF started
<1>3. ASSUME NEW s, Good(s) PROVE Good(Leave(s))
  BY <1>2, <1>3, CreatedRecord DEF Leave, Sweep
<1>4. ASSUME NEW a \in Account, Good([sweep EXCEPT !.todo = @ \ {a}])
      PROVE  SweepRead(a) => Good(sweep')
  <2> DEFINE due  == Due(rec[a], sweep.at)
             rest == [sweep EXCEPT !.todo = @ \ {a}]
             held == [rest EXCEPT !.id = a, !.snap = rec[a], !.pending = due]
  <2>1. due \subseteq SweepWriteKind
    BY DEF Due, SweepWriteKind
  <2>2. rec[a] \in Record
    BY <1>0
  <2>3. held \in Sweep /\ held.at = sweep.at /\ held.id = a /\ held.snap = rec[a]
        /\ held.pending = due
    <3> HIDE DEF due
    <3> QED
      BY <1>0, <2>1, <2>2 DEF Sweep
  <2>4. Good(held)
    BY <1>1, <2>3
  <2>5. SweepRead(a) => sweep' \in {Leave(rest), held}
    BY DEF SweepRead
  <2> QED
    BY <1>3, <1>4, <2>4, <2>5
<1>5. ASSUME NEW a \in Account PROVE Good([sweep EXCEPT !.todo = @ \ {a}])
  BY <1>1 DEF Sweep
<1>6. ASSUME NEW w \in SweepWriteKind PROVE Good(SweepAfter(w))
  <2>1. Good([sweep EXCEPT !.pending = @ \ {w}])
    BY <1>1 DEF Sweep
  <2> QED
    BY <1>1, <1>3, <2>1 DEF SweepAfter
<1>7. Next \/ UNCHANGED vars => Good(sweep')
  <2>1. SweepStart => Good(sweep')
    BY <1>2 DEF SweepStart
  <2>2. ASSUME NEW a \in Account PROVE SweepRead(a) => Good(sweep')
    BY <1>4, <1>5
  <2>3. ASSUME NEW w \in SweepWriteKind PROVE SweepWrite(w) => Good(sweep')
    BY <1>6 DEF SweepWrite
  <2>4. LoseSweepStep => Good(sweep')
    <3>1. sweep.todo \subseteq Account
      BY <1>0 DEF Sweep
    <3> HIDE DEF Good
    <3> QED
      BY <1>3, <1>5, <1>6, <3>1 DEF LoseSweepStep
  <2>5. Restart => Good(sweep')
    BY <1>2 DEF Restart
  <2>6. ASSUME NEW q \in Request, RequestStep(q) PROVE sweep' = sweep
    BY <2>6 DEF RequestStep, Select, TokenStored, TokenFailed, Receive, Write,
                LoseWrite, Disconnect
  <2>7. ASSUME NEW a \in Account, RefreshStep(a) \/ Resubmit(a) PROVE sweep' = sweep
    BY <2>7 DEF RefreshStep, RefreshStored, RefreshFailed, RefreshSkipped, Resubmit
  <2>8. Tick \/ UNCHANGED vars => sweep' = sweep
    BY DEF Tick, vars
  <2> HIDE DEF Good
  <2> QED
    BY <1>1, <2>1, <2>2, <2>3, <2>4, <2>5, <2>6, <2>7, <2>8 DEF Next, SweepStep
<1>8. now' \in Nat /\ now <= now'
  <2>1. ASSUME NEW q \in Request, RequestStep(q) PROVE now' = now
    BY <2>1 DEF RequestStep, Select, TokenStored, TokenFailed, Receive, Write,
                LoseWrite, Disconnect
  <2>2. ASSUME NEW a \in Account, RefreshStep(a) \/ Resubmit(a) PROVE now' = now
    BY <2>2 DEF RefreshStep, RefreshStored, RefreshFailed, RefreshSkipped, Resubmit
  <2>3. SweepStep \/ LoseSweepStep \/ Restart \/ UNCHANGED vars => now' = now
    BY DEF SweepStep, SweepStart, SweepRead, SweepWrite, LoseSweepStep, Restart, vars
  <2>4. Tick => now' = now + 1
    BY DEF Tick
  <2>5. now' = now \/ now' = now + 1
    BY <2>1, <2>2, <2>3, <2>4 DEF Next
  <2> QED
    BY <1>0, <2>5
<1>9. sweep' \in Sweep /\ sweep'.at <= now
      /\ (sweep'.pending # {} => sweep'.id \in Account)
      /\ \A w \in sweep'.pending : w \in Due(sweep'.snap, sweep'.at)
  BY <1>7
<1>10. sweep'.at <= now'
  <2>1. sweep'.at \in Nat
    BY <1>9 DEF Sweep
  <2> QED
    BY <1>0, <1>8, <1>9, <2>1
<1> QED
  BY <1>8, <1>9, <1>10 DEF Known

-----------------------------------------------------------------------------
(* The remaining two variables.                                            *)
LEMMA Counters ==
    ASSUME HealthInv, [Next]_vars
    PROVE  refreshing' \subseteq Account /\ faults' \in Nat
<1>0. refreshing \subseteq Account /\ faults \in Nat
  BY DEF HealthInv, TypeOK
<1>1. ASSUME NEW q \in Request, RequestStep(q)
      PROVE  refreshing' \subseteq Account /\ faults' \in Nat
  <2>1. job[q].phase # "idle" => job[q].acct \in Account
    BY DEF HealthInv, Busy, BusyJob
  <2>2. CASE \E a \in Account : Select(q, a)
    BY <1>0, <2>2 DEF Select
  <2>3. CASE TokenStored(q) \/ TokenFailed(q) \/ \E r \in Response : Receive(q, r)
    BY <1>0, <2>3 DEF TokenStored, TokenFailed, Receive
  <2>4. ASSUME NEW w \in RequestWrite, Write(q, w) \/ LoseWrite(q, w)
        PROVE  refreshing' \subseteq Account /\ faults' \in Nat
    BY <1>0, <2>1, <2>4 DEF Write, LoseWrite, StartRefresh
  <2>5. CASE Disconnect(q)
    BY <1>0, <2>1, <2>5 DEF Disconnect
  <2> QED
    BY <1>1, <2>2, <2>3, <2>4, <2>5 DEF RequestStep
<1>2. ASSUME NEW a \in Account, RefreshStep(a) \/ Resubmit(a)
      PROVE  refreshing' \subseteq Account /\ faults' \in Nat
  BY <1>0, <1>2 DEF RefreshStep, RefreshStored, RefreshFailed, RefreshSkipped, Resubmit
<1>3. SweepStep \/ Tick \/ UNCHANGED vars => refreshing' = refreshing /\ faults' = faults
  BY DEF SweepStep, SweepStart, SweepRead, SweepWrite, Tick, vars
<1>4. LoseSweepStep => refreshing' = refreshing /\ faults' = faults + 1
  BY DEF LoseSweepStep
<1>5. Restart => refreshing' = {} /\ faults' = faults + 1
  BY DEF Restart
<1> QED
  BY <1>0, <1>1, <1>2, <1>3, <1>4, <1>5 DEF Next

LEMMA StepHealth == HealthInv /\ [Next]_vars => HealthInv'
BY Records, Requests, Cleanup, Counters DEF HealthInv, TypeOK

LEMMA HealthAlways == Spec => []HealthInv
BY InitHealth, StepHealth, PTL DEF Spec

-----------------------------------------------------------------------------
(* Every record, job and sweep stays of its type: no write of any handler, *)
(* in any order, takes a record out of the states the scheduler and the    *)
(* cleanup know.                                                           *)
THEOREM TypeCorrect == Spec => []TypeOK
<1>1. HealthInv => TypeOK
  BY DEF HealthInv
<1> QED
  BY <1>1, HealthAlways, PTL

(* A stopped account can always be restored by the cleanup (manager.go:    *)
(* 134-156): the stop has a date, even if the upstream named no window.    *)
THEOREM StopIsDated == Spec => []StopCanBeLifted
<1>1. HealthInv => StopCanBeLifted
  BY DEF HealthInv, AllDated, Dated, StopCanBeLifted
<1> QED
  BY <1>1, HealthAlways, PTL

(* The cleanup ends no running pause that it has seen, and nobody else     *)
(* ends a pause.                                                           *)
THEOREM PauseEnds == Spec => PauseEndsOnlyWhenOver
<1>1. HealthInv /\ [Next]_vars
      => [\A a \in Account :
            rec[a].overloadedUntil # NoTime /\ rec'[a].overloadedUntil = NoTime
            => \/ now > rec[a].overloadedUntil
               \/ /\ sweep.id = a
                  /\ sweep.snap.overloadedUntil # rec[a].overloadedUntil]_vars
  <2> SUFFICES ASSUME HealthInv, [Next]_vars, NEW a \in Account,
                      rec[a].overloadedUntil # NoTime, rec'[a].overloadedUntil = NoTime,
                      sweep.snap.overloadedUntil = rec[a].overloadedUntil
               PROVE  sweep.id = a /\ now > rec[a].overloadedUntil
    BY Records
  <2>1. sweep.id = a /\ \E w \in sweep.pending : w \in {"overload", "unblock"}
    BY Records
  <2>2. OverloadOver(sweep.snap, sweep.at)
    BY <2>1 DEF HealthInv, Known, Due, BlockOver
  <2>3. /\ sweep.at \in Nat /\ now \in Nat /\ sweep.at <= now
        /\ rec[a].overloadedUntil \in Nat
    BY DEF HealthInv, TypeOK, Known, Sweep, Record, Time
  <2> QED
    BY <2>1, <2>2, <2>3 DEF OverloadOver
<1> QED
  BY <1>1, HealthAlways, PTL DEF Spec, PauseEndsOnlyWhenOver

(* A stop that the cleanup is about to end is over by what it read.        *)
LEMMA StopDue == HealthInv /\ "fiveHour" \in sweep.pending => StopSeenOver
<1> SUFFICES ASSUME HealthInv, "fiveHour" \in sweep.pending PROVE StopSeenOver
  OBVIOUS
<1>1. FiveHourOver(sweep.snap, sweep.at)
  BY DEF HealthInv, Known, Due
<1>2. /\ sweep.at \in Nat /\ now \in Nat /\ sweep.at <= now
      /\ sweep.snap.windowEnd \in Time /\ sweep.snap.stoppedAt \in Time
  BY DEF HealthInv, TypeOK, Known, Sweep, Record
<1> QED
  BY <1>1, <1>2, DurationAssumption DEF FiveHourOver, StopSeenOver, Time, NoTime

(* A 5-hour stop ends on an "allowed" from the upstream or on a cleanup    *)
(* that read a window which is over.                                       *)
THEOREM StopEnds == Spec => StopEndsOnlyWhenOver
<1>1. HealthInv /\ [Next]_vars
      => [\A a \in Account :
            rec[a].autoStopped /\ ~ rec'[a].autoStopped
            => Allowing(a) \/ (sweep.id = a /\ StopSeenOver)]_vars
  BY Records, StopDue
<1> QED
  BY <1>1, HealthAlways, PTL DEF Spec, StopEndsOnlyWhenOver

(* A stopped or banned account comes back to the pool only by a cleanup    *)
(* that read a stop or a ban which is over.                                *)
THEOREM BackWhenOver == Spec => BackOnlyWhenOver
<1>1. HealthInv /\ [Next]_vars
      => [\A a \in Account :
            ~ rec[a].schedulable /\ rec'[a].schedulable
            => /\ sweep.id = a
               /\ \/ StopSeenOver
                  \/ /\ sweep.snap.status = "blocked"
                     /\ sweep.snap.overloadedUntil # NoTime
                     /\ now > sweep.snap.overloadedUntil]_vars
  <2> SUFFICES ASSUME HealthInv, [Next]_vars, NEW a \in Account,
                      ~ rec[a].schedulable, rec'[a].schedulable, ~ StopSeenOver
               PROVE  /\ sweep.id = a
                      /\ sweep.snap.status = "blocked"
                      /\ sweep.snap.overloadedUntil # NoTime
                      /\ now > sweep.snap.overloadedUntil
    BY Records
  <2>1. sweep.id = a /\ "unblock" \in sweep.pending
    BY Records, StopDue
  <2>2. BlockOver(sweep.snap, sweep.at)
    BY <2>1 DEF HealthInv, Known, Due
  <2>3. /\ sweep.at \in Nat /\ now \in Nat /\ sweep.at <= now
        /\ sweep.snap.overloadedUntil \in Time
    BY DEF HealthInv, TypeOK, Known, Sweep, Record
  <2> QED
    BY <2>1, <2>2, <2>3 DEF BlockOver, OverloadOver, Time, NoTime
<1> QED
  BY <1>1, HealthAlways, PTL DEF Spec, BackOnlyWhenOver

-----------------------------------------------------------------------------
(* One pass of the cleanup.  No write makes an account "created" again.    *)
InUse == \A a \in Account : rec[a].status # "created"

LEMMA StatusWritten ==
    ASSUME NEW r \in Record, r.status # "created"
    PROVE  /\ StoreTokens(r).status # "created" /\ MarkError(r).status # "created"
           /\ \A j \in Job, w \in RequestWrite : Written(r, j, w).status # "created"
           /\ \A w \in SweepWriteKind : Swept(r, w).status # "created"
<1>1. StoreTokens(r).status # "created" /\ MarkError(r).status # "created"
  BY DEF StoreTokens, MarkError, Record
<1>2. ASSUME NEW j \in Job, NEW w \in RequestWrite
      PROVE  Written(r, j, w).status # "created"
  <2>1. \A status, t : UpdateFiveHourStatus(r, status, t).status = r.status
    BY DEF UpdateFiveHourStatus, Stopped, Record
  <2>2. \A t : UpdateResetTime(r, t).status = r.status
                /\ MarkOpusRateLimited(r, t).status = r.status
    BY DEF UpdateResetTime, MarkOpusRateLimited, Record
  <2>3. \A t : /\ Overload(r, t).status = r.status
               /\ Ban(r, t).status = "blocked"
               /\ AuthFailed(r, t).status = "error"
    BY DEF Overload, Ban, AuthFailed, Record
  <2>4. Cooldown(r, j).status # "created"
    BY <2>3 DEF Cooldown
  <2> QED
    BY <2>1, <2>2, <2>4 DEF Written, RequestWrite
<1>3. ASSUME NEW w \in SweepWriteKind PROVE Swept(r, w).status # "created"
  BY DEF Swept, Restore, ClearOverload, ClearOpus, Unblock, Record, SweepWriteKind
<1> QED
  BY <1>1, <1>2, <1>3

LEMMA AlwaysInUse == Spec => []InUse
<1>1. Init => InUse
  <2> SUFFICES ASSUME Init, NEW a \in Account PROVE rec[a].status # "created"
    BY DEF InUse
  <2>1. rec[a] = [StoreTokens(Created) EXCEPT !.warnStops = (a \in WarnStops)]
    BY Zenon DEF Init
  <2> QED
    BY <2>1 DEF StoreTokens, Created
<1>2. HealthInv /\ InUse /\ [Next]_vars => InUse'
  <2> SUFFICES ASSUME HealthInv, InUse, [Next]_vars, NEW a \in Account
               PROVE  rec'[a].status # "created"
    BY DEF InUse
  <2>1. rec[a] \in Record /\ rec[a].status # "created"
    BY DEF HealthInv, TypeOK, InUse
  <2>2. \A q \in Request : job[q] \in Job
    BY DEF HealthInv, TypeOK
  <2>3. Effect(a)
    BY Effects
  <2>4. CASE rec'[a] \in {rec[a], StoreTokens(rec[a]), MarkError(rec[a])}
    BY <2>1, <2>4, StatusWritten
  <2>5. ASSUME NEW q \in Request, NEW w \in RequestWrite,
               rec'[a] = Written(rec[a], job[q], w)
        PROVE  rec'[a].status # "created"
    BY <2>1, <2>2, <2>5, StatusWritten
  <2>6. ASSUME NEW w \in SweepWriteKind, rec'[a] = Swept(rec[a], w)
        PROVE  rec'[a].status # "created"
    BY <2>1, <2>6, StatusWritten
  <2> QED
    BY <2>3, <2>4, <2>5, <2>6 DEF Effect
<1> QED
  BY <1>1, <1>2, HealthAlways, PTL DEF Spec

(* A pass at time t, field by field: it makes a record that was stopped or *)
(* banned schedulable, and leaves no deadline behind that is over.         *)
LEMMA PassedFields ==
    ASSUME NEW r \in Record, NEW t \in Nat
    PROVE  LET n == Passed(r, t) IN
           /\ n.status = IF BlockOver(r, t) THEN "active" ELSE r.status
           /\ n.schedulable = (r.schedulable \/ FiveHourOver(r, t) \/ BlockOver(r, t))
           /\ n.autoStopped = (r.autoStopped /\ ~ FiveHourOver(r, t))
           /\ n.windowEnd = r.windowEnd
           /\ n.overloadedUntil = IF OverloadOver(r, t) THEN NoTime
                                  ELSE r.overloadedUntil
           /\ n.opusEnd = IF OpusOver(r, t) THEN NoTime ELSE r.opusEnd
<1> DEFINE r1 == IF FiveHourOver(r, t) THEN Restore(r) ELSE r
           r2 == IF OverloadOver(r, t) THEN ClearOverload(r1) ELSE r1
           r3 == IF OpusOver(r, t) THEN ClearOpus(r2) ELSE r2
           r4 == IF BlockOver(r, t) THEN Unblock(r3) ELSE r3
<1>1. Passed(r, t) = r4
  BY DEF Passed, Due, Swept
<1>2. /\ r1 \in Record
      /\ r1.status = r.status /\ r1.windowEnd = r.windowEnd
      /\ r1.overloadedUntil = r.overloadedUntil /\ r1.opusEnd = r.opusEnd
      /\ r1.schedulable = (r.schedulable \/ FiveHourOver(r, t))
      /\ r1.autoStopped = (r.autoStopped /\ ~ FiveHourOver(r, t))
  BY DEF Restore, Record, FiveHourStatus
<1> HIDE DEF r1
<1>3. /\ r2 \in Record
      /\ r2.status = r1.status /\ r2.windowEnd = r1.windowEnd
      /\ r2.overloadedUntil = IF OverloadOver(r, t) THEN NoTime ELSE r1.overloadedUntil
      /\ r2.opusEnd = r1.opusEnd
      /\ r2.schedulable = r1.schedulable /\ r2.autoStopped = r1.autoStopped
  BY <1>2 DEF ClearOverload, Record, Time
<1> HIDE DEF r2
<1>4. /\ r3 \in Record
      /\ r3.status = r2.status /\ r3.windowEnd = r2.windowEnd
      /\ r3.overloadedUntil = r2.overloadedUntil
      /\ r3.opusEnd = IF OpusOver(r, t) THEN NoTime ELSE r2.opusEnd
      /\ r3.schedulable = r2.schedulable /\ r3.autoStopped = r2.autoStopped
  BY <1>3 DEF ClearOpus, Record, Time
<1> HIDE DEF r3
<1>5. /\ r4.status = IF BlockOver(r, t) THEN "active" ELSE r3.status
      /\ r4.windowEnd = r3.windowEnd
      /\ r4.overloadedUntil = IF BlockOver(r, t) THEN NoTime ELSE r3.overloadedUntil
      /\ r4.opusEnd = r3.opusEnd
      /\ r4.schedulable = (r3.schedulable \/ BlockOver(r, t))
      /\ r4.autoStopped = r3.autoStopped
  BY <1>4 DEF Unblock, Record
<1>6. BlockOver(r, t) => OverloadOver(r, t)
  BY DEF BlockOver
<1> HIDE DEF r4
<1> QED
  BY <1>1, <1>2, <1>3, <1>4, <1>5, <1>6

(* The writes that come after w in a pass.                                 *)
Later(w) ==
    CASE w = "fiveHour" -> {"overload", "opus", "unblock"}
      [] w = "overload" -> {"opus", "unblock"}
      [] w = "opus"     -> {"unblock"}
      [] w = "unblock"  -> {}

(* The cleanup makes its writes in turn: with one of them still to come,   *)
(* all the later ones that are due are.                                    *)
InTurnOf(s) == \A w \in s.pending : Due(s.snap, s.at) \cap Later(w) \subseteq s.pending

InTurn == InTurnOf(sweep)

LEMMA AlwaysInTurn == Spec => []InTurn
<1>r. /\ InTurnOf(Resting)
      /\ InTurnOf([Resting EXCEPT !.todo = Account, !.at = now])
  BY DEF Resting, InTurnOf
<1>l. ASSUME NEW s \in Sweep, InTurnOf(s) PROVE InTurnOf(Leave(s))
  BY <1>l, <1>r DEF Leave, Sweep, InTurnOf
<1>1. Init => InTurn
  <2> SUFFICES ASSUME Init PROVE InTurnOf(sweep)
    BY DEF InTurn
  <2>1. sweep = Resting
    BY Zenon DEF Init
  <2> QED
    BY <1>r, <2>1
<1>2. HealthInv /\ InTurn /\ [Next]_vars => InTurn'
  <2> SUFFICES ASSUME HealthInv, InTurnOf(sweep), [Next]_vars PROVE InTurnOf(sweep')
    BY DEF InTurn, InTurnOf
  <2>0. sweep \in Sweep /\ rec \in [Account -> Record] /\ sweep.pending \subseteq SweepWriteKind
    BY DEF HealthInv, TypeOK, Sweep
  <2>1. ASSUME NEW a \in Account
        PROVE  LET rest == [sweep EXCEPT !.todo = @ \ {a}]
               IN  rest \in Sweep /\ InTurnOf(rest)
    BY <2>0 DEF Sweep, InTurnOf
  <2>2. ASSUME NEW a \in Account, SweepRead(a) PROVE InTurnOf(sweep')
    <3> DEFINE due  == Due(rec[a], sweep.at)
               rest == [sweep EXCEPT !.todo = @ \ {a}]
               held == [rest EXCEPT !.id = a, !.snap = rec[a], !.pending = due]
    <3>1. held.at = sweep.at /\ held.snap = rec[a] /\ held.pending = due
      <4> HIDE DEF due
      <4> QED
        BY <2>0 DEF Sweep
    <3>2. InTurnOf(held)
      BY <3>1 DEF InTurnOf
    <3>3. sweep' \in {Leave(rest), held}
      BY <2>2 DEF SweepRead
    <3> QED
      BY <1>l, <2>1, <3>2, <3>3
  <2>3. ASSUME NEW w \in SweepWriteKind, NextSweepWrite(w) PROVE InTurnOf(SweepAfter(w))
    <3> DEFINE less == [sweep EXCEPT !.pending = @ \ {w}]
    <3>1. /\ less.pending = sweep.pending \ {w}
          /\ less.snap = sweep.snap /\ less.at = sweep.at
      BY <2>0 DEF Sweep
    <3>2. \A v \in sweep.pending : w \notin Later(v)
      BY <2>0, <2>3 DEF NextSweepWrite, Later, SweepWriteKind
    <3>3. InTurnOf(less)
      BY <3>1, <3>2 DEF InTurnOf
    <3> QED
      BY <1>l, <2>0, <3>3 DEF SweepAfter
  <2>4. SweepStart \/ Restart => InTurnOf(sweep')
    BY <1>r DEF SweepStart, Restart
  <2>5. LoseSweepStep => InTurnOf(sweep')
    <3>1. sweep.todo \subseteq Account
      BY <2>0 DEF Sweep
    <3> QED
      BY <1>l, <2>1, <2>3, <3>1 DEF LoseSweepStep
  <2>6. \A w \in SweepWriteKind : SweepWrite(w) => InTurnOf(sweep')
    BY <2>3 DEF SweepWrite
  <2>7. ASSUME NEW q \in Request, RequestStep(q) PROVE sweep' = sweep
    BY <2>7 DEF RequestStep, Select, TokenStored, TokenFailed, Receive, Write,
                LoseWrite, Disconnect
  <2>8. ASSUME NEW a \in Account, RefreshStep(a) \/ Resubmit(a) PROVE sweep' = sweep
    BY <2>8 DEF RefreshStep, RefreshStored, RefreshFailed, RefreshSkipped, Resubmit
  <2>9. Tick \/ UNCHANGED vars => sweep' = sweep
    BY DEF Tick, vars
  <2> QED
    BY <2>2, <2>4, <2>5, <2>6, <2>7, <2>8, <2>9 DEF Next, SweepStep
<1> QED
  BY <1>1, <1>2, HealthAlways, PTL DEF Spec

(* The record r after the writes due at t, without those in rest.          *)
Partly(r, t, rest) ==
    LET Do(n, w) == IF w \in Due(r, t) \ rest THEN Swept(n, w) ELSE n
    IN  Do(Do(Do(Do(r, "fiveHour"), "overload"), "opus"), "unblock")

(* Passed is what the cleanup does: it reads a record, its writes make of  *)
(* it one Partly after the other as long as nobody else writes to the      *)
(* account, and after the last of them the pass is made.                   *)
LEMMA SweepMakesPass ==
    ASSUME HealthInv, InTurn
    PROVE  /\ \A r \in Record, t \in Nat :
                 /\ Partly(r, t, Due(r, t)) = r
                 /\ Partly(r, t, {}) = Passed(r, t)
           /\ \A w \in SweepWriteKind :
                 /\ SweepWrite(w)
                 /\ rec[sweep.id] = Partly(sweep.snap, sweep.at, sweep.pending)
                 => rec'[sweep.id] = Partly(sweep.snap, sweep.at, sweep.pending \ {w})
<1>1. ASSUME NEW r \in Record, NEW t \in Nat
      PROVE  Partly(r, t, Due(r, t)) = r /\ Partly(r, t, {}) = Passed(r, t)
  BY DEF Partly, Passed
<1>2. ASSUME NEW w \in SweepWriteKind, SweepWrite(w),
             rec[sweep.id] = Partly(sweep.snap, sweep.at, sweep.pending)
      PROVE  rec'[sweep.id] = Partly(sweep.snap, sweep.at, sweep.pending \ {w})
  <2> DEFINE due  == Due(sweep.snap, sweep.at)
             rest == sweep.pending
  <2>1. w \in rest /\ rest \subseteq due /\ NextSweepWrite(w)
    BY <1>2 DEF SweepWrite, NextSweepWrite, HealthInv, Known
  <2>2. rec'[sweep.id] = Swept(rec[sweep.id], w)
    BY <1>2, <2>1 DEF SweepWrite, HealthInv, TypeOK, Known
  <2>3. \A v \in Later(w) : v \in due => v \in rest
    BY <2>1 DEF InTurn, InTurnOf
  <2> DEFINE Do(n, v, left) == IF v \in due \ left THEN Swept(n, v) ELSE n
  <2>4. \A n : Do(n, w, rest) = n /\ Do(n, w, rest \ {w}) = Swept(n, w)
    BY <2>1
  <2>5. \A n, v : v # w => Do(n, v, rest \ {w}) = Do(n, v, rest)
    OBVIOUS
  <2>6. \A n : \A v \in Later(w) : Do(n, v, rest) = n
    BY <2>3
  <2>7. \A left : Partly(sweep.snap, sweep.at, left)
                  = Do(Do(Do(Do(sweep.snap, "fiveHour", left), "overload", left),
                          "opus", left), "unblock", left)
    BY DEF Partly
  <2> HIDE DEF Do, due
  <2>8. CASE w = "unblock"
    BY <1>2, <2>2, <2>4, <2>5, <2>7, <2>8
  <2>9. CASE w = "opus"
    BY <1>2, <2>2, <2>4, <2>5, <2>6, <2>7, <2>9 DEF Later
  <2>10. CASE w = "overload"
    BY <1>2, <2>2, <2>4, <2>5, <2>6, <2>7, <2>10 DEF Later
  <2>11. CASE w = "fiveHour"
    BY <1>2, <2>2, <2>4, <2>5, <2>6, <2>7, <2>11 DEF Later
  <2> QED
    BY <2>8, <2>9, <2>10, <2>11 DEF SweepWriteKind
<1> QED
  BY <1>1, <1>2

(* In every state a pass that nobody disturbs puts an account back unless  *)
(* something of it has not ended or it is in a dead end: stops are dated,  *)
(* and no other combination of the fields keeps an account out.            *)
THEOREM OnePass == Spec => []OnePassIsEnough
<1>1. HealthInv /\ InUse => OnePassIsEnough
  <2> SUFFICES ASSUME HealthInv, InUse, NEW a \in Account,
                      ~ StillOut(rec[a], now), ~ DeadEnd(rec[a])
               PROVE  IsAvailable(Passed(rec[a], now), TRUE, now)
    BY DEF OnePassIsEnough
  <2> DEFINE r == rec[a]
             n == Passed(r, now)
  <2>1. r \in Record /\ now \in Nat /\ r.status # "created" /\ Dated(r)
    BY DEF HealthInv, TypeOK, InUse, AllDated
  <2>2. /\ r.status \in AccountStatus /\ r.schedulable \in BOOLEAN
        /\ r.autoStopped \in BOOLEAN
        /\ r.stoppedAt \in Time /\ r.windowEnd \in Time
        /\ r.overloadedUntil \in Time /\ r.opusEnd \in Time
    BY <2>1 DEF Record
  <2> HIDE DEF r
  <2>3. ~ StillOut(r, now) /\ ~ DeadEnd(r)
    BY DEF r
  <2>4. r.autoStopped => FiveHourOver(r, now)
    BY <2>1, <2>2, <2>3, DurationAssumption DEF StillOut, FiveHourOver, Dated, Time, NoTime
  <2>5. /\ r.overloadedUntil # NoTime => OverloadOver(r, now)
        /\ r.opusEnd # NoTime => OpusOver(r, now)
    BY <2>1, <2>2, <2>3 DEF StillOut, OverloadOver, OpusOver, Time, NoTime
  <2>6. r.status = "active" \/ BlockOver(r, now)
    BY <2>1, <2>2, <2>3, <2>5 DEF DeadEnd, BlockOver, AccountStatus
  <2>7. r.schedulable \/ FiveHourOver(r, now) \/ BlockOver(r, now)
    BY <2>3, <2>4, <2>6 DEF DeadEnd
  <2>8. /\ n.status = "active" /\ n.schedulable /\ ~ n.autoStopped
        /\ n.overloadedUntil = NoTime /\ n.opusEnd = NoTime
    BY <2>1, <2>4, <2>5, <2>6, <2>7, PassedFields
  <2> HIDE DEF n
  <2>9. IsAvailable(n, TRUE, now)
    BY <2>8 DEF IsAvailable
  <2> QED
    BY <2>9 DEF n, r
<1> QED
  BY <1>1, HealthAlways, AlwaysInUse, PTL
=============================================================================
