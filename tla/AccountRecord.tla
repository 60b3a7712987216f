--------------------------- MODULE AccountRecord ---------------------------
(***************************************************************************)
(* The Redis hash claude:account:<id>, reduced to the fields on which the  *)
(* scheduler and the cleanup decide, and every write the program makes to  *)
(* these fields as an operator from record to record.  One operator is one *)
(* HSET: Redis applies it atomically, and fields it does not name keep     *)
(* their values.                                                           *)
(*                                                                         *)
(* Times are natural numbers of one arbitrary unit; NoTime is a field that *)
(* is empty or absent, which time.Parse rejects.  Fields that only         *)
(* document the state (errorMessage, overloadedAt, rateLimitedAt,          *)
(* sessionWindowStart) are left out: nothing reads them.                   *)
(***************************************************************************)
EXTENDS Integers

CONSTANTS
    Pause401,  \* cfg.ErrorPause401, also the pause after a ban signal
    Pause403,  \* cfg.ErrorPause403
    Pause429,  \* cfg.ErrorPause429, when the response names no delay
    Pause529,  \* cfg.ErrorPause529
    Window,    \* the 5-hour rate limit window
    Hour,      \* what the window's start is truncated to
    Grace      \* the minute added to a window's end

ASSUME DurationAssumption ==
    /\ Pause401 \in Nat /\ Pause403 \in Nat /\ Pause429 \in Nat /\ Pause529 \in Nat
    /\ Window \in Nat /\ Grace \in Nat /\ Hour \in Nat \ {0}

NoTime == -1
Time   == Nat \cup {NoTime}

AccountStatus  == {"created", "active", "error", "blocked"}
FiveHourStatus == {"", "allowed", "allowed_warning", "rejected"}

Record == [ status          : AccountStatus,
            schedulable     : BOOLEAN,
            autoStopped     : BOOLEAN,         \* fiveHourAutoStopped
            fiveHourStatus  : FiveHourStatus,
            stoppedAt       : Time,            \* fiveHourStoppedAt
            windowEnd       : Time,            \* sessionWindowEnd
            overloadedUntil : Time,
            opusEnd         : Time,            \* opusRateLimitEndAt
            warnStops       : BOOLEAN ]        \* autoStopOnWarning

(* What AccountStore.Create leaves; its token fields are not in Record.    *)
Created == [ status |-> "created", schedulable |-> TRUE, autoStopped |-> FALSE,
             fiveHourStatus |-> "", stoppedAt |-> NoTime, windowEnd |-> NoTime,
             overloadedUntil |-> NoTime, opusEnd |-> NoTime, warnStops |-> FALSE ]

-----------------------------------------------------------------------------
(* Token manager: StoreTokens and markError.                               *)

(* Mutant: fresh tokens put the account back into the pool.                *)
StoreTokensAndPool(r) == [ r EXCEPT !.status = "active", !.schedulable = TRUE ]

StoreTokens(r) == [ r EXCEPT !.status = "active" ]

MarkError(r) == [ r EXCEPT !.status = "error" ]

-----------------------------------------------------------------------------
(* Relay: handleUpstreamError.  The 429 deadline is the response's own     *)
(* (Retry-After first, then the unified reset) or the configured pause.    *)

Overload(r, until) == [ r EXCEPT !.overloadedUntil = until ]

(* Mutant: the status that the comment on Account.Status names.             *)
BanAsDisabled(r, t) == [ r EXCEPT !.status = "disabled", !.schedulable = FALSE,
                                  !.overloadedUntil = t + Pause401 ]

Ban(r, t) == [ r EXCEPT !.status = "blocked",
                        !.schedulable = FALSE,
                        !.overloadedUntil = t + Pause401 ]

AuthFailed(r, t) == [ r EXCEPT !.status = "error",
                               !.overloadedUntil = t + Pause401 ]

RateLimitedUntil(t, retryAfter, reset) ==
    IF retryAfter > 0 THEN t + retryAfter
    ELSE IF reset # NoTime THEN reset
    ELSE t + Pause429

-----------------------------------------------------------------------------
(* Rate limit manager: the two header writes and the Opus mark.            *)

(* The fields common to the two ways of stopping an account.               *)
Stopped(r, t) == [ r EXCEPT !.schedulable = FALSE,
                            !.autoStopped = TRUE,
                            !.stoppedAt = t ]

UpdateFiveHourStatus(r, status, t) ==
    LET seen == [ r EXCEPT !.fiveHourStatus = status ] IN
    CASE status = "allowed" -> [ seen EXCEPT !.autoStopped = FALSE ]
      [] status = "allowed_warning" /\ r.warnStops ->
             [ Stopped(seen, t) EXCEPT !.windowEnd = (t - (t % Hour)) + Window ]
      [] status = "rejected" -> Stopped(seen, t)
      [] OTHER -> seen

UpdateResetTime(r, reset)     == [ r EXCEPT !.windowEnd = reset ]
MarkOpusRateLimited(r, reset) == [ r EXCEPT !.opusEnd = reset ]

-----------------------------------------------------------------------------
(* Rate limit manager: the cleanup.  Each write has the test the sweep     *)
(* makes on the record it read, with the time it took when it started.     *)

(* Mutant: no fallback for a window whose end is unknown.                   *)
FiveHourOverByWindow(r, t) ==
    r.autoStopped /\ r.windowEnd # NoTime /\ t > r.windowEnd + Grace

FiveHourOver(r, t) ==
    /\ r.autoStopped
    /\ IF r.windowEnd # NoTime
         THEN t > r.windowEnd + Grace
         ELSE r.stoppedAt # NoTime /\ t > r.stoppedAt + Window + Grace

(* Mutant: the deadline itself counts as over.                              *)
OverloadOverAt(r, t) == r.overloadedUntil # NoTime /\ t >= r.overloadedUntil

OverloadOver(r, t) == r.overloadedUntil # NoTime /\ t > r.overloadedUntil
OpusOver(r, t)     == r.opusEnd # NoTime /\ t > r.opusEnd
BlockOver(r, t)    == r.status = "blocked" /\ OverloadOver(r, t)

Restore(r) == [ r EXCEPT !.schedulable = TRUE,
                         !.autoStopped = FALSE,
                         !.fiveHourStatus = "" ]

ClearOverload(r) == [ r EXCEPT !.overloadedUntil = NoTime ]
ClearOpus(r)     == [ r EXCEPT !.opusEnd = NoTime ]

(* Mutant: unblocking resets the 5-hour stop, too.                          *)
UnblockAll(r) == [ r EXCEPT !.status = "active", !.schedulable = TRUE,
                            !.overloadedUntil = NoTime, !.autoStopped = FALSE ]

Unblock(r) == [ r EXCEPT !.status = "active",
                         !.schedulable = TRUE,
                         !.overloadedUntil = NoTime ]

-----------------------------------------------------------------------------
(* Scheduler: isAvailable.                                                 *)

IsAvailable(r, opus, t) ==
    /\ r.status = "active"
    /\ r.schedulable
    /\ ~ (r.overloadedUntil # NoTime /\ t < r.overloadedUntil)
    /\ ~ (r.autoStopped /\ r.windowEnd # NoTime /\ t < r.windowEnd + Grace)
    /\ ~ (opus /\ r.opusEnd # NoTime /\ t < r.opusEnd)

=============================================================================
