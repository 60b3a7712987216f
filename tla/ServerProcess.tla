---------------------------- MODULE ServerProcess ----------------------------
(***************************************************************************)
(* One relay process from its start to its end: the connections of the     *)
(* HTTP server, the refreshes that a 401 starts in the background, the     *)
(* signal, the shutdown with its limit of 30 seconds, and main's deferred  *)
(* calls that close the transport pool and the store.  The pool is that of *)
(* TransportPool; the connections are net/http's (external).               *)
(***************************************************************************)
EXTENDS TransportPool

CONSTANTS
    Client,      \* connections of clients
    Refresh,     \* refreshes in the background
    DrainLimit,  \* 30 seconds, in the unit of the clock
    MaxBuilt     \* BOUND: no more transports are built

ASSUME ServerAssumption ==
    /\ Request = Client \cup Refresh
    /\ Client \cap Refresh = {}
    /\ DrainLimit \in Nat /\ MaxBuilt \in Nat

VARIABLES
    stage,     \* how far the process has come
    conn,      \* a connection is idle while no request is in progress on it
    running,   \* the refreshes in progress
    signalled, \* when the signal came
    failed,    \* has ListenAndServe returned by itself?
    code       \* the exit code

process == << stage, conn, running, signalled, failed, code >>
pool == << entries, req, built, closed >>
serverVars == << vars, process >>

Stage == {"serving", "draining", "drained", "poolClosed", "exited"}

ServerTypeOK ==
    /\ TypeOK
    /\ stage \in Stage
    /\ conn \in [Client -> {"closed", "idle", "active"}]
    /\ running \subseteq Refresh
    /\ signalled \in Nat /\ failed \in BOOLEAN /\ code \in 0..1

ServerInit ==
    /\ Init
    /\ stage = "serving"
    /\ conn = [c \in Client |-> "closed"]
    /\ running = {}
    /\ signalled = 0 /\ failed = FALSE /\ code = 0

Active == { c \in Client : conn[c] = "active" }
Idle == { c \in Client : conn[c] = "idle" }

-----------------------------------------------------------------------------
(* Connections.                                                            *)

Turns(c, s) ==
    /\ conn' = [conn EXCEPT ![c] = s]
    /\ UNCHANGED << pool, now, stage, running, signalled, failed, code >>

(* Shutdown closes the listener before anything else.                      *)
Connect(c) ==
    /\ stage = "serving" /\ conn[c] = "closed"
    /\ Turns(c, "idle")

(* A connection that is still open is served, also during a shutdown.      *)
Begin(c) ==
    /\ stage \in {"serving", "draining"} /\ conn[c] = "idle"
    /\ Turns(c, "active")

(* During a shutdown no connection is kept for another request.            *)
End(c) ==
    /\ stage # "exited" /\ conn[c] = "active"
    /\ \/ stage = "serving" /\ Turns(c, "idle")
       \/ Turns(c, "closed")

-----------------------------------------------------------------------------
(* What goes on in the process: goroutines go on until it exits.           *)

(* A 401 starts a refresh that nobody waits for.                           *)
StartRefresh(c, r) ==
    /\ stage # "exited" /\ conn[c] = "active" /\ r \notin running
    /\ running' = running \cup {r}
    /\ UNCHANGED << pool, now, stage, conn, signalled, failed, code >>

EndRefresh(r) ==
    /\ stage # "exited" /\ r \in running
    /\ running' = running \ {r}
    /\ UNCHANGED << pool, now, stage, conn, signalled, failed, code >>

(* A request or a refresh gets its account's transport.                    *)
UseTransport(q, a) ==
    /\ stage # "exited" /\ q \in Active \cup running
    /\ ReuseTransport(q, a) \/ (built < MaxBuilt /\ BuildTransport(q, a))
    /\ UNCHANGED process

(* The cleanup's context is canceled when Run returns; until the process   *)
(* exits, its select may still choose a tick.                              *)
PoolCleanup ==
    /\ stage # "exited"
    /\ Cleanup
    /\ UNCHANGED process

-----------------------------------------------------------------------------
(* Run and main.                                                           *)

Moves(to) ==
    /\ stage' = to
    /\ UNCHANGED << conn, running, signalled, failed, code >>

(* The first signal; the channel is not read again.                        *)
Signal ==
    /\ stage = "serving" /\ now + DrainLimit <= MaxTime
    /\ stage' = "draining" /\ signalled' = now
    /\ UNCHANGED << vars, conn, running, failed, code >>

(* Run returns the listener's error, and main exits with no deferred call. *)
ListenFails ==
    /\ stage = "serving"
    /\ stage' = "exited" /\ failed' = TRUE /\ code' = 1
    /\ UNCHANGED << vars, conn, running, signalled >>

(* Mutant: an open request does not keep Shutdown from returning.          *)
DrainedAtOnce ==
    /\ stage = "draining"
    /\ conn' = [c \in Client |-> IF conn[c] = "idle" THEN "closed" ELSE conn[c]]
    /\ stage' = "drained"
    /\ UNCHANGED << vars, running, signalled, failed, code >>

(* Shutdown looks at the connections: it closes idle ones, except new ones *)
(* on which no request has come yet, and returns when none is left.        *)
Drained ==
    /\ stage = "draining"
    /\ \E new \in SUBSET Idle :
          LET left == new \cup Active IN
          /\ conn' = [c \in Client |-> IF c \in left THEN conn[c] ELSE "closed"]
          /\ stage' = IF left = {} THEN "drained" ELSE stage
    /\ UNCHANGED << vars, running, signalled, failed, code >>

(* Mutant: the context of the shutdown has no limit.                       *)
DrainNeverFails == FALSE /\ UNCHANGED serverVars

(* Mutant: the shutdown's error is dropped and main returns.               *)
DrainErrorDropped ==
    /\ stage = "draining" /\ now >= signalled + DrainLimit
    /\ stage' = "drained"
    /\ UNCHANGED << vars, conn, running, signalled, failed, code >>

(* Shutdown gives up, even if the last request has just ended: Run returns *)
(* the context's error, and main exits with no deferred call.              *)
DrainFails ==
    /\ stage = "draining" /\ now >= signalled + DrainLimit
    /\ stage' = "exited" /\ code' = 1
    /\ UNCHANGED << vars, conn, running, signalled, failed >>

(* The deferred calls of main, last one first, and its return.             *)
ClosePool ==
    /\ stage = "drained" /\ Close /\ Moves("poolClosed")

CloseStoreAndExit ==
    /\ stage = "poolClosed" /\ Moves("exited")
    /\ UNCHANGED vars

ServerTick == stage # "exited" /\ Tick /\ UNCHANGED process

-----------------------------------------------------------------------------
Terminates == Drained \/ DrainFails \/ ClosePool \/ CloseStoreAndExit

ServerNext ==
    \/ \E c \in Client : Connect(c) \/ Begin(c) \/ End(c)
    \/ \E c \in Client, r \in Refresh : StartRefresh(c, r)
    \/ \E r \in Refresh : EndRefresh(r)
    \/ \E q \in Request, a \in Account : UseTransport(q, a)
    \/ PoolCleanup \/ ServerTick
    \/ Signal \/ ListenFails \/ Terminates

ServerSpec == ServerInit /\ [][ServerNext]_serverVars

(* The clock and main's goroutine go on.  No request is obliged to end.    *)
ServerFairSpec ==
    /\ ServerSpec
    /\ WF_serverVars(ServerTick)
    /\ WF_serverVars(DrainFails)
    /\ WF_serverVars(ClosePool)
    /\ WF_serverVars(CloseStoreAndExit)

-----------------------------------------------------------------------------
(* Transports and store are closed under no client: when main gets to its  *)
(* deferred calls, no connection is open or will be served again, even     *)
(* those that began a request after the signal.                            *)
ClosedUnderNobody ==
    closed \/ stage \in {"drained", "poolClosed"}
       => \A c \in Client : conn[c] = "closed"

(* A request of a client is cut off by the end of the process only if the  *)
(* listener failed, or the whole limit has gone by since the signal; and   *)
(* then the exit code says so.                                             *)
CutOnlyAfterLimit ==
    stage = "exited" /\ Active # {} =>
       /\ code = 1
       /\ failed \/ now >= signalled + DrainLimit

(* After a signal the process ends, although requests never end and new    *)
(* connections keep Shutdown waiting.                                      *)
SignalEndsProcess == stage = "draining" ~> stage = "exited"
=============================================================================
