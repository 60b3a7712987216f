------------------------- MODULE ServerProcessProofs -------------------------
(***************************************************************************)
(* Theorems about ServerProcess, for any number of connections and         *)
(* refreshes, and any limit on the shutdown.                               *)
(***************************************************************************)
EXTENDS ServerProcess, TransportPoolProofs

-----------------------------------------------------------------------------
(* The process drives the pool: each of its steps is one of TransportPool, *)
(* or leaves the pool alone.                                               *)
LEMMA ServerStepsPool == [ServerNext]_serverVars => [Next]_vars
<1> SUFFICES ASSUME ServerNext PROVE [Next]_vars
  BY DEF serverVars
<1>1. ASSUME NEW c \in Client, Connect(c) \/ Begin(c) \/ End(c) PROVE UNCHANGED vars
  BY <1>1 DEF Connect, Begin, End, Turns, pool, vars
<1>2. ASSUME NEW c \in Client, NEW r \in Refresh, StartRefresh(c, r) PROVE UNCHANGED vars
  BY <1>2 DEF StartRefresh, pool, vars
<1>3. ASSUME NEW r \in Refresh, EndRefresh(r) PROVE UNCHANGED vars
  BY <1>3 DEF EndRefresh, pool, vars
<1>4. ASSUME NEW q \in Request, NEW a \in Account, UseTransport(q, a) PROVE Next
  BY <1>4 DEF UseTransport, Next
<1>5. CASE PoolCleanup \/ ServerTick
  BY <1>5 DEF PoolCleanup, ServerTick, Next
<1>6. CASE Signal \/ ListenFails \/ Drained \/ DrainFails \/ CloseStoreAndExit
  BY <1>6 DEF Signal, ListenFails, Drained, DrainFails, CloseStoreAndExit
<1>7. CASE ClosePool
  BY <1>7 DEF ClosePool, Next
<1> QED
  BY <1>1, <1>2, <1>3, <1>4, <1>5, <1>6, <1>7 DEF ServerNext, Terminates

(* What TransportPool promises of a pool on its own therefore holds of the *)
(* pool of a process that serves, drains and exits.                        *)
THEOREM ServerImplementsPool == ServerSpec => Spec
<1>1. ServerInit => Init
  BY DEF ServerInit
<1> QED
  BY <1>1, ServerStepsPool, PTL DEF ServerSpec, Spec

-----------------------------------------------------------------------------
(* The inductive invariant.  Quiet: once Shutdown has returned without an  *)
(* error, every connection is closed, and stays so, as none is accepted or *)
(* served any more.  An exit with code 0 is one after that; the others     *)
(* have the cause that CutOnlyAfterLimit names.                            *)
Shape ==
    /\ stage \in Stage
    /\ conn \in [Client -> {"closed", "idle", "active"}]
    /\ running \subseteq Refresh
    /\ signalled \in Nat /\ failed \in BOOLEAN /\ code \in 0..1
    /\ now \in Nat /\ DrainLimit \in Nat

Ended == stage \in {"drained", "poolClosed"} \/ (stage = "exited" /\ code = 0)

Quiet == Ended => \A c \in Client : conn[c] = "closed"

ClosedLate == closed => stage = "poolClosed" \/ (stage = "exited" /\ code = 0)

WithCause ==
    code # 0 => stage = "exited" /\ (failed \/ now >= signalled + DrainLimit)

ServerInv == Shape /\ Quiet /\ ClosedLate /\ WithCause

LEMMA ServerStarts == ServerInit => ServerInv
<1> SUFFICES ASSUME ServerInit PROVE ServerInv
  OBVIOUS
<1>1. stage = "serving" /\ conn = [c \in Client |-> "closed"] /\ code = 0 /\ ~ closed
  BY DEF ServerInit, Init
<1>2. conn \in [Client -> {"closed", "idle", "active"}]
  BY <1>1
<1>3. failed \in BOOLEAN
  BY DEF ServerInit
<1>4. Shape
  BY <1>1, <1>2, <1>3, ServerAssumption DEF ServerInit, Init, Shape, Stage
<1> QED
  BY <1>1, <1>4 DEF ServerInv, Quiet, Ended, ClosedLate, WithCause

(* A connection that turns has not been counted as closed.                 *)
LEMMA ConnectionTurns ==
    ASSUME ServerInv, NEW c \in Client, Connect(c) \/ Begin(c) \/ End(c)
    PROVE  ServerInv'
<1>1. PICK s \in {"closed", "idle", "active"} : Turns(c, s)
  BY DEF Connect, Begin, End
<1>2. /\ conn' = [conn EXCEPT ![c] = s]
      /\ stage' = stage /\ running' = running /\ signalled' = signalled
      /\ failed' = failed /\ code' = code /\ now' = now /\ closed' = closed
  BY <1>1 DEF Turns, pool
<1>3. ~ Ended
  BY DEF Connect, Begin, End, ServerInv, Quiet, Ended
<1>4. Shape'
  BY <1>2 DEF ServerInv, Shape
<1> QED
  BY <1>2, <1>3, <1>4 DEF ServerInv, Quiet, Ended, ClosedLate, WithCause

(* Steps that move neither the stage nor a connection.                     *)
LEMMA StageStays ==
    ASSUME ServerInv, stage' = stage, conn' = conn, signalled' = signalled,
           failed' = failed, code' = code, closed' = closed,
           running' \subseteq Refresh, now' \in Nat, now' >= now
    PROVE  ServerInv'
<1>1. Shape'
  BY DEF ServerInv, Shape
<1>2. Quiet' /\ ClosedLate'
  BY DEF ServerInv, Quiet, Ended, ClosedLate
<1>3. WithCause'
  BY DEF ServerInv, WithCause, Shape
<1> QED
  BY <1>1, <1>2, <1>3 DEF ServerInv

LEMMA ServerStep == ServerInv /\ [ServerNext]_serverVars => ServerInv'
<1> SUFFICES ASSUME ServerInv, [ServerNext]_serverVars PROVE ServerInv'
  OBVIOUS
<1>s. now \in Nat /\ running \subseteq Refresh
  BY DEF ServerInv, Shape
<1>1. ASSUME NEW c \in Client, Connect(c) \/ Begin(c) \/ End(c) PROVE ServerInv'
  BY <1>1, ConnectionTurns
<1>2. ASSUME NEW c \in Client, NEW r \in Refresh, StartRefresh(c, r) PROVE ServerInv'
  BY <1>2, <1>s, StageStays DEF StartRefresh, pool
<1>3. ASSUME NEW r \in Refresh, EndRefresh(r) PROVE ServerInv'
  BY <1>3, <1>s, StageStays DEF EndRefresh, pool
<1>4. ASSUME NEW q \in Request, NEW a \in Account, UseTransport(q, a) PROVE ServerInv'
  <2>1. closed' = closed /\ now' = now
    BY <1>4 DEF UseTransport, ReuseTransport, BuildTransport
  <2> QED
    BY <2>1, <1>4, <1>s, StageStays DEF UseTransport, process
<1>5. CASE PoolCleanup
  BY <1>5, <1>s, StageStays DEF PoolCleanup, Cleanup, process
<1>6. CASE ServerTick
  BY <1>6, <1>s, StageStays DEF ServerTick, Tick, process
<1>7. CASE Signal \/ ListenFails
  <2>1. /\ stage = "serving" /\ conn' = conn /\ running' = running
        /\ now' = now /\ closed' = closed
    BY <1>7 DEF Signal, ListenFails, vars
  <2>2. \/ stage' = "draining" /\ signalled' = now /\ failed' = failed /\ code' = code
        \/ stage' = "exited" /\ signalled' = signalled /\ failed' = TRUE /\ code' = 1
    BY <1>7 DEF Signal, ListenFails
  <2>3. Shape'
    <3>1. failed' \in BOOLEAN
      BY <2>2 DEF ServerInv, Shape
    <3>2. signalled' \in Nat /\ code' \in 0..1 /\ stage' \in Stage
      BY <2>2 DEF ServerInv, Shape, Stage
    <3> QED
      BY <2>1, <3>1, <3>2 DEF ServerInv, Shape
  <2>4. code = 0 /\ ~ closed
    BY <2>1 DEF ServerInv, WithCause, ClosedLate
  <2> QED
    BY <2>1, <2>2, <2>3, <2>4 DEF ServerInv, Quiet, Ended, ClosedLate, WithCause
<1>8. CASE Drained
  <2>1. PICK new \in SUBSET Idle :
           /\ conn' = [c \in Client |-> IF c \in new \cup Active THEN conn[c] ELSE "closed"]
           /\ stage' = IF new \cup Active = {} THEN "drained" ELSE stage
    BY <1>8 DEF Drained
  <2>2. /\ stage = "draining" /\ running' = running /\ signalled' = signalled
        /\ failed' = failed /\ code' = code /\ now' = now /\ closed' = closed
    BY <1>8 DEF Drained, vars
  <2>3. Shape'
    BY <2>1, <2>2 DEF ServerInv, Shape, Stage
  <2>4. Quiet'
    BY <2>1, <2>2 DEF Quiet, Ended
  <2> QED
    BY <2>1, <2>2, <2>3, <2>4 DEF ServerInv, ClosedLate, WithCause
<1>9. CASE DrainFails
  BY <1>9
  DEF DrainFails, vars, ServerInv, Shape, Stage, Quiet, Ended, ClosedLate, WithCause
<1>10. CASE ClosePool
  BY <1>10
  DEF ClosePool, Moves, Close, ServerInv, Shape, Stage, Quiet, Ended, ClosedLate, WithCause
<1>11. CASE CloseStoreAndExit
  <2>1. stage = "poolClosed" /\ stage' = "exited"
    BY <1>11 DEF CloseStoreAndExit, Moves
  <2>2. /\ conn' = conn /\ running' = running /\ signalled' = signalled
        /\ failed' = failed /\ code' = code /\ now' = now /\ closed' = closed
    BY <1>11 DEF CloseStoreAndExit, Moves, vars
  <2> QED
    BY <2>1, <2>2
    DEF ServerInv, Shape, Stage, Quiet, Ended, ClosedLate, WithCause
<1>12. CASE UNCHANGED serverVars
  BY <1>12, <1>s, StageStays DEF serverVars, vars, process
<1> QED
  BY <1>1, <1>2, <1>3, <1>4, <1>5, <1>6, <1>7, <1>8, <1>9, <1>10, <1>11, <1>12
  DEF ServerNext, Terminates

LEMMA ServerAlways == ServerSpec => []ServerInv
BY ServerStarts, ServerStep, PTL DEF ServerSpec

-----------------------------------------------------------------------------
(* The process and its pool keep their types.                              *)
THEOREM ServerTypeCorrect == ServerSpec => []ServerTypeOK
<1>1. ServerInv /\ TypeOK => ServerTypeOK
  BY DEF ServerInv, Shape, ServerTypeOK
<1> QED
  BY <1>1, ServerAlways, ServerImplementsPool, TypeCorrect, PTL

(* Main closes transports and store only when no connection is open, and   *)
(* none is served afterwards.                                              *)
THEOREM NobodyIsClosedUnder == ServerSpec => []ClosedUnderNobody
<1>1. ServerInv => ClosedUnderNobody
  BY DEF ServerInv, Quiet, Ended, ClosedLate, ClosedUnderNobody
<1> QED
  BY <1>1, ServerAlways, PTL

(* A request is cut off only by a listener that failed, or after the whole *)
(* limit of the shutdown, and the exit code says so.                       *)
THEOREM CutAfterLimit == ServerSpec => []CutOnlyAfterLimit
<1>1. ServerInv => CutOnlyAfterLimit
  <2> SUFFICES ASSUME ServerInv, stage = "exited", Active # {}
               PROVE  code = 1 /\ (failed \/ now >= signalled + DrainLimit)
    BY DEF CutOnlyAfterLimit
  <2>1. ~ Ended
    BY DEF ServerInv, Quiet, Active
  <2> QED
    BY <2>1 DEF ServerInv, Shape, WithCause, Ended
<1> QED
  BY <1>1, ServerAlways, PTL

(* The pool of the process leads every request through its own proxy, and  *)
(* keeps a route's transport while it is in use, until main closes it.     *)
THEOREM ServerRoutes == ServerSpec => [](RightRoute /\ KeptWhileRecent)
BY ServerImplementsPool, RouteIsRight, RecentIsKept, PTL
=============================================================================
