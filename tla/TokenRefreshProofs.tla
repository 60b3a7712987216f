------------------------- MODULE TokenRefreshProofs -------------------------
(***************************************************************************)
(* Theorems about TokenRefresh, for any number of callers and any values   *)
(* of the durations that satisfy RefreshAssumption.                        *)
(***************************************************************************)
EXTENDS TokenRefresh, TLAPS

(* A call that is at the OAuth server or back from it has a token in hand. *)
TokenInHand ==
    \A p \in Proc : pc[p] \in {"call", "granted", "store"} => got[p] \in Token

(* A holder owns the lock, took it when its timer started, and is in time. *)
LockHeld ==
    \A p \in Proc :
       Holding(p) => /\ lock.owner = p
                     /\ lock.until = since[p] + LockTTL
                     /\ now <= since[p] + HoldLimit

LockInv == TypeOK /\ TokenInHand /\ LockHeld

USE DEF CriticalPC, PC, Token

LEMMA InitLock == Init => LockInv
<1>1. Init => TypeOK
  <2> SUFFICES ASSUME Init PROVE TypeOK
    OBVIOUS
  <2>1. stored \in Token /\ lost \in BOOLEAN /\ orphans \subseteq Nat
    BY RefreshAssumption DEF Init
  <2>2. pc \in [Proc -> PC] /\ since \in [Proc -> Nat] /\ base \in [Proc -> Nat]
    BY DEF Init
  <2>3. got \in [Proc -> Token \cup {NoToken}]
    BY DEF Init
  <2> QED
    BY <2>1, <2>2, <2>3 DEF Init, TypeOK
<1>2. Init => TokenInHand
  BY RefreshAssumption DEF Init, TypeOK, TokenInHand
<1>3. Init => LockHeld
  BY RefreshAssumption DEF Init, TypeOK, LockHeld, Holding
<1> QED
  BY <1>1, <1>2, <1>3 DEF LockInv

(* A holder's lock has not expired.                                        *)
LEMMA HeldIsTaken ==
    ASSUME LockInv, NEW p \in Proc, Holding(p)
    PROVE  LockTaken /\ lock.owner = p
BY RefreshAssumption DEF LockInv, TypeOK, LockHeld, LockTaken

LEMMA StepLock == LockInv /\ [Next \/ Resubmit]_vars => LockInv'
<1> SUFFICES ASSUME LockInv, [Next \/ Resubmit]_vars PROVE LockInv'
  OBVIOUS
<1> USE RefreshAssumption DEF LockInv
<1>1. ASSUME NEW p \in Proc, EnsureValidToken(p) \/ ForceRefresh(p) PROVE LockInv'
  <2>1. PICK label \in {"fast", "lock"} : Begin(p, label)
    BY <1>1 DEF EnsureValidToken, ForceRefresh
  <2> QED
    BY <2>1 DEF Begin, Goto, Hold, TypeOK, TokenInHand, LockHeld, Holding, server
<1>2. ASSUME NEW p \in Proc, ReturnStored(p) PROVE LockInv'
  BY <1>2 DEF ReturnStored, Goto, Hold, TypeOK, TokenInHand, LockHeld, Holding, server
<1>3. ASSUME NEW p \in Proc, AcquireRefreshLock(p) PROVE LockInv'
  <2>1. CASE LockTaken
    BY <1>3, <2>1 DEF AcquireRefreshLock, Goto, TypeOK, TokenInHand, LockHeld, Holding, server
  <2>2. CASE ~ LockTaken
    <3>1. \A q \in Proc : ~ Holding(q)
      BY <2>2, HeldIsTaken
    <3> QED
      BY <1>3, <2>2, <3>1 DEF AcquireRefreshLock, Goto, TypeOK, TokenInHand, LockHeld, Holding, server
  <2> QED
    BY <2>1, <2>2
<1>4. ASSUME NEW p \in Proc, ReleaseRefreshLock(p) PROVE LockInv'
  BY <1>4 DEF ReleaseRefreshLock, Goto, TypeOK, TokenInHand, LockHeld, Holding, server
<1>5. ASSUME NEW p \in Proc, ReadAfterWait(p) \/ Recheck(p) PROVE LockInv'
  <2>1. TypeOK'
    <3>1. orphans' \subseteq Nat
      BY <1>5 DEF ReadAfterWait, Recheck, Goto, StopTimer, Hold, server, TypeOK
    <3>2. lost' \in BOOLEAN
      BY <1>5 DEF ReadAfterWait, Recheck, Goto, StopTimer, Hold, server, TypeOK
    <3>3. stored' \in Token /\ status' \in {"active", "error"}
      BY <1>5 DEF ReadAfterWait, Recheck, Goto, StopTimer, Hold, server, TypeOK, TokenInHand
    <3>4. pc' \in [Proc -> PC] /\ since' \in [Proc -> Nat]
      BY <1>5 DEF ReadAfterWait, Recheck, Goto, StopTimer, Hold, server, TypeOK
    <3>5. got' \in [Proc -> Token \cup {NoToken}]
      BY <1>5 DEF ReadAfterWait, Recheck, Goto, StopTimer, Hold, server, TypeOK
    <3> QED
      BY <1>5, <3>1, <3>2, <3>3, <3>4, <3>5 DEF ReadAfterWait, Recheck, Goto, StopTimer, Hold, server, TypeOK
  <2>2. TokenInHand'
    BY <1>5 DEF ReadAfterWait, Recheck, Goto, StopTimer, Hold, server, TypeOK, TokenInHand
  <2>3. LockHeld'
    BY <1>5 DEF ReadAfterWait, Recheck, Goto, StopTimer, Hold, server, TypeOK, LockHeld, Holding
  <2> QED
    BY <2>1, <2>2, <2>3
<1>6. ASSUME NEW p \in Proc, GetRefreshToken(p) PROVE LockInv'
  BY <1>6 DEF GetRefreshToken, Goto, Hold, TypeOK, TokenInHand, LockHeld, Holding, server
<1>7. ASSUME NEW p \in Proc, Grant(p) PROVE LockInv'
  BY <1>7 DEF Grant, Goto, Hold, TypeOK, TokenInHand, LockHeld, Holding
<1>8. ASSUME NEW p \in Proc, Refuse(p) \/ Answer(p) PROVE LockInv'
  <2>1. TypeOK'
    BY <1>8 DEF Refuse, Answer, Goto, server, TypeOK
  <2>2. TokenInHand'
    BY <1>8 DEF Refuse, Answer, Goto, server, TypeOK, TokenInHand
  <2>3. LockHeld'
    BY <1>8 DEF Refuse, Answer, Goto, server, TypeOK, LockHeld, Holding
  <2> QED
    BY <2>1, <2>2, <2>3
<1>9. ASSUME NEW p \in Proc, StoreTokens(p) PROVE LockInv'
  BY <1>9 DEF StoreTokens, Goto, StopTimer, TypeOK, TokenInHand, LockHeld, Holding, server
<1>10. ASSUME NEW p \in Proc, MarkError(p) PROVE LockInv'
  BY <1>10 DEF MarkError, Goto, StopTimer, Hold, TypeOK, TokenInHand, LockHeld, Holding, server
<1>11. ASSUME NEW p \in Proc, LoseAcquire(p) PROVE LockInv'
  <2>1. \A q \in Proc : ~ Holding(q)
    BY <1>11, HeldIsTaken DEF LoseAcquire
  <2> QED
    BY <1>11, <2>1 DEF LoseAcquire, Goto, Hold, TypeOK, TokenInHand, LockHeld, Holding, server
<1>12. ASSUME NEW p \in Proc, LoseRelease(p) PROVE LockInv'
  BY <1>12 DEF LoseRelease, Goto, TypeOK, TokenInHand, LockHeld, Holding, server
<1>13. ASSUME NEW p \in Proc, LoseAnswer(p) PROVE LockInv'
  <2>1. TypeOK'
    <3>1. orphans' \subseteq Nat
      <4>1. pc[p] = "call" => got[p].gen \in Nat
        BY DEF TokenInHand
      <4> QED
        BY <4>1, <1>13 DEF LoseAnswer, TypeOK
    <3>2. lost' \in BOOLEAN
      BY <1>13 DEF LoseAnswer, Goto, TypeOK
    <3>3. stored' \in Token /\ status' \in {"active", "error"}
      BY <1>13 DEF LoseAnswer, Goto, TypeOK, TokenInHand
    <3>4. pc' \in [Proc -> PC] /\ since' \in [Proc -> Nat]
      BY <1>13 DEF LoseAnswer, Goto, TypeOK
    <3>5. got' \in [Proc -> Token \cup {NoToken}]
      BY <1>13 DEF LoseAnswer, Goto, TypeOK
    <3> QED
      BY <1>13, <3>1, <3>2, <3>3, <3>4, <3>5 DEF LoseAnswer, Goto, TypeOK
  <2>2. TokenInHand'
    BY <1>13 DEF LoseAnswer, Goto, TypeOK, TokenInHand
  <2>3. LockHeld'
    BY <1>13 DEF LoseAnswer, Goto, TypeOK, LockHeld, Holding
  <2> QED
    BY <2>1, <2>2, <2>3
<1>14. ASSUME NEW p \in Proc, LoseStore(p) PROVE LockInv'
  <2>1. TypeOK'
    <3>1. orphans' \subseteq Nat
      BY <1>14 DEF LoseStore, Goto, StopTimer, Hold, TypeOK
    <3>2. lost' \in BOOLEAN
      BY <1>14 DEF LoseStore, Goto, StopTimer, Hold, TypeOK
    <3>3. stored' \in Token /\ status' \in {"active", "error"}
      BY <1>14 DEF LoseStore, Goto, StopTimer, Hold, TypeOK, TokenInHand
    <3>4. pc' \in [Proc -> PC] /\ since' \in [Proc -> Nat]
      BY <1>14 DEF LoseStore, Goto, StopTimer, Hold, TypeOK
    <3>5. got' \in [Proc -> Token \cup {NoToken}]
      BY <1>14 DEF LoseStore, Goto, StopTimer, Hold, TypeOK
    <3> QED
      BY <1>14, <3>1, <3>2, <3>3, <3>4, <3>5 DEF LoseStore, Goto, StopTimer, Hold, TypeOK
  <2>2. TokenInHand'
    BY <1>14 DEF LoseStore, Goto, StopTimer, Hold, TypeOK, TokenInHand
  <2>3. LockHeld'
    BY <1>14 DEF LoseStore, Goto, StopTimer, Hold, TypeOK, LockHeld, Holding
  <2> QED
    BY <2>1, <2>2, <2>3
<1>15. ASSUME NEW p \in Proc, Abandon(p) PROVE LockInv'
  <2>1. TypeOK'
    <3>1. orphans' \subseteq Nat
      <4>1. pc[p] = "call" => got[p].gen \in Nat
        BY DEF TokenInHand
      <4> QED
        BY <4>1, <1>15 DEF Abandon, TypeOK
    <3>2. lost' \in BOOLEAN
      BY <1>15 DEF Abandon, Goto, StopTimer, Hold, TypeOK
    <3>3. stored' \in Token /\ status' \in {"active", "error"}
      <4>1. pc[p] = "call" => got[p].gen \in Nat
        BY DEF TokenInHand
      <4> QED
        BY <4>1, <1>15 DEF Abandon, TypeOK
    <3>4. pc' \in [Proc -> PC] /\ since' \in [Proc -> Nat]
      BY <1>15 DEF Abandon, Goto, StopTimer, Hold, TypeOK
    <3>5. got' \in [Proc -> Token \cup {NoToken}]
      BY <1>15 DEF Abandon, Goto, StopTimer, Hold, TypeOK
    <3> QED
      BY <1>15, <3>1, <3>2, <3>3, <3>4, <3>5 DEF Abandon, Goto, StopTimer, Hold, TypeOK
  <2>2. TokenInHand'
    BY <1>15 DEF Abandon, Goto, StopTimer, Hold, TypeOK, TokenInHand
  <2>3. LockHeld'
    BY <1>15 DEF Abandon, Goto, StopTimer, Hold, TypeOK, LockHeld, Holding
  <2> QED
    BY <2>1, <2>2, <2>3
<1>16. CASE ServeOrphan
  <2>1. TypeOK'
    <3>1. orphans' \subseteq Nat
      BY <1>16 DEF ServeOrphan, TypeOK
    <3>2. lost' \in BOOLEAN
      BY <1>16 DEF ServeOrphan, TypeOK
    <3>3. stored' \in Token /\ status' \in {"active", "error"}
      BY <1>16 DEF ServeOrphan, TypeOK, TokenInHand
    <3>4. pc' \in [Proc -> PC] /\ since' \in [Proc -> Nat]
      BY <1>16 DEF ServeOrphan, TypeOK
    <3>5. got' \in [Proc -> Token \cup {NoToken}]
      BY <1>16 DEF ServeOrphan, TypeOK
    <3> QED
      BY <1>16, <3>1, <3>2, <3>3, <3>4, <3>5 DEF ServeOrphan, TypeOK
  <2>2. TokenInHand'
    BY <1>16 DEF ServeOrphan, TypeOK, TokenInHand
  <2>3. LockHeld'
    BY <1>16 DEF ServeOrphan, TypeOK, LockHeld, Holding
  <2> QED
    BY <2>1, <2>2, <2>3
<1>17. CASE Tick
  BY <1>17 DEF Tick, TypeOK, TokenInHand, LockHeld, Holding, server
<1>18. CASE Resubmit
  BY <1>18 DEF Resubmit, TypeOK, TokenInHand, LockHeld, Holding
<1>19. CASE UNCHANGED vars
  BY <1>19 DEF vars, server, TypeOK, TokenInHand, LockHeld, Holding
<1> QED
  BY <1>1, <1>2, <1>3, <1>4, <1>5, <1>6, <1>7, <1>8, <1>9, <1>10, <1>11, <1>12,
     <1>13, <1>14, <1>15, <1>16, <1>17, <1>18, <1>19 DEF Next, Step, Fault

(* What TLC finds of a few callers holds of any number, with and without   *)
(* an administrator: the variables keep their types,                       *)
THEOREM TypeCorrect == AdminSpec => []TypeOK
<1>1. LockInv => TypeOK
  BY DEF LockInv
<1> QED
  BY <1>1, InitLock, StepLock, PTL DEF AdminSpec

(* at most one caller refreshes (token.go:85-136, redis.go:163-165),       *)
THEOREM Exclusion == AdminSpec => []MutualExclusion
<1>1. LockInv => MutualExclusion
  BY DEF LockInv, LockHeld, MutualExclusion
<1> QED
  BY <1>1, InitLock, StepLock, PTL DEF AdminSpec

(* and only its owner deletes a live lock (redis.go:168-179).              *)
THEOREM OwnerReleases == AdminSpec => OnlyOwnerReleases
<1> DEFINE Safe == LockTaken /\ lock'.owner # lock.owner
                   => pc[lock.owner] = "release" /\ pc'[lock.owner] = "idle"
<1>1. LockInv /\ [Next \/ Resubmit]_vars => [Safe]_vars
  <2> SUFFICES ASSUME LockInv, Next \/ Resubmit, LockTaken, lock'.owner # lock.owner
               PROVE  pc[lock.owner] = "release" /\ pc'[lock.owner] = "idle"
    BY DEF Safe
  <2>1. PICK p \in Proc : \/ AcquireRefreshLock(p) \/ LoseAcquire(p)
                          \/ ReleaseRefreshLock(p)
    BY DEF Next, Step, Fault, EnsureValidToken, ForceRefresh, Begin, ReturnStored,
           ReadAfterWait, Recheck, GetRefreshToken, Grant, Refuse, Answer,
           StoreTokens, MarkError, LoseRelease, LoseAnswer, LoseStore, Abandon,
           ServeOrphan, Tick, Resubmit
  <2>2. ReleaseRefreshLock(p) /\ lock.owner = p
    BY <2>1 DEF AcquireRefreshLock, LoseAcquire, ReleaseRefreshLock
  <2> QED
    BY <2>2 DEF ReleaseRefreshLock, Goto, LockInv, TypeOK
<1> QED
  BY <1>1, InitLock, StepLock, PTL DEF AdminSpec, OnlyOwnerReleases, Safe

(* A taken lock's deadline is within the TTL and does not move; whether a  *)
(* holder is alive does not matter for it (redis.go:164).                  *)
Timely == LockTaken => lock.until <= now + LockTTL

THEOREM LockExpires == AdminSpec => LockNotProlonged
<1> DEFINE Kept == LockTaken => /\ lock.until <= now + LockTTL
                                /\ lock'.until = lock.until
<1>1. Init => Timely
  BY DEF Init, Timely, LockTaken
<1>2. LockInv /\ Timely /\ [Next \/ Resubmit]_vars => Timely' /\ [Kept]_vars
  <2> SUFFICES ASSUME LockInv, Timely, [Next \/ Resubmit]_vars
               PROVE  Timely' /\ [Kept]_vars
    OBVIOUS
  <2>1. /\ now \in Nat /\ LockTTL \in Nat
        /\ lock \in [ owner : Proc \cup {NoProc}, until : Nat ]
    BY RefreshAssumption DEF LockInv, TypeOK
  <2>2. CASE \E p \in Proc : AcquireRefreshLock(p) \/ LoseAcquire(p)
    <3>1. now' = now
      BY <2>2 DEF AcquireRefreshLock, LoseAcquire
    <3>2. CASE LockTaken
      BY <2>1, <2>2, <3>1, <3>2 DEF AcquireRefreshLock, LoseAcquire, Timely, LockTaken
    <3>3. CASE ~ LockTaken
      <4>1. lock'.until = now + LockTTL
        BY <2>2, <3>3 DEF AcquireRefreshLock, LoseAcquire
      <4> QED
        BY <2>1, <3>1, <3>3, <4>1 DEF Timely
    <3> QED
      BY <3>2, <3>3
  <2>3. CASE \E p \in Proc : ReleaseRefreshLock(p)
    <3>1. now' = now /\ lock'.until = lock.until
          /\ lock'.owner \in {lock.owner, NoProc}
      BY <2>1, <2>3 DEF ReleaseRefreshLock
    <3> QED
      BY <2>1, <3>1 DEF Timely, LockTaken
  <2>4. CASE lock' = lock /\ now' \in {now, now + 1}
    BY <2>1, <2>4 DEF Timely, LockTaken
  <2> QED
    BY <2>2, <2>3, <2>4
    DEF Next, Step, Fault, EnsureValidToken, ForceRefresh, Begin, ReturnStored,
        ReadAfterWait, Recheck, GetRefreshToken, Grant, Refuse, Answer,
        StoreTokens, MarkError, LoseRelease, LoseAnswer, LoseStore, Abandon,
        ServeOrphan, Tick, Resubmit, vars
<1> QED
  BY <1>1, <1>2, InitLock, StepLock, PTL DEF AdminSpec, LockNotProlonged, Kept

-----------------------------------------------------------------------------
(* Without an administrator, the generations of the tokens are in order:   *)
(* the store is not ahead of the server, and what a holder brings back is  *)
(* younger than what is stored, and current unless something was lost.     *)
InOrder ==
    /\ stored.gen <= issued
    /\ \A p \in Proc :
          pc[p] \in {"granted", "store"} => /\ stored.gen < got[p].gen
                                           /\ got[p].gen <= issued
Current ==
    \A p \in Proc :
       pc[p] \in {"granted", "store"}
       => lost \/ (got[p].gen = issued /\ got[p].refresh)

StoreInv == LockInv /\ InOrder /\ Current /\ NoTokenBurnt

LEMMA InitStore == Init => StoreInv
<1> SUFFICES ASSUME Init PROVE InOrder /\ Current /\ NoTokenBurnt
  BY InitLock DEF StoreInv
<1> QED
  BY DEF Init, InOrder, Current, NoTokenBurnt

LEMMA StepStore == StoreInv /\ [Next]_vars => StoreInv'
<1> SUFFICES ASSUME StoreInv, [Next]_vars
             PROVE  InOrder' /\ Current' /\ NoTokenBurnt'
  BY StepLock DEF StoreInv
<1> DEFINE Carries(q) == pc[q] \in {"granted", "store"}
<1>a. pc \in [Proc -> PC] /\ got \in [Proc -> Token \cup {NoToken}]
  BY DEF StoreInv, LockInv, TypeOK
<1>b. stored \in Token /\ issued \in Nat
  BY DEF StoreInv, LockInv, TypeOK
<1>c. InOrder /\ Current /\ NoTokenBurnt
  BY DEF StoreInv
<1>d. \A p, q \in Proc : Holding(p) /\ Holding(q) => p = q
  BY DEF StoreInv, LockInv, LockHeld
(* Steps after which nobody carries a token who did not before.            *)
<1>1. ASSUME NEW p \in Proc,
             \/ EnsureValidToken(p) \/ ForceRefresh(p) \/ ReturnStored(p)
             \/ AcquireRefreshLock(p) \/ LoseAcquire(p)
             \/ ReleaseRefreshLock(p) \/ LoseRelease(p)
             \/ ReadAfterWait(p) \/ Recheck(p)
             \/ GetRefreshToken(p) \/ Refuse(p) \/ Answer(p) \/ MarkError(p)
      PROVE  InOrder' /\ Current' /\ NoTokenBurnt'
  <2>1. /\ \A q \in Proc : Carries(q)' <=> Carries(q)
        /\ \A q \in Proc : Carries(q) => got'[q] = got[q]
    BY <1>1, <1>a
       DEF EnsureValidToken, ForceRefresh, Begin, ReturnStored, AcquireRefreshLock,
           LoseAcquire, ReleaseRefreshLock, LoseRelease, ReadAfterWait, Recheck,
           GetRefreshToken, Refuse, Answer, MarkError, Goto, Hold
  <2>2. UNCHANGED << stored, issued, lost >>
    BY <1>1
       DEF EnsureValidToken, ForceRefresh, Begin, ReturnStored, AcquireRefreshLock,
           LoseAcquire, ReleaseRefreshLock, LoseRelease, ReadAfterWait, Recheck,
           GetRefreshToken, Refuse, Answer, MarkError, server
  <2> QED
    BY <1>c, <2>1, <2>2, Zenon DEF InOrder, Current, NoTokenBurnt
<1>2. ASSUME NEW p \in Proc, Grant(p) PROVE InOrder' /\ Current' /\ NoTokenBurnt'
  <2>1. PICK refresh \in BOOLEAN :
           /\ Hold(p, [ gen |-> issued + 1, expires |-> now + Life, refresh |-> refresh ])
           /\ lost' = (lost \/ ~ refresh)
    BY <1>2 DEF Grant
  <2>2. /\ pc'[p] = "granted" /\ issued' = issued + 1 /\ UNCHANGED stored
        /\ got'[p].gen = issued'
    BY <1>2, <1>a, <2>1 DEF Grant, Goto, Hold
  <2>3. got'[p].refresh = refresh
    BY <1>a, <2>1 DEF Hold
  <2>4. got'[p].refresh \/ lost'
    BY <2>1, <2>3, Zenon
  <2>5. \A q \in Proc : Carries(q)' => q = p
    BY <1>2, <1>a, <1>d DEF Grant, Goto, Holding
  <2>6. InOrder'
    BY <1>b, <1>c, <2>2, <2>5 DEF InOrder
  <2>7. Current'
    <3>1. got'[p].gen = issued'
      BY <2>2
    <3> QED
      BY <2>4, <2>5, <3>1, Zenon DEF Current
  <2> QED
    BY <2>2, <2>6, <2>7 DEF NoTokenBurnt
<1>3. ASSUME NEW p \in Proc, LoseAnswer(p) \/ Abandon(p)
      PROVE  InOrder' /\ Current' /\ NoTokenBurnt'
  <2>1. /\ \A q \in Proc : Carries(q)' => Carries(q) /\ got'[q] = got[q]
        /\ \A q \in Proc : Carries(q) /\ ~ Carries(q)' => q = p
        /\ UNCHANGED << stored, issued >>
    BY <1>3, <1>a DEF LoseAnswer, Abandon, Goto, Hold
  <2>2. pc[p] \in {"granted", "store"} \/ lost => lost'
    BY <1>3, Zenon DEF LoseAnswer, Abandon
  <2> QED
    BY <1>c, <2>1, <2>2, Zenon DEF InOrder, Current, NoTokenBurnt
<1>4. ASSUME NEW p \in Proc, StoreTokens(p) \/ LoseStore(p)
      PROVE  InOrder' /\ Current' /\ NoTokenBurnt'
  <2>1. pc[p] = "store" /\ UNCHANGED issued
    BY <1>4 DEF StoreTokens, LoseStore, server
  <2>2. \A q \in Proc : ~ Carries(q)'
    BY <1>4, <1>a, <1>d DEF StoreTokens, LoseStore, Goto, Holding
  <2>3. Current'
    BY <2>2 DEF Current
  <2>4. CASE UNCHANGED lost /\ stored' = [got[p] EXCEPT !.expires = now + Life]
    <3>1. got[p] \in Token
      BY <2>1 DEF StoreInv, LockInv, TokenInHand
    <3>2. stored'.gen = got[p].gen /\ stored'.refresh = got[p].refresh
      BY <2>4, <3>1
    <3>3. InOrder'
      BY <1>c, <2>1, <2>2, <3>2 DEF InOrder
    <3>4. NoTokenBurnt'
      BY <1>c, <2>1, <2>4, <3>2, Zenon DEF Current, NoTokenBurnt
    <3> QED
      BY <2>3, <3>3, <3>4
  <2>5. CASE lost' /\ UNCHANGED stored
    BY <1>c, <2>1, <2>2, <2>3, <2>5, Zenon DEF InOrder, NoTokenBurnt
  <2> QED
    BY <1>4, <2>4, <2>5 DEF StoreTokens, LoseStore, server
<1>5. CASE ServeOrphan
  <2>1. UNCHANGED << stored, pc, got >>
    BY <1>5 DEF ServeOrphan
  <2>2. CASE UNCHANGED << issued, lost >>
    BY <1>c, <2>1, <2>2 DEF InOrder, Current, NoTokenBurnt
  <2>3. CASE issued' = issued + 1 /\ lost'
    <3>1. InOrder'
      BY <1>a, <1>b, <1>c, <2>1, <2>3 DEF InOrder, StoreInv, LockInv, TokenInHand
    <3>2. lost'
      BY <2>3
    <3>3. Current' /\ NoTokenBurnt'
      BY <3>2, Zenon DEF Current, NoTokenBurnt
    <3> QED
      BY <3>1, <3>3
  <2> QED
    BY <1>5, <2>2, <2>3 DEF ServeOrphan
<1>6. CASE Tick \/ UNCHANGED vars
  BY <1>c, <1>6 DEF Tick, vars, server, InOrder, Current, NoTokenBurnt
<1> QED
  BY <1>1, <1>2, <1>3, <1>4, <1>5, <1>6 DEF Next, Step, Fault

(* The stored refresh token is current, on its way, or lost (token.go:117- *)
(* 136): refreshers never spend each other's token.                        *)
THEOREM TokenNotBurnt == Spec => []NoTokenBurnt
<1>1. StoreInv => NoTokenBurnt
  BY DEF StoreInv
<1> QED
  BY <1>1, InitStore, StepStore, PTL DEF Spec

(* What a step may do to the store.                                        *)
LEMMA StoreStep ==
    ASSUME StoreInv, Next, stored' # stored
    PROVE  /\ stored.gen < stored'.gen /\ stored'.gen \in Nat
           /\ \E p \in Proc : /\ pc[p] = "store" /\ pc'[p] = "release"
                              /\ \A q \in Proc \ {p} : pc'[q] = pc[q]
<1>1. PICK p \in Proc : StoreTokens(p) \/ LoseStore(p)
  BY DEF Next, Step, Fault, EnsureValidToken, ForceRefresh, Begin, ReturnStored,
         AcquireRefreshLock, LoseAcquire, ReleaseRefreshLock, LoseRelease,
         ReadAfterWait, Recheck, GetRefreshToken, Grant, Refuse, Answer,
         MarkError, LoseAnswer, Abandon, ServeOrphan, Tick
<1>2. /\ pc[p] = "store" /\ pc'[p] = "release"
      /\ \A q \in Proc \ {p} : pc'[q] = pc[q]
      /\ stored' = [got[p] EXCEPT !.expires = now + Life]
  BY <1>1 DEF StoreTokens, LoseStore, Goto, StoreInv, LockInv, TypeOK
<1>3. got[p] \in Token
  BY <1>2 DEF StoreInv, LockInv, TokenInHand
<1>4. stored.gen < stored'.gen /\ stored'.gen \in Nat
  BY <1>2, <1>3 DEF StoreInv, InOrder
<1> QED
  BY <1>2, <1>4

(* No refresh replaces a token by an older one (StoreTokens).              *)
THEOREM StoreIsMonotone == Spec => StoredNeverRegresses
<1>1. StoreInv /\ [Next]_vars => [stored'.gen >= stored.gen]_vars
  <2> SUFFICES ASSUME StoreInv, Next PROVE stored'.gen >= stored.gen
    OBVIOUS
  <2>1. stored.gen \in Nat
    BY DEF StoreInv, LockInv, TypeOK
  <2>2. CASE stored' = stored
    BY <2>1, <2>2
  <2>3. CASE stored' # stored
    BY <2>1, <2>3, StoreStep
  <2> QED
    BY <2>2, <2>3
<1> QED
  BY <1>1, InitStore, StepStore, PTL DEF Spec, StoredNeverRegresses

-----------------------------------------------------------------------------
(* What a call returns is not older than what was stored when it began:    *)
(* the invariant follows the token through the steps of a call.            *)
FromBase ==
    \A p \in Proc :
       /\ base[p] <= stored.gen
       /\ pc[p] \in {"idle", "recheck", "release"} /\ got[p] # NoToken
          => base[p] <= got[p].gen

LEMMA StepBase == StoreInv /\ FromBase /\ [Next]_vars => FromBase'
<1> SUFFICES ASSUME StoreInv, FromBase, [Next]_vars PROVE FromBase'
  OBVIOUS
<1>a. /\ pc \in [Proc -> PC] /\ got \in [Proc -> Token \cup {NoToken}]
      /\ base \in [Proc -> Nat] /\ stored \in Token /\ issued \in Nat
  BY DEF StoreInv, LockInv, TypeOK
<1>1. CASE stored' # stored
  <2>1. PICK p \in Proc : StoreTokens(p) \/ LoseStore(p)
    BY <1>1 DEF Next, Step, Fault, EnsureValidToken, ForceRefresh, Begin, ReturnStored,
         AcquireRefreshLock, LoseAcquire, ReleaseRefreshLock, LoseRelease,
         ReadAfterWait, Recheck, GetRefreshToken, Grant, Refuse, Answer,
         MarkError, LoseAnswer, Abandon, ServeOrphan, Tick, vars
  <2>2. stored.gen < stored'.gen /\ stored'.gen \in Nat
    BY <1>1, <2>1, StoreStep DEF Next, Step, Fault
  <2>3. /\ UNCHANGED base
        /\ \A q \in Proc \ {p} : pc'[q] = pc[q] /\ got'[q] = got[q]
        /\ got'[p] # NoToken => got'[p] = got[p] /\ pc[p] = "store"
    BY <2>1, <1>a DEF StoreTokens, LoseStore, Goto, Hold
  <2>4. pc[p] = "store" => stored.gen < got[p].gen /\ got[p].gen \in Nat
    BY DEF StoreInv, LockInv, TokenInHand, InOrder
  <2> QED
    BY <1>a, <2>2, <2>3, <2>4 DEF FromBase
<1>2. CASE stored' = stored
  <2>1. ASSUME NEW p \in Proc, EnsureValidToken(p) \/ ForceRefresh(p) PROVE FromBase'
    <3>1. /\ base' = [base EXCEPT ![p] = stored.gen]
          /\ got' = [got EXCEPT ![p] = NoToken]
          /\ \A q \in Proc \ {p} : pc'[q] = pc[q]
      BY <1>a, <2>1 DEF EnsureValidToken, ForceRefresh, Begin, Goto, Hold
    <3> QED
      BY <1>a, <1>2, <3>1 DEF FromBase
  <2>2. ASSUME NEW p \in Proc, UNCHANGED base,
               \A q \in Proc \ {p} : pc'[q] = pc[q] /\ got'[q] = got[q],
               \/ got'[p] \in {stored, NoToken}
               \/ pc'[p] \notin {"idle", "recheck", "release"}
               \/ pc[p] \in {"recheck", "release"} /\ got'[p] = got[p]
        PROVE  FromBase'
    BY <1>a, <1>2, <2>2 DEF FromBase
  <2>3. ASSUME NEW p \in Proc,
               \/ ReturnStored(p) \/ ReadAfterWait(p) \/ Recheck(p)
               \/ GetRefreshToken(p) \/ MarkError(p) \/ Abandon(p) \/ LoseAcquire(p)
        PROVE  FromBase'
    <3>1. got'[p] \in {stored, NoToken} \/ (pc[p] = "recheck" /\ got'[p] = got[p])
      BY <1>a, <2>3 DEF ReturnStored, ReadAfterWait, Recheck, GetRefreshToken,
                        MarkError, Abandon, LoseAcquire, Hold
    <3>2. UNCHANGED base /\ \A q \in Proc \ {p} : pc'[q] = pc[q] /\ got'[q] = got[q]
      BY <1>a, <2>3 DEF ReturnStored, ReadAfterWait, Recheck, GetRefreshToken,
                        MarkError, Abandon, LoseAcquire, Hold, Goto
    <3> QED
      BY <2>2, <3>1, <3>2
  <2>4. ASSUME NEW p \in Proc,
               \/ AcquireRefreshLock(p) \/ ReleaseRefreshLock(p) \/ LoseRelease(p)
               \/ Grant(p) \/ Refuse(p) \/ Answer(p) \/ LoseAnswer(p)
        PROVE  FromBase'
    <3>1. \/ pc'[p] \notin {"idle", "recheck", "release"}
          \/ pc[p] = "release" /\ got'[p] = got[p]
      BY <1>a, <2>4 DEF AcquireRefreshLock, ReleaseRefreshLock, LoseRelease,
                        Grant, Refuse, Answer, LoseAnswer, Goto
    <3>2. UNCHANGED base /\ \A q \in Proc \ {p} : pc'[q] = pc[q] /\ got'[q] = got[q]
      BY <1>a, <2>4 DEF AcquireRefreshLock, ReleaseRefreshLock, LoseRelease,
                        Grant, Refuse, Answer, LoseAnswer, Goto, Hold
    <3> QED
      BY <2>2, <3>1, <3>2
  <2>5. ASSUME NEW p \in Proc, StoreTokens(p) \/ LoseStore(p) PROVE FromBase'
    <3>1. got[p] \in Token /\ stored.gen < got[p].gen
      BY <2>5 DEF StoreTokens, LoseStore, StoreInv, LockInv, TokenInHand, InOrder
    <3>2. got'[p] = NoToken
      BY <1>2, <1>a, <2>5, <3>1 DEF StoreTokens, LoseStore, Hold
    <3>3. UNCHANGED base /\ \A q \in Proc \ {p} : pc'[q] = pc[q] /\ got'[q] = got[q]
      BY <1>a, <2>5 DEF StoreTokens, LoseStore, Goto, Hold
    <3> QED
      BY <2>2, <3>2, <3>3
  <2>6. CASE ServeOrphan \/ Tick \/ UNCHANGED vars
    BY <1>2, <2>6 DEF ServeOrphan, Tick, vars, FromBase
  <2> QED
    BY <2>1, <2>3, <2>4, <2>5, <2>6 DEF Next, Step, Fault
<1> QED
  BY <1>1, <1>2

(* A call returns no token older than what it found (token.go:57-142).     *)
THEOREM ResultIsRecent == Spec => []ResultNotOlder
<1>1. Init => FromBase
  <2> SUFFICES ASSUME Init, NEW p \in Proc
               PROVE  base[p] <= stored.gen /\ got[p] = NoToken
    BY DEF FromBase
  <2> QED
    BY DEF Init
<1>2. StoreInv /\ FromBase => ResultNotOlder
  BY DEF StoreInv, LockInv, TypeOK, FromBase, ResultNotOlder
<1> QED
  BY <1>1, <1>2, InitStore, StepStore, StepBase, PTL DEF Spec

-----------------------------------------------------------------------------
(* The refinement.                                                         *)

LEMMA HolderOf ==
    ASSUME MutualExclusion, NEW p \in Proc, Holding(p)
    PROVE  Holder = p
BY DEF MutualExclusion, Holder

LEMMA StepSerial ==
    ASSUME StoreInv, StoreInv', [Next]_vars
    PROVE  [Serial!Next]_<< Holder, stored.gen >>
<1>a. /\ pc \in [Proc -> PC] /\ pc' \in [Proc -> PC]
      /\ stored.gen \in Nat /\ NoProc \notin Proc
  BY RefreshAssumption DEF StoreInv, LockInv, TypeOK
<1>b. MutualExclusion /\ MutualExclusion'
  BY DEF StoreInv, LockInv, LockHeld, MutualExclusion
<1>1. CASE \A p \in Proc : Holding(p)' <=> Holding(p)
  <2>1. Holder' = Holder
    BY <1>1 DEF Holder
  <2>2. stored' = stored
    <3> SUFFICES ASSUME stored' # stored PROVE FALSE
      OBVIOUS
    <3>1. PICK p \in Proc : pc[p] = "store" /\ pc'[p] = "release"
      BY StoreStep DEF vars
    <3> QED
      BY <1>1, <3>1 DEF Holding
  <2> QED
    BY <2>1, <2>2
<1>2. ASSUME NEW p \in Proc, Holding(p)' # Holding(p)
      PROVE  Serial!Next
  <2>1. \A q \in Proc \ {p} : Holding(q)' <=> Holding(q)
    BY <1>2, <1>a DEF Next, Step, Fault, EnsureValidToken, ForceRefresh, Begin, ReturnStored,
         AcquireRefreshLock, LoseAcquire, ReleaseRefreshLock, LoseRelease,
         ReadAfterWait, Recheck, GetRefreshToken, Grant, Refuse, Answer,
         StoreTokens, LoseStore, MarkError, LoseAnswer, Abandon, ServeOrphan, Tick,
         vars, Goto, Holding
  <2>2. CASE ~ Holding(p)
    <3>1. Holding(p)'
      BY <1>2, <2>2 DEF Holding
    <3>2. Holder' = p
      BY <1>b, <3>1, HolderOf DEF MutualExclusion, Holder
    <3>3. \A q \in Proc : ~ Holding(q)
      BY <1>b, <2>1, <2>2, <3>1 DEF MutualExclusion
    <3>4. Holder = NoProc
      BY <3>3 DEF Holder
    <3>5. stored' = stored
      BY <3>3, StoreStep DEF vars, Holding
    <3> QED
      BY <3>2, <3>4, <3>5 DEF Serial!Next, Serial!Begin
  <2>3. CASE Holding(p)
    <3>1. ~ Holding(p)'
      BY <1>2, <2>3, Zenon DEF Holding
    <3>2. Holder = p
      BY <1>b, <2>3, HolderOf
    <3>3. \A q \in Proc : ~ Holding(q)'
      BY <1>b, <2>1, <2>3, <3>1 DEF MutualExclusion
    <3>4. Holder' = NoProc
      BY <3>3 DEF Holder
    <3>5. stored' = stored \/ (stored'.gen \in Nat /\ stored'.gen > stored.gen)
      BY StoreStep, <1>a DEF vars
    <3> QED
      BY <3>2, <3>4, <3>5 DEF Serial!Next, Serial!Commit, Serial!GiveUp
  <2> QED
    BY <2>2, <2>3
<1> QED
  BY <1>1, <1>2

(* The token manager implements the abstract serial refresh.               *)
THEOREM RefreshIsSerial == Spec => ImplementsSerialRefresh
<1>1. Init => Serial!Init
  BY DEF Init, Serial!Init, Holder, Holding
<1>2. StoreInv /\ StoreInv' /\ [Next]_vars => [Serial!Next]_<< Holder, stored.gen >>
  BY StepSerial
<1> QED
  BY <1>1, <1>2, InitStore, StepStore, PTL DEF Spec, ImplementsSerialRefresh, Serial!Spec
=============================================================================
