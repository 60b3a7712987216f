------------------------- MODULE RelayRequestProofs -------------------------
(***************************************************************************)
(* Theorems about RelayRequest, for any accounts, sessions and priorities, *)
(* any number of requests in progress and any limit on the attempts.       *)
(***************************************************************************)
EXTENDS RelayRequest, FiniteSetTheorems, TLAPS

-----------------------------------------------------------------------------
(* The inductive invariant: what is so of every request by itself.         *)

(* The loop's counter.                                                     *)
Limited(j) ==
    /\ Len(j.tries) <= MaxRetryAccounts + 1
    /\ j.phase # "done" => Len(j.tries) <= MaxRetryAccounts

(* An account is selected for an attempt, and candidates exist in a scan.  *)
Staged(j) ==
    /\ j.phase \in {"idle", "lookup", "check", "renew"}
       => j.tries = << >> /\ j.acct = NoAccount
    /\ j.phase \in {"select", "list", "scan"} => j.acct = NoAccount
    /\ j.phase \in {"token", "sent", "handle", "bind", "stream"} => j.acct \in Account
    /\ j.phase \in {"lookup", "renew", "bind", "expire"} => j.session \in Session
    /\ j.phase = "check" => j.session \in Session /\ j.bound \in Account
    /\ j.phase # "scan" => j.seen = {}

(* The i-th attempt is one of the first two that ended with 403.           *)
ForbiddenIn(t, n) == { k \in 1..n : t[k].forbidden }

Spared(t, i) == t[i].forbidden /\ Cardinality(ForbiddenIn(t, i)) <= 2

(* Only a spared attempt leaves its account among those to select from,    *)
(* and neither the selected one nor a candidate is excluded.               *)
Sorted(j) ==
    /\ j.tries = << >> => j.excluded = {}
    /\ \A i \in DOMAIN j.tries : j.tries[i].acct \in j.excluded \/ Spared(j.tries, i)
    /\ \A i, k \in DOMAIN j.tries :
          k > i /\ j.tries[k].acct = j.tries[i].acct => Spared(j.tries, i)
    /\ j.acct \notin j.excluded
    /\ j.seen \cap j.excluded = {}

(* The session's account, while it is in the pool, is selected first, but  *)
(* for the selection that could not read it.                               *)
Bound(j, p) ==
    j.bound \in p
    => \/ j.missed
       \/ IF j.tries = << >>
            THEN j.acct \in {NoAccount, j.bound} /\ j.phase \notin {"list", "scan"}
            ELSE j.tries[1].acct = j.bound

JobInv(j, p) == j \in RequestState /\ Limited(j) /\ Staged(j) /\ Sorted(j) /\ Bound(j, p)

Jobs == /\ req \in [Request -> RequestState]
        /\ \A q \in Request : JobInv(req[q], pool)

(* The records and bindings.                                               *)
StoreOK ==
    /\ pool \subseteq Account /\ active \subseteq pool /\ paused \subseteq pool
    /\ binding \in [Session -> Account \cup {NoAccount, Unnamed}]
    /\ timeless \subseteq { s \in Session : binding[s] # NoAccount }
    /\ unset \subseteq timeless

RelayInv == Jobs /\ StoreOK /\ BindingsExpire

LEMMA InvGivesType == RelayInv => TypeOK
BY RelayAssumption DEF RelayInv, Jobs, StoreOK, JobInv, Limited, TypeOK

LEMMA FreshJob ==
    /\ Fresh \in RequestState /\ Limited(Fresh) /\ Sorted(Fresh)
    /\ Fresh.tries = << >> /\ Fresh.acct = NoAccount /\ Fresh.seen = {}
<1>1. Fresh \in RequestState
  BY RelayAssumption DEF Fresh, RequestState, Phase, Answer
<1>2. Limited(Fresh) /\ Sorted(Fresh)
  BY RelayAssumption DEF Fresh, Limited, Sorted
<1> QED
  BY <1>1, <1>2 DEF Fresh

LEMMA OverJob ==
    ASSUME NEW p \in SUBSET Account, NEW x \in Answer
    PROVE  JobInv(Over(x), p) /\ Over(x).phase = "done"
<1>1. "done" \in Phase
  BY DEF Phase
<1>2. Over(x) \in RequestState
  BY <1>1, FreshJob DEF Over, RequestState
<1>3. Limited(Over(x)) /\ Sorted(Over(x)) /\ Staged(Over(x)) /\ Bound(Over(x), p)
  BY RelayAssumption DEF Over, Fresh, Limited, Sorted, Staged, Bound
<1> QED
  BY <1>2, <1>3 DEF JobInv, Over, Fresh

LEMMA InitJobs == Init => RelayInv
<1> SUFFICES ASSUME Init PROVE RelayInv
  OBVIOUS
<1>1. JobInv(Fresh, Account)
  BY FreshJob, RelayAssumption DEF JobInv, Staged, Bound, Fresh
<1> QED
  BY <1>1, FreshJob DEF Init, RelayInv, Jobs, StoreOK, BindingsExpire

(* One request at a time changes, and the pool only shrinks.               *)
LEMMA OneJob ==
    ASSUME Jobs, NEW q \in Request, NEW j, req' = [req EXCEPT ![q] = j],
           JobInv(j, pool), pool' = pool
    PROVE  Jobs'
<1>1. j \in RequestState
  BY DEF JobInv
<1>2. req' \in [Request -> RequestState]
  BY <1>1 DEF Jobs
<1>3. \A r \in Request : JobInv(req'[r], pool)
  BY DEF Jobs
<1> QED
  BY <1>2, <1>3 DEF Jobs

LEMMA SamePool ==
    ASSUME Jobs, UNCHANGED req, pool' \subseteq pool
    PROVE  Jobs'
BY DEF Jobs, JobInv, Bound

-----------------------------------------------------------------------------
(* What each step makes of its request.                                    *)

LEMMA PhaseMoves ==
    ASSUME NEW j, NEW ph \in Phase \ {"list", "scan", "done"}, j.phase \notin {"scan", "done"},
           JobInv(j, pool), Staged([j EXCEPT !.phase = ph])
    PROVE  JobInv([j EXCEPT !.phase = ph], pool)
<1> DEFINE k == [j EXCEPT !.phase = ph]
<1>1. k \in RequestState
  BY DEF JobInv, RequestState
<1>2. /\ k.phase = ph /\ k.tries = j.tries /\ k.acct = j.acct /\ k.bound = j.bound
      /\ k.seen = j.seen /\ k.excluded = j.excluded /\ k.missed = j.missed
  BY DEF JobInv, RequestState
<1>3. Limited(k) /\ Bound(k, pool)
  BY <1>2 DEF JobInv, Limited, Bound
<1>4. Sorted(k)
  BY <1>2 DEF JobInv, Sorted
<1> QED
  BY <1>1, <1>3, <1>4 DEF JobInv

LEMMA ArriveJob ==
    ASSUME RelayInv, NEW q \in Request, Arrive(q)
    PROVE  Jobs'
<1>1. PICK s \in Session \cup {NoSession} :
        req' = [req EXCEPT ![q] =
                  [Fresh EXCEPT !.phase = IF s = NoSession THEN "select" ELSE "lookup",
                                !.session = s]]
  BY DEF Arrive
<1> DEFINE j == [Fresh EXCEPT !.phase = IF s = NoSession THEN "select" ELSE "lookup",
                              !.session = s]
<1>2. j \in RequestState
  BY FreshJob DEF RequestState, Phase
<1>3. /\ j.phase = (IF s = NoSession THEN "select" ELSE "lookup") /\ j.session = s
      /\ j.tries = << >> /\ j.acct = NoAccount /\ j.bound = NoAccount
      /\ j.seen = {} /\ j.excluded = {}
  BY FreshJob DEF RequestState, Fresh
<1>4. Limited(j) /\ Staged(j) /\ Sorted(j) /\ Bound(j, pool)
  BY <1>3, RelayAssumption DEF Limited, Staged, Sorted, Bound, RelayInv, StoreOK
<1> QED
  BY <1>1, <1>2, <1>4, OneJob DEF RelayInv, JobInv, Arrive, accounts

LEMMA LookupJob ==
    ASSUME RelayInv, NEW q \in Request, Lookup(q)
    PROVE  Jobs'
<1> DEFINE j == req[q]
           b == binding[j.session]
<1>j. JobInv(j, pool) /\ j \in RequestState /\ j.phase = "lookup" /\ pool' = pool
  BY DEF RelayInv, Jobs, Lookup, accounts, JobInv
<1>1. CASE b \in Account /\ req' = [req EXCEPT ![q].phase = "check", ![q].bound = b]
  <2> DEFINE k == [j EXCEPT !.phase = "check", !.bound = b]
  <2>1. k \in RequestState
    BY <1>1, <1>j DEF RequestState, Phase
  <2>2. /\ k.phase = "check" /\ k.tries = j.tries /\ k.acct = j.acct /\ k.bound = b
        /\ k.seen = j.seen /\ k.excluded = j.excluded /\ k.session = j.session
    BY <1>j DEF RequestState
  <2>3. Limited(k) /\ Staged(k) /\ Bound(k, pool)
    BY <1>1, <1>j, <2>2 DEF JobInv, Limited, Staged, Bound
  <2>4. Sorted(k)
    BY <1>j, <2>2 DEF JobInv, Sorted
  <2>5. req' = [req EXCEPT ![q] = k]
    BY <1>1 DEF RelayInv, Jobs
  <2> HIDE DEF k
  <2> QED
    BY <1>j, <2>1, <2>3, <2>4, <2>5, OneJob DEF RelayInv, JobInv
<1>2. CASE req' = [req EXCEPT ![q].phase = "select"]
  <2> DEFINE k == [j EXCEPT !.phase = "select"]
  <2>1. k.phase = "select" /\ k.tries = j.tries /\ k.acct = j.acct /\ k.seen = j.seen
    BY <1>j DEF RequestState
  <2>2. Staged(k)
    BY <1>j, <2>1 DEF JobInv, Staged
  <2>3. JobInv(k, pool)
    BY <1>j, <2>2, PhaseMoves DEF Phase
  <2>4. req' = [req EXCEPT ![q] = k]
    BY <1>2
  <2> HIDE DEF k
  <2> QED
    BY <1>j, <2>3, <2>4, OneJob DEF RelayInv
<1> QED
  BY <1>1, <1>2 DEF Lookup

LEMMA CheckJob ==
    ASSUME RelayInv, NEW q \in Request, Check(q)
    PROVE  Jobs'
<1> DEFINE j == req[q]
           renewed  == [j EXCEPT !.phase = "renew"]
           unbound  == [j EXCEPT !.phase = "select", !.bound = NoAccount]
<1>j. JobInv(j, pool) /\ j \in RequestState /\ j.phase = "check" /\ pool' = pool
      /\ pool \subseteq Account
  BY DEF RelayInv, Jobs, Check, accounts, JobInv, StoreOK
<1>1. JobInv(renewed, pool)
  <2>1. /\ renewed.phase = "renew" /\ renewed.tries = j.tries /\ renewed.acct = j.acct
        /\ renewed.seen = j.seen /\ renewed.session = j.session
    BY <1>j DEF RequestState
  <2>2. Staged(renewed)
    BY <1>j, <2>1 DEF JobInv, Staged
  <2> QED
    BY <1>j, <2>2, PhaseMoves DEF Phase
<1>2. JobInv(Over("refused"), pool)
  BY <1>j, OverJob DEF Answer
<1>3. JobInv(unbound, pool)
  <2>1. unbound \in RequestState
    BY <1>j DEF RequestState, Phase
  <2>2. /\ unbound.phase = "select" /\ unbound.tries = j.tries /\ unbound.acct = j.acct
        /\ unbound.bound = NoAccount /\ unbound.seen = j.seen
        /\ unbound.excluded = j.excluded
    BY <1>j DEF RequestState
  <2>3. Limited(unbound) /\ Staged(unbound) /\ Bound(unbound, pool)
    BY <1>j, <2>2, RelayAssumption DEF JobInv, Limited, Staged, Bound
  <2>4. Sorted(unbound)
    BY <1>j, <2>2 DEF JobInv, Sorted
  <2> QED
    BY <2>1, <2>3, <2>4 DEF JobInv
<1>4. PICK k \in {renewed, Over("refused"), unbound} : req' = [req EXCEPT ![q] = k]
  BY DEF Check
<1> QED
  BY <1>j, <1>1, <1>2, <1>3, <1>4, OneJob DEF RelayInv

(* The pipeline's steps, the token, and a session's success: the phase.    *)
LEMMA MoveJob ==
    ASSUME RelayInv, NEW q \in Request,
           \/ RenewSessionBinding(q) \/ SetTTL(q) \/ LoseBinding(q)
           \/ TokenOK(q) \/ SetSessionBinding(q)
    PROVE  Jobs'
<1> DEFINE j == req[q]
<1>j. JobInv(j, pool) /\ j \in RequestState /\ Staged(j)
  BY DEF RelayInv, Jobs, JobInv
<1>1. ASSUME NEW ph \in {"expire", "select", "stream", "sent"},
             req' = [req EXCEPT ![q].phase = ph], pool' = pool,
             j.phase \in {"renew", "bind", "expire", "token"},
             ph = "expire" => j.session \in Session,
             ph = "select" => j.acct = NoAccount,
             ph \in {"stream", "sent"} => j.acct \in Account
      PROVE  Jobs'
  <2> DEFINE k == [j EXCEPT !.phase = ph]
  <2>1. k.phase = ph /\ k.acct = j.acct /\ k.seen = j.seen /\ k.session = j.session
    BY <1>j DEF RequestState
  <2>2. Staged(k)
    BY <1>j, <1>1, <2>1 DEF Staged
  <2>3. ph \in Phase
    BY <1>1 DEF Phase
  <2>4. JobInv(k, pool)
    BY <1>j, <1>1, <2>2, <2>3, PhaseMoves
  <2>5. req' = [req EXCEPT ![q] = k]
    BY <1>1
  <2> HIDE DEF k
  <2> QED
    BY <1>1, <2>4, <2>5, OneJob DEF RelayInv
<1>2. CASE RenewSessionBinding(q) \/ SetSessionBinding(q)
  BY <1>1, <1>2, <1>j DEF RenewSessionBinding, SetSessionBinding, WriteBinding, accounts, Staged
<1>3. CASE SetTTL(q) \/ LoseBinding(q)
  <2>1. j.acct \in Account \cup {NoAccount}
    BY <1>j DEF RequestState
  <2>2. j.phase \in {"renew", "bind", "expire"} /\ j.session \in Session /\ pool' = pool
    BY <1>3, <1>j DEF SetTTL, LoseBinding, accounts, Staged
  <2>3. CASE req' = [req EXCEPT ![q].phase = AfterBinding(j)]
    BY <1>1, <2>1, <2>2, <2>3 DEF AfterBinding
  <2>4. CASE req' = [req EXCEPT ![q].phase = "expire"]
    BY <1>1, <2>2, <2>4
  <2> QED
    BY <1>3, <2>3, <2>4 DEF SetTTL, LoseBinding
<1>4. CASE TokenOK(q)
  BY <1>1, <1>4, <1>j DEF TokenOK, accounts, Staged
<1> QED
  BY <1>2, <1>3, <1>4

-----------------------------------------------------------------------------
(* The selection.                                                          *)

LEMMA ScanStarts ==
    ASSUME RelayInv, NEW q \in Request, req[q].phase \in {"select", "list"},
           req[q].phase = "select" /\ req[q].bound \in pool => req[q].tries # << >>
    PROVE  JobInv([req[q] EXCEPT !.phase = "scan", !.todo = pool], pool)
<1> DEFINE j == req[q]
           k == [j EXCEPT !.phase = "scan", !.todo = pool]
<1>j. JobInv(j, pool) /\ j \in RequestState /\ pool \subseteq Account
  BY DEF RelayInv, Jobs, JobInv, StoreOK
<1>2. k \in RequestState
  BY <1>j DEF RequestState, Phase
<1>3. /\ k.phase = "scan" /\ k.tries = j.tries /\ k.acct = j.acct /\ k.bound = j.bound
      /\ k.seen = j.seen /\ k.excluded = j.excluded /\ k.missed = j.missed
  BY <1>j DEF RequestState
<1>4. Limited(k) /\ Staged(k) /\ Bound(k, pool)
  BY <1>j, <1>3 DEF JobInv, Limited, Staged, Bound
<1>5. Sorted(k)
  BY <1>j, <1>3 DEF JobInv, Sorted
<1> QED
  BY <1>2, <1>4, <1>5 DEF JobInv

(* The session's account is not there, or cannot be read.                  *)
LEMMA PassedOver ==
    ASSUME RelayInv, NEW q \in Request, req[q].phase = "select"
    PROVE  JobInv([req[q] EXCEPT !.phase = "list", !.missed = req[q].bound \in pool], pool)
<1> DEFINE j == req[q]
           k == [j EXCEPT !.phase = "list", !.missed = j.bound \in pool]
<1>j. JobInv(j, pool) /\ j \in RequestState
  BY DEF RelayInv, Jobs, JobInv
<1>1. (j.bound \in pool) \in BOOLEAN /\ "list" \in Phase
  BY DEF Phase
<1>2. k \in RequestState
  BY <1>j, <1>1 DEF RequestState
<1>3. /\ k.phase = "list" /\ k.tries = j.tries /\ k.acct = j.acct /\ k.bound = j.bound
      /\ k.seen = j.seen /\ k.excluded = j.excluded /\ k.missed = (j.bound \in pool)
  BY <1>j DEF RequestState
<1> HIDE DEF k
<1>4. Limited(k) /\ Staged(k)
  BY <1>j, <1>3 DEF JobInv, Limited, Staged
<1>5. Sorted(k)
  BY <1>j, <1>3 DEF JobInv, Sorted
<1>6. Bound(k, pool)
  BY <1>3, Zenon DEF Bound
<1> QED
  BY <1>2, <1>4, <1>5, <1>6 DEF JobInv, k

(* A request that is turned away, or gets an account that is not excluded. *)
LEMMA TurnedAway ==
    ASSUME NEW j, JobInv(j, pool), j.phase # "scan" \/ j.seen = {},
           NEW k \in RequestState, k.phase = "done",
           k.tries = j.tries /\ k.acct = j.acct /\ k.bound = j.bound,
           k.seen = j.seen /\ k.excluded = j.excluded /\ k.missed = j.missed
    PROVE  JobInv(k, pool)
<1>j. j \in RequestState /\ Limited(j) /\ Staged(j) /\ Sorted(j) /\ Bound(j, pool)
  BY DEF JobInv
<1>1. j.seen = {}
  BY <1>j DEF Staged
<1>2. Limited(k) /\ Staged(k) /\ Bound(k, pool)
  BY <1>j, <1>1, RelayAssumption DEF Limited, Staged, Bound
<1>3. Sorted(k)
  BY <1>j DEF Sorted
<1> QED
  BY <1>2, <1>3 DEF JobInv

LEMMA Selected ==
    ASSUME NEW j, JobInv(j, pool), j.phase \in {"select", "scan"}, NEW a \in Account,
           a \notin j.excluded, NEW k \in RequestState,
           k.phase = "token" /\ k.acct = a /\ k.seen = {} /\ k.missed = j.missed,
           k.tries = j.tries /\ k.bound = j.bound /\ k.excluded = j.excluded,
           j.phase = "select" => a = j.bound
    PROVE  JobInv(k, pool)
<1>1. Limited(k) /\ Staged(k) /\ Bound(k, pool)
  BY DEF JobInv, Limited, Staged, Bound
<1>2. Sorted(k)
  BY DEF JobInv, Sorted
<1> QED
  BY <1>1, <1>2 DEF JobInv

LEMMA SelectJob ==
    ASSUME RelayInv, NEW q \in Request, SelectBound(q) \/ SelectPool(q)
    PROVE  Jobs'
<1> DEFINE j == req[q]
           b == j.bound
           scan == [j EXCEPT !.phase = "scan", !.todo = pool]
           list == [j EXCEPT !.phase = "list", !.missed = b \in pool]
           held == [j EXCEPT !.phase = "done", !.answer = "held"]
           none == [j EXCEPT !.phase = "done", !.answer = "unavailable", !.unread = pool]
           token == [j EXCEPT !.phase = "token", !.acct = b]
<1>j. /\ JobInv(j, pool) /\ j \in RequestState /\ j.phase \in {"select", "list"}
      /\ pool' = pool /\ pool \subseteq Account /\ req \in [Request -> RequestState]
  BY DEF RelayInv, Jobs, SelectBound, SelectPool, accounts, JobInv, StoreOK
<1>1. CASE SelectBound(q) /\ Available(b) /\ req' = [req EXCEPT ![q] = token]
  <2>1. b \in Account /\ j.tries = << >> /\ j.phase = "select"
    BY <1>1, <1>j DEF Available, SelectBound, PrefersBound
  <2>2. token \in RequestState
    BY <1>j, <2>1 DEF RequestState, Phase
  <2>3. /\ token.phase = "token" /\ token.acct = b /\ token.seen = j.seen
        /\ token.tries = j.tries /\ token.bound = j.bound /\ token.excluded = j.excluded
        /\ token.missed = j.missed
    BY <1>j DEF RequestState
  <2>4. j.seen = {} /\ j.excluded = {}
    BY <1>j, <2>1 DEF JobInv, Staged, Sorted
  <2>5. JobInv(token, pool)
    <3> HIDE DEF token
    <3> QED
      BY <1>j, <2>1, <2>2, <2>3, <2>4, Selected
  <2> HIDE DEF token
  <2> QED
    BY <1>1, <1>j, <2>5, OneJob DEF RelayInv
<1>2. CASE req' = [req EXCEPT ![q] = held] \/ req' = [req EXCEPT ![q] = none]
  <2>1. held \in RequestState /\ none \in RequestState
    BY <1>j DEF RequestState, Phase, Answer
  <2>2. /\ held.phase = "done" /\ held.tries = j.tries /\ held.acct = j.acct
        /\ held.bound = j.bound /\ held.seen = j.seen /\ held.excluded = j.excluded
        /\ held.missed = j.missed
    BY <1>j DEF RequestState
  <2>3. /\ none.phase = "done" /\ none.tries = j.tries /\ none.acct = j.acct
        /\ none.bound = j.bound /\ none.seen = j.seen /\ none.excluded = j.excluded
        /\ none.missed = j.missed
    BY <1>j DEF RequestState
  <2> HIDE DEF held, none
  <2>4. JobInv(held, pool)
    BY <1>j, <2>1, <2>2, TurnedAway
  <2>5. JobInv(none, pool)
    BY <1>j, <2>1, <2>3, TurnedAway
  <2> QED
    BY <1>2, <1>j, <2>4, <2>5, OneJob DEF RelayInv
<1>3. CASE SelectBound(q) /\ req' = [req EXCEPT ![q] = list]
  <2>1. j.phase = "select"
    BY <1>3 DEF SelectBound
  <2>2. JobInv(list, pool)
    BY <2>1, PassedOver
  <2> HIDE DEF list
  <2> QED
    BY <1>3, <1>j, <2>2, OneJob DEF RelayInv
<1>4. CASE SelectPool(q) /\ req' = [req EXCEPT ![q] = scan]
  <2>1. j.phase = "select" /\ b \in pool => j.tries # << >>
    BY <1>4, <1>j, RelayAssumption DEF SelectPool, PrefersBound
  <2>2. JobInv(scan, pool)
    BY <1>j, <2>1, ScanStarts
  <2> HIDE DEF scan
  <2> QED
    BY <1>4, <1>j, <2>2, OneJob DEF RelayInv
<1>5. CASE SelectBound(q)
  BY <1>1, <1>2, <1>3, <1>5, <1>j DEF SelectBound
<1>6. CASE SelectPool(q)
  BY <1>2, <1>4, <1>6, <1>j DEF SelectPool
<1> QED
  BY <1>5, <1>6

LEMMA ScanReadJob ==
    ASSUME RelayInv, NEW q \in Request, NEW a \in Account, ScanRead(q, a)
    PROVE  Jobs'
<1> DEFINE j == req[q]
<1>j. JobInv(j, pool) /\ j \in RequestState /\ j.phase = "scan" /\ pool' = pool
  BY DEF RelayInv, Jobs, ScanRead, accounts, JobInv
<1>1. PICK read \in BOOLEAN :
        req' = [req EXCEPT
                  ![q].todo = @ \ {a},
                  ![q].seen = IF read /\ Available(a) /\ a \notin j.excluded
                                THEN @ \cup {a} ELSE @,
                  ![q].unread = IF read THEN @ ELSE @ \cup {a}]
  BY DEF ScanRead
<1> DEFINE s == IF read /\ Available(a) /\ a \notin j.excluded THEN j.seen \cup {a} ELSE j.seen
           u == IF read THEN j.unread ELSE j.unread \cup {a}
           k == [j EXCEPT !.todo = j.todo \ {a}, !.seen = s, !.unread = u]
<1>2. s \in SUBSET Account /\ u \in SUBSET Account /\ s \cap j.excluded = {}
  BY <1>j DEF RequestState, JobInv, Sorted
<1>3. req' = [req EXCEPT ![q] = k]
  BY <1>1, <1>j DEF RelayInv, Jobs, RequestState
<1> HIDE DEF s, u
<1>4. k \in RequestState
  BY <1>2, <1>j DEF RequestState
<1>5. /\ k.phase = "scan" /\ k.tries = j.tries /\ k.acct = j.acct /\ k.bound = j.bound
      /\ k.seen = s /\ k.excluded = j.excluded /\ k.missed = j.missed
  BY <1>j DEF RequestState
<1>6. Limited(k) /\ Staged(k) /\ Bound(k, pool)
  BY <1>j, <1>5 DEF JobInv, Limited, Staged, Bound
<1>7. Sorted(k)
  BY <1>2, <1>j, <1>5 DEF JobInv, Sorted
<1> HIDE DEF k
<1> QED
  BY <1>j, <1>3, <1>4, <1>6, <1>7, OneJob DEF RelayInv, JobInv

LEMMA ScanEndJob ==
    ASSUME RelayInv, NEW q \in Request, ScanEnd(q)
    PROVE  Jobs'
<1> DEFINE j == req[q]
<1>j. JobInv(j, pool) /\ j \in RequestState /\ j.phase = "scan" /\ pool' = pool
  BY DEF RelayInv, Jobs, ScanEnd, accounts, JobInv
<1>1. CASE /\ j.seen = {}
           /\ req' = [req EXCEPT ![q].phase = "done", ![q].answer = "unavailable"]
  <2> DEFINE away == [j EXCEPT !.phase = "done", !.answer = "unavailable"]
  <2>1. away \in RequestState
    BY <1>j DEF RequestState, Phase, Answer
  <2>2. /\ away.phase = "done" /\ away.tries = j.tries /\ away.acct = j.acct
        /\ away.bound = j.bound /\ away.seen = j.seen /\ away.excluded = j.excluded
        /\ away.missed = j.missed
    BY <1>j DEF RequestState
  <2>3. req' = [req EXCEPT ![q] = away]
    BY <1>1 DEF RelayInv, Jobs
  <2> HIDE DEF away
  <2>4. JobInv(away, pool)
    BY <1>1, <1>j, <2>1, <2>2, TurnedAway
  <2> QED
    BY <1>j, <2>3, <2>4, OneJob DEF RelayInv
<1>2. ASSUME NEW a \in Best(j),
             req' = [req EXCEPT ![q] = [@ EXCEPT !.phase = "token", !.acct = a,
                                                 !.seen = {}, !.unread = {}]]
      PROVE  Jobs'
  <2> DEFINE token == [j EXCEPT !.phase = "token", !.acct = a, !.seen = {}, !.unread = {}]
  <2>1. a \in Account /\ a \notin j.excluded
    BY <1>2, <1>j DEF Best, JobInv, Sorted, RequestState
  <2>2. token \in RequestState
    BY <1>j, <2>1 DEF RequestState, Phase
  <2>3. /\ token.phase = "token" /\ token.acct = a /\ token.seen = {}
        /\ token.tries = j.tries /\ token.bound = j.bound /\ token.excluded = j.excluded
        /\ token.missed = j.missed
    BY <1>j DEF RequestState
  <2>4. req' = [req EXCEPT ![q] = token]
    BY <1>2
  <2> HIDE DEF token
  <2>5. JobInv(token, pool)
    BY <1>j, <2>1, <2>2, <2>3, Selected
  <2> QED
    BY <1>j, <2>4, <2>5, OneJob DEF RelayInv
<1> QED
  BY <1>1, <1>2 DEF ScanEnd

-----------------------------------------------------------------------------
(* The end of an attempt.                                                  *)

LEMMA SparedKept ==
    ASSUME NEW t \in Seq(Try), NEW u \in Try, NEW i \in DOMAIN t, Spared(t, i)
    PROVE  Spared(Append(t, u), i)
<1>1. Append(t, u)[i] = t[i] /\ \A k \in 1..i : Append(t, u)[k] = t[k]
  OBVIOUS
<1>2. ForbiddenIn(Append(t, u), i) = ForbiddenIn(t, i)
  BY <1>1 DEF ForbiddenIn
<1> QED
  BY <1>1, <1>2, Zenon DEF Spared

(* The attempt that ends: if it does not exclude its account, it is spared.*)
LEMMA LastSpared ==
    ASSUME NEW j \in RequestState, NEW o, ~ Excludes(j, o), j.acct \in Account
    PROVE  Spared(Tried(j, o), Len(j.tries) + 1)
<1> DEFINE t == j.tries
           n == Len(t)
           F == ForbiddenIn(t, n)
           u == [acct |-> j.acct, forbidden |-> o = 403]
<1>1. t \in Seq(Try) /\ n \in Nat /\ DOMAIN t = 1..n /\ u \in Try
  BY DEF RequestState, Try
<1>2. o = 403 /\ ~ (Cardinality(F) >= 2)
  BY <1>1 DEF Excludes, Forbidden, ForbiddenIn
<1>3. IsFiniteSet(F)
  <2>1. 1 \in Int /\ n \in Int
    BY <1>1
  <2>2. IsFiniteSet(1..n)
    BY <2>1, FS_Interval
  <2>3. F \subseteq 1..n
    BY DEF ForbiddenIn
  <2> QED
    BY <2>2, <2>3, FS_Subset
<1>4. Cardinality(F) \in Nat
  BY <1>3, FS_CardinalityType
<1>5. /\ Tried(j, o) = Append(t, u) /\ Append(t, u)[n + 1] = u
      /\ \A k \in 1..n : Append(t, u)[k] = t[k]
  BY <1>1 DEF Tried
<1>6. Append(t, u)[n + 1].forbidden
  <2>1. u = [acct |-> j.acct, forbidden |-> TRUE]
    BY <1>2
  <2>2. u.forbidden
    BY <2>1
  <2> HIDE DEF u
  <2> QED
    BY <2>2, <1>5
<1>7. ForbiddenIn(Append(t, u), n + 1) = F \cup {n + 1}
  <2>1. 1..(n + 1) = 1..n \cup {n + 1}
    BY <1>1
  <2> QED
    BY <2>1, <1>5, <1>6 DEF ForbiddenIn
<1>8. n + 1 \notin F
  BY <1>1 DEF ForbiddenIn
<1> HIDE DEF F
<1>9. Cardinality(F \cup {n + 1}) = Cardinality(F) + 1
  BY <1>3, <1>8, FS_AddElement
<1>10. Cardinality(F \cup {n + 1}) <= 2
  BY <1>2, <1>4, <1>9
<1>11. Cardinality(ForbiddenIn(Append(t, u), n + 1)) <= 2
  BY <1>7, <1>10, Zenon
<1> QED
  BY <1>5, <1>6, <1>11, Zenon DEF Spared

LEMMA ContinueJob ==
    ASSUME RelayInv, NEW q \in Request, NEW o,
           req[q].phase \in {"token", "sent", "handle"}
    PROVE  JobInv(Continue(req[q], o), pool)
<1> DEFINE j == req[q]
           k == Continue(j, o)
           t == j.tries
           n == Len(t)
           u == [acct |-> j.acct, forbidden |-> o = 403]
           T == Append(t, u)
<1>j. /\ JobInv(j, pool) /\ j \in RequestState /\ j.acct \in Account
      /\ j.phase \notin {"done", "scan"}
  BY DEF RelayInv, Jobs, JobInv, Staged
<1>n. /\ t \in Seq(Try) /\ n \in Nat /\ DOMAIN t = 1..n /\ u \in Try
      /\ n <= MaxRetryAccounts /\ MaxRetryAccounts \in Nat
  BY <1>j, RelayAssumption DEF RequestState, Try, JobInv, Limited
<1>t. /\ Tried(j, o) = T /\ T \in Seq(Try)
      /\ Len(T) = n + 1 /\ DOMAIN T = 1..(n + 1)
      /\ T[n + 1] = u /\ \A i \in 1..n : T[i] = t[i]
  BY <1>n DEF Tried
<1>e. /\ Excluded(j, o) \in SUBSET Account /\ j.excluded \subseteq Excluded(j, o)
      /\ Excludes(j, o) => j.acct \in Excluded(j, o)
  BY <1>j DEF Excluded, RequestState
<1>s. j.seen = {}
  BY <1>j DEF JobInv, Staged
<1> DEFINE ph == IF n + 1 <= MaxRetryAccounts THEN "select" ELSE "done"
           an == IF n + 1 <= MaxRetryAccounts THEN "none" ELSE "unavailable"
<1>c. k = [j EXCEPT !.phase = ph, !.answer = an, !.acct = NoAccount, !.code = 200,
                    !.tries = T, !.excluded = Excluded(j, o)]
  BY <1>t DEF Continue
<1> HIDE DEF k, u, T
<1>1. k \in RequestState
  <2>1. ph \in Phase /\ an \in Answer
    BY DEF Phase, Answer
  <2>2. 200 \in Code
    BY RelayAssumption
  <2>3. T \in Seq(Try) /\ Excluded(j, o) \in SUBSET Account /\ j \in RequestState
    BY <1>t, <1>e, <1>j
  <2> HIDE DEF ph, an, j, t, n
  <2> QED
    BY <1>c, <2>1, <2>2, <2>3 DEF RequestState
<1>2. /\ k.phase = (IF n + 1 <= MaxRetryAccounts THEN "select" ELSE "done")
      /\ k.tries = T /\ k.acct = NoAccount /\ k.bound = j.bound
      /\ k.seen = {} /\ k.excluded = Excluded(j, o) /\ k.missed = j.missed
  BY <1>c, <1>j, <1>s DEF RequestState
<1>3. Limited(k) /\ Staged(k)
  BY <1>n, <1>t, <1>2 DEF Limited, Staged
<1>4. Bound(k, pool)
  <2> SUFFICES ASSUME j.bound \in pool, ~ j.missed PROVE k.tries[1].acct = j.bound
    BY <1>2, <1>t, <1>n DEF Bound
  <2>1. CASE t = << >>
    <3>1. n = 0 /\ k.tries[1] = u
      BY <2>1, <1>2, <1>t
    <3>2. u.acct = j.acct
      BY DEF u
    <3>3. j.acct = j.bound
      BY <2>1, <1>j, RelayAssumption DEF JobInv, Bound
    <3> QED
      BY <3>1, <3>2, <3>3
  <2>2. CASE t # << >>
    BY <2>2, <1>2, <1>t, <1>n, <1>j DEF JobInv, Bound
  <2> QED
    BY <2>1, <2>2
<1>5. Sorted(k)
  <2>1. k.tries # << >>
    <3>1. Len(k.tries) # 0
      BY <1>2, <1>t, <1>n
    <3> QED
      BY <3>1
  <2>2. ASSUME NEW i \in 1..n PROVE t[i].acct \in j.excluded \/ Spared(T, i)
    <3>1. Sorted(j) /\ i \in DOMAIN t
      BY <1>j, <1>n DEF JobInv
    <3>2. t[i].acct \in j.excluded \/ Spared(t, i)
      BY <3>1, Zenon DEF Sorted
    <3>3. Spared(t, i) => Spared(T, i)
      BY <3>1, <1>n, SparedKept DEF T
    <3> QED
      BY <3>2, <3>3
  <2>3. u.acct \in Excluded(j, o) \/ Spared(T, n + 1)
    <3>1. Excludes(j, o) \/ Spared(Tried(j, o), n + 1)
      BY <1>j, LastSpared
    <3>2. u.acct = j.acct
      BY DEF u
    <3> QED
      BY <1>e, <1>t, <3>1, <3>2, Zenon
  <2>4. \A i \in 1..(n + 1) : k.tries[i].acct \in k.excluded \/ Spared(k.tries, i)
    BY <2>2, <2>3, <1>2, <1>t, <1>e, <1>n
  <2>5. ASSUME NEW i \in 1..(n + 1), NEW m \in 1..(n + 1), m > i,
               k.tries[m].acct = k.tries[i].acct
        PROVE  Spared(k.tries, i)
    <3>1. i \in 1..n /\ k.tries[i] = t[i]
      BY <2>5, <1>2, <1>t, <1>n
    <3>2. CASE m \in 1..n
      <4>1. t[m].acct = t[i].acct
        BY <3>1, <3>2, <2>5, <1>2, <1>t
      <4>2. Sorted(j) /\ i \in DOMAIN t /\ m \in DOMAIN t
        BY <3>1, <3>2, <1>j, <1>n DEF JobInv
      <4>3. Spared(t, i)
        BY <4>1, <4>2, <2>5, Zenon DEF Sorted
      <4> QED
        BY <4>2, <4>3, <1>2, <1>n, SparedKept DEF T
    <3>3. CASE m = n + 1
      <4>1. t[i].acct = j.acct
        BY <3>1, <3>3, <2>5, <1>2, <1>t DEF u
      <4>2. t[i].acct \notin j.excluded
        BY <4>1, <1>j DEF JobInv, Sorted
      <4> QED
        BY <4>2, <3>1, <2>2, <1>2
    <3> QED
      BY <3>2, <3>3, <1>n
  <2>6. k.acct \notin k.excluded
    BY <1>2, <1>e, RelayAssumption
  <2>7. k.seen \cap k.excluded = {}
    BY <1>2
  <2>8. DOMAIN k.tries = 1..(n + 1)
    BY <1>2, <1>t
  <2>9. \A i, m \in DOMAIN k.tries :
          m > i /\ k.tries[m].acct = k.tries[i].acct => Spared(k.tries, i)
    BY <2>5, <2>8, Zenon
  <2> QED
    BY <2>1, <2>4, <2>6, <2>7, <2>8, <2>9, Zenon DEF Sorted
<1> QED
  BY <1>1, <1>3, <1>4, <1>5, Zenon DEF JobInv, k

LEMMA AttemptJob ==
    ASSUME RelayInv, NEW q \in Request,
           \/ TokenFails(q) \/ TransportFails(q) \/ Handle(q) \/ LoseCooldown(q)
    PROVE  Jobs'
<1>1. PICK o : req' = [req EXCEPT ![q] = Continue(req[q], o)]
  <2>1. CASE TokenFails(q)
    BY <2>1 DEF TokenFails
  <2>2. CASE TransportFails(q)
    BY <2>2 DEF TransportFails
  <2>3. CASE Handle(q)
    BY <2>3 DEF Handle
  <2>4. CASE LoseCooldown(q)
    BY <2>4 DEF LoseCooldown
  <2> QED
    BY <2>1, <2>2, <2>3, <2>4
<1>2. req[q].phase \in {"token", "sent", "handle"} /\ pool' = pool
  BY DEF TokenFails, TransportFails, Handle, LoseCooldown, accounts
<1>3. JobInv(Continue(req[q], o), pool)
  BY <1>2, ContinueJob
<1> QED
  BY <1>1, <1>2, <1>3, OneJob DEF RelayInv

LEMMA RespondJob ==
    ASSUME RelayInv, NEW q \in Request, NEW code \in Code, Respond(q, code)
    PROVE  Jobs'
<1> DEFINE j == req[q]
           handle == [j EXCEPT !.phase = "handle", !.code = code]
           success == [j EXCEPT !.phase = IF j.session = NoSession THEN "stream" ELSE "bind"]
<1>j. JobInv(j, pool) /\ j \in RequestState /\ j.phase = "sent" /\ pool' = pool
      /\ j.acct \in Account /\ j.seen = {}
  BY DEF RelayInv, Jobs, Respond, accounts, JobInv, Staged
<1>1. JobInv(handle, pool)
  <2>1. handle \in RequestState
    BY <1>j DEF RequestState, Phase
  <2>2. /\ handle.phase = "handle" /\ handle.tries = j.tries /\ handle.acct = j.acct
        /\ handle.bound = j.bound /\ handle.seen = j.seen /\ handle.excluded = j.excluded
        /\ handle.missed = j.missed
    BY <1>j DEF RequestState
  <2>3. Limited(handle) /\ Staged(handle) /\ Bound(handle, pool)
    BY <1>j, <2>2 DEF JobInv, Limited, Staged, Bound
  <2>4. Sorted(handle)
    BY <1>j, <2>2 DEF JobInv, Sorted
  <2> QED
    BY <2>1, <2>3, <2>4 DEF JobInv
<1>2. JobInv(Over("forwarded"), pool)
  BY OverJob DEF RelayInv, StoreOK, Answer
<1>3. JobInv(success, pool)
  <2> DEFINE ph == IF j.session = NoSession THEN "stream" ELSE "bind"
  <2>1. /\ success.phase = ph /\ success.acct = j.acct /\ success.seen = j.seen
        /\ success.session = j.session /\ j.session \in Session \cup {NoSession}
    BY <1>j DEF RequestState
  <2>2. Staged(success)
    BY <1>j, <2>1 DEF Staged
  <2>3. ph \in Phase \ {"list", "scan", "done"}
    BY DEF Phase
  <2> HIDE DEF ph
  <2> QED
    BY <1>j, <2>2, <2>3, PhaseMoves DEF ph
<1>4. PICK k \in {handle, Over("forwarded"), success} : req' = [req EXCEPT ![q] = k]
  BY DEF Respond
<1> HIDE DEF handle, success
<1> QED
  BY <1>j, <1>1, <1>2, <1>3, <1>4, OneJob DEF RelayInv

LEMMA EndJob ==
    ASSUME RelayInv, NEW q \in Request, Served(q) \/ Disconnect(q)
    PROVE  Jobs'
<1>1. PICK x \in {"served", "gone"} : req' = [req EXCEPT ![q] = Over(x)]
  BY DEF Disconnect, Served
<1>2. JobInv(Over(x), pool)
  BY <1>1, OverJob DEF RelayInv, StoreOK, Answer
<1>3. pool' = pool
  BY DEF Served, Disconnect, accounts
<1> QED
  BY <1>1, <1>2, <1>3, OneJob DEF RelayInv

LEMMA NextJobs ==
    ASSUME RelayInv, [Next]_vars
    PROVE  Jobs'
<1>1. ASSUME NEW q \in Request, Step(q) PROVE Jobs'
  BY <1>1, LookupJob, CheckJob, MoveJob, SelectJob, ScanReadJob, ScanEndJob, AttemptJob,
     RespondJob, EndJob DEF Step
<1>2. ASSUME NEW q \in Request, Arrive(q) \/ Disconnect(q) PROVE Jobs'
  BY <1>2, ArriveJob, EndJob
<1>3. ASSUME NEW a \in Account, Change(a) \/ Delete(a) PROVE Jobs'
  BY <1>3, SamePool DEF Change, Delete, RelayInv
<1>4. ASSUME NEW s \in Session, Expire(s) PROVE Jobs'
  BY <1>4, SamePool DEF Expire, accounts, RelayInv
<1>5. CASE UNCHANGED vars
  BY <1>5, SamePool DEF vars, accounts, RelayInv
<1> QED
  BY <1>1, <1>2, <1>3, <1>4, <1>5 DEF Next

-----------------------------------------------------------------------------
(* The records and bindings.                                               *)

Waiting == { q \in Request : req[q].phase = "expire" }

(* A step that leaves the bindings alone, of a request that is not in the  *)
(* middle of its pipeline.                                                 *)
LEMMA SameBindings ==
    ASSUME RelayInv, UNCHANGED bindings, NEW q \in Request, req[q].phase # "expire",
           \A p \in Request \ {q} : req'[p] = req[p]
    PROVE  BindingsExpire'
BY DEF RelayInv, BindingsExpire, bindings

(* A pipeline's first command, and its end.                                *)
LEMMA BindingWritten ==
    ASSUME RelayInv, NEW q \in Request, RenewSessionBinding(q) \/ SetSessionBinding(q)
    PROVE  StoreOK' /\ BindingsExpire'
<1> DEFINE s == req[q].session
<1>1. s \in Session /\ req[q] \in RequestState /\ req[q].phase \in {"renew", "bind"}
  BY DEF RelayInv, Jobs, JobInv, Staged, RenewSessionBinding, SetSessionBinding
<1>2. PICK x \in Account \cup {Unnamed} : WriteBinding(q, x)
  <2>1. CASE RenewSessionBinding(q)
    BY <2>1, <1>1 DEF RenewSessionBinding, RelayInv, StoreOK
  <2>2. CASE SetSessionBinding(q)
    BY <2>2 DEF SetSessionBinding, RelayInv, Jobs, JobInv, Staged
  <2> QED
    BY <2>1, <2>2
<1>3. x # NoAccount
  BY <1>2, RelayAssumption
<1>4. /\ binding' = [binding EXCEPT ![s] = x] /\ unset' = unset
      /\ timeless' = (IF binding[s] = NoAccount THEN timeless \cup {s} ELSE timeless)
      /\ req' = [req EXCEPT ![q].phase = "expire"] /\ UNCHANGED << accounts >>
  BY <1>2 DEF WriteBinding
<1>5. StoreOK'
  BY <1>1, <1>3, <1>4 DEF RelayInv, StoreOK, accounts
<1>6. BindingsExpire'
  <2>1. req'[q].phase = "expire" /\ req'[q].session = s
    BY <1>1, <1>4 DEF RelayInv, Jobs, RequestState
  <2>2. \A p \in Request \ {q} : req'[p] = req[p]
    BY <1>4 DEF RelayInv, Jobs
  <2> QED
    BY <1>1, <1>4, <2>1, <2>2 DEF RelayInv, BindingsExpire
<1> QED
  BY <1>5, <1>6

LEMMA BindingTimed ==
    ASSUME RelayInv, NEW q \in Request, SetTTL(q) \/ LoseBinding(q) \/ Disconnect(q)
    PROVE  StoreOK' /\ BindingsExpire'
<1> DEFINE s == req[q].session
<1>1. req[q] \in RequestState
  BY DEF RelayInv, Jobs
<1>2. \A p \in Request \ {q} : req'[p] = req[p]
  BY DEF SetTTL, LoseBinding, Disconnect, RelayInv, Jobs
<1>3. UNCHANGED << accounts, binding >>
  BY DEF SetTTL, LoseBinding, Disconnect
<1>4. CASE timeless' = timeless \ {s} /\ unset' = unset \ {s}
  BY <1>2, <1>3, <1>4 DEF RelayInv, StoreOK, BindingsExpire, accounts
<1>5. CASE timeless' = timeless /\ LoseTTL(q)
  <2>1. StoreOK'
    BY <1>3, <1>5 DEF RelayInv, StoreOK, LoseTTL, accounts
  <2>2. BindingsExpire'
    BY <1>2, <1>3, <1>5 DEF RelayInv, BindingsExpire, LoseTTL
  <2> QED
    BY <2>1, <2>2
<1> QED
  BY <1>4, <1>5 DEF SetTTL, LoseBinding, Disconnect

(* Every step is one request's own.                                        *)
LEMMA OtherJobs ==
    ASSUME RelayInv, NEW q \in Request, Arrive(q) \/ Step(q) \/ Disconnect(q)
    PROVE  \A p \in Request \ {q} : req'[p] = req[p]
<1> USE DEF RelayInv, Jobs
<1>1. CASE Arrive(q) \/ Disconnect(q) \/ Served(q)
  BY <1>1 DEF Arrive, Disconnect, Served
<1>2. CASE Lookup(q) \/ Check(q) \/ RenewSessionBinding(q) \/ SetTTL(q) \/ LoseBinding(q)
           \/ SetSessionBinding(q)
  BY <1>2 DEF Lookup, Check, RenewSessionBinding, SetTTL, LoseBinding, SetSessionBinding,
     WriteBinding
<1>3. CASE \/ SelectBound(q) \/ SelectPool(q)
           \/ (\E a \in Account : ScanRead(q, a)) \/ ScanEnd(q)
  BY <1>3 DEF SelectBound, SelectPool, ScanRead, ScanEnd
<1>4. CASE \/ TokenOK(q) \/ TokenFails(q) \/ TransportFails(q) \/ Handle(q) \/ LoseCooldown(q)
  BY <1>4 DEF TokenOK, TokenFails, TransportFails, Handle, LoseCooldown
<1>5. ASSUME NEW code \in Code, Respond(q, code)
      PROVE  \A p \in Request \ {q} : req'[p] = req[p]
  <2>1. PICK k : req' = [req EXCEPT ![q] = k]
    BY <1>5 DEF Respond
  <2> QED
    BY <2>1
<1> QED
  BY <1>1, <1>2, <1>3, <1>4, <1>5 DEF Step

LEMMA OtherSteps ==
    ASSUME RelayInv, NEW q \in Request, Arrive(q) \/ Step(q),
           ~ (RenewSessionBinding(q) \/ SetSessionBinding(q) \/ SetTTL(q) \/ LoseBinding(q))
    PROVE  StoreOK' /\ BindingsExpire'
<1>s. StoreOK
  BY DEF RelayInv
<1>o. \A p \in Request \ {q} : req'[p] = req[p]
  BY OtherJobs
<1>1. CASE Arrive(q)
  <2>1. req[q].phase # "expire" /\ UNCHANGED << accounts, bindings >>
    BY <1>1 DEF Arrive
  <2> QED
    BY <2>1, <1>s, <1>o, SameBindings DEF StoreOK, accounts, bindings
<1>2. CASE Handle(q)
  <2>1. req[q].phase # "expire" /\ UNCHANGED << pool, bindings >>
    BY <1>2 DEF Handle
  <2>2. active' \subseteq active /\ paused' \subseteq paused \cup pool
    BY <1>2 DEF Handle
  <2> QED
    BY <2>1, <2>2, <1>s, <1>o, SameBindings DEF StoreOK, bindings
<1>3. CASE Step(q) /\ ~ Handle(q)
  <2>1. req[q].phase # "expire" /\ UNCHANGED << accounts, bindings >>
    BY <1>3 DEF Step, Lookup, Check, SelectBound, SelectPool, ScanRead, ScanEnd, TokenOK,
       TokenFails, TransportFails, LoseCooldown, Respond, Served
  <2> QED
    BY <2>1, <1>s, <1>o, SameBindings DEF StoreOK, accounts, bindings
<1> QED
  BY <1>1, <1>2, <1>3

LEMMA Surroundings ==
    ASSUME RelayInv,
           \/ \E a \in Account : Change(a) \/ Delete(a)
           \/ \E s \in Session : Expire(s)
           \/ UNCHANGED vars
    PROVE  StoreOK' /\ BindingsExpire'
<1>1. ASSUME NEW a \in Account, Change(a) \/ Delete(a) PROVE StoreOK' /\ BindingsExpire'
  BY <1>1 DEF Change, Delete, RelayInv, StoreOK, BindingsExpire, bindings
<1>2. ASSUME NEW s \in Session, Expire(s) PROVE StoreOK' /\ BindingsExpire'
  BY <1>2 DEF Expire, RelayInv, StoreOK, BindingsExpire, accounts
<1>3. CASE UNCHANGED vars
  BY <1>3 DEF RelayInv, StoreOK, BindingsExpire, vars, accounts, bindings
<1> QED
  BY <1>1, <1>2, <1>3

LEMMA NextKeeps == RelayInv /\ [Next]_vars => RelayInv'
<1> SUFFICES ASSUME RelayInv, [Next]_vars PROVE RelayInv'
  OBVIOUS
<1>1. Jobs'
  BY NextJobs
<1>2. StoreOK' /\ BindingsExpire'
  BY BindingWritten, BindingTimed, OtherSteps, Surroundings DEF Next, Step
<1> QED
  BY <1>1, <1>2 DEF RelayInv

-----------------------------------------------------------------------------
(* The theorems.                                                           *)

THEOREM RelayInvariant == Spec => []RelayInv
BY InitJobs, NextKeeps, PTL DEF Spec

(* The state of requests, records and bindings keeps its type, and no      *)
(* request makes more attempts than the configuration allows.              *)
THEOREM TypeCorrect == Spec => []TypeOK
BY RelayInvariant, InvGivesType, PTL

(* A request is sent to one account again only after one of its first two  *)
(* 403s.                                                                   *)
THEOREM NoSecondAttempt == Spec => []AskedAgainOnlyAfterForbidden
<1>1. RelayInv => AskedAgainOnlyAfterForbidden
  <2> SUFFICES ASSUME RelayInv, NEW q \in Request, NEW i \in DOMAIN req[q].tries,
                      \/ req[q].acct = req[q].tries[i].acct
                      \/ \E k \in DOMAIN req[q].tries :
                            k > i /\ req[q].tries[k].acct = req[q].tries[i].acct
               PROVE  req[q].tries[i].forbidden /\ ForbiddenUpTo(req[q], i) <= 2
    BY Zenon DEF AskedAgainOnlyAfterForbidden
  <2>1. Sorted(req[q])
    BY DEF RelayInv, Jobs, JobInv
  <2>2. Spared(req[q].tries, i)
    BY <2>1, Zenon DEF Sorted
  <2>3. ForbiddenUpTo(req[q], i) = Cardinality(ForbiddenIn(req[q].tries, i))
    BY Zenon DEF ForbiddenUpTo, ForbiddenIn
  <2> QED
    BY <2>2, <2>3, Zenon DEF Spared
<1> QED
  BY <1>1, RelayInvariant, PTL

(* A request of a bound session is sent elsewhere only after its account,  *)
(* unless this has been deleted or its Get failed in the first selection.  *)
THEOREM NoSilentSwitch == Spec => []BoundTriedFirst
<1>1. RelayInv => BoundTriedFirst
  <2> SUFFICES ASSUME RelayInv, NEW q \in Request, req[q].phase = "sent",
                      req[q].bound \in pool \ {req[q].acct}, ~ req[q].missed
               PROVE  \E i \in DOMAIN req[q].tries : req[q].tries[i].acct = req[q].bound
    BY DEF BoundTriedFirst
  <2>1. Bound(req[q], pool) /\ Staged(req[q]) /\ req[q].tries \in Seq(Try)
    BY DEF RelayInv, Jobs, JobInv, RequestState
  <2>2. req[q].tries # << >> /\ req[q].tries[1].acct = req[q].bound
    BY <2>1, RelayAssumption DEF Bound, Staged
  <2>3. 1 \in DOMAIN req[q].tries
    BY <2>1, <2>2
  <2> QED
    BY <2>2, <2>3
<1> QED
  BY <1>1, RelayInvariant, PTL

(* No session binding is left without its TTL, but by the loss of the      *)
(* command that sets it.                                                   *)
THEOREM BindingsTimed == Spec => []BindingsExpire
BY RelayInvariant, PTL DEF RelayInv

(* A session leaves an account of the pool only by a request that did not  *)
(* know of this binding, could not read the account, or asked it in vain.  *)
THEOREM MovesForCause == Spec => BindingMovesForCause
<1> DEFINE Cause(s, q) ==
              /\ req[q].phase = "bind" /\ req[q].session = s
              /\ \/ req[q].bound # binding[s]
                 \/ req[q].missed
                 \/ binding[s] \notin pool
                 \/ \E i \in DOMAIN req[q].tries : req[q].tries[i].acct = binding[s]
           Move(s) == binding[s] \in Account /\ binding'[s] \in Account \ {binding[s]}
<1>1. ASSUME RelayInv, [Next]_vars, NEW s \in Session, Move(s)
      PROVE  \E q \in Request : Cause(s, q)
  <2>t. binding \in [Session -> Account \cup {NoAccount, Unnamed}]
    BY <1>1 DEF RelayInv, StoreOK
  <2>1. ASSUME NEW q \in Request, SetSessionBinding(q) PROVE Cause(s, q)
    <3>1. /\ req[q].phase = "bind"
          /\ binding' = [binding EXCEPT ![req[q].session] = req[q].acct]
      BY <2>1 DEF SetSessionBinding, WriteBinding
    <3>2. req[q].session = s /\ req[q].acct # binding[s]
      BY <1>1, <3>1, <2>t
    <3>3. /\ Bound(req[q], pool) /\ Staged(req[q]) /\ req[q].tries \in Seq(Try)
      BY <1>1 DEF RelayInv, Jobs, JobInv, RequestState
    <3>4. req[q].acct \in Account
      BY <3>1, <3>3 DEF Staged
    <3>5. CASE req[q].bound = binding[s] /\ binding[s] \in pool /\ ~ req[q].missed
      <4>1. req[q].tries # << >> /\ req[q].tries[1].acct = binding[s]
        BY <3>2, <3>3, <3>4, <3>5, RelayAssumption DEF Bound
      <4>2. 1 \in DOMAIN req[q].tries
        BY <3>3, <4>1
      <4> QED
        BY <3>1, <3>2, <4>1, <4>2
    <3> QED
      BY <3>1, <3>2, <3>5
  <2>2. ASSUME NEW q \in Request, RenewSessionBinding(q) PROVE FALSE
    <3>1. binding'[s] \in {binding[s], Unnamed}
      BY <2>2, <2>t, <1>1, RelayAssumption DEF RenewSessionBinding, WriteBinding
    <3> QED
      BY <3>1, <1>1, RelayAssumption
  <2>3. ASSUME NEW q \in Request, Step(q), ~ SetSessionBinding(q), ~ RenewSessionBinding(q)
        PROVE  UNCHANGED binding
    BY <2>3 DEF Step, Lookup, Check, SetTTL, LoseBinding, SelectBound, SelectPool, ScanRead,
       ScanEnd, TokenOK, TokenFails, TransportFails, Respond, Handle, LoseCooldown, Served,
       bindings
  <2>4. ASSUME NEW q \in Request, Arrive(q) \/ Disconnect(q) PROVE UNCHANGED binding
    BY <2>4 DEF Arrive, Disconnect, bindings
  <2>5. ASSUME NEW a \in Account, Change(a) \/ Delete(a) PROVE UNCHANGED binding
    BY <2>5 DEF Change, Delete, bindings
  <2>6. ASSUME NEW r \in Session, Expire(r) PROVE FALSE
    BY <2>6, <2>t, <1>1, RelayAssumption DEF Expire
  <2>7. CASE UNCHANGED vars
    BY <2>7, <1>1 DEF vars, bindings
  <2> QED
    BY <1>1, <2>1, <2>2, <2>3, <2>4, <2>5, <2>6, <2>7 DEF Next
<1>2. RelayInv /\ [Next]_vars => [\A s \in Session : Move(s) => \E q \in Request : Cause(s, q)]_vars
  BY <1>1
<1> QED
  BY <1>2, RelayInvariant, PTL DEF Spec, BindingMovesForCause

-----------------------------------------------------------------------------
(* No available account is hidden: what is so of every request while       *)
(* account a is available.                                                 *)
Steady(j, a) ==
    /\ j.phase # "done" => j.answer = "none"
    /\ j.phase = "scan" => a \in j.todo \cup j.seen \cup j.excluded \cup j.unread
    /\ NotTurnedAway(j, a)

AllSteady(a) == \A q \in Request : Steady(req[q], a)

LEMMA SteadyStep ==
    ASSUME RelayInv, NEW a \in Account, Available(a), NEW q \in Request,
           Steady(req[q], a), Arrive(q) \/ Step(q) \/ Disconnect(q)
    PROVE  Steady(req'[q], a)
<1> DEFINE j == req[q]
<1>j. j \in RequestState /\ JobInv(j, pool)
  BY DEF RelayInv, Jobs
<1>r. req \in [Request -> RequestState]
  BY DEF RelayInv, Jobs
<1>f. Fresh \in RequestState
  BY FreshJob
<1>1. CASE Arrive(q)
  <2>1. PICK s : req'[q] = [Fresh EXCEPT !.phase = IF s = NoSession THEN "select" ELSE "lookup",
                                        !.session = s]
    BY <1>1, <1>r DEF Arrive
  <2> QED
    BY <2>1 DEF Fresh, Steady, NotTurnedAway
<1>2. CASE Disconnect(q) \/ Served(q)
  <2>1. PICK x \in {"gone", "served"} : req'[q] = Over(x)
    BY <1>2, <1>r DEF Disconnect, Served
  <2>2. req'[q].phase = "done" /\ req'[q].answer = x
    BY <2>1 DEF Over, Fresh
  <2> QED
    BY <2>1, <2>2 DEF Steady, NotTurnedAway
<1>3. CASE Lookup(q)
  <2> DEFINE b == binding[j.session]
  <2>1. j.phase = "lookup" /\ j.answer = "none"
    BY <1>3 DEF Lookup, Steady
  <2>2. req'[q] \in {[j EXCEPT !.phase = "check", !.bound = b], [j EXCEPT !.phase = "select"]}
    BY <1>3, <1>r DEF Lookup
  <2> HIDE DEF b
  <2>3. req'[q].phase \in {"check", "select"} /\ req'[q].answer = "none"
    BY <2>1, <2>2, <1>j DEF RequestState
  <2> QED
    BY <2>3 DEF Steady, NotTurnedAway
<1>4. CASE Check(q)
  <2>1. req'[q] \in {[j EXCEPT !.phase = "renew"], Over("refused"),
                     [j EXCEPT !.phase = "select", !.bound = NoAccount]}
    BY <1>4, <1>r DEF Check
  <2>2. \/ req'[q].phase \in {"renew", "select"} /\ req'[q].answer = "none"
        \/ req'[q].phase = "done" /\ req'[q].answer = "refused"
    BY <2>1, <1>4, <1>j, <1>f DEF RequestState, Check, Steady, Over
  <2> QED
    BY <2>2 DEF Steady, NotTurnedAway
<1>5. CASE RenewSessionBinding(q) \/ SetSessionBinding(q) \/ SetTTL(q) \/ LoseBinding(q) \/ TokenOK(q)
  <2>1. PICK ph \in {"expire", "select", "stream", "sent"} : req'[q] = [j EXCEPT !.phase = ph]
    BY <1>5, <1>r DEF RenewSessionBinding, SetSessionBinding, WriteBinding, SetTTL, LoseBinding,
       TokenOK, AfterBinding
  <2>2. req'[q].phase = ph /\ req'[q].answer = "none"
    BY <2>1, <1>5, <1>j DEF RequestState, Steady, RenewSessionBinding, SetSessionBinding, SetTTL,
       LoseBinding, TokenOK
  <2> QED
    BY <2>2 DEF Steady, NotTurnedAway
<1>6. CASE SelectBound(q)
  <2>1. j.phase = "select" /\ j.answer = "none"
    BY <1>6 DEF SelectBound, Steady
  <2>2. \/ req'[q] = [j EXCEPT !.phase = "token", !.acct = j.bound]
        \/ req'[q] = [j EXCEPT !.phase = "done", !.answer = "held"] /\ j.bound # a
        \/ req'[q] = [j EXCEPT !.phase = "list", !.missed = j.bound \in pool]
    BY <1>6, <1>r DEF SelectBound
  <2>3. \/ req'[q].phase \in {"token", "list"} /\ req'[q].answer = "none"
        \/ req'[q].phase = "done" /\ req'[q].answer = "held" /\ req'[q].bound # a
    BY <2>1, <2>2, <1>j DEF RequestState
  <2> QED
    BY <2>3 DEF Steady, NotTurnedAway
<1>7. CASE SelectPool(q)
  <2>1. \/ req'[q] = [j EXCEPT !.phase = "scan", !.todo = pool]
        \/ req'[q] = [j EXCEPT !.phase = "done", !.answer = "unavailable", !.unread = pool]
    BY <1>7, <1>r DEF SelectPool, RequestState
  <2>2. j.answer = "none"
    BY <1>7 DEF SelectPool, Steady
  <2>3. \/ req'[q].phase = "scan" /\ req'[q].answer = "none" /\ req'[q].todo = pool
        \/ req'[q].phase = "done" /\ req'[q].answer = "unavailable" /\ req'[q].unread = pool
    BY <2>1, <2>2, <1>j DEF RequestState
  <2> QED
    BY <2>3 DEF Steady, NotTurnedAway, Available
<1>8. ASSUME NEW b \in Account, ScanRead(q, b) PROVE Steady(req'[q], a)
  <2>1. PICK read \in BOOLEAN :
          req'[q] = [j EXCEPT !.todo = j.todo \ {b},
                              !.seen = IF read /\ Available(b) /\ b \notin j.excluded
                                         THEN j.seen \cup {b} ELSE j.seen,
                              !.unread = IF read THEN j.unread ELSE j.unread \cup {b}]
    BY <1>8, <1>r DEF ScanRead, RequestState
  <2>2. /\ req'[q].phase = j.phase /\ req'[q].answer = j.answer /\ req'[q].todo = j.todo \ {b}
        /\ req'[q].seen = IF read /\ Available(b) /\ b \notin j.excluded
                            THEN j.seen \cup {b} ELSE j.seen
        /\ req'[q].unread = IF read THEN j.unread ELSE j.unread \cup {b}
        /\ req'[q].excluded = j.excluded
    BY <2>1, <1>j DEF RequestState
  <2>3. j.phase = "scan" /\ j.answer = "none"
    BY <1>8 DEF ScanRead, Steady
  <2>4. a \in j.todo \cup j.seen \cup j.excluded \cup j.unread
    BY <2>3 DEF Steady, NotTurnedAway
  <2>5. a \in req'[q].todo \cup req'[q].seen \cup req'[q].excluded \cup req'[q].unread
    BY <2>2, <2>4
  <2> QED
    BY <2>2, <2>3, <2>5 DEF Steady, NotTurnedAway
<1>9. CASE ScanEnd(q)
  <2>1. j.phase = "scan" /\ j.todo = {} /\ j.answer = "none"
    BY <1>9 DEF ScanEnd, Steady
  <2>2. CASE /\ j.seen = {}
             /\ req' = [req EXCEPT ![q].phase = "done", ![q].answer = "unavailable"]
    <3>1. a \in j.excluded \cup j.unread
      BY <2>1, <2>2 DEF Steady, NotTurnedAway
    <3>2. /\ req'[q].phase = "done" /\ req'[q].excluded = j.excluded
          /\ req'[q].unread = j.unread /\ req'[q].answer = "unavailable"
      BY <2>2, <1>r DEF RequestState
    <3> QED
      BY <3>1, <3>2 DEF Steady, NotTurnedAway
  <2>3. ASSUME NEW b \in Best(j),
               req' = [req EXCEPT ![q] = [@ EXCEPT !.phase = "token", !.acct = b,
                                                   !.seen = {}, !.unread = {}]]
        PROVE  Steady(req'[q], a)
    <3>1. req'[q].phase = "token" /\ req'[q].answer = "none"
      BY <2>1, <2>3, <1>r DEF RequestState
    <3> QED
      BY <3>1 DEF Steady, NotTurnedAway
  <2> QED
    BY <1>9, <2>2, <2>3 DEF ScanEnd
<1>10. CASE TokenFails(q) \/ TransportFails(q) \/ Handle(q) \/ LoseCooldown(q)
  <2>1. PICK o : req'[q] = Continue(j, o)
    <3>1. CASE TokenFails(q)
      BY <3>1, <1>r DEF TokenFails
    <3>2. CASE TransportFails(q)
      BY <3>2, <1>r DEF TransportFails
    <3>3. CASE Handle(q)
      BY <3>3, <1>r DEF Handle
    <3>4. CASE LoseCooldown(q)
      BY <3>4, <1>r DEF LoseCooldown
    <3> QED
      BY <1>10, <3>1, <3>2, <3>3, <3>4
  <2>2. j.phase \in {"token", "sent", "handle"}
    BY <1>10 DEF TokenFails, TransportFails, Handle, LoseCooldown
  <2>3. JobInv(req'[q], pool)
    BY <2>1, <2>2, ContinueJob
  <2>4. Len(j.tries) \in Nat /\ Len(j.tries) <= MaxRetryAccounts /\ MaxRetryAccounts \in Nat
    BY <1>j, <2>2, RelayAssumption DEF RequestState, JobInv, Limited
  <2>5. Len(Tried(j, o)) = Len(j.tries) + 1
    BY <1>j DEF Tried, RequestState
  <2>6. /\ req'[q].tries = Tried(j, o)
        /\ \/ Len(Tried(j, o)) <= MaxRetryAccounts /\ req'[q].phase = "select" /\ req'[q].answer = "none"
           \/ /\ Len(Tried(j, o)) > MaxRetryAccounts /\ req'[q].phase = "done"
              /\ req'[q].answer = "unavailable"
    BY <2>1, <2>4, <2>5, <1>j DEF Continue, RequestState
  <2> QED
    BY <2>4, <2>5, <2>6 DEF Steady, NotTurnedAway
<1>11. ASSUME NEW code \in Code, Respond(q, code) PROVE Steady(req'[q], a)
  <2>1. PICK ph \in {"stream", "bind"} :
          req'[q] \in {[j EXCEPT !.phase = "handle", !.code = code],
                       Over("forwarded"), [j EXCEPT !.phase = ph]}
    BY <1>11, <1>r DEF Respond
  <2>2. j.answer = "none" /\ Over("forwarded").phase = "done"
        /\ Over("forwarded").answer = "forwarded"
    BY <1>11 DEF Respond, Steady, Over, Fresh
  <2>3. \/ req'[q].phase \in {"handle", "stream", "bind"} /\ req'[q].answer = "none"
        \/ req'[q].phase = "done" /\ req'[q].answer = "forwarded"
    BY <2>1, <2>2, <1>j DEF RequestState
  <2> QED
    BY <2>3 DEF Steady, NotTurnedAway
<1> QED
  BY <1>1, <1>2, <1>3, <1>4, <1>5, <1>6, <1>7, <1>8, <1>9, <1>10, <1>11 DEF Step

LEMMA SteadyKept == Spec => \A a \in Account : []Available(a) => []AllSteady(a)
<1>1. ASSUME NEW a \in Account, Init PROVE AllSteady(a)
  BY <1>1 DEF Init, AllSteady, Steady, Fresh, NotTurnedAway
<1>2. ASSUME NEW a \in Account, RelayInv, Available(a), AllSteady(a), [Next]_vars
      PROVE  AllSteady(a)'
  <2>1. ASSUME NEW q \in Request, Arrive(q) \/ Step(q) \/ Disconnect(q), NEW p \in Request
        PROVE  Steady(req'[p], a)
    <3>1. CASE p = q
      BY <1>2, <2>1, <3>1, SteadyStep DEF AllSteady
    <3>2. CASE p # q
      <4>1. UNCHANGED req[p]
        BY <2>1, <3>2, <1>2, OtherJobs
      <4> QED
        BY <4>1, <1>2 DEF AllSteady
    <3> QED
      BY <3>1, <3>2
  <2>2. ASSUME UNCHANGED req PROVE AllSteady(a)'
    BY <2>2, <1>2 DEF AllSteady
  <2>3. CASE \/ \E b \in Account : Change(b) \/ Delete(b)
             \/ \E s \in Session : Expire(s)
             \/ UNCHANGED vars
    BY <2>2, <2>3 DEF Change, Delete, Expire, vars
  <2> QED
    BY <1>2, <2>1, <2>3 DEF Next, AllSteady
<1>3. ASSUME NEW a \in Account PROVE Spec => ([]Available(a) => []AllSteady(a))
  <2>1. RelayInv /\ Available(a) /\ AllSteady(a) /\ [Next]_vars => AllSteady(a)'
    BY <1>2
  <2>2. Init => AllSteady(a)
    BY <1>1
  <2> QED
    BY <2>1, <2>2, RelayInvariant, PTL DEF Spec
<1> QED
  BY <1>3

(* While an account is available, a request is turned away only if it had  *)
(* an attempt with it, could not read it, or has used its attempts, and is *)
(* never told that this account, as its session's, is not available; and   *)
(* none of a lower priority is selected in its place, unless it was        *)
(* excluded or could not be read.                                          *)
THEOREM SteadyReached == Spec => SteadyAccountIsReached
<1> DEFINE Reached(a) ==
              \A q \in Request : NotTurnedAway(req[q], a) /\ NotPassedOver(req[q], a)
<1>1. ASSUME NEW a \in Account PROVE Spec => ([]Available(a) => []Reached(a))
  <2>1. AllSteady(a) => Reached(a)
    <3> SUFFICES ASSUME AllSteady(a), NEW q \in Request PROVE NotPassedOver(req[q], a)
      BY DEF AllSteady, Steady
    <3> SUFFICES ASSUME req[q].phase = "scan", req[q].todo = {},
                        a \notin req[q].excluded \cup req[q].unread, NEW b \in Best(req[q])
                 PROVE  Priority[b] >= Priority[a]
      BY DEF NotPassedOver
    <3>1. a \in req[q].seen
      BY DEF AllSteady, Steady
    <3> QED
      BY <3>1 DEF Best
  <2>2. Spec => ([]Available(a) => []AllSteady(a))
    BY SteadyKept
  <2> HIDE DEF Reached
  <2> QED
    BY <2>1, <2>2, PTL
<1> QED
  BY <1>1 DEF SteadyAccountIsReached

-----------------------------------------------------------------------------
(* The retry loop ends.                                                    *)

(* What EveryStepCounts says of a step from j to k.                        *)
Closer(j, k) ==
    \/ k.phase = "done"
    \/ Len(k.tries) > Len(j.tries) /\ Len(k.tries) <= MaxRetryAccounts
    \/ k.tries = j.tries /\ StepsLeft(k) < StepsLeft(j)
    \/ /\ k.tries = j.tries /\ k.phase = j.phase
       /\ k.todo \subseteq j.todo /\ k.todo # j.todo

(* The way through the binding and the attempt, without the scan.          *)
LEMMA FurtherOn ==
    ASSUME NEW j, NEW k, k.tries = j.tries,
           \/ j.phase = "lookup" /\ k.phase \in {"check", "select"}
           \/ j.phase = "check" /\ k.phase \in {"renew", "select"}
           \/ j.phase = "renew" /\ k.phase = "expire" /\ k.acct = NoAccount
           \/ j.phase = "renew" /\ k.phase = "select"
           \/ j.phase = "expire" /\ j.acct = NoAccount /\ k.phase = "select"
           \/ j.phase = "expire" /\ j.acct # NoAccount /\ k.phase = "stream"
           \/ j.phase = "select" /\ k.phase \in {"token", "list", "scan"}
           \/ j.phase = "list" /\ k.phase = "scan"
           \/ j.phase = "scan" /\ k.phase = "token"
           \/ j.phase = "token" /\ k.phase = "sent"
           \/ j.phase = "sent" /\ k.phase \in {"handle", "bind", "stream"}
           \/ j.phase = "bind" /\ k.phase = "expire" /\ k.acct # NoAccount
           \/ j.phase = "bind" /\ k.phase = "stream"
    PROVE  Closer(j, k)
<1>1. StepsLeft(k) < StepsLeft(j)
  BY DEF StepsLeft
<1> QED
  BY <1>1 DEF Closer

LEMMA StepCounts ==
    ASSUME RelayInv, NEW q \in Request, Step(q) \/ Disconnect(q)
    PROVE  Closer(req[q], req'[q])
<1> DEFINE j == req[q]
<1>j. /\ j \in RequestState /\ JobInv(j, pool) /\ Staged(j)
      /\ req \in [Request -> RequestState]
  BY DEF RelayInv, Jobs, JobInv
<1>1. CASE Disconnect(q) \/ Served(q)
  <2>1. PICK x : req'[q] = Over(x)
    BY <1>1, <1>j DEF Disconnect, Served
  <2>2. Over(x).phase = "done"
    BY FreshJob DEF Over, RequestState
  <2> QED
    BY <2>1, <2>2 DEF Closer
<1>2. CASE Lookup(q)
  <2>1. PICK b : req'[q] \in {[j EXCEPT !.phase = "check", !.bound = b], [j EXCEPT !.phase = "select"]}
    BY <1>2, <1>j DEF Lookup
  <2>2. req'[q].phase \in {"check", "select"} /\ req'[q].tries = j.tries
    BY <2>1, <1>j DEF RequestState
  <2> QED
    BY <1>2, <2>2, FurtherOn DEF Lookup
<1>3. CASE Check(q)
  <2>1. req'[q] \in {[j EXCEPT !.phase = "renew"], Over("refused"),
                     [j EXCEPT !.phase = "select", !.bound = NoAccount]}
    BY <1>3, <1>j DEF Check
  <2>2. CASE req'[q] = Over("refused")
    BY <2>2, FreshJob DEF Over, RequestState, Closer
  <2>3. CASE req'[q] # Over("refused")
    <3>1. req'[q].phase \in {"renew", "select"} /\ req'[q].tries = j.tries
      BY <2>1, <2>3, <1>j DEF RequestState
    <3> QED
      BY <1>3, <3>1, FurtherOn DEF Check
  <2> QED
    BY <2>2, <2>3
<1>4. CASE RenewSessionBinding(q) \/ SetSessionBinding(q)
  <2>1. req'[q] = [j EXCEPT !.phase = "expire"] /\ j.phase \in {"renew", "bind"}
    BY <1>4, <1>j DEF RenewSessionBinding, SetSessionBinding, WriteBinding
  <2>2. req'[q].phase = "expire" /\ req'[q].tries = j.tries /\ req'[q].acct = j.acct
    BY <2>1, <1>j DEF RequestState
  <2>3. (j.phase = "renew" => j.acct = NoAccount) /\ (j.phase = "bind" => j.acct # NoAccount)
    BY <1>j, RelayAssumption DEF Staged
  <2> QED
    BY <2>1, <2>2, <2>3, FurtherOn
<1>5. CASE SetTTL(q) \/ LoseBinding(q)
  <2>1. PICK ph : /\ req'[q] = [j EXCEPT !.phase = ph] /\ j.phase \in {"renew", "bind", "expire"}
                  /\ ph = AfterBinding(j) \/ (ph = "expire" /\ j.phase # "expire")
    BY <1>5, <1>j DEF SetTTL, LoseBinding
  <2>2. req'[q].phase = ph /\ req'[q].tries = j.tries /\ req'[q].acct = j.acct
    BY <2>1, <1>j DEF RequestState
  <2>3. (j.phase = "renew" => j.acct = NoAccount) /\ (j.phase = "bind" => j.acct # NoAccount)
    BY <1>j, RelayAssumption DEF Staged
  <2> QED
    BY <2>1, <2>2, <2>3, FurtherOn DEF AfterBinding
<1>6. CASE SelectBound(q) \/ SelectPool(q)
  <2>1. \/ req'[q] = [j EXCEPT !.phase = "token", !.acct = j.bound] /\ j.phase = "select"
        \/ req'[q] = [j EXCEPT !.phase = "done", !.answer = "held"]
        \/ /\ req'[q] = [j EXCEPT !.phase = "list", !.missed = j.bound \in pool]
           /\ j.phase = "select"
        \/ req'[q] = [j EXCEPT !.phase = "scan", !.todo = pool] /\ j.phase \in {"select", "list"}
        \/ req'[q] = [j EXCEPT !.phase = "done", !.answer = "unavailable", !.unread = pool]
    BY <1>6, <1>j DEF SelectBound, SelectPool, RequestState
  <2>2. /\ req'[q].tries = j.tries
        /\ \/ req'[q].phase \in {"token", "list", "scan"} /\ j.phase = "select"
           \/ req'[q].phase = "scan" /\ j.phase = "list"
           \/ req'[q].phase = "done"
    BY <2>1, <1>j DEF RequestState
  <2>3. CASE req'[q].phase = "done"
    BY <2>3 DEF Closer
  <2>4. CASE req'[q].phase # "done"
    BY <2>2, <2>4, FurtherOn
  <2> QED
    BY <2>3, <2>4
<1>7. ASSUME NEW b \in Account, ScanRead(q, b) PROVE Closer(j, req'[q])
  <2>1. PICK read \in BOOLEAN :
          req'[q] = [j EXCEPT !.todo = j.todo \ {b},
                              !.seen = IF read /\ Available(b) /\ b \notin j.excluded
                                         THEN j.seen \cup {b} ELSE j.seen,
                              !.unread = IF read THEN j.unread ELSE j.unread \cup {b}]
    BY <1>7, <1>j DEF ScanRead, RequestState
  <2>2. /\ req'[q].phase = j.phase /\ req'[q].tries = j.tries
        /\ req'[q].todo = j.todo \ {b} /\ b \in j.todo
    BY <2>1, <1>7, <1>j DEF RequestState, ScanRead
  <2> QED
    BY <2>2 DEF Closer
<1>8. CASE ScanEnd(q)
  <2>1. PICK b : req'[q] \in {[j EXCEPT !.phase = "done", !.answer = "unavailable"],
                              [j EXCEPT !.phase = "token", !.acct = b, !.seen = {}, !.unread = {}]}
    BY <1>8, <1>j DEF ScanEnd
  <2>2. req'[q].phase \in {"token", "done"} /\ req'[q].tries = j.tries
    BY <2>1, <1>j DEF RequestState
  <2>3. CASE req'[q].phase = "done"
    BY <2>3 DEF Closer
  <2>4. CASE req'[q].phase = "token"
    BY <1>8, <2>2, <2>4, FurtherOn DEF ScanEnd
  <2> QED
    BY <2>2, <2>3, <2>4
<1>9. CASE TokenOK(q)
  <2>1. req'[q] = [j EXCEPT !.phase = "sent"]
    BY <1>9, <1>j DEF TokenOK
  <2>2. req'[q].phase = "sent" /\ req'[q].tries = j.tries
    BY <2>1, <1>j DEF RequestState
  <2> QED
    BY <1>9, <2>2, FurtherOn DEF TokenOK
<1>10. CASE TokenFails(q) \/ TransportFails(q) \/ Handle(q) \/ LoseCooldown(q)
  <2>1. PICK o : req'[q] = Continue(j, o)
    BY <1>10, <1>j DEF TokenFails, TransportFails, Handle, LoseCooldown
  <2>2. Len(Tried(j, o)) = Len(j.tries) + 1 /\ Len(j.tries) \in Nat
    BY <1>j DEF Tried, RequestState
  <2>3. /\ req'[q].tries = Tried(j, o)
        /\ Len(Tried(j, o)) <= MaxRetryAccounts \/ req'[q].phase = "done"
    BY <2>1, <2>2, <1>j DEF Continue, RequestState
  <2> QED
    BY <2>2, <2>3 DEF Closer
<1>11. ASSUME NEW code \in Code, Respond(q, code) PROVE Closer(j, req'[q])
  <2>1. PICK ph \in {"stream", "bind"} :
          req'[q] \in {[j EXCEPT !.phase = "handle", !.code = code],
                       Over("forwarded"), [j EXCEPT !.phase = ph]}
    BY <1>11, <1>j DEF Respond
  <2>2. \/ req'[q].phase = "done"
        \/ req'[q].phase \in {"handle", "stream", "bind"} /\ req'[q].tries = j.tries
    BY <2>1, <1>j DEF RequestState, Over, Fresh
  <2>3. CASE req'[q].phase = "done"
    BY <2>3 DEF Closer
  <2>4. CASE req'[q].phase # "done"
    BY <1>11, <2>2, <2>4, FurtherOn DEF Respond
  <2> QED
    BY <2>3, <2>4
<1> QED
  BY <1>1, <1>2, <1>3, <1>4, <1>5, <1>6, <1>7, <1>8, <1>9, <1>10, <1>11 DEF Step

(* No handler goes round in a loop.                                        *)
THEOREM LoopEnds == Spec => EveryStepCounts
<1> DEFINE Counts(q) == LET j == req[q]  k == req'[q] IN
              k # j /\ j.phase \notin {"idle", "done"}
              => \/ k.phase = "done"
                 \/ Len(k.tries) > Len(j.tries) /\ Len(k.tries) <= MaxRetryAccounts
                 \/ k.tries = j.tries /\ StepsLeft(k) < StepsLeft(j)
                 \/ /\ k.tries = j.tries /\ k.phase = j.phase
                    /\ k.todo \subseteq j.todo /\ k.todo # j.todo
<1>1. ASSUME RelayInv, [Next]_vars, NEW q \in Request,
             req'[q] # req[q], req[q].phase \notin {"idle", "done"}
      PROVE  Closer(req[q], req'[q])
  <2>1. ASSUME NEW p \in Request, Arrive(p) \/ Step(p) \/ Disconnect(p)
        PROVE  Closer(req[q], req'[q])
    <3>1. p = q
      BY <1>1, <2>1, OtherJobs
    <3>2. ~ Arrive(q)
      BY <1>1 DEF Arrive
    <3> QED
      BY <1>1, <2>1, <3>1, <3>2, StepCounts
  <2>2. CASE \/ \E b \in Account : Change(b) \/ Delete(b)
             \/ \E s \in Session : Expire(s)
             \/ UNCHANGED vars
    BY <1>1, <2>2 DEF Change, Delete, Expire, vars
  <2> QED
    BY <1>1, <2>1, <2>2 DEF Next
<1>2. ASSUME RelayInv, [Next]_vars PROVE \A q \in Request : Counts(q)
  BY <1>1, <1>2, Zenon DEF Closer
<1>3. RelayInv /\ [Next]_vars => [\A q \in Request : Counts(q)]_vars
  BY <1>2
<1> QED
  BY <1>3, RelayInvariant, PTL DEF Spec, EveryStepCounts
=============================================================================
