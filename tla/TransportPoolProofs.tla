------------------------ MODULE TransportPoolProofs ------------------------
(***************************************************************************)
(* Theorems about TransportPool, for any accounts, proxies and requests,   *)
(* and any idle timeout.                                                   *)
(***************************************************************************)
EXTENDS TransportPool, TLAPS

-----------------------------------------------------------------------------
(* The inductive invariant.  Routed: what is pooled under a key, or was    *)
(* handed out for an account, was built for some account with this key.    *)
(* Recent: within the idle timeout after a use, the transport is still     *)
(* pooled under the key of its user, with a date that is not older, while  *)
(* nobody has closed the pool.                                             *)
BuiltFor(key, t) ==
    \E b \in Account : key = transportKey(b) /\ t.proxy = ProxyOf[b]

Routed ==
    /\ \A e \in entries : BuiltFor(e.key, e.transport)
    /\ \A q \in Request :
          req[q].used => BuiltFor(transportKey(req[q].acct), req[q].transport)

Recent ==
    ~ closed => \A q \in Request : req[q].used =>
       /\ req[q].at <= now
       /\ now <= req[q].at + IdleTimeout
          => \E e \in entries : /\ e.key = transportKey(req[q].acct)
                                /\ e.transport = req[q].transport
                                /\ e.lastUsed >= req[q].at

PoolInv == TypeOK /\ Routed /\ Recent /\ KeptWhileRecent

Used(a, t, at) == [used |-> TRUE, acct |-> a, transport |-> t, at |-> at]

LEMMA InitPool == Init => PoolInv
<1> SUFFICES ASSUME Init PROVE PoolInv
  OBVIOUS
<1>1. TypeOK
  BY DEF Init, TypeOK
<1>2. \A q \in Request : ~ req[q].used
  BY DEF Init, NoRequest
<1>3. Routed /\ Recent /\ KeptWhileRecent
  BY <1>2 DEF Init, Routed, Recent, KeptWhileRecent
<1> QED
  BY <1>1, <1>3 DEF PoolInv

Uses == [used : {TRUE}, acct : Account, transport : Transport, at : Nat]

LEMMA UsedType ==
    ASSUME TypeOK, NEW q \in Request, req[q].used
    PROVE  req[q].acct \in Account /\ req[q].at \in Nat
<1>1. req[q] = NoRequest \/ req[q] \in Uses
  BY DEF TypeOK, Uses
<1>2. CASE req[q] = NoRequest
  BY <1>2 DEF NoRequest
<1>3. CASE req[q] \in Uses
  BY <1>3 DEF Uses
<1> QED
  BY <1>1, <1>2, <1>3

(* What handing out a transport does to the requests.                      *)
LEMMA HandedOut ==
    ASSUME PoolInv, NEW q \in Request, NEW a \in Account, NEW t \in Transport,
           Holds(q, a, t)
    PROVE  /\ req'[q] = Used(a, t, now)
           /\ \A r \in Request \ {q} : req'[r] = req[r]
           /\ req' \in [Request -> {NoRequest} \cup Uses]
BY DEF PoolInv, TypeOK, Holds, Used, Uses

(* A request that gets transport t while the pool has it, under the key of *)
(* its account and dated now, leaves the invariant as it is, provided the  *)
(* pool still has what it had, and the one transport of that key.          *)
LEMMA Handing ==
    ASSUME PoolInv, NEW q \in Request, NEW a \in Account, NEW t \in Transport,
           Holds(q, a, t), now' = now, closed' = closed,
           NEW f \in entries', f.key = transportKey(a), f.transport = t,
           f.lastUsed = now, BuiltFor(transportKey(a), t),
           \A e \in entries' : e # f => e \in entries,
           \A e \in entries : IF e.key = transportKey(a) THEN e.transport = t
                              ELSE e \in entries'
    PROVE  Routed' /\ Recent' /\ KeptWhileRecent'
<1>h. /\ req'[q] = Used(a, t, now)
      /\ \A r \in Request \ {q} : req'[r] = req[r]
  BY HandedOut
<1>t. now \in Nat /\ IdleTimeout \in Nat /\ \A r \in Request : req[r].used => req[r].at \in Nat
  BY PoolAssumption, UsedType DEF PoolInv, TypeOK
<1>i. Routed /\ Recent /\ KeptWhileRecent
  BY DEF PoolInv
<1>1. Routed'
  BY <1>h, <1>i DEF Routed, Used, BuiltFor, transportKey
<1>2. Recent'
  <2> SUFFICES ASSUME ~ closed, NEW r \in Request, req'[r].used
               PROVE  /\ req'[r].at <= now
                      /\ now <= req'[r].at + IdleTimeout
                         => \E e \in entries' : /\ e.key = transportKey(req'[r].acct)
                                                /\ e.transport = req'[r].transport
                                                /\ e.lastUsed >= req'[r].at
    BY DEF Recent, transportKey
  <2>1. CASE r = q
    BY <2>1, <1>h, <1>t DEF Used
  <2>2. CASE r # q
    <3>1. req'[r] = req[r] /\ req[r].at <= now /\ req[r].at \in Nat
      BY <2>2, <1>h, <1>t, <1>i DEF Recent
    <3>2. ASSUME now <= req[r].at + IdleTimeout
          PROVE  \E e \in entries' : /\ e.key = transportKey(req[r].acct)
                                     /\ e.transport = req[r].transport
                                     /\ e.lastUsed >= req[r].at
      <4>1. PICK e \in entries : /\ e.key = transportKey(req[r].acct)
                                 /\ e.transport = req[r].transport
                                 /\ e.lastUsed >= req[r].at
        BY <3>1, <3>2, <1>i DEF Recent
      <4>2. CASE e.key = transportKey(a)
        BY <4>1, <4>2, <3>1
      <4>3. CASE e.key # transportKey(a)
        BY <4>1, <4>3
      <4> QED
        BY <4>2, <4>3
    <3> QED
      BY <3>1, <3>2
  <2> QED
    BY <2>1, <2>2
<1>3. KeptWhileRecent'
  <2> DEFINE Near(x, y) == /\ x.used /\ y.used
                           /\ transportKey(x.acct) = transportKey(y.acct)
                           /\ x.at <= y.at /\ y.at <= x.at + IdleTimeout
  <2> SUFFICES ASSUME ~ closed,
                      NEW r \in Request, NEW s \in Request, Near(req'[r], req'[s])
               PROVE  req'[r].transport = req'[s].transport
    BY DEF KeptWhileRecent, transportKey
  <2>1. ASSUME NEW x \in Request, x # q, req[x].used, now <= req[x].at + IdleTimeout,
               transportKey(req[x].acct) = transportKey(a)
        PROVE  req[x].transport = t
    <3>1. PICK e \in entries : /\ e.key = transportKey(req[x].acct)
                               /\ e.transport = req[x].transport
      BY <2>1, <1>i DEF Recent
    <3> QED
      BY <3>1, <2>1
  <2>2. CASE r = q /\ s = q
    BY <2>2
  <2>3. CASE r = q /\ s # q
    <3>1. req'[s] = req[s] /\ req[s].used /\ req[s].at \in Nat /\ req[s].at <= now
      BY <2>3, <1>h, <1>t, <1>i DEF Recent
    <3>2. transportKey(req[s].acct) = transportKey(a) /\ now <= req[s].at
      BY <2>3, <3>1, <1>h DEF Used
    <3> QED
      BY <2>1, <2>3, <3>1, <3>2, <1>h, <1>t DEF Used
  <2>4. CASE r # q /\ s = q
    <3>1. req'[r] = req[r] /\ req[r].used
      BY <2>4, <1>h
    <3>2. transportKey(req[r].acct) = transportKey(a) /\ now <= req[r].at + IdleTimeout
      BY <2>4, <3>1, <1>h DEF Used
    <3> QED
      BY <2>1, <2>4, <3>1, <3>2, <1>h DEF Used
  <2>5. CASE r # q /\ s # q
    BY <2>5, <1>h, <1>i DEF KeptWhileRecent
  <2> QED
    BY <2>2, <2>3, <2>4, <2>5
<1> QED
  BY <1>1, <1>2, <1>3

LEMMA StepPool == PoolInv /\ [Next]_vars => PoolInv'
<1> SUFFICES ASSUME PoolInv, [Next]_vars PROVE PoolInv'
  OBVIOUS
<1>t. /\ entries \subseteq Entry /\ built \in Nat /\ now \in Nat /\ IdleTimeout \in Nat
      /\ closed \in BOOLEAN
      /\ \A d, e \in entries : d.key = e.key => d = e
  BY PoolAssumption DEF PoolInv, TypeOK
<1>u. \A r \in Request : req[r].used => req[r].at \in Nat
  BY UsedType DEF PoolInv
<1>i. TypeOK /\ Routed /\ Recent /\ KeptWhileRecent
  BY DEF PoolInv
<1>1. ASSUME NEW q \in Request, NEW a \in Account, ReuseTransport(q, a) PROVE PoolInv'
  <2>1. PICK e \in entries :
           /\ e.key = transportKey(a)
           /\ entries' = (entries \ {e}) \cup {[e EXCEPT !.lastUsed = now]}
           /\ Holds(q, a, e.transport)
           /\ UNCHANGED << built, closed, now >>
    BY <1>1 DEF ReuseTransport
  <2> DEFINE f == [e EXCEPT !.lastUsed = now]
  <2>2. /\ f \in Entry /\ f.key = e.key /\ f.transport = e.transport /\ f.lastUsed = now
        /\ e.transport \in Transport
    BY <2>1, <1>t DEF Entry
  <2> HIDE DEF f
  <2>3. entries' = (entries \ {e}) \cup {f}
    BY <2>1 DEF f
  <2>4. TypeOK'
    <3>1. entries' \subseteq Entry /\ \A c, d \in entries' : c.key = d.key => c = d
      BY <2>1, <2>2, <2>3, <1>t
    <3> QED
      BY <3>1, <2>1, <2>2, <1>t, HandedOut DEF TypeOK, Uses
  <2>5. BuiltFor(transportKey(a), e.transport)
    BY <2>1, <1>i DEF Routed
  <2>6. Routed' /\ Recent' /\ KeptWhileRecent'
    <3>1. \A d \in entries : IF d.key = transportKey(a) THEN d.transport = e.transport
                             ELSE d \in entries'
      BY <2>1, <2>3, <1>t
    <3>2. f \in entries' /\ \A d \in entries' : d # f => d \in entries
      BY <2>3
    <3> QED
      BY <2>1, <2>2, <2>5, <3>1, <3>2, Handing
  <2> QED
    BY <2>4, <2>6 DEF PoolInv
<1>2. ASSUME NEW q \in Request, NEW a \in Account, BuildTransport(q, a) PROVE PoolInv'
  <2> DEFINE t == [id |-> built, proxy |-> ProxyOf[a]]
             f == [key |-> transportKey(a), transport |-> t, lastUsed |-> now]
  <2>1. /\ \A e \in entries : e.key # transportKey(a)
        /\ entries' = entries \cup {f}
        /\ built' = built + 1 /\ closed' = closed /\ now' = now
        /\ Holds(q, a, t)
    BY <1>2 DEF BuildTransport, buildTransport
  <2>2. t \in Transport /\ BuiltFor(transportKey(a), t)
    BY <1>t, PoolAssumption DEF Transport, BuiltFor
  <2>3. f \in Entry /\ f.key = transportKey(a) /\ f.transport = t /\ f.lastUsed = now
    BY <2>2, <1>t DEF Entry
  <2> HIDE DEF t, f
  <2>4. TypeOK'
    <3>1. entries' \subseteq Entry /\ \A c, d \in entries' : c.key = d.key => c = d
      BY <2>1, <2>3, <1>t
    <3>2. req' \in [Request -> {NoRequest} \cup Uses]
      BY <2>1, <2>2, HandedOut
    <3>3. built' \in Nat /\ now' \in Nat /\ closed' \in BOOLEAN
      BY <2>1, <1>t
    <3> QED
      BY <3>1, <3>2, <3>3 DEF TypeOK, Uses
  <2>5. Routed' /\ Recent' /\ KeptWhileRecent'
    BY <2>1, <2>2, <2>3, Handing
  <2> QED
    BY <2>4, <2>5 DEF PoolInv
<1>3. CASE Cleanup
  <2>1. /\ entries' = { e \in entries : e.lastUsed + IdleTimeout >= now }
        /\ req' = req /\ built' = built /\ closed' = closed /\ now' = now
    BY <1>3 DEF Cleanup
  <2>2. TypeOK'
    BY <2>1, <1>i DEF TypeOK
  <2>3. Routed' /\ KeptWhileRecent'
    BY <2>1, <1>i DEF Routed, BuiltFor, transportKey, KeptWhileRecent
  <2>4. ASSUME ~ closed, NEW q \in Request, req[q].used
        PROVE  /\ req[q].at <= now
               /\ now <= req[q].at + IdleTimeout
                  => \E e \in entries' : /\ e.key = transportKey(req[q].acct)
                                         /\ e.transport = req[q].transport
                                         /\ e.lastUsed >= req[q].at
    <3>1. \A e \in entries : e.lastUsed \in Nat
      BY <1>t DEF Entry
    <3> QED
      BY <2>1, <2>4, <3>1, <1>t, <1>u, <1>i DEF Recent
  <2> QED
    BY <2>1, <2>2, <2>3, <2>4 DEF PoolInv, Recent, transportKey
<1>4. CASE Tick
  <2>1. /\ now' = now + 1 /\ entries' = entries /\ req' = req /\ built' = built
        /\ closed' = closed
    BY <1>4 DEF Tick
  <2>2. TypeOK' /\ Routed' /\ KeptWhileRecent'
    <3>1. TypeOK'
      BY <2>1, <1>t, <1>i, now + 1 \in Nat DEF TypeOK, Entry, transportKey
    <3>2. Routed'
      BY <2>1, <1>i DEF Routed, BuiltFor, transportKey
    <3>3. KeptWhileRecent'
      BY <2>1, <1>i DEF KeptWhileRecent, transportKey
    <3> QED
      BY <3>1, <3>2, <3>3
  <2>3. Recent'
    BY <2>1, <1>t, <1>u, <1>i DEF Recent, transportKey
  <2> QED
    BY <2>2, <2>3 DEF PoolInv
<1>5. CASE Close
  <2>1. entries' = {} /\ closed' = TRUE /\ req' = req /\ built' = built /\ now' = now
    BY <1>5 DEF Close
  <2> QED
    BY <2>1, <1>i
    DEF PoolInv, TypeOK, Routed, BuiltFor, transportKey, Recent, KeptWhileRecent
<1>6. CASE UNCHANGED vars
  BY <1>6, <1>i
  DEF vars, PoolInv, TypeOK, Routed, BuiltFor, transportKey, Recent, KeptWhileRecent
<1> QED
  BY <1>1, <1>2, <1>3, <1>4, <1>5, <1>6 DEF Next

LEMMA PoolAlways == Spec => []PoolInv
BY InitPool, StepPool, PTL DEF Spec

-----------------------------------------------------------------------------
(* Accounts with the same key have proxies at the same address, or none.   *)
LEMMA SameKeySameRoute ==
    ASSUME NEW a \in Account, NEW b \in Account, transportKey(a) = transportKey(b)
    PROVE  IF ProxyOf[a] = NoProxy THEN ProxyOf[b] = NoProxy
           ELSE /\ ProxyOf[b] # NoProxy
                /\ ProxyOf[b].host = ProxyOf[a].host
                /\ ProxyOf[b].port = ProxyOf[a].port
<1> DEFINE Address(c) == [host |-> ProxyOf[c].host, port |-> ProxyOf[c].port]
<1>1. \A c \in Account : ProxyOf[c] # NoProxy => Address(c) \in [host : Host, port : Port]
  BY PoolAssumption DEF Proxy
<1>2. Direct \notin [host : Host, port : Port]
  BY PoolAssumption
<1> QED
  BY <1>1, <1>2 DEF transportKey

(* The pool and the requests keep their types, with one entry for a key.   *)
THEOREM TypeCorrect == Spec => []TypeOK
<1>1. PoolInv => TypeOK
  BY DEF PoolInv
<1> QED
  BY <1>1, PoolAlways, PTL

(* A shared transport leads through the proxy address of every account     *)
(* that gets it.                                                           *)
THEOREM RouteIsRight == Spec => []RightRoute
<1>1. PoolInv => RightRoute
  <2> SUFFICES ASSUME PoolInv, NEW q \in Request, req[q].used
               PROVE  LET own == ProxyOf[req[q].acct]
                          via == req[q].transport.proxy
                      IN  IF own = NoProxy THEN via = NoProxy
                          ELSE via # NoProxy /\ via.host = own.host /\ via.port = own.port
    BY DEF RightRoute
  <2>1. PICK b \in Account : /\ transportKey(req[q].acct) = transportKey(b)
                             /\ req[q].transport.proxy = ProxyOf[b]
    BY DEF PoolInv, Routed, BuiltFor
  <2>2. req[q].acct \in Account
    BY UsedType DEF PoolInv
  <2> QED
    BY <2>1, <2>2, SameKeySameRoute
<1> QED
  BY <1>1, PoolAlways, PTL

(* Within the idle timeout after a use a route keeps its transport, until  *)
(* the pool is closed.                                                     *)
THEOREM RecentIsKept == Spec => []KeptWhileRecent
<1>1. PoolInv => KeptWhileRecent
  BY DEF PoolInv
<1> QED
  BY <1>1, PoolAlways, PTL
=============================================================================
