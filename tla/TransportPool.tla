--------------------------- MODULE TransportPool ---------------------------
(***************************************************************************)
(* The transport manager's pool of HTTP transports, under requests and     *)
(* token refreshes of several accounts and its own cleanup goroutine.  A   *)
(* mutex makes getTransport and cleanup atomic; the transport handed out   *)
(* is used after the mutex is released, and may have left the pool by      *)
(* then.                                                                   *)
(***************************************************************************)
EXTENDS Naturals, FiniteSets

CONSTANTS
    Account,
    Request,      \* relay requests and token refreshes in progress
    Host,         \* a proxy type and host
    Port, User,
    ProxyOf,      \* the accounts' proxies, from Redis
    NoProxy,      \* an account without one
    Direct,       \* the pool's key for these
    IdleTimeout,  \* 5 minutes, in the unit of the clock
    MaxTime       \* BOUND: the clock stops here

Proxy == [ host : Host, port : Port, user : User ]

ASSUME PoolAssumption ==
    /\ NoProxy \notin Proxy
    /\ ProxyOf \in [Account -> Proxy \cup {NoProxy}]
    /\ Direct \notin [host : Host, port : Port]
    /\ IdleTimeout \in Nat /\ MaxTime \in Nat

VARIABLES
    entries,  \* the pool
    req,      \* what each request last got
    built,    \* how many transports have been built
    closed,   \* has Close been called?
    now

vars == << entries, req, built, closed, now >>

(* Mutant: the port is forgotten.                                          *)
KeyByHost(a) ==
    IF ProxyOf[a] = NoProxy THEN Direct ELSE [host |-> ProxyOf[a].host]

transportKey(a) ==
    IF ProxyOf[a] = NoProxy THEN Direct
    ELSE [host |-> ProxyOf[a].host, port |-> ProxyOf[a].port]

(* A transport dials through the proxy it was built with.                  *)
Transport == [ id : Nat, proxy : Proxy \cup {NoProxy} ]

(* Entries are kept as a set, with at most one for a key.                  *)
Entry == [ key : { transportKey(a) : a \in Account }, transport : Transport,
           lastUsed : Nat ]

NoRequest == [ used |-> FALSE ]

TypeOK ==
    /\ entries \subseteq Entry
    /\ \A d, e \in entries : d.key = e.key => d = e
    /\ req \in [Request -> {NoRequest} \cup
                           [used : {TRUE}, acct : Account, transport : Transport, at : Nat]]
    /\ built \in Nat /\ now \in Nat /\ closed \in BOOLEAN

Init ==
    /\ entries = {}
    /\ req = [q \in Request |-> NoRequest]
    /\ built = 0
    /\ closed = FALSE
    /\ now = 0

Holds(q, a, t) ==
    req' = [req EXCEPT ![q] = [used |-> TRUE, acct |-> a, transport |-> t, at |-> now]]

(* Mutant: finding a transport does not count as using it.                 *)
ReuseTransportUndated(q, a) ==
    \E e \in entries :
       /\ e.key = transportKey(a)
       /\ Holds(q, a, e.transport)
       /\ UNCHANGED << entries, built, closed, now >>

(* getTransport for a key that has an entry.                               *)
ReuseTransport(q, a) ==
    \E e \in entries :
       /\ e.key = transportKey(a)
       /\ entries' = (entries \ {e}) \cup {[e EXCEPT !.lastUsed = now]}
       /\ Holds(q, a, e.transport)
       /\ UNCHANGED << built, closed, now >>

(* Mutant: the dialer is not given the proxy's user.                       *)
buildWithoutUser(a) ==
    [ id |-> built,
      proxy |-> IF ProxyOf[a] = NoProxy THEN NoProxy
                ELSE [host |-> ProxyOf[a].host, port |-> ProxyOf[a].port] ]

buildTransport(a) == [id |-> built, proxy |-> ProxyOf[a]]

(* getTransport for a key that has none.                                   *)
BuildTransport(q, a) ==
    LET t == buildTransport(a) IN
    /\ \A e \in entries : e.key # transportKey(a)
    /\ entries' = entries \cup {[key |-> transportKey(a), transport |-> t, lastUsed |-> now]}
    /\ built' = built + 1
    /\ Holds(q, a, t)
    /\ UNCHANGED << closed, now >>

(* Eviction closes idle connections only: who holds the transport may go   *)
(* on using it.                                                            *)
Cleanup ==
    /\ entries' = { e \in entries : e.lastUsed + IdleTimeout >= now }
    /\ UNCHANGED << req, built, closed, now >>

(* Close, when the process ends.  Nothing stops getTransport from building *)
(* transports afterwards.                                                  *)
Close ==
    /\ entries' = {}
    /\ closed' = TRUE
    /\ UNCHANGED << req, built, now >>

Tick ==
    /\ now < MaxTime
    /\ now' = now + 1
    /\ UNCHANGED << entries, req, built, closed >>

Next ==
    \/ \E q \in Request, a \in Account : ReuseTransport(q, a) \/ BuildTransport(q, a)
    \/ Cleanup
    \/ Close
    \/ Tick

Spec == Init /\ [][Next]_vars

-----------------------------------------------------------------------------
(* A request is dialed through the address of its account's proxy, and     *)
(* directly only if the account has none, although the transport may have  *)
(* been built for another account.                                         *)
RightRoute ==
    \A q \in Request : req[q].used =>
       LET own == ProxyOf[req[q].acct]
           via == req[q].transport.proxy
       IN  IF own = NoProxy THEN via = NoProxy
           ELSE via # NoProxy /\ via.host = own.host /\ via.port = own.port

(* Within the idle timeout after a use, the same route keeps its transport *)
(* and with it its connections, in whatever order uses and cleanups go,    *)
(* until the pool is closed.                                               *)
KeptWhileRecent ==
    ~ closed => \A q, r \in Request :
       /\ req[q].used /\ req[r].used
       /\ transportKey(req[q].acct) = transportKey(req[r].acct)
       /\ req[q].at <= req[r].at /\ req[r].at <= req[q].at + IdleTimeout
       => req[q].transport = req[r].transport

=============================================================================
