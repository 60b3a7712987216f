-------------------------- MODULE StainlessBinding --------------------------
(***************************************************************************)
(* The Stainless fingerprint of one account: BindStainlessHeaders captures *)
(* the SDK headers of the first request that has any and replays them on   *)
(* the others.  The fingerprint is a Redis string without a TTL; reading   *)
(* it, setting it if absent, and reading it again are separate steps of    *)
(* the requests that run concurrently for the account.                     *)
(*                                                                         *)
(* A set of headers is a function from the bound keys to values; NoValue   *)
(* is a header that is absent, or empty, which the code takes for absent.  *)
(* The pass-through headers are not bound and are left out.                *)
(***************************************************************************)
EXTENDS Naturals, FiniteSets

CONSTANTS
    Request,    \* requests in progress at the same time
    Key,        \* boundStainlessKeys
    Value,      \* values of these headers
    NoValue,
    MaxFaults   \* BOUND: failing Redis commands

ASSUME StainlessAssumption == NoValue \notin Value /\ MaxFaults \in Nat

Headers == [Key -> Value \cup {NoValue}]
Blank   == [k \in Key |-> NoValue]

VARIABLES
    stored,  \* the fingerprint in Redis; Blank if there is none
    req,     \* the requests: where they are, what they came with, what they send
    faults   \* Redis commands that have failed

vars == << stored, req, faults >>

RequestState == [ phase : {"idle", "read", "capture", "reread", "done"},
                  in    : Headers,
                  out   : Headers ]

Fresh == [ phase |-> "idle", in |-> Blank, out |-> Blank ]

TypeOK ==
    /\ stored \in Headers
    /\ req \in [Request -> RequestState]
    /\ faults \in 0..MaxFaults

Init ==
    /\ stored = Blank
    /\ req = [q \in Request |-> Fresh]
    /\ faults = 0

(* Mutant: the stored headers replace the outgoing ones.                   *)
ApplyStoredOnly(f, out) == [k \in { x \in Key : f[x] # NoValue } |-> f[k]]

(* outHeaders.Set for every header of f.                                   *)
Apply(f, out) == [k \in Key |-> IF f[k] = NoValue THEN out[k] ELSE f[k]]

(* RemoveAllStainless has emptied the outgoing headers.                    *)
Arrive(q) ==
    /\ req[q].phase \in {"idle", "done"}
    /\ \E in \in Headers : req' = [req EXCEPT ![q] = [Fresh EXCEPT !.phase = "read",
                                                                   !.in = in]]
    /\ UNCHANGED << stored, faults >>

(* The request goes on without a fingerprint: it captures its own headers, *)
(* if it has any.                                                          *)
NoneFound(q) ==
    [req EXCEPT ![q].phase = IF req[q].in = Blank THEN "done" ELSE "capture",
                ![q].out = req[q].in]

Read(q) ==
    /\ req[q].phase = "read"
    /\ req' = IF stored = Blank THEN NoneFound(q)
              ELSE [req EXCEPT ![q].phase = "done", ![q].out = Apply(stored, @)]
    /\ UNCHANGED << stored, faults >>

(* Mutant: the request that lost the race keeps its own headers.           *)
CaptureOrGoOn(q) ==
    /\ req[q].phase = "capture"
    /\ stored' = IF stored = Blank THEN req[q].in ELSE stored
    /\ req' = [req EXCEPT ![q].phase = "done"]
    /\ UNCHANGED faults

(* SETNX: who is too late reads what is there.                             *)
Capture(q) ==
    /\ req[q].phase = "capture"
    /\ \/ /\ stored = Blank
          /\ stored' = req[q].in
          /\ req' = [req EXCEPT ![q].phase = "done"]
       \/ /\ stored # Blank
          /\ req' = [req EXCEPT ![q].phase = "reread"]
          /\ UNCHANGED stored
    /\ UNCHANGED faults

(* The stored headers go over the captured ones, which have been set.      *)
Reread(q) ==
    /\ req[q].phase = "reread"
    /\ req' = [req EXCEPT ![q].phase = "done", ![q].out = Apply(stored, @)]
    /\ UNCHANGED << stored, faults >>

(* A command fails: a read finds nothing, a SETNX sets nothing.            *)
Fail(q) ==
    /\ faults < MaxFaults
    /\ \/ req[q].phase = "read"    /\ req' = NoneFound(q)
       \/ req[q].phase = "capture" /\ req' = [req EXCEPT ![q].phase = "reread"]
       \/ req[q].phase = "reread"  /\ req' = [req EXCEPT ![q].phase = "done"]
    /\ faults' = faults + 1
    /\ UNCHANGED stored

Next == \E q \in Request : Arrive(q) \/ Read(q) \/ Capture(q) \/ Reread(q) \/ Fail(q)

Spec == Init /\ [][Next]_vars

-----------------------------------------------------------------------------
(* The fingerprint of an account is captured once: no race and no failing  *)
(* command replaces or loses it.                                           *)
CapturedOnce == [][stored # Blank => stored' = stored]_vars

(* Two requests for the account never name different SDKs to the upstream, *)
(* whether they captured, replayed or lost the race, as long as Redis      *)
(* answers: a header that several of them send has one value, unless it is *)
(* not part of the fingerprint.                                            *)
SameIdentity ==
    faults = 0 =>
       \A q \in Request, k \in Key :
          req[q].phase = "done" /\ stored[k] # NoValue
          => req[q].out[k] \in {NoValue, stored[k]}

=============================================================================
