----------------------- MODULE StainlessBindingProofs -----------------------
(***************************************************************************)
(* Theorems about StainlessBinding, for any requests, headers and values,  *)
(* and any number of failing commands.                                     *)
(***************************************************************************)
EXTENDS StainlessBinding, TLAPS

-----------------------------------------------------------------------------
(* The inductive invariant.  InHand: a request has sent nothing but what   *)
(* it came with until it is done.  NoTrace: as long as Redis answers, there*)
(* is a fingerprint if a request has lost the race for it, and if a        *)
(* request that is done sends any bound header.                            *)
InHand ==
    \A q \in Request :
       /\ req[q].phase = "read" => req[q].out = Blank
       /\ req[q].phase = "capture" => req[q].in # Blank
       /\ req[q].phase \in {"capture", "reread"} => req[q].out = req[q].in

NoTrace ==
    faults = 0 /\ stored = Blank =>
       \A q \in Request :
          /\ req[q].phase # "reread"
          /\ req[q].phase = "done" => req[q].out = Blank

BindingInv == TypeOK /\ InHand /\ NoTrace /\ SameIdentity

LEMMA BlankHeaders == Blank \in Headers
BY DEF Blank, Headers

LEMMA ApplyHeaders ==
    ASSUME NEW f \in Headers, NEW out \in Headers
    PROVE  /\ Apply(f, out) \in Headers
           /\ \A k \in Key : f[k] # NoValue => Apply(f, out)[k] = f[k]
BY DEF Apply, Headers

LEMMA InitBinding == Init => BindingInv
<1> SUFFICES ASSUME Init PROVE BindingInv
  OBVIOUS
<1>1. TypeOK
  BY BlankHeaders, StainlessAssumption DEF Init, TypeOK, Fresh, RequestState
<1>2. \A q \in Request : req[q].phase = "idle"
  BY DEF Init, Fresh
<1> QED
  BY <1>1, <1>2 DEF BindingInv, InHand, NoTrace, SameIdentity

(* A step changes one request and sets the fingerprint only if there is    *)
(* none.                                                                   *)
LEMMA StepBinding == BindingInv /\ [Next]_vars => BindingInv'
<1> SUFFICES ASSUME BindingInv, [Next]_vars PROVE BindingInv'
  OBVIOUS
<1>t. /\ stored \in Headers /\ req \in [Request -> RequestState]
      /\ faults \in 0..MaxFaults /\ MaxFaults \in Nat /\ Blank \in Headers
  BY BlankHeaders, StainlessAssumption DEF BindingInv, TypeOK
<1>i. InHand /\ NoTrace /\ SameIdentity
  BY DEF BindingInv
<1>1. ASSUME NEW q \in Request, Arrive(q) PROVE BindingInv'
  <2>1. PICK in \in Headers :
           req' = [req EXCEPT ![q] = [Fresh EXCEPT !.phase = "read", !.in = in]]
    BY <1>1 DEF Arrive
  <2>2. /\ req'[q] = [phase |-> "read", in |-> in, out |-> Blank]
        /\ \A r \in Request \ {q} : req'[r] = req[r]
        /\ req' \in [Request -> RequestState]
    BY <2>1, <1>t DEF Fresh, RequestState
  <2>3. stored' = stored /\ faults' = faults
    BY <1>1 DEF Arrive
  <2>4. TypeOK' /\ InHand' /\ NoTrace'
    BY <2>2, <2>3, <1>t, <1>i DEF TypeOK, InHand, NoTrace
  <2>5. SameIdentity'
    BY <2>2, <2>3, <1>i DEF SameIdentity
  <2> QED
    BY <2>4, <2>5 DEF BindingInv
<1>2. ASSUME NEW q \in Request, Read(q) PROVE BindingInv'
  <2>1. CASE stored = Blank
    <3>1. /\ req'[q] = [phase |-> IF req[q].in = Blank THEN "done" ELSE "capture",
                        in |-> req[q].in, out |-> req[q].in]
          /\ \A r \in Request \ {q} : req'[r] = req[r]
          /\ req' \in [Request -> RequestState]
      BY <1>2, <2>1, <1>t DEF Read, NoneFound, RequestState
    <3>2. \A k \in Key : stored[k] = NoValue
      BY <2>1 DEF Blank
    <3>3. stored' = stored /\ faults' = faults
      BY <1>2 DEF Read
    <3>4. TypeOK'
      BY <3>1, <3>3, <1>t DEF TypeOK
    <3>5. InHand'
      BY <3>1, <1>i DEF InHand
    <3>6. NoTrace'
      BY <3>1, <3>3, <1>i DEF NoTrace
    <3>7. SameIdentity'
      BY <3>2, <3>3 DEF SameIdentity
    <3> QED
      BY <3>4, <3>5, <3>6, <3>7 DEF BindingInv
  <2>2. CASE stored # Blank
    <3>0. Apply(stored, req[q].out) \in Headers
      BY <1>t, ApplyHeaders DEF RequestState
    <3>1. /\ req'[q] = [phase |-> "done", in |-> req[q].in,
                        out |-> Apply(stored, req[q].out)]
          /\ \A r \in Request \ {q} : req'[r] = req[r]
          /\ req' \in [Request -> RequestState]
      BY <1>2, <2>2, <1>t, <3>0 DEF Read, RequestState
    <3>2. \A k \in Key : stored[k] # NoValue => req'[q].out[k] = stored[k]
      BY <3>1, <1>t, ApplyHeaders DEF RequestState
    <3> QED
      BY <3>1, <3>2, <2>2, <1>2, <1>t, <1>i
      DEF Read, BindingInv, TypeOK, InHand, NoTrace, SameIdentity
  <2> QED
    BY <2>1, <2>2
<1>3. ASSUME NEW q \in Request, Capture(q) PROVE BindingInv'
  <2>1. CASE stored = Blank
    <3>1. /\ req'[q] = [phase |-> "done", in |-> req[q].in, out |-> req[q].in]
          /\ \A r \in Request \ {q} : req'[r] = req[r]
          /\ req' \in [Request -> RequestState]
      BY <1>3, <2>1, <1>t, <1>i DEF Capture, RequestState, InHand
    <3>2. stored' = req[q].in /\ stored' # Blank /\ stored' \in Headers
      BY <1>3, <2>1, <1>t, <1>i DEF Capture, RequestState, InHand
    <3>3. ASSUME faults = 0, NEW r \in Request, NEW k \in Key, req'[r].phase = "done",
                 stored'[k] # NoValue
          PROVE  req'[r].out[k] \in {NoValue, stored'[k]}
      <4>1. CASE r = q
        BY <4>1, <3>1, <3>2
      <4>2. CASE r # q
        <5>1. req'[r].out = Blank
          BY <4>2, <3>1, <3>3, <2>1, <1>i DEF NoTrace
        <5> QED
          BY <5>1 DEF Blank
      <4> QED
        BY <4>1, <4>2
    <3>4. SameIdentity' /\ InHand'
      BY <3>1, <3>3, <1>3, <1>i DEF Capture, SameIdentity, InHand
    <3> QED
      BY <3>1, <3>2, <3>4, <1>3, <1>t
      DEF Capture, BindingInv, TypeOK, NoTrace
  <2>2. CASE stored # Blank
    <3>1. /\ req'[q] = [phase |-> "reread", in |-> req[q].in, out |-> req[q].out]
          /\ \A r \in Request \ {q} : req'[r] = req[r]
          /\ req' \in [Request -> RequestState]
          /\ stored' = stored
      BY <1>3, <2>2, <1>t DEF Capture, RequestState
    <3> QED
      BY <3>1, <2>2, <1>3, <1>t, <1>i
      DEF Capture, BindingInv, TypeOK, InHand, NoTrace, SameIdentity
  <2> QED
    BY <2>1, <2>2
<1>4. ASSUME NEW q \in Request, Reread(q) PROVE BindingInv'
  <2>0. Apply(stored, req[q].out) \in Headers
    BY <1>t, ApplyHeaders DEF RequestState
  <2>1. /\ req'[q] = [phase |-> "done", in |-> req[q].in,
                      out |-> Apply(stored, req[q].out)]
        /\ \A r \in Request \ {q} : req'[r] = req[r]
        /\ req' \in [Request -> RequestState]
    BY <1>4, <1>t, <2>0 DEF Reread, RequestState
  <2>2. \A k \in Key : stored[k] # NoValue => req'[q].out[k] = stored[k]
    BY <2>1, <1>t, ApplyHeaders DEF RequestState
  <2>3. stored' = stored /\ faults' = faults
    BY <1>4 DEF Reread
  <2>4. TypeOK' /\ InHand'
    BY <2>1, <2>3, <1>t, <1>i DEF TypeOK, InHand
  <2>5. NoTrace'
    BY <2>1, <2>3, <1>4, <1>i DEF Reread, NoTrace
  <2>6. SameIdentity'
    BY <2>1, <2>2, <2>3, <1>i DEF SameIdentity
  <2> QED
    BY <2>4, <2>5, <2>6 DEF BindingInv
<1>5. ASSUME NEW q \in Request, Fail(q) PROVE BindingInv'
  <2>1. faults' = faults + 1 /\ faults' \in 0..MaxFaults /\ faults' # 0 /\ stored' = stored
    BY <1>5, <1>t DEF Fail
  <2>2. /\ req' \in [Request -> RequestState]
        /\ \A r \in Request \ {q} : req'[r] = req[r]
    BY <1>5, <1>t DEF Fail, NoneFound, RequestState
  <2>3. /\ req'[q].phase # "read"
        /\ req'[q].phase = "capture" => req'[q].in # Blank
        /\ req'[q].phase \in {"capture", "reread"} => req'[q].out = req'[q].in
    BY <1>5, <1>t, <1>i DEF Fail, NoneFound, RequestState, InHand
  <2> QED
    BY <2>1, <2>2, <2>3, <1>t, <1>i
    DEF BindingInv, TypeOK, InHand, NoTrace, SameIdentity
<1>6. CASE UNCHANGED vars
  BY <1>6, <1>t, <1>i DEF vars, BindingInv, TypeOK, InHand, NoTrace, SameIdentity
<1> QED
  BY <1>1, <1>2, <1>3, <1>4, <1>5, <1>6 DEF Next

LEMMA BindingAlways == Spec => []BindingInv
BY InitBinding, StepBinding, PTL DEF Spec

-----------------------------------------------------------------------------
(* The fingerprint and the requests keep their types.                      *)
THEOREM TypeCorrect == Spec => []TypeOK
<1>1. BindingInv => TypeOK
  BY DEF BindingInv
<1> QED
  BY <1>1, BindingAlways, PTL

(* As long as Redis answers, no two requests for an account send different *)
(* values of a header of its fingerprint, however many first requests race.*)
THEOREM OneIdentity == Spec => []SameIdentity
<1>1. BindingInv => SameIdentity
  BY DEF BindingInv
<1> QED
  BY <1>1, BindingAlways, PTL

(* No step replaces or removes a captured fingerprint.                     *)
THEOREM OneCapture == Spec => CapturedOnce
<1>1. [Next]_vars => [stored # Blank => stored' = stored]_vars
  BY DEF Next, vars, Arrive, Read, Capture, Reread, Fail
<1> QED
  BY <1>1, PTL DEF Spec, CapturedOnce
=============================================================================
