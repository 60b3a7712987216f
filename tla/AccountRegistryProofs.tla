----------------------- MODULE AccountRegistryProofs -----------------------
(***************************************************************************)
(* Theorems about AccountRegistry, for any ids, organisations and          *)
(* administrators, and any number of failing commands.                     *)
(***************************************************************************)
EXTENDS AccountRegistry, TLAPS

-----------------------------------------------------------------------------
(* The inductive invariant.  An id that is being created is drawn, and     *)
(* neither listed nor deleted, and no two handlers create the same; an id  *)
(* that is being deleted is listed, or was until another deletion of it    *)
(* was faster.  Who looks for an account knows of which organisation.      *)
Creating(m) == adm[m].phase \in {"create", "index"}
Deleting(m) == adm[m].phase \in {"del", "srem"}
Working(m)  == Creating(m) \/ Deleting(m) \/ adm[m].phase \in {"store", "extinfo"}

Named == \A m \in Admin :
    /\ Working(m) => adm[m].id \in Id
    /\ adm[m].phase \in {"list", "found"} => adm[m].org \in Org

CreatedOnce ==
    /\ \A m \in Admin : Creating(m) => adm[m].id \in used \ (index \cup deleted)
    /\ \A m, n \in Admin : Creating(m) /\ Creating(n) /\ adm[m].id = adm[n].id => m = n

DeletedWasThere == \A m \in Admin : Deleting(m) => adm[m].id \in index \cup deleted

RegistryInv ==
    TypeOK /\ Named /\ CreatedOnce /\ DeletedWasThere /\ DeletedStayUnlisted

LEMMA Hashes ==
    /\ Absent \in Hash /\ Created \in Hash
    /\ \A h \in Hash : /\ Stored(h) \in Hash /\ Errored(h) \in Hash
                       /\ Blocked(h) \in Hash /\ Unblocked(h) \in Hash /\ Touched(h) \in Hash
    /\ \A h \in Hash, o \in Org \cup {NoOrg} : Described(h, o) \in Hash
BY DEF Hash, Absent, Created, Stored, Errored, Blocked, Unblocked, Touched,
       Described

LEMMA InitRegistry == Init => RegistryInv
<1> SUFFICES ASSUME Init PROVE RegistryInv
  OBVIOUS
<1>1. Idle \in AdminState /\ Absent \in Hash
  BY Hashes DEF Idle, AdminState, AdminPhase
<1>2. \A m \in Admin : adm[m].phase = "idle"
  BY DEF Init, Idle
<1>3. TypeOK
  BY <1>1, RegistryAssumption DEF Init, TypeOK
<1> QED
  BY <1>2, <1>3
  DEF Init, RegistryInv, Named, CreatedOnce, DeletedWasThere, DeletedStayUnlisted,
      Working, Creating, Deleting

(* A command of a request counts if it fails, and leaves a hash a hash.    *)
LEMMA Commands ==
    ASSUME RegistryInv, NEW r \in Result, Counted(r)
    PROVE  /\ r.done \in BOOLEAN /\ r.ok \in BOOLEAN /\ (r.ok => r.done)
           /\ faults' \in 0..MaxFaults
BY RegistryAssumption DEF Result, Counted, RegistryInv, TypeOK

LEMMA Writing ==
    ASSUME RegistryInv, NEW m \in Admin, NEW r \in Result, NEW h \in Hash, Write(m, r, h)
    PROVE  hash' \in [Id -> Hash]
BY DEF Write, RegistryInv, TypeOK

(* A handler moves from phase to phase with its id, where it does not      *)
(* start to create or to delete anything.                                  *)
LEMMA Moving ==
    ASSUME RegistryInv, NEW m \in Admin, NEW phase \in AdminPhase,
           NEW err \in BOOLEAN,
           Goto(m, phase) \/ adm' = [adm EXCEPT ![m].phase = phase, ![m].err = err],
           phase \notin {"list", "found"},
           phase \in {"create", "index"} => Creating(m),
           phase \in {"del", "srem"} => Deleting(m),
           phase \in {"store", "extinfo"} => Working(m)
    PROVE  /\ adm' \in [Admin -> AdminState]
           /\ Named'
           /\ adm'[m].phase = phase
           /\ \A n \in Admin : /\ adm'[n].id = adm[n].id
                               /\ Creating(n)' => Creating(n)
                               /\ Deleting(n)' => Deleting(n)
<1>1. adm \in [Admin -> AdminState]
  BY DEF RegistryInv, TypeOK
<1>2. /\ adm' \in [Admin -> AdminState]
      /\ \A n \in Admin \ {m} : adm'[n] = adm[n]
      /\ adm'[m].phase = phase /\ adm'[m].id = adm[m].id
  BY <1>1 DEF Goto, AdminState
<1> QED
  BY <1>2 DEF RegistryInv, Named, Working, Creating, Deleting

(* Steps of the handlers that leave index, used and deleted alone, and     *)
(* after which nobody creates or deletes what he did not before.           *)
LEMMA Keeping ==
    ASSUME RegistryInv, UNCHANGED << index, used, deleted >>,
           \A n \in Admin : /\ Creating(n)' => Creating(n) /\ adm'[n].id = adm[n].id
                            /\ Deleting(n)' => Deleting(n) /\ adm'[n].id = adm[n].id
    PROVE  CreatedOnce' /\ DeletedWasThere' /\ DeletedStayUnlisted'
<1>1. CreatedOnce'
  BY DEF RegistryInv, CreatedOnce
<1> QED
  BY <1>1 DEF RegistryInv, DeletedWasThere, DeletedStayUnlisted

-----------------------------------------------------------------------------
LEMMA StepRegistry == RegistryInv /\ [Next]_vars => RegistryInv'
<1> SUFFICES ASSUME RegistryInv, [Next]_vars PROVE RegistryInv'
  OBVIOUS
<1>t. /\ hash \in [Id -> Hash] /\ adm \in [Admin -> AdminState]
      /\ index \subseteq used /\ used \subseteq Id /\ deleted \subseteq used
      /\ struck \subseteq Id /\ late \subseteq Id /\ uncertain \subseteq Org
      /\ faults \in 0..MaxFaults /\ MaxFaults \in Nat
  BY RegistryAssumption DEF RegistryInv, TypeOK
<1>i. TypeOK /\ Named /\ CreatedOnce /\ DeletedWasThere /\ DeletedStayUnlisted
  BY DEF RegistryInv
<1> USE DEF AdminPhase, pool
<1>a. [Idle EXCEPT !.phase = "exchange"] \in AdminState
      /\ [Idle EXCEPT !.phase = "exchange"].phase = "exchange"
  BY DEF Idle, AdminState
<1>1. ASSUME NEW m \in Admin, Submit(m) \/ CookieOAuth(m) \/ ListFails(m)
      PROVE RegistryInv'
  <2>1. /\ adm' \in [Admin -> AdminState]
        /\ adm'[m].phase \in {"exchange", "list", "failed"}
        /\ adm'[m].phase = "list" => adm'[m].org \in Org
        /\ \A n \in Admin \ {m} : adm'[n] = adm[n]
    <3>1. CASE Submit(m)
      BY <3>1, <1>t, <1>a DEF Submit
    <3>2. ASSUME NEW o \in Choice, adm' = [adm EXCEPT ![m].phase = "list", ![m].org = o]
          PROVE  /\ adm' \in [Admin -> AdminState] /\ adm'[m].phase = "list"
                 /\ adm'[m].org \in Org /\ \A n \in Admin \ {m} : adm'[n] = adm[n]
      BY <3>2, <1>t DEF Choice, AdminState
    <3>3. CASE Goto(m, "failed")
      BY <3>3, <1>t DEF Goto, AdminState
    <3> QED
      BY <1>1, <3>1, <3>2, <3>3 DEF CookieOAuth, ListFails
  <2>2. UNCHANGED << hash, index, used, deleted, struck, late, uncertain, faults >>
    BY <1>1 DEF Submit, CookieOAuth, ListFails
  <2>3. TypeOK' /\ Named'
    BY <2>1, <2>2, <1>t, <1>i DEF TypeOK, Named, Working, Creating, Deleting
  <2>4. CreatedOnce' /\ DeletedWasThere' /\ DeletedStayUnlisted'
    BY <2>1, <2>2, Keeping DEF Creating, Deleting
  <2> QED
    BY <2>3, <2>4 DEF RegistryInv
<1>2. ASSUME NEW m \in Admin, List(m) PROVE RegistryInv'
  <2>1. /\ adm' \in [Admin -> AdminState] /\ adm'[m].phase = "found"
        /\ adm'[m].org \in Org
        /\ \A n \in Admin \ {m} : adm'[n] = adm[n]
    <3>1. /\ adm' = [adm EXCEPT ![m].phase = "found", ![m].todo = index]
          /\ adm[m].org \in Org /\ index \in SUBSET Id
      BY <1>2, <1>t, <1>i DEF List, Named
    <3> QED
      BY <3>1, <1>t DEF AdminState
  <2>0. uncertain' \subseteq Org
    BY <1>2, <1>t DEF List
  <2>2. TypeOK' /\ Named'
    BY <2>0, <2>1, <1>2, <1>t, <1>i DEF List, TypeOK, Named, Working, Creating, Deleting
  <2>3. CreatedOnce' /\ DeletedWasThere' /\ DeletedStayUnlisted'
    BY <2>1, <1>2, Keeping DEF List, Creating, Deleting
  <2> QED
    BY <2>2, <2>3 DEF RegistryInv
<1>3. ASSUME NEW m \in Admin, NEW i \in Id, Compare(m, i) \/ CompareFails(m, i)
      PROVE RegistryInv'
  <2>1. /\ adm' \in [Admin -> AdminState]
        /\ adm'[m].phase = "found" \/ (adm'[m].phase = "store" /\ adm'[m].id = i)
        /\ adm'[m].org = adm[m].org
        /\ \A n \in Admin \ {m} : adm'[n] = adm[n]
    BY <1>3, <1>t DEF Compare, CompareFails, AdminState
  <2>2. /\ UNCHANGED << hash, index, used, deleted, struck, late >>
        /\ adm[m].phase = "found" /\ adm[m].org \in Org
        /\ uncertain' \subseteq Org
        /\ faults' \in 0..MaxFaults
    BY <1>3, <1>t, <1>i DEF Compare, CompareFails, Counted, Named
  <2>3. TypeOK' /\ Named'
    BY <2>1, <2>2, <1>t, <1>i DEF TypeOK, Named, Working, Creating, Deleting
  <2>4. CreatedOnce' /\ DeletedWasThere' /\ DeletedStayUnlisted'
    BY <2>1, <2>2, Keeping DEF Creating, Deleting
  <2> QED
    BY <2>3, <2>4 DEF RegistryInv
<1>4. ASSUME NEW m \in Admin, NotFound(m) PROVE RegistryInv'
  <2>1. PICK i \in Id \ used :
           /\ used' = used \cup {i}
           /\ adm' = [adm EXCEPT ![m].phase = "create", ![m].id = i]
    BY <1>4 DEF NotFound
  <2>2. /\ adm' \in [Admin -> AdminState]
        /\ adm'[m].phase = "create" /\ adm'[m].id = i
        /\ \A n \in Admin \ {m} : adm'[n] = adm[n]
    BY <2>1, <1>t DEF AdminState
  <2>3. UNCHANGED << hash, index, deleted, struck, late, uncertain, faults >>
    BY <1>4 DEF NotFound
  <2>4. TypeOK' /\ Named'
    BY <2>1, <2>2, <2>3, <1>t, <1>i DEF TypeOK, Named, Working, Creating, Deleting
  <2>5. CreatedOnce'
    BY <2>1, <2>2, <2>3, <1>t, <1>i DEF CreatedOnce, Creating
  <2>6. DeletedWasThere' /\ DeletedStayUnlisted'
    BY <2>2, <2>3, <1>i DEF DeletedWasThere, DeletedStayUnlisted, Deleting
  <2> QED
    BY <2>4, <2>5, <2>6 DEF RegistryInv
<1>5. ASSUME NEW m \in Admin, NEW r \in Result, CreateHash(m, r) PROVE RegistryInv'
  <2>1. Creating(m) /\ Counted(r) /\ Write(m, r, Created) /\ (~ r.ok) \in BOOLEAN
        /\ adm' = [adm EXCEPT ![m].phase = "index", ![m].err = ~ r.ok]
    BY <1>5 DEF CreateHash, Creating
  <2>2. hash' \in [Id -> Hash] /\ faults' \in 0..MaxFaults
    BY <2>1, Hashes, Writing, Commands
  <2>3. UNCHANGED << index, used, deleted, struck, late, uncertain >>
    BY <1>5 DEF CreateHash
  <2>4. /\ adm' \in [Admin -> AdminState] /\ Named'
        /\ \A n \in Admin : /\ adm'[n].id = adm[n].id
                            /\ Creating(n)' => Creating(n)
                            /\ Deleting(n)' => Deleting(n)
    BY <2>1, Moving
  <2> QED
    BY <2>2, <2>3, <2>4, <1>t, Keeping DEF RegistryInv, TypeOK
<1>6. ASSUME NEW m \in Admin, NEW r \in Result, CreateIndex(m, r) PROVE RegistryInv'
  <2>1. /\ adm[m].phase = "index" /\ Counted(r)
        /\ index' = index \/ index' = index \cup {adm[m].id}
        /\ Goto(m, "store") \/ Goto(m, "failed")
        /\ UNCHANGED << hash, used, deleted, struck, late, uncertain >>
    BY <1>6 DEF CreateIndex
  <2>2. adm[m].id \in used \ (index \cup deleted) /\ faults' \in 0..MaxFaults
    BY <2>1, <1>i, Commands DEF CreatedOnce, Creating
  <2>3. /\ adm' \in [Admin -> AdminState] /\ Named'
        /\ adm'[m].phase \in {"store", "failed"}
        /\ \A n \in Admin : /\ adm'[n].id = adm[n].id
                            /\ Creating(n)' => Creating(n)
                            /\ Deleting(n)' => Deleting(n)
    <3>1. CASE Goto(m, "store")
      BY <3>1, <2>1, Moving DEF Creating, Working
    <3>2. CASE Goto(m, "failed")
      BY <3>2, Moving
    <3> QED
      BY <2>1, <3>1, <3>2
  <2>4. TypeOK'
    BY <2>1, <2>2, <2>3, <1>t DEF TypeOK
  <2>5. ~ Creating(m)'
    BY <2>3 DEF Creating
  <2>6. CreatedOnce'
    <3>1. ASSUME NEW n \in Admin, Creating(n)'
          PROVE  adm'[n].id \in used' \ (index' \cup deleted')
      <4>1. Creating(m)
        BY <2>1 DEF Creating
      <4>2. n # m /\ Creating(n) /\ adm[n].id # adm[m].id
        BY <3>1, <4>1, <2>3, <2>5, <1>i DEF CreatedOnce
      <4> QED
        BY <4>2, <2>1, <2>3, <1>i DEF CreatedOnce
    <3>2. ASSUME NEW n \in Admin, NEW k \in Admin, Creating(n)', Creating(k)',
                 adm'[n].id = adm'[k].id
          PROVE  n = k
      BY <3>2, <2>3, <1>i DEF CreatedOnce
    <3> QED
      BY <3>1, <3>2 DEF CreatedOnce
  <2>7. DeletedWasThere' /\ DeletedStayUnlisted'
    BY <2>1, <2>2, <2>3, <1>i DEF DeletedWasThere, DeletedStayUnlisted
  <2> QED
    BY <2>3, <2>4, <2>6, <2>7 DEF RegistryInv
<1>7. ASSUME NEW m \in Admin, NEW r \in Result, StoreTokens(m, r) PROVE RegistryInv'
  <2>1. /\ Working(m) /\ Counted(r) /\ (Goto(m, "extinfo") \/ Goto(m, "failed"))
        /\ adm[m].id \in Id /\ Write(m, r, Stored(hash[adm[m].id]))
    BY <1>7, <1>i DEF StoreTokens, Working, Named
  <2>a. Stored(hash[adm[m].id]) \in Hash
    BY <2>1, <1>t, Hashes
  <2>2. hash' \in [Id -> Hash] /\ faults' \in 0..MaxFaults
    BY <2>1, <2>a, Writing, Commands
  <2>3. UNCHANGED << index, used, deleted, struck, late, uncertain >>
    BY <1>7 DEF StoreTokens
  <2>4. /\ adm' \in [Admin -> AdminState] /\ Named'
        /\ \A n \in Admin : /\ adm'[n].id = adm[n].id
                            /\ Creating(n)' => Creating(n)
                            /\ Deleting(n)' => Deleting(n)
    BY <2>1, Moving
  <2> QED
    BY <2>2, <2>3, <2>4, <1>t, Keeping DEF RegistryInv, TypeOK
<1>8. ASSUME NEW m \in Admin, NEW r \in Result, UpdateExtInfo(m, r) PROVE RegistryInv'
  <2>1. /\ Counted(r) /\ (Goto(m, "answered") \/ Goto(m, "dropped"))
        /\ adm[m].id \in Id /\ adm[m].org \in Org \cup {NoOrg}
        /\ Write(m, r, Described(hash[adm[m].id], adm[m].org))
    BY <1>8, <1>i, <1>t DEF UpdateExtInfo, Working, Named, AdminState
  <2>a. Described(hash[adm[m].id], adm[m].org) \in Hash
    BY <2>1, <1>t, Hashes
  <2>2. hash' \in [Id -> Hash] /\ faults' \in 0..MaxFaults
    BY <2>1, <2>a, Writing, Commands
  <2>3. UNCHANGED << index, used, deleted, struck, late, uncertain >>
    BY <1>8 DEF UpdateExtInfo
  <2>4. /\ adm' \in [Admin -> AdminState] /\ Named'
        /\ \A n \in Admin : /\ adm'[n].id = adm[n].id
                            /\ Creating(n)' => Creating(n)
                            /\ Deleting(n)' => Deleting(n)
    BY <2>1, Moving
  <2> QED
    BY <2>2, <2>3, <2>4, <1>t, Keeping DEF RegistryInv, TypeOK
<1>9. ASSUME NEW m \in Admin, Delete(m) PROVE RegistryInv'
  <2>1. PICK i \in index \cup deleted :
           \/ adm' = [adm EXCEPT ![m] = [Idle EXCEPT !.phase = "del", !.id = i]]
           \/ adm' = [adm EXCEPT ![m] = [Idle EXCEPT !.phase = "failed"]]
    BY <1>9 DEF Delete
  <2>2. /\ adm' \in [Admin -> AdminState]
        /\ adm'[m].phase = "failed" \/ (adm'[m].phase = "del" /\ adm'[m].id = i)
        /\ \A n \in Admin \ {m} : adm'[n] = adm[n]
    <3>1. i \in Id
      BY <1>t
    <3>2. CASE adm' = [adm EXCEPT ![m] = [Idle EXCEPT !.phase = "del", !.id = i]]
      <4>1. [Idle EXCEPT !.phase = "del", !.id = i] \in AdminState
        BY <3>1 DEF AdminState, Idle
      <4> QED
        BY <3>2, <4>1, <1>t DEF Idle
    <3>3. CASE adm' = [adm EXCEPT ![m] = [Idle EXCEPT !.phase = "failed"]]
      <4>1. [Idle EXCEPT !.phase = "failed"] \in AdminState
        BY DEF AdminState, Idle
      <4> QED
        BY <3>3, <4>1, <1>t DEF Idle
    <3> QED
      BY <2>1, <3>2, <3>3
  <2>3. UNCHANGED << hash, index, used, deleted, struck, late, uncertain, faults >>
    BY <1>9 DEF Delete
  <2>4. TypeOK' /\ Named'
    BY <2>1, <2>2, <2>3, <1>t, <1>i DEF TypeOK, Named, Working, Creating, Deleting
  <2>5. CreatedOnce'
    BY <2>2, <2>3, <1>i DEF CreatedOnce, Creating
  <2>6. DeletedWasThere' /\ DeletedStayUnlisted'
    BY <2>1, <2>2, <2>3, <1>i DEF DeletedWasThere, DeletedStayUnlisted, Deleting
  <2> QED
    BY <2>4, <2>5, <2>6 DEF RegistryInv
<1>10. ASSUME NEW m \in Admin, NEW r \in Result, DeleteHash(m, r) PROVE RegistryInv'
  <2>1. /\ Deleting(m) /\ Counted(r) /\ Write(m, r, Absent) /\ (~ r.ok) \in BOOLEAN
        /\ adm' = [adm EXCEPT ![m].phase = "srem", ![m].err = ~ r.ok]
    BY <1>10 DEF DeleteHash, Deleting
  <2>2. hash' \in [Id -> Hash] /\ faults' \in 0..MaxFaults
    BY <2>1, Hashes, Writing, Commands
  <2>3. /\ UNCHANGED << index, used, deleted, late, uncertain >>
        /\ struck' \subseteq Id
    BY <1>10, <1>t, <1>i, <2>1 DEF DeleteHash, Named, Working
  <2>4. /\ adm' \in [Admin -> AdminState] /\ Named'
        /\ \A n \in Admin : /\ adm'[n].id = adm[n].id
                            /\ Creating(n)' => Creating(n)
                            /\ Deleting(n)' => Deleting(n)
    BY <2>1, Moving
  <2> QED
    BY <2>2, <2>3, <2>4, <1>t, Keeping DEF RegistryInv, TypeOK
<1>11. ASSUME NEW m \in Admin, NEW r \in Result, DeleteIndex(m, r) PROVE RegistryInv'
  <2>1. /\ adm[m].phase = "srem" /\ Counted(r)
        /\ \/ index' = index \ {adm[m].id} /\ deleted' = deleted \cup {adm[m].id}
           \/ UNCHANGED << index, deleted >>
        /\ Goto(m, "answered") \/ Goto(m, "failed")
        /\ UNCHANGED << hash, used, struck, late, uncertain >>
    BY <1>11 DEF DeleteIndex
  <2>2. adm[m].id \in index \cup deleted /\ faults' \in 0..MaxFaults
    BY <2>1, <1>i, Commands DEF DeletedWasThere, Deleting
  <2>3. /\ adm' \in [Admin -> AdminState] /\ Named'
        /\ \A n \in Admin : /\ adm'[n].id = adm[n].id
                            /\ Creating(n)' => Creating(n)
                            /\ Deleting(n)' => Deleting(n)
    BY <2>1, Moving
  <2>4. TypeOK'
    BY <2>1, <2>2, <2>3, <1>t DEF TypeOK
  <2>5. index' \cup deleted' = index \cup deleted
    BY <2>1, <2>2
  <2>6. CreatedOnce' /\ DeletedWasThere'
    BY <2>1, <2>3, <2>5, <1>i DEF CreatedOnce, DeletedWasThere
  <2>7. DeletedStayUnlisted'
    BY <2>1, <1>i DEF DeletedStayUnlisted
  <2> QED
    BY <2>3, <2>4, <2>6, <2>7 DEF RegistryInv
<1>12. ASSUME NEW i \in Id, Reader(i) \/ LateWrite(i) PROVE RegistryInv'
  <2>1. hash' \in [Id -> Hash] /\ late' \subseteq Id
    BY <1>12, <1>t, Hashes DEF Reader, LateWrite
  <2>2. UNCHANGED << index, used, deleted, struck, adm, uncertain, faults >>
    BY <1>12 DEF Reader, LateWrite
  <2> QED
    BY <2>1, <2>2, <1>t, <1>i
    DEF RegistryInv, TypeOK, Named, CreatedOnce, DeletedWasThere, DeletedStayUnlisted,
        Working, Creating, Deleting
<1>13. CASE UNCHANGED vars
  BY <1>13, <1>i
  DEF vars, RegistryInv, TypeOK, Named, CreatedOnce, DeletedWasThere,
      DeletedStayUnlisted, Working, Creating, Deleting
<1> QED
  BY <1>1, <1>2, <1>3, <1>4, <1>5, <1>6, <1>7, <1>8, <1>9, <1>10, <1>11, <1>12,
     <1>13 DEF Next

LEMMA RegistryAlways == Spec => []RegistryInv
BY InitRegistry, StepRegistry, PTL DEF Spec

-----------------------------------------------------------------------------
(* Hashes, index and handlers keep their types.                            *)
THEOREM TypeCorrect == Spec => []TypeOK
<1>1. RegistryInv => TypeOK
  BY DEF RegistryInv
<1> QED
  BY <1>1, RegistryAlways, PTL

(* A deleted id is never in the index again, with any number of            *)
(* administrators and whichever command fails.                             *)
THEOREM DeletedStay == Spec => []DeletedStayUnlisted
<1>1. RegistryInv => DeletedStayUnlisted
  BY DEF RegistryInv
<1> QED
  BY <1>1, RegistryAlways, PTL

(* The refinement: only CreateIndex and DeleteIndex change the life of an  *)
(* id, and only if the command is executed.  The one finds it neither      *)
(* listed nor deleted (CreatedOnce), the other listed or, when another     *)
(* deletion was faster, gone already (DeletedWasThere), which makes it a   *)
(* stutter.                                                                *)
Life(i) == IF i \in index THEN "pooled" ELSE IF i \in deleted THEN "gone" ELSE "new"

THEOREM EveryIdHasOneLife == Spec => ImplementsAccountLife
<1> DEFINE life == [i \in Id |-> Life(i)]
<1>1. Init => life = [i \in Id |-> "new"]
  BY DEF Init, Life
<1>2. RegistryInv /\ [Next]_vars
      => life' = life \/ \E i \in Id : Pool!Enter(i) \/ Pool!Remove(i)
  <2> SUFFICES ASSUME RegistryInv, [Next]_vars
               PROVE  life' = life \/ \E i \in Id : Pool!Enter(i) \/ Pool!Remove(i)
    OBVIOUS
  <2>1. index \subseteq Id /\ deleted \cap index = {}
    BY DEF RegistryInv, TypeOK, DeletedStayUnlisted
  <2>2. CASE UNCHANGED << index, deleted >>
    BY <2>2 DEF Life
  <2>3. ASSUME NEW m \in Admin, NEW r \in Result, CreateIndex(m, r), r.done
        PROVE  \E i \in Id : Pool!Enter(i)
    <3> DEFINE i == adm[m].id
    <3>1. i \in Id /\ i \notin index /\ i \notin deleted
      BY <2>3 DEF CreateIndex, RegistryInv, CreatedOnce, Creating, Named, Working
    <3>2. index' = index \cup {i} /\ deleted' = deleted
      BY <2>3 DEF CreateIndex
    <3> HIDE DEF i
    <3>3. life[i] = "new" /\ life' = [life EXCEPT ![i] = "pooled"]
      BY <3>1, <3>2 DEF Life
    <3> QED
      BY <3>1, <3>3 DEF Pool!Enter, Life
  <2>4. ASSUME NEW m \in Admin, NEW r \in Result, DeleteIndex(m, r), r.done
        PROVE  life' = life \/ \E i \in Id : Pool!Remove(i)
    <3> DEFINE i == adm[m].id
    <3>1. i \in Id /\ i \in index \cup deleted
      BY <2>4 DEF DeleteIndex, RegistryInv, DeletedWasThere, Deleting, Named, Working
    <3>2. index' = index \ {i} /\ deleted' = deleted \cup {i}
      BY <2>4 DEF DeleteIndex
    <3> HIDE DEF i
    <3>3. CASE i \in index
      <4>1. life[i] = "pooled" /\ life' = [life EXCEPT ![i] = "gone"]
        BY <2>1, <3>1, <3>2, <3>3 DEF Life
      <4> QED
        BY <3>1, <4>1 DEF Pool!Remove, Life
    <3>4. CASE i \notin index
      BY <3>1, <3>2, <3>4 DEF Life
    <3> QED
      BY <3>3, <3>4
  <2>5. \/ UNCHANGED << index, deleted >>
        \/ \E m \in Admin, r \in Result :
              r.done /\ (CreateIndex(m, r) \/ DeleteIndex(m, r))
    <3>1. ASSUME NEW m \in Admin, NEW r \in Result,
                 CreateHash(m, r) \/ StoreTokens(m, r) \/ UpdateExtInfo(m, r)
                 \/ DeleteHash(m, r)
          PROVE  UNCHANGED << index, deleted >>
      BY <3>1 DEF CreateHash, StoreTokens, UpdateExtInfo, DeleteHash, pool
    <3>2. ASSUME NEW m \in Admin, NEW r \in Result,
                 CreateIndex(m, r) \/ DeleteIndex(m, r), ~ r.done
          PROVE  UNCHANGED << index, deleted >>
      BY <3>2 DEF CreateIndex, DeleteIndex
    <3>3. ASSUME NEW m \in Admin,
                 \/ Submit(m) \/ CookieOAuth(m) \/ List(m) \/ ListFails(m)
                 \/ NotFound(m) \/ Delete(m)
                 \/ \E i \in Id : Compare(m, i) \/ CompareFails(m, i)
          PROVE  UNCHANGED << index, deleted >>
      BY <3>3 DEF Submit, CookieOAuth, List, ListFails, NotFound, Delete, Compare,
                  CompareFails, pool
    <3>4. ASSUME NEW i \in Id, Reader(i) \/ LateWrite(i)
          PROVE  UNCHANGED << index, deleted >>
      BY <3>4 DEF Reader, LateWrite, pool
    <3>5. CASE UNCHANGED vars
      BY <3>5 DEF vars, pool
    <3> QED
      BY <3>1, <3>2, <3>3, <3>4, <3>5 DEF Next
  <2> QED
    BY <2>2, <2>3, <2>4, <2>5
<1>3. Init => Pool!Init
  BY <1>1 DEF Pool!Init, Life
<1>4. RegistryInv /\ [Next]_vars
      => [Pool!Next]_([i \in Id |-> IF i \in index THEN "pooled"
                                   ELSE IF i \in deleted THEN "gone" ELSE "new"])
  BY <1>2 DEF Pool!Next, Life
<1> QED
  BY <1>3, <1>4, RegistryAlways, PTL DEF Spec, ImplementsAccountLife, Pool!Spec

-----------------------------------------------------------------------------
(* One account for an organisation, and what an administrator is told.     *)
(* Handlers that create or write an account know its id, and their         *)
(* organisation is one.                                                    *)
Holding(m) == adm[m].phase \in {"create", "index", "store", "extinfo"}
Owning(m)  == \/ Holding(m)
              \/ adm[m].phase \in {"answered", "dropped"} /\ adm[m].org # NoOrg

Chosen == \A m \in Admin :
    /\ adm[m].phase \in {"list", "found"} \/ Holding(m)
       => adm[m].org \in Org
    /\ Deleting(m) => adm[m].org = NoOrg

(* What is absent, or not drawn yet, or being created, belongs to no       *)
(* organisation.                                                           *)
OrgWritten ==
    /\ \A i \in Id : ~ hash[i].exists \/ i \notin used => hash[i].org = NoOrg
    /\ \A m \in Admin : Creating(m) => hash[adm[m].id].org = NoOrg

(* Only ids that are or were listed are looked at or written.              *)
WasListed == \A m \in Admin :
    /\ adm[m].phase \in {"store", "extinfo"} => adm[m].id \in index \cup deleted
    /\ adm[m].phase = "found" => adm[m].todo \subseteq index \cup deleted

(* Of organisation o, if no two requests look for its account at a time    *)
(* and no search passes over a hash that it cannot read, whatever commands *)
(* that write fail:                                                        *)
(* at most one handler is at work, there is at most one account, a handler *)
(* that still looks for it has not passed it, and one that has found or    *)
(* created it has the only one.                                            *)
Of(i, o) == hash[i].org = o

OrderlyOf(o) ==
    /\ \A m, n \in Admin : Searching(m, o) /\ Searching(n, o) => m = n
    /\ \A i, j \in index : Of(i, o) /\ Of(j, o) => i = j
    /\ \A m \in Admin : adm[m].phase = "found" /\ adm[m].org = o =>
          /\ \A i \in index : Of(i, o) => i \in adm[m].todo
          /\ \A i, j \in adm[m].todo \cup index : Of(i, o) /\ Of(j, o) => i = j
    /\ \A m \in Admin : Holding(m) /\ adm[m].org = o =>
          \A i \in index : Of(i, o) => i = adm[m].id

Orderly == \A o \in Org \ uncertain : OrderlyOf(o)

(* An id belongs to the organisation of everybody who has worked on it.    *)
OneOrg ==
    /\ \A m \in Admin : Owning(m) =>
          /\ adm[m].id \in used
          /\ hash[adm[m].id].org \in {NoOrg, adm[m].org}
    /\ \A m, n \in Admin :
          Owning(m) /\ Owning(n) /\ adm[m].id = adm[n].id => adm[m].org = adm[n].org

(* It is in the index with what has been written, or a deletion has        *)
(* removed its hash or its id.                                             *)
Gone(i) == i \in deleted \cup struck

Here(m) ==
    /\ adm[m].id \in index
    /\ adm[m].phase \in {"extinfo", "answered", "dropped"} => hash[adm[m].id].token
    /\ adm[m].phase = "answered" => hash[adm[m].id].org = adm[m].org

Pooled ==
    \A m \in Admin : Owning(m) /\ ~ Creating(m) => Gone(adm[m].id) \/ Here(m)

PoolInv == RegistryInv /\ Chosen /\ OrgWritten /\ WasListed /\ Orderly /\ OneOrg /\ Pooled

LEMMA InitPool == Init => PoolInv
<1> SUFFICES ASSUME Init PROVE PoolInv
  OBVIOUS
<1>1. RegistryInv
  BY InitRegistry
<1>2. /\ \A m \in Admin : adm[m].phase = "idle"
      /\ \A i \in Id : hash[i].org = NoOrg
      /\ index = {}
  BY DEF Init, Idle, Absent
<1>3. Chosen /\ OrgWritten /\ WasListed /\ OneOrg /\ Pooled
  BY <1>2 DEF Chosen, OrgWritten, WasListed, OneOrg, Pooled, Owning, Holding, Deleting,
              Creating
<1>4. Orderly
  BY <1>2 DEF Orderly, OrderlyOf, Searching, Holding
<1> QED
  BY <1>1, <1>3, <1>4 DEF PoolInv

(* Steps that give nobody in the index an organisation, and after which    *)
(* nobody looks for one, or has it, who did not before.                    *)
LEMMA OrderlyKept ==
    ASSUME Orderly, uncertain \subseteq uncertain',
           \A i \in index', o \in Org : Of(i, o)' => i \in index /\ Of(i, o),
           \A n \in Admin, o \in Org : Searching(n, o)' => Searching(n, o),
           \A n \in Admin, o \in Org \ uncertain' :
              adm'[n].phase = "found" /\ adm'[n].org = o =>
              /\ adm[n].phase = "found" /\ adm[n].org = o
              /\ adm'[n].todo \subseteq adm[n].todo
              /\ \A i \in adm[n].todo : Of(i, o)' => Of(i, o)
              /\ \A i \in adm[n].todo \ adm'[n].todo : ~ Of(i, o),
           \A n \in Admin : Holding(n)' =>
              Holding(n) /\ adm'[n].org = adm[n].org /\ adm'[n].id = adm[n].id
    PROVE  Orderly'
<1> SUFFICES ASSUME NEW o \in Org \ uncertain' PROVE OrderlyOf(o)'
  BY DEF Orderly
<1>1. OrderlyOf(o)
  BY DEF Orderly
<1>2. \A m, n \in Admin : Searching(m, o)' /\ Searching(n, o)' => m = n
  BY <1>1 DEF OrderlyOf
<1>3. \A i, j \in index' : Of(i, o)' /\ Of(j, o)' => i = j
  BY <1>1 DEF OrderlyOf
<1>4. ASSUME NEW m \in Admin, adm'[m].phase = "found", adm'[m].org = o
      PROVE  /\ \A i \in index' : Of(i, o)' => i \in adm'[m].todo
             /\ \A i, j \in adm'[m].todo \cup index' : Of(i, o)' /\ Of(j, o)' => i = j
  BY <1>1, <1>4 DEF OrderlyOf
<1>5. ASSUME NEW m \in Admin, Holding(m)', adm'[m].org = o
      PROVE  \A i \in index' : Of(i, o)' => i = adm'[m].id
  BY <1>1, <1>5 DEF OrderlyOf
<1> QED
  BY <1>2, <1>3, <1>4, <1>5 DEF OrderlyOf

(* Every step of a handler or a reader keeps it.                           *)
LEMMA StepPool == PoolInv /\ [Next]_vars => PoolInv'
<1> SUFFICES ASSUME PoolInv, [Next]_vars PROVE PoolInv'
  OBVIOUS
<1>r. RegistryInv /\ RegistryInv'
  BY StepRegistry DEF PoolInv
<1>t. /\ hash \in [Id -> Hash] /\ adm \in [Admin -> AdminState]
      /\ index \subseteq used /\ used \subseteq Id /\ deleted \subseteq used
      /\ NoOrg \notin Org
  BY <1>r, RegistryAssumption DEF RegistryInv, TypeOK
<1>i. /\ Named /\ CreatedOnce /\ DeletedWasThere /\ Chosen /\ OrgWritten /\ WasListed
      /\ Orderly /\ OneOrg /\ Pooled
  BY <1>r DEF RegistryInv, PoolInv
<1> USE DEF pool
<1>1. ASSUME NEW m \in Admin, Submit(m) \/ CookieOAuth(m) \/ ListFails(m)
      PROVE PoolInv'
  <2>1. /\ adm'[m].phase \in {"exchange", "list", "failed"}
        /\ adm'[m].phase = "list" => adm'[m].org \in Org
        /\ \A n \in Admin \ {m} : adm'[n] = adm[n]
    <3>1. CASE Submit(m)
      BY <3>1, <1>t DEF Submit, Idle
    <3>2. ASSUME NEW o \in Choice, adm' = [adm EXCEPT ![m].phase = "list", ![m].org = o]
          PROVE  /\ adm'[m].phase = "list" /\ adm'[m].org \in Org
                 /\ \A n \in Admin \ {m} : adm'[n] = adm[n]
      BY <3>2, <1>t DEF Choice, AdminState
    <3>3. CASE Goto(m, "failed")
      BY <3>3, <1>t DEF Goto, AdminState
    <3> QED
      BY <1>1, <3>1, <3>2, <3>3 DEF CookieOAuth, ListFails
  <2>2. UNCHANGED << hash, index, used, deleted, struck, uncertain >>
    BY <1>1 DEF Submit, CookieOAuth, ListFails
  <2>3. Chosen' /\ OrgWritten' /\ WasListed' /\ OneOrg'
    BY <2>1, <2>2, <1>i DEF Chosen, Creating, Deleting, OrgWritten, WasListed, OneOrg, Owning,
                            Holding
  <2>4. Orderly'
    BY <2>1, <2>2, <1>i, OrderlyKept DEF Searching, Holding, Of
  <2>5. Pooled'
    BY <2>1, <2>2, <1>i DEF Pooled, Owning, Holding, Creating, Gone, Here
  <2> QED
    BY <1>r, <2>3, <2>4, <2>5 DEF PoolInv
<1>2. ASSUME NEW m \in Admin, List(m) PROVE PoolInv'
  <2>1. /\ adm[m].phase = "list" /\ adm'[m].phase = "found"
        /\ adm'[m].org = adm[m].org /\ adm'[m].todo = index
        /\ \A n \in Admin \ {m} : adm'[n] = adm[n]
    BY <1>2, <1>t DEF List, AdminState
  <2>2. /\ UNCHANGED << hash, index, used, deleted, struck >>
        /\ uncertain' = uncertain \cup
             { o \in Org : o = adm[m].org /\ \E n \in Admin : Searching(n, o) }
    BY <1>2 DEF List
  <2>3. Chosen' /\ OrgWritten' /\ WasListed' /\ OneOrg'
    BY <2>1, <2>2, <1>i DEF Chosen, Creating, Deleting, OrgWritten, WasListed, OneOrg, Owning,
                            Holding
  <2>4. ASSUME NEW o \in Org \ uncertain' PROVE OrderlyOf(o)'
    <3>1. OrderlyOf(o)
      BY <2>2, <2>4, <1>i DEF Orderly
    <3>2. o = adm[m].org => \A n \in Admin : ~ Searching(n, o)
      BY <2>2, <2>4
    <3>3. \A k, n \in Admin : Searching(k, o)' /\ Searching(n, o)' => k = n
      BY <3>1, <3>2, <2>1 DEF OrderlyOf, Searching
    <3>4. \A k \in Admin : Holding(k)' /\ adm'[k].org = o =>
             \A i \in index' : Of(i, o)' => i = adm'[k].id
      BY <3>1, <2>1, <2>2 DEF OrderlyOf, Holding, Of
    <3>5. \A k \in Admin : adm'[k].phase = "found" /\ adm'[k].org = o =>
             /\ \A i \in index' : Of(i, o)' => i \in adm'[k].todo
             /\ \A i, j \in adm'[k].todo \cup index' : Of(i, o)' /\ Of(j, o)' => i = j
      BY <3>1, <2>1, <2>2 DEF OrderlyOf, Of
    <3>6. \A i, j \in index' : Of(i, o)' /\ Of(j, o)' => i = j
      BY <3>1, <2>2 DEF OrderlyOf, Of
    <3> QED
      BY <3>3, <3>4, <3>5, <3>6 DEF OrderlyOf
  <2>5. Orderly'
    BY <2>2, <2>4 DEF Orderly
  <2>6. Pooled'
    BY <2>1, <2>2, <1>i DEF Pooled, Owning, Holding, Creating, Gone, Here
  <2> QED
    BY <1>r, <2>3, <2>5, <2>6 DEF PoolInv
<1>3. ASSUME NEW m \in Admin, NEW i \in Id, Compare(m, i), ~ Matches(i, adm[m].org)
      PROVE PoolInv'
  <2>1. /\ adm[m].phase = "found" /\ adm'[m].phase = "found"
        /\ adm'[m].org = adm[m].org /\ adm'[m].todo = adm[m].todo \ {i}
        /\ \A n \in Admin \ {m} : adm'[n] = adm[n]
    BY <1>3, <1>t DEF Compare, AdminState
  <2>2. UNCHANGED << hash, index, used, deleted, struck, uncertain >>
    BY <1>3 DEF Compare
  <2>3. Chosen' /\ OrgWritten' /\ WasListed' /\ OneOrg'
    BY <2>1, <2>2, <1>i DEF Chosen, Creating, Deleting, OrgWritten, WasListed, OneOrg, Owning,
                            Holding
  <2>4. \A o \in Org : o = adm[m].org => ~ Of(i, o)
    BY <1>3, <1>i, <1>t DEF Matches, Of, OrgWritten
  <2>5. Orderly'
    BY <2>1, <2>2, <2>4, <1>i, OrderlyKept DEF Searching, Holding, Of
  <2>6. Pooled'
    BY <2>1, <2>2, <1>i DEF Pooled, Owning, Holding, Creating, Gone, Here
  <2> QED
    BY <1>r, <2>3, <2>5, <2>6 DEF PoolInv
<1>4. ASSUME NEW m \in Admin, NEW i \in Id, Compare(m, i), Matches(i, adm[m].org)
      PROVE PoolInv'
  <2>1. /\ adm[m].phase = "found" /\ adm'[m].phase = "store"
        /\ i \in adm[m].todo /\ adm'[m].id = i /\ adm'[m].org = adm[m].org
        /\ \A n \in Admin \ {m} : adm'[n] = adm[n]
    BY <1>4, <1>t DEF Compare, AdminState
  <2>2. UNCHANGED << hash, index, used, deleted, struck, uncertain >>
    BY <1>4 DEF Compare
  <2>3. /\ adm[m].org \in Org /\ hash[i].org = adm[m].org
        /\ i \in index \cup deleted
    BY <2>1, <1>4, <1>i DEF Matches, Chosen, WasListed
  <2>4. Chosen' /\ OrgWritten' /\ WasListed'
    BY <2>1, <2>2, <2>3, <1>i DEF Chosen, Creating, Deleting, OrgWritten, WasListed, Holding
  <2>5. OneOrg'
    <3>1. \A n \in Admin : Owning(n) /\ adm[n].id = i => adm[n].org = adm[m].org
      BY <2>3, <1>i, <1>t DEF OneOrg
    <3>2. \A n \in Admin \ {m} : Owning(n)' <=> Owning(n)
      BY <2>1 DEF Owning, Holding
    <3> QED
      BY <3>1, <3>2, <2>1, <2>2, <2>3, <1>i, <1>t DEF OneOrg
  <2>6. ASSUME NEW o \in Org \ uncertain' PROVE OrderlyOf(o)'
    <3>1. OrderlyOf(o)
      BY <2>2, <2>6, <1>i DEF Orderly
    <3>2. \A k \in Admin : Searching(k, o)' => Searching(k, o)
      BY <2>1 DEF Searching
    <3>3. \A k, n \in Admin : Searching(k, o)' /\ Searching(n, o)' => k = n
      BY <3>1, <3>2 DEF OrderlyOf
    <3>4. ASSUME NEW k \in Admin, Holding(k)', adm'[k].org = o
          PROVE  \A j \in index' : Of(j, o)' => j = adm'[k].id
      <4>1. CASE k = m
        BY <4>1, <3>1, <3>4, <2>1, <2>2, <2>3 DEF OrderlyOf, Of
      <4>2. CASE k # m
        BY <4>2, <3>1, <3>4, <2>1, <2>2 DEF OrderlyOf, Holding, Of
      <4> QED
        BY <4>1, <4>2
    <3>5. \A k \in Admin : adm'[k].phase = "found" /\ adm'[k].org = o =>
             /\ \A j \in index' : Of(j, o)' => j \in adm'[k].todo
             /\ \A j, l \in adm'[k].todo \cup index' : Of(j, o)' /\ Of(l, o)' => j = l
      BY <3>1, <2>1, <2>2 DEF OrderlyOf, Of
    <3>6. \A j, l \in index' : Of(j, o)' /\ Of(l, o)' => j = l
      BY <3>1, <2>2 DEF OrderlyOf, Of
    <3> QED
      BY <3>3, <3>4, <3>5, <3>6 DEF OrderlyOf
  <2>7. Orderly'
    BY <2>2, <2>6 DEF Orderly
  <2>8. Pooled'
    <3>1. \A n \in Admin \ {m} : Owning(n)' /\ ~ Creating(n)' => Owning(n) /\ ~ Creating(n)
      BY <2>1 DEF Owning, Holding, Creating
    <3>2. \A j \in Id : Gone(j) => Gone(j)'
      BY <2>1, <2>2 DEF Gone
    <3>3. \A n \in Admin \ {m} : Here(n) => Here(n)'
      BY <2>1, <2>2 DEF Here
    <3>4. Gone(i)' \/ Here(m)'
      BY <2>1, <2>2, <2>3 DEF Gone, Here
    <3> QED
      BY <3>1, <3>2, <3>3, <3>4, <2>1, <2>2, <1>i, <1>t DEF Pooled, AdminState, OneOrg
  <2> QED
    BY <1>r, <2>4, <2>5, <2>7, <2>8 DEF PoolInv
<1>5. ASSUME NEW m \in Admin, NotFound(m) PROVE PoolInv'
  <2>1. PICK i \in Id \ used :
           /\ used' = used \cup {i}
           /\ adm' = [adm EXCEPT ![m].phase = "create", ![m].id = i]
    BY <1>5 DEF NotFound
  <2>2. /\ adm[m].phase = "found" /\ adm[m].todo = {} /\ adm'[m].phase = "create"
        /\ adm'[m].id = i /\ adm'[m].org = adm[m].org
        /\ \A n \in Admin \ {m} : adm'[n] = adm[n]
        /\ UNCHANGED << hash, index, deleted, struck, uncertain >>
    BY <2>1, <1>5, <1>t DEF NotFound, AdminState
  <2>3. adm[m].org \in Org
    BY <2>2, <1>i DEF Chosen
  <2>4. Chosen' /\ OrgWritten' /\ WasListed'
    BY <2>1, <2>2, <2>3, <1>i DEF Chosen, Creating, Deleting, OrgWritten, WasListed, Holding
  <2>5. hash[i].org = NoOrg
    BY <2>1, <1>i DEF OrgWritten
  <2>6. OneOrg'
    <3>1. \A n \in Admin : Owning(n) => adm[n].id # i
      BY <2>1, <1>i DEF OneOrg
    <3>2. \A n \in Admin \ {m} : Owning(n)' <=> Owning(n)
      BY <2>2 DEF Owning, Holding
    <3>3. \A n \in Admin : Owning(n)' =>
             adm'[n].id \in used' /\ hash'[adm'[n].id].org \in {NoOrg, adm'[n].org}
      <4>1. ASSUME NEW n \in Admin, n # m, Owning(n)'
            PROVE  adm'[n].id \in used' /\ hash'[adm'[n].id].org \in {NoOrg, adm'[n].org}
        <5>1. Owning(n) /\ adm'[n] = adm[n] /\ hash' = hash
          BY <4>1, <3>2, <2>2
        <5>2. adm[n].id \in used /\ hash[adm[n].id].org \in {NoOrg, adm[n].org}
          BY <5>1, <1>i DEF OneOrg
        <5> QED
          BY <5>1, <5>2, <2>1
      <4>2. adm'[m].id \in used' /\ hash'[adm'[m].id].org \in {NoOrg, adm'[m].org}
        BY <2>1, <2>2, <2>5
      <4> QED
        BY <4>1, <4>2
    <3>4. \A k, n \in Admin : Owning(k)' /\ Owning(n)' /\ adm'[k].id = adm'[n].id
             => adm'[k].org = adm'[n].org
      BY <3>1, <3>2, <2>2, <1>i DEF OneOrg
    <3> QED
      BY <3>3, <3>4 DEF OneOrg
  <2>7. ASSUME NEW o \in Org \ uncertain' PROVE OrderlyOf(o)'
    <3>1. OrderlyOf(o)
      BY <2>2, <2>7, <1>i DEF Orderly
    <3>2. \A k \in Admin : Searching(k, o)' => Searching(k, o)
      BY <2>2 DEF Searching
    <3>3. \A k, n \in Admin : Searching(k, o)' /\ Searching(n, o)' => k = n
      BY <3>1, <3>2 DEF OrderlyOf
    <3>4. ASSUME NEW k \in Admin, Holding(k)', adm'[k].org = o
          PROVE  \A j \in index' : Of(j, o)' => j = adm'[k].id
      <4>1. CASE k = m
        BY <4>1, <3>1, <3>4, <2>2, <2>3 DEF OrderlyOf, Of
      <4>2. CASE k # m
        BY <4>2, <3>1, <3>4, <2>2 DEF OrderlyOf, Holding, Of
      <4> QED
        BY <4>1, <4>2
    <3>5. \A k \in Admin : adm'[k].phase = "found" /\ adm'[k].org = o =>
             /\ \A j \in index' : Of(j, o)' => j \in adm'[k].todo
             /\ \A j, l \in adm'[k].todo \cup index' : Of(j, o)' /\ Of(l, o)' => j = l
      BY <3>1, <2>2 DEF OrderlyOf, Of
    <3>6. \A j, l \in index' : Of(j, o)' /\ Of(l, o)' => j = l
      BY <3>1, <2>2 DEF OrderlyOf, Of
    <3> QED
      BY <3>3, <3>4, <3>5, <3>6 DEF OrderlyOf
  <2>8. Orderly'
    BY <2>2, <2>7 DEF Orderly
  <2>9. Pooled'
    BY <2>2, <1>i DEF Pooled, Owning, Holding, Creating, Gone, Here
  <2> QED
    BY <1>r, <2>4, <2>6, <2>8, <2>9 DEF PoolInv
<1>6. ASSUME NEW m \in Admin, NEW r \in Result, CreateHash(m, r) PROVE PoolInv'
  <2>1. /\ adm[m].phase = "create" /\ adm'[m].phase = "index"
        /\ adm'[m].id = adm[m].id /\ adm'[m].org = adm[m].org
        /\ \A n \in Admin \ {m} : adm'[n] = adm[n]
        /\ UNCHANGED << index, used, deleted, struck, uncertain >>
    BY <1>6, <1>t DEF CreateHash, AdminState
  <2>2. /\ adm[m].id \in used \ (index \cup deleted)
        /\ hash[adm[m].id].org = NoOrg
        /\ hash' = hash \/ hash' = [hash EXCEPT ![adm[m].id] = Created]
    BY <2>1, <1>6, <1>i DEF CreateHash, Write, CreatedOnce, Creating, OrgWritten
  <2>3. \A i \in Id : hash'[i].org = IF i = adm[m].id THEN NoOrg ELSE hash[i].org
    BY <2>2, <1>t DEF Created
  <2>4. Chosen' /\ WasListed'
    BY <2>1, <1>i DEF Chosen, Deleting, WasListed, Holding
  <2>5. OrgWritten'
    <3>1. \A i \in Id : i # adm[m].id => hash'[i] = hash[i]
      BY <2>2, <1>t
    <3>2. \A n \in Admin : Creating(n)' => /\ Creating(n) /\ adm[n].id \in Id
                                          /\ adm'[n].id = adm[n].id
      BY <2>1, <1>i DEF Creating, Named, Working
    <3>3. \A n \in Admin : Creating(n)' => hash'[adm'[n].id].org = NoOrg
      BY <3>2, <2>3, <1>i DEF OrgWritten
    <3>4. \A i \in Id : ~ hash'[i].exists \/ i \notin used' => hash'[i].org = NoOrg
      BY <3>1, <2>1, <2>3, <1>i DEF OrgWritten
    <3> QED
      BY <3>3, <3>4 DEF OrgWritten
  <2>6. OneOrg'
    <3>1. \A n \in Admin : Owning(n)' <=> Owning(n)
      BY <2>1 DEF Owning, Holding
    <3>2. \A n \in Admin : adm'[n].id = adm[n].id /\ adm'[n].org = adm[n].org
      BY <2>1
    <3> QED
      BY <3>1, <3>2, <2>1, <2>3, <1>i, <1>t DEF OneOrg
  <2>7. Orderly'
    <3>1. \A i \in Id, o \in Org : Of(i, o)' => Of(i, o)
      BY <2>3, <1>t DEF Of
    <3>2. \A n \in Admin : adm'[n].phase = "found" => adm'[n] = adm[n]
      BY <2>1
    <3>3. \A n \in Admin, o \in Org : Searching(n, o)' => Searching(n, o)
      BY <2>1 DEF Searching
    <3>4. \A n \in Admin : Holding(n)' =>
             Holding(n) /\ adm'[n].org = adm[n].org /\ adm'[n].id = adm[n].id
      BY <2>1 DEF Holding
    <3>5. \A n \in Admin : adm[n].todo \subseteq Id
      BY <1>t DEF AdminState
    <3> QED
      BY <3>1, <3>2, <3>3, <3>4, <3>5, <2>1, <1>i, <1>t, OrderlyKept
  <2>8. Pooled'
    <3> SUFFICES ASSUME NEW n \in Admin, Owning(n)', ~ Creating(n)'
                 PROVE  Gone(adm[n].id)' \/ Here(n)'
      BY <2>1 DEF Pooled
    <3>1. n # m /\ adm'[n] = adm[n] /\ Owning(n) /\ ~ Creating(n)
      BY <2>1 DEF Owning, Holding, Creating
    <3>2. Gone(adm[n].id) \/ Here(n)
      BY <3>1, <1>i DEF Pooled
    <3>3. Gone(adm[n].id) => Gone(adm[n].id)'
      BY <3>1, <2>1 DEF Gone
    <3>4. Here(n) => Here(n)'
      BY <3>1, <2>1, <2>2, <1>t DEF Here
    <3> QED
      BY <3>2, <3>3, <3>4
  <2> QED
    BY <1>r, <2>4, <2>5, <2>6, <2>7, <2>8 DEF PoolInv
<1>7. ASSUME NEW m \in Admin, NEW r \in Result, CreateIndex(m, r) PROVE PoolInv'
  <2>1. /\ adm[m].phase = "index" /\ adm'[m].phase \in {"store", "failed"}
        /\ adm'[m].id = adm[m].id /\ adm'[m].org = adm[m].org
        /\ \A n \in Admin \ {m} : adm'[n] = adm[n]
        /\ index' \subseteq index \cup {adm[m].id} /\ index \subseteq index'
        /\ adm'[m].phase = "store" => adm[m].id \in index'
        /\ UNCHANGED << hash, used, deleted, struck, uncertain >>
    BY <1>7, <1>t DEF CreateIndex, Goto, AdminState, Result
  <2>2. hash[adm[m].id].org = NoOrg
    BY <2>1, <1>i DEF OrgWritten, Creating
  <2>3. Chosen' /\ WasListed' /\ OrgWritten'
    BY <2>1, <1>i DEF Chosen, Creating, Deleting, WasListed, OrgWritten, Holding
  <2>4. OneOrg'
    <3>1. \A n \in Admin : Owning(n)' => Owning(n)
      BY <2>1 DEF Owning, Holding
    <3>2. \A n \in Admin : adm'[n].id = adm[n].id /\ adm'[n].org = adm[n].org
      BY <2>1
    <3> QED
      BY <3>1, <3>2, <2>1, <1>i DEF OneOrg
  <2>5. Orderly'
    <3>1. \A i \in index', o \in Org : Of(i, o)' => i \in index /\ Of(i, o)
      BY <2>1, <2>2, <1>t DEF Of
    <3>2. \A n \in Admin : adm'[n].phase = "found" => adm'[n] = adm[n]
      BY <2>1
    <3>3. \A n \in Admin, o \in Org : Searching(n, o)' => Searching(n, o)
      BY <2>1 DEF Searching
    <3>4. \A n \in Admin : Holding(n)' =>
             Holding(n) /\ adm'[n].org = adm[n].org /\ adm'[n].id = adm[n].id
      BY <2>1 DEF Holding
    <3>5. \A i, o : Of(i, o)' => Of(i, o)
      BY <2>1 DEF Of
    <3>6. \A n \in Admin, o \in Org \ uncertain' :
             adm'[n].phase = "found" /\ adm'[n].org = o =>
                /\ adm[n].phase = "found" /\ adm[n].org = o
                /\ adm'[n].todo \subseteq adm[n].todo
                /\ \A i \in adm[n].todo : Of(i, o)' => Of(i, o)
                /\ \A i \in adm[n].todo \ adm'[n].todo : ~ Of(i, o)
      BY <3>2, <3>5
    <3>7. uncertain \subseteq uncertain' /\ Orderly
      BY <2>1, <1>i
    <3> QED
      BY <3>1, <3>3, <3>4, <3>6, <3>7, OrderlyKept
  <2>6. Pooled'
    <3> SUFFICES ASSUME NEW n \in Admin, Owning(n)', ~ Creating(n)'
                 PROVE  Gone(adm[n].id)' \/ Here(n)'
      BY <2>1 DEF Pooled
    <3>1. CASE n = m
      BY <3>1, <2>1 DEF Here, Owning, Holding
    <3>2. CASE n # m
      <4>1. adm'[n] = adm[n] /\ Owning(n) /\ ~ Creating(n)
        BY <3>2, <2>1 DEF Owning, Holding, Creating
      <4>2. Gone(adm[n].id) => Gone(adm[n].id)'
        BY <4>1, <2>1 DEF Gone
      <4>3. Here(n) => Here(n)'
        BY <4>1, <2>1 DEF Here
      <4> QED
        BY <4>1, <4>2, <4>3, <1>i DEF Pooled
    <3> QED
      BY <3>1, <3>2
  <2> QED
    BY <1>r, <2>3, <2>4, <2>5, <2>6 DEF PoolInv
<1>8. ASSUME NEW m \in Admin, NEW r \in Result, StoreTokens(m, r) PROVE PoolInv'
  <2>1. /\ adm[m].phase = "store" /\ adm'[m].phase \in {"extinfo", "failed"}
        /\ adm'[m].id = adm[m].id /\ adm'[m].org = adm[m].org
        /\ \A n \in Admin \ {m} : adm'[n] = adm[n]
        /\ UNCHANGED << index, used, deleted, struck, uncertain >>
        /\ \/ hash' = [hash EXCEPT ![adm[m].id] = Stored(@)]
           \/ hash' = hash /\ adm'[m].phase = "failed"
    BY <1>8, <1>t DEF StoreTokens, Write, Goto, AdminState, Result
  <2>2. adm[m].id \in Id
    BY <2>1, <1>i DEF Named, Working
  <2>3. /\ \A i \in Id : /\ hash'[i].org = hash[i].org
                         /\ hash[i].exists => hash'[i].exists
                         /\ hash[i].token => hash'[i].token
        /\ adm'[m].phase = "extinfo" => hash'[adm[m].id].token
    <3>1. CASE hash' = [hash EXCEPT ![adm[m].id] = Stored(@)]
      <4>1. \A i \in Id : hash'[i] = IF i = adm[m].id THEN Stored(hash[i]) ELSE hash[i]
        BY <3>1, <2>2, <1>t
      <4>2. \A h \in Hash : Stored(h).org = h.org /\ Stored(h).exists /\ Stored(h).token
        BY DEF Hash, Stored
      <4> QED
        BY <4>1, <4>2, <2>2, <1>t
    <3>2. CASE hash' = hash /\ adm'[m].phase = "failed"
      BY <3>2
    <3> QED
      BY <3>1, <3>2, <2>1
  <2>4. \A n \in Admin : /\ adm'[n].id = adm[n].id /\ adm'[n].org = adm[n].org
                         /\ Owning(n)' => Owning(n)
                         /\ Holding(n)' => Holding(n)
    BY <2>1 DEF Owning, Holding
  <2>5. Chosen' /\ WasListed'
    BY <2>1, <1>i DEF Chosen, Deleting, WasListed, Holding
  <2>6. OrgWritten'
    <3>1. \A n \in Admin : Creating(n)' => Creating(n) /\ adm[n].id \in Id
      BY <2>1, <1>i DEF Named, Working, Creating
    <3> QED
      BY <3>1, <2>1, <2>3, <2>4, <1>i DEF OrgWritten
  <2>7. OneOrg'
    BY <2>1, <2>3, <2>4, <1>i, <1>t DEF OneOrg
  <2>8. Orderly'
    <3>1. \A i \in Id, o \in Org : Of(i, o)' <=> Of(i, o)
      BY <2>3 DEF Of
    <3>2. \A n \in Admin : adm'[n].phase = "found" => adm'[n] = adm[n]
      BY <2>1
    <3>3. \A n \in Admin, o \in Org : Searching(n, o)' => Searching(n, o)
      BY <2>1 DEF Searching
    <3>4. \A n \in Admin : adm[n].todo \subseteq Id
      BY <1>t DEF AdminState
    <3> QED
      BY <3>1, <3>2, <3>3, <3>4, <2>1, <2>4, <1>i, <1>t, OrderlyKept
  <2>9. Pooled'
    <3> SUFFICES ASSUME NEW n \in Admin, Owning(n)', ~ Creating(n)'
                 PROVE  Gone(adm[n].id)' \/ Here(n)'
      BY <2>1 DEF Pooled
    <3>1. Owning(n) /\ ~ Creating(n)
      BY <2>1, <2>4 DEF Creating
    <3>2. Gone(adm[n].id) => Gone(adm[n].id)'
      BY <2>1, <2>4 DEF Gone
    <3>3. Here(n) => Here(n)'
      BY <2>1, <2>3, <2>4, <1>t DEF Here
    <3> QED
      BY <3>1, <3>2, <3>3, <1>i DEF Pooled
  <2> QED
    BY <1>r, <2>5, <2>6, <2>7, <2>8, <2>9 DEF PoolInv
<1>9. ASSUME NEW m \in Admin, NEW r \in Result, UpdateExtInfo(m, r) PROVE PoolInv'
  <2>1. /\ adm[m].phase = "extinfo" /\ adm'[m].phase \in {"answered", "dropped"}
        /\ adm'[m].id = adm[m].id /\ adm'[m].org = adm[m].org
        /\ \A n \in Admin \ {m} : adm'[n] = adm[n]
        /\ UNCHANGED << index, used, deleted, struck, uncertain >>
        /\ \/ hash' = [hash EXCEPT ![adm[m].id] = Described(@, adm[m].org)]
           \/ hash' = hash /\ adm'[m].phase = "dropped"
    BY <1>9, <1>t DEF UpdateExtInfo, Write, Goto, AdminState, Result
  <2>2. adm[m].id \in Id /\ adm[m].org \in Org /\ Owning(m) /\ adm[m].id \in used
    BY <2>1, <1>i DEF Named, Working, Chosen, Holding, Owning, OneOrg
  <2>3. /\ \A i \in Id : /\ i # adm[m].id => hash'[i].org = hash[i].org
                         /\ hash[i].exists => hash'[i].exists
                         /\ hash'[i].token = hash[i].token
        /\ \/ hash'[adm[m].id].org = adm[m].org /\ hash'[adm[m].id].exists
           \/ hash' = hash /\ adm'[m].phase = "dropped"
    <3>1. CASE hash' = [hash EXCEPT ![adm[m].id] = Described(@, adm[m].org)]
      <4>1. \A i \in Id : hash'[i] = IF i = adm[m].id THEN Described(hash[i], adm[m].org)
                                     ELSE hash[i]
        BY <3>1, <2>2, <1>t
      <4>2. \A h \in Hash : /\ Described(h, adm[m].org).org = adm[m].org
                           /\ Described(h, adm[m].org).exists
                           /\ Described(h, adm[m].org).token = h.token
        BY DEF Hash, Described
      <4> QED
        BY <4>1, <4>2, <2>2, <1>t
    <3>2. CASE hash' = hash /\ adm'[m].phase = "dropped"
      BY <3>2
    <3> QED
      BY <3>1, <3>2, <2>1
  <2>4. \A n \in Admin : /\ adm'[n].id = adm[n].id /\ adm'[n].org = adm[n].org
                         /\ Owning(n)' <=> Owning(n)
                         /\ Holding(n)' => Holding(n) /\ n # m
    BY <2>1, <2>2, <1>t DEF Owning, Holding
  <2>5. Chosen' /\ WasListed'
    BY <2>1, <1>i DEF Chosen, Deleting, WasListed, Holding
  <2>6. OrgWritten'
    <3>1. ASSUME NEW n \in Admin, Creating(n)' PROVE hash'[adm'[n].id].org = NoOrg
      <4>1. Creating(n) /\ adm[n].id \in Id /\ adm[n].id \notin index \cup deleted
        BY <3>1, <2>1, <1>i DEF Named, Working, Creating, CreatedOnce
      <4>2. adm[m].id \in index \cup deleted
        BY <2>1, <1>i DEF WasListed
      <4> QED
        BY <4>1, <4>2, <2>3, <2>4, <1>i DEF OrgWritten
    <3>2. \A i \in Id : ~ hash'[i].exists \/ i \notin used' => hash'[i].org = NoOrg
      BY <2>1, <2>2, <2>3, <1>i DEF OrgWritten
    <3> QED
      BY <3>1, <3>2 DEF OrgWritten
  <2>7. OneOrg'
    <3>1. \A n \in Admin : Owning(n) /\ adm[n].id = adm[m].id => adm[n].org = adm[m].org
      BY <2>2, <1>i DEF OneOrg
    <3> QED
      BY <3>1, <2>1, <2>2, <2>3, <2>4, <1>i, <1>t DEF OneOrg
  <2>8. ASSUME NEW o \in Org \ uncertain' PROVE OrderlyOf(o)'
    <3>1. OrderlyOf(o)
      BY <2>1, <2>8, <1>i DEF Orderly
    <3>2. \A k \in Admin : Searching(k, o)' => Searching(k, o) /\ k # m
      BY <2>1 DEF Searching
    <3>3. \A i \in Id : i # adm[m].id \/ o # adm[m].org => (Of(i, o)' => Of(i, o))
      BY <2>3 DEF Of
    <3>4. CASE o = adm[m].org
      <4>1. Searching(m, o) /\ Holding(m)
        BY <3>4, <2>1 DEF Searching, Holding
      <4>2. \A k \in Admin : ~ Searching(k, o)'
        BY <4>1, <3>1, <3>2 DEF OrderlyOf
      <4>3. \A i \in index : Of(i, o) => i = adm[m].id
        BY <4>1, <3>1, <3>4 DEF OrderlyOf
      <4>4. \A i \in index' : Of(i, o)' => i = adm[m].id
        BY <4>3, <3>3, <2>1, <1>t
      <4>5. \A k \in Admin : adm'[k].org = o => ~ Holding(k)' /\ adm'[k].phase # "found"
        BY <4>2 DEF Searching, Holding
      <4> QED
        BY <4>2, <4>4, <4>5 DEF OrderlyOf
    <3>5. CASE o # adm[m].org
      <4>1. \A i \in Id : Of(i, o)' => Of(i, o)
        BY <3>3, <3>5
      <4>2. \A k \in Admin : adm'[k].phase = "found" => adm'[k] = adm[k] /\ adm[k].todo \subseteq Id
        BY <2>1, <1>t DEF AdminState
      <4>3. \A k, n \in Admin : Searching(k, o)' /\ Searching(n, o)' => k = n
        BY <3>1, <3>2 DEF OrderlyOf
      <4>4. \A i, j \in index' : Of(i, o)' /\ Of(j, o)' => i = j
        BY <4>1, <3>1, <2>1, <1>t DEF OrderlyOf
      <4>5. ASSUME NEW k \in Admin, adm'[k].phase = "found", adm'[k].org = o
            PROVE  /\ \A i \in index' : Of(i, o)' => i \in adm'[k].todo
                   /\ \A i, j \in adm'[k].todo \cup index' : Of(i, o)' /\ Of(j, o)' => i = j
        BY <4>1, <4>2, <4>5, <3>1, <2>1, <1>t DEF OrderlyOf
      <4>6. ASSUME NEW k \in Admin, Holding(k)', adm'[k].org = o
            PROVE  \A i \in index' : Of(i, o)' => i = adm'[k].id
        BY <4>1, <4>6, <3>1, <2>1, <2>4, <1>t DEF OrderlyOf
      <4> QED
        BY <4>3, <4>4, <4>5, <4>6 DEF OrderlyOf
    <3> QED
      BY <3>4, <3>5
  <2>9. Orderly'
    BY <2>1, <2>8 DEF Orderly
  <2>10. Pooled'
    <3> SUFFICES ASSUME NEW n \in Admin, Owning(n)', ~ Creating(n)'
                 PROVE  Gone(adm[n].id)' \/ Here(n)'
      BY <2>1 DEF Pooled
    <3>1. Owning(n) /\ ~ Creating(n)
      BY <2>1, <2>4 DEF Creating
    <3>2. Gone(adm[n].id) => Gone(adm[n].id)'
      BY <2>1, <2>4 DEF Gone
    <3>3. adm[n].id = adm[m].id => adm[n].org = adm[m].org
      BY <3>1, <2>2, <1>i DEF OneOrg
    <3>4. Here(n) => Here(n)'
      BY <3>3, <2>1, <2>3, <2>4, <1>t DEF Here
    <3> QED
      BY <3>1, <3>2, <3>4, <1>i DEF Pooled
  <2> QED
    BY <1>r, <2>5, <2>6, <2>7, <2>9, <2>10 DEF PoolInv
<1>10. ASSUME NEW m \in Admin, Delete(m) PROVE PoolInv'
  <2>1. /\ adm'[m].phase \in {"del", "failed"}
        /\ adm'[m].org = NoOrg
        /\ \A n \in Admin \ {m} : adm'[n] = adm[n]
    BY <1>10, <1>t DEF Delete, Idle
  <2>2. UNCHANGED << hash, index, used, deleted, struck, uncertain >>
    BY <1>10 DEF Delete
  <2>3. Chosen' /\ OrgWritten' /\ WasListed' /\ OneOrg'
    BY <2>1, <2>2, <1>i DEF Chosen, Creating, Deleting, OrgWritten, WasListed, OneOrg, Owning,
                            Holding
  <2>4. Orderly'
    BY <2>1, <2>2, <1>i, OrderlyKept DEF Searching, Holding, Of
  <2>5. Pooled'
    BY <2>1, <2>2, <1>i DEF Pooled, Owning, Holding, Creating, Gone, Here
  <2> QED
    BY <1>r, <2>3, <2>4, <2>5 DEF PoolInv
<1>11. ASSUME NEW m \in Admin, NEW r \in Result, DeleteHash(m, r) PROVE PoolInv'
  <2>1. /\ adm[m].phase = "del" /\ adm'[m].phase = "srem" /\ adm'[m].id = adm[m].id
        /\ adm'[m].org = adm[m].org
        /\ \A n \in Admin \ {m} : adm'[n] = adm[n]
        /\ UNCHANGED << index, used, deleted, uncertain >>
        /\ \/ /\ hash' = [hash EXCEPT ![adm[m].id] = Absent]
              /\ struck' = struck \cup {adm[m].id}
           \/ hash' = hash /\ struck' = struck
    BY <1>11, <1>t DEF DeleteHash, Write, AdminState
  <2>2. /\ struck \subseteq struck'
        /\ \A i \in Id : \/ hash'[i] = hash[i]
                         \/ i = adm[m].id /\ i \in struck' /\ hash'[i] = Absent
    BY <2>1, <1>t
  <2>a. Absent.org = NoOrg
    BY DEF Absent
  <2>3. \A i \in Id : hash'[i].org \in {NoOrg, hash[i].org}
    BY <2>a, <2>2
  <2>4. \A n \in Admin : /\ Owning(n)' <=> Owning(n) /\ n # m
                         /\ Owning(n) => adm[n].id \in used /\ adm[n].id \in Id
                         /\ Holding(n)' => Holding(n) /\ adm'[n] = adm[n]
    BY <2>1, <1>i, <1>t DEF Owning, Holding, OneOrg
  <2>5. Chosen' /\ WasListed'
    BY <2>1, <1>i DEF Chosen, Deleting, WasListed, Holding
  <2>6. OrgWritten'
    <3>1. \A n \in Admin : Creating(n)' =>
             adm'[n] = adm[n] /\ adm[n].id \in Id /\ hash[adm[n].id].org = NoOrg
      BY <2>1, <1>i DEF Named, Working, Creating, OrgWritten
    <3>2. \A n \in Admin : Creating(n)' => hash'[adm'[n].id].org = NoOrg
      BY <3>1, <2>3
    <3>3. \A i \in Id : ~ hash'[i].exists \/ i \notin used' => hash'[i].org = NoOrg
      BY <2>a, <2>1, <2>2, <1>i DEF OrgWritten
    <3> QED
      BY <3>2, <3>3 DEF OrgWritten
  <2>7. OneOrg'
    <3>1. \A n \in Admin : n # m => adm'[n] = adm[n]
      BY <2>1
    <3>2. \A n \in Admin : Owning(n)' => hash'[adm'[n].id].org \in {NoOrg, adm'[n].org}
      BY <3>1, <2>3, <2>4, <1>i DEF OneOrg
    <3> QED
      BY <3>1, <3>2, <2>1, <2>4, <1>i DEF OneOrg
  <2>8. Orderly'
    <3>1. \A i \in Id, o \in Org : Of(i, o)' => Of(i, o)
      BY <2>3, <1>t DEF Of
    <3>2. \A n \in Admin : adm'[n].phase = "found" => adm'[n] = adm[n]
      BY <2>1
    <3>3. \A n \in Admin, o \in Org : Searching(n, o)' => Searching(n, o)
      BY <2>1 DEF Searching
    <3>4. \A n \in Admin : adm[n].todo \subseteq Id
      BY <1>t DEF AdminState
    <3> QED
      BY <3>1, <3>2, <3>3, <3>4, <2>1, <2>4, <1>i, <1>t, OrderlyKept
  <2>9. Pooled'
    <3> SUFFICES ASSUME NEW n \in Admin, Owning(n)', ~ Creating(n)'
                 PROVE  Gone(adm[n].id)' \/ Here(n)'
      BY <2>1 DEF Pooled
    <3>1. n # m /\ adm'[n] = adm[n] /\ Owning(n) /\ ~ Creating(n) /\ adm[n].id \in Id
      BY <2>1, <2>4 DEF Creating
    <3>2. Gone(adm[n].id) => Gone(adm[n].id)'
      BY <3>1, <2>1, <2>2 DEF Gone
    <3>3. CASE hash'[adm[n].id] = hash[adm[n].id]
      <4>1. Here(n) => Here(n)'
        BY <3>1, <3>3, <2>1 DEF Here
      <4> QED
        BY <4>1, <3>1, <3>2, <1>i DEF Pooled
    <3>4. CASE adm[n].id \in struck'
      BY <3>1, <3>4 DEF Gone
    <3> QED
      BY <3>1, <3>3, <3>4, <2>2
  <2> QED
    BY <1>r, <2>5, <2>6, <2>7, <2>8, <2>9 DEF PoolInv
<1>12. ASSUME NEW m \in Admin, NEW r \in Result, DeleteIndex(m, r) PROVE PoolInv'
  <2>1. /\ adm[m].phase = "srem" /\ adm'[m].phase \in {"answered", "failed"}
        /\ adm'[m].org = adm[m].org
        /\ \A n \in Admin \ {m} : adm'[n] = adm[n]
        /\ \/ index' = index \ {adm[m].id} /\ deleted' = deleted \cup {adm[m].id}
           \/ index' = index /\ deleted' = deleted
        /\ UNCHANGED << hash, used, struck, uncertain >>
    BY <1>12, <1>t DEF DeleteIndex, Goto, AdminState
  <2>2. adm[m].org = NoOrg
    BY <2>1, <1>i DEF Chosen, Deleting
  <2>3. \A n \in Admin : /\ Owning(n)' => Owning(n) /\ adm'[n] = adm[n]
                         /\ Holding(n)' => Holding(n) /\ adm'[n] = adm[n]
    BY <2>1, <2>2 DEF Owning, Holding
  <2>4. Chosen' /\ WasListed' /\ OrgWritten'
    BY <2>1, <1>i DEF Chosen, Creating, Deleting, WasListed, OrgWritten, Holding
  <2>5. OneOrg'
    BY <2>1, <2>3, <1>i DEF OneOrg
  <2>6. Orderly'
    <3>1. \A n \in Admin : adm'[n].phase = "found" => adm'[n] = adm[n]
      BY <2>1
    <3>2. \A n \in Admin, o \in Org : Searching(n, o)' => Searching(n, o)
      BY <2>1 DEF Searching
    <3> QED
      BY <3>1, <3>2, <2>1, <2>3, <1>i, OrderlyKept DEF Of
  <2>7. Pooled'
    <3> SUFFICES ASSUME NEW n \in Admin, Owning(n)', ~ Creating(n)'
                 PROVE  Gone(adm[n].id)' \/ Here(n)'
      BY <2>1 DEF Pooled
    <3>1. adm'[n] = adm[n] /\ Owning(n) /\ ~ Creating(n)
      BY <2>3 DEF Creating
    <3>2. Gone(adm[n].id) => Gone(adm[n].id)'
      BY <3>1, <2>1 DEF Gone
    <3>3. Here(n) => Here(n)' \/ Gone(adm[n].id)'
      BY <3>1, <2>1 DEF Here, Gone
    <3> QED
      BY <3>1, <3>2, <3>3, <1>i DEF Pooled
  <2> QED
    BY <1>r, <2>4, <2>5, <2>6, <2>7 DEF PoolInv
<1>13. ASSUME NEW m \in Admin, NEW i \in Id, CompareFails(m, i) PROVE PoolInv'
  <2>1. /\ adm[m].phase = "found" /\ adm'[m].phase = "found"
        /\ adm'[m].org = adm[m].org /\ adm'[m].todo = adm[m].todo \ {i}
        /\ \A n \in Admin \ {m} : adm'[n] = adm[n]
    BY <1>13, <1>t DEF CompareFails, AdminState
  <2>2. /\ UNCHANGED << hash, index, used, deleted, struck >>
        /\ uncertain' = uncertain \cup {adm[m].org}
    BY <1>13 DEF CompareFails
  <2>3. Chosen' /\ OrgWritten' /\ WasListed' /\ OneOrg'
    BY <2>1, <2>2, <1>i DEF Chosen, Creating, Deleting, OrgWritten, WasListed, OneOrg, Owning,
                            Holding
  <2>4. Orderly'
    BY <2>1, <2>2, <1>i, OrderlyKept DEF Searching, Holding, Of
  <2>5. Pooled'
    BY <2>1, <2>2, <1>i DEF Pooled, Owning, Holding, Creating, Gone, Here
  <2> QED
    BY <1>r, <2>3, <2>4, <2>5 DEF PoolInv
<1>14. ASSUME NEW i \in Id, Reader(i) \/ LateWrite(i) PROVE PoolInv'
  <2>1. UNCHANGED << index, used, deleted, struck, adm, uncertain >>
    BY <1>14 DEF Reader, LateWrite
  <2>2. \A k \in Id : /\ hash'[k].org = hash[k].org
                      /\ hash[k].exists => hash'[k].exists
                      /\ hash[k].token => hash'[k].token
    <3>1. CASE Reader(i)
      BY <3>1 DEF Reader
    <3>2. CASE LateWrite(i)
      <4>1. PICK h \in { Stored(hash[i]), Errored(hash[i]), Blocked(hash[i]),
                         Unblocked(hash[i]), Touched(hash[i]) } : hash' = [hash EXCEPT ![i] = h]
        BY <3>2 DEF LateWrite
      <4>2. h.org = hash[i].org /\ h.exists /\ (hash[i].token => h.token)
        BY <4>1, <1>t DEF Hash, Stored, Errored, Blocked, Unblocked, Touched
      <4> QED
        BY <4>1, <4>2, <1>t
    <3> QED
      BY <1>14, <3>1, <3>2
  <2>3. Chosen' /\ WasListed'
    BY <2>1, <1>i DEF Chosen, Deleting, WasListed, Holding
  <2>4. \A n \in Admin : /\ Owning(n)' <=> Owning(n)
                         /\ Owning(n) => adm[n].id \in Id
                         /\ Creating(n) => adm[n].id \in Id
                         /\ Creating(n)' <=> Creating(n)
    BY <2>1, <1>i, <1>t DEF Owning, Holding, OneOrg, Named, Working, Creating
  <2>5. OrgWritten' /\ OneOrg'
    BY <2>1, <2>2, <2>4, <1>i DEF OrgWritten, OneOrg
  <2>6. Orderly'
    <3>1. \A k \in Id, o \in Org : Of(k, o)' <=> Of(k, o)
      BY <2>2 DEF Of
    <3>2. \A n \in Admin : adm[n].todo \subseteq Id
      BY <1>t DEF AdminState
    <3> QED
      BY <3>1, <3>2, <2>1, <1>i, <1>t, OrderlyKept DEF Searching, Holding
  <2>7. Pooled'
    BY <2>1, <2>2, <2>4, <1>i DEF Pooled, Creating, Gone, Here
  <2> QED
    BY <1>r, <2>3, <2>5, <2>6, <2>7 DEF PoolInv
<1>15. CASE UNCHANGED vars
  <2>1. UNCHANGED << hash, index, used, deleted, struck, adm, uncertain >>
    BY <1>15 DEF vars
  <2>2. Chosen' /\ OrgWritten' /\ WasListed' /\ OneOrg'
    BY <2>1, <1>i DEF Chosen, Creating, Deleting, OrgWritten, WasListed, OneOrg, Owning,
                            Holding
  <2>3. Orderly'
    BY <2>1, <1>i, OrderlyKept DEF Searching, Holding, Of
  <2>4. Pooled'
    BY <2>1, <1>i DEF Pooled, Owning, Holding, Creating, Gone, Here
  <2> QED
    BY <1>r, <2>2, <2>3, <2>4 DEF PoolInv
<1> QED
  BY <1>1, <1>2, <1>3, <1>4, <1>5, <1>6, <1>7, <1>8, <1>9, <1>10, <1>11, <1>12,
     <1>13, <1>14, <1>15 DEF Next

LEMMA PoolAlways == Spec => []PoolInv
BY InitPool, StepPool, PTL DEF Spec

(* No two accounts of the pool belong to one organisation, unless two      *)
(* requests looked for its account at the same time or a search for it     *)
(* could not read a hash; any other command may fail.                      *)
THEOREM NoDuplicate == Spec => []OneAccountPerOrg
<1>1. PoolInv => OneAccountPerOrg
  <2> SUFFICES ASSUME PoolInv, NEW i \in index, NEW j \in index,
                      hash[i].org \notin uncertain \cup {NoOrg}, hash[i].org = hash[j].org
               PROVE  i = j
    BY DEF OneAccountPerOrg
  <2>1. hash[i].org \in Org
    BY DEF PoolInv, RegistryInv, TypeOK, Hash
  <2>2. OrderlyOf(hash[i].org)
    BY <2>1 DEF PoolInv, Orderly
  <2> QED
    BY <2>2 DEF OrderlyOf, Of
<1> QED
  BY <1>1, PoolAlways, PTL

(* What an administrator has been told is active is in the pool with       *)
(* tokens, until a deletion removes its hash or its id, whatever commands  *)
(* fail; and with its organisation, unless it is the update of this that   *)
(* has failed.                                                             *)
THEOREM AcknowledgedIsThere == Spec => []SubmittedIsPooled
<1>1. PoolInv => SubmittedIsPooled
  BY DEF PoolInv, SubmittedIsPooled, Pooled, Owning, Creating, Gone, Here
<1> QED
  BY <1>1, PoolAlways, PTL

(* Which organisation a session key stands for does not depend on the      *)
(* order in which they are listed.                                         *)
THEOREM OrderIsImmaterial == ListingOrderIsImmaterial
<1> SUFFICES ASSUME NEW r \in Listing, NEW s \in Listing,
                    NEW i \in DOMAIN r, NEW j \in DOMAIN s,
                    { r[k] : k \in DOMAIN r } = { s[k] : k \in DOMAIN s },
                    Chats(r) # {},
                    \A k, l \in Chats(r) : r[k].caps = r[l].caps => r[k] = r[l],
                    Best(r, i), Best(s, j)
             PROVE  r[i].org = s[j].org
  BY DEF ListingOrderIsImmaterial
<1>a. /\ \A k \in DOMAIN r : r[k] \in { r[x] : x \in DOMAIN r }
      /\ \A l \in DOMAIN s : s[l] \in { s[x] : x \in DOMAIN s }
  OBVIOUS
<1>1. \A k \in DOMAIN r : \E l \in DOMAIN s : s[l] = r[k]
  <2> TAKE k \in DOMAIN r
  <2>1. r[k] \in { s[x] : x \in DOMAIN s }
    BY <1>a
  <2> QED
    BY <2>1
<1>2. \A l \in DOMAIN s : \E k \in DOMAIN r : r[k] = s[l]
  <2> TAKE l \in DOMAIN s
  <2>1. s[l] \in { r[x] : x \in DOMAIN r }
    BY <1>a
  <2> QED
    BY <2>1
<1>3. Chats(s) # {}
  BY <1>1 DEF Chats
<1>4. i \in Chats(r) /\ j \in Chats(s)
  BY <1>3 DEF Best
<1>5. PICK k \in DOMAIN r : r[k] = s[j]
  BY <1>2
<1>6. PICK l \in DOMAIN s : s[l] = r[i]
  BY <1>1
<1>7. k \in Chats(r) /\ l \in Chats(s)
  BY <1>4, <1>5, <1>6 DEF Chats
<1>8. /\ \A x \in DOMAIN r : r[x].caps \in Nat
      /\ \A x \in DOMAIN s : s[x].caps \in Nat
  <2>1. r \in Seq(OrgResponse) /\ s \in Seq(OrgResponse)
    BY RegistryAssumption
  <2>2. /\ \A x \in DOMAIN r : r[x] \in OrgResponse
        /\ \A x \in DOMAIN s : s[x] \in OrgResponse
    BY <2>1
  <2> QED
    BY <2>2 DEF OrgResponse
<1>9. r[k].caps <= r[i].caps /\ s[l].caps <= s[j].caps
  BY <1>4, <1>7, <1>8 DEF Best
<1>10. r[k].caps = r[i].caps
  BY <1>5, <1>6, <1>8, <1>9
<1> QED
  BY <1>4, <1>5, <1>7, <1>10

=============================================================================
