-------------------------- MODULE AccountRegistry --------------------------
(***************************************************************************)
(* The admin API over the account store: adding an account or updating the *)
(* one of the same organisation (handleOAuthAdd, with the OAuth exchange   *)
(* of CookieOAuth), and deleting one, while the rest of the program still  *)
(* writes to the accounts it has read.                                     *)
(*                                                                         *)
(* An account is a hash and an entry in the index set.  Each Redis command *)
(* is a step, those of a pipeline too, which is not a transaction: each of *)
(* them may fail by itself, be executed or not when it does, and the       *)
(* others are executed all the same.  Of the hash we keep what the         *)
(* administrator is told of; schedulable and the deadlines are             *)
(* AccountHealth's.                                                        *)
(***************************************************************************)
EXTENDS Naturals, Sequences, FiniteSets

CONSTANTS
    Id,         \* account ids, which uuid.New draws
    Org,        \* organisation UUIDs
    Admin,      \* admin requests in progress at the same time
    Listing,    \* what /api/organizations answers
    NoId, NoOrg,
    MaxFaults   \* BOUND: failing Redis commands

(* An organisation of the user whose session key is submitted: whether it  *)
(* has the capability "chat", and how many capabilities it has.            *)
OrgResponse == [ org : Org, chat : BOOLEAN, caps : Nat ]

ASSUME RegistryAssumption ==
    /\ NoId \notin Id /\ NoOrg \notin Org /\ MaxFaults \in Nat
    /\ Listing \subseteq Seq(OrgResponse)

(* A hash; the one with exists = FALSE is the empty hash of an absent key. *)
Hash == [ exists : BOOLEAN,
          status : {"", "created", "active", "error", "blocked"},
          token  : BOOLEAN,            \* accessToken is not empty
          org    : Org \cup {NoOrg} ]  \* orgUUID in extInfo

Absent  == [ exists |-> FALSE, status |-> "", token |-> FALSE, org |-> NoOrg ]

(* Mutant: an account that has no tokens yet is disabled.                  *)
CreatedDisabled == [ exists |-> TRUE, status |-> "disabled", token |-> FALSE, org |-> NoOrg ]

Created == [ exists |-> TRUE, status |-> "created", token |-> FALSE, org |-> NoOrg ]

VARIABLES
    hash,       \* the account hashes
    index,      \* the set of account ids
    used,       \* ids that have been drawn
    deleted,    \* ids that have been removed from the index
    struck,     \* history: ids the hash of which a deletion has removed
    adm,        \* the admin requests
    late,       \* accounts that have been read by what may still write to them
    uncertain,  \* history: organisations a search for which may have missed one
    faults      \* failed commands so far

pool == << index, used, deleted >>
vars == << hash, pool, struck, adm, late, uncertain, faults >>

(* A request whose last update has failed is answered like any other.      *)
AdminPhase == { "idle", "exchange", "list", "found", "create", "index", "store", "extinfo",
                "del", "srem", "answered", "dropped", "failed" }

AdminState == [ phase : AdminPhase,
                org   : Org \cup {NoOrg},
                id    : Id \cup {NoId},
                todo  : SUBSET Id,
                err   : BOOLEAN ]   \* the pipeline's first command failed

Idle == [ phase |-> "idle", org |-> NoOrg, id |-> NoId, todo |-> {}, err |-> FALSE ]

TypeOK ==
    /\ hash \in [Id -> Hash]
    /\ index \subseteq used /\ used \subseteq Id /\ deleted \subseteq used
    /\ struck \subseteq Id
    /\ adm \in [Admin -> AdminState]
    /\ late \subseteq Id /\ uncertain \subseteq Org
    /\ faults \in 0..MaxFaults

Init ==
    /\ hash = [i \in Id |-> Absent]
    /\ index = {} /\ used = {} /\ deleted = {} /\ struck = {}
    /\ adm = [m \in Admin |-> Idle]
    /\ late = {} /\ uncertain = {}
    /\ faults = 0

(* An HSET on a key that does not exist creates it, with these fields only.*)
Stored(h)    == [h EXCEPT !.exists = TRUE, !.status = "active", !.token = TRUE]
Errored(h)   == [h EXCEPT !.exists = TRUE, !.status = "error"]
Blocked(h)   == [h EXCEPT !.exists = TRUE, !.status = "blocked"]
Unblocked(h) == [h EXCEPT !.exists = TRUE, !.status = "active"]
Touched(h)   == [h EXCEPT !.exists = TRUE]

(* Mutant: the update writes the hash afresh.                              *)
DescribedAfresh(h, o) == [Created EXCEPT !.status = "active", !.org = o]

Described(h, o) == [h EXCEPT !.exists = TRUE, !.org = o]

(* What becomes of a command: it is executed and answered, or it fails,    *)
(* before it is executed or after.                                         *)
Result == { r \in [ done : BOOLEAN, ok : BOOLEAN ] : r.ok => r.done }

Counted(r) ==
    /\ faults' = IF r.ok THEN faults ELSE faults + 1
    /\ faults' <= MaxFaults

Goto(m, phase) == adm' = [adm EXCEPT ![m].phase = phase]

(* HSET by an admin request on its account's key.                          *)
Write(m, r, h) == hash' = IF r.done THEN [hash EXCEPT ![adm[m].id] = h] ELSE hash

-----------------------------------------------------------------------------
(* handleOAuthAdd: the exchange of the session key (CookieOAuth).  It is   *)
(* one step, as it does not touch the store.                               *)

Resting == { "idle", "answered", "dropped", "failed" }

Submit(m) ==
    /\ adm[m].phase \in Resting
    /\ adm' = [adm EXCEPT ![m] = [Idle EXCEPT !.phase = "exchange"]]
    /\ UNCHANGED << hash, pool, struck, late, uncertain, faults >>

Chats(orgs) == { i \in DOMAIN orgs : orgs[i].chat }

(* The one with "chat" and most capabilities, of equal ones the first; if  *)
(* there is none, the first organisation.                                  *)
Best(orgs, i) ==
    \/ /\ i \in Chats(orgs)
       /\ \A j \in Chats(orgs) : \/ orgs[j].caps < orgs[i].caps
                                 \/ orgs[j].caps = orgs[i].caps /\ i <= j
    \/ i = 1 /\ Chats(orgs) = {}

(* The organisations that some answer makes the best.                      *)
Choice == { o \in Org : \E orgs \in Listing : \E i \in DOMAIN orgs :
                          Best(orgs, i) /\ orgs[i].org = o }

CookieOAuth(m) ==
    /\ adm[m].phase = "exchange"
    /\ \/ \E o \in Choice : adm' = [adm EXCEPT ![m].phase = "list", ![m].org = o]
       \/ Goto(m, "failed")
    /\ UNCHANGED << hash, pool, struck, late, uncertain, faults >>

-----------------------------------------------------------------------------
(* handleOAuthAdd: the account.                                            *)

Searching(n, o) ==
    /\ adm[n].phase \in {"found", "create", "index", "store", "extinfo"}
    /\ adm[n].org = o

(* findAccountByOrgUUID: the ids first, then one hash after the other.     *)
List(m) ==
    /\ adm[m].phase = "list"
    /\ adm' = [adm EXCEPT ![m].phase = "found", ![m].todo = index]
    /\ uncertain' = uncertain \cup
                       { o \in Org : o = adm[m].org /\ \E n \in Admin : Searching(n, o) }
    /\ UNCHANGED << hash, pool, struck, late, faults >>

ListFails(m) ==
    /\ adm[m].phase = "list"
    /\ Goto(m, "failed")
    /\ UNCHANGED << hash, pool, struck, late, uncertain, faults >>

(* Mutant: accounts that do not work are not looked at.                    *)
MatchesActive(i, o) == hash[i].status = "active" /\ hash[i].org = o

Matches(i, o) == hash[i].exists /\ hash[i].org = o

Compare(m, i) ==
    /\ adm[m].phase = "found" /\ i \in adm[m].todo
    /\ \/ /\ Matches(i, adm[m].org)
          /\ adm' = [adm EXCEPT ![m].phase = "store", ![m].id = i, ![m].todo = {}]
       \/ /\ ~ Matches(i, adm[m].org)
          /\ adm' = [adm EXCEPT ![m].todo = @ \ {i}]
    /\ UNCHANGED << hash, pool, struck, late, uncertain, faults >>

(* A hash that cannot be read is passed over.                              *)
CompareFails(m, i) ==
    /\ adm[m].phase = "found" /\ i \in adm[m].todo
    /\ adm' = [adm EXCEPT ![m].todo = @ \ {i}]
    /\ uncertain' = uncertain \cup {adm[m].org}
    /\ Counted([done |-> FALSE, ok |-> FALSE])
    /\ UNCHANGED << hash, pool, struck, late >>

(* None is left: a new account gets the next id.                           *)
NotFound(m) ==
    /\ adm[m].phase = "found" /\ adm[m].todo = {}
    /\ \E i \in Id \ used :
          /\ used' = used \cup {i}
          /\ adm' = [adm EXCEPT ![m].phase = "create", ![m].id = i]
    /\ UNCHANGED << hash, index, deleted, struck, late, uncertain, faults >>

(* SetAccount's pipeline.                                                  *)
CreateHash(m, r) ==
    /\ adm[m].phase = "create"
    /\ Write(m, r, Created)
    /\ adm' = [adm EXCEPT ![m].phase = "index", ![m].err = ~ r.ok]
    /\ Counted(r)
    /\ UNCHANGED << pool, struck, late, uncertain >>

CreateIndex(m, r) ==
    /\ adm[m].phase = "index"
    /\ index' = IF r.done THEN index \cup {adm[m].id} ELSE index
    /\ Goto(m, IF r.ok /\ ~ adm[m].err THEN "store" ELSE "failed")
    /\ Counted(r)
    /\ UNCHANGED << hash, used, deleted, struck, late, uncertain >>

StoreTokens(m, r) ==
    /\ adm[m].phase = "store"
    /\ Write(m, r, Stored(hash[adm[m].id]))
    /\ Goto(m, IF r.ok THEN "extinfo" ELSE "failed")
    /\ Counted(r)
    /\ UNCHANGED << pool, struck, late, uncertain >>

(* The error of this update is dropped.                                    *)
UpdateExtInfo(m, r) ==
    /\ adm[m].phase = "extinfo"
    /\ Write(m, r, Described(hash[adm[m].id], adm[m].org))
    /\ Goto(m, IF r.ok THEN "answered" ELSE "dropped")
    /\ Counted(r)
    /\ UNCHANGED << pool, struck, late, uncertain >>

-----------------------------------------------------------------------------
(* handleDeleteAccount, for an id that is listed or was listed before; one *)
(* without a hash, or that cannot be read, is not deleted.                 *)

Delete(m) ==
    /\ adm[m].phase \in Resting
    /\ \E i \in index \cup deleted :
          \/ hash[i].exists /\ adm' = [adm EXCEPT ![m] = [Idle EXCEPT !.phase = "del", !.id = i]]
          \/ adm' = [adm EXCEPT ![m] = [Idle EXCEPT !.phase = "failed"]]
    /\ UNCHANGED << hash, pool, struck, late, uncertain, faults >>

(* DeleteAccount's pipeline.                                               *)
DeleteHash(m, r) ==
    /\ adm[m].phase = "del"
    /\ Write(m, r, Absent)
    /\ struck' = IF r.done THEN struck \cup {adm[m].id} ELSE struck
    /\ adm' = [adm EXCEPT ![m].phase = "srem", ![m].err = ~ r.ok]
    /\ Counted(r)
    /\ UNCHANGED << pool, late, uncertain >>

DeleteIndex(m, r) ==
    /\ adm[m].phase = "srem"
    /\ \/ /\ r.done
          /\ index' = index \ {adm[m].id} /\ deleted' = deleted \cup {adm[m].id}
       \/ ~ r.done /\ UNCHANGED << index, deleted >>
    /\ Goto(m, IF r.ok /\ ~ adm[m].err THEN "answered" ELSE "failed")
    /\ Counted(r)
    /\ UNCHANGED << hash, used, struck, late, uncertain >>

-----------------------------------------------------------------------------
(* Relay requests, token refreshes and the cleanup read accounts that are  *)
(* or were in use, and write to them later, each its own fields.           *)

Reader(i) ==
    /\ i \in index /\ hash[i].status \in {"active", "error", "blocked"}
    /\ late' = late \cup {i}
    /\ UNCHANGED << hash, pool, struck, adm, uncertain, faults >>

(* Mutant: the fields are written with SetAccount, which adds to the index.*)
LateWriteIndexed(i) ==
    /\ i \in late
    /\ hash' = [hash EXCEPT ![i] = Stored(@)]
    /\ index' = index \cup {i}
    /\ UNCHANGED << used, deleted, struck, adm, late, uncertain, faults >>

(* They write new tokens, an error, a ban, the end of a ban, or fields     *)
(* that we leave out.  Others may have read the account as well.           *)
LateWrite(i) ==
    /\ i \in late
    /\ \E h \in { Stored(hash[i]), Errored(hash[i]), Blocked(hash[i]), Unblocked(hash[i]),
                  Touched(hash[i]) } :
          hash' = [hash EXCEPT ![i] = h]
    /\ UNCHANGED << pool, struck, adm, late, uncertain, faults >>

-----------------------------------------------------------------------------
Next ==
    \/ \E m \in Admin :
          \/ Submit(m) \/ CookieOAuth(m)
          \/ List(m) \/ ListFails(m) \/ NotFound(m)
          \/ \E i \in Id : Compare(m, i) \/ CompareFails(m, i)
          \/ Delete(m)
          \/ \E r \in Result :
                \/ CreateHash(m, r) \/ CreateIndex(m, r)
                \/ StoreTokens(m, r) \/ UpdateExtInfo(m, r)
                \/ DeleteHash(m, r) \/ DeleteIndex(m, r)
    \/ \E i \in Id : Reader(i) \/ LateWrite(i)

Spec == Init /\ [][Next]_vars

-----------------------------------------------------------------------------
(* A deleted account never comes back to the pool: whatever was read of it *)
(* before and is written after the deletion, and whichever command of a    *)
(* pipeline fails, its id is not in the index again.                       *)
DeletedStayUnlisted == deleted \cap index = {}

(* Every id has one life: it enters the index once and leaves it once, by  *)
(* a deletion, and one step changes the life of one id at most (redis.go:  *)
(* 65-95).  AccountRegistry implements AccountLife.                        *)
Pool == INSTANCE AccountLife
          WITH life <- [i \in Id |-> IF i \in index THEN "pooled"
                                     ELSE IF i \in deleted THEN "gone" ELSE "new"]

ImplementsAccountLife == Pool!Spec

(* "Submitting the same account again updates its tokens instead of        *)
(* creating a duplicate" (README): no two accounts of the pool belong to   *)
(* the same organisation, unless two requests looked for its account at    *)
(* the same time or a search for it could not read a hash, whatever other  *)
(* commands fail.                                                          *)
OneAccountPerOrg ==
    \A i, j \in index :
       hash[i].org \notin uncertain \cup {NoOrg} /\ hash[i].org = hash[j].org => i = j

(* "Submitting the same account again": which organisation a session key   *)
(* stands for does not depend on the order in which its user's             *)
(* organisations are listed, if one has "chat" and no two that have are    *)
(* equal in the number of their capabilities (oauth.go:118-133).           *)
ListingOrderIsImmaterial ==
    \A r, s \in Listing : \A i \in DOMAIN r, j \in DOMAIN s :
       /\ { r[k] : k \in DOMAIN r } = { s[k] : k \in DOMAIN s }
       /\ Chats(r) # {}
       /\ \A k, l \in Chats(r) : r[k].caps = r[l].caps => r[k] = r[l]
       /\ Best(r, i) /\ Best(s, j)
       => r[i].org = s[j].org

(* An administrator who has been told that an account is active finds it   *)
(* in the pool with tokens, whatever commands fail and whatever the late   *)
(* writes of other parts of the program do to it, until a deletion         *)
(* removes its hash or its id; and with its organisation, unless the       *)
(* update that writes it failed, the error of which is dropped             *)
(* (admin.go:54, 80).                                                      *)
SubmittedIsPooled ==
    \A m \in Admin : LET i == adm[m].id IN
       adm[m].phase \in {"answered", "dropped"} /\ adm[m].org # NoOrg
       => \/ /\ i \in index /\ hash[i].token
             /\ adm[m].phase = "answered" => hash[i].org = adm[m].org
          \/ i \in deleted \cup struck

=============================================================================
