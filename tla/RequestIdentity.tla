-------------------------- MODULE RequestIdentity --------------------------
(***************************************************************************)
(* What Transformer.Transform makes of the body of a request, attempt      *)
(* after attempt and request after request: the billing entries of the     *)
(* system prompt go, cache_control blocks are limited, the user id becomes *)
(* one of the account's.  (StainlessBinding models what it makes of the    *)
(* headers.)                                                               *)
(*                                                                         *)
(* A body's system prompt and messages are the sequences of their blocks   *)
(* in the order in which walkContentBlocks visits them, a block before     *)
(* those in its content; a prompt that is a string has none.  Hashes are   *)
(* taken for what they are made of: no two inputs have the same.           *)
(***************************************************************************)
EXTENDS Integers, Sequences, FiniteSets

CONSTANTS
    Account,           \* account ids
    UUID,              \* values of account_uuid
    AccountUUID,       \* the accounts' account_uuid, or NoUUID
    Client,            \* what stands before "_account__" in the clients' user ids
    Session,           \* what stands after "session_" in them
    SessionUUID,       \* those of the tails that are UUIDs
    Default,           \* the tail "default"
    NoUUID, NoSession, NoUser, NoAttempt,
    MaxCacheControls,  \* cfg.MaxCacheControls
    RawBody            \* bodies of the clients' requests

(* cache_control: absent, present, present with a ttl.                     *)
CacheControl == { "none", "plain", "ttl" }

(* billing: the block is, or is in, an entry of the system prompt whose    *)
(* text has the billing header.                                            *)
Block    == [ cc : CacheControl, billing : BOOLEAN ]
Unbilled == [ cc : CacheControl, billing : {FALSE} ]

(* A user id that has the form user_<digits>_account__session_<tail>, or   *)
(* another one, which may still end with session_<tail>.                   *)
ClientUser == [ full : {TRUE}, account : Client, session : Session ]
              \cup [ full : {FALSE}, account : Client, session : Session \cup {NoSession} ]

Derived == [ full : {TRUE}, account : Account \cup UUID,
             session : Account \X (Session \cup {Default}) ]

(* prompt: without the billing entries there is a system prompt or first   *)
(* message to make a hash of.                                              *)
Body(user) == [ system : Seq(Block), messages : Seq(Unbilled),
                user : user \cup {NoUser}, prompt : BOOLEAN ]

ASSUME IdentityAssumption ==
    /\ AccountUUID \in [Account -> UUID \cup {NoUUID}] /\ NoUUID \notin UUID
    /\ UUID \cap Account = {}
    /\ SessionUUID \subseteq Session /\ NoSession \notin Session /\ Default \notin Session
    /\ NoUser \notin ClientUser \cup Derived
    /\ MaxCacheControls \in Nat
    /\ RawBody \subseteq Body(ClientUser)

VARIABLES
    raw,     \* the body of the request in progress
    sent,    \* what became of it in the latest attempt
    before   \* history: whose session the attempt before this one was in

vars == << raw, sent, before >>

-----------------------------------------------------------------------------
(* The blocks.                                                             *)

HasCC(b) == b.cc # "none"

CCs(blocks, i) == { k \in 1..i : HasCC(blocks[k]) }

Total(blocks) == Cardinality(CCs(blocks, Len(blocks)))

(* Mutant: the ttl stays.                                                  *)
KeepTTL(blocks) == blocks

StripTTL(blocks) == [ i \in DOMAIN blocks |->
                        [blocks[i] EXCEPT !.cc = IF @ = "ttl" THEN "plain" ELSE @] ]

(* The first n of them go.                                                 *)
RemoveCacheControls(blocks, n) ==
    [ i \in DOMAIN blocks |-> IF Cardinality(CCs(blocks, i)) <= n
                                THEN [blocks[i] EXCEPT !.cc = "none"]
                                ELSE blocks[i] ]

(* Mutant: what is left is removed from the messages again.                *)
EnforceTwice(body) ==
    LET excess == Total(body.system) + Total(body.messages) - MaxCacheControls
    IN  [body EXCEPT !.messages = RemoveCacheControls(StripTTL(@), excess),
                     !.system   = RemoveCacheControls(StripTTL(@), excess)]

(* Messages first, then the system prompt.                                 *)
EnforceCacheControl(body) ==
    LET excess == Total(body.system) + Total(body.messages) - MaxCacheControls
    IN  [body EXCEPT !.messages = RemoveCacheControls(StripTTL(@), excess),
                     !.system   = RemoveCacheControls(StripTTL(@),
                                                      excess - Total(body.messages))]

(* The loop over the entries; filtered[n] is its list after n of them.     *)
(* (The provers know nothing of SelectSeq.)                                *)
Filtered(blocks) ==
    LET filtered[n \in 0..Len(blocks)] ==
            IF n = 0 THEN << >>
            ELSE IF blocks[n].billing THEN filtered[n - 1]
            ELSE Append(filtered[n - 1], blocks[n])
    IN  filtered[Len(blocks)]

StripBillingHeaders(body) == [body EXCEPT !.system = Filtered(@)]

-----------------------------------------------------------------------------
(* The user id.                                                            *)

(* deriveAccountHash: of the account_uuid, if there is one.                *)
Source(acct) == IF AccountUUID[acct] = NoUUID THEN acct ELSE AccountUUID[acct]

(* The session a client's user id stands for.                              *)
SessionOf(user) == IF user.full THEN user.session ELSE Default

RewriteUserID(user, acct) ==
    [ full |-> TRUE, account |-> Source(acct), session |-> << acct, SessionOf(user) >> ]

RewriteUser(body, acct) ==
    [body EXCEPT !.user = IF @ = NoUser THEN NoUser ELSE RewriteUserID(@, acct)]

(* Mutant: the hash is made of the prompt alone.                           *)
HashOfPrompt(body) == IF body.prompt THEN << "prompt" >> ELSE << >>

(* computeSessionHash, of the body after the rewriting; << >> stands for   *)
(* the empty string.                                                       *)
SessionHash(body) ==
    IF body.user # NoUser THEN << "session", body.user.session >>
    ELSE IF body.prompt THEN << "prompt" >> ELSE << >>

(* extractSessionUUID, of the client's body.                               *)
SessionUUIDOf(body) ==
    IF body.user # NoUser /\ body.user.session \in SessionUUID
      THEN body.user.session ELSE NoSession

-----------------------------------------------------------------------------
(* The attempts.                                                           *)

(* Mutant: an attempt goes on with what the one before made of the body.   *)
ParsedOnce(r, s) == IF s = NoAttempt THEN r ELSE s.body

(* The raw body is parsed again for each attempt.                          *)
Parsed(r, s) == r

Transform(body, acct) ==
    LET out == RewriteUser(EnforceCacheControl(StripBillingHeaders(body)), acct)
    IN  [ acct |-> acct, body |-> out, hash |-> SessionHash(out) ]

Identity(r, s) ==
    IF s = NoAttempt \/ r.user = NoUser THEN NoUser
    ELSE [acct |-> s.acct, client |-> r.user, upstream |-> s.body.user]

Init == raw \in RawBody /\ sent = NoAttempt /\ before = NoUser

Arrive ==
    /\ raw' \in RawBody
    /\ sent' = NoAttempt
    /\ before' = Identity(raw, sent)

Attempt(acct) ==
    /\ sent' = Transform(Parsed(raw, sent), acct)
    /\ before' = IF sent = NoAttempt THEN before ELSE Identity(raw, sent)
    /\ UNCHANGED raw

Next == Arrive \/ \E acct \in Account : Attempt(acct)

Spec == Init /\ [][Next]_vars

-----------------------------------------------------------------------------
SentBlock == [ cc : CacheControl \ {"ttl"}, billing : {FALSE} ]

TypeOK ==
    /\ raw \in RawBody
    /\ sent # NoAttempt =>
          /\ sent.acct \in Account
          /\ sent.body \in [ system : Seq(SentBlock), messages : Seq(SentBlock),
                             user : Derived \cup {NoUser}, prompt : BOOLEAN ]

(* No attempt has more cache_control blocks than the limit, and none loses *)
(* more than it has to: in the order messages, system prompt, the last     *)
(* ones of the client's request keep theirs.  Those that go with the       *)
(* billing entries do not count, and the other entries stay in order.      *)
CacheControlsLimited ==
    sent # NoAttempt =>
      LET asked    == raw.messages
          kept     == { i \in DOMAIN raw.system : ~ raw.system[i].billing }
          place(i) == Cardinality({ k \in kept : k <= i })
          inSystem(i)   == { k \in kept : k >= i /\ HasCC(raw.system[k]) }
          inMessages(i) == { k \in i..Len(asked) : HasCC(asked[k]) }
      IN  /\ Total(sent.body.messages) + Total(sent.body.system) <= MaxCacheControls
          /\ Len(sent.body.messages) = Len(asked)
          /\ Len(sent.body.system) = Cardinality(kept)
          /\ \A i \in DOMAIN asked :
                HasCC(sent.body.messages[i])
                <=> /\ HasCC(asked[i])
                    /\ Cardinality(inMessages(i)) + Cardinality(inSystem(1)) <= MaxCacheControls
          /\ \A i \in kept :
                HasCC(sent.body.system[place(i)])
                <=> HasCC(raw.system[i]) /\ Cardinality(inSystem(i)) <= MaxCacheControls

(* "Deterministically rewrites metadata.user_id" (README): two attempts,   *)
(* of one request or of two, are in the same session for the upstream if   *)
(* and only if the account is the same and the client's session is.        *)
SessionKept ==
    LET now == Identity(raw, sent) IN
    before # NoUser /\ now # NoUser =>
       (before.upstream.session = now.upstream.session
        <=> before.acct = now.acct /\ SessionOf(before.client) = SessionOf(now.client))

(* A request that has a session UUID is bound to the account that served   *)
(* it: the second condition of relay.go:261, on the hash of the rewritten  *)
(* body, never prevents that.                                              *)
SessionIsBound ==
    sent # NoAttempt /\ SessionUUIDOf(raw) # NoSession => sent.hash # << >>

=============================================================================
