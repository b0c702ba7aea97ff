---------------------------- MODULE OAuthGrants ----------------------------
(***************************************************************************)
(* What an organiser allows an app to do: the consent page, the            *)
(* authorization code, the tokens it is exchanged for, their rotation and  *)
(* their revocation (portal/routers/oauth.py), and the apps themselves     *)
(* (portal/routers/developer.py, portal/routers/admin.py).  A handler      *)
(* reads and checks, and writes in one transaction later.                  *)
(***************************************************************************)
EXTENDS FiniteSets, Naturals

CONSTANTS Client, Confidential, Organiser, Coordinator, Code, Token, Caller, Nil,
          MaxCalls      \* a bound: the requests served

ASSUME ConfidentialAreClients == Confidential \subseteq Client
ASSUME NilIsNone == Nil \notin Client \cup Organiser \cup Code \cup Token

VARIABLES client,    \* the oauth_clients rows: "none", "here", "gone"
          approved,  \* whether the developer's account is approved
          consent,   \* the oauth_consent_grants rows
          owner,     \* the organisers who own the event
          code,      \* the oauth_authorization_codes rows
          token,     \* the oauth_tokens rows
          call,      \* caller -> what it has read and will write
          calls      \* how many requests have begun

oauthVars == <<client, approved, consent, owner, code, token, call, calls>>

NoCode == [st |-> "free", client |-> Nil, who |-> Nil]
NoToken == [st |-> "free", code |-> Nil, parent |-> Nil]
IdleCall == [op |-> "idle", client |-> Nil, item |-> Nil, family |-> {}, known |-> {}]

OAuthInit ==
  /\ client \in [Client -> {"none", "here"}]
  /\ approved \in BOOLEAN
  /\ consent = {}
  /\ owner \in SUBSET Organiser
  /\ code = [k \in Code |-> NoCode]
  /\ token = [t \in Token |-> NoToken]
  /\ call = [x \in Caller |-> IdleCall]
  /\ calls = 0

ClientOf(t) == code[token[t].code].client
Rows == {t \in Token : token[t].st \in {"live", "revoked"}}

(* What the API lets through: a token not revoked, of an app still there.  *)
Accepted(t) == token[t].st = "live" /\ client[ClientOf(t)] = "here"

OAuthTypeOK ==
  /\ client \in [Client -> {"none", "here", "gone"}]
  /\ consent \subseteq (Client \X Organiser) /\ owner \subseteq Organiser
  /\ \A k \in Code : code[k].st \in {"open", "used"} => client[code[k].client] = "here"
  /\ \A t \in Rows : client[ClientOf(t)] = "here"

Asks(x, op, c, i, family) ==
  /\ call[x] = IdleCall /\ calls < MaxCalls
  /\ call' = [call EXCEPT ![x] = [op |-> op, client |-> c, item |-> i, family |-> family, known |-> Rows]]
  /\ calls' = calls + 1
  /\ UNCHANGED <<client, approved, consent, owner, code, token>>

------------------------------------------------------------------------------
(* What a handler reads and checks.                                        *)
CreateClient(x, c) == approved /\ client[c] = "none" /\ Asks(x, "create", c, Nil, {})
DeleteClient(x, c) == approved /\ client[c] = "here" /\ Asks(x, "delete", c, Nil, {})
Review(x) == Asks(x, "review", Nil, Nil, {})

(* A confidential app may ask for anything: it checks its organisers       *)
(* itself.  Any other gets what the person's own role allows.              *)
Authorize(x, c, u) == /\ client[c] = "here"
                      /\ c \in Confidential \/ u \in owner \cup Coordinator
                      /\ Asks(x, "authorize", c, u, {})

(* The code must be unused, not expired, and this app's.                   *)
Exchange(x, c, k) == /\ client[c] = "here" /\ code[k].st = "open" /\ code[k].client = c
                     /\ Asks(x, "exchange", c, k, {})

(* The walk from a token to the root of its family and down again.         *)
Root(t) == LET root[s \in Token] == IF token[s].parent = Nil THEN s ELSE root[token[s].parent]
           IN root[t]

(* slip: only the token and its own children are looked up. *)
FamilyOfChildren(t) == {s \in Rows : s = t \/ token[s].parent = t}

Family(t) == {s \in Rows : Root(s) = Root(t)}

(* A refresh token that was already exchanged or revoked ends its family.  *)
Refresh(x, c, t) ==
  /\ client[c] = "here" /\ t \in Rows /\ ClientOf(t) = c
  /\ IF token[t].st = "live" THEN Asks(x, "refresh", c, t, {}) ELSE Asks(x, "reuse", c, t, Family(t))

Revoke(x, c, t) == /\ client[c] = "here" /\ t \in Rows /\ ClientOf(t) = c
                   /\ Asks(x, "revoke", c, t, {})

------------------------------------------------------------------------------
(* The transaction of each.                                                *)
Answered(x) == call' = [call EXCEPT ![x] = IdleCall] /\ UNCHANGED calls

CallFails(x) == Answered(x) /\ UNCHANGED <<client, approved, consent, owner, code, token>>

(* The id the database gives a new row.                                    *)
NewRow(f) == LET free == {r \in DOMAIN f : f[r].st = "free"}
             IN IF free = {} THEN {} ELSE {CHOOSE r \in free : TRUE}

CommitCreate(x) == /\ call[x].op = "create" /\ client[call[x].client] = "none"
                   /\ client' = [client EXCEPT ![call[x].client] = "here"]
                   /\ Answered(x) /\ UNCHANGED <<approved, consent, owner, code, token>>

(* Foreign keys take its codes, tokens and consents along.                 *)
CommitDeleteClient(x) ==
  LET c == call[x].client
  IN /\ call[x].op = "delete"
     /\ client' = [client EXCEPT ![c] = "gone"]
     /\ code' = [k \in Code |-> IF code[k].client = c THEN [code[k] EXCEPT !.st = "gone"] ELSE code[k]]
     /\ token' = [t \in Token |-> IF t \in Rows /\ ClientOf(t) = c THEN [token[t] EXCEPT !.st = "gone"] ELSE token[t]]
     /\ consent' = {g \in consent : g[1] # c}
     /\ Answered(x) /\ UNCHANGED <<approved, owner>>

CommitReview(x) == /\ call[x].op = "review" /\ approved' \in BOOLEAN
                   /\ Answered(x) /\ UNCHANGED <<client, consent, owner, code, token>>

(* A row must refer to an app that is there.                               *)
ClientThere(c) == client[c] = "here"

(* Clicking Allow shows only that someone is signed in.                    *)
OwnersAfterConsent(c, u) == owner

CommitAuthorize(x) ==
  LET c == call[x].client  u == call[x].item
  IN /\ call[x].op = "authorize" /\ ClientThere(c)
     /\ consent' = consent \cup {<<c, u>>}
     /\ \E k \in NewRow(code) :
                           code' = [code EXCEPT ![k] = [st |-> "open", client |-> c, who |-> u]]
     /\ owner' = OwnersAfterConsent(c, u)
     /\ Answered(x) /\ UNCHANGED <<client, approved, token>>

(* The claim is an UPDATE that only an unused code satisfies.  The tokens  *)
(* and, for an app that proved itself with its secret, the ownership are   *)
(* the same transaction.                                                   *)
CodeClaimed(k) == code[k].st = "open"

CommitExchange(x) ==
  LET c == call[x].client  k == call[x].item
  IN /\ call[x].op = "exchange" /\ CodeClaimed(k)
     /\ code' = [code EXCEPT ![k].st = "used"]
     /\ owner' = IF c \in Confidential THEN owner \cup {code[k].who} ELSE owner
     /\ \E t \in NewRow(token) :
                            token' = [token EXCEPT ![t] = [st |-> "live", code |-> k, parent |-> Nil]]
     /\ Answered(x) /\ UNCHANGED <<client, approved, consent>>

(* slip: the old pair stays valid until it runs out. *)
RotatedKept(t) == token

Rotated(t) == [token EXCEPT ![t].st = "revoked"]

(* An UPDATE must find its row; whether another refresh came first it does *)
(* not ask.                                                                *)
CommitRefresh(x) ==
  LET t == call[x].item
  IN /\ call[x].op = "refresh" /\ t \in Rows
     /\ \E s \in NewRow(token) :
                            token' = [Rotated(t) EXCEPT ![s] = [st |-> "live", code |-> token[t].code, parent |-> t]]
     /\ Answered(x) /\ UNCHANGED <<client, approved, consent, owner, code>>

RevokedRows(S) == [t \in Token |-> IF t \in S \cap Rows THEN [token[t] EXCEPT !.st = "revoked"] ELSE token[t]]

CommitReuse(x) == /\ call[x].op = "reuse"
                  /\ token' = RevokedRows(call[x].family)
                  /\ Answered(x) /\ UNCHANGED <<client, approved, consent, owner, code>>

CommitRevoke(x) == /\ call[x].op = "revoke" /\ call[x].item \in Rows
                   /\ token' = RevokedRows({call[x].item})
                   /\ Answered(x) /\ UNCHANGED <<client, approved, consent, owner, code>>

OAuthNext ==
  \E x \in Caller :
    \/ \E c \in Client :
         \/ CreateClient(x, c) \/ DeleteClient(x, c)
         \/ \E u \in Organiser : Authorize(x, c, u)
         \/ \E k \in Code : Exchange(x, c, k)
         \/ \E t \in Token : Refresh(x, c, t) \/ Revoke(x, c, t)
    \/ Review(x)
    \/ CommitCreate(x) \/ CommitDeleteClient(x) \/ CommitReview(x) \/ CommitAuthorize(x) \/ CommitExchange(x)
    \/ CommitRefresh(x) \/ CommitReuse(x) \/ CommitRevoke(x)
    \/ call[x] # IdleCall /\ CallFails(x)

OAuthSpec == OAuthInit /\ [][OAuthNext]_oauthVars

------------------------------------------------------------------------------
(* However often a code is presented, and by however many requests at      *)
(* once, it is exchanged once.                                             *)
OneTokenPerCode ==
  \A k \in Code : Cardinality({t \in Token : token[t].code = k /\ token[t].parent = Nil}) <= 1

(* Only an app that proved itself at the token exchange makes someone an   *)
(* owner; opening the consent page for any event never does.               *)
OwnerOnlyByExchange ==
  \A u \in Organiser : u \in owner' /\ u \notin owner =>
    \E k \in Code : /\ code[k].st = "open" /\ code'[k].st = "used"
                    /\ code[k].who = u /\ code[k].client \in Confidential

(* A token pair that was exchanged for a newer one is no longer accepted,  *)
(* nor comes back: presenting it again is what reveals a copy.             *)
RotatedIsRevoked ==
  \A t \in Rows : token[t].parent # Nil => ~Accepted(token[t].parent)

(* When a reused refresh token is answered, nothing of its family that     *)
(* existed when the answer began is still accepted.  (A pair being issued  *)
(* at that moment may survive it.)                                         *)
ReuseEndsTheFamily ==
  \A x \in Caller : call[x].op = "reuse" /\ token' # token /\ call'[x] = IdleCall =>
    \A t \in call[x].known : token[t].code = token[call[x].item].code => ~Accepted(t)'

(* What a grant gives, and what a copy of it takes away.                   *)
GrantsActRightly == [][OwnerOnlyByExchange /\ ReuseEndsTheFamily]_oauthVars

(* What is accepted, however often codes and tokens are presented.         *)
OAuthInv ==
  /\ OAuthTypeOK
  /\ OneTokenPerCode
  /\ RotatedIsRevoked
==============================================================================
