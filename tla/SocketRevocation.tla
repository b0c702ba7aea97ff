-------------------------- MODULE SocketRevocation --------------------------
(***************************************************************************)
(* Who may stay on a booth's WebSocket: the connect checks of ws_booth,    *)
(* the sweeps an Admin's request pushes, the membership checks a broadcast *)
(* pulls and the reaper that re-reads the accounts.                        *)
(*                                                                         *)
(* One booth, one account that is a member of it and one invite link to    *)
(* it; a socket is opened with either.  Between any two awaits of a        *)
(* handshake, a request, a broadcast and a reaper pass, the others run.    *)
(***************************************************************************)
EXTENDS Naturals, FiniteSets

CONSTANTS Sockets,
          TTL,          \* ticks a cached answer is used (5 s in the code)
          MaxTime,      \* bound on the clock
          MaxRequests   \* bound on the Admin's requests

ASSUME RevocationAssumption == TTL \in Nat \ {0} /\ MaxTime \in Nat /\ MaxRequests \in Nat

VARIABLES
  account,   \* committed: User.is_active, sessions_valid_after (the number of that cut)
  member,    \* committed: the account holds a role that reaches the booth
  invite,    \* committed: the invite link is not revoked
  cuts,      \* how often sessions_valid_after was set to the time of day
  epoch,     \* _user_epochs, _booth_epochs, _token_booth_epochs of the account and the link
  socket,    \* a handshake, or a Session and its place in _rooms
  known,     \* _REVOKED_TOKEN_CACHE: the answer for the link and its time
  allowed,   \* _allowed_cache, _token_allowed_cache: the time of an answer that lets in
  request,   \* the Admin's request that is under way
  cast,      \* the broadcast that is under way
  reaper,    \* the reaper's pass: what it read and for which sessions
  now, removedAt, requests

rows == <<account, member, invite>>
caches == <<known, allowed>>
clock == <<now, removedAt>>
revocationVars == <<rows, cuts, epoch, socket, caches, request, cast, reaper, clock, requests>>

Kinds == {"account", "invite"}
Never == MaxTime + TTL + 1
Fresh(at) == at # Never /\ now - at < TTL
NewSocket(k) == [at |-> "new", by |-> k, seen |-> <<0, 0>>, answer |-> "none", asked |-> 0,
             cutoff |-> 0, role |-> FALSE, issued |-> 0, revoked |-> FALSE]
Gone(rec) == [NewSocket(rec.by) EXCEPT !.at = "gone"]
NoRequest == [kind |-> "none", done |-> "none", cut |-> 0, stays |-> FALSE]
NoCast == [at |-> "idle", to |-> {}, begun |-> 0, asked |-> 0, lets |-> FALSE]
NoPass == [at |-> "asleep", of |-> {}, active |-> TRUE, valid |-> 0, link |-> TRUE]

Started ==
  /\ account = [active |-> TRUE, valid |-> 0]
  /\ member = TRUE /\ invite = TRUE /\ cuts = 0
  /\ epoch = [user |-> 0, booth |-> 0, link |-> 0]
  /\ known = [at |-> Never, ok |-> FALSE] /\ allowed = [k \in Kinds |-> Never]
  /\ request = NoRequest /\ cast = NoCast /\ reaper = NoPass
  /\ now = 0 /\ removedAt = Never
RevocationInit ==
  Started /\ socket \in [Sockets -> {NewSocket(k) : k \in Kinds}] /\ requests = 0

Open(s) == socket[s].at = "open"
Live(s) == Open(s) /\ ~ socket[s].revoked
LiveBy(k) == {s \in Sockets : Live(s) /\ socket[s].by = k}

-----------------------------------------------------------------------------
(* ws_booth, one action between two awaits.                                *)

\* revocation_epoch, token_revocation_epoch
EpochOf(k) == IF k = "account" THEN <<epoch.user, epoch.booth>> ELSE <<epoch.link, 0>>

\* Credentials decoded, and the epoch noted before anything is read.
Connect(s) ==
  /\ socket[s].at = "new"
  /\ socket' = [socket EXCEPT ![s].at = "asked", ![s].seen = EpochOf(socket[s].by)]
  /\ UNCHANGED <<rows, cuts, epoch, caches, request, cast, reaper, clock, requests>>

\* get_user_by_id: an inactive account is refused.
ReadAccount(s) ==
  /\ socket[s].at = "asked" /\ socket[s].by = "account"
  /\ socket' = [socket EXCEPT ![s] = IF account.active
                                     THEN [@ EXCEPT !.at = "read", !.cutoff = account.valid]
                                     ELSE Gone(@)]
  /\ UNCHANGED <<rows, cuts, epoch, caches, request, cast, reaper, clock, requests>>

\* resolve_booth_role of an account; accept.
ReadRole(s) ==
  /\ socket[s].at = "read" /\ socket[s].by = "account"
  /\ socket' = [socket EXCEPT ![s].at = "granted", ![s].role = member]
  /\ UNCHANGED <<rows, cuts, epoch, caches, request, cast, reaper, clock, requests>>

\* What an answer about the link does to a handshake: ws_booth refuses a revoked one,
\* and resolve_booth_role, which asks again, gives no role for it.
Answered(rec, ok) ==
  IF rec.at = "asked" THEN IF ok THEN [rec EXCEPT !.at = "read", !.answer = "none", !.asked = 0] ELSE Gone(rec)
  ELSE [rec EXCEPT !.at = "granted", !.role = ok, !.answer = "none", !.asked = 0]

\* is_invite_token_revoked: a cached answer, or a row that is read ...
AskLink(s) ==
  /\ socket[s].at \in {"asked", "read"} /\ socket[s].by = "invite" /\ socket[s].answer = "none"
  /\ socket' = [socket EXCEPT ![s] =
                  IF Fresh(known.at) THEN Answered(@, known.ok)
                  ELSE [@ EXCEPT !.answer = IF invite THEN "ok" ELSE "revoked", !.asked = now]]
  /\ UNCHANGED <<rows, cuts, epoch, caches, request, cast, reaper, clock, requests>>

\* ... and the answer cached, under the time of the question.
LinkRead(s) ==
  /\ socket[s].answer # "none"
  /\ known' = [at |-> socket[s].asked, ok |-> socket[s].answer = "ok"]
  /\ socket' = [socket EXCEPT ![s] = Answered(@, @.answer = "ok")]
  /\ UNCHANGED <<rows, cuts, epoch, allowed, request, cast, reaper, clock, requests>>

\* The Session: what the handshake noted is not kept.
Opened(rec) == [NewSocket(rec.by) EXCEPT !.at = "open", !.role = rec.role, !.issued = cuts]

(* slip: the epoch is not compared before the socket is registered *)
RegisterUnchecked(s) ==
  /\ socket[s].at = "granted"
  /\ socket' = [socket EXCEPT ![s] = Opened(@)]
  /\ UNCHANGED <<rows, cuts, epoch, caches, request, cast, reaper, clock, requests>>

\* connect_time, the two comparisons and manager.add run with no await between them.
Register(s) ==
  /\ socket[s].at = "granted"
  /\ socket' = [socket EXCEPT ![s] =
                  IF cuts >= @.cutoff /\ EpochOf(@.by) = @.seen
                  THEN Opened(@) ELSE Gone(@)]
  /\ UNCHANGED <<rows, cuts, epoch, caches, request, cast, reaper, clock, requests>>

\* The client goes, or close_session ends what it revoked: out of _rooms and _sessions.
Remove(s) ==
  /\ socket' = [socket EXCEPT ![s] = Gone(@)]
  /\ UNCHANGED <<rows, cuts, epoch, caches, request, cast, reaper, clock, requests>>
HangUp(s) == Live(s) /\ Remove(s)
FinishClose(s) == Open(s) /\ socket[s].revoked /\ Remove(s)

-----------------------------------------------------------------------------
(* The Admin's requests.  Every one is a transaction; what it changes is   *)
(* seen by others from its commit on.                                      *)

Revoked(who) == [s \in Sockets |-> IF s \in who THEN [socket[s] EXCEPT !.revoked = TRUE, !.role = FALSE]
                                   ELSE socket[s]]

\* A request that waits: the changed rows are flushed, sessions_valid_after is the time now.
Begin(kind, stays) ==
  /\ request = NoRequest /\ requests < MaxRequests
  /\ kind \in {"deactivate", "remove", "revoke", "delete"} /\ (stays => kind = "deactivate")
  /\ kind = "revoke" => invite
  /\ requests' = requests + 1
  /\ cuts' = IF kind = "deactivate" THEN cuts + 1 ELSE cuts
  /\ request' = [kind |-> kind, done |-> "none", cut |-> cuts', stays |-> stays]
  /\ UNCHANGED <<rows, epoch, socket, caches, cast, reaper, clock>>

\* apply_user_access, admin_delete_user: the account is changed and committed first
\* (a demotion leaves it active) ...
CommitAccount ==
  /\ request.kind = "deactivate" /\ request.done = "none"
  /\ account' = [active |-> account.active /\ request.stays, valid |-> request.cut]
  /\ request' = [request EXCEPT !.done = "committed"]
  /\ UNCHANGED <<member, invite, cuts, epoch, socket, caches, cast, reaper, clock, requests>>

\* ... and its sockets are swept afterwards: close_user_sessions.
SweepAccount ==
  /\ request.kind = "deactivate" /\ request.done = "committed"
  /\ epoch' = [epoch EXCEPT !.user = @ + 1]
  /\ allowed' = [allowed EXCEPT !["account"] = Never]
  /\ socket' = Revoked({s \in Sockets : Open(s) /\ socket[s].by = "account"})
  /\ request' = NoRequest
  /\ UNCHANGED <<rows, cuts, known, cast, reaper, clock, requests>>

\* The other requests sweep first, inside their transaction: revoke_membership_push,
\* close_token_sessions after the token cache, close_booth_sessions without an epoch.
Sweep ==
  /\ request.kind \in {"remove", "revoke", "delete"} /\ request.done = "none"
  /\ epoch' = CASE request.kind = "remove" -> [epoch EXCEPT !.booth = @ + 1]
                [] request.kind = "revoke" -> [epoch EXCEPT !.link = @ + 1]
                [] OTHER -> epoch
  /\ known' = IF request.kind = "revoke" THEN [at |-> Never, ok |-> FALSE] ELSE known
  /\ allowed' = [allowed EXCEPT ![IF request.kind = "revoke" THEN "invite" ELSE "account"] = Never]
  /\ socket' = Revoked({s \in Sockets : Open(s) /\ CASE request.kind = "remove" -> socket[s].by = "account"
                                                     [] request.kind = "revoke" -> socket[s].by = "invite"
                                                     [] OTHER -> TRUE})
  /\ request' = [request EXCEPT !.done = "swept"]
  /\ UNCHANGED <<rows, cuts, cast, reaper, clock, requests>>

\* They commit once the closes they wait for are through, or roll back.
Commit ==
  /\ request.done = "swept"
  /\ member' = (member /\ request.kind = "revoke")
  /\ invite' = (invite /\ request.kind = "remove")
  /\ removedAt' = IF member /\ ~ member' THEN now ELSE removedAt
  /\ request' = NoRequest
  /\ UNCHANGED <<account, cuts, epoch, socket, caches, cast, reaper, now, requests>>
Fail ==
  /\ request.done # "committed" /\ request # NoRequest
  /\ request' = NoRequest
  /\ UNCHANGED <<rows, cuts, epoch, socket, caches, cast, reaper, clock, requests>>

\* An account that is reactivated, a membership given back: no socket is concerned.
Restore ==
  /\ request = NoRequest
  /\ \/ ~ account.active /\ account' = [account EXCEPT !.active = TRUE] /\ UNCHANGED <<member, removedAt>>
     \/ ~ member /\ member' = TRUE /\ removedAt' = Never /\ UNCHANGED account
  /\ UNCHANGED <<invite, cuts, epoch, socket, caches, request, cast, reaper, now, requests>>

-----------------------------------------------------------------------------
(* manager.broadcast: the room is looked up once; what follows works on    *)
(* that snapshot, whatever becomes of its sessions.                        *)

BeginCast ==
  /\ cast.at = "idle"
  /\ LET heard == {s \in Sockets : Live(s) /\ socket[s].role}
     IN  heard # {} /\ cast' = [NoCast EXCEPT !.at = "account", !.to = heard, !.begun = now]
  /\ UNCHANGED <<rows, cuts, epoch, socket, caches, request, reaper, clock, requests>>

Turn(k) == IF k = "account" THEN "invite" ELSE "send"
Sent(k) == {s \in cast.to : socket[s].by = k}
\* check_booth_memberships, check_booth_tokens
Allowed(k) == IF k = "account" THEN account.active /\ member ELSE invite

\* Those the answer leaves out are revoked and their closes left to a task.
AfterCheck(k, lets) ==
  /\ cast' = [cast EXCEPT !.at = Turn(k), !.to = IF lets THEN @ ELSE @ \ Sent(k),
                          !.asked = 0, !.lets = FALSE]
  /\ socket' = IF lets THEN socket ELSE Revoked({s \in Sent(k) : Open(s)})

\* A cached answer that is fresh, or nobody to ask about.
CheckCached(k) ==
  /\ cast.at = k
  /\ Sent(k) = {} \/ Fresh(allowed[k])
  /\ AfterCheck(k, TRUE)
  /\ UNCHANGED <<rows, cuts, epoch, caches, request, reaper, clock, requests>>

\* The batched query is sent, and answered from the rows of that moment ...
Ask(k) ==
  /\ cast.at = k /\ Sent(k) # {} /\ ~ Fresh(allowed[k])
  /\ cast' = [cast EXCEPT !.at = IF k = "account" THEN "accountAnswer" ELSE "inviteAnswer",
                          !.asked = now, !.lets = Allowed(k)]
  /\ UNCHANGED <<rows, cuts, epoch, socket, caches, request, reaper, clock, requests>>

\* ... and cached under the time of the question, even if a sweep emptied the cache
\* meanwhile.  (An answer that lets nobody in is no subset of a later question.)
Answer(k) ==
  /\ cast.at = IF k = "account" THEN "accountAnswer" ELSE "inviteAnswer"
  /\ allowed' = [allowed EXCEPT ![k] = IF cast.lets THEN cast.asked ELSE Never]
  /\ AfterCheck(k, cast.lets)
  /\ UNCHANGED <<rows, cuts, epoch, known, request, reaper, clock, requests>>

\* A check that fails withholds the message and keeps the sockets.
CheckFails(k) ==
  /\ cast.at = IF k = "account" THEN "accountAnswer" ELSE "inviteAnswer"
  /\ cast' = [cast EXCEPT !.at = Turn(k), !.to = @ \ Sent(k), !.asked = 0, !.lets = FALSE]
  /\ UNCHANGED <<rows, cuts, epoch, socket, caches, request, reaper, clock, requests>>

\* send_text, one socket after another and an await at each.
Send(s) ==
  /\ cast.at = "send" /\ s \in cast.to
  /\ cast' = IF cast.to = {s} THEN NoCast ELSE [cast EXCEPT !.to = @ \ {s}]
  /\ UNCHANGED <<rows, cuts, epoch, socket, caches, request, reaper, clock, requests>>
Withheld ==
  /\ cast.at = "send" /\ cast.to = {} /\ cast' = NoCast
  /\ UNCHANGED <<rows, cuts, epoch, socket, caches, request, reaper, clock, requests>>

-----------------------------------------------------------------------------
(* reap_stale_sessions: two queries, then one sweep without an await.      *)

Read ==
  /\ reaper.at = "asleep" /\ \E s \in Sockets : Live(s)
  /\ reaper' = [at |-> "read", of |-> {s \in Sockets : Live(s)},
                active |-> account.active, valid |-> account.valid, link |-> invite]
  /\ UNCHANGED <<rows, cuts, epoch, socket, caches, request, cast, clock, requests>>

(* slip: only an account that is inactive is stale *)
StaleIfInactive(s) ==
  Live(s) /\ IF socket[s].by = "account" THEN ~ reaper.active ELSE ~ reaper.link

Stale(s) ==
  Live(s) /\ IF socket[s].by = "account"
             THEN ~ reaper.active \/ socket[s].issued < reaper.valid
             ELSE ~ reaper.link

Reap ==
  /\ reaper.at = "read"
  /\ socket' = Revoked({s \in reaper.of : Stale(s)})
  /\ reaper' = NoPass
  /\ UNCHANGED <<rows, cuts, epoch, caches, request, cast, clock, requests>>

Tick ==
  /\ now < MaxTime /\ now' = now + 1
  /\ known' = IF now' - known.at < TTL THEN known ELSE [at |-> Never, ok |-> FALSE]
  /\ allowed' = [k \in Kinds |-> IF now' - allowed[k] < TTL THEN allowed[k] ELSE Never]
  /\ UNCHANGED <<rows, cuts, epoch, socket, request, cast, reaper, removedAt, requests>>

RevocationNext ==
  \/ \E s \in Sockets :
       \/ Connect(s) \/ ReadAccount(s) \/ ReadRole(s) \/ AskLink(s) \/ LinkRead(s) \/ Register(s)
       \/ HangUp(s) \/ FinishClose(s) \/ Send(s)
  \/ \E kind \in {"deactivate", "remove", "revoke", "delete"}, stays \in BOOLEAN : Begin(kind, stays)
  \/ CommitAccount \/ SweepAccount \/ Sweep \/ Commit \/ Fail \/ Restore
  \/ BeginCast \/ Withheld
  \/ \E k \in Kinds : CheckCached(k) \/ Ask(k) \/ Answer(k) \/ CheckFails(k)
  \/ Read \/ Reap \/ Tick

\* session_reaper_loop survives whatever a pass raises, a close has two seconds, and a
\* task that waits for the database goes on when it answers.
RevocationFairness ==
  /\ WF_revocationVars(Read) /\ WF_revocationVars(Reap)
  /\ \A s \in Sockets : WF_revocationVars(FinishClose(s))
RevocationSpec == RevocationInit /\ [][RevocationNext]_revocationVars /\ RevocationFairness

-----------------------------------------------------------------------------
RevocationTypeOK ==
  /\ account \in [active : BOOLEAN, valid : 0..MaxRequests]
  /\ member \in BOOLEAN /\ invite \in BOOLEAN
  /\ cuts \in 0..MaxRequests
  /\ epoch \in [user : 0..MaxRequests, booth : 0..MaxRequests, link : 0..MaxRequests]
  /\ \A s \in Sockets :
       /\ socket[s].at \in {"new", "gone", "asked", "read", "granted", "open"}
       /\ socket[s].by \in Kinds /\ socket[s].issued \in 0..cuts
       /\ socket[s].revoked \in BOOLEAN
       /\ socket[s].revoked => Open(s) /\ ~ socket[s].role
  /\ cast.at = "idle" => cast.to = {}

\* Once an account is inactive and its sweep is over, no socket of it is live: one that
\* was connecting meanwhile meets the epoch, one that connects later the account.
NoSurvivor ==
  ~ account.active /\ request.done # "committed" => LiveBy("account") = {}

\* A broadcast that starts more than the cache's time after a removal was committed
\* picks no socket of the removed member, whichever answers were on their way.
RemovedHearsNoMore ==
  cast.at = "send" /\ ~ member /\ cast.begun >= removedAt + TTL =>
    \A s \in cast.to : socket[s].by # "account"

\* A socket opened before the last cut of its account, or with a link that is revoked,
\* does not stay: the reaper finds what no sweep reached.
Outdated(s) ==
  Live(s) /\ IF socket[s].by = "account" THEN socket[s].issued < account.valid ELSE ~ invite
OutdatedGoes == \A s \in Sockets : Outdated(s) ~> ~ Open(s)

\* Removal works whatever was on its way: a sweep for the account, the cache's time
\* for its membership.
RevocationInv ==
  /\ RevocationTypeOK
  /\ NoSurvivor
  /\ RemovedHearsNoMore
=============================================================================
