--------------------------- MODULE HostingAccess ---------------------------
(***************************************************************************)
(* Who may create events and who runs the platform: the Admin pages that   *)
(* change an account (portal/user_admin.py, portal/routers/admin.py), the  *)
(* hosting invitations and the hosting requests (portal/routers/auth.py).  *)
(*                                                                         *)
(* A handler reads and checks, and writes in one transaction later: SQLite *)
(* takes no lock for the reads, and the first write waits for the one      *)
(* writer before it.  What the mapped code reads after its first write it  *)
(* reads inside the transaction.  An UPDATE of a row that is gone fails    *)
(* the request, a DELETE of one does not, and foreign keys cascade.        *)
(***************************************************************************)
EXTENDS FiniteSets, Functions, Naturals, Sequences

CONSTANTS Handler, Account, Invite, Ask, Nobody,
          MaxRequests   \* a bound: the requests served

VARIABLES account,   \* the users table
          invite,    \* the hosting_invite rows of auth_tokens
          ask,       \* the hosting_requests table
          told,      \* request -> the outcomes its sender was mailed
          grants,    \* invitation -> how often it gave access (history)
          job,       \* handler -> what it has read and will write
          requests   \* how many requests have begun

hostingVars == <<account, invite, ask, told, grants, job, requests>>

Flag == {"host", "admin", "active", "verified"}
NoRow == [row |-> "none", host |-> FALSE, admin |-> FALSE, active |-> FALSE,
          ready |-> FALSE, verified |-> FALSE]
Member == [row |-> "here", host |-> FALSE, admin |-> FALSE, active |-> TRUE,
           ready |-> TRUE, verified |-> TRUE]
IdleJob == [op |-> "idle", who |-> Nobody, item |-> Nobody, flag |-> "", to |-> FALSE, seen |-> {}]

HostingTypeOK ==
  /\ account \in [Account -> [row : {"none", "here", "gone"}, host : BOOLEAN, admin : BOOLEAN,
                              active : BOOLEAN, ready : BOOLEAN, verified : BOOLEAN]]
  /\ invite \in [Invite -> [of : Account \cup {Nobody}, st : {"free", "open", "used", "gone"}]]
  /\ ask \in [Ask -> [of : Account \cup {Nobody}, st : {"free", "open", "granted", "declined", "gone"}]]
  /\ \A u \in Account : account[u].row # "here" => ~account[u].host /\ ~account[u].admin

HostingInit ==
  /\ account \in [Account -> {NoRow, Member, [Member EXCEPT !.admin = TRUE]}]
  /\ \E u \in Account : account[u].admin
  /\ invite = [i \in Invite |-> [of |-> Nobody, st |-> "free"]]
  /\ ask = [r \in Ask |-> [of |-> Nobody, st |-> "free"]]
  /\ told = [r \in Ask |-> <<>>]
  /\ grants = [i \in Invite |-> 0]
  /\ job = [h \in Handler |-> IdleJob]
  /\ requests = 0

Here(u) == account[u].row = "here"
ActiveAdmins == {u \in Account : account[u].admin /\ account[u].active}
LastActiveAdmin(u) == u \in ActiveAdmins /\ Cardinality(ActiveAdmins) <= 1
OpenInvites(u) == {i \in Invite : invite[i] = [of |-> u, st |-> "open"]}
OpenAsks(u) == {r \in Ask : ask[r] = [of |-> u, st |-> "open"]}

------------------------------------------------------------------------------
(* What a handler reads and checks.                                        *)
Job(op, u, x) == [IdleJob EXCEPT !.op = op, !.who = u, !.item = x]

Begin(h, j) == /\ job[h] = IdleJob /\ requests < MaxRequests
               /\ job' = [job EXCEPT ![h] = j]
               /\ requests' = requests + 1
               /\ UNCHANGED <<account, invite, ask, told, grants>>

SetUserAccess(h, a, u, f, v) ==
  /\ a \in ActiveAdmins /\ Here(u) /\ account[u][f] # v
  /\ CASE f = "host"   -> ~account[u].admin /\ (v => account[u].active /\ account[u].ready)
       [] f = "admin"  -> u # a /\ (IF v THEN account[u].active ELSE ~LastActiveAdmin(u))
       [] f = "active" -> u # a /\ (~v => ~LastActiveAdmin(u))
       [] f = "verified" -> ~v => u # a /\ ~LastActiveAdmin(u)
  /\ Begin(h, [Job("access", u, Nobody) EXCEPT !.flag = f, !.to = v, !.seen = {account[u]}])

DeleteUser(h, a, u) == /\ a \in ActiveAdmins \ {u} /\ Here(u) /\ ~LastActiveAdmin(u)
                       /\ Begin(h, Job("delete", u, Nobody))

Submit(h, u) == /\ Here(u) /\ account[u].active /\ ~account[u].admin /\ ~account[u].host
                /\ OpenAsks(u) = {}
                /\ Begin(h, Job("submit", u, Nobody))

Grant(h, r) == /\ ActiveAdmins # {} /\ ask[r].st = "open" /\ account[ask[r].of].active
               /\ Begin(h, [Job("grant", ask[r].of, r) EXCEPT !.seen = {account[ask[r].of]}])

Decline(h, r) == /\ ActiveAdmins # {} /\ ask[r].st = "open"
                 /\ Begin(h, Job("decline", ask[r].of, r))

(* An unknown address gets a stub account.                                 *)
InviteUser(h, u) ==
  /\ ActiveAdmins # {}
  /\ account[u].row = "none" \/ (Here(u) /\ account[u].active /\ ~account[u].admin /\ ~account[u].host)
  /\ Begin(h, [Job("invite", u, Nobody) EXCEPT !.to = ~Here(u), !.seen = OpenInvites(u)])

CancelInvite(h, i) == /\ ActiveAdmins # {} /\ invite[i].st \in {"open", "used"}
                      /\ Begin(h, Job("cancel", Nobody, i))

ResendInvite(h, i) == /\ ActiveAdmins # {} /\ invite[i].st \in {"open", "used"}
                      /\ account[invite[i].of].active
                      /\ Begin(h, Job("resend", invite[i].of, i))

(* Whoever has no password chooses one, or is signed in as the account.    *)
AcceptInvite(h, i) ==
  LET u == invite[i].of IN
  /\ invite[i].st = "open" /\ account[u].active
  /\ account[u].ready => account[u].verified
  /\ \E chosen \in BOOLEAN :
       /\ chosen => ~account[u].ready
       /\ Begin(h, [Job("accept", u, i) EXCEPT !.to = chosen, !.seen = {account[u]}])

Register(h, u) ==
  /\ account[u].row = "none" \/ (Here(u) /\ account[u].active /\ ~account[u].verified)
  /\ Begin(h, [Job("register", u, Nobody) EXCEPT !.seen = {account[u]}])

------------------------------------------------------------------------------
(* The transaction of each.                                                *)
Finish(h) == job' = [job EXCEPT ![h] = IdleJob] /\ UNCHANGED requests

Fails(h) == Finish(h) /\ UNCHANGED <<account, invite, ask, told, grants>>

(* The id the database gives a new row.                                    *)
NewId(f) == LET free == {x \in DOMAIN f : f[x].st = "free"}
            IN IF free = {} THEN {} ELSE {CHOOSE x \in free : TRUE}

Gone(f, S) == [x \in DOMAIN f |-> IF x \in S THEN [f[x] EXCEPT !.st = "gone"] ELSE f[x]]
Granted(S) == [r \in Ask |-> IF r \in S THEN [ask[r] EXCEPT !.st = "granted"] ELSE ask[r]]

(* An UPDATE must find its row.                                            *)
Updates(u) == Here(u)

(* What a column holds once v is assigned to an attribute: it is written   *)
(* only if v is not what was loaded.                                       *)
Wrote(now, loaded, v) == IF loaded = v THEN now ELSE v

(* slip: the whole row is written back as it was read. *)
WrittenWhole(u, f, v, read) == [read EXCEPT ![f] = v]

(* Only the attribute that was set differs from what was loaded.           *)
Written(u, f, v, read) == [account[u] EXCEPT ![f] = v]

CommitAccess(h) ==
  LET u == job[h].who  f == job[h].flag  v == job[h].to
  IN /\ job[h].op = "access" /\ Updates(u)
     /\ \E read \in job[h].seen : account' = [account EXCEPT ![u] = Written(u, f, v, read)]
     /\ invite' = IF f = "host" THEN Gone(invite, OpenInvites(u)) ELSE invite
     /\ ask' = IF f = "host" /\ v THEN Granted(OpenAsks(u)) ELSE ask
     /\ Finish(h) /\ UNCHANGED <<told, grants>>

CommitDelete(h) ==
  LET u == job[h].who
  IN /\ job[h].op = "delete"
     /\ account' = [account EXCEPT ![u] = [NoRow EXCEPT !.row = "gone"]]
     /\ invite' = Gone(invite, {i \in Invite : invite[i].of = u})
     /\ ask' = Gone(ask, {r \in Ask : ask[r].of = u})
     /\ Finish(h) /\ UNCHANGED <<told, grants>>

(* One open request per person: a partial unique index.                    *)
UniqueAsk(u) == OpenAsks(u) = {}

CommitSubmit(h) ==
  LET u == job[h].who
  IN /\ job[h].op = "submit" /\ Here(u) /\ UniqueAsk(u)
     /\ \E r \in NewId(ask) :
                          ask' = [ask EXCEPT ![r] = [of |-> u, st |-> "open"]]
     /\ Finish(h) /\ UNCHANGED <<account, invite, told, grants>>

(* A mail's idempotency key names the request and the outcome: the second  *)
(* of its kind fails the transaction.                                      *)
FirstMail(r, outcome) == outcome \notin Range(told[r])

CommitGrant(h) ==
  LET u == job[h].who  r == job[h].item
  IN /\ job[h].op = "grant" /\ Updates(u) /\ FirstMail(r, "granted")
     /\ \E read \in job[h].seen : account' = [account EXCEPT ![u].host = Wrote(@, read.host, TRUE)]
     /\ ask' = [ask EXCEPT ![r].st = "granted"]
     /\ invite' = Gone(invite, OpenInvites(u))
     /\ told' = [told EXCEPT ![r] = Append(@, "granted")]
     /\ Finish(h) /\ UNCHANGED grants

CommitDecline(h) ==
  LET r == job[h].item
  IN /\ job[h].op = "decline" /\ Here(job[h].who) /\ FirstMail(r, "declined")
     /\ ask' = [ask EXCEPT ![r].st = "declined"]
     /\ told' = [told EXCEPT ![r] = Append(@, "declined")]
     /\ Finish(h) /\ UNCHANGED <<account, invite, grants>>

(* The stub's address must be new, an existing account must still be there *)
(* for the token to refer to.                                              *)
CommitInvite(h) ==
  LET u == job[h].who
  IN /\ job[h].op = "invite"
     /\ account[u].row = IF job[h].to THEN "none" ELSE "here"
     /\ account' = IF job[h].to THEN [account EXCEPT ![u].row = "here", ![u].active = TRUE] ELSE account
     /\ \E i \in NewId(invite) :
                             invite' = [Gone(invite, job[h].seen) EXCEPT ![i] = [of |-> u, st |-> "open"]]
     /\ Finish(h) /\ UNCHANGED <<ask, told, grants>>

CommitCancel(h) == /\ job[h].op = "cancel"
                   /\ invite' = Gone(invite, {job[h].item})
                   /\ Finish(h) /\ UNCHANGED <<account, ask, told, grants>>

(* slip: foreign keys are off. *)
ReferableAny(u) == TRUE

(* A token must refer to an account that is there.                         *)
Referable(u) == Here(u)

CommitResend(h) ==
  /\ job[h].op = "resend" /\ Referable(job[h].who)
  /\ \E i \in NewId(invite) :
       invite' = [Gone(invite, {job[h].item}) EXCEPT ![i] = [of |-> job[h].who, st |-> "open"]]
  /\ Finish(h) /\ UNCHANGED <<account, ask, told, grants>>

(* The claim is an UPDATE that only an unused row satisfies; the rest is   *)
(* the same transaction.                                                   *)
Claimed(i) == invite[i].st = "open"

CommitAccept(h) ==
  LET u == job[h].who  i == job[h].item
  IN /\ job[h].op = "accept" /\ Here(u) /\ Claimed(i)
     /\ \E read \in job[h].seen :
          account' = [account EXCEPT ![u].host = Wrote(@, read.host, TRUE),
                        ![u].ready = @ \/ job[h].to,
                        ![u].verified = IF job[h].to THEN Wrote(@, read.verified, TRUE) ELSE @]
     /\ invite' = [Gone(invite, {x \in Invite : invite[x].of = u}) EXCEPT ![i].st = "used"]
     /\ ask' = Granted(OpenAsks(u))
     /\ grants' = [grants EXCEPT ![i] = @ + 1]
     /\ Finish(h) /\ UNCHANGED told

(* The address is unique and a password optional.  A new registration of   *)
(* an address not verified when it was read takes the password away; one   *)
(* that found no account and loses the race to create it reads it again.   *)
CommitRegister(h) ==
  LET u == job[h].who
  IN /\ job[h].op = "register"
     /\ \E read \in job[h].seen :
          \/ /\ account[u].row = "none"
             /\ \E password \in BOOLEAN :
                  account' = [account EXCEPT ![u].row = "here", ![u].active = TRUE, ![u].ready = password]
          \/ /\ Here(u)
             /\ read.row = "none" => account[u].active /\ ~account[u].verified
             /\ account' = [account EXCEPT ![u].ready =
                             IF read.row = "none" THEN FALSE ELSE Wrote(@, read.ready, FALSE)]
     /\ Finish(h) /\ UNCHANGED <<invite, ask, told, grants>>

(* The link of a verification or sign-in mail: it is spent first, so the   *)
(* account is read inside the transaction.                                 *)
VerifyEmail(u) ==
  /\ Here(u) /\ account[u].active /\ ~account[u].verified
  /\ requests < MaxRequests /\ requests' = requests + 1
  /\ account' = [account EXCEPT ![u].verified = TRUE]
  /\ UNCHANGED <<invite, ask, told, grants, job>>

HostingNext ==
  \/ \E u \in Account : VerifyEmail(u)
  \/ \E h \in Handler :
       \/ \E u \in Account :
            \/ \E a \in Account : \/ DeleteUser(h, a, u)
                                  \/ \E f \in Flag, v \in BOOLEAN : SetUserAccess(h, a, u, f, v)
            \/ Submit(h, u) \/ InviteUser(h, u) \/ Register(h, u)
       \/ \E r \in Ask : Grant(h, r) \/ Decline(h, r)
       \/ \E i \in Invite : CancelInvite(h, i) \/ ResendInvite(h, i) \/ AcceptInvite(h, i)
       \/ CommitAccess(h) \/ CommitDelete(h) \/ CommitSubmit(h) \/ CommitGrant(h) \/ CommitDecline(h)
       \/ CommitInvite(h) \/ CommitCancel(h) \/ CommitResend(h) \/ CommitAccept(h) \/ CommitRegister(h)
       \/ job[h] # IdleJob /\ Fails(h)

HostingSpec == HostingInit /\ [][HostingNext]_hostingVars

------------------------------------------------------------------------------
(* An invitation gives access once, and never after it was used, cancelled *)
(* or replaced, however many people hold its page open: accept, cancel,    *)
(* resend and invite all read before they write.                           *)
InviteGrantsOnce ==
  \A i \in Invite : grants'[i] # grants[i] => invite[i].st = "open" /\ grants[i] = 0

(* Nobody has two open requests, whatever is submitted at once.            *)
OneOpenRequest == \A u \in Account : Cardinality(OpenAsks(u)) <= 1

(* No request is answered twice with the same outcome.  It can be answered *)
(* with both: a grant and a decline that overlap are each sent.            *)
OutcomeMailedOnce == \A r \in Ask : IsInjective(told[r])

(* An invitation or request never outlives its account, though each is     *)
(* written by a request that looked the account up earlier.                *)
NothingOutlivesTheAccount ==
  /\ \A i \in Invite : invite[i].st \in {"open", "used"} => Here(invite[i].of)
  /\ \A r \in Ask : ask[r].st \in {"open", "granted", "declined"} => Here(ask[r].of)

(* A request changes only the access it was asked to change: what another  *)
(* Admin decided about the same account meanwhile is not undone; only the  *)
(* person's own proof of the address verifies it without being asked.      *)
OnlyWhatWasAsked ==
  \A u \in Account : Here(u) /\ account'[u].row = "here" =>
    \A f \in {"admin", "active", "verified"} : account'[u][f] # account[u][f] =>
      \/ f = "verified" /\ account'[u].verified
      \/ \E h \in Handler : job[h].op = "access" /\ job[h].who = u /\ job[h].flag = f /\ job[h].to # account[u][f]

(* How access is given and taken.                                          *)
AccessAsDecided == [][InviteGrantsOnce /\ OnlyWhatWasAsked]_hostingVars

(* Requests, invitations and accounts, whatever each handler read before   *)
(* the others wrote.                                                       *)
HostingInv ==
  /\ HostingTypeOK
  /\ OneOpenRequest
  /\ OutcomeMailedOnce
  /\ NothingOutlivesTheAccount

(* user_admin.py promises that "the platform always keeps at least one     *)
(* active Admin"; each request counts them before it writes.               *)
KeepsAnAdmin == ActiveAdmins # {}
==============================================================================
