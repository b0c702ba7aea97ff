---------------------------- MODULE AccessProofs ----------------------------
(***************************************************************************)
(* Who is given access, for any number of accounts, invitations, hosting   *)
(* requests, apps, organisers, codes, tokens and requests being handled at *)
(* once: HostingInv and OAuthInv, how access, owners and roles come about, *)
(* that a reused token takes all that came of its grant with it, and how   *)
(* often somebody may try (LimitsInv).                                     *)
(***************************************************************************)
EXTENDS HostingAccess, OAuthGrants, EventTeam, RequestLimits, FiniteSetTheorems, SequenceTheorems,
        WellFoundedInduction, TLAPS

Outcome == {"granted", "declined"}
AccountRow == [row : {"none", "here", "gone"}, host : BOOLEAN, admin : BOOLEAN, active : BOOLEAN,
               ready : BOOLEAN, verified : BOOLEAN]
InviteRow == [of : Account \cup {Nobody}, st : {"free", "open", "used", "gone"}]
AskRow == [of : Account \cup {Nobody}, st : {"free", "open", "granted", "declined", "gone"}]
JobOp == {"idle", "access", "delete", "submit", "grant", "decline", "invite", "cancel", "resend", "accept", "register"}
JobRow == [op : JobOp, who : Account \cup {Nobody}, item : Invite \cup Ask \cup {Nobody}, flag : Flag \cup {""},
           to : BOOLEAN, seen : SUBSET (AccountRow \cup Invite)]

RowsOK ==
  /\ account \in [Account -> AccountRow] /\ invite \in [Invite -> InviteRow] /\ ask \in [Ask -> AskRow]
  /\ told \in [Ask -> Seq(Outcome)] /\ grants \in [Invite -> Nat]
  /\ job \in [Handler -> JobRow]

(* What a handler remembers of the rows it has read is still so.           *)
JobsOK == \A h \in Handler :
  /\ job[h].op \notin {"idle", "cancel"} => job[h].who \in Account
  /\ job[h].op = "access" => job[h].flag \in Flag
  /\ job[h].op \in {"cancel", "resend", "accept"} => job[h].item \in Invite
  /\ job[h].op \in {"grant", "decline"} => /\ job[h].item \in Ask
                                           /\ ask[job[h].item].of = job[h].who
                                           /\ ask[job[h].item].st # "free"

(* Only an account that is there has any access.                           *)
AccountsOK == \A u \in Account : account[u].row # "here" => ~account[u].host /\ ~account[u].admin

(* An invitation that can still be used has never been.                    *)
InvitesOK == \A i \in Invite :
  /\ invite[i].st \in {"open", "used"} => invite[i].of \in Account /\ Here(invite[i].of)
  /\ invite[i].st \in {"free", "open"} => grants[i] = 0

AsksOK ==
  /\ \A r \in Ask : ask[r].st \in {"open", "granted", "declined"} => ask[r].of \in Account /\ Here(ask[r].of)
  /\ \A r, s \in Ask : ask[r].st = "open" /\ ask[s].st = "open" /\ ask[r].of = ask[s].of => r = s
  /\ \A r \in Ask : IsInjective(told[r])

AccessInv == RowsOK /\ JobsOK /\ AccountsOK /\ InvitesOK /\ AsksOK

------------------------------------------------------------------------------
(* An id the database gives is one that was free.                          *)
LEMMA NewIdIsFree ==
  ASSUME NEW f, NEW x \in NewId(f)
  PROVE  x \in DOMAIN f /\ f[x].st = "free"
<1> DEFINE free == {y \in DOMAIN f : f[y].st = "free"}
<1>1. free # {} /\ x = CHOOSE y \in free : TRUE
  BY DEF NewId
<1>2. x \in free
  BY <1>1
<1> QED
  BY <1>2

(* At most one member means at most one to count.                          *)
LEMMA AtMostOneAsk ==
  ASSUME NEW S, \A a, b \in S : a = b
  PROVE  Cardinality(S) <= 1
<1>1. CASE S = {}
  BY <1>1, FS_EmptySet
<1>2. CASE S # {}
  <2>1. PICK a \in S : TRUE
    BY <1>2
  <2>2. S = {a}
    BY <2>1
  <2> QED
    BY <2>2, FS_Singleton
<1> QED
  BY <1>1, <1>2

LEMMA AccessInvSuffices == AccessInv => HostingInv
<1> SUFFICES ASSUME AccessInv PROVE HostingInv
  OBVIOUS
<1>1. HostingTypeOK
  BY DEF AccessInv, RowsOK, AccountsOK, AccountRow, InviteRow, AskRow, HostingTypeOK
<1>2. OneOpenRequest
  <2> SUFFICES ASSUME NEW u \in Account PROVE Cardinality(OpenAsks(u)) <= 1
    BY DEF OneOpenRequest
  <2>1. \A r, s \in OpenAsks(u) : r = s
    BY DEF OpenAsks, AccessInv, AsksOK
  <2> QED
    BY <2>1, AtMostOneAsk
<1>3. OutcomeMailedOnce
  BY DEF OutcomeMailedOnce, AccessInv, AsksOK
<1>4. NothingOutlivesTheAccount
  BY DEF NothingOutlivesTheAccount, AccessInv, AsksOK, InvitesOK
<1> QED
  BY <1>1, <1>2, <1>3, <1>4 DEF HostingInv

LEMMA AccessInit == HostingInit => AccessInv
<1> SUFFICES ASSUME HostingInit PROVE AccessInv
  OBVIOUS
<1>1. \A u \in Account : account[u] \in AccountRow /\ (account[u].row # "here" => ~account[u].host /\ ~account[u].admin)
  <2> SUFFICES ASSUME NEW u \in Account
               PROVE  account[u] \in AccountRow /\ (account[u].row # "here" => ~account[u].host /\ ~account[u].admin)
    OBVIOUS
  <2>1. account[u] \in {NoRow, Member, [Member EXCEPT !.admin = TRUE]}
    BY DEF HostingInit
  <2>2. CASE account[u] = NoRow
    BY <2>2 DEF NoRow, AccountRow
  <2>3. CASE account[u] = Member
    BY <2>3 DEF Member, AccountRow
  <2>4. CASE account[u] = [Member EXCEPT !.admin = TRUE]
    BY <2>4 DEF Member, AccountRow
  <2> QED
    BY <2>1, <2>2, <2>3, <2>4
<1>2. account \in [Account -> AccountRow] /\ AccountsOK
  BY <1>1 DEF HostingInit, AccountsOK
<1>3. /\ invite \in [Invite -> InviteRow] /\ ask \in [Ask -> AskRow]
      /\ told \in [Ask -> Seq(Outcome)] /\ grants \in [Invite -> Nat]
  BY DEF HostingInit, InviteRow, AskRow
<1>4. job \in [Handler -> JobRow] /\ JobsOK
  BY DEF HostingInit, IdleJob, JobRow, JobOp, JobsOK
<1>5. InvitesOK
  BY DEF HostingInit, InvitesOK
<1>6. AsksOK
  BY DEF HostingInit, AsksOK, IsInjective
<1> QED
  BY <1>2, <1>3, <1>4, <1>5, <1>6 DEF AccessInv, RowsOK

------------------------------------------------------------------------------
(* A request that begins only notes what it has read.                      *)
LEMMA BeginKeeps ==
  ASSUME AccessInv, NEW h \in Handler, NEW j \in JobRow, Begin(h, j),
         j.op \notin {"idle", "cancel"} => j.who \in Account,
         j.op = "access" => j.flag \in Flag,
         j.op \in {"cancel", "resend", "accept"} => j.item \in Invite,
         j.op \in {"grant", "decline"} => j.item \in Ask /\ ask[j.item].of = j.who /\ ask[j.item].st # "free"
  PROVE  AccessInv'
<1>1. job' = [job EXCEPT ![h] = j] /\ UNCHANGED <<account, invite, ask, told, grants>>
  BY DEF Begin
<1>2. RowsOK'
  BY <1>1 DEF AccessInv, RowsOK
<1>3. JobsOK'
  BY <1>1 DEF AccessInv, RowsOK, JobsOK
<1>4. AccountsOK' /\ InvitesOK' /\ AsksOK'
  BY <1>1 DEF AccessInv, AccountsOK, InvitesOK, AsksOK, Here
<1> QED
  BY <1>2, <1>3, <1>4 DEF AccessInv

(* A handler that is done remembers nothing; the others are right as long  *)
(* as no request is freed or changes hands.                                *)
LEMMA FinishKeeps ==
  ASSUME AccessInv, NEW h \in Handler, Finish(h),
         \A r \in Ask : ask[r].st # "free" => ask'[r].st # "free" /\ ask'[r].of = ask[r].of
  PROVE  job' \in [Handler -> JobRow] /\ JobsOK'
<1>1. IdleJob \in JobRow
  BY DEF IdleJob, JobRow, JobOp
<1>2. job' = [job EXCEPT ![h] = IdleJob]
  BY DEF Finish
<1>3. job' \in [Handler -> JobRow]
  BY <1>1, <1>2 DEF AccessInv, RowsOK
<1>4. \A g \in Handler : job'[g] = job[g] \/ job'[g].op = "idle"
  BY <1>2 DEF AccessInv, RowsOK, IdleJob
<1>5. JobsOK'
  BY <1>4 DEF AccessInv, JobsOK
<1> QED
  BY <1>3, <1>5

LEMMA BeginsKeep ==
  ASSUME AccessInv, NEW h \in Handler
  PROVE  /\ \A u \in Account :
              /\ \A a \in Account : /\ DeleteUser(h, a, u) => AccessInv'
                                    /\ \A f \in Flag, v \in BOOLEAN : SetUserAccess(h, a, u, f, v) => AccessInv'
              /\ Submit(h, u) \/ InviteUser(h, u) \/ Register(h, u) => AccessInv'
         /\ \A r \in Ask : Grant(h, r) \/ Decline(h, r) => AccessInv'
         /\ \A i \in Invite : CancelInvite(h, i) \/ ResendInvite(h, i) \/ AcceptInvite(h, i) => AccessInv'
<1> USE DEF JobRow, JobOp, Job, IdleJob
<1>1. ASSUME NEW u \in Account, NEW a \in Account, DeleteUser(h, a, u) PROVE AccessInv'
  <2>1. Job("delete", u, Nobody) \in JobRow /\ Begin(h, Job("delete", u, Nobody))
    BY <1>1 DEF DeleteUser
  <2> QED
    BY <2>1, BeginKeeps
<1>2. ASSUME NEW u \in Account, NEW a \in Account, NEW f \in Flag, NEW v \in BOOLEAN, SetUserAccess(h, a, u, f, v)
      PROVE  AccessInv'
  <2> DEFINE j == [Job("access", u, Nobody) EXCEPT !.flag = f, !.to = v, !.seen = {account[u]}]
  <2>1. account[u] \in AccountRow
    BY DEF AccessInv, RowsOK
  <2>2. j \in JobRow /\ j.op = "access" /\ j.who = u /\ j.flag = f
    BY <2>1
  <2>3. Begin(h, j)
    BY <1>2 DEF SetUserAccess
  <2> QED
    BY <2>2, <2>3, BeginKeeps
<1>3. ASSUME NEW u \in Account, Submit(h, u) PROVE AccessInv'
  <2>1. Job("submit", u, Nobody) \in JobRow /\ Begin(h, Job("submit", u, Nobody))
    BY <1>3 DEF Submit
  <2> QED
    BY <2>1, BeginKeeps
<1>4. ASSUME NEW u \in Account, InviteUser(h, u) PROVE AccessInv'
  <2> DEFINE j == [Job("invite", u, Nobody) EXCEPT !.to = ~Here(u), !.seen = OpenInvites(u)]
  <2>1. j \in JobRow /\ j.op = "invite" /\ j.who = u
    BY DEF OpenInvites
  <2>2. Begin(h, j)
    BY <1>4 DEF InviteUser
  <2> QED
    BY <2>1, <2>2, BeginKeeps
<1>5. ASSUME NEW u \in Account, Register(h, u) PROVE AccessInv'
  <2> DEFINE j == [Job("register", u, Nobody) EXCEPT !.seen = {account[u]}]
  <2>1. account[u] \in AccountRow
    BY DEF AccessInv, RowsOK
  <2>2. j \in JobRow /\ j.op = "register" /\ j.who = u
    BY <2>1
  <2>3. Begin(h, j)
    BY <1>5 DEF Register
  <2> QED
    BY <2>2, <2>3, BeginKeeps
<1>6. ASSUME NEW r \in Ask, Decline(h, r) PROVE AccessInv'
  <2> DEFINE j == Job("decline", ask[r].of, r)
  <2>1. ask[r].of \in Account /\ ask[r].st = "open" /\ Begin(h, j)
    BY <1>6 DEF Decline, AccessInv, AsksOK
  <2>2. j \in JobRow /\ j.op = "decline" /\ j.item = r /\ j.who = ask[r].of
    BY <2>1
  <2> QED
    BY <2>1, <2>2, BeginKeeps
<1>9. ASSUME NEW r \in Ask, Grant(h, r) PROVE AccessInv'
  <2> DEFINE j == [Job("grant", ask[r].of, r) EXCEPT !.seen = {account[ask[r].of]}]
  <2>1. ask[r].of \in Account /\ ask[r].st = "open" /\ Begin(h, j)
    BY <1>9 DEF Grant, AccessInv, AsksOK
  <2>2. account[ask[r].of] \in AccountRow
    BY <2>1 DEF AccessInv, RowsOK
  <2>3. j \in JobRow /\ j.op = "grant" /\ j.item = r /\ j.who = ask[r].of
    BY <2>1, <2>2
  <2> QED
    BY <2>1, <2>3, BeginKeeps
<1>7. ASSUME NEW i \in Invite, CancelInvite(h, i) PROVE AccessInv'
  <2>1. Job("cancel", Nobody, i) \in JobRow /\ Begin(h, Job("cancel", Nobody, i))
    BY <1>7 DEF CancelInvite
  <2> QED
    BY <2>1, BeginKeeps
<1>8. ASSUME NEW i \in Invite, ResendInvite(h, i) PROVE AccessInv'
  <2> DEFINE j == Job("resend", invite[i].of, i)
  <2>1. invite[i].of \in Account /\ Begin(h, j)
    BY <1>8 DEF ResendInvite, AccessInv, InvitesOK
  <2>2. j \in JobRow /\ j.op = "resend" /\ j.item = i /\ j.who = invite[i].of
    BY <2>1
  <2> QED
    BY <2>1, <2>2, BeginKeeps
<1>10. ASSUME NEW i \in Invite, AcceptInvite(h, i) PROVE AccessInv'
  <2> DEFINE u == invite[i].of
  <2>1. PICK chosen \in BOOLEAN : Begin(h, [Job("accept", u, i) EXCEPT !.to = chosen, !.seen = {account[u]}])
    BY <1>10 DEF AcceptInvite
  <2> DEFINE j == [Job("accept", u, i) EXCEPT !.to = chosen, !.seen = {account[u]}]
  <2>2. u \in Account /\ account[u] \in AccountRow
    BY <1>10 DEF AcceptInvite, AccessInv, InvitesOK, RowsOK
  <2>3. j \in JobRow /\ j.op = "accept" /\ j.item = i /\ j.who = u
    BY <2>2
  <2> QED
    BY <2>1, <2>2, <2>3, BeginKeeps
<1> QED
  BY <1>1, <1>2, <1>3, <1>4, <1>5, <1>6, <1>7, <1>8, <1>9, <1>10

------------------------------------------------------------------------------
(* One lemma per transaction.                                              *)
LEMMA FailKeeps == ASSUME AccessInv, NEW h \in Handler, Fails(h) PROVE AccessInv'
<1>1. UNCHANGED <<account, invite, ask, told, grants>>
  BY DEF Fails
<1>2. JobsOK' /\ job' \in [Handler -> JobRow]
  BY <1>1, FinishKeeps DEF Fails
<1> QED
  BY <1>1, <1>2 DEF AccessInv, RowsOK, AccountsOK, InvitesOK, AsksOK, Here

(* Rows that go, and requests that are granted, are otherwise as they were. *)
LEMMA GoneRows ==
  ASSUME AccessInv, NEW S
  PROVE  /\ Gone(invite, S) \in [Invite -> InviteRow]
         /\ \A i \in Invite : /\ Gone(invite, S)[i].of = invite[i].of
                              /\ Gone(invite, S)[i].st = IF i \in S THEN "gone" ELSE invite[i].st
         /\ Gone(ask, S) \in [Ask -> AskRow]
         /\ \A r \in Ask : /\ Gone(ask, S)[r].of = ask[r].of
                           /\ Gone(ask, S)[r].st = IF r \in S THEN "gone" ELSE ask[r].st
         /\ Granted(S) \in [Ask -> AskRow]
         /\ \A r \in Ask : /\ Granted(S)[r].of = ask[r].of
                           /\ Granted(S)[r].st = IF r \in S THEN "granted" ELSE ask[r].st
<1> USE DEF AccessInv, RowsOK
<1>1. /\ Gone(invite, S) \in [Invite -> InviteRow]
      /\ \A i \in Invite : /\ Gone(invite, S)[i].of = invite[i].of
                           /\ Gone(invite, S)[i].st = IF i \in S THEN "gone" ELSE invite[i].st
  BY DEF Gone, InviteRow
<1>2. /\ Gone(ask, S) \in [Ask -> AskRow]
      /\ \A r \in Ask : /\ Gone(ask, S)[r].of = ask[r].of
                        /\ Gone(ask, S)[r].st = IF r \in S THEN "gone" ELSE ask[r].st
  BY DEF Gone, AskRow
<1>3. /\ Granted(S) \in [Ask -> AskRow]
      /\ \A r \in Ask : /\ Granted(S)[r].of = ask[r].of
                        /\ Granted(S)[r].st = IF r \in S THEN "granted" ELSE ask[r].st
  BY DEF Granted, AskRow
<1> QED
  BY <1>1, <1>2, <1>3

(* Invitations that only go stay right while accounts do; so do requests   *)
(* that go, or are answered while their account is there.                  *)
LEMMA InvitesLessen ==
  ASSUME AccessInv, \A u \in Account : Here(u) => account'[u].row = "here", grants' = grants,
         \A i \in Invite : invite'[i].of = invite[i].of /\ invite'[i].st \in {invite[i].st, "gone"}
  PROVE  InvitesOK'
BY DEF AccessInv, InvitesOK, Here

LEMMA AsksAnswered ==
  ASSUME AccessInv, \A u \in Account : Here(u) => account'[u].row = "here", \A r \in Ask : IsInjective(told'[r]),
         \A r \in Ask : /\ ask'[r].of = ask[r].of
                        /\ \/ ask'[r].st = ask[r].st \/ ask'[r].st = "gone"
                           \/ ask'[r].st \in {"granted", "declined"} /\ ask[r].of \in Account /\ account'[ask[r].of].row = "here"
  PROVE  AsksOK'
<1>1. \A r \in Ask : ask'[r].st \in {"open", "granted", "declined"} => ask'[r].of \in Account /\ account'[ask'[r].of].row = "here"
  BY DEF AccessInv, AsksOK, Here
<1>2. \A r, s \in Ask : ask'[r].st = "open" /\ ask'[s].st = "open" /\ ask'[r].of = ask'[s].of => r = s
  BY DEF AccessInv, AsksOK
<1> QED
  BY <1>1, <1>2 DEF AsksOK, Here

(* A mail that is the first of its kind leaves the outcomes distinct.      *)
LEMMA MailedKeeps ==
  ASSUME AccessInv, NEW r \in Ask, NEW outcome \in Outcome, FirstMail(r, outcome),
         told' = [told EXCEPT ![r] = Append(@, outcome)]
  PROVE  told' \in [Ask -> Seq(Outcome)] /\ \A s \in Ask : IsInjective(told'[s])
<1>1. told \in [Ask -> Seq(Outcome)] /\ \A s \in Ask : IsInjective(told[s])
  BY DEF AccessInv, RowsOK, AsksOK
<1> DEFINE old == told[r]
<1>2. old \in Seq(Outcome) /\ IsInjective(old) /\ \A n \in DOMAIN old : old[n] # outcome
  BY <1>1 DEF FirstMail, Range
<1>3. told'[r] = Append(old, outcome) /\ \A s \in Ask \ {r} : told'[s] = told[s]
  BY <1>1
<1>4. Append(old, outcome) \in Seq(Outcome)
  BY <1>2
<1> HIDE DEF old
<1>5. IsInjective(Append(old, outcome))
  <2>1. DOMAIN Append(old, outcome) = 1 .. Len(old) + 1 /\ DOMAIN old = 1 .. Len(old) /\ Len(old) \in Nat
    BY <1>2
  <2>2. \A n \in 1 .. Len(old) : Append(old, outcome)[n] = old[n]
    BY <1>2
  <2>3. Append(old, outcome)[Len(old) + 1] = outcome
    BY <1>2
  <2>4. ASSUME NEW a \in 1 .. Len(old) + 1, NEW b \in 1 .. Len(old) + 1, Append(old, outcome)[a] = Append(old, outcome)[b]
        PROVE  a = b
    <3>1. CASE a \in 1 .. Len(old) /\ b \in 1 .. Len(old)
      BY <1>2, <2>1, <2>2, <2>4, <3>1 DEF IsInjective
    <3>2. CASE a = Len(old) + 1 /\ b \in 1 .. Len(old)
      BY <1>2, <2>1, <2>2, <2>3, <2>4, <3>2
    <3>3. CASE b = Len(old) + 1 /\ a \in 1 .. Len(old)
      BY <1>2, <2>1, <2>2, <2>3, <2>4, <3>3
    <3>4. CASE a = Len(old) + 1 /\ b = Len(old) + 1
      BY <3>4
    <3> QED
      BY <2>1, <3>1, <3>2, <3>3, <3>4
  <2> QED
    BY <2>1, <2>4 DEF IsInjective
<1> QED
  BY <1>1, <1>3, <1>4, <1>5

LEMMA AccessKeeps == ASSUME AccessInv, NEW h \in Handler, CommitAccess(h) PROVE AccessInv'
<1> DEFINE u == job[h].who  f == job[h].flag  v == job[h].to
<1>1. /\ account' = [account EXCEPT ![u] = [account[u] EXCEPT ![f] = v]]
      /\ Here(u) /\ job[h].op = "access"
      /\ invite' = IF f = "host" THEN Gone(invite, OpenInvites(u)) ELSE invite
      /\ ask' = IF f = "host" /\ v THEN Granted(OpenAsks(u)) ELSE ask
      /\ UNCHANGED <<told, grants>> /\ Finish(h)
  BY DEF CommitAccess, Updates, Written
<1>2. u \in Account /\ f \in {"host", "admin", "active", "verified"} /\ v \in BOOLEAN
  BY <1>1 DEF AccessInv, RowsOK, JobsOK, JobRow, Flag
<1>3. account' \in [Account -> AccountRow] /\ account'[u].row = "here" /\ \A w \in Account \ {u} : account'[w] = account[w]
  <2>1. account[u] \in AccountRow /\ account[u].row = "here"
    BY <1>1, <1>2 DEF AccessInv, RowsOK, Here
  <2>2. [account[u] EXCEPT ![f] = v] \in AccountRow /\ [account[u] EXCEPT ![f] = v].row = "here"
    <3>1. CASE f = "host"
      BY <1>2, <2>1, <3>1 DEF AccountRow
    <3>2. CASE f = "admin"
      BY <1>2, <2>1, <3>2 DEF AccountRow
    <3>3. CASE f = "active"
      BY <1>2, <2>1, <3>3 DEF AccountRow
    <3>4. CASE f = "verified"
      BY <1>2, <2>1, <3>4 DEF AccountRow
    <3> QED
      BY <1>2, <3>1, <3>2, <3>3, <3>4
  <2> QED
    BY <1>1, <1>2, <2>2 DEF AccessInv, RowsOK
<1>4. \A w \in Account : Here(w) => account'[w].row = "here"
  BY <1>3 DEF Here
<1>5. /\ invite' \in [Invite -> InviteRow]
      /\ \A i \in Invite : invite'[i].of = invite[i].of /\ invite'[i].st \in {invite[i].st, "gone"}
  BY <1>1, GoneRows DEF AccessInv, RowsOK
<1>6. /\ ask' \in [Ask -> AskRow]
      /\ \A r \in Ask : /\ ask'[r].of = ask[r].of
                        /\ ask'[r].st = ask[r].st \/ (ask'[r].st = "granted" /\ ask[r].st = "open" /\ ask[r].of = u)
  BY <1>1, GoneRows DEF AccessInv, RowsOK, OpenAsks
<1>7. JobsOK' /\ job' \in [Handler -> JobRow]
  <2>1. \A r \in Ask : ask[r].st # "free" => ask'[r].st # "free" /\ ask'[r].of = ask[r].of
    BY <1>6
  <2>2. Finish(h)
    BY <1>1
  <2> QED
    BY <2>1, <2>2, FinishKeeps
<1>8. AccountsOK'
  BY <1>3 DEF AccessInv, AccountsOK
<1>9. InvitesOK'
  BY <1>1, <1>4, <1>5, InvitesLessen
<1>10. AsksOK'
  <2>1. \A r \in Ask : IsInjective(told'[r])
    BY <1>1 DEF AccessInv, AsksOK
  <2>2. u \in Account /\ account'[u].row = "here"
    BY <1>1, <1>2, <1>4
  <2> QED
    BY <1>4, <1>6, <2>1, <2>2, AsksAnswered
<1> QED
  BY <1>1, <1>3, <1>5, <1>6, <1>7, <1>8, <1>9, <1>10 DEF AccessInv, RowsOK

(* Everything of an account goes with it.                                  *)
LEMMA DeleteUserKeeps == ASSUME AccessInv, NEW h \in Handler, CommitDelete(h) PROVE AccessInv'
<1> DEFINE u == job[h].who
<1> USE DEF Here
<1>1. /\ account' = [account EXCEPT ![u] = [NoRow EXCEPT !.row = "gone"]]
      /\ invite' = Gone(invite, {i \in Invite : invite[i].of = u})
      /\ ask' = Gone(ask, {r \in Ask : ask[r].of = u})
      /\ UNCHANGED <<told, grants>> /\ Finish(h)
  BY DEF CommitDelete
<1>2. /\ account' \in [Account -> AccountRow] /\ AccountsOK'
      /\ \A w \in Account \ {u} : account'[w] = account[w]
  <2> DEFINE gone == [NoRow EXCEPT !.row = "gone"]
  <2>1. gone \in AccountRow /\ ~gone.host /\ ~gone.admin
    BY DEF NoRow, AccountRow
  <2> HIDE DEF gone
  <2> QED
    BY <1>1, <2>1 DEF AccessInv, RowsOK, AccountsOK, gone
<1>3. /\ invite' \in [Invite -> InviteRow]
      /\ \A i \in Invite : /\ invite'[i].of = invite[i].of
                           /\ invite'[i].st = IF invite[i].of = u THEN "gone" ELSE invite[i].st
  BY <1>1, GoneRows
<1>4. /\ ask' \in [Ask -> AskRow]
      /\ \A r \in Ask : ask'[r].of = ask[r].of /\ ask'[r].st = IF ask[r].of = u THEN "gone" ELSE ask[r].st
  BY <1>1, GoneRows
<1>5. JobsOK' /\ job' \in [Handler -> JobRow]
  BY <1>1, <1>4, FinishKeeps
<1>6. InvitesOK'
  BY <1>1, <1>2, <1>3 DEF AccessInv, InvitesOK
<1>7. AsksOK'
  BY <1>1, <1>2, <1>4 DEF AccessInv, AsksOK
<1> QED
  BY <1>1, <1>2, <1>3, <1>4, <1>5, <1>6, <1>7 DEF AccessInv, RowsOK

(* The database's index keeps the second of two open requests out.         *)
LEMMA SubmitKeeps == ASSUME AccessInv, NEW h \in Handler, CommitSubmit(h) PROVE AccessInv'
<1> DEFINE u == job[h].who
<1>1. /\ UNCHANGED <<account, invite, told, grants>> /\ Finish(h)
      /\ job[h].op = "submit" /\ Here(u) /\ OpenAsks(u) = {}
  BY DEF CommitSubmit, UniqueAsk
<1>2. PICK r \in NewId(ask) : ask' = [ask EXCEPT ![r] = [of |-> u, st |-> "open"]]
  BY DEF CommitSubmit
<1>3. u \in Account
  BY <1>1 DEF AccessInv, JobsOK
<1>4. r \in Ask /\ ask[r].st = "free"
  BY NewIdIsFree DEF AccessInv, RowsOK
<1>5. ask' \in [Ask -> AskRow]
  BY <1>2, <1>3, <1>4 DEF AccessInv, RowsOK, AskRow
<1>6. ask'[r] = [of |-> u, st |-> "open"] /\ \A s \in Ask \ {r} : ask'[s] = ask[s]
  BY <1>2, <1>4 DEF AccessInv, RowsOK
<1>7. JobsOK' /\ job' \in [Handler -> JobRow]
  BY <1>1, <1>4, <1>6, FinishKeeps
<1>8. AsksOK'
  <2>1. \A s \in Ask : ~(ask[s].of = u /\ ask[s].st = "open")
    <3>1. \A s \in Ask : ask[s] = [of |-> ask[s].of, st |-> ask[s].st]
      BY DEF AccessInv, RowsOK, AskRow
    <3> QED
      BY <1>1, <3>1 DEF OpenAsks
  <2> QED
    BY <1>1, <1>3, <1>6, <2>1 DEF AccessInv, AsksOK, Here
<1>9. AccountsOK' /\ InvitesOK'
  BY <1>1 DEF AccessInv, AccountsOK, InvitesOK, Here
<1> QED
  BY <1>1, <1>5, <1>7, <1>8, <1>9 DEF AccessInv, RowsOK

(* An answered request still belongs to the account it was read with.      *)
LEMMA GrantKeeps == ASSUME AccessInv, NEW h \in Handler, CommitGrant(h) PROVE AccessInv'
<1> DEFINE u == job[h].who  r == job[h].item
<1>1. /\ job[h].op = "grant" /\ Here(u) /\ FirstMail(r, "granted")
      /\ \E host \in {account[u].host, TRUE} : account' = [account EXCEPT ![u].host = host]
      /\ ask' = [ask EXCEPT ![r].st = "granted"]
      /\ invite' = Gone(invite, OpenInvites(u))
      /\ told' = [told EXCEPT ![r] = Append(@, "granted")]
      /\ Finish(h) /\ grants' = grants
  BY DEF CommitGrant, Updates, Wrote
<1>2. u \in Account /\ r \in Ask /\ ask[r].of = u /\ ask[r].st # "free"
  BY <1>1 DEF AccessInv, JobsOK
<1>3. /\ account' \in [Account -> AccountRow]
      /\ \A w \in Account : account'[w].row = account[w].row /\ account'[w].admin = account[w].admin
      /\ \A w \in Account \ {u} : account'[w] = account[w]
  <2>1. PICK host \in {account[u].host, TRUE} : account' = [account EXCEPT ![u].host = host]
    BY <1>1
  <2> DEFINE row == [account[u] EXCEPT !.host = host]
  <2>2. account[u] \in AccountRow /\ host \in BOOLEAN
    BY <1>2 DEF AccessInv, RowsOK, AccountRow
  <2>3. row \in AccountRow /\ row.row = account[u].row /\ row.admin = account[u].admin
    BY <2>2 DEF AccountRow
  <2>4. account' = [account EXCEPT ![u] = row]
    BY <2>1
  <2> HIDE DEF row
  <2> QED
    BY <1>2, <2>3, <2>4 DEF AccessInv, RowsOK
<1>4. /\ invite' \in [Invite -> InviteRow]
      /\ \A i \in Invite : invite'[i].of = invite[i].of /\ invite'[i].st \in {invite[i].st, "gone"}
  BY <1>1, GoneRows
<1>5. /\ ask' \in [Ask -> AskRow] /\ ask'[r].of = u /\ ask'[r].st = "granted"
      /\ \A s \in Ask \ {r} : ask'[s] = ask[s]
  BY <1>1, <1>2 DEF AccessInv, RowsOK, AskRow
<1>6. JobsOK' /\ job' \in [Handler -> JobRow]
  BY <1>1, <1>2, <1>5, FinishKeeps
<1>7. told' \in [Ask -> Seq(Outcome)] /\ \A s \in Ask : IsInjective(told'[s])
  BY <1>1, <1>2, MailedKeeps DEF Outcome
<1>8. AccountsOK'
  BY <1>1, <1>3 DEF AccessInv, AccountsOK, Here
<1>9. \A w \in Account : Here(w) => account'[w].row = "here"
  BY <1>3 DEF Here
<1>10. InvitesOK'
  BY <1>1, <1>4, <1>9, InvitesLessen
<1>11. AsksOK'
  <2>1. account'[u].row = "here"
    BY <1>1, <1>2, <1>9
  <2>2. \A s \in Ask : /\ ask'[s].of = ask[s].of
                       /\ \/ ask'[s].st = ask[s].st \/ ask'[s].st = "gone"
                          \/ ask'[s].st \in {"granted", "declined"} /\ ask[s].of \in Account /\ account'[ask[s].of].row = "here"
    BY <1>2, <1>5, <2>1
  <2> QED
    BY <1>7, <1>9, <2>2, AsksAnswered
<1> QED
  BY <1>1, <1>3, <1>4, <1>5, <1>6, <1>7, <1>8, <1>10, <1>11 DEF AccessInv, RowsOK

LEMMA DeclineKeeps == ASSUME AccessInv, NEW h \in Handler, CommitDecline(h) PROVE AccessInv'
<1> DEFINE u == job[h].who  r == job[h].item
<1>1. /\ job[h].op = "decline" /\ Here(u) /\ FirstMail(r, "declined")
      /\ ask' = [ask EXCEPT ![r].st = "declined"]
      /\ told' = [told EXCEPT ![r] = Append(@, "declined")]
      /\ Finish(h) /\ UNCHANGED <<account, invite, grants>>
  BY DEF CommitDecline
<1>2. u \in Account /\ r \in Ask /\ ask[r].of = u /\ ask[r].st # "free"
  BY <1>1 DEF AccessInv, JobsOK
<1>3. /\ ask' \in [Ask -> AskRow] /\ ask'[r].of = u /\ ask'[r].st = "declined"
      /\ \A s \in Ask \ {r} : ask'[s] = ask[s]
  BY <1>1, <1>2 DEF AccessInv, RowsOK, AskRow
<1>4. JobsOK' /\ job' \in [Handler -> JobRow]
  BY <1>1, <1>2, <1>3, FinishKeeps
<1>5. told' \in [Ask -> Seq(Outcome)] /\ \A s \in Ask : IsInjective(told'[s])
  BY <1>1, <1>2, MailedKeeps DEF Outcome
<1>6. \A w \in Account : Here(w) => account'[w].row = "here"
  BY <1>1 DEF Here
<1>7. AccountsOK' /\ InvitesOK'
  BY <1>1 DEF AccessInv, AccountsOK, InvitesOK, Here
<1>8. AsksOK'
  <2>1. account'[u].row = "here"
    BY <1>1, <1>2, <1>6
  <2>2. \A s \in Ask : /\ ask'[s].of = ask[s].of
                       /\ \/ ask'[s].st = ask[s].st \/ ask'[s].st = "gone"
                          \/ ask'[s].st \in {"granted", "declined"} /\ ask[s].of \in Account /\ account'[ask[s].of].row = "here"
    BY <1>2, <1>3, <2>1
  <2> QED
    BY <1>5, <1>6, <2>2, AsksAnswered
<1> QED
  BY <1>1, <1>3, <1>4, <1>5, <1>7, <1>8 DEF AccessInv, RowsOK

(* An invitation is written for an account that is there by then, under an *)
(* id no invitation has had.                                               *)
LEMMA NewInvite ==
  ASSUME AccessInv, NEW u \in Account, account'[u].row = "here", grants' = grants,
         \A w \in Account : Here(w) => account'[w].row = "here",
         NEW S, NEW i \in NewId(invite),
         invite' = [Gone(invite, S) EXCEPT ![i] = [of |-> u, st |-> "open"]]
  PROVE  invite' \in [Invite -> InviteRow] /\ InvitesOK'
<1>1. i \in Invite /\ invite[i].st = "free"
  BY NewIdIsFree DEF AccessInv, RowsOK
<1>2. /\ Gone(invite, S) \in [Invite -> InviteRow]
      /\ \A x \in Invite : /\ Gone(invite, S)[x].of = invite[x].of
                           /\ Gone(invite, S)[x].st \in {invite[x].st, "gone"}
  BY GoneRows
<1>3. invite' \in [Invite -> InviteRow]
  BY <1>2 DEF InviteRow
<1>4. /\ invite'[i] = [of |-> u, st |-> "open"]
      /\ \A x \in Invite \ {i} : invite'[x].of = invite[x].of /\ invite'[x].st \in {invite[x].st, "gone"}
  BY <1>1, <1>2
<1>5. InvitesOK'
  BY <1>1, <1>4 DEF AccessInv, InvitesOK, Here
<1> QED
  BY <1>3, <1>5

LEMMA InviteKeeps == ASSUME AccessInv, NEW h \in Handler, CommitInvite(h) PROVE AccessInv'
<1> DEFINE u == job[h].who
<1>1. /\ job[h].op = "invite" /\ account[u].row = IF job[h].to THEN "none" ELSE "here"
      /\ account' = IF job[h].to THEN [account EXCEPT ![u].row = "here", ![u].active = TRUE] ELSE account
      /\ Finish(h) /\ UNCHANGED <<ask, told, grants>>
  BY DEF CommitInvite
<1>2. PICK i \in NewId(invite) : invite' = [Gone(invite, job[h].seen) EXCEPT ![i] = [of |-> u, st |-> "open"]]
  BY DEF CommitInvite
<1>3. u \in Account
  BY <1>1 DEF AccessInv, JobsOK
<1>4. /\ account' \in [Account -> AccountRow] /\ account'[u].row = "here"
      /\ \A w \in Account \ {u} : account'[w] = account[w]
  BY <1>1, <1>3 DEF AccessInv, RowsOK, AccountRow
<1>5. \A w \in Account : Here(w) => account'[w].row = "here"
  BY <1>4 DEF Here
<1>6. invite' \in [Invite -> InviteRow] /\ InvitesOK'
  BY <1>1, <1>2, <1>3, <1>4, <1>5, NewInvite
<1>7. JobsOK' /\ job' \in [Handler -> JobRow]
  BY <1>1, FinishKeeps
<1>8. AccountsOK'
  BY <1>4 DEF AccessInv, AccountsOK
<1>9. AsksOK'
  BY <1>1, <1>5 DEF AccessInv, AsksOK, Here
<1> QED
  BY <1>1, <1>4, <1>6, <1>7, <1>8, <1>9 DEF AccessInv, RowsOK

LEMMA ResendKeeps == ASSUME AccessInv, NEW h \in Handler, CommitResend(h) PROVE AccessInv'
<1>1. /\ job[h].op = "resend" /\ Here(job[h].who)
      /\ Finish(h) /\ UNCHANGED <<account, ask, told, grants>>
  BY DEF CommitResend, Referable
<1>2. PICK i \in NewId(invite) :
        invite' = [Gone(invite, {job[h].item}) EXCEPT ![i] = [of |-> job[h].who, st |-> "open"]]
  BY DEF CommitResend
<1>3. job[h].who \in Account
  BY <1>1 DEF AccessInv, JobsOK
<1>4. \A w \in Account : Here(w) => account'[w].row = "here"
  BY <1>1 DEF Here
<1>5. invite' \in [Invite -> InviteRow] /\ InvitesOK'
  BY <1>1, <1>2, <1>3, <1>4, NewInvite
<1>6. JobsOK' /\ job' \in [Handler -> JobRow]
  BY <1>1, FinishKeeps
<1>7. AccountsOK' /\ AsksOK'
  BY <1>1 DEF AccessInv, AccountsOK, AsksOK, Here
<1> QED
  BY <1>1, <1>5, <1>6, <1>7 DEF AccessInv, RowsOK

LEMMA CancelKeeps == ASSUME AccessInv, NEW h \in Handler, CommitCancel(h) PROVE AccessInv'
<1>1. /\ invite' = Gone(invite, {job[h].item})
      /\ Finish(h) /\ UNCHANGED <<account, ask, told, grants>>
  BY DEF CommitCancel
<1>2. /\ invite' \in [Invite -> InviteRow]
      /\ \A i \in Invite : invite'[i].of = invite[i].of /\ invite'[i].st \in {invite[i].st, "gone"}
  BY <1>1, GoneRows
<1>3. \A w \in Account : Here(w) => account'[w].row = "here"
  BY <1>1 DEF Here
<1>4. JobsOK' /\ job' \in [Handler -> JobRow]
  BY <1>1, FinishKeeps
<1>5. InvitesOK'
  BY <1>1, <1>2, <1>3, InvitesLessen
<1>6. AccountsOK' /\ AsksOK'
  BY <1>1 DEF AccessInv, AccountsOK, AsksOK, Here
<1> QED
  BY <1>1, <1>2, <1>4, <1>5, <1>6 DEF AccessInv, RowsOK

(* The claim finds the invitation unused, and uses it.                     *)
LEMMA AcceptedAccount ==
  ASSUME AccessInv, NEW h \in Handler, CommitAccept(h), job[h].who \in Account
  PROVE  /\ account' \in [Account -> AccountRow]
         /\ \A w \in Account : /\ account'[w].row = account[w].row
                               /\ account'[w].admin = account[w].admin
                               /\ account'[w].active = account[w].active
                               /\ account[w].verified => account'[w].verified
         /\ \A w \in Account \ {job[h].who} : account'[w] = account[w]
<1> DEFINE u == job[h].who
<1>1. PICK read \in job[h].seen :
        account' = [account EXCEPT ![u].host = Wrote(@, read.host, TRUE), ![u].ready = @ \/ job[h].to,
                      ![u].verified = IF job[h].to THEN Wrote(@, read.verified, TRUE) ELSE @]
  BY DEF CommitAccept
<1>2. account[u] \in AccountRow /\ job[h].to \in BOOLEAN
  BY DEF AccessInv, RowsOK, JobRow
<1> DEFINE host == [account[u] EXCEPT !.host = Wrote(@, read.host, TRUE)]
           ready == [host EXCEPT !.ready = @ \/ job[h].to]
           row == [ready EXCEPT !.verified = IF job[h].to THEN Wrote(@, read.verified, TRUE) ELSE @]
           Kept(new, old) == /\ new \in AccountRow /\ new.row = old.row /\ new.admin = old.admin
                             /\ new.active = old.active /\ (old.verified => new.verified)
<1>3. account'[u] = row /\ account' = [w \in Account |-> account'[w]] /\ \A w \in Account \ {u} : account'[w] = account[w]
  BY <1>1 DEF AccessInv, RowsOK
<1>4. Kept(host, account[u])
  BY <1>2 DEF AccountRow, Wrote
<1>5. Kept(ready, host)
  <2> HIDE DEF host
  <2> QED BY <1>2, <1>4 DEF AccountRow
<1>6. Kept(row, ready)
  <2> HIDE DEF ready
  <2> QED BY <1>2, <1>5 DEF AccountRow, Wrote
<1>7. Kept(row, account[u])
  <2> HIDE DEF row, ready, host
  <2> QED BY <1>4, <1>5, <1>6
<1>8. account' \in [Account -> AccountRow]
  <2> HIDE DEF row
  <2>1. \A w \in Account : account'[w] \in AccountRow
    BY <1>3, <1>7 DEF AccessInv, RowsOK
  <2> QED BY <1>3, <2>1
<1> QED
  <2> HIDE DEF row
  <2> QED BY <1>3, <1>7, <1>8

LEMMA AcceptKeeps == ASSUME AccessInv, NEW h \in Handler, CommitAccept(h) PROVE AccessInv'
<1> DEFINE u == job[h].who  i == job[h].item  gone == Gone(invite, {x \in Invite : invite[x].of = u})
<1>1. /\ job[h].op = "accept" /\ Here(u) /\ invite[i].st = "open"
      /\ invite' = [gone EXCEPT ![i].st = "used"]
      /\ ask' = Granted(OpenAsks(u))
      /\ grants' = [grants EXCEPT ![i] = @ + 1]
      /\ Finish(h) /\ told' = told
  BY DEF CommitAccept, Claimed
<1>2. u \in Account /\ i \in Invite
  BY <1>1 DEF AccessInv, JobsOK
<1>3. /\ account' \in [Account -> AccountRow]
      /\ \A w \in Account : account'[w].row = account[w].row
      /\ \A w \in Account \ {u} : account'[w] = account[w]
  BY <1>2, AcceptedAccount
<1>4. gone \in [Invite -> InviteRow] /\ \A x \in Invite : gone[x].of = invite[x].of /\ gone[x].st \in {invite[x].st, "gone"}
  BY GoneRows
<1>5. /\ invite' \in [Invite -> InviteRow] /\ invite'[i].of = invite[i].of /\ invite'[i].st = "used"
      /\ \A x \in Invite \ {i} : invite'[x].of = invite[x].of /\ invite'[x].st \in {invite[x].st, "gone"}
  <2> HIDE DEF gone
  <2> QED
    BY <1>1, <1>2, <1>4 DEF InviteRow
<1>6. /\ ask' \in [Ask -> AskRow]
      /\ \A r \in Ask : /\ ask'[r].of = ask[r].of
                        /\ ask'[r].st = ask[r].st \/ (ask'[r].st = "granted" /\ ask[r].st = "open" /\ ask[r].of = u)
  BY <1>1, GoneRows DEF OpenAsks
<1>7. grants' \in [Invite -> Nat] /\ \A x \in Invite \ {i} : grants'[x] = grants[x]
  BY <1>1, <1>2 DEF AccessInv, RowsOK
<1>8. JobsOK' /\ job' \in [Handler -> JobRow]
  <2>1. \A r \in Ask : ask[r].st # "free" => ask'[r].st # "free" /\ ask'[r].of = ask[r].of
    BY <1>6
  <2> QED
    BY <1>1, <2>1, FinishKeeps
<1>9. AccountsOK'
  BY <1>1, <1>3 DEF AccessInv, AccountsOK, Here
<1>10. InvitesOK'
  <2> SUFFICES ASSUME NEW x \in Invite
               PROVE  /\ invite'[x].st \in {"open", "used"} => invite'[x].of \in Account /\ account'[invite'[x].of].row = "here"
                      /\ invite'[x].st \in {"free", "open"} => grants'[x] = 0
    BY DEF InvitesOK, Here
  <2>1. CASE x = i
    <3>1. invite[i].of \in Account /\ account[invite[i].of].row = "here"
      BY <1>1, <1>2 DEF AccessInv, InvitesOK, Here
    <3>2. account'[invite[i].of].row = "here"
      BY <1>3, <3>1
    <3> QED
      BY <1>5, <2>1, <3>1, <3>2
  <2>2. CASE x # i
    <3>1. invite'[x].of = invite[x].of /\ invite'[x].st \in {invite[x].st, "gone"} /\ grants'[x] = grants[x]
      BY <1>5, <1>7, <2>2
    <3> QED
      BY <1>3, <3>1 DEF AccessInv, InvitesOK, Here
  <2> QED
    BY <2>1, <2>2
<1>11. AsksOK'
  <2>1. \A w \in Account : Here(w) => account'[w].row = "here"
    BY <1>3 DEF Here
  <2>2. account'[u].row = "here" /\ \A r \in Ask : IsInjective(told'[r])
    BY <1>1, <1>2, <2>1 DEF AccessInv, AsksOK
  <2> QED
    BY <1>2, <1>6, <2>1, <2>2, AsksAnswered
<1> QED
  BY <1>1, <1>3, <1>5, <1>6, <1>7, <1>8, <1>9, <1>10, <1>11 DEF AccessInv, RowsOK

LEMMA RegisteredAccount ==
  ASSUME AccessInv, NEW h \in Handler, CommitRegister(h), job[h].who \in Account
  PROVE  LET u == job[h].who
         IN \E password \in BOOLEAN :
              \/ /\ account[u].row = "none"
                 /\ account' = [account EXCEPT ![u].row = "here", ![u].active = TRUE, ![u].ready = password]
              \/ Here(u) /\ account' = [account EXCEPT ![u].ready = password]
<1> DEFINE u == job[h].who
<1>1. account \in [Account -> AccountRow] /\ account[u].ready \in BOOLEAN
  BY DEF AccessInv, RowsOK, AccountRow
<1>2. PICK read \in job[h].seen :
        \/ /\ account[u].row = "none"
           /\ \E password \in BOOLEAN :
                account' = [account EXCEPT ![u].row = "here", ![u].active = TRUE, ![u].ready = password]
        \/ /\ Here(u)
           /\ account' = [account EXCEPT ![u].ready =
                           IF read.row = "none" THEN FALSE ELSE Wrote(@, read.ready, FALSE)]
  BY DEF CommitRegister
<1> DEFINE left == IF read.row = "none" THEN FALSE ELSE Wrote(account[u].ready, read.ready, FALSE)
<1>3. left \in BOOLEAN
  BY <1>1 DEF Wrote
<1>4. CASE Here(u) /\ account' = [account EXCEPT ![u].ready = left]
  <2> HIDE DEF left
  <2> QED BY <1>3, <1>4
<1> QED BY <1>2, <1>4

(* A proof of the address changes nothing else.                            *)
LEMMA VerifyKeeps == ASSUME AccessInv, NEW u \in Account, VerifyEmail(u) PROVE AccessInv'
<1>1. /\ account' = [account EXCEPT ![u].verified = TRUE]
      /\ UNCHANGED <<invite, ask, told, grants, job>>
  BY DEF VerifyEmail
<1>2. /\ account' \in [Account -> AccountRow]
      /\ \A w \in Account : /\ account'[w].row = account[w].row /\ account'[w].host = account[w].host
                            /\ account'[w].admin = account[w].admin
  BY <1>1 DEF AccessInv, RowsOK, AccountRow
<1>3. RowsOK'
  BY <1>1, <1>2 DEF AccessInv, RowsOK
<1>4. JobsOK'
  BY <1>1 DEF AccessInv, JobsOK
<1>5. AccountsOK' /\ InvitesOK' /\ AsksOK'
  BY <1>1, <1>2 DEF AccessInv, AccountsOK, InvitesOK, AsksOK, Here
<1> QED BY <1>3, <1>4, <1>5 DEF AccessInv

LEMMA RegisterKeeps == ASSUME AccessInv, NEW h \in Handler, CommitRegister(h) PROVE AccessInv'
<1> DEFINE u == job[h].who
<1>1. job[h].op = "register" /\ Finish(h) /\ UNCHANGED <<invite, ask, told, grants>>
  BY DEF CommitRegister
<1>2. u \in Account
  BY <1>1 DEF AccessInv, JobsOK
<1>3. /\ account' \in [Account -> AccountRow] /\ AccountsOK'
      /\ \A w \in Account : Here(w) => account'[w].row = "here"
  <2> DEFINE registered == /\ account' \in [Account -> AccountRow] /\ account'[u].row = "here"
                           /\ \A w \in Account \ {u} : account'[w] = account[w]
  <2>1. ASSUME NEW password \in BOOLEAN,
               account' = [account EXCEPT ![u].row = "here", ![u].active = TRUE, ![u].ready = password]
        PROVE  registered
    <3> DEFINE here == [account[u] EXCEPT !.row = "here"]  active == [here EXCEPT !.active = TRUE]
    <3>1. account'[u] = [active EXCEPT !.ready = password]
      BY <1>2, <2>1 DEF AccessInv, RowsOK
    <3>2. here \in AccountRow /\ here.row = "here"
      BY <1>2 DEF AccessInv, RowsOK, AccountRow
    <3>3. active \in AccountRow /\ active.row = "here"
      <4> HIDE DEF here
      <4> QED
        BY <3>2 DEF AccountRow
    <3>4. account'[u] \in AccountRow /\ account'[u].row = "here"
      <4> HIDE DEF here, active
      <4> QED
        BY <3>1, <3>3 DEF AccountRow
    <3>5. \A w \in Account \ {u} : account'[w] = account[w]
      BY <1>2, <2>1 DEF AccessInv, RowsOK
    <3>6. account' \in [Account -> AccountRow]
      BY <1>2, <2>1, <3>4, <3>5 DEF AccessInv, RowsOK
    <3> QED
      BY <3>4, <3>5, <3>6
  <2>2. ASSUME Here(u), NEW password \in BOOLEAN, account' = [account EXCEPT ![u].ready = password]
        PROVE  registered
    BY <1>2, <2>2 DEF AccessInv, RowsOK, AccountRow, Here
  <2>3. \E password \in BOOLEAN :
          \/ account' = [account EXCEPT ![u].row = "here", ![u].active = TRUE, ![u].ready = password]
          \/ Here(u) /\ account' = [account EXCEPT ![u].ready = password]
    BY <1>2, RegisteredAccount
  <2>4. registered
    BY <2>1, <2>2, <2>3
  <2>5. AccountsOK'
    BY <2>4 DEF AccessInv, AccountsOK
  <2> QED
    BY <2>4, <2>5 DEF Here
<1>4. JobsOK' /\ job' \in [Handler -> JobRow]
  BY <1>1, FinishKeeps
<1>5. InvitesOK' /\ AsksOK'
  BY <1>1, <1>3 DEF AccessInv, InvitesOK, AsksOK, Here
<1> QED
  BY <1>1, <1>3, <1>4, <1>5 DEF AccessInv, RowsOK

LEMMA AccessNext == AccessInv /\ [HostingNext]_hostingVars => AccessInv'
<1> SUFFICES ASSUME AccessInv, [HostingNext]_hostingVars PROVE AccessInv'
  OBVIOUS
<1>1. CASE HostingNext
  <2>1. CASE \E u \in Account : VerifyEmail(u)
    BY <2>1, VerifyKeeps
  <2>2. ASSUME NEW h \in Handler,
          \/ \E u \in Account :
               \/ \E a \in Account : \/ DeleteUser(h, a, u)
                                     \/ \E f \in Flag, v \in BOOLEAN : SetUserAccess(h, a, u, f, v)
               \/ Submit(h, u) \/ InviteUser(h, u) \/ Register(h, u)
          \/ \E r \in Ask : Grant(h, r) \/ Decline(h, r)
          \/ \E i \in Invite : CancelInvite(h, i) \/ ResendInvite(h, i) \/ AcceptInvite(h, i)
          \/ CommitAccess(h) \/ CommitDelete(h) \/ CommitSubmit(h) \/ CommitGrant(h) \/ CommitDecline(h)
          \/ CommitInvite(h) \/ CommitCancel(h) \/ CommitResend(h) \/ CommitAccept(h) \/ CommitRegister(h)
          \/ Fails(h)
        PROVE  AccessInv'
    BY <2>2, BeginsKeep, AccessKeeps, DeleteUserKeeps, SubmitKeeps, GrantKeeps, DeclineKeeps, InviteKeeps, CancelKeeps,
       ResendKeeps, AcceptKeeps, RegisterKeeps, FailKeeps
  <2> QED
    BY <1>1, <2>1, <2>2 DEF HostingNext
<1>2. CASE UNCHANGED hostingVars
  BY <1>2 DEF hostingVars, AccessInv, RowsOK, JobsOK, AccountsOK, InvitesOK, AsksOK, Here
<1> QED
  BY <1>1, <1>2

LEMMA AccessInvariance == HostingSpec => []AccessInv
<1> QED
  BY AccessInit, AccessNext, PTL DEF HostingSpec

(* Nobody has two open requests or is mailed one outcome twice, and no     *)
(* request or invitation outlives its account, however many handlers have  *)
(* read before the others write.                                           *)
THEOREM HostingHolds == HostingSpec => []HostingInv
<1> QED
  BY AccessInvariance, AccessInvSuffices, PTL

(* What a step can do to the accounts and the count of uses.               *)
LEMMA WhoWritesAccounts ==
  ASSUME HostingNext
  PROVE  \/ account' = account /\ grants' = grants
         \/ \E u \in Account : VerifyEmail(u)
         \/ \E h \in Handler : CommitAccess(h) \/ CommitDelete(h) \/ CommitGrant(h) \/ CommitInvite(h)
                                \/ CommitAccept(h) \/ CommitRegister(h)
<1> DEFINE untouched == account' = account /\ grants' = grants
<1>1. \A h \in Handler, u, a \in Account : DeleteUser(h, a, u) => untouched
  BY DEF DeleteUser, Begin
<1>2. \A h \in Handler, u, a \in Account, f \in Flag, v \in BOOLEAN : SetUserAccess(h, a, u, f, v) => untouched
  BY DEF SetUserAccess, Begin
<1>3. \A h \in Handler, u \in Account : Submit(h, u) \/ InviteUser(h, u) \/ Register(h, u) => untouched
  BY DEF Submit, InviteUser, Register, Begin
<1>4. \A h \in Handler, r \in Ask : Grant(h, r) \/ Decline(h, r) => untouched
  BY DEF Grant, Decline, Begin
<1>5. \A h \in Handler, i \in Invite : CancelInvite(h, i) \/ ResendInvite(h, i) \/ AcceptInvite(h, i) => untouched
  BY DEF CancelInvite, ResendInvite, AcceptInvite, Begin
<1>6. \A h \in Handler : CommitSubmit(h) \/ CommitDecline(h) \/ CommitCancel(h) \/ CommitResend(h) \/ Fails(h) => untouched
  BY DEF CommitSubmit, CommitDecline, CommitCancel, CommitResend, Fails
<1> HIDE DEF untouched
<1>7. untouched \/ (\E u \in Account : VerifyEmail(u)) \/ \E h \in Handler : CommitAccess(h) \/ CommitDelete(h) \/ CommitGrant(h) \/ CommitInvite(h)
                                       \/ CommitAccept(h) \/ CommitRegister(h)
  BY <1>1, <1>2, <1>3, <1>4, <1>5, <1>6 DEF HostingNext
<1> QED
  BY <1>7 DEF untouched

(* An invitation gives access once, and never after it was used, cancelled *)
(* or replaced; and what one Admin decides about an account is undone by   *)
(* no other request about it, though each read the account before.         *)
THEOREM AccessIsAsDecided == HostingSpec => AccessAsDecided
<1>1. AccessInv /\ [HostingNext]_hostingVars => [InviteGrantsOnce /\ OnlyWhatWasAsked]_hostingVars
  <2> SUFFICES ASSUME AccessInv, HostingNext PROVE InviteGrantsOnce /\ OnlyWhatWasAsked
    OBVIOUS
  <2>1. InviteGrantsOnce
    <3> SUFFICES ASSUME NEW i \in Invite, grants'[i] # grants[i]
                 PROVE  invite[i].st = "open" /\ grants[i] = 0
      BY DEF InviteGrantsOnce
    <3>1. PICK h \in Handler : CommitAccept(h)
      BY WhoWritesAccounts DEF CommitAccess, CommitDelete, CommitGrant, CommitInvite, CommitRegister, VerifyEmail
    <3>2. invite[job[h].item].st = "open" /\ grants' = [grants EXCEPT ![job[h].item] = @ + 1]
      BY <3>1 DEF CommitAccept, Claimed
    <3>3. i = job[h].item
      BY <3>2 DEF AccessInv, RowsOK
    <3> QED
      BY <3>2, <3>3 DEF AccessInv, InvitesOK
  <2>2. OnlyWhatWasAsked
    <3> SUFFICES ASSUME NEW u \in Account, Here(u), account'[u].row = "here", NEW f \in {"admin", "active", "verified"},
                        account'[u][f] # account[u][f], ~(f = "verified" /\ account'[u].verified)
                 PROVE  \E h \in Handler : /\ job[h].op = "access" /\ job[h].who = u
                                           /\ job[h].flag = f /\ job[h].to # account[u][f]
      BY DEF OnlyWhatWasAsked
    <3> DEFINE kept == /\ account'[u].admin = account[u].admin /\ account'[u].active = account[u].active
                       /\ account[u].verified => account'[u].verified
    <3>0. account[u] \in AccountRow /\ (account' \in [Account -> AccountRow] => ~kept)
      BY DEF AccessInv, RowsOK, AccountRow
    <3>1. account[u] \in AccountRow /\ account[u].row = "here"
      BY DEF AccessInv, RowsOK, Here
    <3>10. ASSUME NEW w \in Account PROVE ~VerifyEmail(w)
      <4>1. VerifyEmail(w) => account' = [account EXCEPT ![w].verified = TRUE]
        BY DEF VerifyEmail
      <4>2. VerifyEmail(w) => account' \in [Account -> AccountRow] /\ kept
        BY <4>1 DEF AccessInv, RowsOK, AccountRow
      <4> QED BY <3>0, <4>2
    <3>2. PICK h \in Handler : CommitAccess(h) \/ CommitDelete(h) \/ CommitGrant(h) \/ CommitInvite(h)
                               \/ CommitAccept(h) \/ CommitRegister(h)
      BY <3>10, WhoWritesAccounts
    <3> DEFINE w == job[h].who  g == job[h].flag  v == job[h].to
    <3>3. CASE CommitAccess(h)
      <4>1. job[h].op = "access" /\ account' = [account EXCEPT ![w] = [account[w] EXCEPT ![g] = v]]
        BY <3>3 DEF CommitAccess, Written
      <4>2. w = u
        BY <4>1 DEF AccessInv, RowsOK
      <4>3. account'[u] = [account[u] EXCEPT ![g] = v]
        BY <4>1, <4>2 DEF AccessInv, RowsOK
      <4>4. g = f /\ v # account[u][f]
        <5>1. CASE f = "admin"
          BY <3>1, <4>3, <5>1 DEF AccountRow
        <5>2. CASE f = "active"
          BY <3>1, <4>3, <5>2 DEF AccountRow
        <5>3. CASE f = "verified"
          BY <3>1, <4>3, <5>3 DEF AccountRow
        <5> QED
          BY <5>1, <5>2, <5>3
      <4> QED
        BY <4>1, <4>2, <4>4
    <3>4. CASE CommitDelete(h)
      <4>1. account' = [account EXCEPT ![w] = [NoRow EXCEPT !.row = "gone"]]
        BY <3>4 DEF CommitDelete
      <4>2. w = u
        BY <4>1 DEF AccessInv, RowsOK
      <4>3. account'[u].row = "gone"
        BY <4>1, <4>2 DEF AccessInv, RowsOK, NoRow
      <4> QED
        BY <4>3
    <3>5. CASE CommitGrant(h)
      <4>1. \E host \in BOOLEAN : account' = [account EXCEPT ![w].host = host]
        <5>1. w \in Account
          BY <3>5 DEF CommitGrant, AccessInv, JobsOK
        <5>2. account[w].host \in BOOLEAN
          BY <5>1 DEF AccessInv, RowsOK, AccountRow
        <5> QED BY <3>5, <5>2 DEF CommitGrant, Wrote
      <4>2. account' \in [Account -> AccountRow] /\ kept
        BY <3>1, <4>1 DEF AccessInv, RowsOK, AccountRow
      <4> QED
        BY <3>0, <4>2
    <3>6. CASE CommitInvite(h)
      <4>1. /\ account[w].row = IF job[h].to THEN "none" ELSE "here"
            /\ account' = IF job[h].to THEN [account EXCEPT ![w].row = "here", ![w].active = TRUE] ELSE account
        BY <3>6 DEF CommitInvite
      <4>2. w # u => account'[u] = account[u]
        BY <4>1 DEF AccessInv, RowsOK
      <4> QED
        BY <3>1, <4>1, <4>2
    <3>7. CASE CommitAccept(h)
      <4>1. w \in Account
        BY <3>7 DEF CommitAccept, AccessInv, JobsOK
      <4>2. account' \in [Account -> AccountRow] /\ kept
        BY <3>7, <4>1, AcceptedAccount
      <4> QED
        BY <3>0, <4>2
    <3>8. CASE CommitRegister(h)
      <4>1. w \in Account
        BY <3>8 DEF CommitRegister, AccessInv, JobsOK
      <4>2. PICK password \in BOOLEAN :
              \/ /\ account[w].row = "none"
                 /\ account' = [account EXCEPT ![w].row = "here", ![w].active = TRUE, ![w].ready = password]
              \/ account' = [account EXCEPT ![w].ready = password]
        BY <3>8, <4>1, RegisteredAccount
      <4>3. CASE account[w].row = "none" /\ account'[u] # account[u]
        <5>1. w = u
          BY <4>2, <4>3 DEF AccessInv, RowsOK
        <5> QED
          BY <3>1, <4>3, <5>1
      <4>4. CASE account' = [account EXCEPT ![w].ready = password]
        <5>1. account' \in [Account -> AccountRow] /\ kept
          BY <3>1, <4>4 DEF AccessInv, RowsOK, AccountRow
        <5> QED
          BY <3>0, <5>1
      <4> QED
        BY <4>2, <4>3, <4>4
    <3> QED
      BY <3>2, <3>3, <3>4, <3>5, <3>6, <3>7, <3>8
  <2> QED
    BY <2>1, <2>2
<1> QED
  BY <1>1, AccessInvariance, PTL DEF HostingSpec, AccessAsDecided

-----------------------------------------------------------------------------
TokenRow == [st : {"free", "live", "revoked", "gone"}, code : Code \cup {Nil}, parent : Token \cup {Nil}]
CodeRow == [st : {"free", "open", "used", "gone"}, client : Client \cup {Nil}, who : Organiser \cup {Nil}]
CallOp == {"idle", "create", "delete", "review", "authorize", "exchange", "refresh", "reuse", "revoke"}
CallRow == [op : CallOp, client : Client \cup {Nil}, item : Organiser \cup Code \cup Token \cup {Nil},
            family : SUBSET Token, known : SUBSET Token]

TablesOK ==
  /\ client \in [Client -> {"none", "here", "gone"}]
  /\ consent \subseteq (Client \X Organiser) /\ owner \subseteq Organiser
  /\ code \in [Code -> CodeRow] /\ token \in [Token -> TokenRow]
  /\ call \in [Caller -> CallRow]

(* What a handler remembers of its request is still so when it writes.     *)
CallsOK == \A x \in Caller :
  /\ call[x].op \in {"create", "delete", "authorize"} => call[x].client \in Client
  /\ call[x].op = "authorize" => call[x].item \in Organiser
  /\ call[x].op = "exchange" => /\ call[x].item \in Code
                                /\ code[call[x].item].client = call[x].client
                                /\ code[call[x].item].st # "free"
  /\ call[x].op \in {"refresh", "reuse", "revoke"} => call[x].item \in Token

(* A code names an app and a person once it is issued, and dies with the   *)
(* app.                                                                    *)
CodesOK == \A k \in Code :
  /\ code[k].st = "free" => code[k].client = Nil
  /\ code[k].st # "free" => code[k].client \in Client /\ code[k].who \in Organiser
  /\ code[k].st \in {"open", "used"} => client[code[k].client] = "here"

(* A token comes from a code that is no longer open, and its parent is     *)
(* spent.                                                                  *)
TokensOK == \A t \in Token :
  /\ token[t].st = "free" => token[t].code = Nil /\ token[t].parent = Nil
  /\ token[t].st # "free" => token[t].code \in Code /\ code[token[t].code].st \in {"used", "gone"}
  /\ token[t].st \in {"live", "revoked"} => code[token[t].code].st = "used"
  /\ token[t].parent # Nil => token[token[t].parent].st \in {"revoked", "gone"}

OneRoot == \A s, t \in Token :
  token[s].code = token[t].code /\ token[s].code # Nil /\ token[s].parent = Nil /\ token[t].parent = Nil => s = t

GrantsInv == TablesOK /\ CallsOK /\ CodesOK /\ TokensOK /\ OneRoot

------------------------------------------------------------------------------
(* A row the database gives is one that was free.                          *)
LEMMA NewRowIsFree ==
  ASSUME NEW f, NEW r \in NewRow(f)
  PROVE  r \in DOMAIN f /\ f[r].st = "free"
<1> DEFINE free == {x \in DOMAIN f : f[x].st = "free"}
<1>1. free # {} /\ r = CHOOSE x \in free : TRUE
  BY DEF NewRow
<1>2. r \in free
  BY <1>1
<1> QED
  BY <1>2

(* At most one member means at most one to count.                          *)
LEMMA AtMostOne ==
  ASSUME NEW S, \A a, b \in S : a = b
  PROVE  Cardinality(S) <= 1
<1>1. CASE S = {}
  BY <1>1, FS_EmptySet
<1>2. CASE S # {}
  <2>1. PICK a \in S : TRUE
    BY <1>2
  <2>2. S = {a}
    BY <2>1
  <2> QED
    BY <2>2, FS_Singleton
<1> QED
  BY <1>1, <1>2

(* What the run checks follows from what is inductive.                     *)
LEMMA GrantsInvSuffices == GrantsInv => OAuthInv
<1> SUFFICES ASSUME GrantsInv PROVE OAuthInv
  OBVIOUS
<1> USE DEF GrantsInv, TablesOK, CodesOK, TokensOK, TokenRow, CodeRow
<1>1. \A t \in Rows : token[t].code \in Code /\ client[ClientOf(t)] = "here"
  BY DEF Rows, ClientOf
<1>2. OAuthTypeOK
  BY <1>1 DEF OAuthTypeOK
<1>3. OneTokenPerCode
  <2> SUFFICES ASSUME NEW k \in Code
               PROVE  Cardinality({t \in Token : token[t].code = k /\ token[t].parent = Nil}) <= 1
    BY DEF OneTokenPerCode
  <2> DEFINE S == {t \in Token : token[t].code = k /\ token[t].parent = Nil}
  <2>1. \A a, b \in S : a = b
    BY NilIsNone DEF OneRoot
  <2> QED
    BY <2>1, AtMostOne
<1>4. RotatedIsRevoked
  BY DEF RotatedIsRevoked, Rows, Accepted
<1> QED
  BY <1>2, <1>3, <1>4 DEF OAuthInv

LEMMA GrantsInit == OAuthInit => GrantsInv
BY NilIsNone DEF OAuthInit, GrantsInv, TablesOK, CallsOK, CodesOK, TokensOK, OneRoot, NoCode, NoToken, IdleCall,
                 CodeRow, TokenRow, CallRow, CallOp

------------------------------------------------------------------------------
(* A request that begins only notes what it has read.                      *)
LEMMA AskKeeps ==
  ASSUME GrantsInv, NEW x \in Caller,
         NEW op \in CallOp, NEW c \in Client \cup {Nil}, NEW i \in Organiser \cup Code \cup Token \cup {Nil},
         NEW S \in SUBSET Token, Asks(x, op, c, i, S),
         op \in {"create", "delete", "authorize"} => c \in Client,
         op = "authorize" => i \in Organiser,
         op = "exchange" => i \in Code /\ code[i].client = c /\ code[i].st # "free",
         op \in {"refresh", "reuse", "revoke"} => i \in Token
  PROVE  GrantsInv'
<1> USE DEF GrantsInv, TablesOK, CallRow
<1>1. call' = [call EXCEPT ![x] = [op |-> op, client |-> c, item |-> i, family |-> S, known |-> Rows]]
  BY DEF Asks
<1>2. UNCHANGED <<client, approved, consent, owner, code, token>>
  BY DEF Asks
<1>3. Rows \in SUBSET Token
  BY DEF Rows
<1>4. TablesOK'
  BY <1>1, <1>2, <1>3
<1>5. CallsOK'
  BY <1>1, <1>2 DEF CallsOK
<1>6. CodesOK' /\ TokensOK' /\ OneRoot'
  BY <1>2 DEF CodesOK, TokensOK, OneRoot
<1> QED
  BY <1>4, <1>5, <1>6

LEMMA BeginsKeeps ==
  ASSUME GrantsInv, NEW x \in Caller
  PROVE  /\ Review(x) => GrantsInv'
         /\ \A c \in Client :
              /\ CreateClient(x, c) \/ DeleteClient(x, c) => GrantsInv'
              /\ \A u \in Organiser : Authorize(x, c, u) => GrantsInv'
              /\ \A k \in Code : Exchange(x, c, k) => GrantsInv'
              /\ \A t \in Token : Refresh(x, c, t) \/ Revoke(x, c, t) => GrantsInv'
<1> USE DEF CallOp
<1>1. ASSUME Review(x) PROVE GrantsInv'
  BY <1>1, AskKeeps DEF Review
<1>2. ASSUME NEW c \in Client, CreateClient(x, c) PROVE GrantsInv'
  BY <1>2, AskKeeps DEF CreateClient
<1>3. ASSUME NEW c \in Client, DeleteClient(x, c) PROVE GrantsInv'
  BY <1>3, AskKeeps DEF DeleteClient
<1>4. ASSUME NEW c \in Client, NEW u \in Organiser, Authorize(x, c, u) PROVE GrantsInv'
  BY <1>4, AskKeeps DEF Authorize
<1>5. ASSUME NEW c \in Client, NEW k \in Code, Exchange(x, c, k) PROVE GrantsInv'
  BY <1>5, AskKeeps DEF Exchange
<1>6. ASSUME NEW c \in Client, NEW t \in Token, Refresh(x, c, t) PROVE GrantsInv'
  <2>1. Family(t) \in SUBSET Token
    BY DEF Family, Rows
  <2>2. CASE token[t].st = "live"
    BY <1>6, <2>2, AskKeeps DEF Refresh
  <2>3. CASE token[t].st # "live"
    BY <1>6, <2>1, <2>3, AskKeeps DEF Refresh
  <2> QED
    BY <2>2, <2>3
<1>7. ASSUME NEW c \in Client, NEW t \in Token, Revoke(x, c, t) PROVE GrantsInv'
  BY <1>7, AskKeeps DEF Revoke
<1> QED
  BY <1>1, <1>2, <1>3, <1>4, <1>5, <1>6, <1>7

(* A request that is answered remembers nothing; codes that are neither    *)
(* freed nor given to another app leave the other requests right.          *)
LEMMA AnsweredKeeps ==
  ASSUME GrantsInv, NEW x \in Caller, Answered(x),
         \A k \in Code : code[k].st # "free" => code'[k].st # "free" /\ code'[k].client = code[k].client
  PROVE  call' \in [Caller -> CallRow] /\ CallsOK'
<1>1. IdleCall \in CallRow
  BY DEF IdleCall, CallRow, CallOp
<1>2. call' = [call EXCEPT ![x] = IdleCall]
  BY DEF Answered
<1>3. call' \in [Caller -> CallRow]
  BY <1>1, <1>2 DEF GrantsInv, TablesOK
<1>4. \A y \in Caller : call'[y] = call[y] \/ call'[y].op = "idle"
  BY <1>2 DEF GrantsInv, TablesOK, IdleCall
<1>5. CallsOK'
  BY <1>4 DEF GrantsInv, CallsOK
<1> QED
  BY <1>3, <1>5

------------------------------------------------------------------------------
(* One lemma per transaction.                                              *)
LEMMA FailsKeeps == ASSUME GrantsInv, NEW x \in Caller, CallFails(x) PROVE GrantsInv'
<1>1. UNCHANGED <<client, approved, consent, owner, code, token>>
  BY DEF CallFails
<1>2. CallsOK' /\ call' \in [Caller -> CallRow]
  BY <1>1, AnsweredKeeps DEF CallFails
<1> QED
  BY <1>1, <1>2 DEF GrantsInv, TablesOK, CodesOK, TokensOK, OneRoot

LEMMA ReviewKeeps == ASSUME GrantsInv, NEW x \in Caller, CommitReview(x) PROVE GrantsInv'
<1>1. UNCHANGED <<client, consent, owner, code, token>>
  BY DEF CommitReview
<1>2. CallsOK' /\ call' \in [Caller -> CallRow]
  BY <1>1, AnsweredKeeps DEF CommitReview
<1> QED
  BY <1>1, <1>2 DEF GrantsInv, TablesOK, CodesOK, TokensOK, OneRoot

LEMMA CreateKeeps == ASSUME GrantsInv, NEW x \in Caller, CommitCreate(x) PROVE GrantsInv'
<1>1. UNCHANGED <<consent, owner, code, token>>
  BY DEF CommitCreate
<1>2. CallsOK' /\ call' \in [Caller -> CallRow]
  BY <1>1, AnsweredKeeps DEF CommitCreate
<1>3. client' = [client EXCEPT ![call[x].client] = "here"]
  BY DEF CommitCreate
<1>4. TablesOK'
  BY <1>1, <1>2, <1>3 DEF GrantsInv, TablesOK
<1>5. CodesOK'
  BY <1>1, <1>3 DEF GrantsInv, TablesOK, CodesOK
<1> QED
  BY <1>1, <1>2, <1>4, <1>5 DEF GrantsInv, TokensOK, OneRoot

(* The app's codes and tokens go with it.                                  *)
LEMMA DeleteKeeps == ASSUME GrantsInv, NEW x \in Caller, CommitDeleteClient(x) PROVE GrantsInv'
<1> DEFINE c == call[x].client
<1> USE DEF GrantsInv, TablesOK
<1>1. /\ client' = [client EXCEPT ![c] = "gone"] /\ owner' = owner
      /\ code' = [k \in Code |-> IF code[k].client = c THEN [code[k] EXCEPT !.st = "gone"] ELSE code[k]]
      /\ token' = [t \in Token |-> IF t \in Rows /\ ClientOf(t) = c THEN [token[t] EXCEPT !.st = "gone"] ELSE token[t]]
      /\ consent' \subseteq consent
  BY DEF CommitDeleteClient
<1>2. c \in Client
  BY DEF CommitDeleteClient, CallsOK
<1>3. \A k \in Code : /\ code'[k].client = code[k].client /\ code'[k].who = code[k].who
                      /\ IF code[k].client = c THEN code'[k].st = "gone" ELSE code'[k].st = code[k].st
  BY <1>1 DEF CodeRow
<1>4. \A t \in Token : /\ token'[t].code = token[t].code /\ token'[t].parent = token[t].parent
                       /\ IF t \in Rows /\ ClientOf(t) = c THEN token'[t].st = "gone" ELSE token'[t].st = token[t].st
  BY <1>1 DEF TokenRow
<1>5. CallsOK' /\ call' \in [Caller -> CallRow]
  <2>1. \A k \in Code : code[k].st # "free" => code'[k].st # "free" /\ code'[k].client = code[k].client
    BY <1>3
  <2> QED
    BY <2>1, AnsweredKeeps DEF CommitDeleteClient
<1>6. code' \in [Code -> CodeRow]
  BY <1>1 DEF CodeRow
<1>7. token' \in [Token -> TokenRow]
  BY <1>1 DEF TokenRow
<1>8. TablesOK'
  BY <1>1, <1>5, <1>6, <1>7
<1>9. CodesOK'
  <2> SUFFICES ASSUME NEW k \in Code, code'[k].st # "free"
               PROVE  /\ code'[k].client \in Client /\ code'[k].who \in Organiser
                      /\ code'[k].st \in {"open", "used"} => client'[code'[k].client] = "here"
    BY <1>3 DEF CodesOK, CodeRow
  <2>1. CASE code[k].st = "free"
    BY <2>1, <1>2, <1>3, NilIsNone DEF CodesOK
  <2>2. CASE code[k].st # "free"
    BY <2>2, <1>1, <1>2, <1>3 DEF CodesOK
  <2> QED
    BY <2>1, <2>2
<1>10. TokensOK'
  <2> SUFFICES ASSUME NEW t \in Token
               PROVE  /\ token'[t].st = "free" => token'[t].code = Nil /\ token'[t].parent = Nil
                      /\ token'[t].st # "free" => token'[t].code \in Code /\ code'[token'[t].code].st \in {"used", "gone"}
                      /\ token'[t].st \in {"live", "revoked"} => code'[token'[t].code].st = "used"
                      /\ token'[t].parent # Nil => token'[token'[t].parent].st \in {"revoked", "gone"}
    BY DEF TokensOK
  <2>1. token[t].st = "free" <=> token'[t].st = "free"
    BY <1>4 DEF Rows
  <2>2. token'[t].st = "free" => token'[t].code = Nil /\ token'[t].parent = Nil
    BY <1>4, <2>1 DEF TokensOK
  <2>3. token'[t].st # "free" => token'[t].code \in Code /\ code'[token'[t].code].st \in {"used", "gone"}
    BY <1>3, <1>4, <2>1 DEF TokensOK
  <2>4. token'[t].st \in {"live", "revoked"} => code'[token'[t].code].st = "used"
    BY <1>3, <1>4, <2>1 DEF TokensOK, Rows, ClientOf
  <2>5. token'[t].parent # Nil => token'[token'[t].parent].st \in {"revoked", "gone"}
    BY <1>4, <2>1 DEF TokensOK, TokenRow
  <2> QED
    BY <2>2, <2>3, <2>4, <2>5
<1>11. OneRoot'
  BY <1>4 DEF OneRoot
<1> QED
  BY <1>5, <1>8, <1>9, <1>10, <1>11

LEMMA AuthorizeKeeps == ASSUME GrantsInv, NEW x \in Caller, CommitAuthorize(x) PROVE GrantsInv'
<1> DEFINE c == call[x].client  u == call[x].item
<1> USE DEF GrantsInv, TablesOK
<1>1. PICK k \in NewRow(code) : code' = [code EXCEPT ![k] = [st |-> "open", client |-> c, who |-> u]]
  BY DEF CommitAuthorize
<1>2. /\ UNCHANGED <<client, token>> /\ owner' = owner /\ client[c] = "here"
      /\ consent' = consent \cup {<<c, u>>} /\ call[x].op = "authorize"
  BY DEF CommitAuthorize, OwnersAfterConsent, ClientThere
<1>3. c \in Client /\ u \in Organiser
  BY <1>2 DEF CallsOK
<1>4. k \in Code /\ code[k].st = "free"
  BY NewRowIsFree
<1>5. code' \in [Code -> CodeRow]
  BY <1>1, <1>3, <1>4 DEF CodeRow
<1>6. \A j \in Code \ {k} : code'[j] = code[j]
  BY <1>1
<1>7. CallsOK' /\ call' \in [Caller -> CallRow]
  <2>1. \A j \in Code : code[j].st # "free" => code'[j].st # "free" /\ code'[j].client = code[j].client
    BY <1>4, <1>6
  <2> QED
    BY <2>1, AnsweredKeeps DEF CommitAuthorize
<1>8. TablesOK'
  BY <1>2, <1>3, <1>5, <1>7
<1>9. CodesOK'
  BY <1>1, <1>2, <1>3, <1>4 DEF CodesOK
<1>10. TokensOK'
  <2>1. \A t \in Token : token[t].st # "free" => token[t].code # k
    BY <1>4 DEF TokensOK
  <2> QED
    BY <2>1, <1>2, <1>6 DEF TokensOK
<1>11. OneRoot'
  BY <1>2 DEF OneRoot
<1> QED
  BY <1>7, <1>8, <1>9, <1>10, <1>11

(* Whoever claims the code is the first to give it a token.                *)
LEMMA ExchangeKeeps == ASSUME GrantsInv, NEW x \in Caller, CommitExchange(x) PROVE GrantsInv'
<1> DEFINE c == call[x].client  k == call[x].item
<1> USE DEF GrantsInv, TablesOK
<1>1. PICK t \in NewRow(token) : token' = [token EXCEPT ![t] = [st |-> "live", code |-> k, parent |-> Nil]]
  BY DEF CommitExchange
<1>2. /\ UNCHANGED <<client, consent>> /\ code[k].st = "open" /\ call[x].op = "exchange"
      /\ code' = [code EXCEPT ![k].st = "used"] /\ owner' \subseteq owner \cup {code[k].who}
  BY DEF CommitExchange, CodeClaimed
<1>3. k \in Code /\ code[k].who \in Organiser
  BY <1>2 DEF CallsOK, CodesOK
<1>4. t \in Token /\ token[t].st = "free"
  BY NewRowIsFree
<1>5. code' \in [Code -> CodeRow]
  BY <1>2, <1>3 DEF CodeRow
<1>6. token' \in [Token -> TokenRow]
  BY <1>1, <1>3, <1>4 DEF TokenRow
<1>7. /\ code'[k].st = "used" /\ \A j \in Code : code'[j].client = code[j].client /\ code'[j].who = code[j].who
      /\ \A j \in Code \ {k} : code'[j] = code[j]
  BY <1>2, <1>3 DEF CodeRow
<1>8. /\ token'[t] = [st |-> "live", code |-> k, parent |-> Nil]
      /\ \A s \in Token \ {t} : token'[s] = token[s]
  BY <1>1, <1>4
<1>9. CallsOK' /\ call' \in [Caller -> CallRow]
  <2>1. \A j \in Code : code[j].st # "free" => code'[j].st # "free" /\ code'[j].client = code[j].client
    BY <1>7
  <2> QED
    BY <2>1, AnsweredKeeps DEF CommitExchange
<1>10. TablesOK'
  BY <1>2, <1>3, <1>5, <1>6, <1>9
<1>11. CodesOK'
  BY <1>2, <1>3, <1>7 DEF CodesOK
<1>12. \A s \in Token : token[s].st # "free" => token[s].code # k
  BY <1>2 DEF TokensOK
<1>13. TokensOK'
  <2> SUFFICES ASSUME NEW r \in Token
               PROVE  /\ token'[r].st = "free" => token'[r].code = Nil /\ token'[r].parent = Nil
                      /\ token'[r].st # "free" => token'[r].code \in Code /\ code'[token'[r].code].st \in {"used", "gone"}
                      /\ token'[r].st \in {"live", "revoked"} => code'[token'[r].code].st = "used"
                      /\ token'[r].parent # Nil => token'[token'[r].parent].st \in {"revoked", "gone"}
    BY DEF TokensOK
  <2>1. CASE r = t
    BY <2>1, <1>3, <1>7, <1>8
  <2>2. CASE r # t
    <3>1. /\ token'[r].st = "free" => token'[r].code = Nil /\ token'[r].parent = Nil
          /\ token'[r].st # "free" => token'[r].code \in Code /\ code'[token'[r].code].st \in {"used", "gone"}
          /\ token'[r].st \in {"live", "revoked"} => code'[token'[r].code].st = "used"
      BY <2>2, <1>7, <1>8, <1>12 DEF TokensOK
    <3>2. token'[r].parent # Nil => token'[token'[r].parent].st \in {"revoked", "gone"}
      BY <2>2, <1>4, <1>8 DEF TokensOK, TokenRow
    <3> QED
      BY <3>1, <3>2
  <2> QED
    BY <2>1, <2>2
<1>14. OneRoot'
  BY <1>8, <1>12, NilIsNone DEF OneRoot, TokensOK
<1> QED
  BY <1>9, <1>10, <1>11, <1>13, <1>14

LEMMA RefreshKeeps == ASSUME GrantsInv, NEW x \in Caller, CommitRefresh(x) PROVE GrantsInv'
<1> DEFINE t == call[x].item
<1> USE DEF GrantsInv, TablesOK
<1>1. PICK s \in NewRow(token) :
        token' = [Rotated(t) EXCEPT ![s] = [st |-> "live", code |-> token[t].code, parent |-> t]]
  BY DEF CommitRefresh
<1>2. UNCHANGED <<client, consent, owner, code>> /\ t \in Token /\ token[t].st \in {"live", "revoked"}
  BY DEF CommitRefresh, Rows
<1>3. s \in Token /\ token[s].st = "free" /\ s # t
  BY <1>2, NewRowIsFree
<1>4. token' = [token EXCEPT ![t].st = "revoked", ![s] = [st |-> "live", code |-> token[t].code, parent |-> t]]
  BY <1>1 DEF Rotated
<1>5. token' \in [Token -> TokenRow]
  BY <1>2, <1>3, <1>4 DEF TokenRow
<1>6. /\ token'[s].st = "live" /\ token'[s].code = token[t].code /\ token'[s].parent = t
      /\ token'[t].st = "revoked" /\ token'[t].code = token[t].code /\ token'[t].parent = token[t].parent
      /\ \A r \in Token \ {s, t} : token'[r] = token[r]
  BY <1>2, <1>3, <1>4 DEF TokenRow
<1>7. CallsOK' /\ call' \in [Caller -> CallRow]
  BY <1>2, AnsweredKeeps DEF CommitRefresh
<1>8. TablesOK'
  BY <1>2, <1>5, <1>7
<1>9. CodesOK'
  BY <1>2 DEF CodesOK
<1>10. \A r \in Token : token[r].parent # s
  BY <1>3, NilIsNone DEF TokensOK
<1>11. TokensOK'
  <2> SUFFICES ASSUME NEW r \in Token
               PROVE  /\ token'[r].st = "free" => token'[r].code = Nil /\ token'[r].parent = Nil
                      /\ token'[r].st # "free" => token'[r].code \in Code /\ code'[token'[r].code].st \in {"used", "gone"}
                      /\ token'[r].st \in {"live", "revoked"} => code'[token'[r].code].st = "used"
                      /\ token'[r].parent # Nil => token'[token'[r].parent].st \in {"revoked", "gone"}
    BY DEF TokensOK
  <2>1. /\ token'[r].st = "free" => token'[r].code = Nil /\ token'[r].parent = Nil
        /\ token'[r].st # "free" => token'[r].code \in Code /\ code'[token'[r].code].st \in {"used", "gone"}
        /\ token'[r].st \in {"live", "revoked"} => code'[token'[r].code].st = "used"
    BY <1>2, <1>3, <1>6 DEF TokensOK
  <2>2. token'[r].parent # Nil => token'[token'[r].parent].st \in {"revoked", "gone"}
    BY <1>2, <1>3, <1>6, <1>10 DEF TokensOK, TokenRow
  <2> QED
    BY <2>1, <2>2
<1>12. OneRoot'
  BY <1>2, <1>3, <1>6, NilIsNone DEF OneRoot
<1> QED
  BY <1>7, <1>8, <1>9, <1>11, <1>12

(* Revoking only ever takes tokens away.                                   *)
LEMMA RevokingKeeps ==
  ASSUME GrantsInv, NEW x \in Caller, CommitReuse(x) \/ CommitRevoke(x)
  PROVE  GrantsInv'
<1> USE DEF GrantsInv, TablesOK
<1>1. PICK S : token' = RevokedRows(S)
  BY DEF CommitReuse, CommitRevoke
<1>2. UNCHANGED <<client, consent, owner, code>>
  BY DEF CommitReuse, CommitRevoke
<1>3. token' \in [Token -> TokenRow]
  BY <1>1 DEF RevokedRows, TokenRow
<1>4. \A t \in Token : /\ token'[t].code = token[t].code /\ token'[t].parent = token[t].parent
                       /\ \/ token'[t].st = token[t].st
                          \/ token[t].st \in {"live", "revoked"} /\ token'[t].st = "revoked"
  BY <1>1 DEF RevokedRows, TokenRow, Rows
<1>5. CallsOK' /\ call' \in [Caller -> CallRow]
  BY <1>2, AnsweredKeeps DEF CommitReuse, CommitRevoke
<1>6. TablesOK'
  BY <1>2, <1>3, <1>5
<1>7. CodesOK' /\ OneRoot'
  BY <1>2, <1>4 DEF CodesOK, OneRoot
<1>8. TokensOK'
  BY <1>2, <1>4 DEF TokensOK, TokenRow
<1> QED
  BY <1>5, <1>6, <1>7, <1>8

LEMMA GrantsNext == GrantsInv /\ [OAuthNext]_oauthVars => GrantsInv'
<1> SUFFICES ASSUME GrantsInv, [OAuthNext]_oauthVars PROVE GrantsInv'
  OBVIOUS
<1>1. CASE OAuthNext
  <2>1. PICK x \in Caller :
          \/ \E c \in Client :
               \/ CreateClient(x, c) \/ DeleteClient(x, c)
               \/ \E u \in Organiser : Authorize(x, c, u)
               \/ \E k \in Code : Exchange(x, c, k)
               \/ \E t \in Token : Refresh(x, c, t) \/ Revoke(x, c, t)
          \/ Review(x)
          \/ CommitCreate(x) \/ CommitDeleteClient(x) \/ CommitReview(x) \/ CommitAuthorize(x) \/ CommitExchange(x)
          \/ CommitRefresh(x) \/ CommitReuse(x) \/ CommitRevoke(x)
          \/ CallFails(x)
    BY <1>1 DEF OAuthNext
  <2> QED
    BY <2>1, BeginsKeeps, CreateKeeps, DeleteKeeps, ReviewKeeps, AuthorizeKeeps, ExchangeKeeps, RefreshKeeps,
       RevokingKeeps, FailsKeeps
<1>2. CASE UNCHANGED oauthVars
  BY <1>2 DEF oauthVars, GrantsInv, TablesOK, CallsOK, CodesOK, TokensOK, OneRoot
<1> QED
  BY <1>1, <1>2

LEMMA GrantsInvariance == OAuthSpec => []GrantsInv
<1> QED
  BY GrantsInit, GrantsNext, PTL DEF OAuthSpec

(* However many requests present a code or a token at once, the code is    *)
(* exchanged once, a rotated pair stays revoked, and nothing is left that  *)
(* refers to a deleted app.                                                *)
THEOREM OAuthHolds == OAuthSpec => []OAuthInv
<1> QED
  BY GrantsInvariance, GrantsInvSuffices, PTL

(* Nobody becomes an owner of the event but by the exchange of a code of   *)
(* theirs by an app that proved itself, whatever pages they are sent to.   *)
LEMMA OwnersOnlyByExchange == OAuthSpec => [][OwnerOnlyByExchange]_oauthVars
<1>1. GrantsInv /\ [OAuthNext]_oauthVars => [OwnerOnlyByExchange]_oauthVars
  <2> SUFFICES ASSUME GrantsInv, OAuthNext, NEW u \in Organiser, u \in owner', u \notin owner
               PROVE  \E k \in Code : /\ code[k].st = "open" /\ code'[k].st = "used"
                                      /\ code[k].who = u /\ code[k].client \in Confidential
    BY DEF OwnerOnlyByExchange
  <2>1. PICK x \in Caller : CommitExchange(x)
    BY DEF OAuthNext, CreateClient, DeleteClient, Authorize, Exchange, Refresh, Revoke, Review, Asks, CommitCreate,
           CommitDeleteClient, CommitReview, CommitAuthorize, OwnersAfterConsent, CommitRefresh, CommitReuse,
           CommitRevoke, CallFails
  <2> DEFINE k == call[x].item
  <2>2. /\ code[k].st = "open" /\ call[x].op = "exchange" /\ code' = [code EXCEPT ![k].st = "used"]
        /\ owner' = IF call[x].client \in Confidential THEN owner \cup {code[k].who} ELSE owner
    BY <2>1 DEF CommitExchange, CodeClaimed
  <2>3. k \in Code /\ code[k].client = call[x].client
    BY <2>2 DEF GrantsInv, CallsOK
  <2>4. code'[k].st = "used"
    BY <2>2, <2>3 DEF GrantsInv, TablesOK, CodeRow
  <2> QED
    BY <2>2, <2>3, <2>4
<1> QED
  BY <1>1, GrantsInvariance, PTL DEF OAuthSpec

-----------------------------------------------------------------------------
(* How tokens descend from each other: a new pair is put below the one it  *)
(* was exchanged for, of the same code, and nothing already there moves.   *)
Stays(t) ==
  /\ token'[t].code = token[t].code /\ token'[t].parent = token[t].parent
  /\ token'[t].st = "free" <=> token[t].st = "free"

GrowsBy(s) ==
  /\ token[s].st = "free"
  /\ \A t \in Token \ {s} : Stays(t)
  /\ LET p == token'[s].parent
     IN p # Nil => p \in Token /\ token[p].st # "free" /\ token'[s].code = token[p].code

(* Older tokens rank below younger ones.                                   *)
Ages(rank) ==
  /\ rank \in [Token -> Nat]
  /\ \A t \in Token : token[t].parent # Nil => rank[token[t].parent] < rank[t]

(* A reused token's answer ends all of its code that the request knew of.  *)
FamilyKnown(x) ==
  call[x].op = "reuse" =>
    /\ token[call[x].item].st # "free"
    /\ \A t \in call[x].known :
         /\ t \in Token /\ token[t].st # "free"
         /\ token[t].code = token[call[x].item].code => t \in call[x].family

FamiliesInv ==
  /\ \E rank : Ages(rank)
  /\ \A t \in Token : token[t].parent # Nil => token[token[t].parent].code = token[t].code
  /\ \A x \in Caller : FamilyKnown(x)

LEMMA ParentIsToken ==
  ASSUME GrantsInv, NEW t \in Token, token[t].parent # Nil
  PROVE  token[t].parent \in Token /\ token[token[t].parent].st # "free"
  BY DEF GrantsInv, TablesOK, TokensOK, TokenRow

(* A set of numbers has a least.                                           *)
LEMMA Least == ASSUME NEW K, K \subseteq Nat, K # {} PROVE \E m \in K : \A j \in K : m <= j
<1> DEFINE R == OpToRel(<, Nat)
<1>1. \A x, y \in Nat : <<x, y>> \in R <=> x < y
  BY DEF OpToRel
<1>2. IsWellFoundedOn(R, Nat)
  BY NatLessThanWellFounded
<1> HIDE DEF R
<1>3. PICK m \in K : \A j \in K : <<j, m>> \notin R
  BY <1>2, WFMin
<1>4. ASSUME NEW j \in K PROVE m <= j
  <2>1. m \in Nat /\ j \in Nat /\ ~(j < m)
    BY <1>1, <1>3
  <2> QED BY <2>1
<1> QED BY <1>3, <1>4

(* A set of tokens has an oldest.                                          *)
LEMMA OldestOf ==
  ASSUME NEW rank \in [Token -> Nat], NEW S \in SUBSET Token, S # {}
  PROVE  \E m \in S : \A t \in S : rank[m] <= rank[t]
<1> DEFINE K == {rank[t] : t \in S}
<1>1. K \subseteq Nat /\ K # {}
  OBVIOUS
<1>2. PICK k \in K : \A j \in K : k <= j
  BY <1>1, Least
<1> QED BY <1>2

(* Below every token that was issued is the one its code was exchanged for.*)
RootOfCode(c, r) == r \in Token /\ token[r].code = c /\ token[r].parent = Nil

LEMMA CodeHasRoot ==
  ASSUME GrantsInv, FamiliesInv, NEW t \in Token
  PROVE  \E r : RootOfCode(token[t].code, r)
<1> DEFINE S == {s \in Token : token[s].code = token[t].code}
<1>1. PICK rank : Ages(rank)
  BY DEF FamiliesInv
<1>2. rank \in [Token -> Nat] /\ S \in SUBSET Token /\ S # {}
  BY <1>1 DEF Ages
<1>3. PICK m \in S : \A s \in S : rank[m] <= rank[s]
  BY <1>2, OldestOf
<1>4. token[m].parent = Nil
  <2> SUFFICES ASSUME token[m].parent # Nil PROVE FALSE
    OBVIOUS
  <2> DEFINE p == token[m].parent
  <2>1. p \in S /\ rank[p] < rank[m]
    BY <1>1, <1>3, ParentIsToken DEF FamiliesInv, Ages
  <2>2. rank[p] \in Nat /\ rank[m] \in Nat /\ rank[m] <= rank[p]
    BY <1>2, <1>3, <2>1
  <2> QED BY <2>1, <2>2
<1> QED BY <1>4 DEF RootOfCode

(* The walk to the root ends there: the equation it solves has a solution, *)
(* and every solution leads from a token to the first of its code.         *)
Walks(f) == f = [s \in Token |-> IF token[s].parent = Nil THEN s ELSE f[token[s].parent]]

LEMMA SomeWalk ==
  ASSUME GrantsInv, FamiliesInv
  PROVE  \E f : Walks(f)
<1> DEFINE first(s) == CHOOSE r : RootOfCode(token[s].code, r)
           f == [s \in Token |-> IF token[s].parent = Nil THEN s ELSE first(s)]
<1>1. \A s \in Token : RootOfCode(token[s].code, first(s))
  BY CodeHasRoot
<1>2. ASSUME NEW s \in Token, token[s].parent # Nil
      PROVE  f[s] = f[token[s].parent]
  <2> DEFINE p == token[s].parent
  <2>1. p \in Token /\ token[p].st # "free" /\ token[p].code = token[s].code
    BY <1>2, ParentIsToken DEF FamiliesInv
  <2>2. first(p) = first(s)
    BY <2>1
  <2>3. CASE token[p].parent # Nil
    BY <1>2, <2>1, <2>2, <2>3
  <2>4. CASE token[p].parent = Nil
    <3>1. token[p].code \in Code /\ token[p].code # Nil
      BY <2>1, NilIsNone DEF GrantsInv, TokensOK
    <3>2. RootOfCode(token[p].code, first(p))
      BY <1>1, <2>1
    <3>3. first(p) = p
      BY <2>1, <2>4, <3>1, <3>2 DEF GrantsInv, OneRoot, RootOfCode
    <3> QED BY <1>2, <2>1, <2>2, <2>4, <3>3
  <2> QED BY <2>3, <2>4
<1>3. ASSUME NEW s \in Token
      PROVE  f[s] = IF token[s].parent = Nil THEN s ELSE f[token[s].parent]
  <2>1. token[s].parent = Nil => f[s] = s
    OBVIOUS
  <2> HIDE DEF f
  <2> QED BY <1>2, <2>1
<1>4. f = [s \in Token |-> f[s]]
  OBVIOUS
<1> HIDE DEF f
<1>5. f = [s \in Token |-> IF token[s].parent = Nil THEN s ELSE f[token[s].parent]]
  BY <1>3, <1>4
<1> QED BY <1>5 DEF Walks

LEMMA WalkEndsAtRoot ==
  ASSUME GrantsInv, FamiliesInv, NEW f, Walks(f)
  PROVE  \A t \in Token : RootOfCode(token[t].code, f[t])
<1> DEFINE S == {t \in Token : ~RootOfCode(token[t].code, f[t])}
<1> SUFFICES ASSUME S # {} PROVE FALSE
  OBVIOUS
<1>1. PICK rank : Ages(rank)
  BY DEF FamiliesInv
<1>2. rank \in [Token -> Nat] /\ S \in SUBSET Token
  BY <1>1 DEF Ages
<1>3. PICK m \in S : \A s \in S : rank[m] <= rank[s]
  BY <1>2, OldestOf
<1>4. m \in Token /\ ~RootOfCode(token[m].code, f[m])
  BY <1>3
<1>5. f[m] = IF token[m].parent = Nil THEN m ELSE f[token[m].parent]
  BY <1>4 DEF Walks
<1> DEFINE p == token[m].parent
<1>6. p # Nil
  BY <1>4, <1>5 DEF RootOfCode
<1>7. p \in Token /\ rank[p] < rank[m] /\ token[p].code = token[m].code
  BY <1>1, <1>4, <1>6, ParentIsToken DEF FamiliesInv, Ages
<1>8. p \in S
  BY <1>4, <1>5, <1>6, <1>7
<1>9. rank[m] \in Nat /\ rank[p] \in Nat /\ rank[m] <= rank[p]
  BY <1>2, <1>3, <1>4, <1>7, <1>8
<1> QED BY <1>7, <1>9

LEMMA RootIsRoot ==
  ASSUME GrantsInv, FamiliesInv, NEW t \in Token
  PROVE  RootOfCode(token[t].code, Root(t))
<1> DEFINE g == CHOOSE root :
      root = [s \in Token |-> IF token[s].parent = Nil THEN s ELSE root[token[s].parent]]
<1>1. Root(t) = g[t]
  BY DEF Root
<1>2. \E f : f = [s \in Token |-> IF token[s].parent = Nil THEN s ELSE f[token[s].parent]]
  BY SomeWalk DEF Walks
<1>3. g = [s \in Token |-> IF token[s].parent = Nil THEN s ELSE g[token[s].parent]]
  BY <1>2
<1> HIDE DEF g
<1>4. Walks(g)
  BY <1>3 DEF Walks
<1> QED BY <1>1, <1>4, WalkEndsAtRoot

(* So a family is all that came of one code.                               *)
LEMMA FamilyIsOfCode ==
  ASSUME GrantsInv, FamiliesInv, NEW t \in Token, token[t].st # "free",
         NEW s \in Rows, token[s].code = token[t].code
  PROVE  s \in Family(t)
<1>1. s \in Token
  BY DEF Rows
<1>2. RootOfCode(token[t].code, Root(t)) /\ RootOfCode(token[t].code, Root(s))
  BY <1>1, RootIsRoot
<1>3. token[t].code # Nil
  BY NilIsNone DEF GrantsInv, TokensOK
<1>4. Root(s) = Root(t)
  BY <1>2, <1>3 DEF RootOfCode, GrantsInv, OneRoot
<1> QED BY <1>4 DEF Family

-----------------------------------------------------------------------------
(* A step adds at most one token, where it belongs.                        *)
LEMMA ExchangeGrows ==
  ASSUME GrantsInv, NEW x \in Caller, CommitExchange(x)
  PROVE  \E s \in Token : GrowsBy(s)
<1> DEFINE k == call[x].item
<1>1. PICK t \in NewRow(token) : token' = [token EXCEPT ![t] = [st |-> "live", code |-> k, parent |-> Nil]]
  BY DEF CommitExchange
<1>2. t \in Token /\ token[t].st = "free"
  BY NewRowIsFree DEF GrantsInv, TablesOK
<1>3. token'[t].parent = Nil /\ \A s \in Token \ {t} : token'[s] = token[s]
  BY <1>1, <1>2 DEF GrantsInv, TablesOK
<1> QED BY <1>2, <1>3 DEF GrowsBy, Stays

LEMMA RefreshGrows ==
  ASSUME GrantsInv, NEW x \in Caller, CommitRefresh(x)
  PROVE  \E s \in Token : GrowsBy(s)
<1> DEFINE t == call[x].item
<1> USE DEF GrantsInv, TablesOK
<1>1. PICK s \in NewRow(token) :
        token' = [Rotated(t) EXCEPT ![s] = [st |-> "live", code |-> token[t].code, parent |-> t]]
  BY DEF CommitRefresh
<1>2. t \in Token /\ token[t].st \in {"live", "revoked"}
  BY DEF CommitRefresh, Rows
<1>3. s \in Token /\ token[s].st = "free" /\ s # t
  BY <1>2, NewRowIsFree
<1>4. token' = [token EXCEPT ![t].st = "revoked", ![s] = [st |-> "live", code |-> token[t].code, parent |-> t]]
  BY <1>1 DEF Rotated
<1>5. /\ token'[s].code = token[t].code /\ token'[s].parent = t
      /\ token'[t].st = "revoked" /\ token'[t].code = token[t].code /\ token'[t].parent = token[t].parent
      /\ \A r \in Token \ {s, t} : token'[r] = token[r]
  BY <1>2, <1>3, <1>4 DEF TokenRow
<1>6. \A r \in Token \ {s} : Stays(r)
  BY <1>2, <1>5 DEF Stays
<1> QED BY <1>2, <1>3, <1>5, <1>6 DEF GrowsBy

LEMMA OthersStay ==
  ASSUME GrantsInv, [OAuthNext]_oauthVars,
         ~ \E x \in Caller : CommitExchange(x) \/ CommitRefresh(x)
  PROVE  \A t \in Token : Stays(t)
<1>1. ASSUME NEW x \in Caller, CommitDeleteClient(x) PROVE \A t \in Token : Stays(t)
  BY <1>1 DEF CommitDeleteClient, GrantsInv, TablesOK, TokenRow, Rows, Stays
<1>2. ASSUME NEW x \in Caller, CommitReuse(x) \/ CommitRevoke(x) PROVE \A t \in Token : Stays(t)
  <2>1. PICK S : token' = RevokedRows(S)
    BY <1>2 DEF CommitReuse, CommitRevoke
  <2> QED BY <2>1 DEF RevokedRows, GrantsInv, TablesOK, TokenRow, Rows, Stays
<1>3. CASE UNCHANGED token
  BY <1>3 DEF Stays
<1>4. \/ UNCHANGED token
      \/ \E x \in Caller : CommitDeleteClient(x) \/ CommitReuse(x) \/ CommitRevoke(x)
  BY DEF OAuthNext, oauthVars, CreateClient, DeleteClient, Authorize, Exchange, Refresh, Revoke, Review,
         Asks, CommitCreate, CommitReview, CommitAuthorize, CallFails
<1> QED BY <1>1, <1>2, <1>3, <1>4

LEMMA TokensGrow ==
  ASSUME GrantsInv, [OAuthNext]_oauthVars
  PROVE  (\A t \in Token : Stays(t)) \/ \E s \in Token : GrowsBy(s)
  BY ExchangeGrows, RefreshGrows, OthersStay

(* A token once issued keeps its code and is never free again.             *)
LEMMA IssuedStays ==
  ASSUME GrantsInv, [OAuthNext]_oauthVars, NEW t \in Token, token[t].st # "free"
  PROVE  Stays(t)
  BY TokensGrow DEF GrowsBy

LEMMA TreeGrows ==
  ASSUME GrantsInv, FamiliesInv, [OAuthNext]_oauthVars
  PROVE  /\ (\E rank : Ages(rank))'
         /\ \A t \in Token : token'[t].parent # Nil => token'[token'[t].parent].code = token'[t].code
<1>1. PICK rank : Ages(rank)
  BY DEF FamiliesInv
<1>2. \A t \in Token : token[t].parent # Nil =>
        /\ token[t].parent \in Token /\ token[token[t].parent].st # "free"
        /\ token[token[t].parent].code = token[t].code
        /\ rank[token[t].parent] < rank[t]
  BY <1>1, ParentIsToken DEF FamiliesInv, Ages
<1>3. CASE \A t \in Token : Stays(t)
  <2>1. \A t \in Token : token'[t].parent # Nil =>
          /\ token'[token'[t].parent].code = token'[t].code
          /\ rank[token'[t].parent] < rank[t]
    BY <1>2, <1>3 DEF Stays
  <2>2. Ages(rank)'
    BY <1>1, <2>1 DEF Ages
  <2> QED BY <2>1, <2>2
<1>4. ASSUME NEW s \in Token, GrowsBy(s)
      PROVE  /\ (\E r : Ages(r))'
             /\ \A t \in Token : token'[t].parent # Nil => token'[token'[t].parent].code = token'[t].code
  <2> DEFINE p == token'[s].parent
  <2>1. p # Nil => p \in Token /\ p # s /\ token[p].st # "free" /\ token'[s].code = token[p].code
    BY <1>4 DEF GrowsBy
  <2>2. rank \in [Token -> Nat]
    BY <1>1 DEF Ages
  <2>3. \A t \in Token \ {s} : token'[t].parent # Nil =>
          /\ token'[t].parent = token[t].parent /\ token'[t].parent \in Token \ {s}
          /\ token'[token'[t].parent].code = token'[t].code
          /\ rank[token'[t].parent] < rank[t]
    BY <1>2, <1>4 DEF GrowsBy, Stays
  <2>4. p # Nil => token'[p].code = token'[s].code
    BY <1>4, <2>1 DEF GrowsBy, Stays
  <2>5. CASE p = Nil
    <3>1. Ages(rank)'
      BY <2>2, <2>3, <2>5 DEF Ages
    <3> QED BY <2>3, <2>5, <3>1
  <2>6. CASE p # Nil
    <3>1. rank[p] \in Nat
      BY <2>1, <2>2, <2>6
    <3>2. PICK young \in [Token -> Nat] : /\ young[s] = rank[p] + 1
                                          /\ \A t \in Token \ {s} : young[t] = rank[t]
      <4> DEFINE y == [rank EXCEPT ![s] = rank[p] + 1]
      <4>1. y \in [Token -> Nat] /\ y[s] = rank[p] + 1 /\ \A t \in Token \ {s} : y[t] = rank[t]
        BY <2>2, <3>1
      <4> QED BY <4>1
    <3>3. young[p] < young[s]
      BY <2>1, <2>6, <3>1, <3>2
    <3>4. \A t \in Token \ {s} : token'[t].parent # Nil => young[token'[t].parent] < young[t]
      BY <2>3, <3>2
    <3>5. Ages(young)'
      BY <3>2, <3>3, <3>4 DEF Ages
    <3> QED BY <2>3, <2>4, <3>5
  <2> QED BY <2>5, <2>6
<1> QED BY <1>3, <1>4, TokensGrow

(* A request that finds a token reused has noted all of its family.        *)
LEMMA AsksKnows ==
  ASSUME GrantsInv, FamiliesInv, NEW x \in Caller, NEW c \in Client, NEW t \in Token,
         t \in Rows, Asks(x, "reuse", c, t, Family(t))
  PROVE  FamilyKnown(x)'
<1>1. /\ call'[x].op = "reuse" /\ call'[x].item = t
      /\ call'[x].family = Family(t) /\ call'[x].known = Rows
      /\ token' = token
  BY DEF Asks, GrantsInv, TablesOK
<1>2. token[t].st # "free" /\ \A s \in Rows : s \in Token /\ token[s].st # "free"
  BY DEF Rows
<1>3. \A s \in Rows : token[s].code = token[t].code => s \in Family(t)
  BY <1>2, FamilyIsOfCode
<1> QED BY <1>1, <1>2, <1>3 DEF FamilyKnown

(* Whatever a caller does with its request, it is idle then, or knows what *)
(* it needs; nobody else changes its request.                              *)
LEMMA CallChanges ==
  ASSUME GrantsInv, FamiliesInv, [OAuthNext]_oauthVars, NEW x \in Caller, call'[x] # call[x]
  PROVE  call'[x].op # "reuse" \/ FamilyKnown(x)'
<1>1. PICK y \in Caller :
        \/ \E c \in Client :
             \/ CreateClient(y, c) \/ DeleteClient(y, c)
             \/ \E u \in Organiser : Authorize(y, c, u)
             \/ \E k \in Code : Exchange(y, c, k)
             \/ \E t \in Token : Refresh(y, c, t) \/ Revoke(y, c, t)
        \/ Review(y)
        \/ Answered(y)
  BY DEF OAuthNext, oauthVars, CommitCreate, CommitDeleteClient, CommitReview, CommitAuthorize,
         CommitExchange, CommitRefresh, CommitReuse, CommitRevoke, CallFails
<1>2. CASE Answered(y)
  BY <1>2 DEF Answered, IdleCall, GrantsInv, TablesOK
<1>3. CASE \E c \in Client, t \in Token : Refresh(y, c, t) /\ token[t].st # "live"
  <2>1. PICK c \in Client, t \in Token : t \in Rows /\ Asks(y, "reuse", c, t, Family(t))
    BY <1>3 DEF Refresh
  <2>2. x = y
    BY <2>1 DEF Asks, GrantsInv, TablesOK
  <2> QED BY <2>1, <2>2, AsksKnows
<1>4. CASE \E op \in CallOp \ {"reuse"} : \E c, i, S : Asks(y, op, c, i, S)
  BY <1>4 DEF Asks, GrantsInv, TablesOK
<1>5. \/ Answered(y)
      \/ \E c \in Client, t \in Token : Refresh(y, c, t) /\ token[t].st # "live"
      \/ \E op \in CallOp \ {"reuse"} : \E c, i, S : Asks(y, op, c, i, S)
  <2>1. ASSUME NEW c \in Client, CreateClient(y, c) PROVE Asks(y, "create", c, Nil, {})
    BY <2>1 DEF CreateClient
  <2>2. ASSUME NEW c \in Client, DeleteClient(y, c) PROVE Asks(y, "delete", c, Nil, {})
    BY <2>2 DEF DeleteClient
  <2>3. ASSUME NEW c \in Client, NEW u \in Organiser, Authorize(y, c, u)
        PROVE  Asks(y, "authorize", c, u, {})
    BY <2>3 DEF Authorize
  <2>4. ASSUME NEW c \in Client, NEW k \in Code, Exchange(y, c, k) PROVE Asks(y, "exchange", c, k, {})
    BY <2>4 DEF Exchange
  <2>5. ASSUME NEW c \in Client, NEW t \in Token, Refresh(y, c, t), token[t].st = "live"
        PROVE  Asks(y, "refresh", c, t, {})
    BY <2>5 DEF Refresh
  <2>6. ASSUME NEW c \in Client, NEW t \in Token, Revoke(y, c, t) PROVE Asks(y, "revoke", c, t, {})
    BY <2>6 DEF Revoke
  <2>7. ASSUME Review(y) PROVE Asks(y, "review", Nil, Nil, {})
    BY <2>7 DEF Review
  <2>8. {"create", "delete", "authorize", "exchange", "refresh", "revoke", "review"} \subseteq CallOp \ {"reuse"}
    BY DEF CallOp
  <2> QED BY <1>1, <2>1, <2>2, <2>3, <2>4, <2>5, <2>6, <2>7, <2>8
<1> QED BY <1>2, <1>3, <1>4, <1>5

LEMMA FamiliesNext ==
  GrantsInv /\ FamiliesInv /\ [OAuthNext]_oauthVars => FamiliesInv'
<1> SUFFICES ASSUME GrantsInv, FamiliesInv, [OAuthNext]_oauthVars PROVE FamiliesInv'
  OBVIOUS
<1>1. ASSUME NEW x \in Caller PROVE FamilyKnown(x)'
  <2>1. CASE call'[x] = call[x]
    <3> SUFFICES ASSUME call[x].op = "reuse"
                 PROVE  FamilyKnown(x)'
      BY <2>1 DEF FamilyKnown
    <3> DEFINE i == call[x].item
    <3>1. i \in Token /\ token[i].st # "free"
      BY DEF GrantsInv, CallsOK, FamiliesInv, FamilyKnown
    <3>2. token'[i].st # "free" /\ token'[i].code = token[i].code
      BY <3>1, IssuedStays DEF Stays
    <3>3. \A t \in call[x].known :
            /\ t \in Token /\ token[t].st # "free"
            /\ token[t].code = token[i].code => t \in call[x].family
      BY DEF FamiliesInv, FamilyKnown
    <3>4. \A t \in call[x].known : token'[t].st # "free" /\ token'[t].code = token[t].code
      BY <3>3, IssuedStays DEF Stays
    <3> QED BY <2>1, <3>2, <3>3, <3>4 DEF FamilyKnown
  <2>2. CASE call'[x] # call[x]
    BY <2>2, CallChanges DEF FamilyKnown
  <2> QED BY <2>1, <2>2
<1> QED BY <1>1, TreeGrows DEF FamiliesInv

LEMMA FamiliesInit == OAuthInit => FamiliesInv
<1> SUFFICES ASSUME OAuthInit PROVE FamiliesInv
  OBVIOUS
<1> DEFINE rank == [t \in Token |-> 0]
<1>1. \A t \in Token : token[t].parent = Nil
  BY DEF OAuthInit, NoToken
<1>2. Ages(rank)
  BY <1>1 DEF Ages
<1>3. \A x \in Caller : FamilyKnown(x)
  BY DEF OAuthInit, IdleCall, FamilyKnown
<1> QED BY <1>1, <1>2, <1>3 DEF FamiliesInv

LEMMA ReuseEnds ==
  ASSUME GrantsInv, FamiliesInv, OAuthNext
  PROVE  ReuseEndsTheFamily
<1> SUFFICES ASSUME NEW x \in Caller, call[x].op = "reuse", token' # token, call'[x] = IdleCall,
                    NEW t \in call[x].known, token[t].code = token[call[x].item].code
             PROVE  token'[t].st # "live"
  BY DEF ReuseEndsTheFamily, Accepted
<1>1. CommitReuse(x)
  <2>1. PICK y \in Caller : \/ CommitDeleteClient(y) \/ CommitExchange(y)
                            \/ CommitRefresh(y) \/ CommitReuse(y) \/ CommitRevoke(y)
    BY DEF OAuthNext, CreateClient, DeleteClient, Authorize, Exchange, Refresh, Revoke, Review,
           Asks, CommitCreate, CommitReview, CommitAuthorize, CallFails
  <2>2. call' = [call EXCEPT ![y] = IdleCall] /\ call[y].op \in {"delete", "exchange", "refresh", "reuse", "revoke"}
    BY <2>1 DEF CommitDeleteClient, CommitExchange, CommitRefresh, CommitReuse, CommitRevoke, Answered
  <2>3. call[x] # IdleCall
    BY DEF IdleCall
  <2>4. x = y
    BY <2>2, <2>3 DEF GrantsInv, TablesOK
  <2> QED
    BY <2>1, <2>4 DEF CommitDeleteClient, CommitExchange, CommitRefresh, CommitRevoke
<1>2. t \in Token /\ t \in call[x].family
  BY DEF FamiliesInv, FamilyKnown
<1>3. token' = [s \in Token |-> IF s \in call[x].family \cap Rows
                                  THEN [token[s] EXCEPT !.st = "revoked"] ELSE token[s]]
  BY <1>1 DEF CommitReuse, RevokedRows
<1>4. token'[t].st = IF t \in Rows THEN "revoked" ELSE token[t].st
  BY <1>2, <1>3 DEF GrantsInv, TablesOK, TokenRow
<1> QED BY <1>2, <1>4 DEF Rows

(* What a grant gives and what a copy of it takes away, whatever requests  *)
(* overlap: nobody becomes an owner of the event but by the exchange of a  *)
(* code of theirs, and when a refresh token is presented that was already  *)
(* spent, the walk to the root of its family and down again finds every    *)
(* token of the grant that was there, and none of them is accepted         *)
(* afterwards.                                                             *)
THEOREM GrantsActAsTheyShould == OAuthSpec => GrantsActRightly
<1>1. OAuthSpec => [](GrantsInv /\ FamiliesInv)
  BY GrantsInit, GrantsNext, FamiliesInit, FamiliesNext, PTL DEF OAuthSpec
<1>2. GrantsInv /\ FamiliesInv /\ [OAuthNext]_oauthVars => [ReuseEndsTheFamily]_oauthVars
  BY ReuseEnds
<1>3. OAuthSpec => [][ReuseEndsTheFamily]_oauthVars
  BY <1>1, <1>2, PTL DEF OAuthSpec
<1> QED BY <1>3, OwnersOnlyByExchange, PTL DEF GrantsActRightly

-----------------------------------------------------------------------------
(* What a request has decided, and the row it read: while it has one, the  *)
(* row is there, for whoever deletes it takes it from every request.       *)
TeamOp == {"count", "look", "set", "remove", "organise", "delete"}

Decision == [op : TeamOp, user : User, to : EventRole \cup {""}, from : EventRole \cup {"", "gone"}]

TeamTypes ==
  /\ role \in [User -> EventRole \cup {"", "deleted"}]
  /\ req \in [Request -> Decision \cup {NoReq}]
  /\ \A q \in Request : req[q].op \in {"look", "set", "organise"} => req[q].to \in EventRole

RowSeen == \A q \in Request : req[q].from \in EventRole => role[req[q].user] \in EventRole

TeamIInv == TeamTypes /\ RowSeen

LEMMA RowIsARole == ASSUME TeamTypes, NEW u \in User PROVE Row(u) \in EventRole \cup {""}
  BY DEF Row, TeamTypes

(* A request that only reads notes what is so.                             *)
LEMMA TeamReadKeeps ==
  ASSUME TeamIInv, NEW q \in Request, NEW d \in Decision \cup {NoReq},
         req' = [req EXCEPT ![q] = d], UNCHANGED role,
         d.op \in {"look", "set", "organise"} => d.to \in EventRole,
         d.from \in EventRole => role[d.user] \in EventRole
  PROVE  TeamIInv'
<1>1. \A p \in Request : req'[p] = IF p = q THEN d ELSE req[p]
  BY DEF TeamIInv, TeamTypes
<1>2. TeamTypes'
  BY <1>1 DEF TeamIInv, TeamTypes
<1>3. RowSeen'
  BY <1>1 DEF TeamIInv, RowSeen
<1> QED BY <1>2, <1>3 DEF TeamIInv

LEMMA NoReqIsFine == NoReq.op = "idle" /\ NoReq.from = ""
  BY DEF NoReq

LEMMA ReadsKeepsTypes ==
  ASSUME TeamIInv, NEW q \in Request, NEW u \in User, NEW to \in EventRole \cup {""}, NEW op \in TeamOp,
         Reads(q, op, u, to), op \in {"look", "set", "organise"} => to \in EventRole
  PROVE  TeamIInv'
<1> DEFINE d == [op |-> op, user |-> u, to |-> to, from |-> Row(u)]
<1>1. Row(u) \in EventRole \cup {""} /\ (Row(u) \in EventRole => role[u] \in EventRole)
  BY RowIsARole DEF TeamIInv, Row, EventRole
<1>2. d \in Decision /\ d.op = op /\ d.user = u /\ d.to = to /\ d.from = Row(u)
  BY <1>1 DEF Decision
<1>3. req' = [req EXCEPT ![q] = d] /\ UNCHANGED role
  BY DEF Reads
<1> HIDE DEF d
<1> QED BY <1>1, <1>2, <1>3, TeamReadKeeps

LEMMA CountKeeps ==
  ASSUME TeamIInv, NEW q \in Request, EnsureAnotherOwner(q)
  PROVE  TeamIInv'
<1> DEFINE on == [req[q] EXCEPT !.op = IF req[q].to = "" THEN "remove" ELSE "look"]
<1>1. req[q] \in Decision
  BY NoReqIsFine DEF EnsureAnotherOwner, TeamIInv, TeamTypes
<1>2. /\ on \in Decision /\ on.user = req[q].user /\ on.from = req[q].from
      /\ on.op \in {"look", "set", "organise"} => on.to \in EventRole
  BY <1>1 DEF Decision, TeamOp
<1>3. /\ req' = [req EXCEPT ![q] = on] \/ req' = [req EXCEPT ![q] = NoReq]
      /\ UNCHANGED role
  BY DEF EnsureAnotherOwner
<1>4. on.from \in EventRole => role[on.user] \in EventRole
  BY <1>2 DEF TeamIInv, RowSeen
<1>5. NoReq.from \notin EventRole
  BY NoReqIsFine DEF EventRole
<1> HIDE DEF on
<1>6. CASE req' = [req EXCEPT ![q] = on]
  BY <1>2, <1>3, <1>4, <1>6, TeamReadKeeps
<1>7. CASE req' = [req EXCEPT ![q] = NoReq]
  BY <1>3, <1>5, <1>7, NoReqIsFine, TeamReadKeeps
<1> QED BY <1>3, <1>6, <1>7

LEMMA LookAgainKeeps ==
  ASSUME TeamIInv, NEW q \in Request, LookAgain(q)
  PROVE  TeamIInv'
<1> DEFINE seen == IF req[q].from \in EventRole THEN req[q].from ELSE Row(req[q].user)
           d == [[req[q] EXCEPT !.op = "set"] EXCEPT !.from = seen]
<1>1. req[q] \in Decision /\ req[q].to \in EventRole
  BY NoReqIsFine DEF LookAgain, TeamIInv, TeamTypes
<1>2. req[q].user \in User
  BY <1>1 DEF Decision
<1>3. seen \in EventRole \cup {""} /\ (seen \in EventRole => role[req[q].user] \in EventRole)
  BY <1>2, RowIsARole DEF TeamIInv, RowSeen, Row, EventRole
<1>4. req' = [req EXCEPT ![q] = d] /\ UNCHANGED role
  BY DEF LookAgain, TeamIInv, TeamTypes
<1> HIDE DEF seen
<1>5. d \in Decision /\ d.op = "set" /\ d.to \in EventRole /\ d.user = req[q].user /\ d.from = seen
  BY <1>1, <1>3 DEF Decision, TeamOp
<1> HIDE DEF d
<1> QED BY <1>3, <1>4, <1>5, TeamReadKeeps

(* What a write makes of a role, and what the other requests have then.    *)
LEMMA CommitGives ==
  ASSUME TeamIInv, NEW q \in Request, CommitRole(q)
  PROVE  LET d == req[q]  u == req[q].user
         IN /\ d \in Decision /\ u \in User
            /\ \E x \in EventRole \cup {"", "deleted"} :
                 /\ role' = [role EXCEPT ![u] = x]
                 /\ x \in EventRole /\ role[u] \notin EventRole =>
                      role[u] = "" /\ d.from = "" /\ d.op \in {"set", "organise"}
                 /\ req' = [p \in Request |->
                             IF p = q THEN NoReq
                             ELSE IF req[p].user = u /\ x \notin EventRole
                               THEN [req[p] EXCEPT !.from = Missed(@)]
                             ELSE req[p]]
<1> DEFINE d == req[q]  u == req[q].user
<1>1. d \in Decision
  BY DEF CommitRole, TeamIInv, TeamTypes
<1>2. /\ d.op \in TeamOp /\ u \in User /\ d.to \in EventRole \cup {""}
      /\ d.from \in EventRole \cup {"", "gone"}
  BY <1>1 DEF Decision
<1>3. /\ role[u] \in EventRole \cup {"", "deleted"}
      /\ d.op \in {"set", "organise"} => d.to \in EventRole
      /\ d.from \in EventRole => role[u] \in EventRole
  BY <1>2 DEF TeamIInv, TeamTypes, RowSeen
<1>4. ASSUME NEW x \in Writes(q, u)
      PROVE  /\ x \in EventRole \cup {"", "deleted"}
             /\ x \in EventRole /\ role[u] \notin EventRole =>
                  role[u] = "" /\ d.from = "" /\ d.op \in {"set", "organise"}
  <2>1. CASE d.op \in {"set", "organise"} /\ d.from = ""
    BY <1>3, <1>4, <2>1 DEF Writes, EventRole
  <2>2. CASE d.op \in {"set", "organise"} /\ d.from \in EventRole
    BY <1>3, <1>4, <2>2 DEF Writes, EventRole
  <2>3. CASE d.op = "remove"
    BY <1>3, <1>4, <2>3 DEF Writes, EventRole
  <2>4. CASE d.op = "delete"
    BY <1>3, <1>4, <2>4 DEF Writes, EventRole
  <2>5. d.op \notin {"set", "organise", "remove", "delete"} => Writes(q, u) = {}
    BY DEF Writes
  <2>6. d.op \in {"set", "organise"} /\ d.from = "gone" => Writes(q, u) = {}
    BY DEF Writes, EventRole
  <2> QED BY <1>2, <1>4, <2>1, <2>2, <2>3, <2>4, <2>5, <2>6
<1> QED BY <1>1, <1>2, <1>4 DEF CommitRole

LEMMA CommitKeepsTeam ==
  ASSUME TeamIInv, NEW q \in Request, CommitRole(q)
  PROVE  TeamIInv'
<1> DEFINE u == req[q].user
<1>1. PICK x \in EventRole \cup {"", "deleted"} :
        /\ role' = [role EXCEPT ![u] = x]
        /\ req' = [p \in Request |->
                    IF p = q THEN NoReq
                    ELSE IF req[p].user = u /\ x \notin EventRole
                      THEN [req[p] EXCEPT !.from = Missed(@)]
                    ELSE req[p]]
  BY CommitGives
<1>2. u \in User
  BY CommitGives
<1>3. \A w \in User : role'[w] = IF w = u THEN x ELSE role[w]
  BY <1>1, <1>2 DEF TeamIInv, TeamTypes
<1>4. role' \in [User -> EventRole \cup {"", "deleted"}]
  BY <1>1, <1>2 DEF TeamIInv, TeamTypes
<1>5. ASSUME NEW p \in Request
      PROVE  /\ req'[p] \in Decision \cup {NoReq}
             /\ req'[p].op \in {"look", "set", "organise"} => req'[p].to \in EventRole
             /\ req'[p].from \in EventRole => role'[req'[p].user] \in EventRole
  <2>1. CASE req'[p] = NoReq
    BY <2>1, NoReqIsFine DEF EventRole
  <2>2. CASE req'[p] = req[p] /\ p # q /\ req[p].user # u
    <3>1. req[p].from \in EventRole => req[p].user \in User
      BY NoReqIsFine DEF TeamIInv, TeamTypes, Decision, EventRole
    <3> QED BY <1>3, <2>2, <3>1 DEF TeamIInv, TeamTypes, RowSeen
  <2>3. CASE req'[p] = req[p] /\ x \in EventRole
    <3>1. req[p].from \in EventRole => req[p].user \in User
      BY NoReqIsFine DEF TeamIInv, TeamTypes, Decision, EventRole
    <3> QED BY <1>3, <2>3, <3>1 DEF TeamIInv, TeamTypes, RowSeen
  <2>4. CASE req[p].user = u /\ x \notin EventRole /\ req'[p] = [req[p] EXCEPT !.from = Missed(@)]
    <3>1. CASE req[p] = NoReq
      <4>1. [NoReq EXCEPT !.from = Missed(@)] = NoReq
        BY DEF Missed, NoReq
      <4> QED BY <2>1, <2>4, <3>1, <4>1, NoReqIsFine DEF EventRole
    <3>2. CASE req[p] \in Decision
      BY <2>4, <3>2 DEF Missed, Decision, EventRole, TeamIInv, TeamTypes
    <3> QED BY <3>1, <3>2 DEF TeamIInv, TeamTypes
  <2>5. \/ req'[p] = NoReq
        \/ req'[p] = req[p] /\ p # q /\ req[p].user # u
        \/ req'[p] = req[p] /\ x \in EventRole
        \/ req[p].user = u /\ x \notin EventRole /\ req'[p] = [req[p] EXCEPT !.from = Missed(@)]
    BY <1>1
  <2> QED BY <2>1, <2>2, <2>3, <2>4, <2>5
<1>6. req' = [p \in Request |-> req'[p]]
  BY <1>1
<1>7. req' \in [Request -> Decision \cup {NoReq}]
  BY <1>5, <1>6
<1> QED BY <1>4, <1>5, <1>7 DEF TeamIInv, TeamTypes, RowSeen

LEMMA TeamStep == TeamIInv /\ [TeamNext]_teamVars => TeamIInv'
<1> SUFFICES ASSUME TeamIInv, [TeamNext]_teamVars PROVE TeamIInv'
  OBVIOUS
<1>1. ASSUME NEW q \in Request, NEW u \in User, NEW to \in EventRole,
             AddMember(q, u, to) \/ SetupInvite(q, u, to)
      PROVE  TeamIInv'
  <2>1. \E op \in TeamOp : Reads(q, op, u, to)
    BY <1>1 DEF AddMember, SetupInvite, TeamOp
  <2> QED BY <2>1, ReadsKeepsTypes
<1>2. ASSUME NEW q \in Request, NEW u \in User, NEW to \in EventRole \cup {""},
             AddEventMember(q, u, to)
      PROVE  TeamIInv'
  <2>1. CASE to = ""
    BY <1>2, <2>1, ReadsKeepsTypes DEF AddEventMember, TeamOp
  <2>2. CASE to \in EventRole
    <3>1. Reads(q, "set", u, to)
      BY <1>2, <2>2 DEF AddEventMember, EventRole
    <3> QED BY <2>2, <3>1, ReadsKeepsTypes DEF TeamOp
  <2> QED BY <2>1, <2>2
<1>3. ASSUME NEW q \in Request, NEW u \in User,
             RemoveAssignment(q, u) \/ ApiOrganiser(q, u) \/ DeleteAccount(q, u)
      PROVE  TeamIInv'
  <2>1. \/ \E op \in {"count", "remove", "delete"} : Reads(q, op, u, "")
        \/ Reads(q, "organise", u, "event_owner")
    BY <1>3 DEF RemoveAssignment, ApiOrganiser, DeleteAccount
  <2> QED BY <2>1, ReadsKeepsTypes DEF TeamOp, EventRole
<1>4. ASSUME NEW q \in Request, RollbackRole(q) PROVE TeamIInv'
  <2>1. req' = [req EXCEPT ![q] = NoReq] /\ UNCHANGED role
    BY <1>4 DEF RollbackRole
  <2>2. NoReq.from \notin EventRole
    BY NoReqIsFine DEF EventRole
  <2> QED BY <2>1, <2>2, NoReqIsFine, TeamReadKeeps
<1>5. CASE UNCHANGED teamVars
  BY <1>5 DEF teamVars, TeamIInv, TeamTypes, RowSeen
<1> QED BY <1>1, <1>2, <1>3, <1>4, <1>5, CountKeeps, LookAgainKeeps, CommitKeepsTeam DEF TeamNext

(* A step that gives somebody a role.                                      *)
GivenBySeen ==
  \A u \in User : Row(u) = "" /\ role'[u] \in EventRole =>
    /\ role[u] = ""
    /\ \E q \in Request : /\ req[q].user = u /\ req[q].from = ""
                          /\ req[q].op \in {"set", "organise"}

LEMMA CommitGivesBySeen ==
  ASSUME TeamIInv, NEW q \in Request, CommitRole(q)
  PROVE  GivenBySeen
<1> SUFFICES ASSUME NEW w \in User, Row(w) = "", role'[w] \in EventRole
             PROVE  /\ role[w] = ""
                    /\ \E p \in Request : /\ req[p].user = w /\ req[p].from = ""
                                          /\ req[p].op \in {"set", "organise"}
  BY DEF GivenBySeen
<1> DEFINE d == req[q]  u == req[q].user
<1>1. role[w] \notin EventRole
  BY DEF Row, EventRole
<1>2. u \in User /\ \E x \in EventRole \cup {"", "deleted"} :
        /\ role' = [role EXCEPT ![u] = x]
        /\ x \in EventRole /\ role[u] \notin EventRole =>
             role[u] = "" /\ d.from = "" /\ d.op \in {"set", "organise"}
  BY CommitGives
<1>3. w = u
  BY <1>1, <1>2 DEF TeamIInv, TeamTypes
<1>4. role[w] = "" /\ d.from = "" /\ d.op \in {"set", "organise"}
  BY <1>1, <1>2, <1>3 DEF TeamIInv, TeamTypes
<1> QED BY <1>3, <1>4

(* Whoever is without a role gets one only from a request whose last look  *)
(* found them without, with any requests and people: the deletion of a row *)
(* reaches every request that had read it, so an UPDATE under way fails.   *)
THEOREM TeamGivesToRoleless == TeamSpec => GivenToRoleless
<1>1. TeamInit => TeamIInv
  <2> SUFFICES ASSUME TeamInit PROVE TeamIInv
    OBVIOUS
  <2>1. TeamTypes
    BY NoReqIsFine DEF TeamInit, TeamTypes, EventRole
  <2>2. RowSeen
    BY NoReqIsFine DEF TeamInit, RowSeen, EventRole
  <2> QED BY <2>1, <2>2 DEF TeamIInv
<1>2. TeamIInv /\ [TeamNext]_teamVars => TeamIInv'
  BY TeamStep
<1>3. TeamIInv /\ [TeamNext]_teamVars => [GivenBySeen]_teamVars
  <2> SUFFICES ASSUME TeamIInv, TeamNext PROVE GivenBySeen
    OBVIOUS
  <2>1. CASE \E q \in Request : CommitRole(q)
    BY <2>1, CommitGivesBySeen
  <2>2. CASE UNCHANGED role
    BY <2>2 DEF GivenBySeen, Row, EventRole
  <2> QED
    BY <2>1, <2>2 DEF TeamNext, AddMember, SetupInvite, AddEventMember, RemoveAssignment,
       ApiOrganiser, DeleteAccount, EnsureAnotherOwner, LookAgain, Reads, RollbackRole
<1>4. [][GivenBySeen]_teamVars => GivenToRoleless
  BY PTL DEF GivenBySeen, GivenToRoleless
<1> QED BY <1>1, <1>2, <1>3, <1>4, PTL DEF TeamSpec

-----------------------------------------------------------------------------
(* The limiters.  Stamps are numbered in the order of their times.         *)
StampRow == [at : Nat, nth : Nat]

StampsOK(S) ==
  /\ IsFiniteSet(S) /\ S \subseteq StampRow
  /\ \A s \in S : s.at <= now /\ s.nth <= Cardinality(S)
  /\ \A s, t \in S : s.nth <= t.nth => s.at <= t.at

(* The store keeps every stamp that still counts: a sweep drops a key, and *)
(* a request old stamps, only when they have slid out of the window.       *)
KeyOK(c) ==
  /\ StampsOK(allowed[c])
  /\ rates[c] \subseteq allowed[c]
  /\ Recent(allowed[c], Window[c]) \subseteq rates[c]
  /\ Cardinality(Recent(allowed[c], Window[c])) <= Allowance
  /\ \A n \in denied[c] : n <= now
  /\ now \in denied[c] => Cardinality(Recent(allowed[c], Window[c])) = Allowance

RatesOK ==
  /\ rates \in [Key -> SUBSET StampRow] /\ allowed \in [Key -> SUBSET StampRow]
  /\ denied \in [Key -> SUBSET Nat]
  /\ \A c \in Key : KeyOK(c)

(* The table of failed codes, in the order its windows started.            *)
AttemptRow == [client : Guesser, start : Nat, count : Nat]

TableOK(table) ==
  /\ table \in Seq(AttemptRow)
  /\ \A i \in DOMAIN table : table[i].start <= now
  /\ \A i, j \in DOMAIN table : i <= j => table[i].start <= table[j].start
  /\ \A i, j \in DOMAIN table : table[i].client = table[j].client => i = j

Failed(fails, a) == {f \in fails[a.client] : f.at >= a.start}

(* What the table counts, and that it counts whatever failed just now.     *)
CountsOK(table, fails) ==
  /\ \A i \in DOMAIN table : /\ table[i].count <= MaxGuesses
                             /\ table[i].count = Cardinality(Failed(fails, table[i]))
  /\ \A g \in Guesser : \A f \in fails[g] : f.at = now =>
       \E i \in DOMAIN table : table[i].client = g /\ now - table[i].start < GuessWindow

FailuresOK(fails) == fails \in [Guesser -> SUBSET StampRow] /\ \A g \in Guesser : StampsOK(fails[g])

GuessesOK == TableOK(attempts) /\ FailuresOK(failures) /\ CountsOK(attempts, failures)

LimitsIInv == now \in Nat /\ RatesOK /\ GuessesOK

LEMMA NewStamp ==
  ASSUME now \in Nat, NEW S, StampsOK(S)
  PROVE  /\ Stamp(S) \notin S /\ Stamp(S) \in StampRow /\ Stamp(S).at = now
         /\ StampsOK(S \cup {Stamp(S)})
<1> DEFINE new == Stamp(S)  T == S \cup {new}
<1>1. Cardinality(S) \in Nat /\ IsFiniteSet(S)
  BY FS_CardinalityType DEF StampsOK
<1>2. new \in StampRow /\ new.at = now /\ new.nth = Cardinality(S) + 1
  BY <1>1 DEF Stamp, StampRow
<1>3. new \notin S
  BY <1>1, <1>2 DEF StampsOK
<1>4. IsFiniteSet(T) /\ Cardinality(T) = Cardinality(S) + 1
  BY <1>1, <1>3, FS_AddElement
<1> HIDE DEF new
<1>5. \A s \in T : s.at <= now /\ s.nth <= Cardinality(T)
  BY <1>1, <1>2, <1>4 DEF StampsOK, StampRow
<1>6. \A s, t \in T : s.nth <= t.nth => s.at <= t.at
  BY <1>1, <1>2 DEF StampsOK, StampRow
<1>7. StampsOK(T)
  BY <1>2, <1>4, <1>5, <1>6 DEF StampsOK
<1> QED BY <1>2, <1>3, <1>7 DEF new

(* The latest of some stamps is one of them and the highest.               *)
LEMMA LatestIsLast ==
  ASSUME NEW S, StampsOK(S), NEW R, R \subseteq S, R # {}
  PROVE  Latest(R) \in R /\ \A s \in R : s.at <= Latest(R).at
<1> DEFINE C == Cardinality(S)  left == {C - s.nth : s \in R}
<1>1. C \in Nat /\ \A s \in R : s \in S /\ s.nth \in Nat /\ s.nth <= C
  BY FS_CardinalityType DEF StampsOK, StampRow
<1> HIDE DEF C
<1>2. left \subseteq Nat /\ left # {}
  BY <1>1
<1>3. PICK n \in left : \A m \in left : n <= m
  BY <1>2, Least
<1>5. PICK x \in R : n = C - x.nth
  BY <1>3
<1>6. ASSUME NEW s \in R PROVE s.nth <= x.nth
  <2>1. C - s.nth \in left
    OBVIOUS
  <2>2. s.nth \in Nat /\ x.nth \in Nat /\ C \in Nat /\ C - x.nth <= C - s.nth
    BY <1>1, <1>3, <1>5, <2>1
  <2> HIDE DEF left
  <2> QED BY <2>2
<1>7. Latest(R) \in R /\ \A s \in R : s.nth <= Latest(R).nth
  BY <1>5, <1>6 DEF Latest
<1> QED BY <1>1, <1>7 DEF StampsOK

-----------------------------------------------------------------------------
(* A window that slides or is swept.                                       *)
LEMMA RecentOf ==
  ASSUME NEW S, StampsOK(S), NEW span
  PROVE  /\ IsFiniteSet(Recent(S, span)) /\ Cardinality(Recent(S, span)) \in Nat
         /\ \A T \in SUBSET Recent(S, span) : IsFiniteSet(T) /\ Cardinality(T) \in Nat
                                              /\ Cardinality(T) <= Cardinality(Recent(S, span))
<1>1. IsFiniteSet(Recent(S, span))
  BY FS_Subset DEF StampsOK, Recent
<1> HIDE DEF Recent
<1>2. ASSUME NEW T \in SUBSET Recent(S, span)
      PROVE  IsFiniteSet(T) /\ Cardinality(T) <= Cardinality(Recent(S, span))
  BY <1>1, <1>2, FS_Subset
<1> QED BY <1>1, <1>2, FS_CardinalityType

LEMMA TickKeepsStamps ==
  ASSUME now \in Nat, now' = now + 1, NEW S, StampsOK(S)
  PROVE  /\ IsFiniteSet(S) /\ S \subseteq StampRow
         /\ \A s \in S : s.at <= now' /\ s.nth <= Cardinality(S)
         /\ \A s, t \in S : s.nth <= t.nth => s.at <= t.at
         /\ \A s \in S : s.at # now'
  BY DEF StampsOK, StampRow

LEMMA TickKeepsLimits == ASSUME LimitsIInv, Tick PROVE LimitsIInv'
<1>1. /\ now \in Nat /\ now' = now + 1 /\ now' \in Nat
      /\ UNCHANGED <<rates, lastSweep, allowed, denied, attempts, failures>>
  BY DEF Tick, LimitsIInv
<1>2. ASSUME NEW c \in Key PROVE KeyOK(c)'
  <2> DEFINE S == allowed[c]  W == Window[c]
             late == {s \in S : s.at > now' - W}
  <2>1. KeyOK(c) /\ S \subseteq StampRow /\ W \in Nat /\ denied[c] \subseteq Nat
    BY LimitsAssumption DEF LimitsIInv, RatesOK
  <2>2. late \subseteq Recent(S, W)
    BY <1>1, <2>1 DEF Recent, StampRow
  <2>3. Cardinality(late) <= Cardinality(Recent(S, W)) /\ Cardinality(late) \in Nat
        /\ Cardinality(Recent(S, W)) \in Nat
    BY <2>1, <2>2, RecentOf DEF KeyOK
  <2>4. Cardinality(late) <= Allowance
    BY <2>1, <2>3, LimitsAssumption DEF KeyOK
  <2>5. StampsOK(S)'
    BY <1>1, <2>1, TickKeepsStamps DEF KeyOK, StampsOK
  <2>6. \A n \in denied[c] : n <= now' /\ n # now'
    BY <1>1, <2>1 DEF KeyOK
  <2>7. late = Recent(allowed[c], Window[c])'
    BY <1>1 DEF Recent
  <2> HIDE DEF late
  <2> QED BY <1>1, <2>1, <2>2, <2>4, <2>5, <2>6, <2>7 DEF KeyOK
<1>3. RatesOK'
  BY <1>1, <1>2 DEF LimitsIInv, RatesOK
<1>4. FailuresOK(failures)'
  BY <1>1, TickKeepsStamps DEF LimitsIInv, GuessesOK, FailuresOK, StampsOK
<1>5. TableOK(attempts)'
  <2>1. TableOK(attempts) /\ attempts \in Seq(AttemptRow)
    BY DEF LimitsIInv, GuessesOK, TableOK
  <2>2. \A i \in DOMAIN attempts : attempts[i] \in AttemptRow
    BY <2>1
  <2>3. \A i \in DOMAIN attempts : attempts[i].start \in Nat
    BY <2>2 DEF AttemptRow
  <2> QED BY <1>1, <2>1, <2>3 DEF TableOK
<1>6. CountsOK(attempts, failures)'
  <2>1. \A g \in Guesser : \A f \in failures[g] : f.at # now'
    BY <1>1, TickKeepsStamps DEF LimitsIInv, GuessesOK, FailuresOK
  <2> QED BY <1>1, <2>1 DEF LimitsIInv, GuessesOK, CountsOK, Failed
<1> QED BY <1>1, <1>3, <1>4, <1>5, <1>6 DEF LimitsIInv, GuessesOK

(* A sweep and the filter take only what no longer counts.                 *)
LEMMA SweepKeepsRecent ==
  ASSUME now \in Nat, RatesOK, NEW c \in Key, NEW swept, swept \in {rates, EvictExpired(rates)}
  PROVE  /\ swept[c] \subseteq rates[c]
         /\ Recent(allowed[c], Window[c]) \subseteq swept[c]
<1> DEFINE R == rates[c]  S == allowed[c]  W == Window[c]
<1>1. KeyOK(c) /\ StampsOK(S) /\ R \subseteq S /\ Recent(S, W) \subseteq R /\ W \in Nat /\ S \subseteq StampRow
  BY LimitsAssumption DEF RatesOK, KeyOK
<1>2. CASE R # {} /\ Elapsed(R, W)
  <2>1. \A s \in R : s.at <= Latest(R).at /\ Latest(R) \in StampRow
    BY <1>1, <1>2, LatestIsLast
  <2>2. \A s \in R : ~(s.at > now - W)
    BY <1>1, <1>2, <2>1 DEF Elapsed, StampRow
  <2>3. Recent(S, W) = {}
    BY <1>1, <2>2 DEF Recent
  <2> QED BY <1>1, <2>3 DEF EvictExpired
<1>3. CASE ~(R # {} /\ Elapsed(R, W))
  <2>1. swept[c] = R
    BY <1>3 DEF EvictExpired
  <2> QED BY <1>1, <2>1
<1> QED BY <1>2, <1>3

LEMMA RequestKeepsKey ==
  ASSUME LimitsIInv, NEW c \in Key, CheckRateLimit(c)
  PROVE  /\ now' = now /\ UNCHANGED <<attempts, failures>>
         /\ RatesOK'
<1> DEFINE sweeps == now - lastSweep >= SweepInterval
           swept == IF sweeps THEN EvictExpired(rates) ELSE rates
           stamps == {s \in swept[c] : s.at > now - Window[c]}
           new == Stamp(allowed[c])
<1>1. /\ now' = now /\ UNCHANGED <<attempts, failures>>
      /\ IF Cardinality(stamps) >= Allowance
         THEN /\ rates' = [swept EXCEPT ![c] = stamps]
              /\ denied' = [denied EXCEPT ![c] = {now}] /\ UNCHANGED allowed
         ELSE /\ rates' = [swept EXCEPT ![c] = stamps \cup {new}]
              /\ allowed' = [allowed EXCEPT ![c] = allowed[c] \cup {new}] /\ UNCHANGED denied
  BY DEF CheckRateLimit, Refused
<1>2. now \in Nat /\ RatesOK /\ Allowance \in Nat
  BY LimitsAssumption DEF LimitsIInv
<1>3. swept \in {rates, EvictExpired(rates)}
  OBVIOUS
<1>4. swept \in [Key -> SUBSET StampRow]
  BY <1>2, <1>3 DEF RatesOK, EvictExpired
<1>5. \A k \in Key : swept[k] \subseteq rates[k] /\ Recent(allowed[k], Window[k]) \subseteq swept[k]
  BY <1>2, <1>3, SweepKeepsRecent
<1> HIDE DEF swept
<1>6. \A k \in Key : KeyOK(k) /\ allowed[k] \subseteq StampRow /\ denied[k] \subseteq Nat /\ Window[k] \in Nat
  BY <1>2, LimitsAssumption DEF RatesOK
<1>7. stamps = Recent(allowed[c], Window[c])
  BY <1>5, <1>6 DEF Recent, KeyOK
<1> HIDE DEF stamps
<1>8. IsFiniteSet(stamps) /\ Cardinality(stamps) \in Nat /\ Cardinality(stamps) <= Allowance
  BY <1>6, <1>7, RecentOf DEF KeyOK
<1>9. /\ new \notin allowed[c] /\ new \in StampRow /\ new.at = now /\ StampsOK(allowed[c] \cup {new})
  BY <1>2, <1>6, NewStamp DEF KeyOK
<1> HIDE DEF new
<1>10. CASE Cardinality(stamps) >= Allowance
  <2>1. /\ rates' = [swept EXCEPT ![c] = stamps]
        /\ denied' = [denied EXCEPT ![c] = {now}] /\ allowed' = allowed
    BY <1>1, <1>10
  <2>2. stamps \subseteq allowed[c] /\ Cardinality(stamps) = Allowance
    BY <1>2, <1>7, <1>8, <1>10 DEF Recent
  <2>3. ASSUME NEW k \in Key PROVE KeyOK(k)'
    <3>1. StampsOK(allowed[k])' /\ Recent(allowed[k], Window[k])' = Recent(allowed[k], Window[k])
      BY <1>1, <1>6, <2>1 DEF KeyOK, StampsOK, Recent
    <3>2. CASE k = c
      <4>1. rates'[k] = stamps /\ denied'[k] = {now}
        BY <1>2, <1>4, <2>1, <3>2 DEF RatesOK
      <4> QED BY <1>1, <1>2, <1>7, <2>1, <2>2, <3>1, <3>2, <4>1 DEF KeyOK
    <3>3. CASE k # c
      <4>1. rates'[k] = swept[k] /\ denied'[k] = denied[k]
        BY <1>2, <1>4, <2>1, <3>3 DEF RatesOK
      <4> QED BY <1>1, <1>5, <1>6, <2>1, <3>1, <4>1 DEF KeyOK
    <3> QED BY <3>2, <3>3
  <2>4. stamps \in SUBSET StampRow
    BY <1>6, <2>2
  <2> QED BY <1>1, <1>2, <1>4, <2>1, <2>3, <2>4 DEF RatesOK
<1>11. CASE ~(Cardinality(stamps) >= Allowance)
  <2>1. /\ rates' = [swept EXCEPT ![c] = stamps \cup {new}]
        /\ allowed' = [allowed EXCEPT ![c] = allowed[c] \cup {new}] /\ denied' = denied
    BY <1>1, <1>11
  <2>2. stamps \subseteq allowed[c] /\ Cardinality(stamps) < Allowance
    BY <1>2, <1>7, <1>8, <1>11 DEF Recent
  <2>3. Cardinality(stamps \cup {new}) = Cardinality(stamps) + 1
    BY <1>8, <1>9, <2>2, FS_AddElement
  <2>4. Recent(allowed[c] \cup {new}, Window[c]) \subseteq stamps \cup {new}
    BY <1>7 DEF Recent
  <2>5. /\ IsFiniteSet(stamps \cup {new})
        /\ Cardinality(Recent(allowed[c] \cup {new}, Window[c])) <= Cardinality(stamps \cup {new})
        /\ Cardinality(Recent(allowed[c] \cup {new}, Window[c])) \in Nat
    <3>1. IsFiniteSet(stamps \cup {new})
      BY <1>8, FS_AddElement
    <3>2. Recent(allowed[c] \cup {new}, Window[c]) \in SUBSET (stamps \cup {new})
      BY <2>4
    <3>3. /\ IsFiniteSet(Recent(allowed[c] \cup {new}, Window[c]))
          /\ Cardinality(Recent(allowed[c] \cup {new}, Window[c])) <= Cardinality(stamps \cup {new})
      BY <3>1, <3>2, FS_Subset
    <3> QED BY <3>1, <3>3, FS_CardinalityType
  <2>6. Cardinality(Recent(allowed[c] \cup {new}, Window[c])) <= Allowance
    BY <1>2, <1>8, <2>2, <2>3, <2>5
  <2>7. now \notin denied[c]
    BY <1>2, <1>6, <1>7, <2>2, <1>8 DEF KeyOK
  <2>8. ASSUME NEW k \in Key PROVE KeyOK(k)'
    <3>1. CASE k = c
      <4>1. rates'[k] = stamps \cup {new} /\ allowed'[k] = allowed[k] \cup {new}
        BY <1>2, <1>4, <2>1, <3>1 DEF RatesOK
      <4>2. StampsOK(allowed[k])'
        BY <1>1, <1>9, <3>1, <4>1 DEF StampsOK
      <4>3. Recent(allowed[k], Window[k])' = Recent(allowed[c] \cup {new}, Window[c])
        BY <1>1, <3>1, <4>1 DEF Recent
      <4> QED BY <1>1, <1>6, <2>1, <2>2, <2>4, <2>6, <2>7, <3>1, <4>1, <4>2, <4>3 DEF KeyOK
    <3>2. CASE k # c
      <4>1. rates'[k] = swept[k] /\ allowed'[k] = allowed[k]
        BY <1>2, <1>4, <2>1, <3>2 DEF RatesOK
      <4>2. StampsOK(allowed[k])' /\ Recent(allowed[k], Window[k])' = Recent(allowed[k], Window[k])
        BY <1>1, <1>6, <4>1 DEF KeyOK, StampsOK, Recent
      <4> QED BY <1>1, <1>5, <1>6, <2>1, <4>1, <4>2 DEF KeyOK
    <3> QED BY <3>1, <3>2
  <2>9. stamps \cup {new} \in SUBSET StampRow /\ allowed[c] \cup {new} \in SUBSET StampRow
    BY <1>6, <1>9, <2>2
  <2> QED BY <1>1, <1>2, <1>4, <2>1, <2>8, <2>9 DEF RatesOK
<1> QED BY <1>1, <1>10, <1>11

-----------------------------------------------------------------------------
(* The table of failed codes.  Purging, and giving a window up, take from  *)
(* its front; the expired are exactly what purging takes.                  *)
LEMMA TableRows ==
  ASSUME NEW table, TableOK(table)
  PROVE  /\ table \in Seq(AttemptRow) /\ Len(table) \in Nat /\ DOMAIN table = 1 .. Len(table)
         /\ \A i \in DOMAIN table : /\ table[i] \in AttemptRow /\ table[i].client \in Guesser
                                    /\ table[i].start \in Nat /\ table[i].count \in Nat
                                    /\ table[i].start <= now
<1>1. table \in Seq(AttemptRow) /\ \A i \in DOMAIN table : table[i].start <= now
  BY DEF TableOK
<1>2. Len(table) \in Nat /\ DOMAIN table = 1 .. Len(table) /\ \A i \in DOMAIN table : table[i] \in AttemptRow
  BY <1>1
<1> QED BY <1>1, <1>2 DEF AttemptRow

(* rest is what a table becomes when its first d windows go.               *)
Behind(rest, table, d) ==
  /\ d \in 0 .. Len(table) /\ rest \in Seq(AttemptRow) /\ Len(rest) = Len(table) - d
  /\ \A i \in 1 .. Len(rest) : rest[i] = table[i + d]

LEMMA PurgedIsBehind ==
  ASSUME now \in Nat, TableOK(attempts)
  PROVE  \E d \in 0 .. Len(attempts) :
           /\ Behind(Purged, attempts, d)
           /\ \A i \in DOMAIN attempts : i <= d <=> ~(now - attempts[i].start < GuessWindow)
<1> DEFINE n == Len(attempts)
           fresh == {i \in DOMAIN attempts : now - attempts[i].start < GuessWindow}
<1>1. /\ attempts \in Seq(AttemptRow) /\ n \in Nat /\ DOMAIN attempts = 1 .. n
      /\ \A i \in DOMAIN attempts : attempts[i] \in AttemptRow /\ attempts[i].start \in Nat
  BY TableRows
<1>2. CASE fresh = {}
  <2>1. Purged = <<>>
    BY <1>2 DEF Purged
  <2>2. Behind(<<>>, attempts, n)
    BY <1>1 DEF Behind
  <2>3. \A i \in DOMAIN attempts : i <= n /\ ~(now - attempts[i].start < GuessWindow)
    BY <1>1, <1>2
  <2> QED BY <1>1, <2>1, <2>2, <2>3
<1>3. CASE fresh # {}
  <2> DEFINE m == Min(fresh)
  <2>1. fresh \subseteq Nat
    BY <1>1
  <2>2. PICK k \in fresh : \A j \in fresh : k <= j
    BY <1>3, <2>1, Least
  <2>3. m \in fresh /\ \A j \in fresh : m <= j
    BY <2>2 DEF Min
  <2>4. Purged = SubSeq(attempts, m, n)
    BY <1>3 DEF Purged
  <2> HIDE DEF m
  <2>5. m \in 1 .. n /\ now - attempts[m].start < GuessWindow
    BY <1>1, <2>3
  <2>6. ASSUME NEW i \in DOMAIN attempts PROVE i <= m - 1 <=> ~(now - attempts[i].start < GuessWindow)
    <3>1. CASE i < m
      BY <1>1, <2>3, <2>5, <3>1
    <3>2. CASE m <= i
      <4>1. attempts[m].start <= attempts[i].start
        BY <1>1, <2>5, <3>2 DEF TableOK
      <4> QED BY <1>1, <2>5, <3>2, <4>1, LimitsAssumption
    <3> QED BY <1>1, <2>5, <3>1, <3>2
  <2>7. Behind(Purged, attempts, m - 1)
    <3>1. \A i \in m .. n : attempts[i] \in AttemptRow
      BY <1>1, <2>5
    <3>2. /\ Purged \in Seq(AttemptRow) /\ Len(Purged) = n - m + 1
          /\ \A i \in 1 .. n - m + 1 : Purged[i] = attempts[m + i - 1]
      BY <1>1, <2>4, <2>5, <3>1, SubSeqProperties
    <3>3. m - 1 \in 0 .. n /\ Len(Purged) = n - (m - 1)
      BY <1>1, <2>5, <3>2
    <3>4. \A i \in 1 .. Len(Purged) : Purged[i] = attempts[i + (m - 1)]
      <4> SUFFICES ASSUME NEW i \in 1 .. Len(Purged) PROVE Purged[i] = attempts[i + (m - 1)]
        OBVIOUS
      <4>1. i \in 1 .. n - m + 1 /\ i \in Nat /\ m \in Nat
        BY <1>1, <2>5, <3>2
      <4>2. m + i - 1 = i + (m - 1)
        BY <4>1
      <4> QED BY <3>2, <4>1, <4>2
    <3> QED BY <3>2, <3>3, <3>4 DEF Behind
  <2>8. m - 1 \in 0 .. n
    BY <1>1, <2>5
  <2> QED BY <2>6, <2>7, <2>8
<1> QED BY <1>2, <1>3

(* What is behind keeps its order and its counts.                          *)
LEMMA BehindKeeps ==
  ASSUME now \in Nat, NEW table, TableOK(table), NEW rest, NEW d, Behind(rest, table, d)
  PROVE  /\ TableOK(rest)
         /\ \A i \in DOMAIN rest : i + d \in DOMAIN table /\ rest[i] = table[i + d]
         /\ \A i \in DOMAIN table : i > d => i - d \in DOMAIN rest /\ rest[i - d] = table[i]
<1>1. Len(table) \in Nat /\ DOMAIN table = 1 .. Len(table)
  BY TableRows
<1>2. DOMAIN rest = 1 .. Len(rest) /\ Len(rest) = Len(table) - d /\ d \in 0 .. Len(table) /\ rest \in Seq(AttemptRow)
  BY DEF Behind
<1>3. \A i \in DOMAIN rest : i + d \in DOMAIN table /\ rest[i] = table[i + d]
  BY <1>1, <1>2 DEF Behind
<1>4. \A i \in DOMAIN table : i > d => i - d \in DOMAIN rest /\ rest[i - d] = table[i]
  <2> SUFFICES ASSUME NEW i \in DOMAIN table, i > d PROVE i - d \in DOMAIN rest /\ rest[i - d] = table[i]
    OBVIOUS
  <2>1. i - d \in DOMAIN rest /\ (i - d) + d = i
    BY <1>1, <1>2
  <2> QED BY <1>3, <2>1
<1>5. TableOK(rest)
  <2>1. \A i \in DOMAIN rest : rest[i].start <= now
    BY <1>3 DEF TableOK
  <2>2. ASSUME NEW i \in DOMAIN rest, NEW j \in DOMAIN rest PROVE
          /\ i <= j => rest[i].start <= rest[j].start
          /\ rest[i].client = rest[j].client => i = j
    <3>1. /\ i + d \in DOMAIN table /\ rest[i] = table[i + d] /\ j + d \in DOMAIN table /\ rest[j] = table[j + d]
          /\ i \in Nat /\ j \in Nat /\ d \in Nat
      BY <1>1, <1>2, <1>3
    <3>2. rest[i].client = rest[j].client => i + d = j + d
      BY <3>1 DEF TableOK
    <3>3. i <= j => rest[i].start <= rest[j].start
      BY <3>1 DEF TableOK
    <3> QED BY <3>1, <3>2, <3>3
  <2> QED BY <1>2, <2>1, <2>2 DEF TableOK
<1> QED BY <1>3, <1>4, <1>5

(* Purging leaves the live windows, and what they count.                   *)
LEMMA PurgedKeeps ==
  ASSUME now \in Nat, GuessesOK
  PROVE  /\ TableOK(Purged) /\ CountsOK(Purged, failures)
         /\ \A i \in DOMAIN Purged : now - Purged[i].start < GuessWindow
<1>0. TableOK(attempts) /\ CountsOK(attempts, failures)
  BY DEF GuessesOK
<1>1. PICK d \in 0 .. Len(attempts) :
        /\ Behind(Purged, attempts, d)
        /\ \A i \in DOMAIN attempts : i <= d <=> ~(now - attempts[i].start < GuessWindow)
  BY <1>0, PurgedIsBehind
<1>2. /\ TableOK(Purged)
      /\ \A i \in DOMAIN Purged : i + d \in DOMAIN attempts /\ Purged[i] = attempts[i + d]
      /\ \A i \in DOMAIN attempts : i > d => i - d \in DOMAIN Purged /\ Purged[i - d] = attempts[i]
  BY <1>0, <1>1, BehindKeeps
<1>3. /\ \A i \in DOMAIN Purged : i \in Nat /\ i >= 1
      /\ \A i \in DOMAIN attempts : i \in Nat
      /\ d \in Nat
  BY <1>0, <1>1, <1>2, TableRows
<1>4. ASSUME NEW i \in DOMAIN Purged PROVE now - Purged[i].start < GuessWindow
  <2>1. i + d \in DOMAIN attempts /\ ~(i + d <= d) /\ Purged[i] = attempts[i + d]
    BY <1>2, <1>3
  <2> QED BY <1>1, <2>1
<1>5. ASSUME NEW g \in Guesser, NEW f \in failures[g], f.at = now
      PROVE  \E i \in DOMAIN Purged : Purged[i].client = g /\ now - Purged[i].start < GuessWindow
  <2>1. PICK i \in DOMAIN attempts : attempts[i].client = g /\ now - attempts[i].start < GuessWindow
    BY <1>0, <1>5 DEF CountsOK
  <2>2. i > d
    BY <1>1, <1>3, <2>1
  <2> QED BY <1>2, <2>1, <2>2
<1>6. \A i \in DOMAIN Purged : /\ Purged[i].count <= MaxGuesses
                               /\ Purged[i].count = Cardinality(Failed(failures, Purged[i]))
  BY <1>0, <1>2 DEF CountsOK
<1> QED BY <1>2, <1>4, <1>5, <1>6 DEF CountsOK

(* A table of one client less, and what that client failed forgotten.      *)
LEMMA ForgottenKeeps ==
  ASSUME now \in Nat, NEW table, TableOK(table), FailuresOK(failures), CountsOK(table, failures),
         NEW rest, rest \in Seq(AttemptRow), NEW gone \in SUBSET Guesser,
         \/ gone = {} /\ rest = table
         \/ table # <<>> /\ gone = {Head(table).client} /\ rest = Tail(table)
  PROVE  LET fails == [x \in Guesser |-> IF x \in gone THEN {} ELSE failures[x]]
         IN  TableOK(rest) /\ FailuresOK(fails) /\ CountsOK(rest, fails)
             /\ \A i \in DOMAIN rest : rest[i].client \notin gone
<1> DEFINE fails == [x \in Guesser |-> IF x \in gone THEN {} ELSE failures[x]]
<1>0. FailuresOK(fails)
  <2>1. StampsOK({})
    BY FS_EmptySet DEF StampsOK
  <2> QED BY <2>1 DEF FailuresOK
<1>1. CASE gone = {} /\ rest = table
  <2>1. fails = failures
    BY <1>1 DEF FailuresOK
  <2> QED BY <1>0, <1>1, <2>1
<1>2. CASE table # <<>> /\ gone = {Head(table).client} /\ rest = Tail(table)
  <2>0. /\ table \in Seq(AttemptRow) /\ Len(table) \in Nat /\ DOMAIN table = 1 .. Len(table)
        /\ \A i \in DOMAIN table : table[i].client \in Guesser
    BY TableRows
  <2>1. /\ Len(rest) = Len(table) - 1 /\ 1 \in 0 .. Len(table) /\ 1 \in DOMAIN table
        /\ \A i \in 1 .. Len(rest) : rest[i] = table[i + 1]
    <3> DEFINE t == Tail(table)
    <3>1. t \in Seq(AttemptRow) /\ Len(t) = Len(table) - 1 /\ \A i \in 1 .. Len(t) : t[i] = table[i + 1]
      BY <1>2, <2>0, HeadTailProperties
    <3>2. rest = t
      BY <1>2
    <3> HIDE DEF t
    <3>3. Len(t) \in Nat
      BY <3>1
    <3>4. Len(table) >= 1
      BY <2>0, <3>1, <3>3
    <3>5. 1 \in 0 .. Len(table) /\ 1 \in 1 .. Len(table)
      BY <2>0, <3>4
    <3> QED BY <2>0, <3>1, <3>2, <3>5
  <2>2. Behind(rest, table, 1)
    BY <2>1 DEF Behind
  <2>3. /\ TableOK(rest)
        /\ \A i \in DOMAIN rest : i + 1 \in DOMAIN table /\ rest[i] = table[i + 1]
        /\ \A i \in DOMAIN table : i > 1 => i - 1 \in DOMAIN rest /\ rest[i - 1] = table[i]
    BY <2>2, BehindKeeps
  <2>4. DOMAIN rest = 1 .. Len(rest) /\ gone = {table[1].client}
    <3>1. DOMAIN rest = 1 .. Len(rest)
      OBVIOUS
    <3>2. Head(table) = table[1]
      BY <2>0, <2>1
    <3> QED BY <1>2, <3>1, <3>2
  <2>5. \A i \in DOMAIN rest : rest[i].client \notin gone
    <3> SUFFICES ASSUME NEW i \in DOMAIN rest, rest[i].client \in gone PROVE FALSE
      OBVIOUS
    <3>1. i + 1 \in DOMAIN table /\ rest[i] = table[i + 1]
      BY <2>3
    <3>2. table[i + 1].client = table[1].client
      BY <2>4, <3>1
    <3>3. i + 1 = 1
      BY <2>1, <3>1, <3>2 DEF TableOK
    <3> QED BY <2>0, <2>1, <2>4, <3>3
  <2>6. \A i \in DOMAIN rest : Failed(fails, rest[i]) = Failed(failures, rest[i])
    BY <2>0, <2>3, <2>5 DEF Failed
  <2>7. ASSUME NEW g \in Guesser, NEW f \in fails[g], f.at = now
        PROVE  \E i \in DOMAIN rest : rest[i].client = g /\ now - rest[i].start < GuessWindow
    <3>1. f \in failures[g] /\ g \notin gone
      OBVIOUS
    <3>2. PICK i \in DOMAIN table : table[i].client = g /\ now - table[i].start < GuessWindow
      BY <2>7, <3>1 DEF CountsOK
    <3>3. i > 1
      <4>1. i # 1
        BY <2>4, <3>1, <3>2
      <4>2. i \in 1 .. Len(table) /\ Len(table) \in Nat
        BY <2>0
      <4> QED BY <4>1, <4>2
    <3> QED BY <2>3, <3>2, <3>3
  <2>8. CountsOK(rest, fails)
    <3>1. ASSUME NEW i \in DOMAIN rest
          PROVE  rest[i].count <= MaxGuesses /\ rest[i].count = Cardinality(Failed(fails, rest[i]))
      <4>1. i + 1 \in DOMAIN table /\ rest[i] = table[i + 1]
        BY <2>3
      <4>2. table[i + 1].count <= MaxGuesses
            /\ table[i + 1].count = Cardinality(Failed(failures, table[i + 1]))
        BY <4>1 DEF CountsOK
      <4> QED BY <2>6, <4>1, <4>2
    <3> HIDE DEF fails
    <3> QED BY <2>7, <3>1 DEF CountsOK
  <2> QED BY <1>0, <2>3, <2>5, <2>8
<1> QED BY <1>1, <1>2

(* A first failure opens a window of its own, which counts just that.      *)
LEMMA FirstFailureKeeps ==
  ASSUME now \in Nat, NEW rest, TableOK(rest), NEW fails, FailuresOK(fails), CountsOK(rest, fails),
         NEW g \in Guesser, \A i \in DOMAIN rest : rest[i].client # g
  PROVE  LET fails2 == [fails EXCEPT ![g] = fails[g] \cup {Stamp(fails[g])}]
             table == Append(rest, Entry(g, now, 1))
         IN  TableOK(table) /\ FailuresOK(fails2) /\ CountsOK(table, fails2)
<1> DEFINE new == Stamp(fails[g])
           fails2 == [fails EXCEPT ![g] = fails[g] \cup {new}]
           row == Entry(g, now, 1)
           table == Append(rest, row)
           n == Len(rest) + 1
<1>1. /\ fails \in [Guesser -> SUBSET StampRow] /\ \A x \in Guesser : StampsOK(fails[x])
  BY DEF FailuresOK
<1>2. new \notin fails[g] /\ new \in StampRow /\ new.at = now /\ StampsOK(fails[g] \cup {new})
  BY <1>1, NewStamp
<1>3. row \in AttemptRow /\ row.client = g /\ row.start = now /\ row.count = 1
  BY DEF Entry, AttemptRow
<1> HIDE DEF new, row
<1>4. /\ fails2[g] = fails[g] \cup {new} /\ \A x \in Guesser \ {g} : fails2[x] = fails[x]
      /\ fails2 \in [Guesser -> SUBSET StampRow]
  BY <1>1, <1>2
<1> HIDE DEF fails2
<1>5. FailuresOK(fails2)
  <2>1. \A x \in Guesser : StampsOK(fails2[x])
    BY <1>1, <1>2, <1>4
  <2> QED BY <1>4, <2>1 DEF FailuresOK
<1>6. /\ rest \in Seq(AttemptRow) /\ Len(rest) \in Nat /\ DOMAIN rest = 1 .. Len(rest)
      /\ \A i \in DOMAIN rest : /\ rest[i] \in AttemptRow /\ rest[i].client \in Guesser
                                /\ rest[i].start \in Nat /\ rest[i].start <= now
  BY TableRows
<1>7. /\ table \in Seq(AttemptRow) /\ DOMAIN table = (DOMAIN rest) \cup {n} /\ n \notin DOMAIN rest
      /\ table[n] = row /\ \A i \in DOMAIN rest : table[i] = rest[i] /\ i < n
  <2>1. /\ table \in Seq(AttemptRow) /\ Len(table) = n /\ table[n] = row
        /\ \A i \in 1 .. Len(rest) : table[i] = rest[i]
    BY <1>3, <1>6, AppendProperties
  <2> QED BY <1>6, <2>1
<1> HIDE DEF table, n
<1>8. TableOK(table)
  <2>1. \A i \in DOMAIN table : table[i].start <= now
    BY <1>3, <1>6, <1>7
  <2>2. ASSUME NEW i \in DOMAIN table, NEW j \in DOMAIN table, i <= j PROVE table[i].start <= table[j].start
    <3>1. CASE j = n
      BY <1>3, <1>7, <2>1, <3>1
    <3>2. CASE j # n
      <4>1. j \in DOMAIN rest /\ i \in DOMAIN rest
        <5>1. j \in DOMAIN rest /\ j < n
          BY <1>7, <3>2
        <5>2. n \in Nat /\ j \in Nat
          BY <1>6, <5>1 DEF n
        <5>3. i # n
          BY <2>2, <5>1, <5>2
        <5> QED BY <1>7, <5>1, <5>3
      <4> QED BY <1>7, <2>2, <4>1 DEF TableOK
    <3> QED BY <3>1, <3>2
  <2>3. \A i, j \in DOMAIN table : table[i].client = table[j].client => i = j
    BY <1>3, <1>7 DEF TableOK
  <2> QED BY <1>7, <2>1, <2>2, <2>3 DEF TableOK
<1>9. \A i \in DOMAIN rest : Failed(fails2, rest[i]) = Failed(fails, rest[i])
  BY <1>4, <1>6 DEF Failed
<1>10. Cardinality(Failed(fails2, row)) = 1
  <2>1. \A f \in fails[g] : f.at # now
    BY DEF CountsOK
  <2>2. Failed(fails2, row) = {new}
    <3>1. \A f \in fails[g] : f.at \in Nat /\ f.at <= now
      BY <1>1 DEF StampsOK, StampRow
    <3> QED BY <1>2, <1>3, <1>4, <2>1, <3>1 DEF Failed
  <2> QED BY <2>2, FS_Singleton
<1>11. ASSUME NEW x \in Guesser, NEW f \in fails2[x], f.at = now
       PROVE  \E i \in DOMAIN table : table[i].client = x /\ now - table[i].start < GuessWindow
  <2>1. CASE x = g
    BY <1>3, <1>7, <2>1, LimitsAssumption
  <2>2. CASE x # g
    <3>1. PICK i \in DOMAIN rest : rest[i].client = x /\ now - rest[i].start < GuessWindow
      BY <1>4, <1>11, <2>2 DEF CountsOK
    <3> QED BY <1>7, <3>1
  <2> QED BY <2>1, <2>2
<1>12. ASSUME NEW i \in DOMAIN table
       PROVE  table[i].count <= MaxGuesses /\ table[i].count = Cardinality(Failed(fails2, table[i]))
  <2>1. CASE i = n
    BY <1>3, <1>7, <1>10, <2>1, LimitsAssumption
  <2>2. CASE i # n
    <3>1. i \in DOMAIN rest /\ table[i] = rest[i]
      BY <1>7, <2>2
    <3> QED BY <1>9, <3>1 DEF CountsOK
  <2> QED BY <2>1, <2>2
<1>13. CountsOK(table, fails2)
  BY <1>11, <1>12 DEF CountsOK
<1> QED BY <1>5, <1>8, <1>13 DEF table, fails2, new, row

(* A further failure counts in the window that is open.                    *)
LEMMA NextFailureKeeps ==
  ASSUME now \in Nat, NEW rest, TableOK(rest), FailuresOK(failures), CountsOK(rest, failures),
         NEW g \in Guesser, NEW k \in DOMAIN rest, rest[k].client = g, rest[k].count < MaxGuesses,
         now - rest[k].start < GuessWindow
  PROVE  LET fails2 == [failures EXCEPT ![g] = failures[g] \cup {Stamp(failures[g])}]
             table == [i \in DOMAIN rest |->
                         IF rest[i].client = g THEN [rest[i] EXCEPT !.count = @ + 1] ELSE rest[i]]
         IN  TableOK(table) /\ FailuresOK(fails2) /\ CountsOK(table, fails2)
<1> DEFINE new == Stamp(failures[g])
           fails2 == [failures EXCEPT ![g] = failures[g] \cup {new}]
           table == [i \in DOMAIN rest |->
                       IF rest[i].client = g THEN [rest[i] EXCEPT !.count = @ + 1] ELSE rest[i]]
<1>1. failures \in [Guesser -> SUBSET StampRow] /\ \A x \in Guesser : StampsOK(failures[x])
  BY DEF FailuresOK
<1>2. new \notin failures[g] /\ new \in StampRow /\ new.at = now /\ StampsOK(failures[g] \cup {new})
  BY <1>1, NewStamp
<1> HIDE DEF new
<1>3. /\ fails2[g] = failures[g] \cup {new} /\ \A x \in Guesser \ {g} : fails2[x] = failures[x]
      /\ fails2 \in [Guesser -> SUBSET StampRow]
  BY <1>1, <1>2
<1> HIDE DEF fails2
<1>4. FailuresOK(fails2)
  <2>1. \A x \in Guesser : StampsOK(fails2[x])
    BY <1>1, <1>2, <1>3
  <2> QED BY <1>3, <2>1 DEF FailuresOK
<1>5. /\ rest \in Seq(AttemptRow) /\ Len(rest) \in Nat /\ DOMAIN rest = 1 .. Len(rest)
      /\ \A i \in DOMAIN rest : /\ rest[i] \in AttemptRow /\ rest[i].client \in Guesser
                                /\ rest[i].start \in Nat /\ rest[i].count \in Nat /\ rest[i].start <= now
  BY TableRows
<1>6. \A i \in DOMAIN rest : rest[i].client = g <=> i = k
  BY DEF TableOK
<1>7. /\ DOMAIN table = DOMAIN rest
      /\ \A i \in DOMAIN rest : /\ table[i] \in AttemptRow
                                /\ table[i].client = rest[i].client /\ table[i].start = rest[i].start
                                /\ table[i].count = IF i = k THEN rest[i].count + 1 ELSE rest[i].count
  <2> SUFFICES ASSUME NEW i \in DOMAIN rest
               PROVE  /\ table[i] \in AttemptRow
                      /\ table[i].client = rest[i].client /\ table[i].start = rest[i].start
                      /\ table[i].count = IF i = k THEN rest[i].count + 1 ELSE rest[i].count
    OBVIOUS
  <2> DEFINE a == rest[i]
  <2>1. a \in AttemptRow /\ table[i] = IF i = k THEN [a EXCEPT !.count = a.count + 1] ELSE a
    BY <1>5, <1>6
  <2> HIDE DEF a, table
  <2>2. table[i] \in AttemptRow /\ table[i].client = a.client /\ table[i].start = a.start
        /\ table[i].count = IF i = k THEN a.count + 1 ELSE a.count
    BY <2>1 DEF AttemptRow
  <2> QED BY <2>2 DEF a
<1>8. table \in Seq(AttemptRow)
  <2>1. table \in [1 .. Len(rest) -> AttemptRow]
    BY <1>5, <1>7
  <2> HIDE DEF table
  <2> QED BY <1>5, <2>1, SeqDef
<1> HIDE DEF table
<1>9. TableOK(table)
  BY <1>7, <1>8 DEF TableOK
<1>10. \A i \in DOMAIN rest : i # k => Failed(fails2, table[i]) = Failed(failures, rest[i])
  BY <1>3, <1>5, <1>6, <1>7 DEF Failed
<1>11. Cardinality(Failed(fails2, table[k])) = rest[k].count + 1
  <2>1. Failed(fails2, table[k]) = Failed(failures, rest[k]) \cup {new} /\ new \notin Failed(failures, rest[k])
    BY <1>2, <1>3, <1>5, <1>7 DEF Failed
  <2>2. IsFiniteSet(Failed(failures, rest[k]))
    <3>1. Failed(failures, rest[k]) \in SUBSET failures[g] /\ IsFiniteSet(failures[g])
      BY <1>1 DEF Failed, StampsOK
    <3> QED BY <3>1, FS_Subset
  <2>3. Cardinality(Failed(failures, rest[k])) = rest[k].count
    BY DEF CountsOK
  <2> QED BY <2>1, <2>2, <2>3, FS_AddElement
<1>12. ASSUME NEW i \in DOMAIN table
       PROVE  table[i].count <= MaxGuesses /\ table[i].count = Cardinality(Failed(fails2, table[i]))
  <2>1. CASE i = k
    BY <1>5, <1>7, <1>11, <2>1, LimitsAssumption
  <2>2. CASE i # k
    BY <1>7, <1>10, <2>2 DEF CountsOK
  <2> QED BY <2>1, <2>2
<1>13. ASSUME NEW x \in Guesser, NEW f \in fails2[x], f.at = now
       PROVE  \E i \in DOMAIN table : table[i].client = x /\ now - table[i].start < GuessWindow
  <2>1. CASE f \in failures[x]
    <3>1. PICK i \in DOMAIN rest : rest[i].client = x /\ now - rest[i].start < GuessWindow
      BY <1>13, <2>1 DEF CountsOK
    <3> QED BY <1>7, <3>1
  <2>2. CASE f \notin failures[x]
    <3>1. x = g
      BY <1>3, <2>2
    <3> QED BY <1>7, <3>1
  <2> QED BY <2>1, <2>2
<1>14. CountsOK(table, fails2)
  BY <1>12, <1>13 DEF CountsOK
<1> QED BY <1>4, <1>9, <1>14 DEF table, fails2, new

(* Nothing here looks at the clock but as it stands.                       *)
LEMMA CodesNow ==
  ASSUME now' = now, TableOK(attempts'), FailuresOK(failures'), CountsOK(attempts', failures')
  PROVE  GuessesOK'
  BY DEF GuessesOK, TableOK, FailuresOK, CountsOK, StampsOK, Failed

LEMMA GuessKeepsCodes ==
  ASSUME LimitsIInv, NEW g \in Guesser, VerifyJoinCode(g)
  PROVE  /\ UNCHANGED <<now, rates, allowed, denied>>
         /\ GuessesOK'
<1> DEFINE P == Purged
           throttled == \E i \in Tries(P, g) : P[i].count >= MaxGuesses
           gone == IF GivesUp(P, g) THEN {Head(P).client} ELSE {}
           rest == IF GivesUp(P, g) THEN Tail(P) ELSE P
           stamped == failures[g] \cup {Stamp(failures[g])}
           fails == [x \in Guesser |-> IF x \in gone THEN {} ELSE failures[x]]
<1>1. /\ UNCHANGED <<now, rates, allowed, denied>>
      /\ \/ attempts' = P /\ UNCHANGED failures
         \/ ~throttled /\ attempts' = Recorded(P, g)
            /\ failures' = [x \in Guesser |-> IF x \in gone THEN {} ELSE IF x = g THEN stamped ELSE failures[x]]
  BY DEF VerifyJoinCode, AfterRight
<1>2. now \in Nat /\ GuessesOK
  BY DEF LimitsIInv
<1>3. /\ TableOK(P) /\ FailuresOK(failures) /\ CountsOK(P, failures)
      /\ \A i \in DOMAIN P : now - P[i].start < GuessWindow
  BY <1>2, PurgedKeeps DEF GuessesOK
<1>4. P \in Seq(AttemptRow) /\ Len(P) \in Nat /\ DOMAIN P = 1 .. Len(P)
      /\ \A i \in DOMAIN P : P[i].client \in Guesser /\ P[i].count \in Nat
  BY <1>3, TableRows
<1> HIDE DEF P
<1>5. CASE attempts' = P /\ UNCHANGED failures
  BY <1>1, <1>3, <1>5, CodesNow
<1>6. CASE /\ ~throttled /\ attempts' = Recorded(P, g)
           /\ failures' = [x \in Guesser |-> IF x \in gone THEN {} ELSE IF x = g THEN stamped ELSE failures[x]]
  <2>1. CASE Tries(P, g) = {}
    <3>1. \A i \in DOMAIN P : P[i].client # g
      BY <2>1 DEF Tries
    <3>2. /\ rest \in Seq(AttemptRow) /\ gone \in SUBSET Guesser /\ g \notin gone
          /\ \/ gone = {} /\ rest = P
             \/ P # <<>> /\ gone = {Head(P).client} /\ rest = Tail(P)
      <4>1. CASE GivesUp(P, g)
        <5>1. Len(P) # 0
          BY <1>4, <4>1, LimitsAssumption DEF GivesUp
        <5>2. P # <<>> /\ 1 \in DOMAIN P /\ Head(P) = P[1]
          BY <1>4, <5>1
        <5>3. Tail(P) \in Seq(AttemptRow)
          BY <1>4, <5>2, HeadTailProperties
        <5> QED BY <1>4, <3>1, <4>1, <5>2, <5>3
      <4>2. CASE ~GivesUp(P, g)
        BY <1>4, <4>2
      <4> QED BY <4>1, <4>2
    <3>3. attempts' = Append(rest, Entry(g, now, 1))
      BY <1>6, <2>1 DEF Recorded
    <3> HIDE DEF gone, rest
    <3>4. TableOK(rest) /\ FailuresOK(fails) /\ CountsOK(rest, fails)
          /\ \A i \in DOMAIN rest : rest[i].client \notin gone
      BY <1>2, <1>3, <3>2, ForgottenKeeps
    <3>5. \A i \in DOMAIN rest : rest[i].client # g
      <4>1. CASE rest = P
        BY <3>1, <4>1
      <4>2. CASE P # <<>> /\ rest = Tail(P)
        <5> DEFINE t == Tail(P)
        <5>1. t \in Seq(AttemptRow) /\ Len(t) = Len(P) - 1 /\ \A i \in 1 .. Len(t) : t[i] = P[i + 1]
          BY <1>4, <4>2, HeadTailProperties
        <5>2. rest = t
          BY <4>2
        <5> HIDE DEF t
        <5>3. ASSUME NEW i \in DOMAIN t PROVE i + 1 \in DOMAIN P /\ t[i] = P[i + 1]
          BY <1>4, <5>1
        <5> QED BY <3>1, <5>2, <5>3
      <4> QED BY <3>2, <4>1, <4>2
    <3>6. fails[g] = failures[g] /\ DOMAIN fails = Guesser
      BY <3>2
    <3>7. failures' = [fails EXCEPT ![g] = fails[g] \cup {Stamp(fails[g])}]
      BY <1>6, <3>2, <3>6
    <3> HIDE DEF fails
    <3>8. TableOK(attempts') /\ FailuresOK(failures') /\ CountsOK(attempts', failures')
      BY <1>2, <3>3, <3>4, <3>5, <3>7, FirstFailureKeeps
    <3> QED BY <1>1, <3>8, CodesNow
  <2>2. CASE Tries(P, g) # {}
    <3>1. PICK k \in DOMAIN P : P[k].client = g
      BY <2>2 DEF Tries
    <3>2. P[k].count < MaxGuesses
      BY <1>4, <1>6, <3>1, LimitsAssumption DEF Tries
    <3>3. gone = {}
      BY <2>2 DEF GivesUp
    <3>4. attempts' = [i \in DOMAIN P |-> IF P[i].client = g THEN [P[i] EXCEPT !.count = @ + 1] ELSE P[i]]
      BY <1>6, <2>2 DEF Recorded
    <3>5. failures' = [failures EXCEPT ![g] = stamped]
      BY <1>3, <1>6, <3>3 DEF FailuresOK
    <3>6. TableOK(attempts') /\ FailuresOK(failures') /\ CountsOK(attempts', failures')
      BY <1>2, <1>3, <3>1, <3>2, <3>4, <3>5, NextFailureKeeps
    <3> QED BY <1>1, <3>6, CodesNow
  <2> QED BY <2>1, <2>2
<1> QED BY <1>1, <1>5, <1>6

LEMMA LimitsStart == LimitsInit => LimitsIInv
<1> SUFFICES ASSUME LimitsInit PROVE LimitsIInv
  OBVIOUS
<1>1. StampsOK({})
  BY FS_EmptySet DEF StampsOK
<1>2. ASSUME NEW c \in Key PROVE KeyOK(c)
  <2>1. rates[c] = {} /\ allowed[c] = {} /\ denied[c] = {}
    BY DEF LimitsInit
  <2>2. Recent({}, Window[c]) = {} /\ Cardinality({}) = 0
    BY FS_EmptySet DEF Recent
  <2>3. Cardinality({}) <= Allowance
    BY <2>2, LimitsAssumption
  <2> QED BY <1>1, <2>1, <2>2, <2>3 DEF KeyOK
<1>3. RatesOK
  BY <1>2 DEF LimitsInit, RatesOK
<1>4. GuessesOK
  BY <1>1 DEF LimitsInit, GuessesOK, TableOK, FailuresOK, CountsOK
<1> QED BY <1>3, <1>4 DEF LimitsInit, LimitsIInv

LEMMA LimitsStepKeeps == LimitsIInv /\ [CodesNext \/ RatesNext]_limitVars => LimitsIInv'
<1> SUFFICES ASSUME LimitsIInv, [CodesNext \/ RatesNext]_limitVars PROVE LimitsIInv'
  OBVIOUS
<1>1. CASE Tick
  BY <1>1, TickKeepsLimits
<1>2. ASSUME NEW g \in Guesser, VerifyJoinCode(g) PROVE LimitsIInv'
  <2>1. UNCHANGED <<now, rates, allowed, denied>> /\ GuessesOK'
    BY <1>2, GuessKeepsCodes
  <2>2. RatesOK'
    BY <2>1 DEF LimitsIInv, RatesOK, KeyOK, StampsOK, Recent
  <2> QED BY <2>1, <2>2 DEF LimitsIInv
<1>3. ASSUME NEW c \in Key, CheckRateLimit(c) PROVE LimitsIInv'
  <2>1. now' = now /\ UNCHANGED <<attempts, failures>> /\ RatesOK'
    BY <1>3, RequestKeepsKey
  <2>2. GuessesOK'
    BY <2>1, CodesNow DEF LimitsIInv, GuessesOK
  <2> QED BY <2>1, <2>2 DEF LimitsIInv
<1>4. CASE UNCHANGED limitVars
  <2>1. GuessesOK'
    BY <1>4, CodesNow DEF limitVars, LimitsIInv, GuessesOK
  <2>2. RatesOK'
    BY <1>4 DEF limitVars, LimitsIInv, RatesOK, KeyOK, StampsOK, Recent
  <2> QED BY <1>4, <2>1, <2>2 DEF limitVars, LimitsIInv
<1> QED BY <1>1, <1>2, <1>3, <1>4 DEF CodesNext, RatesNext

LEMMA LimitsIInvSuffices == LimitsIInv => LimitsInv
<1> SUFFICES ASSUME LimitsIInv PROVE LimitsInv
  OBVIOUS
<1>1. NoSecondAllowance /\ RefusedOnlyOverBudget
  BY DEF LimitsIInv, RatesOK, KeyOK, NoSecondAllowance, RefusedOnlyOverBudget
<1>2. GuessesCounted
  BY DEF LimitsIInv, GuessesOK, CountsOK, Failed, GuessesCounted
<1>3. WindowsEnd
  BY PurgedKeeps DEF LimitsIInv, WindowsEnd
<1> QED BY <1>1, <1>2, <1>3 DEF LimitsInv

(* In any window no more requests of a key are let through than its        *)
(* allowance, and one is refused only when it is used up, though the store *)
(* is swept and forgets keys; an address fails at most its budget of join  *)
(* codes in a window, and is throttled by no window past its end.          *)
THEOREM LimitsHold == LimitsSpec => []LimitsInv
  BY LimitsStart, LimitsStepKeeps, LimitsIInvSuffices, PTL DEF LimitsSpec
=============================================================================
