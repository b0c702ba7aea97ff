----------------------- MODULE SocketRevocationProofs -----------------------
(***************************************************************************)
(* RevocationInv for any number of sockets, any cache time and any bounds: *)
(* whatever handshakes, sweeps, broadcasts and cached answers overlap, no  *)
(* socket of a deactivated account is live, and no broadcast later than    *)
(* the cache's time reaches a removed member.                              *)
(***************************************************************************)
EXTENDS SocketRevocation, TLAPS

Kind == {"deactivate", "remove", "revoke", "delete"}
SocketRow == [at : {"new", "gone", "asked", "read", "granted", "open"}, by : Kinds, seen : Nat \X Nat,
              answer : {"none", "ok", "revoked"}, asked : Nat, cutoff : Nat, role : BOOLEAN,
              issued : Nat, revoked : BOOLEAN]
RequestRow == [kind : Kind \cup {"none"}, done : {"none", "swept", "committed"}, cut : Nat, stays : BOOLEAN]
CastRow == [at : {"idle", "account", "accountAnswer", "invite", "inviteAnswer", "send"}, to : SUBSET Sockets,
            begun : Nat, asked : Nat, lets : BOOLEAN]
PassRow == [at : {"asleep", "read"}, of : SUBSET Sockets, active : BOOLEAN, valid : Nat, link : BOOLEAN]

TypesOK ==
  /\ account \in [active : BOOLEAN, valid : Nat] /\ member \in BOOLEAN /\ invite \in BOOLEAN
  /\ cuts \in Nat /\ epoch \in [user : Nat, booth : Nat, link : Nat]
  /\ known \in [at : Nat, ok : BOOLEAN] /\ allowed \in [Kinds -> Nat]
  /\ request \in RequestRow /\ cast \in CastRow /\ reaper \in PassRow
  /\ now \in Nat /\ removedAt \in Nat /\ requests \in Nat

(* Every cut and every epoch is the work of a request of its own, and only *)
(* a committed deactivation has its sweep to come.                         *)
Unswept == IF request.kind = "none" \/ request.done = "swept" THEN 0 ELSE 1

RequestsOK ==
  /\ requests <= MaxRequests /\ cuts <= requests
  /\ account.valid <= cuts /\ request.cut <= cuts
  /\ epoch.user + Unswept <= requests /\ epoch.booth + Unswept <= requests /\ epoch.link + Unswept <= requests
  /\ request.kind = "none" <=> request = NoRequest
  /\ request.done = "committed" => request.kind = "deactivate"
  /\ request.done = "swept" => request.kind # "deactivate"

(* A socket of an inactive account is only there while the sweep is still  *)
(* to come: one that is connecting either fails the epoch's comparison or  *)
(* will, and one that is open will be swept.                               *)
SweepToCome(row) ==
  row.by = "account" /\ ~account.active /\
    (\/ row.at \in {"read", "granted"} /\ row.seen[1] = epoch.user
     \/ row.at = "open" /\ ~row.revoked) => request.done = "committed"

SocketOK(row) ==
  /\ row \in SocketRow
  /\ row.issued <= cuts
  /\ row.revoked => row.at = "open" /\ ~row.role
  /\ row.by = "account" => row.seen[1] <= epoch.user
  /\ row.answer # "none" => row.by = "invite" /\ row.at \in {"asked", "read"}
  /\ SweepToCome(row)

SocketsOK == DOMAIN socket = Sockets /\ \A s \in Sockets : SocketOK(socket[s])

(* An answer that lets the member in was read no later than the removal,   *)
(* and who is still sent to was let in by one that was young enough.       *)
CastOK ==
  /\ cast.at = "idle" => cast.to = {}
  /\ cast.begun <= now /\ cast.asked <= now
  /\ allowed["account"] = Never \/ allowed["account"] <= now
  /\ cast.at = "accountAnswer" => cast.begun <= cast.asked
  /\ ~member =>
       /\ removedAt <= now
       /\ allowed["account"] = Never \/ allowed["account"] <= removedAt
       /\ cast.at = "accountAnswer" /\ cast.lets => cast.asked <= removedAt
       /\ cast.at \in {"invite", "inviteAnswer", "send"} /\ cast.begun >= removedAt + TTL =>
            \A s \in cast.to : socket[s].by # "account"

StaysOut == TypesOK /\ RequestsOK /\ SocketsOK /\ CastOK

------------------------------------------------------------------------------
(* What the run checks follows from what is inductive.                     *)
LEMMA StaysOutSuffices == StaysOut => RevocationInv
<1> SUFFICES ASSUME StaysOut PROVE RevocationInv
  OBVIOUS
<1> USE RevocationAssumption DEF StaysOut
<1>1. RevocationTypeOK
  <2>1. /\ account \in [active : BOOLEAN, valid : 0..MaxRequests] /\ cuts \in 0..MaxRequests
        /\ epoch \in [user : 0..MaxRequests, booth : 0..MaxRequests, link : 0..MaxRequests]
    <3>1. account.valid \in 0..MaxRequests /\ cuts \in 0..MaxRequests
      BY DEF TypesOK, RequestsOK
    <3>2. epoch.user \in 0..MaxRequests /\ epoch.booth \in 0..MaxRequests /\ epoch.link \in 0..MaxRequests
      BY DEF TypesOK, RequestsOK, Unswept
    <3> QED
      BY <3>1, <3>2 DEF TypesOK
  <2>2. \A s \in Sockets :
          /\ socket[s].at \in {"new", "gone", "asked", "read", "granted", "open"}
          /\ socket[s].by \in Kinds /\ socket[s].issued \in 0..cuts
          /\ socket[s].revoked \in BOOLEAN
          /\ socket[s].revoked => Open(s) /\ ~ socket[s].role
    BY DEF SocketsOK, SocketOK, SocketRow, Open, TypesOK
  <2> QED
    BY <2>1, <2>2 DEF RevocationTypeOK, TypesOK, CastOK
<1>2. NoSurvivor
  BY DEF NoSurvivor, LiveBy, Live, Open, SocketsOK, SocketOK, SweepToCome
<1>3. RemovedHearsNoMore
  BY DEF RemovedHearsNoMore, CastOK
<1> QED
  BY <1>1, <1>2, <1>3 DEF RevocationInv

(* A handshake that has not begun is in order, whatever the rows say; so   *)
(* is one that is over.                                                    *)
LEMMA NewSocketOK ==
  ASSUME NEW k \in Kinds, cuts \in Nat, epoch \in [user : Nat, booth : Nat, link : Nat]
  PROVE  SocketOK(NewSocket(k)) /\ NewSocket(k).by = k
<1>1. NewSocket(k) \in SocketRow
  BY DEF NewSocket, SocketRow
<1>2. /\ NewSocket(k).at = "new" /\ NewSocket(k).by = k /\ NewSocket(k).seen = <<0, 0>>
      /\ NewSocket(k).issued = 0 /\ NewSocket(k).revoked = FALSE /\ NewSocket(k).answer = "none"
  BY DEF NewSocket
<1>3. SweepToCome(NewSocket(k))
  BY <1>2 DEF SweepToCome
<1> QED
  BY <1>1, <1>2, <1>3 DEF SocketOK

LEMMA GoneOK ==
  ASSUME NEW row, row.by \in Kinds, cuts \in Nat, epoch \in [user : Nat, booth : Nat, link : Nat]
  PROVE  SocketOK(Gone(row)) /\ Gone(row).by = row.by
<1> DEFINE n == NewSocket(row.by)
           g == Gone(row)
<1>1. SocketOK(n) /\ n.by = row.by /\ n.at = "new" /\ n.revoked = FALSE /\ n.answer = "none"
  BY NewSocketOK DEF NewSocket
<1>2. g = [n EXCEPT !.at = "gone"]
  BY DEF Gone
<1> HIDE DEF n, g
<1>3. /\ g \in SocketRow /\ g.by = n.by /\ g.at = "gone" /\ g.seen = n.seen
      /\ g.issued = n.issued /\ g.revoked = n.revoked /\ g.answer = n.answer
  BY <1>1, <1>2 DEF SocketOK, SocketRow
<1> QED
  BY <1>1, <1>3 DEF SocketOK, SweepToCome, g

LEMMA StaysOutInit == RevocationInit => StaysOut
<1> SUFFICES ASSUME RevocationInit PROVE StaysOut
  OBVIOUS
<1> USE RevocationAssumption DEF RevocationInit, Started, NoRequest, NoCast, NoPass, Never, Kinds
<1>1. TypesOK
  BY DEF TypesOK, RequestRow, CastRow, PassRow, Kind
<1>2. RequestsOK
  BY DEF RequestsOK, Unswept
<1>3. SocketsOK
  <2>1. DOMAIN socket = Sockets /\ \A s \in Sockets : \E k \in Kinds : socket[s] = NewSocket(k)
    OBVIOUS
  <2>2. \A k \in Kinds : SocketOK(NewSocket(k))
    BY NewSocketOK
  <2> QED
    BY <2>1, <2>2 DEF SocketsOK
<1>4. CastOK
  BY DEF CastOK
<1> QED
  BY <1>1, <1>2, <1>3, <1>4 DEF StaysOut

------------------------------------------------------------------------------
(* One socket's steps: it is in order afterwards and belongs to whom it    *)
(* belonged to; the rows, the Admin and the broadcast are left alone.      *)
LEMMA OneSocket ==
  ASSUME StaysOut, NEW s \in Sockets, NEW row, SocketOK(row), row.by = socket[s].by,
         socket' = [socket EXCEPT ![s] = row], known' \in [at : Nat, ok : BOOLEAN],
         UNCHANGED <<rows, cuts, epoch, allowed, request, cast, reaper, clock, requests>>
  PROVE  StaysOut'
<1> USE DEF StaysOut, rows, clock
<1>1. TypesOK'
  BY DEF TypesOK
<1>2. RequestsOK'
  BY DEF RequestsOK, Unswept
<1>3. SocketsOK'
  <2>1. DOMAIN socket' = Sockets /\ \A t \in Sockets : SocketOK(socket'[t])
    BY DEF SocketsOK
  <2> QED
    BY <2>1 DEF SocketsOK, SocketOK, SweepToCome
<1>4. CastOK'
  <2>1. \A t \in Sockets : socket'[t].by = socket[t].by
    BY DEF SocketsOK
  <2> QED
    BY <2>1 DEF CastOK, TypesOK, CastRow, Never
<1> QED
  BY <1>1, <1>2, <1>3, <1>4

LEMMA ConnectKeeps ==
  ASSUME StaysOut, NEW s \in Sockets, Connect(s)
  PROVE  StaysOut'
<1> DEFINE r0 == [socket[s] EXCEPT !.at = "asked"]
           row == [r0 EXCEPT !.seen = EpochOf(socket[s].by)]
<1>1. SocketOK(socket[s])
  BY DEF StaysOut, SocketsOK
<1>2. socket' = [socket EXCEPT ![s] = row] /\ socket[s].at = "new"
  BY DEF Connect, StaysOut, SocketsOK
<1>3. /\ EpochOf(socket[s].by) \in Nat \X Nat
      /\ socket[s].by = "account" => EpochOf(socket[s].by)[1] = epoch.user
  BY <1>1 DEF EpochOf, StaysOut, TypesOK, SocketOK, SocketRow
<1>4. /\ r0 \in SocketRow /\ r0.at = "asked" /\ r0.by = socket[s].by
      /\ r0.issued = socket[s].issued /\ r0.revoked = socket[s].revoked /\ r0.answer = socket[s].answer
  BY <1>1 DEF SocketOK, SocketRow
<1> HIDE DEF r0
<1>5. /\ row \in SocketRow /\ row.at = "asked" /\ row.by = socket[s].by /\ row.seen = EpochOf(socket[s].by)
      /\ row.issued = socket[s].issued /\ row.revoked = socket[s].revoked /\ row.answer = socket[s].answer
  BY <1>3, <1>4 DEF SocketRow
<1> HIDE DEF row
<1>6. SocketOK(row)
  BY <1>1, <1>2, <1>3, <1>5 DEF SocketOK, SweepToCome, StaysOut, TypesOK
<1> QED
  BY <1>2, <1>5, <1>6, OneSocket DEF Connect, rows, caches, StaysOut, TypesOK

LEMMA ReadAccountKeeps ==
  ASSUME StaysOut, NEW s \in Sockets, ReadAccount(s)
  PROVE  StaysOut'
<1> DEFINE r0 == [socket[s] EXCEPT !.at = "read"]
           r1 == [r0 EXCEPT !.cutoff = account.valid]
           row == IF account.active THEN r1 ELSE Gone(socket[s])
<1>1. SocketOK(socket[s]) /\ socket[s].by \in Kinds
  BY DEF StaysOut, SocketsOK, SocketOK, SocketRow
<1>2. socket' = [socket EXCEPT ![s] = row] /\ socket[s].at = "asked" /\ socket[s].by = "account"
  BY DEF ReadAccount, StaysOut, SocketsOK
<1>3. SocketOK(row) /\ row.by = socket[s].by
  <2>1. CASE ~account.active
    BY <1>1, <2>1, GoneOK DEF StaysOut, TypesOK
  <2>2. CASE account.active
    <3>1. /\ r0 \in SocketRow /\ r0.at = "read" /\ r0.by = socket[s].by /\ r0.seen = socket[s].seen
          /\ r0.issued = socket[s].issued /\ r0.revoked = socket[s].revoked /\ r0.answer = socket[s].answer
      BY <1>1 DEF SocketOK, SocketRow
    <3> HIDE DEF r0
    <3>2. /\ r1 \in SocketRow /\ r1.at = "read" /\ r1.by = socket[s].by /\ r1.seen = socket[s].seen
          /\ r1.issued = socket[s].issued /\ r1.revoked = socket[s].revoked /\ r1.answer = socket[s].answer
      BY <3>1 DEF SocketRow, StaysOut, TypesOK
    <3> HIDE DEF r1
    <3> QED
      BY <1>1, <1>2, <2>2, <3>2 DEF SocketOK, SweepToCome
  <2> QED
    BY <2>1, <2>2
<1> HIDE DEF row
<1> QED
  BY <1>2, <1>3, OneSocket DEF ReadAccount, rows, caches, StaysOut, TypesOK

LEMMA ReadRoleKeeps ==
  ASSUME StaysOut, NEW s \in Sockets, ReadRole(s)
  PROVE  StaysOut'
<1> DEFINE r0 == [socket[s] EXCEPT !.at = "granted"]
           row == [r0 EXCEPT !.role = member]
<1>1. SocketOK(socket[s])
  BY DEF StaysOut, SocketsOK
<1>2. socket' = [socket EXCEPT ![s] = row] /\ socket[s].at = "read" /\ socket[s].by = "account"
  BY DEF ReadRole, StaysOut, SocketsOK
<1>3. /\ r0 \in SocketRow /\ r0.at = "granted" /\ r0.by = socket[s].by /\ r0.seen = socket[s].seen
      /\ r0.issued = socket[s].issued /\ r0.revoked = socket[s].revoked /\ r0.answer = socket[s].answer
  BY <1>1 DEF SocketOK, SocketRow
<1> HIDE DEF r0
<1>4. /\ row \in SocketRow /\ row.at = "granted" /\ row.by = socket[s].by /\ row.seen = socket[s].seen
      /\ row.issued = socket[s].issued /\ row.revoked = socket[s].revoked /\ row.answer = socket[s].answer
  BY <1>3 DEF SocketRow, StaysOut, TypesOK
<1> HIDE DEF row
<1>5. SocketOK(row)
  BY <1>1, <1>2, <1>4 DEF SocketOK, SweepToCome
<1> QED
  BY <1>2, <1>4, <1>5, OneSocket DEF ReadRole, rows, caches, StaysOut, TypesOK

(* What an answer about the link does leaves an invitee's socket in order. *)
LEMMA AnsweredOK ==
  ASSUME TypesOK, NEW row, SocketOK(row), row.by = "invite", row.at \in {"asked", "read"}, NEW ok \in BOOLEAN
  PROVE  SocketOK(Answered(row, ok)) /\ Answered(row, ok).by = row.by
<1>1. CASE row.at = "asked" /\ ~ok
  <2>1. Answered(row, ok) = Gone(row)
    BY <1>1 DEF Answered
  <2> QED
    BY <2>1, GoneOK DEF TypesOK, Kinds
<1>2. CASE row.at = "asked" /\ ok
  <2> DEFINE r0 == [row EXCEPT !.at = "read"]
             r1 == [r0 EXCEPT !.answer = "none"]
             r2 == [r1 EXCEPT !.asked = 0]
  <2>1. Answered(row, ok) = r2
    BY <1>2 DEF Answered, SocketOK, SocketRow
  <2>2. /\ r0 \in SocketRow /\ r0.by = "invite" /\ r0.at = "read"
        /\ r0.issued = row.issued /\ r0.revoked = row.revoked
    BY DEF SocketOK, SocketRow
  <2> HIDE DEF r0
  <2>3. /\ r1 \in SocketRow /\ r1.by = "invite" /\ r1.at = "read"
        /\ r1.issued = row.issued /\ r1.revoked = row.revoked /\ r1.answer = "none"
    BY <2>2 DEF SocketRow
  <2> HIDE DEF r1
  <2>4. /\ r2 \in SocketRow /\ r2.by = "invite" /\ r2.at = "read"
        /\ r2.issued = row.issued /\ r2.revoked = row.revoked /\ r2.answer = "none"
    BY <2>3 DEF SocketRow
  <2> HIDE DEF r2
  <2> QED
    BY <1>2, <2>1, <2>4 DEF SocketOK, SweepToCome
<1>3. CASE row.at = "read"
  <2> DEFINE r0 == [row EXCEPT !.at = "granted"]
             r1 == [r0 EXCEPT !.role = ok]
             r2 == [r1 EXCEPT !.answer = "none"]
             r3 == [r2 EXCEPT !.asked = 0]
  <2>1. Answered(row, ok) = r3
    BY <1>3 DEF Answered, SocketOK, SocketRow
  <2>2. /\ r0 \in SocketRow /\ r0.by = "invite" /\ r0.at = "granted"
        /\ r0.issued = row.issued /\ r0.revoked = row.revoked
    BY DEF SocketOK, SocketRow
  <2> HIDE DEF r0
  <2>3. /\ r1 \in SocketRow /\ r1.by = "invite" /\ r1.at = "granted"
        /\ r1.issued = row.issued /\ r1.revoked = row.revoked
    BY <2>2 DEF SocketRow
  <2> HIDE DEF r1
  <2>4. /\ r2 \in SocketRow /\ r2.by = "invite" /\ r2.at = "granted"
        /\ r2.issued = row.issued /\ r2.revoked = row.revoked /\ r2.answer = "none"
    BY <2>3 DEF SocketRow
  <2> HIDE DEF r2
  <2>5. /\ r3 \in SocketRow /\ r3.by = "invite" /\ r3.at = "granted"
        /\ r3.issued = row.issued /\ r3.revoked = row.revoked /\ r3.answer = "none"
    BY <2>4 DEF SocketRow
  <2> HIDE DEF r3
  <2> QED
    BY <1>3, <2>1, <2>5 DEF SocketOK, SweepToCome
<1> QED
  BY <1>1, <1>2, <1>3

LEMMA AskLinkKeeps ==
  ASSUME StaysOut, NEW s \in Sockets, AskLink(s)
  PROVE  StaysOut'
<1> DEFINE says == IF invite THEN "ok" ELSE "revoked"
           r0 == [socket[s] EXCEPT !.answer = says]
           r1 == [r0 EXCEPT !.asked = now]
           row == IF Fresh(known.at) THEN Answered(socket[s], known.ok) ELSE r1
<1>1. SocketOK(socket[s])
  BY DEF StaysOut, SocketsOK
<1>2. /\ socket' = [socket EXCEPT ![s] = row] /\ socket[s].at \in {"asked", "read"}
      /\ socket[s].by = "invite" /\ socket[s].answer = "none"
  BY DEF AskLink, StaysOut, SocketsOK
<1>3. SocketOK(row) /\ row.by = socket[s].by
  <2>1. CASE Fresh(known.at)
    BY <1>1, <1>2, <2>1, AnsweredOK DEF StaysOut, TypesOK
  <2>2. CASE ~Fresh(known.at)
    <3>1. /\ r0 \in SocketRow /\ r0.at = socket[s].at /\ r0.by = "invite"
          /\ r0.issued = socket[s].issued /\ r0.revoked = socket[s].revoked
      BY <1>1, <1>2 DEF SocketOK, SocketRow
    <3> HIDE DEF r0
    <3>2. /\ r1 \in SocketRow /\ r1.at = socket[s].at /\ r1.by = "invite"
          /\ r1.issued = socket[s].issued /\ r1.revoked = socket[s].revoked
      BY <3>1 DEF SocketRow, StaysOut, TypesOK
    <3> HIDE DEF r1
    <3> QED
      BY <1>1, <1>2, <2>2, <3>2 DEF SocketOK, SweepToCome
  <2> QED
    BY <2>1, <2>2
<1> HIDE DEF row
<1> QED
  BY <1>2, <1>3, OneSocket DEF AskLink, rows, caches, StaysOut, TypesOK

LEMMA LinkReadKeeps ==
  ASSUME StaysOut, NEW s \in Sockets, LinkRead(s)
  PROVE  StaysOut'
<1> DEFINE row == Answered(socket[s], socket[s].answer = "ok")
<1>1. SocketOK(socket[s])
  BY DEF StaysOut, SocketsOK
<1>2. socket' = [socket EXCEPT ![s] = row] /\ socket[s].answer # "none"
  BY DEF LinkRead, StaysOut, SocketsOK
<1>3. SocketOK(row) /\ row.by = socket[s].by
  <2>1. socket[s].by = "invite" /\ socket[s].at \in {"asked", "read"}
    BY <1>1, <1>2 DEF SocketOK
  <2> QED
    BY <1>1, <2>1, AnsweredOK DEF StaysOut
<1>4. known' \in [at : Nat, ok : BOOLEAN]
  BY <1>1 DEF LinkRead, SocketOK, SocketRow
<1> HIDE DEF row
<1> QED
  BY <1>2, <1>3, <1>4, OneSocket DEF LinkRead, rows

LEMMA RegisterKeeps ==
  ASSUME StaysOut, NEW s \in Sockets, Register(s)
  PROVE  StaysOut'
<1> DEFINE passes == cuts >= socket[s].cutoff /\ EpochOf(socket[s].by) = socket[s].seen
           row == IF passes THEN Opened(socket[s]) ELSE Gone(socket[s])
<1>1. SocketOK(socket[s]) /\ socket[s].by \in Kinds
  BY DEF StaysOut, SocketsOK, SocketOK, SocketRow
<1>2. socket' = [socket EXCEPT ![s] = row] /\ socket[s].at = "granted"
  BY DEF Register, StaysOut, SocketsOK
<1>3. SocketOK(row) /\ row.by = socket[s].by
  <2>1. CASE ~passes
    BY <1>1, <2>1, GoneOK DEF StaysOut, TypesOK
  <2>2. CASE passes
    <3> DEFINE n == NewSocket(socket[s].by)
               r0 == [n EXCEPT !.at = "open"]
               r1 == [r0 EXCEPT !.role = socket[s].role]
               r2 == [r1 EXCEPT !.issued = cuts]
    <3>1. Opened(socket[s]) = r2
      BY DEF Opened, NewSocket
    <3>2. n \in SocketRow /\ n.by = socket[s].by /\ n.seen = <<0, 0>> /\ n.revoked = FALSE /\ n.answer = "none"
      BY <1>1, NewSocketOK DEF NewSocket, SocketOK, StaysOut, TypesOK
    <3> HIDE DEF n
    <3>3. /\ r0 \in SocketRow /\ r0.by = socket[s].by /\ r0.at = "open" /\ r0.seen = <<0, 0>>
          /\ r0.revoked = FALSE /\ r0.answer = "none"
      BY <3>2 DEF SocketRow
    <3> HIDE DEF r0
    <3>4. /\ r1 \in SocketRow /\ r1.by = socket[s].by /\ r1.at = "open" /\ r1.seen = <<0, 0>>
          /\ r1.revoked = FALSE /\ r1.answer = "none"
      BY <1>1, <3>3 DEF SocketRow, SocketOK
    <3> HIDE DEF r1
    <3>5. /\ r2 \in SocketRow /\ r2.by = socket[s].by /\ r2.at = "open" /\ r2.seen = <<0, 0>>
          /\ r2.revoked = FALSE /\ r2.answer = "none" /\ r2.issued = cuts
      BY <3>4 DEF SocketRow, StaysOut, TypesOK
    <3> HIDE DEF r2
    <3>6. socket[s].by = "account" => socket[s].seen[1] = epoch.user
      BY <2>2, <1>1 DEF EpochOf, SocketOK, SocketRow
    <3>7. SweepToCome(r2)
      BY <1>1, <1>2, <3>5, <3>6 DEF SocketOK, SweepToCome
    <3> QED
      BY <2>2, <3>1, <3>5, <3>7 DEF SocketOK, StaysOut, TypesOK
  <2> QED
    BY <2>1, <2>2
<1> HIDE DEF row
<1> QED
  BY <1>2, <1>3, OneSocket DEF Register, rows, caches, StaysOut, TypesOK

LEMMA RemoveKeeps ==
  ASSUME StaysOut, NEW s \in Sockets, Remove(s)
  PROVE  StaysOut'
<1>1. socket[s].by \in Kinds
  BY DEF StaysOut, SocketsOK, SocketOK, SocketRow
<1>2. socket' = [socket EXCEPT ![s] = Gone(socket[s])]
  BY DEF Remove, StaysOut, SocketsOK
<1>3. SocketOK(Gone(socket[s])) /\ Gone(socket[s]).by = socket[s].by
  BY <1>1, GoneOK DEF StaysOut, TypesOK
<1> QED
  BY <1>2, <1>3, OneSocket DEF Remove, rows, caches, StaysOut, TypesOK

------------------------------------------------------------------------------
(* The Admin's requests and the sweeps.                                    *)
(* A sweep marks sockets that are open and changes nothing else of them.   *)
LEMMA RevokedRows ==
  ASSUME SocketsOK, NEW who \in SUBSET Sockets
  PROVE  /\ DOMAIN Revoked(who) = Sockets
         /\ \A s \in Sockets :
              /\ Revoked(who)[s] \in SocketRow
              /\ Revoked(who)[s].by = socket[s].by /\ Revoked(who)[s].at = socket[s].at
              /\ Revoked(who)[s].seen = socket[s].seen /\ Revoked(who)[s].answer = socket[s].answer
              /\ Revoked(who)[s].issued = socket[s].issued
              /\ s \in who => Revoked(who)[s].revoked /\ ~Revoked(who)[s].role
              /\ s \notin who => Revoked(who)[s] = socket[s]
<1> SUFFICES ASSUME NEW s \in Sockets
             PROVE  /\ Revoked(who)[s] \in SocketRow
                    /\ Revoked(who)[s].by = socket[s].by /\ Revoked(who)[s].at = socket[s].at
                    /\ Revoked(who)[s].seen = socket[s].seen /\ Revoked(who)[s].answer = socket[s].answer
                    /\ Revoked(who)[s].issued = socket[s].issued
                    /\ s \in who => Revoked(who)[s].revoked /\ ~Revoked(who)[s].role
                    /\ s \notin who => Revoked(who)[s] = socket[s]
  BY DEF Revoked
<1> DEFINE r0 == [socket[s] EXCEPT !.revoked = TRUE]
           r1 == [r0 EXCEPT !.role = FALSE]
<1>1. socket[s] \in SocketRow
  BY DEF SocketsOK, SocketOK
<1>2. Revoked(who)[s] = IF s \in who THEN r1 ELSE socket[s]
  BY DEF Revoked
<1>3. /\ r0 \in SocketRow /\ r0.by = socket[s].by /\ r0.at = socket[s].at /\ r0.seen = socket[s].seen
      /\ r0.answer = socket[s].answer /\ r0.issued = socket[s].issued /\ r0.revoked
  BY <1>1 DEF SocketRow
<1> HIDE DEF r0
<1>4. /\ r1 \in SocketRow /\ r1.by = socket[s].by /\ r1.at = socket[s].at /\ r1.seen = socket[s].seen
      /\ r1.answer = socket[s].answer /\ r1.issued = socket[s].issued /\ r1.revoked /\ ~r1.role
  BY <1>3 DEF SocketRow
<1> HIDE DEF r1
<1> QED
  BY <1>1, <1>2, <1>4

(* Every socket stays in order, and the account's sockets stay the         *)
(* account's, whichever open ones a sweep, a check or the reaper marks.    *)
LEMMA RevokedKeeps ==
  ASSUME StaysOut, NEW who \in SUBSET Sockets, \A s \in who : Open(s), socket' = Revoked(who),
         UNCHANGED <<account, cuts, epoch, request>>
  PROVE  SocketsOK' /\ \A s \in Sockets : socket'[s].by = socket[s].by
<1>1. /\ DOMAIN socket' = Sockets
      /\ \A s \in Sockets :
           /\ socket'[s] \in SocketRow
           /\ socket'[s].by = socket[s].by /\ socket'[s].at = socket[s].at
           /\ socket'[s].seen = socket[s].seen /\ socket'[s].answer = socket[s].answer
           /\ socket'[s].issued = socket[s].issued
           /\ s \in who => socket'[s].revoked /\ ~socket'[s].role
           /\ s \notin who => socket'[s] = socket[s]
  BY RevokedRows DEF StaysOut
<1>2. \A s \in Sockets : SocketOK(socket[s])
  BY DEF StaysOut, SocketsOK
<1>3. ASSUME NEW s \in Sockets PROVE SocketOK(socket'[s])
  <2>1. CASE s \in who
    BY <1>1, <1>2, <2>1 DEF SocketOK, SweepToCome, Open
  <2>2. CASE s \notin who
    BY <1>1, <1>2, <2>2
  <2> QED
    BY <2>1, <2>2
<1>4. SocketsOK'
  BY <1>1, <1>3 DEF SocketsOK, SocketOK, SweepToCome
<1> QED
  BY <1>1, <1>4

(* A step that leaves the sockets and the broadcast alone disturbs only    *)
(* what it writes of the rows, the request and the reaper's notes.         *)
LEMMA SocketsUntouched ==
  ASSUME StaysOut, UNCHANGED <<socket, cuts, epoch>>, \A s \in Sockets : SweepToCome(socket[s])'
  PROVE  SocketsOK'
BY DEF StaysOut, SocketsOK, SocketOK, SweepToCome

LEMMA BeginKeeps ==
  ASSUME StaysOut, NEW kind \in Kind, NEW stays \in BOOLEAN, Begin(kind, stays)
  PROVE  StaysOut'
<1> USE DEF StaysOut, rows, caches, clock
<1>1. request = NoRequest /\ requests < MaxRequests /\ requests' = requests + 1
      /\ cuts' \in Nat /\ cuts <= cuts' /\ cuts' <= cuts + 1
  BY DEF Begin, TypesOK
<1>2. /\ request' \in RequestRow /\ request'.kind = kind /\ request'.done = "none" /\ request'.cut = cuts'
  BY <1>1 DEF Begin, RequestRow
<1>3. TypesOK'
  BY <1>1, <1>2 DEF Begin, TypesOK
<1>4. RequestsOK'
  <2>1. request'.kind # "none" /\ request' # NoRequest /\ Unswept = 0 /\ Unswept' = 1
    BY <1>1, <1>2 DEF Kind, NoRequest, Unswept
  <2> QED
    BY <1>1, <1>2, <2>1, RevocationAssumption DEF Begin, RequestsOK, TypesOK
<1>5. SocketsOK'
  <2>1. UNCHANGED <<socket, epoch, account>> /\ request.done = "none"
    BY <1>1 DEF Begin, NoRequest
  <2> QED
    BY <1>1, <1>2, <2>1 DEF SocketsOK, SocketOK, SocketRow, SweepToCome, TypesOK
<1>6. CastOK'
  BY DEF Begin, CastOK, Never
<1> QED
  BY <1>3, <1>4, <1>5, <1>6

LEMMA CommitAccountKeeps ==
  ASSUME StaysOut, CommitAccount
  PROVE  StaysOut'
<1> USE DEF StaysOut, rows, caches, clock
<1>1. /\ request' \in RequestRow /\ request'.kind = "deactivate" /\ request'.done = "committed"
      /\ request'.cut = request.cut
  BY DEF CommitAccount, TypesOK, RequestRow
<1>2. account' \in [active : BOOLEAN, valid : Nat] /\ account'.valid = request.cut
  BY DEF CommitAccount, TypesOK, RequestRow
<1>3. TypesOK'
  BY <1>1, <1>2 DEF CommitAccount, TypesOK
<1>4. RequestsOK'
  <2>1. request'.kind # "none" /\ request' # NoRequest /\ Unswept = 1 /\ Unswept' = 1
    BY <1>1 DEF CommitAccount, NoRequest, Unswept
  <2> QED
    BY <1>1, <1>2, <2>1 DEF CommitAccount, RequestsOK
<1>5. SocketsOK'
  BY <1>1 DEF CommitAccount, SocketsOK, SocketOK, SweepToCome
<1>6. CastOK'
  BY DEF CommitAccount, CastOK, Never
<1> QED
  BY <1>3, <1>4, <1>5, <1>6

LEMMA SweepAccountKeeps ==
  ASSUME StaysOut, SweepAccount
  PROVE  StaysOut'
<1> USE DEF StaysOut, rows, caches, clock
<1> DEFINE who == {s \in Sockets : Open(s) /\ socket[s].by = "account"}
<1>1. /\ epoch' \in [user : Nat, booth : Nat, link : Nat] /\ epoch'.user = epoch.user + 1
      /\ epoch'.booth = epoch.booth /\ epoch'.link = epoch.link
  BY DEF SweepAccount, TypesOK
<1>2. request' = NoRequest /\ allowed' = [allowed EXCEPT !["account"] = Never]
      /\ socket' = Revoked(who) /\ UNCHANGED <<rows, cuts, known, cast, reaper, clock, requests>>
  BY DEF SweepAccount
<1>3. TypesOK'
  <2>1. NoRequest \in RequestRow
    BY DEF NoRequest, RequestRow
  <2>2. Never \in Nat
    BY RevocationAssumption DEF Never
  <2> QED
    BY <1>1, <1>2, <2>1, <2>2 DEF TypesOK
<1>4. RequestsOK'
  <2>1. Unswept = 1 /\ Unswept' = 0 /\ request'.kind = "none" /\ request'.cut = 0 /\ request'.done = "none"
    BY <1>2 DEF SweepAccount, NoRequest, Unswept
  <2> QED
    BY <1>1, <1>2, <2>1 DEF RequestsOK, TypesOK
<1>5. /\ DOMAIN socket' = Sockets
      /\ \A s \in Sockets :
           /\ socket'[s] \in SocketRow
           /\ socket'[s].by = socket[s].by /\ socket'[s].at = socket[s].at
           /\ socket'[s].seen = socket[s].seen /\ socket'[s].answer = socket[s].answer
           /\ socket'[s].issued = socket[s].issued
           /\ s \in who => socket'[s].revoked /\ ~socket'[s].role
           /\ s \notin who => socket'[s] = socket[s]
  <2> HIDE DEF who
  <2>1. who \in SUBSET Sockets
    BY DEF who
  <2> QED
    BY <1>2, <2>1, RevokedRows
<1>6. SocketsOK'
  <2>1. \A s \in Sockets : SocketOK(socket[s])
    BY DEF SocketsOK
  <2>2. ASSUME NEW s \in Sockets PROVE SocketOK(socket[s])'
    <3>1. CASE s \in who
      BY <1>1, <1>2, <1>5, <2>1, <3>1 DEF SocketOK, SweepToCome, Open, SocketRow, TypesOK
    <3>2. CASE s \notin who
      BY <1>1, <1>2, <1>5, <2>1, <3>2 DEF SocketOK, SweepToCome, Open, SocketRow, TypesOK
    <3> QED
      BY <3>1, <3>2
  <2> QED
    BY <1>5, <2>2 DEF SocketsOK
<1>7. CastOK'
  BY <1>2, <1>5 DEF CastOK, Never, TypesOK, CastRow, Kinds
<1> QED
  BY <1>3, <1>4, <1>6, <1>7

LEMMA SweepKeeps ==
  ASSUME StaysOut, Sweep
  PROVE  StaysOut'
<1> USE DEF StaysOut, rows, caches, clock
<1> DEFINE who == {s \in Sockets : Open(s) /\ CASE request.kind = "remove" -> socket[s].by = "account"
                                                [] request.kind = "revoke" -> socket[s].by = "invite"
                                                [] OTHER -> TRUE}
<1>1. /\ epoch' \in [user : Nat, booth : Nat, link : Nat] /\ epoch'.user = epoch.user
      /\ epoch'.booth <= epoch.booth + 1 /\ epoch'.link <= epoch.link + 1
  BY DEF Sweep, TypesOK
<1>2. /\ request' \in RequestRow /\ request'.kind = request.kind /\ request'.cut = request.cut
      /\ request'.done = "swept" /\ request.done = "none"
  BY DEF Sweep, TypesOK, RequestRow
<1>3. /\ known' \in [at : Nat, ok : BOOLEAN] /\ allowed' \in [Kinds -> Nat]
      /\ allowed'["account"] \in {allowed["account"], Never}
  <2>1. Never \in Nat
    BY RevocationAssumption DEF Never
  <2> QED
    BY <2>1 DEF Sweep, TypesOK, Kinds
<1>4. TypesOK'
  BY <1>1, <1>2, <1>3 DEF Sweep, TypesOK
<1>5. RequestsOK'
  <2>1. /\ Unswept = 1 /\ Unswept' = 0 /\ request'.kind # "none" /\ request' # NoRequest
        /\ request.kind # "deactivate"
    BY <1>2 DEF Sweep, NoRequest, Unswept
  <2> QED
    BY <1>1, <1>2, <2>1 DEF Sweep, RequestsOK, TypesOK
<1>6. /\ DOMAIN socket' = Sockets
      /\ \A s \in Sockets :
           /\ socket'[s] \in SocketRow
           /\ socket'[s].by = socket[s].by /\ socket'[s].at = socket[s].at
           /\ socket'[s].seen = socket[s].seen /\ socket'[s].answer = socket[s].answer
           /\ socket'[s].issued = socket[s].issued
           /\ s \in who => socket'[s].revoked /\ ~socket'[s].role
           /\ s \notin who => socket'[s] = socket[s]
  <2>1. socket' = Revoked(who)
    BY DEF Sweep
  <2> HIDE DEF who
  <2>2. who \in SUBSET Sockets
    BY DEF who
  <2> QED
    BY <2>1, <2>2, RevokedRows
<1>7. SocketsOK'
  <2>1. (\A s \in Sockets : SocketOK(socket[s])) /\ UNCHANGED <<account, cuts>>
    BY DEF SocketsOK, Sweep
  <2>2. \A s \in who : s \in Sockets /\ socket[s].at = "open"
    BY DEF Open
  <2> HIDE DEF who
  <2>3. ASSUME NEW s \in Sockets PROVE SocketOK(socket[s])'
    <3>1. CASE s \in who
      BY <1>1, <1>2, <1>6, <2>1, <2>2, <3>1 DEF SocketOK, SweepToCome
    <3>2. CASE s \notin who
      BY <1>1, <1>2, <1>6, <2>1, <3>2 DEF SocketOK, SweepToCome
    <3> QED
      BY <3>1, <3>2
  <2> QED
    BY <1>6, <2>3 DEF SocketsOK
<1>8. CastOK'
  <2>1. UNCHANGED <<member, cast, now, removedAt>>
    BY DEF Sweep
  <2> QED
    BY <1>3, <1>6, <2>1 DEF CastOK, Never, TypesOK, CastRow
<1> QED
  BY <1>4, <1>5, <1>7, <1>8

LEMMA CommitKeeps ==
  ASSUME StaysOut, Commit
  PROVE  StaysOut'
<1> USE RevocationAssumption DEF StaysOut, rows, caches, clock
<1>1. request' = NoRequest /\ request.done = "swept" /\ request.kind # "none"
  BY DEF Commit, RequestsOK, NoRequest
<1>2. TypesOK'
  <2>1. NoRequest \in RequestRow
    BY DEF NoRequest, RequestRow
  <2> QED
    BY <1>1, <2>1 DEF Commit, TypesOK
<1>3. RequestsOK'
  BY <1>1 DEF Commit, RequestsOK, TypesOK, NoRequest, Unswept
<1>4. SocketsOK'
  BY <1>1 DEF Commit, SocketsOK, SocketOK, SweepToCome
<1>5. CastOK'
  <2>1. CASE member /\ ~member'
    BY <2>1 DEF Commit, CastOK, Never, TypesOK, CastRow
  <2>2. CASE ~(member /\ ~member')
    BY <2>2 DEF Commit, CastOK, Never, TypesOK
  <2> QED
    BY <2>1, <2>2
<1> QED
  BY <1>2, <1>3, <1>4, <1>5

LEMMA FailKeeps ==
  ASSUME StaysOut, Fail
  PROVE  StaysOut'
<1> USE DEF StaysOut, rows, caches, clock
<1>1. TypesOK'
  BY DEF Fail, TypesOK, NoRequest, RequestRow
<1>2. RequestsOK'
  BY DEF Fail, RequestsOK, TypesOK, NoRequest, Unswept
<1>3. SocketsOK'
  BY DEF Fail, SocketsOK, SocketOK, SweepToCome
<1>4. CastOK'
  BY DEF Fail, CastOK, Never
<1> QED
  BY <1>1, <1>2, <1>3, <1>4

LEMMA RestoreKeeps ==
  ASSUME StaysOut, Restore
  PROVE  StaysOut'
<1> USE RevocationAssumption DEF StaysOut, caches, clock
<1>1. /\ account' \in [active : BOOLEAN, valid : Nat] /\ account'.valid = account.valid
      /\ member' \in BOOLEAN /\ removedAt' \in Nat
  <2>1. account' \in [active : BOOLEAN, valid : Nat] /\ account'.valid = account.valid
    BY DEF Restore, TypesOK
  <2>2. Never \in Nat
    BY DEF Never
  <2>3. member \in BOOLEAN /\ removedAt \in Nat
    BY DEF TypesOK
  <2>4. member' \in BOOLEAN /\ removedAt' \in Nat
    <3> HIDE DEF StaysOut
    <3> QED
      BY <2>2, <2>3 DEF Restore
  <2> QED
    BY <2>1, <2>4
<1>2. TypesOK'
  BY <1>1 DEF Restore, TypesOK
<1>3. RequestsOK'
  BY <1>1 DEF Restore, RequestsOK, Unswept
<1>4. SocketsOK'
  <2>1. account'.active \/ account' = account
    BY DEF Restore, TypesOK
  <2> QED
    BY <2>1 DEF Restore, SocketsOK, SocketOK, SweepToCome
<1>5. CastOK'
  BY DEF Restore, CastOK, Never
<1> QED
  BY <1>2, <1>3, <1>4, <1>5

------------------------------------------------------------------------------
(* The broadcast, the reaper and the clock.                                *)
(* A broadcast's step writes the broadcast, the cache of answers and the   *)
(* mark of those it does not let in.                                       *)
LEMMA CastStep ==
  ASSUME StaysOut, cast' \in CastRow, allowed' \in [Kinds -> Nat], CastOK', SocketsOK',
         UNCHANGED <<rows, cuts, epoch, known, request, reaper, clock, requests>>
  PROVE  StaysOut'
BY DEF StaysOut, TypesOK, RequestsOK, Unswept, rows, clock

LEMMA BeginCastKeeps ==
  ASSUME StaysOut, BeginCast
  PROVE  StaysOut'
<1> USE DEF StaysOut, rows, caches, clock
<1> DEFINE heard == {s \in Sockets : Live(s) /\ socket[s].role}
           r0 == [NoCast EXCEPT !.at = "account"]
           r1 == [r0 EXCEPT !.to = heard]
           r2 == [r1 EXCEPT !.begun = now]
<1>1. cast' = r2
  BY DEF BeginCast, NoCast
<1>2. r0 \in CastRow /\ r0.at = "account" /\ r0.asked = 0
  BY DEF NoCast, CastRow
<1>3. heard \in SUBSET Sockets
  OBVIOUS
<1> HIDE DEF r0, heard
<1>4. r1 \in CastRow /\ r1.at = "account" /\ r1.asked = 0
  BY <1>2, <1>3 DEF CastRow
<1> HIDE DEF r1
<1>5. r2 \in CastRow /\ r2.at = "account" /\ r2.asked = 0 /\ r2.begun = now
  BY <1>4 DEF CastRow, TypesOK
<1> HIDE DEF r2
<1>6. CastOK'
  <2>1. /\ cast'.at = "account" /\ cast'.asked = 0 /\ cast'.begun = now
        /\ UNCHANGED <<member, allowed, socket, now, removedAt>>
    BY <1>1, <1>5 DEF BeginCast
  <2> QED
    BY <2>1 DEF CastOK, TypesOK
<1>7. SocketsOK'
  BY DEF BeginCast, SocketsOK, SocketOK, SweepToCome
<1> QED
  BY <1>1, <1>5, <1>6, <1>7, CastStep DEF BeginCast, TypesOK


LEMMA AfterCheckKeeps ==
  ASSUME StaysOut, NEW k \in Kinds, NEW lets \in BOOLEAN, AfterCheck(k, lets),
         UNCHANGED <<account, cuts, epoch, request>>
  PROVE  /\ cast' \in CastRow /\ cast'.at = Turn(k) /\ cast'.begun = cast.begun
         /\ cast'.asked = 0 /\ cast'.lets = FALSE
         /\ cast'.to = IF lets THEN cast.to ELSE cast.to \ Sent(k)
         /\ SocketsOK' /\ \A s \in Sockets : socket'[s].by = socket[s].by
<1> USE DEF StaysOut
<1> DEFINE left == IF lets THEN cast.to ELSE cast.to \ Sent(k)
           r0 == [cast EXCEPT !.at = Turn(k)]
           r1 == [r0 EXCEPT !.to = left]
           r2 == [r1 EXCEPT !.asked = 0]
           r3 == [r2 EXCEPT !.lets = FALSE]
<1>1. cast' = r3
  BY DEF AfterCheck, TypesOK, CastRow
<1>2. left \in SUBSET Sockets
  BY DEF TypesOK, CastRow
<1>3. Turn(k) \in {"invite", "send"}
  BY DEF Turn
<1> HIDE DEF left
<1>4. r0 \in CastRow /\ r0.at = Turn(k) /\ r0.begun = cast.begun
  BY <1>3 DEF TypesOK, CastRow
<1> HIDE DEF r0
<1>5. r1 \in CastRow /\ r1.at = Turn(k) /\ r1.begun = cast.begun /\ r1.to = left
  BY <1>2, <1>4 DEF CastRow
<1> HIDE DEF r1
<1>6. r2 \in CastRow /\ r2.at = Turn(k) /\ r2.begun = cast.begun /\ r2.to = left /\ r2.asked = 0
  BY <1>5 DEF CastRow
<1> HIDE DEF r2
<1>7. /\ r3 \in CastRow /\ r3.at = Turn(k) /\ r3.begun = cast.begun /\ r3.to = left /\ r3.asked = 0
      /\ r3.lets = FALSE
  BY <1>6 DEF CastRow
<1> HIDE DEF r3
<1>8. SocketsOK' /\ \A s \in Sockets : socket'[s].by = socket[s].by
  <2>1. CASE lets
    BY <2>1 DEF AfterCheck, SocketsOK, SocketOK, SweepToCome
  <2>2. CASE ~lets
    <3> DEFINE who == {s \in Sent(k) : Open(s)}
    <3>1. socket' = Revoked(who) /\ who \in SUBSET Sockets /\ \A s \in who : Open(s)
      BY <2>2 DEF AfterCheck, Sent, TypesOK, CastRow
    <3> HIDE DEF who
    <3> QED
      BY <3>1, RevokedKeeps
  <2> QED
    BY <2>1, <2>2
<1> QED
  BY <1>1, <1>7, <1>8 DEF left

LEMMA CheckCachedKeeps ==
  ASSUME StaysOut, NEW k \in Kinds, CheckCached(k)
  PROVE  StaysOut'
<1> USE DEF StaysOut, rows, caches, clock
<1>1. /\ cast' \in CastRow /\ cast'.at = Turn(k) /\ cast'.begun = cast.begun
      /\ cast'.asked = 0 /\ cast'.lets = FALSE /\ cast'.to = cast.to
      /\ SocketsOK' /\ \A s \in Sockets : socket'[s].by = socket[s].by
  BY AfterCheckKeeps DEF CheckCached
<1>2. CastOK'
  <2>1. CASE k = "account"
    <3>1. \/ \A s \in cast.to : socket[s].by # "account"
          \/ allowed["account"] # Never /\ now - allowed["account"] < TTL
      BY <2>1 DEF CheckCached, Sent, Fresh
    <3>2. allowed["account"] \in Nat /\ cast.begun \in Nat /\ cast.to \in SUBSET Sockets
      BY DEF TypesOK, CastRow, Kinds
    <3> QED
      BY <1>1, <2>1, <3>1, <3>2, RevocationAssumption DEF CheckCached, CastOK, Turn, TypesOK, Never
  <2>2. CASE k = "invite"
    <3>1. cast.at = "invite" /\ cast'.at = "send" /\ cast.to \in SUBSET Sockets
      BY <1>1, <2>2 DEF CheckCached, Turn, TypesOK, CastRow
    <3> QED
      BY <1>1, <3>1 DEF CheckCached, CastOK, TypesOK, Never
  <2> QED
    BY <2>1, <2>2 DEF Kinds
<1> QED
  BY <1>1, <1>2, CastStep DEF CheckCached, TypesOK

LEMMA AskKeeps ==
  ASSUME StaysOut, NEW k \in Kinds, Ask(k)
  PROVE  StaysOut'
<1> USE DEF StaysOut, rows, caches, clock
<1> DEFINE next == IF k = "account" THEN "accountAnswer" ELSE "inviteAnswer"
           r0 == [cast EXCEPT !.at = next]
           r1 == [r0 EXCEPT !.asked = now]
           r2 == [r1 EXCEPT !.lets = Allowed(k)]
<1>1. cast' = r2 /\ cast.at = k
  BY DEF Ask, TypesOK, CastRow
<1>2. Allowed(k) \in BOOLEAN
  BY DEF Allowed, TypesOK
<1>3. r0 \in CastRow /\ r0.at = next /\ r0.begun = cast.begun /\ r0.to = cast.to
  BY DEF TypesOK, CastRow
<1> HIDE DEF r0
<1>4. r1 \in CastRow /\ r1.at = next /\ r1.begun = cast.begun /\ r1.to = cast.to /\ r1.asked = now
  BY <1>3 DEF TypesOK, CastRow
<1> HIDE DEF r1
<1>5. /\ r2 \in CastRow /\ r2.at = next /\ r2.begun = cast.begun /\ r2.to = cast.to /\ r2.asked = now
      /\ r2.lets = Allowed(k)
  BY <1>2, <1>4 DEF CastRow
<1> HIDE DEF r2
<1>6. CastOK'
  <2>1. UNCHANGED <<member, allowed, socket, now, removedAt>>
    BY DEF Ask
  <2>2. next = "accountAnswer" => k = "account" /\ (~member => ~Allowed(k))
    BY DEF Allowed
  <2> QED
    BY <1>1, <1>5, <2>1, <2>2 DEF CastOK, TypesOK, Kinds
<1>7. SocketsOK'
  BY DEF Ask, SocketsOK, SocketOK, SweepToCome
<1> QED
  BY <1>1, <1>5, <1>6, <1>7, CastStep DEF Ask, TypesOK

LEMMA AnswerKeeps ==
  ASSUME StaysOut, NEW k \in Kinds, Answer(k)
  PROVE  StaysOut'
<1> USE DEF StaysOut, rows, caches, clock
<1>1. cast.lets \in BOOLEAN /\ cast.to \in SUBSET Sockets /\ cast.asked \in Nat /\ cast.begun \in Nat
  BY DEF TypesOK, CastRow
<1>2. /\ cast' \in CastRow /\ cast'.at = Turn(k) /\ cast'.begun = cast.begun
      /\ cast'.asked = 0 /\ cast'.lets = FALSE
      /\ cast'.to = IF cast.lets THEN cast.to ELSE cast.to \ Sent(k)
      /\ SocketsOK' /\ \A s \in Sockets : socket'[s].by = socket[s].by
  BY <1>1, AfterCheckKeeps DEF Answer
<1>3. /\ allowed' \in [Kinds -> Nat]
      /\ k = "account" => allowed'["account"] = IF cast.lets THEN cast.asked ELSE Never
      /\ k = "invite" => allowed'["account"] = allowed["account"]
  <2>1. Never \in Nat
    BY RevocationAssumption DEF Never
  <2> QED
    BY <1>1, <2>1 DEF Answer, TypesOK, Kinds
<1>4. UNCHANGED <<member, now, removedAt>>
  BY DEF Answer
<1>5. CastOK'
  <2>1. CASE k = "account"
    <3>1. cast.at = "accountAnswer" /\ cast'.at = "invite"
      BY <1>2, <2>1 DEF Answer, Turn
    <3>2. ~cast.lets => \A s \in cast'.to : socket[s].by # "account"
      BY <1>2, <2>1 DEF Sent
    <3> QED
      BY <1>1, <1>2, <1>3, <1>4, <2>1, <3>1, <3>2, RevocationAssumption DEF CastOK, TypesOK, Never
  <2>2. CASE k = "invite"
    <3>1. cast.at = "inviteAnswer" /\ cast'.at = "send" /\ cast'.to \subseteq cast.to
      BY <1>2, <2>2 DEF Answer, Turn
    <3> QED
      BY <1>1, <1>2, <1>3, <1>4, <2>2, <3>1 DEF CastOK, TypesOK, Never
  <2> QED
    BY <2>1, <2>2 DEF Kinds
<1> QED
  BY <1>2, <1>3, <1>5, CastStep DEF Answer


LEMMA CheckFailsKeeps ==
  ASSUME StaysOut, NEW k \in Kinds, CheckFails(k)
  PROVE  StaysOut'
<1> USE DEF StaysOut, rows, caches, clock
<1> DEFINE left == cast.to \ Sent(k)
           r0 == [cast EXCEPT !.at = Turn(k)]
           r1 == [r0 EXCEPT !.to = left]
           r2 == [r1 EXCEPT !.asked = 0]
           r3 == [r2 EXCEPT !.lets = FALSE]
<1>1. cast' = r3
  BY DEF CheckFails, TypesOK, CastRow
<1>2. left \in SUBSET Sockets /\ Turn(k) \in {"invite", "send"}
  BY DEF TypesOK, CastRow, Turn
<1> HIDE DEF left
<1>3. r0 \in CastRow /\ r0.at = Turn(k) /\ r0.begun = cast.begun
  BY <1>2 DEF TypesOK, CastRow
<1> HIDE DEF r0
<1>4. r1 \in CastRow /\ r1.at = Turn(k) /\ r1.begun = cast.begun /\ r1.to = left
  BY <1>2, <1>3 DEF CastRow
<1> HIDE DEF r1
<1>5. r2 \in CastRow /\ r2.at = Turn(k) /\ r2.begun = cast.begun /\ r2.to = left /\ r2.asked = 0
  BY <1>4 DEF CastRow
<1> HIDE DEF r2
<1>6. r3 \in CastRow /\ r3.at = Turn(k) /\ r3.begun = cast.begun /\ r3.to = left /\ r3.asked = 0
  BY <1>5 DEF CastRow
<1> HIDE DEF r3
<1>7. CastOK'
  <2>1. UNCHANGED <<member, allowed, socket, now, removedAt>>
    BY DEF CheckFails
  <2>2. CASE k = "account"
    <3>1. \A s \in left : socket[s].by # "account"
      BY <2>2 DEF left, Sent
    <3> QED
      BY <1>1, <1>6, <2>1, <2>2, <3>1 DEF CastOK, TypesOK, Turn
  <2>3. CASE k = "invite"
    <3>1. left \subseteq cast.to /\ cast.at = "inviteAnswer"
      BY <2>3 DEF left, CheckFails
    <3> QED
      BY <1>1, <1>6, <2>1, <2>3, <3>1 DEF CastOK, TypesOK, Turn
  <2> QED
    BY <2>2, <2>3 DEF Kinds
<1>8. SocketsOK'
  BY DEF CheckFails, SocketsOK, SocketOK, SweepToCome
<1> QED
  BY <1>1, <1>6, <1>7, <1>8, CastStep DEF CheckFails, TypesOK

LEMMA SendKeeps ==
  ASSUME StaysOut, NEW s \in Sockets, Send(s)
  PROVE  StaysOut'
<1> USE DEF StaysOut, rows, caches, clock
<1> DEFINE left == cast.to \ {s}
           row == [cast EXCEPT !.to = left]
<1>1. left \in SUBSET Sockets /\ left \subseteq cast.to
  BY DEF TypesOK, CastRow
<1>2. UNCHANGED <<member, allowed, socket, now, removedAt>> /\ cast.at = "send"
  BY DEF Send
<1>3. cast' = NoCast \/ cast' = row
  BY DEF Send
<1> HIDE DEF left
<1>4. row \in CastRow /\ row.at = "send" /\ row.begun = cast.begun /\ row.to = left /\ row.asked = cast.asked
  BY <1>1, <1>2 DEF TypesOK, CastRow
<1>5. NoCast \in CastRow /\ NoCast.at = "idle" /\ NoCast.to = {} /\ NoCast.begun = 0 /\ NoCast.asked = 0
  BY DEF NoCast, CastRow
<1> HIDE DEF row
<1>6. CastOK'
  <2>1. CASE cast' = NoCast
    BY <1>2, <1>5, <2>1 DEF CastOK, TypesOK
  <2>2. CASE cast' = row
    BY <1>1, <1>2, <1>4, <2>2 DEF CastOK, TypesOK
  <2> QED
    BY <1>3, <2>1, <2>2
<1>7. SocketsOK'
  BY DEF Send, SocketsOK, SocketOK, SweepToCome
<1> QED
  BY <1>3, <1>4, <1>5, <1>6, <1>7, CastStep DEF Send, TypesOK

LEMMA WithheldKeeps ==
  ASSUME StaysOut, Withheld
  PROVE  StaysOut'
<1> USE DEF StaysOut, rows, caches, clock
<1>1. NoCast \in CastRow /\ NoCast.at = "idle" /\ NoCast.to = {} /\ NoCast.begun = 0 /\ NoCast.asked = 0
  BY DEF NoCast, CastRow
<1>2. cast' = NoCast /\ UNCHANGED <<member, allowed, socket, now, removedAt>>
  BY DEF Withheld
<1>3. CastOK'
  BY <1>1, <1>2 DEF CastOK, TypesOK
<1>4. SocketsOK'
  BY DEF Withheld, SocketsOK, SocketOK, SweepToCome
<1> QED
  BY <1>1, <1>2, <1>3, <1>4, CastStep DEF Withheld, TypesOK

LEMMA ReadKeeps ==
  ASSUME StaysOut, Read
  PROVE  StaysOut'
<1> USE DEF StaysOut, rows, caches, clock
<1>1. reaper' \in PassRow
  BY DEF Read, PassRow, TypesOK
<1>2. TypesOK' /\ RequestsOK'
  BY <1>1 DEF Read, TypesOK, RequestsOK, Unswept
<1>3. SocketsOK'
  BY DEF Read, SocketsOK, SocketOK, SweepToCome
<1>4. CastOK'
  BY DEF Read, CastOK, Never
<1> QED
  BY <1>2, <1>3, <1>4

LEMMA ReapKeeps ==
  ASSUME StaysOut, Reap
  PROVE  StaysOut'
<1> USE DEF StaysOut, rows, caches, clock
<1> DEFINE who == {s \in reaper.of : Stale(s)}
<1>1. socket' = Revoked(who) /\ who \in SUBSET Sockets /\ \A s \in who : Open(s)
  BY DEF Reap, Stale, Live, TypesOK, PassRow
<1>2. NoPass \in PassRow
  BY DEF NoPass, PassRow
<1> HIDE DEF who
<1>3. SocketsOK' /\ \A s \in Sockets : socket'[s].by = socket[s].by
  BY <1>1, RevokedKeeps DEF Reap
<1>4. TypesOK' /\ RequestsOK'
  BY <1>2 DEF Reap, TypesOK, RequestsOK, Unswept
<1>5. CastOK'
  BY <1>3 DEF Reap, CastOK, Never, TypesOK, CastRow
<1> QED
  BY <1>3, <1>4, <1>5

LEMMA TickKeeps ==
  ASSUME StaysOut, Tick
  PROVE  StaysOut'
<1> USE DEF StaysOut, rows, caches
<1>1. now' = now + 1 /\ now' \in Nat /\ UNCHANGED <<rows, cuts, epoch, socket, request, cast, reaper, removedAt, requests>>
  BY DEF Tick, TypesOK
<1>2. /\ known' \in [at : Nat, ok : BOOLEAN] /\ allowed' \in [Kinds -> Nat]
      /\ allowed'["account"] \in {allowed["account"], Never}
  <2>1. Never \in Nat
    BY RevocationAssumption DEF Never
  <2>2. known' \in [at : Nat, ok : BOOLEAN]
    BY <2>1 DEF Tick, TypesOK
  <2>3. allowed' \in [Kinds -> Nat] /\ allowed'["account"] \in {allowed["account"], Never}
    BY <2>1 DEF Tick, TypesOK, Kinds
  <2> QED
    BY <2>2, <2>3
<1>3. TypesOK' /\ RequestsOK'
  BY <1>1, <1>2 DEF TypesOK, RequestsOK, Unswept
<1>4. SocketsOK'
  BY <1>1 DEF SocketsOK, SocketOK, SweepToCome
<1>5. CastOK'
  <2>1. UNCHANGED <<member, cast, socket, removedAt>> /\ now <= now'
    BY <1>1 DEF TypesOK, rows
  <2>2. /\ cast.begun \in Nat /\ cast.asked \in Nat /\ allowed["account"] \in Nat
        /\ now \in Nat /\ removedAt \in Nat
    BY DEF TypesOK, CastRow, Kinds
  <2> HIDE DEF StaysOut, rows, caches
  <2> QED
    BY <1>1, <1>2, <2>1, <2>2 DEF StaysOut, CastOK, Never
<1> QED
  BY <1>3, <1>4, <1>5

------------------------------------------------------------------------------
(* Every step, and no step.                                                *)
LEMMA StaysOutStep == StaysOut /\ [RevocationNext]_revocationVars => StaysOut'
<1> SUFFICES ASSUME StaysOut, [RevocationNext]_revocationVars PROVE StaysOut'
  OBVIOUS
<1>1. ASSUME NEW s \in Sockets,
             \/ Connect(s) \/ ReadAccount(s) \/ ReadRole(s) \/ AskLink(s) \/ LinkRead(s) \/ Register(s)
             \/ HangUp(s) \/ FinishClose(s) \/ Send(s)
      PROVE  StaysOut'
  BY <1>1, ConnectKeeps, ReadAccountKeeps, ReadRoleKeeps, AskLinkKeeps, LinkReadKeeps, RegisterKeeps,
     RemoveKeeps, SendKeeps DEF HangUp, FinishClose
<1>2. ASSUME NEW kind \in Kind, NEW stays \in BOOLEAN, Begin(kind, stays) PROVE StaysOut'
  BY <1>2, BeginKeeps
<1>3. CASE CommitAccount \/ SweepAccount \/ Sweep \/ Commit \/ Fail \/ Restore
  BY <1>3, CommitAccountKeeps, SweepAccountKeeps, SweepKeeps, CommitKeeps, FailKeeps, RestoreKeeps
<1>4. CASE BeginCast \/ Withheld
  BY <1>4, BeginCastKeeps, WithheldKeeps
<1>5. ASSUME NEW k \in Kinds, CheckCached(k) \/ Ask(k) \/ Answer(k) \/ CheckFails(k) PROVE StaysOut'
  BY <1>5, CheckCachedKeeps, AskKeeps, AnswerKeeps, CheckFailsKeeps
<1>6. CASE Read \/ Reap \/ Tick
  BY <1>6, ReadKeeps, ReapKeeps, TickKeeps
<1>7. CASE UNCHANGED revocationVars
  BY <1>7 DEF revocationVars, rows, caches, clock, StaysOut, TypesOK, RequestsOK, Unswept,
              SocketsOK, SocketOK, SweepToCome, CastOK, Never
<1> QED
  BY <1>1, <1>2, <1>3, <1>4, <1>5, <1>6, <1>7 DEF RevocationNext, Kind

(* However handshakes, requests, broadcasts and the reaper interleave: a   *)
(* deactivated account keeps no live socket, and a removed member is not   *)
(* sent what begins later than the cache's time (close_user_sessions,      *)
(* check_booth_memberships, ws_booth's epoch comparison).                  *)
THEOREM RevocationHolds == RevocationSpec => []RevocationInv
<1>1. RevocationInit => StaysOut
  BY StaysOutInit
<1>2. StaysOut /\ [RevocationNext]_revocationVars => StaysOut'
  BY StaysOutStep
<1>3. StaysOut => RevocationInv
  BY StaysOutSuffices
<1> QED
  BY <1>1, <1>2, <1>3, PTL DEF RevocationSpec
=============================================================================
