----------------------------- MODULE EventTeam -----------------------------
(***************************************************************************)
(* Who has which role for one whole event: the Team page (portal/team.py), *)
(* the older Members page and the setup wizard's invitations (portal/      *)
(* routers/admin.py), the OAuth API's organisers (api_v1.py) and the       *)
(* deletion of an account.  A request reads, decides, and commits later,   *)
(* and the Team page looks twice.  The unique index on person and event    *)
(* makes one of two first assignments fail, an UPDATE of a row that is     *)
(* gone fails its request, and a DELETE of one does nothing.               *)
(***************************************************************************)
EXTENDS FiniteSets, Naturals

CONSTANTS Request, User, NoOne

(* The roles that can be given for a whole event; "" is none.              *)
EventRole == {"event_owner", "room_coordinator", "interpreter"}

VARIABLES role,   \* person -> the role, "" or "deleted" (no account)
          req     \* request -> what it decided, and the row it read: the
                  \* role it had, "" if there was none, "gone" once deleted

teamVars == <<role, req>>

NoReq == [op |-> "idle", user |-> NoOne, to |-> "", from |-> ""]

(* An event starts with the person who created it as its owner.            *)
TeamInit == /\ \E u \in User : role = [x \in User |-> IF x = u THEN "event_owner" ELSE ""]
            /\ req = [q \in Request |-> NoReq]

Owners == {u \in User : role[u] = "event_owner"}
AnotherOwner == Cardinality(Owners) > 1

Row(u) == IF role[u] \in EventRole THEN role[u] ELSE ""

Reads(q, op, u, to) ==
  /\ req[q] = NoReq /\ role[u] # "deleted"
  /\ req' = [req EXCEPT ![q] = [op |-> op, user |-> u, to |-> to, from |-> Row(u)]]
  /\ UNCHANGED role

(* The Team page finds the assignment, counts the owners if it is an       *)
(* owner's, and looks the assignment up again to change it.  A role that   *)
(* is there already is left alone.                                         *)
AddMember(q, u, to) ==
  role[u] # to /\ Reads(q, IF role[u] = "event_owner" THEN "count" ELSE "look", u, to)

RemoveAssignment(q, u) ==
  role[u] # "" /\ Reads(q, IF role[u] = "event_owner" THEN "count" ELSE "remove", u, "")

EnsureAnotherOwner(q) ==
  /\ req[q].op = "count"
  /\ req' = [req EXCEPT ![q] =
               IF ~AnotherOwner THEN NoReq
               ELSE [@ EXCEPT !.op = IF req[q].to = "" THEN "remove" ELSE "look"]]
  /\ UNCHANGED role

(* The session has the row of the first look with the role it had then;    *)
(* it finds another row, or none, only if that one is gone.                *)
LookAgain(q) ==
  /\ req[q].op = "look"
  /\ req' = [req EXCEPT ![q].op = "set",
               ![q].from = IF @ \in EventRole THEN @ ELSE Row(req[q].user)]
  /\ UNCHANGED role

(* The Members page: a role sets it, no role removes it.                   *)
AddEventMember(q, u, to) == Reads(q, IF to = "" THEN "remove" ELSE "set", u, to)

(* The wizard's invitation.                                                *)
SetupInvite(q, u, to) == to # "" /\ Reads(q, "set", u, to)

(* The OAuth API's create_event names organisers.                          *)
ApiOrganiser(q, u) == Reads(q, "organise", u, "event_owner")

DeleteAccount(q, u) == Reads(q, "delete", u, "")

(* The role the row has after the request's write.  A new row needs the    *)
(* account, and nobody else's row: the OAuth API changes that one then.    *)
Writes(q, u) ==
  LET d == req[q] IN
  CASE d.op \in {"set", "organise"} /\ d.from = "" ->
         {x \in {d.to} : role[u] = "" \/ (d.op = "organise" /\ role[u] \in EventRole)}
    [] d.op \in {"set", "organise"} /\ d.from \in EventRole ->
         {IF d.from = d.to THEN role[u] ELSE d.to}
    [] d.op = "remove" -> {IF d.from \in EventRole THEN "" ELSE role[u]}
    [] d.op = "delete" -> {"deleted"}
    [] OTHER -> {}

(* slip: an assignment that is gone is made again. *)
NeverMissed(from) == from

(* What a request has of a row that somebody else deleted.                 *)
Missed(from) == IF from = "" THEN "" ELSE "gone"

CommitRole(q) ==
  LET u == req[q].user IN
  /\ req[q] # NoReq
  /\ \E x \in Writes(q, u) :
       /\ role' = [role EXCEPT ![u] = x]
       /\ req' = [p \in Request |->
            IF p = q THEN NoReq
            ELSE IF req[p].user = u /\ x \notin EventRole
              THEN [req[p] EXCEPT !.from = Missed(@)]
            ELSE req[p]]

(* The database refuses the write, or the request fails on its way.        *)
RollbackRole(q) ==
  /\ req[q] # NoReq
  /\ req' = [req EXCEPT ![q] = NoReq]
  /\ UNCHANGED role

TeamNext ==
  \E q \in Request :
    \/ \E u \in User :
         \/ \E to \in EventRole : AddMember(q, u, to) \/ SetupInvite(q, u, to)
         \/ \E to \in EventRole \cup {""} : AddEventMember(q, u, to)
         \/ RemoveAssignment(q, u) \/ ApiOrganiser(q, u) \/ DeleteAccount(q, u)
    \/ EnsureAnotherOwner(q) \/ LookAgain(q) \/ CommitRole(q) \/ RollbackRole(q)

TeamSpec == TeamInit /\ [][TeamNext]_teamVars

------------------------------------------------------------------------------
(* Whoever is without a role in the event gets one only from a request     *)
(* whose last look found them without: no change of a role that somebody   *)
(* else took away meanwhile, or whose row was replaced, gives it back, and *)
(* nobody whose account was deleted is left on the team.  A request that   *)
(* had found none is not stopped: the Team page's first look is no look,   *)
(* and what it saw there may have been removed before the second.          *)
GivenToRoleless ==
  [][\A u \in User : Row(u) = "" /\ role'[u] \in EventRole =>
       /\ role[u] = ""
       /\ \E q \in Request : /\ req[q].user = u /\ req[q].from = ""
                             /\ req[q].op \in {"set", "organise"}]_teamVars
==============================================================================
