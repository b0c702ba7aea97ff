---------------------------- MODULE FloorPublish ----------------------------
(***************************************************************************)
(* Who may publish a room's floor (portal/program_ingest.py and            *)
(* portal/routers/program_ingest.py): MediaMTX asks the portal about every *)
(* publisher; owners enable, rotate, revoke and disable program ingest and *)
(* open and close browser senders; a loop reconciles the rooms with the    *)
(* paths MediaMTX reported.  Each of these holds the room's lock.  Calls   *)
(* to MediaMTX are made under the lock, but MediaMTX itself moves on: an   *)
(* authorised session becomes the source of the path when it likes.        *)
(* Whether a publisher of a room is on the path only MediaMTX knows, so a  *)
(* kick and the commit after it are one step: nothing reads rows between.  *)
(***************************************************************************)
EXTENDS FiniteSets, Naturals

CONSTANTS Room, Session, None,
          MaxRooms,    \* program_ingest_max_rooms
          MaxPortalRestarts  \* bound: how often the portal is restarted

ASSUME FloorAssumption == MaxRooms \in Nat \ {0} /\ MaxPortalRestarts \in Nat

VARIABLES row,      \* the room's columns: source, relay mode, credentials, session id
          reserved, \* age of health.reservation_started_at
          missing,  \* health.missing_since is set
          lock,     \* the handler that holds the room's lock
          pub,      \* what each MediaMTX session is at
          todo,     \* rooms the reconcile pass has still to do
          unlisted, \* the rooms it leaves out, until it forgets their health
          snap,     \* the source of each path when the pass listed them
          restarts  \* history: restarts so far

floorVars == <<row, reserved, missing, lock, pub, todo, unlisted, snap, restarts>>

(* An expired key is as good as none; an expired secret can still close.   *)
Credential == {"none", "valid", "expired"}
Age == {"none", "new", "pending", "old"}   \* under 5 s, under 15 s, older
Op == {"none", "auth", "enable", "relay", "rotate", "disable", "revoke", "open"}
Kind == {"rtmp", "encoder", "sender"}      \* RTMPS, WHIP with the key, WHIP with a sender secret

Unlocked == [op |-> "none", by |-> None, seen |-> None]
Off == [at |-> "off", room |-> None, as |-> "rtmp", good |-> FALSE]

FloorTypeOK ==
  /\ row \in [Room -> [source : {"bot", "program"}, relay : BOOLEAN,
                       key : {"none", "valid"}, secret : Credential, sid : Session \cup {None}]]
  /\ reserved \in [Room -> Age] /\ missing \in [Room -> BOOLEAN]
  /\ lock \in [Room -> [op : Op, by : Session \cup {None}, seen : Session \cup {None}]]
  /\ pub \in [Session -> [at : {"off", "asking", "allowed", "live"}, room : Room \cup {None},
                          as : Kind, good : BOOLEAN]]
  /\ todo \subseteq Room /\ unlisted \subseteq Room
  /\ snap \in [Room -> Session \cup {None}] /\ restarts \in 0 .. MaxPortalRestarts
  /\ \A r \in Room : row[r].relay => row[r].secret = "none"   \* no browser session

FloorInit ==
  /\ row = [r \in Room |-> [source |-> "bot", relay |-> FALSE, key |-> "none",
                            secret |-> "none", sid |-> None]]
  /\ reserved = [r \in Room |-> "none"] /\ missing = [r \in Room |-> FALSE]
  /\ lock = [r \in Room |-> Unlocked]
  /\ pub = [p \in Session |-> Off]
  /\ todo = {} /\ unlisted = {} /\ snap = [r \in Room |-> None] /\ restarts = 0

Free(r) == lock[r].op = "none"
Source(r) == IF \E p \in Session : pub[p].at = "live" /\ pub[p].room = r
             THEN CHOOSE p \in Session : pub[p].at = "live" /\ pub[p].room = r ELSE None

(* kick: sessions that are gone already count as kicked.                   *)
Kicked(gone) == [p \in Session |-> IF p \in gone THEN Off ELSE pub[p]]

(* Publishers that are still asking with a credential that was replaced.   *)
Retired(pubs, r, kinds) == [p \in Session |->
  IF pubs[p].at = "asking" /\ pubs[p].room = r /\ pubs[p].as \in kinds
  THEN [pubs[p] EXCEPT !.good = FALSE] ELSE pubs[p]]

------------------------------------------------------------------------------
(* MediaMTX: sessions come, become the source of a free path, and go.      *)
Ask(p, r, kind) ==
  /\ pub[p].at = "off"
  /\ \A q \in Room : row[q].sid # p /\ snap[q] # p /\ lock[q].seen # p
  /\ IF kind = "sender" THEN row[r].secret # "none" ELSE row[r].key # "none"
  /\ pub' = [pub EXCEPT ![p] = [at |-> "asking", room |-> r, as |-> kind, good |-> TRUE]]
  /\ UNCHANGED <<row, reserved, missing, lock, todo, unlisted, snap, restarts>>

GoLive(p) ==
  /\ pub[p].at = "allowed"
  /\ pub' = [pub EXCEPT ![p] = IF Source(pub[p].room) = None THEN [@ EXCEPT !.at = "live"] ELSE Off]
  /\ UNCHANGED <<row, reserved, missing, lock, todo, unlisted, snap, restarts>>

Drop(p) ==
  /\ pub[p].at \in {"allowed", "live"}
  /\ pub' = [pub EXCEPT ![p] = Off]
  /\ UNCHANGED <<row, reserved, missing, lock, todo, unlisted, snap, restarts>>

------------------------------------------------------------------------------
(* authorize_publish.                                                      *)
Permitted(p) == LET r == pub[p].room IN
  /\ row[r].source = "program" /\ pub[p].good
  /\ IF row[r].relay THEN pub[p].as = "rtmp" /\ row[r].key = "valid"
     ELSE \/ pub[p].as = "encoder" /\ row[r].key = "valid"
          \/ pub[p].as = "sender" /\ row[r].secret = "valid"

Taken(r, p) == row[r].sid \notin {None, p}

(* A reservation no source stands for any more is cleared, unless recent.  *)
Clearable(r, p) == Taken(r, p) /\ reserved[r] # "new" /\ Source(r) = None

Refuse(p) ==
  /\ pub' = [pub EXCEPT ![p] = Off]
  /\ UNCHANGED <<row, reserved, missing, todo, unlisted, snap, restarts>>

(* Under the lock: the credential, then a reservation in the way.  Media   *)
(* control may fail (503).                                                 *)
AuthStart(p) == LET r == pub[p].room IN
  /\ pub[p].at = "asking" /\ Free(r)
  /\ \/ /\ ~Permitted(p) \/ (Taken(r, p) /\ ~Clearable(r, p))
        /\ Refuse(p) /\ UNCHANGED lock
     \/ /\ Permitted(p) /\ Taken(r, p) => Clearable(r, p)
        /\ row' = [row EXCEPT ![r].sid = IF Taken(r, p) THEN None ELSE @]
        /\ reserved' = [reserved EXCEPT ![r] = IF Taken(r, p) THEN "none" ELSE @]
        /\ missing' = [missing EXCEPT ![r] = @ /\ ~Taken(r, p)]
        /\ lock' = [lock EXCEPT ![r] = [op |-> "auth", by |-> p, seen |-> None]]
        /\ UNCHANGED <<pub, todo, unlisted, snap, restarts>>

Count == Cardinality({q \in Room : row[q].sid # None /\ row[q].source = "program"})

Full(r) == row[r].sid = None /\ Count >= MaxRooms

(* Under the capacity lock: checked again, counted and reserved.           *)
AuthReserve(p) == LET r == pub[p].room IN
  /\ pub[p].at = "asking" /\ lock[r].op = "auth" /\ lock[r].by = p
  /\ lock' = [lock EXCEPT ![r] = Unlocked]
  /\ IF ~Permitted(p) \/ Full(r) THEN Refuse(p)
     ELSE /\ row' = [row EXCEPT ![r].sid = p]
          /\ reserved' = [reserved EXCEPT ![r] = "new"]
          /\ missing' = [missing EXCEPT ![r] = FALSE]
          /\ pub' = [pub EXCEPT ![p].at = "allowed"]
          /\ UNCHANGED <<todo, unlisted, snap, restarts>>

------------------------------------------------------------------------------
(* ingest_change: the path is looked up, its source and the reserved       *)
(* session are kicked, then the columns set.  Revoking commits the loss    *)
(* of the credentials first.                                               *)
Change(r, op) ==
  /\ Free(r)
  /\ op \in {"rotate", "revoke"} => row[r].source = "program"
  /\ lock' = [lock EXCEPT ![r] = [op |-> op, by |-> None, seen |-> Source(r)]]
  /\ IF op = "revoke"
     THEN /\ row' = [row EXCEPT ![r].key = "none", ![r].secret = "none", ![r].sid = None]
          /\ pub' = Retired(pub, r, Kind)
     ELSE UNCHANGED <<row, pub>>
  /\ UNCHANGED <<reserved, missing, todo, unlisted, snap, restarts>>

ToKick(r) == {lock[r].seen, row[r].sid} \ {None}

(* slip: the reservation is left to the reconcile loop                     *)
ConfiguredKeeping(r) == LET op == lock[r].op IN
  [source |-> IF op = "disable" THEN "bot" ELSE "program",
   relay |-> op = "relay" \/ (op \in {"rotate", "revoke"} /\ row[r].relay),
   key |-> IF op \in {"enable", "relay", "rotate"} THEN "valid" ELSE "none",
   secret |-> "none", sid |-> row[r].sid]

Configured(r) == LET op == lock[r].op IN
  [source |-> IF op = "disable" THEN "bot" ELSE "program",
   relay |-> op = "relay" \/ (op \in {"rotate", "revoke"} /\ row[r].relay),
   key |-> IF op \in {"enable", "relay", "rotate"} THEN "valid" ELSE "none",
   secret |-> "none", sid |-> None]

Configure(r) ==
  /\ lock[r].op \in {"enable", "relay", "rotate", "disable", "revoke"}
  /\ pub' = Retired(Kicked(ToKick(r)), r, Kind)
  /\ row' = [row EXCEPT ![r] = Configured(r)]
  /\ reserved' = [reserved EXCEPT ![r] = "none"] /\ missing' = [missing EXCEPT ![r] = FALSE]
  /\ lock' = [lock EXCEPT ![r] = Unlocked]
  /\ UNCHANGED <<todo, unlisted, snap, restarts>>

(* open_sender_session: refused in relay mode, and while another source is *)
(* there or has only just been let in; takes the floor from the bot.       *)
OpenSender(r) ==
  /\ Free(r)
  /\ row[r].source = "program" =>
       ~row[r].relay /\ Source(r) = None /\ reserved[r] \notin {"new", "pending"}
  /\ lock' = [lock EXCEPT ![r] = [op |-> "open", by |-> None, seen |-> Source(r)]]
  /\ UNCHANGED <<row, reserved, missing, pub, todo, unlisted, snap, restarts>>

Opened(r) ==
  /\ lock[r].op = "open"
  /\ pub' = Retired(Kicked(ToKick(r)), r, {"sender"})
  /\ row' = [row EXCEPT ![r].source = "program", ![r].relay = FALSE,
                        ![r].secret = "valid", ![r].sid = None]
  /\ reserved' = [reserved EXCEPT ![r] = "new"] /\ missing' = [missing EXCEPT ![r] = FALSE]
  /\ lock' = [lock EXCEPT ![r] = Unlocked]
  /\ UNCHANGED <<todo, unlisted, snap, restarts>>

(* Media control fails: what was kicked is gone, the columns are not       *)
(* written (those of a revocation already were).                           *)
Fails(r) ==
  /\ lock[r].op \notin {"none", "auth"}
  /\ \E gone \in SUBSET ToKick(r) : pub' = Kicked(gone)
  /\ lock' = [lock EXCEPT ![r] = Unlocked]
  /\ UNCHANGED <<row, reserved, missing, todo, unlisted, snap, restarts>>

(* close_sender_session, with the secret of the sender opened last; any    *)
(* other secret changes nothing.  A kick that fails is left to reconcile.  *)
CloseSender(r) ==
  /\ Free(r) /\ row[r].secret # "none"
  /\ \/ /\ pub' = Retired(Kicked({row[r].sid} \ {None}), r, {"sender"})
        /\ row' = [row EXCEPT ![r].secret = "none", ![r].sid = None]
        /\ reserved' = [reserved EXCEPT ![r] = "none"] /\ missing' = [missing EXCEPT ![r] = FALSE]
     \/ /\ row[r].sid # None
        /\ pub' = Retired(pub, r, {"sender"})
        /\ row' = [row EXCEPT ![r].secret = "none"]
        /\ UNCHANGED <<reserved, missing>>
  /\ UNCHANGED <<lock, todo, unlisted, snap, restarts>>

------------------------------------------------------------------------------
(* The reconcile loop: one listing of the paths, then room by room.        *)
Listing ==
  /\ todo = {} /\ unlisted = {}
  /\ todo' = {r \in Room : row[r].source = "program"} /\ unlisted' = Room \ todo'
  /\ snap' = [r \in Room |-> Source(r)]
  /\ UNCHANGED <<row, reserved, missing, lock, pub, restarts>>

(* The reserved session stays although its credential ran out; any other   *)
(* source is an outsider.                                                  *)
(* slip: only where there is a reservation to compare with                 *)
OutsiderIfReserved(r) == row[r].sid # None /\ snap[r] \notin {None, row[r].sid}

Outsider(r) == snap[r] # None /\ snap[r] # row[r].sid

(* The grace counts from the reservation, else from when the feed was first *)
(* missed; how long it is is a setting.                                    *)
(* slip: only from when the feed was first missed                          *)
GraceMayBeOverMissing(r) == reserved[r] # "none" \/ missing[r]

GraceMayBeOver(r) == IF reserved[r] # "none" THEN reserved[r] = "old" ELSE missing[r]

Feed(r, ready) == IF Outsider(r) \/ ~ready THEN None ELSE snap[r]

NoFeed(r, over) ==
  /\ IF over
     THEN /\ GraceMayBeOver(r)
          /\ pub' = Kicked({row[r].sid, IF Outsider(r) THEN snap[r] ELSE None} \ {None})
          /\ row' = [row EXCEPT ![r].sid = None]
          /\ reserved' = [reserved EXCEPT ![r] = "none"]
          /\ missing' = [missing EXCEPT ![r] = @ \/ reserved[r] = "none"]
     ELSE /\ pub' = Kicked({IF Outsider(r) THEN snap[r] ELSE None} \ {None})
          /\ missing' = [missing EXCEPT ![r] = @ \/ reserved[r] = "none"]
          /\ UNCHANGED <<row, reserved>>

Reconcile(r, ready, over) ==
  /\ r \in todo /\ Free(r)
  /\ todo' = todo \ {r} /\ snap' = [snap EXCEPT ![r] = None]
  /\ \/ /\ row[r].source # "program"
        /\ UNCHANGED <<row, reserved, missing, pub>>
     \/ /\ row[r].source = "program" /\ Feed(r, ready) = None
        /\ NoFeed(r, over)
     \/ /\ row[r].source = "program" /\ Feed(r, ready) # None
        /\ reserved' = [reserved EXCEPT ![r] = "none"]
        /\ missing' = [missing EXCEPT ![r] = FALSE]
        /\ UNCHANGED <<row, pub>>
  /\ UNCHANGED <<lock, unlisted, restarts>>

ReconcileFails(r) ==
  /\ r \in todo /\ Free(r)
  /\ todo' = todo \ {r} /\ snap' = [snap EXCEPT ![r] = None]
  /\ UNCHANGED <<row, reserved, missing, lock, pub, unlisted, restarts>>

(* At its end the pass forgets the health of the rooms it did not list,    *)
(* one that was enabled meanwhile included.                                *)
PassOver ==
  /\ todo = {} /\ unlisted # {} /\ unlisted' = {}
  /\ reserved' = [r \in Room |-> IF r \in unlisted THEN "none" ELSE reserved[r]]
  /\ missing' = [r \in Room |-> missing[r] /\ r \notin unlisted]
  /\ UNCHANGED <<row, lock, pub, todo, snap, restarts>>

------------------------------------------------------------------------------
(* Time, and a restart of the portal: locks and health are lost.           *)
Grow(r) ==
  /\ reserved[r] \in {"new", "pending"}
  /\ reserved' = [reserved EXCEPT ![r] = IF @ = "new" THEN "pending" ELSE "old"]
  /\ UNCHANGED <<row, missing, lock, pub, todo, unlisted, snap, restarts>>

Expire(r) ==
  /\ \/ row[r].key = "valid" /\ row' = [row EXCEPT ![r].key = "none"]
     \/ row[r].secret = "valid" /\ row' = [row EXCEPT ![r].secret = "expired"]
  /\ UNCHANGED <<reserved, missing, lock, pub, todo, unlisted, snap, restarts>>

Restart ==
  /\ restarts < MaxPortalRestarts /\ restarts' = restarts + 1
  /\ reserved' = [r \in Room |-> "none"] /\ missing' = [r \in Room |-> FALSE]
  /\ lock' = [r \in Room |-> Unlocked]
  /\ pub' = [p \in Session |-> IF pub[p].at = "asking" THEN Off ELSE pub[p]]
  /\ todo' = {} /\ unlisted' = {} /\ snap' = [r \in Room |-> None]
  /\ UNCHANGED row

(* What happens in some of the rooms.                                      *)
FloorNextIn(rooms) ==
  \/ \E p \in Session : \/ \E r \in rooms, kind \in Kind : Ask(p, r, kind)
                        \/ GoLive(p) \/ Drop(p)
                        \/ pub[p].at = "asking" /\ (AuthStart(p) \/ AuthReserve(p))
  \/ \E r \in rooms : \/ \E op \in Op \ {"none", "auth", "open"} : Change(r, op)
                      \/ Configure(r) \/ OpenSender(r) \/ Opened(r) \/ Fails(r) \/ CloseSender(r)
                      \/ \E ready, over \in BOOLEAN : Reconcile(r, ready, over)
                      \/ ReconcileFails(r) \/ Grow(r) \/ Expire(r)
  \/ Listing \/ PassOver \/ Restart

FloorNext == FloorNextIn(Room)

(* The loop runs for ever and outlives failures; media control and the     *)
(* portal do not fail for ever; handlers end; clocks run.                  *)
FloorFairness ==
  /\ SF_floorVars(Listing /\ todo' # {}) /\ WF_floorVars(PassOver)
  /\ \A r \in Room :
       /\ SF_floorVars(Reconcile(r, TRUE, FALSE) \/ Reconcile(r, TRUE, TRUE))
       /\ SF_floorVars(Reconcile(r, TRUE, TRUE))
       /\ WF_floorVars(Configure(r) \/ Opened(r) \/ Fails(r)) /\ WF_floorVars(Grow(r))
  /\ \A p \in Session : WF_floorVars(pub[p].at = "asking" /\ AuthReserve(p))

FloorSpec == FloorInit /\ [][FloorNext]_floorVars /\ FloorFairness

------------------------------------------------------------------------------
(* "Keep the cross-room lock around only the capacity transaction": rooms  *)
(* that authorise at the same time never reserve more floors than allowed. *)
CapacityHeld == Count <= MaxRooms

(* A room whose floor is the meeting bot's holds no credential and no      *)
(* reservation of an ingest it once had, whatever failed or was            *)
(* interrupted on the way.                                                 *)
OneOwner == \A r \in Room : row[r].source = "bot" =>
  row[r].key = "none" /\ row[r].secret = "none" /\ row[r].sid = None

(* Who owns a floor, and how many are owned, under every interleaving of   *)
(* hook, owners and reconcile pass.                                        *)
FloorInv ==
  /\ FloorTypeOK
  /\ CapacityHeld
  /\ OneOwner

(* A publisher that has only just been let in is not cut off by a pass of  *)
(* the reconcile loop that listed the paths before it was there.           *)
FreshFeedKept == [][
  \A r \in Room : r \in todo /\ r \notin todo' /\ reserved[r] \in {"new", "pending"}
    /\ row[r].sid # None => pub'[row[r].sid] = pub[row[r].sid]]_floorVars

(* While ingest owns a floor, a source without the room's reservation (its *)
(* credential was revoked or replaced, its reservation was cleared) goes.  *)
OutsiderGoes == \A p \in Session, r \in Room :
  pub[p].at = "live" /\ pub[p].room = r /\ row[r].sid # p
    ~> pub[p].at # "live" \/ row[r].source # "program"

(* A reservation whose session is gone does not hold the floor for ever.   *)
ReservationEnds == \A p \in Session, r \in Room :
  row[r].sid = p /\ pub[p].at = "off" ~> row[r].sid # p

(* A floor under program ingest comes to one publisher, the reserved one.  *)
FloorSettles == OutsiderGoes /\ ReservationEnds
==============================================================================
