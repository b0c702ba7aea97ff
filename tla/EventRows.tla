----------------------------- MODULE EventRows -----------------------------
(***************************************************************************)
(* The rows of events, rooms and booths, and the requests that create,     *)
(* change and delete them: the management pages (portal/routers/admin.py), *)
(* the OAuth API (portal/routers/api_v1.py) and the older booth API        *)
(* (portal/routers/api.py), over portal/database.py and portal/models.py.  *)
(*                                                                         *)
(* A request is one transaction: it reads and decides (one step), other    *)
(* requests commit meanwhile, and it writes and commits (another step); a  *)
(* save of the room setup reads twice before it writes.                    *)
(* What the database enforces, it enforces at the write: foreign keys with *)
(* their cascades, the unique slug and the unique language of a room; a    *)
(* request it refuses is rolled back.  Only the OAuth API locks the event  *)
(* it works on.  Row ids are never used again.                             *)
(***************************************************************************)
EXTENDS FiniteSets

CONSTANTS Request,   \* requests under way at once
          Event,     \* event slugs
          Room, Booth, \* row ids
          Lang,
          None       \* NULL, or no argument

ASSUME NoneIsNothing == None \notin Event \cup Room \cup Booth \cup Request
ASSUME SlugsAreOwn == Event \cap {"new", "gone"} = {}   \* what a room without an event has

VARIABLES event,   \* slug -> "none", "live" or "deleted" (deleted_at set)
          room,    \* id -> its event, "new" or "gone"
          relay,   \* room id -> relay_booth_id
          booth,   \* id -> its row
          live,    \* booths the registry has as ingest "connected"
          locked,  \* slug -> the OAuth request that locked its row
          req      \* request -> what it decided

rowsVars == <<event, room, relay, booth, live, locked, req>>

ApiOps == {"api_create_event", "api_delete_event", "api_upsert_room",
           "api_delete_room", "api_create_booth", "api_delete_booth"}
Ops == ApiOps \cup {"create_event", "delete_event", "create_room",
         "delete_room", "create_booth", "delete_booth", "edit_relay",
         "list_setup", "save_setup", "new_room", "provision", "delete_by_language"}

NoRow == [at |-> "new", room |-> None, lang |-> None, event |-> None]
Gone == [NoRow EXCEPT !.at = "gone"]
Idle == [op |-> "idle", event |-> None, room |-> None, booth |-> None,
         langs |-> {}, drop |-> {}, kept |-> {}]

(* Types; and a row lock is held only by an OAuth request at work on that  *)
(* event (the transaction's end releases it, whichever way it ends).       *)
RowsTypeOK ==
  /\ event \in [Event -> {"none", "live", "deleted"}]
  /\ room \in [Room -> Event \cup {"new", "gone"}]
  /\ relay \in [Room -> Booth \cup {None}]
  /\ booth \in [Booth -> [at : {"new", "row", "gone"},
                          room : Room \cup {None},
                          lang : Lang \cup {None},
                          event : Event \cup {None}]]
  /\ live \in SUBSET Booth
  /\ locked \in [Event -> Request \cup {None}]
  /\ \A e \in Event : locked[e] # None =>
       /\ req[locked[e]].op \in ApiOps
       /\ req[locked[e]].event = e
  /\ \A q \in Request : /\ req[q].op \in Ops \cup {"idle"}
                        /\ req[q].langs \subseteq Lang
                        /\ req[q].drop \subseteq Booth
                        /\ req[q].kept \subseteq Lang

RowsInit ==
  /\ event = [e \in Event |-> "none"]
  /\ room = [r \in Room |-> "new"]
  /\ relay = [r \in Room |-> None]
  /\ booth = [b \in Booth |-> NoRow]
  /\ live = {}
  /\ locked = [e \in Event |-> None]
  /\ req = [q \in Request |-> Idle]

------------------------------------------------------------------------------
(* What the tables hold.                                                   *)
IsRow(b) == booth[b].at = "row"
RowsOfRoom(r) == {b \in Booth : IsRow(b) /\ booth[b].room = r}
RowsOfEvent(e) == {b \in Booth : IsRow(b) /\ booth[b].event = e}
RowFor(r, l) == {b \in RowsOfRoom(r) : booth[b].lang = l}
NewRow(r, l, e) == [at |-> "row", room |-> r, lang |-> l, event |-> e]
RoomsOfEvent(e) == {r \in Room : room[r] = e}

(* The rows of doomed booths go; every room that relays one of them is     *)
(* cleared, by the request or by the foreign key (SET NULL).               *)
DeleteBooths(doomed) ==
  /\ booth' = [b \in Booth |-> IF b \in doomed THEN Gone ELSE booth[b]]
  /\ relay' = [r \in Room |-> IF relay[r] \in doomed THEN None ELSE relay[r]]

(* Rooms go with their booths.                                             *)
DeleteRooms(rooms) ==
  LET doomed == UNION {RowsOfRoom(r) : r \in rooms} IN
  /\ room' = [r \in Room |-> IF r \in rooms THEN "gone" ELSE room[r]]
  /\ booth' = [b \in Booth |-> IF b \in doomed THEN Gone ELSE booth[b]]
  /\ relay' = [r \in Room |-> IF r \in rooms \/ relay[r] \in doomed
                                THEN None ELSE relay[r]]

Begin(q, op, e, r, b, langs, drop) ==
  /\ req[q] = Idle
  /\ req' = [req EXCEPT ![q] = [op |-> op, event |-> e, room |-> r, booth |-> b,
                                langs |-> langs, drop |-> drop, kept |-> {}]]

End(q) == req' = [req EXCEPT ![q] = Idle]

(* A row may be inserted under the event, or the event row deleted, only   *)
(* while no OAuth request holds it FOR UPDATE.                             *)
Free(e) == locked[e] = None

------------------------------------------------------------------------------
(* The OAuth API: the event row is locked before the first read, and read  *)
(* again under the lock.                                                   *)
Lock(q, e) == Free(e) /\ locked' = [locked EXCEPT ![e] = q]
(* slip: the reload under the lock does not look at deleted_at             *)
ReloadedAny(e) == event[e] # "none"

Reloaded(e) == event[e] = "live"

(* POST /events/: an existing event has its members and name updated, a    *)
(* deleted one is not found, a new slug becomes an event.                  *)
ApiCreateEvent(q, e) ==
  /\ event[e] # "deleted" /\ Lock(q, e)
  /\ Begin(q, "api_create_event", e, None, None, {}, {})
  /\ UNCHANGED <<event, room, relay, booth, live>>

(* DELETE /events/{slug}: refused while a booth is connected, otherwise    *)
(* the booths leave the registry at once.                                  *)
ApiDeleteEvent(q, e) ==
  /\ Reloaded(e) /\ live \cap RowsOfEvent(e) = {} /\ Lock(q, e)
  /\ Begin(q, "api_delete_event", e, None, None, {}, {})
  /\ UNCHANGED <<event, room, relay, booth, live>>

(* PUT a room with its target languages: the booths to remove are not      *)
(* connected, or the request is refused.  None: no such room yet.          *)
ApiUpsertRoom(q, e, r, langs) ==
  LET drop == {b \in RowsOfRoom(r) : booth[b].lang \notin langs} IN
  /\ Reloaded(e) /\ (r # None => room[r] = e) /\ Lock(q, e)
  /\ drop \cap live = {}
  /\ Begin(q, "api_upsert_room", e, r, None, langs, drop)
  /\ UNCHANGED <<event, room, relay, booth, live>>

ApiDeleteRoom(q, e, r) ==
  /\ Reloaded(e) /\ room[r] = e /\ RowsOfRoom(r) \cap live = {} /\ Lock(q, e)
  /\ Begin(q, "api_delete_room", e, r, None, {}, {})
  /\ UNCHANGED <<event, room, relay, booth, live>>

ApiCreateBooth(q, e, r, l) ==
  /\ Reloaded(e) /\ room[r] = e /\ RowFor(r, l) = {} /\ Lock(q, e)
  /\ Begin(q, "api_create_booth", e, r, None, {l}, {})
  /\ UNCHANGED <<event, room, relay, booth, live>>

(* The sockets of the booth are closed before the row goes.                *)
ApiDeleteBooth(q, e, b) ==
  /\ Reloaded(e) /\ IsRow(b) /\ booth[b].event = e /\ Lock(q, e)
  /\ Begin(q, "api_delete_booth", e, None, b, {}, {b})
  /\ live' = live \ {b}
  /\ UNCHANGED <<event, room, relay, booth>>

------------------------------------------------------------------------------
(* The management pages, without a lock.                                   *)
CreateEvent(q, e) ==
  /\ event[e] # "live"
  /\ Begin(q, "create_event", e, None, None, {}, {})
  /\ UNCHANGED <<event, room, relay, booth, live, locked>>

(* The guided setup asks the same of the slug, and answers in its own way. *)
SetupCreateEvent(q, e) == CreateEvent(q, e)

DeleteEvent(q, e) ==
  /\ event[e] = "live"
  /\ Begin(q, "delete_event", e, None, None, {}, {})
  /\ live' = live \ RowsOfEvent(e)
  /\ UNCHANGED <<event, room, relay, booth, locked>>

(* The page looks the event up for the room's meeting address only.        *)
CreateRoom(q, e) ==
  /\ event[e] # "none"
  /\ Begin(q, "create_room", e, None, None, {}, {})
  /\ UNCHANGED <<event, room, relay, booth, live, locked>>

(* The room setup form for a new room: the event is there, and the room    *)
(* comes with the booths of its plan.                                      *)
NewRoom(q, e, wanted) ==
  /\ event[e] = "live"
  /\ Begin(q, "new_room", e, None, None, wanted, {})
  /\ UNCHANGED <<event, room, relay, booth, live, locked>>

DeleteRoom(q, r) ==
  /\ room[r] \in Event
  /\ Begin(q, "delete_room", room[r], r, None, {}, {})
  /\ live' = live \ RowsOfRoom(r)
  /\ UNCHANGED <<event, room, relay, booth, locked>>

CreateBooth(q, r, l) ==
  /\ room[r] \in Event /\ RowFor(r, l) = {}
  /\ Begin(q, "create_booth", room[r], r, None, {l}, {})
  /\ UNCHANGED <<event, room, relay, booth, live, locked>>

(* The guided setup asks for the event first.                              *)
SetupAddBooth(q, r, l) ==
  room[r] \in Event /\ event[room[r]] = "live" /\ CreateBooth(q, r, l)

(* The older API closes no socket; the booth leaves the registry after the *)
(* commit.                                                                 *)
DeleteBoothByLanguage(q, b) ==
  /\ IsRow(b) /\ event[booth[b].event] = "live"
  /\ Begin(q, "delete_by_language", booth[b].event, None, b, {}, {b})
  /\ UNCHANGED <<event, room, relay, booth, live, locked>>

DeleteBooth(q, b) ==
  /\ IsRow(b)
  /\ Begin(q, "delete_booth", booth[b].event, None, b, {}, {b})
  /\ live' = live \ {b}
  /\ UNCHANGED <<event, room, relay, booth, locked>>

(* The relay booth of the form must be a booth of the room's event.        *)
RelayAllowed(r, b) == IsRow(b) /\ booth[b].event = room[r]
                      /\ room[booth[b].room] = room[r]

EditRelay(q, r, b) ==
  /\ room[r] \in Event /\ (b # None => RelayAllowed(r, b))
  /\ Begin(q, "edit_relay", room[r], r, b, {}, {})
  /\ UNCHANGED <<event, room, relay, booth, live, locked>>

(* The room setup form.  Saves of a room take turns.  The first listing of *)
(* its booths is for the languages that are live.                          *)
LiveLangs(r) == {booth[b].lang : b \in RowsOfRoom(r) \cap live}

SaveSetup(q, r, wanted) ==
  /\ room[r] \in Event /\ event[room[r]] = "live"
  /\ \A p \in Request : ~ (req[p].op \in {"list_setup", "save_setup"} /\ req[p].room = r)
  /\ req[q] = Idle
  /\ req' = [req EXCEPT ![q] = [Idle EXCEPT !.op = "list_setup", !.event = room[r],
                                  !.room = r, !.langs = wanted, !.kept = LiveLangs(r)]]
  /\ UNCHANGED <<event, room, relay, booth, live, locked>>

(* apply_plan lists them again: what is not wanted goes, unless its        *)
(* language was live at the first listing; what is not there is added.     *)
ApplyPlan(q) ==
  LET r == req[q].room  wanted == req[q].langs IN
  /\ req[q].op = "list_setup"
  /\ req' = [req EXCEPT
       ![q].op = "save_setup",
       ![q].langs = {l \in wanted : RowFor(r, l) = {}},
       ![q].drop = {b \in RowsOfRoom(r) : booth[b].lang \notin wanted \cup req[q].kept}]
  /\ UNCHANGED <<event, room, relay, booth, live, locked>>

(* POST /api/events/{slug}/booths: event and room are created when they    *)
(* are missing, the booth joins the registry, and then gets its row.       *)
Provision(q, e, r, l) ==
  /\ event[e] # "deleted" /\ (r # None => room[r] = e)
  /\ Begin(q, "provision", e, r, None, {k \in {l} : RowFor(r, k) = {}}, {})
  /\ UNCHANGED <<event, room, relay, booth, live, locked>>

Read(q) ==
  \/ \E e \in Event : \/ ApiCreateEvent(q, e)
                      \/ ApiDeleteEvent(q, e)
                      \/ CreateEvent(q, e) \/ SetupCreateEvent(q, e)
                      \/ DeleteEvent(q, e)
                      \/ CreateRoom(q, e)
                      \/ \E ls \in SUBSET Lang : NewRoom(q, e, ls)
  \/ \E e \in Event, r \in Room \cup {None} :
       \/ \E ls \in SUBSET Lang : ApiUpsertRoom(q, e, r, ls)
       \/ \E l \in Lang : Provision(q, e, r, l)
  \/ \E e \in Event, r \in Room :
       \/ ApiDeleteRoom(q, e, r)
       \/ \E l \in Lang : ApiCreateBooth(q, e, r, l)
  \/ \E e \in Event, b \in Booth : ApiDeleteBooth(q, e, b)
  \/ \E r \in Room : \/ DeleteRoom(q, r)
                     \/ \E l \in Lang : CreateBooth(q, r, l) \/ SetupAddBooth(q, r, l)
                     \/ \E b \in Booth \cup {None} : EditRelay(q, r, b)
                     \/ \E ls \in SUBSET Lang : SaveSetup(q, r, ls)
  \/ \E b \in Booth : DeleteBooth(q, b) \/ DeleteBoothByLanguage(q, b)
  \/ ApplyPlan(q)

------------------------------------------------------------------------------
(* Writing and committing.                                                 *)
Unlock(q) ==
  locked' = [e \in Event |-> IF locked[e] = q THEN None ELSE locked[e]]

(* New booth rows, one id each, under a room and an event that are there   *)
(* and for languages the room does not have yet.                           *)
Insertable(r, e, langs) ==
  langs # {} => /\ room[r] \in Event /\ event[e] # "none"
                /\ \A l \in langs : RowFor(r, l) = {}

Placed(r, e, langs, drop) ==
  \E id \in [langs -> {b \in Booth : booth[b].at = "new"}] :
    /\ \A l, k \in langs : id[l] = id[k] => l = k
    /\ booth' = [b \in Booth |->
         IF b \in drop THEN Gone
         ELSE IF \E l \in langs : id[l] = b
           THEN NewRow(r, CHOOSE l \in langs : id[l] = b, e)
           ELSE booth[b]]
    /\ relay' = [x \in Room |-> IF relay[x] \in drop THEN None ELSE relay[x]]

CommitEvent(q) ==
  /\ req[q].op \in {"create_event", "api_create_event"}
  /\ LET e == req[q].event IN
       \/ /\ event[e] = "none"
          /\ event' = [event EXCEPT ![e] = "live"]
       \/ /\ event[e] = "live" /\ locked[e] = q
          /\ UNCHANGED event
  /\ End(q) /\ Unlock(q) /\ UNCHANGED <<room, relay, booth, live>>

CommitSoftDelete(q) ==
  /\ req[q].op = "api_delete_event"
  /\ event' = [event EXCEPT ![req[q].event] = "deleted"]
  /\ End(q) /\ Unlock(q) /\ UNCHANGED <<room, relay, booth, live>>

CommitHardDelete(q) ==
  /\ req[q].op = "delete_event" /\ Free(req[q].event)
  /\ event' = [event EXCEPT ![req[q].event] = "none"]
  /\ DeleteRooms(RoomsOfEvent(req[q].event))
  /\ End(q) /\ UNCHANGED <<live, locked>>

(* The foreign key of the room needs the event's row, deleted or not.      *)
CommitRoom(q) ==
  /\ req[q].op = "create_room" /\ Free(req[q].event)
  /\ event[req[q].event] # "none"
  /\ \E r \in Room : /\ room[r] = "new"
                     /\ room' = [room EXCEPT ![r] = req[q].event]
  /\ End(q) /\ UNCHANGED <<event, relay, booth, live, locked>>

CommitDeleteRoom(q) ==
  /\ req[q].op \in {"delete_room", "api_delete_room"}
  /\ DeleteRooms({req[q].room})
  /\ End(q) /\ Unlock(q) /\ UNCHANGED <<event, live>>

(* The room of the request, found before or created now.                   *)
GetOrCreate(r, e) == IF r # None THEN {x \in {r} : room[x] = e}
                     ELSE {x \in Room : room[x] = "new"}

CommitUpsert(q) ==
  /\ req[q].op \in {"api_upsert_room", "new_room"}
  /\ req[q].op = "new_room" => Free(req[q].event) /\ event[req[q].event] # "none"
  /\ LET e == req[q].event IN
       \E r \in GetOrCreate(req[q].room, e) :
         /\ room' = [room EXCEPT ![r] = e]
         /\ Placed(r, e, {l \in req[q].langs : RowFor(r, l) = {}}, req[q].drop)
  /\ End(q) /\ Unlock(q) /\ UNCHANGED <<event, live>>

(* A booth of the plan that somebody else removed meanwhile is no obstacle. *)
CommitBooths(q) ==
  /\ req[q].op \in {"create_booth", "api_create_booth", "save_setup"}
  /\ req[q].op = "create_booth" => Free(req[q].event)
  /\ req[q].op = "save_setup" => Free(req[q].event) /\ room[req[q].room] \in Event
  /\ Insertable(req[q].room, req[q].event, req[q].langs)
  /\ Placed(req[q].room, req[q].event, req[q].langs, req[q].drop)
  /\ End(q) /\ Unlock(q) /\ UNCHANGED <<event, room, live>>

CommitProvision(q) ==
  /\ req[q].op = "provision" /\ Free(req[q].event)
  /\ LET e == req[q].event IN
       /\ event' = [event EXCEPT ![e] = IF event[e] = "none" THEN "live" ELSE event[e]]
       /\ \E r \in GetOrCreate(req[q].room, e) :
            /\ room' = [room EXCEPT ![r] = e]
            /\ \A l \in req[q].langs : RowFor(r, l) = {}
            /\ Placed(r, e, req[q].langs, {})
  /\ End(q) /\ UNCHANGED <<live, locked>>

CommitDeleteBooth(q) ==
  /\ req[q].op \in {"delete_booth", "api_delete_booth", "delete_by_language"}
  /\ DeleteBooths(req[q].drop)
  /\ live' = IF req[q].op = "delete_by_language" THEN live \ req[q].drop ELSE live
  /\ End(q) /\ Unlock(q) /\ UNCHANGED <<event, room>>

(* slip: the booth is not looked up again, and nothing enforces the key    *)
RelayKeyOff(b) == TRUE

(* The foreign key of the relay needs the booth's row.                     *)
RelayKey(b) == b # None => IsRow(b)

CommitRelay(q) ==
  /\ req[q].op = "edit_relay"
  /\ room[req[q].room] \in Event /\ RelayKey(req[q].booth)
  /\ relay' = [relay EXCEPT ![req[q].room] = req[q].booth]
  /\ End(q) /\ UNCHANGED <<event, room, booth, live, locked>>

(* The database refuses the write, or the request fails on its way.        *)
Rollback(q) ==
  /\ req[q] # Idle
  /\ End(q) /\ Unlock(q) /\ UNCHANGED <<event, room, relay, booth, live>>

Write(q) ==
  \/ CommitEvent(q) \/ CommitSoftDelete(q) \/ CommitHardDelete(q)
  \/ CommitRoom(q) \/ CommitDeleteRoom(q) \/ CommitUpsert(q)
  \/ CommitBooths(q) \/ CommitProvision(q) \/ CommitDeleteBooth(q)
  \/ CommitRelay(q) \/ Rollback(q)

(* Interpreters go on air and off, seen through the registry.              *)
GoLive(b) ==
  /\ IsRow(b) /\ event[booth[b].event] = "live" /\ b \notin live
  /\ live' = live \cup {b}
  /\ UNCHANGED <<event, room, relay, booth, locked, req>>

GoIdle(b) ==
  /\ b \in live
  /\ live' = live \ {b}
  /\ UNCHANGED <<event, room, relay, booth, locked, req>>

RowsNext ==
  \/ \E q \in Request : Read(q) \/ Write(q)
  \/ \E b \in Booth : GoLive(b) \/ GoIdle(b)

RowsSpec == RowsInit /\ [][RowsNext]_rowsVars

------------------------------------------------------------------------------
(* Every booth is in a room of its own event, and a room relays only a     *)
(* booth that exists, in its own event, whatever was deleted while the     *)
(* request that chose it was under way (get_booth_by_id then commit in     *)
(* admin_edit_room; delete_event, delete_room and delete_booth clear the   *)
(* relays they see).                                                       *)
RelayStaysInside ==
  /\ \A b \in Booth : IsRow(b) => /\ room[booth[b].room] = booth[b].event
                                  /\ event[booth[b].event] # "none"
  /\ \A r \in Room : relay[r] # None =>
       /\ IsRow(relay[r])
       /\ booth[relay[r]].event = room[r]

(* A room never has two booths for one language (two requests may both     *)
(* have found none), which would give one media path to both.              *)
OneBoothPerLanguage ==
  \A b, c \in Booth : /\ IsRow(b)
                      /\ IsRow(c)
                      /\ booth[b].room = booth[c].room
                      /\ booth[b].lang = booth[c].lang
                      => b = c

(* What the lock of api_v1.py is for ("serialize a mutation against        *)
(* concurrent deletion"): no OAuth request changes rooms or booths of an   *)
(* event that is deleted when it commits.                                  *)
ApiLeavesDeletedAlone ==
  \A q \in Request :
    (req[q].op \in ApiOps /\ req'[q] = Idle /\ event[req[q].event] = "deleted")
      => UNCHANGED <<room, relay, booth, event>>

(* Deleting by the OAuth API is for good: the slug stays taken, and no     *)
(* request that read before the deletion brings the event back.            *)
DeletedStays == \A e \in Event : event[e] = "deleted" => event'[e] # "live"

(* Together: an event deleted by the API is over for every request.        *)
DeletedIsOver == [][ApiLeavesDeletedAlone /\ DeletedStays]_rowsVars

(* "Booths that are live right now are never removed": a save of the room  *)
(* setup that commits takes no booth away from under its interpreter.      *)
KeepsLiveBooths ==
  [][\A q \in Request, b \in Booth :
       req[q].op = "save_setup" /\ req'[q] = Idle /\ booth'[b] # booth[b]
         => b \notin live]_rowsVars

(* The rows refer to each other as the code takes for granted, whatever    *)
(* was read before somebody else's commit.                                 *)
RowsInv ==
  /\ RowsTypeOK
  /\ RelayStaysInside
  /\ OneBoothPerLanguage
==============================================================================
