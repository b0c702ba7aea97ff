--------------------------- MODULE TenancyProofs ---------------------------
(***************************************************************************)
(* What TLAPS proves of the tables of the portal: for any set of requests, *)
(* events, rooms, booths and languages, rows refer to each other as the    *)
(* code takes for granted, and an event the OAuth API deleted is over      *)
(* (EventRows); and the guided setup of one room shows what was chosen     *)
(* (RoomSetup).                                                            *)
(***************************************************************************)
EXTENDS EventRows, RoomSetup, TLAPS

-----------------------------------------------------------------------------
(* The rows alone: types, every booth in a room of its own event that is   *)
(* there, relays inside the event, one booth for each language of a room.  *)
BoothRow == [at : {"new", "row", "gone"}, room : Room \cup {None},
             lang : Lang \cup {None}, event : Event \cup {None}]

DataTypes ==
  /\ event \in [Event -> {"none", "live", "deleted"}]
  /\ room \in [Room -> Event \cup {"new", "gone"}]
  /\ relay \in [Room -> Booth \cup {None}]
  /\ booth \in [Booth -> BoothRow]
  /\ \A b \in Booth : IsRow(b) =>
       booth[b].room \in Room /\ booth[b].lang \in Lang /\ booth[b].event \in Event

DataOK == DataTypes /\ RelayStaysInside /\ OneBoothPerLanguage

ReqRow == [op : Ops \cup {"idle"}, event : Event \cup {None}, room : Room \cup {None},
           booth : Booth \cup {None}, langs : SUBSET Lang, drop : SUBSET Booth,
           kept : SUBSET Lang]

OnRoom == {"delete_room", "api_delete_room", "create_booth", "api_create_booth", "list_setup",
           "save_setup", "edit_relay"}

(* What request q read and decided is still so, or what it names is gone:  *)
(* rooms and booths never move to another event, ids are never used again, *)
(* and nobody deletes an event under the lock of an OAuth request.         *)
Fits(q, d) ==
  /\ d.op # "idle" => d.event \in Event
  /\ d.op \in OnRoom => d.room \in Room
  /\ d.room # None => d.event \in Event /\ room[d.room] \in {d.event, "gone"}
  /\ \A b \in d.drop : booth[b].at # "new"
  /\ d.op = "edit_relay" /\ d.booth # None =>
       /\ booth[d.booth].at # "new"
       /\ IsRow(d.booth) => booth[d.booth].event = d.event
  /\ d.op \in ApiOps => locked[d.event] = q /\ event[d.event] # "deleted"
  /\ d.op \in ApiOps \ {"api_create_event"} => event[d.event] = "live"

LocksOK ==
  /\ locked \in [Event -> Request \cup {None}]
  /\ \A e \in Event : locked[e] # None =>
       req[locked[e]].op \in ApiOps /\ req[locked[e]].event = e

RequestsOK ==
  /\ req \in [Request -> ReqRow]
  /\ \A q \in Request : Fits(q, req[q])
  /\ live \subseteq Booth

RowsIInv == DataOK /\ LocksOK /\ RequestsOK

LEMMA RowsIInvSuffices == RowsIInv => RowsInv
  BY DEF RowsIInv, DataOK, DataTypes, BoothRow, LocksOK, RequestsOK, ReqRow, RowsInv, RowsTypeOK

LEMMA IdleFits == Idle \in ReqRow /\ \A q : Fits(q, Idle)
  BY DEF Idle, ReqRow, Fits, OnRoom, ApiOps

LEMMA RowsStart == RowsInit => RowsIInv
<1> SUFFICES ASSUME RowsInit PROVE RowsIInv
  OBVIOUS
<1>1. \A b \in Booth : ~IsRow(b)
  BY DEF RowsInit, IsRow, NoRow
<1>2. DataOK
  BY <1>1 DEF RowsInit, DataOK, DataTypes, BoothRow, NoRow, RelayStaysInside, OneBoothPerLanguage
<1>3. LocksOK
  BY DEF RowsInit, LocksOK
<1>4. RequestsOK
  BY IdleFits DEF RowsInit, RequestsOK
<1> QED BY <1>2, <1>3, <1>4 DEF RowsIInv

-----------------------------------------------------------------------------
(* Reading changes no row.                                                 *)
LEMMA DataUnchanged ==
  ASSUME DataOK, UNCHANGED <<event, room, relay, booth>>
  PROVE  DataOK'
  BY DEF DataOK, DataTypes, RelayStaysInside, OneBoothPerLanguage, IsRow

(* A request that begins notes what it has read, and takes the lock if it  *)
(* is one of the OAuth API's.                                              *)
LEMMA BeginKeeps ==
  ASSUME RowsIInv, NEW q \in Request, NEW op \in Ops, NEW e \in Event, NEW r \in Room \cup {None},
         NEW b \in Booth \cup {None}, NEW langs \in SUBSET Lang, NEW drop \in SUBSET Booth,
         Begin(q, op, e, r, b, langs, drop),
         UNCHANGED <<event, room, relay, booth>>, live' \subseteq Booth,
         op \in ApiOps => Lock(q, e) /\ event[e] # "deleted",
         op \in ApiOps \ {"api_create_event"} => event[e] = "live",
         op \notin ApiOps => UNCHANGED locked,
         op \in OnRoom => r # None,
         r # None => room[r] = e,
         \A c \in drop : booth[c].at # "new",
         op = "edit_relay" /\ b # None => IsRow(b) /\ booth[b].event = e
  PROVE  RowsIInv'
<1> DEFINE d == [op |-> op, event |-> e, room |-> r, booth |-> b, langs |-> langs, drop |-> drop,
                kept |-> {}]
<1> USE NoneIsNothing
<1>1. req[q] = Idle /\ req' = [req EXCEPT ![q] = d] /\ d \in ReqRow
  BY DEF Begin, ReqRow
<1>2. req' \in [Request -> ReqRow] /\ req'[q] = d /\ \A p \in Request \ {q} : req'[p] = req[p]
  BY <1>1 DEF RowsIInv, RequestsOK
<1>3. \A x \in Event : locked[x] # q /\ locked[x] \in Request \cup {None}
  <2>1. req[q].op \notin ApiOps
    BY <1>1 DEF Idle, ApiOps
  <2> QED BY <2>1 DEF RowsIInv, LocksOK
<1>4. /\ locked' \in [Event -> Request \cup {None}]
      /\ op \in ApiOps => locked'[e] = q
      /\ \A x \in Event : locked'[x] = locked[x] \/ (locked'[x] = q /\ x = e /\ op \in ApiOps)
      /\ \A x \in Event : locked[x] # None => locked'[x] = locked[x]
  <2>1. CASE op \in ApiOps
    BY <2>1 DEF RowsIInv, LocksOK, Lock, Free
  <2>2. CASE op \notin ApiOps
    BY <2>2 DEF RowsIInv, LocksOK
  <2> QED BY <2>1, <2>2
<1>5. LocksOK'
  <2> SUFFICES ASSUME NEW x \in Event, locked'[x] # None
               PROVE  req'[locked'[x]].op \in ApiOps /\ req'[locked'[x]].event = x
    BY <1>4 DEF LocksOK
  <2>1. CASE locked'[x] = locked[x]
    BY <1>2, <1>3, <2>1 DEF RowsIInv, LocksOK
  <2>2. CASE locked'[x] = q /\ x = e /\ op \in ApiOps
    BY <1>2, <2>2
  <2> QED BY <1>4, <2>1, <2>2
<1>6. Fits(q, d)'
  BY <1>4, SlugsAreOwn DEF Fits, IsRow, OnRoom, ApiOps
<1>7. ASSUME NEW p \in Request, p # q PROVE Fits(p, req[p])'
  <2>1. Fits(p, req[p]) /\ req'[p] = req[p] /\ p # None
    BY <1>2, <1>7 DEF RowsIInv, RequestsOK
  <2>2. req[p].op \in ApiOps => req[p].event \in Event /\ locked'[req[p].event] = p
    BY <1>4, <2>1 DEF Fits, ApiOps
  <2> QED BY <2>1, <2>2 DEF Fits, IsRow
<1>8. RequestsOK'
  BY <1>2, <1>6, <1>7 DEF RequestsOK
<1> QED BY <1>5, <1>8, DataUnchanged DEF RowsIInv

(* A request without a lock notes more of what it reads.                   *)
LEMMA NotesKeep ==
  ASSUME RowsIInv, NEW q \in Request, NEW d \in ReqRow, req' = [req EXCEPT ![q] = d],
         req[q].op \notin ApiOps, d.op \notin ApiOps, Fits(q, d),
         UNCHANGED <<event, room, relay, booth, live, locked>>
  PROVE  RowsIInv'
<1>1. req' \in [Request -> ReqRow] /\ req'[q] = d /\ \A p \in Request \ {q} : req'[p] = req[p]
  BY DEF RowsIInv, RequestsOK
<1>2. LocksOK'
  BY <1>1 DEF RowsIInv, LocksOK
<1>3. \A p \in Request : Fits(p, req'[p])
  BY <1>1 DEF RowsIInv, RequestsOK
<1>4. \A p \in Request : Fits(p, req[p])'
  BY <1>3 DEF Fits, IsRow
<1> QED BY <1>1, <1>2, <1>4, DataUnchanged DEF RowsIInv, RequestsOK

LEMMA ApiReadsKeep ==
  ASSUME RowsIInv, NEW q \in Request, NEW e \in Event
  PROVE  /\ ApiCreateEvent(q, e) \/ ApiDeleteEvent(q, e) => RowsIInv'
         /\ \A r \in Room \cup {None}, langs \in SUBSET Lang : ApiUpsertRoom(q, e, r, langs) => RowsIInv'
         /\ \A r \in Room : ApiDeleteRoom(q, e, r) => RowsIInv'
         /\ \A r \in Room, l \in Lang : ApiCreateBooth(q, e, r, l) => RowsIInv'
         /\ \A b \in Booth : ApiDeleteBooth(q, e, b) => RowsIInv'
<1> USE NoneIsNothing DEF Ops, ApiOps, OnRoom
<1>0. live \subseteq Booth
  BY DEF RowsIInv, RequestsOK
<1>1. ASSUME ApiCreateEvent(q, e) \/ ApiDeleteEvent(q, e) PROVE RowsIInv'
  <2>1. CASE ApiCreateEvent(q, e)
    BY <1>0, <2>1, BeginKeeps DEF ApiCreateEvent
  <2>2. CASE ApiDeleteEvent(q, e)
    BY <1>0, <2>2, BeginKeeps DEF ApiDeleteEvent, Reloaded
  <2> QED BY <1>1, <2>1, <2>2
<1>2. ASSUME NEW r \in Room \cup {None}, NEW langs \in SUBSET Lang, ApiUpsertRoom(q, e, r, langs)
      PROVE  RowsIInv'
  <2> DEFINE drop == {b \in RowsOfRoom(r) : booth[b].lang \notin langs}
  <2>1. drop \in SUBSET Booth /\ \A b \in drop : booth[b].at # "new"
    BY DEF RowsOfRoom, IsRow
  <2>2. Begin(q, "api_upsert_room", e, r, None, langs, drop)
    BY <1>2 DEF ApiUpsertRoom
  <2> HIDE DEF drop
  <2> QED BY <1>0, <1>2, <2>1, <2>2, BeginKeeps DEF ApiUpsertRoom, Reloaded
<1>3. ASSUME NEW r \in Room, ApiDeleteRoom(q, e, r) PROVE RowsIInv'
  BY <1>0, <1>3, BeginKeeps DEF ApiDeleteRoom, Reloaded
<1>4. ASSUME NEW r \in Room, NEW l \in Lang, ApiCreateBooth(q, e, r, l) PROVE RowsIInv'
  BY <1>0, <1>4, BeginKeeps DEF ApiCreateBooth, Reloaded
<1>5. ASSUME NEW b \in Booth, ApiDeleteBooth(q, e, b) PROVE RowsIInv'
  BY <1>0, <1>5, BeginKeeps DEF ApiDeleteBooth, Reloaded, IsRow
<1> QED BY <1>1, <1>2, <1>3, <1>4, <1>5

LEMMA EventReadsKeep ==
  ASSUME RowsIInv, NEW q \in Request, NEW e \in Event
  PROVE  /\ CreateEvent(q, e) \/ SetupCreateEvent(q, e) => RowsIInv'
         /\ DeleteEvent(q, e) \/ CreateRoom(q, e) => RowsIInv'
         /\ \A langs \in SUBSET Lang : NewRoom(q, e, langs) => RowsIInv'
         /\ \A r \in Room \cup {None}, l \in Lang : Provision(q, e, r, l) => RowsIInv'
<1> USE NoneIsNothing DEF Ops, ApiOps, OnRoom
<1>0. live \subseteq Booth
  BY DEF RowsIInv, RequestsOK
<1>1. ASSUME CreateEvent(q, e) PROVE RowsIInv'
  BY <1>0, <1>1, BeginKeeps DEF CreateEvent
<1>2. ASSUME DeleteEvent(q, e) PROVE RowsIInv'
  BY <1>0, <1>2, BeginKeeps DEF DeleteEvent
<1>3. ASSUME CreateRoom(q, e) PROVE RowsIInv'
  BY <1>0, <1>3, BeginKeeps DEF CreateRoom
<1>4. ASSUME NEW langs \in SUBSET Lang, NewRoom(q, e, langs) PROVE RowsIInv'
  BY <1>0, <1>4, BeginKeeps DEF NewRoom
<1>5. ASSUME NEW r \in Room \cup {None}, NEW l \in Lang, Provision(q, e, r, l) PROVE RowsIInv'
  <2>1. {k \in {l} : RowFor(r, k) = {}} \in SUBSET Lang
    OBVIOUS
  <2> QED BY <1>0, <1>5, <2>1, BeginKeeps DEF Provision
<1> QED BY <1>1, <1>2, <1>3, <1>4, <1>5 DEF SetupCreateEvent

LEMMA RoomReadsKeep ==
  ASSUME RowsIInv, NEW q \in Request, NEW r \in Room
  PROVE  /\ DeleteRoom(q, r) => RowsIInv'
         /\ \A l \in Lang : CreateBooth(q, r, l) \/ SetupAddBooth(q, r, l) => RowsIInv'
         /\ \A b \in Booth \cup {None} : EditRelay(q, r, b) => RowsIInv'
         /\ \A langs \in SUBSET Lang : SaveSetup(q, r, langs) => RowsIInv'
<1> USE NoneIsNothing DEF Ops, ApiOps, OnRoom
<1>0. live \subseteq Booth
  BY DEF RowsIInv, RequestsOK
<1>1. ASSUME DeleteRoom(q, r) PROVE RowsIInv'
  BY <1>0, <1>1, BeginKeeps DEF DeleteRoom
<1>2. ASSUME NEW l \in Lang, CreateBooth(q, r, l) PROVE RowsIInv'
  BY <1>0, <1>2, BeginKeeps DEF CreateBooth
<1>3. ASSUME NEW b \in Booth \cup {None}, EditRelay(q, r, b) PROVE RowsIInv'
  BY <1>0, <1>3, BeginKeeps DEF EditRelay, RelayAllowed
<1>4. ASSUME NEW langs \in SUBSET Lang, SaveSetup(q, r, langs) PROVE RowsIInv'
  <2> DEFINE d == [Idle EXCEPT !.op = "list_setup", !.event = room[r], !.room = r,
                               !.langs = langs, !.kept = LiveLangs(r)]
  <2>1. room[r] \in Event /\ req[q] = Idle /\ req' = [req EXCEPT ![q] = d]
    BY <1>4 DEF SaveSetup
  <2>2. LiveLangs(r) \subseteq Lang
    BY DEF LiveLangs, RowsOfRoom, RowsIInv, DataOK, DataTypes
  <2>3. d \in ReqRow /\ Fits(q, d) /\ d.op \notin ApiOps /\ req[q].op \notin ApiOps
    BY <2>1, <2>2, IdleFits DEF Idle, ReqRow, Fits
  <2> HIDE DEF d
  <2> QED BY <1>4, <2>1, <2>3, NotesKeep DEF SaveSetup
<1> QED BY <1>1, <1>2, <1>3, <1>4 DEF SetupAddBooth

LEMMA BoothReadsKeep ==
  ASSUME RowsIInv, NEW q \in Request, NEW b \in Booth, DeleteBooth(q, b) \/ DeleteBoothByLanguage(q, b)
  PROVE  RowsIInv'
<1> USE NoneIsNothing DEF Ops, ApiOps, OnRoom
<1>1. IsRow(b) /\ booth[b].at # "new" /\ booth[b].event \in Event /\ live \subseteq Booth
  BY DEF DeleteBooth, DeleteBoothByLanguage, IsRow, RowsIInv, DataOK, DataTypes, RequestsOK
<1>2. CASE DeleteBooth(q, b)
  BY <1>1, <1>2, BeginKeeps DEF DeleteBooth
<1>3. CASE DeleteBoothByLanguage(q, b)
  BY <1>1, <1>3, BeginKeeps DEF DeleteBoothByLanguage
<1> QED BY <1>2, <1>3

LEMMA ApplyPlanKeeps ==
  ASSUME RowsIInv, NEW q \in Request, ApplyPlan(q)
  PROVE  RowsIInv'
<1> USE NoneIsNothing DEF Ops, ApiOps, OnRoom
<1> DEFINE r == req[q].room  wanted == req[q].langs
           new == {l \in wanted : RowFor(r, l) = {}}
           drop == {b \in RowsOfRoom(r) : booth[b].lang \notin wanted \cup req[q].kept}
           d == [req[q] EXCEPT !.op = "save_setup", !.langs = new, !.drop = drop]
<1>1. req[q].op = "list_setup" /\ req[q] \in ReqRow /\ Fits(q, req[q])
  BY DEF ApplyPlan, RowsIInv, RequestsOK
<1>2. req' = [req EXCEPT ![q] = d]
  BY DEF ApplyPlan
<1>3. new \subseteq Lang /\ drop \subseteq Booth /\ \A b \in drop : booth[b].at # "new"
  BY <1>1 DEF ReqRow, RowsOfRoom, IsRow
<1> HIDE DEF new, drop
<1>4. d \in ReqRow /\ Fits(q, d) /\ d.op \notin ApiOps
  BY <1>1, <1>3 DEF ReqRow, Fits
<1> QED BY <1>1, <1>2, <1>4, NotesKeep DEF ApplyPlan

LEMMA ReadKeeps ==
  ASSUME RowsIInv, NEW q \in Request, Read(q)
  PROVE  RowsIInv'
  BY ApiReadsKeep, EventReadsKeep, RoomReadsKeep, BoothReadsKeep, ApplyPlanKeeps DEF Read

-----------------------------------------------------------------------------
(* A request that ends releases what it locked; the others' requests still *)
(* fit if rooms and booths only come and go, and no event under another's  *)
(* lock does.                                                              *)
RowsMove ==
  /\ \A r \in Room : room'[r] = room[r] \/ room[r] = "new" \/ room'[r] = "gone"
  /\ \A b \in Booth : booth'[b] = booth[b] \/ booth[b].at = "new" \/ booth'[b].at = "gone"

EventsMoveUnder(q) ==
  \A e \in Event : locked[e] # None /\ locked[e] # q =>
    /\ event[e] = "live" => event'[e] = "live"
    /\ event[e] # "deleted" => event'[e] # "deleted"

LEMMA EndKeeps ==
  ASSUME RowsIInv, NEW q \in Request, End(q),
         Unlock(q) \/ (req[q].op \notin ApiOps /\ UNCHANGED locked),
         DataOK', live' \subseteq Booth, RowsMove, EventsMoveUnder(q)
  PROVE  RowsIInv'
<1> USE NoneIsNothing, SlugsAreOwn
<1>1. req' \in [Request -> ReqRow] /\ req'[q] = Idle /\ \A p \in Request \ {q} : req'[p] = req[p]
  BY IdleFits DEF End, RowsIInv, RequestsOK
<1>2. /\ locked' \in [Event -> Request \cup {None}]
      /\ \A e \in Event : locked'[e] # None => locked'[e] = locked[e] /\ locked[e] # q
      /\ \A e \in Event : locked[e] # q => locked'[e] = locked[e]
  <2>1. CASE Unlock(q)
    BY <2>1 DEF Unlock, RowsIInv, LocksOK
  <2>2. CASE req[q].op \notin ApiOps /\ UNCHANGED locked
    BY <2>2 DEF RowsIInv, LocksOK
  <2> QED BY <2>1, <2>2
<1>3. LocksOK'
  BY <1>1, <1>2 DEF RowsIInv, LocksOK
<1>4. ASSUME NEW p \in Request, p # q PROVE Fits(p, req[p])'
  <2> DEFINE d == req[p]
  <2>1. Fits(p, d) /\ req'[p] = d /\ p # None /\ d \in ReqRow
    BY <1>1, <1>4 DEF RowsIInv, RequestsOK
  <2>2. d.op \in ApiOps => d.event \in Event /\ locked[d.event] = p /\ locked'[d.event] = p
    BY <1>2, <1>4, <2>1 DEF Fits, ApiOps
  <2>3. d.op \in ApiOps => event'[d.event] # "deleted"
    BY <1>4, <2>1, <2>2 DEF Fits, EventsMoveUnder
  <2>4. d.op \in ApiOps \ {"api_create_event"} => event'[d.event] = "live"
    BY <1>4, <2>1, <2>2 DEF Fits, EventsMoveUnder
  <2>5. d.room # None => d.room \in Room /\ room[d.room] # "new" /\ d.event \in Event
    BY <2>1 DEF Fits, ReqRow
  <2>6. d.room # None => room'[d.room] \in {d.event, "gone"}
    BY <2>1, <2>5 DEF Fits, RowsMove
  <2>7. \A b \in d.drop : b \in Booth /\ booth'[b].at # "new"
    BY <2>1 DEF Fits, RowsMove, ReqRow
  <2>8. d.op = "edit_relay" /\ d.booth # None =>
          /\ booth'[d.booth].at # "new"
          /\ booth'[d.booth].at = "row" => booth'[d.booth].event = d.event
    BY <2>1 DEF Fits, RowsMove, ReqRow, IsRow
  <2> HIDE DEF d
  <2>9. Fits(p, d)'
    <3>1. d' = d
      BY <2>1 DEF d
    <3> QED BY <2>1, <2>2, <2>3, <2>4, <2>5, <2>6, <2>7, <2>8, <3>1 DEF Fits, IsRow
  <2> QED BY <2>9 DEF d
<1>5. Fits(q, req[q])'
  BY <1>1 DEF Idle, Fits, OnRoom, ApiOps
<1>6. RequestsOK'
  BY <1>1, <1>4, <1>5 DEF RequestsOK
<1> QED BY <1>3, <1>6 DEF RowsIInv

-----------------------------------------------------------------------------
(* What a write does to the rows.                                          *)
LEMMA GoneIsNoRow == Gone \in BoothRow /\ Gone.at = "gone"
  BY DEF Gone, NoRow, BoothRow

(* Deleted booths leave no relay behind, nor do deleted rooms.             *)
LEMMA DeletingKeeps ==
  ASSUME DataOK, NEW rooms, NEW doomed,
         event' \in [Event -> {"none", "live", "deleted"}],
         \A r \in rooms : RowsOfRoom(r) \subseteq doomed,
         room' = [r \in Room |-> IF r \in rooms THEN "gone" ELSE room[r]],
         booth' = [b \in Booth |-> IF b \in doomed THEN Gone ELSE booth[b]],
         relay' = [r \in Room |-> IF r \in rooms \/ relay[r] \in doomed THEN None ELSE relay[r]],
         \A e \in Event : event'[e] = "none" => event[e] = "none" \/ RoomsOfEvent(e) \subseteq rooms
  PROVE  DataOK' /\ RowsMove
<1> USE NoneIsNothing, SlugsAreOwn
<1>1. \A b \in Booth : IsRow(b)' => IsRow(b) /\ b \notin doomed /\ booth'[b] = booth[b]
  BY GoneIsNoRow DEF IsRow
<1>2. \A b \in Booth : IsRow(b)' => booth[b].room \in Room /\ booth[b].room \notin rooms
                                    /\ room'[booth[b].room] = room[booth[b].room]
  BY <1>1 DEF DataOK, DataTypes, RowsOfRoom
<1>3. \A r \in Room : relay'[r] # None => relay'[r] = relay[r] /\ relay[r] \notin doomed /\ room'[r] = room[r]
  OBVIOUS
<1>4. DataTypes'
  <2>1. room' \in [Room -> Event \cup {"new", "gone"}]
    BY DEF DataOK, DataTypes
  <2>2. booth' \in [Booth -> BoothRow]
    BY GoneIsNoRow DEF DataOK, DataTypes
  <2>3. relay' \in [Room -> Booth \cup {None}]
    BY DEF DataOK, DataTypes
  <2>4. \A b \in Booth : IsRow(b)' =>
          booth'[b].room \in Room /\ booth'[b].lang \in Lang /\ booth'[b].event \in Event
    BY <1>1 DEF DataOK, DataTypes
  <2> QED BY <2>1, <2>2, <2>3, <2>4 DEF DataTypes
<1>5. RelayStaysInside'
  <2>1. ASSUME NEW b \in Booth, IsRow(b)'
        PROVE  room'[booth'[b].room] = booth'[b].event /\ event'[booth'[b].event] # "none"
    <3>1. /\ room[booth[b].room] = booth[b].event /\ event[booth[b].event] # "none"
          /\ booth[b].event \in Event
      BY <1>1, <2>1 DEF DataOK, DataTypes, RelayStaysInside
    <3>2. booth[b].room \in RoomsOfEvent(booth[b].event) /\ booth[b].room \notin rooms
      BY <1>2, <2>1, <3>1 DEF RoomsOfEvent
    <3> QED BY <1>1, <1>2, <2>1, <3>1, <3>2
  <2>2. ASSUME NEW r \in Room, relay'[r] # None
        PROVE  IsRow(relay[r])' /\ booth'[relay'[r]].event = room'[r]
    BY <1>3, <2>2 DEF DataOK, DataTypes, RelayStaysInside, IsRow
  <2> QED BY <1>3, <2>1, <2>2 DEF RelayStaysInside
<1>6. OneBoothPerLanguage'
  BY <1>1 DEF DataOK, OneBoothPerLanguage
<1>7. RowsMove
  BY GoneIsNoRow DEF RowsMove, DataOK, DataTypes
<1> QED BY <1>4, <1>5, <1>6, <1>7 DEF DataOK

(* New booths: one id each, for languages that have none.                  *)
LEMMA PlacedRows ==
  ASSUME DataTypes, NEW r, NEW e, NEW langs, NEW drop, Placed(r, e, langs, drop)
  PROVE  /\ \A b \in Booth : \/ booth'[b] = Gone /\ b \in drop
                             \/ booth'[b] = booth[b] /\ b \notin drop
                             \/ /\ booth[b].at = "new" /\ b \notin drop
                                /\ \E l \in langs : booth'[b] = NewRow(r, l, e)
         /\ \A b, c \in Booth, l \in langs :
              booth[b].at = "new" /\ booth[c].at = "new" /\ booth'[b] = NewRow(r, l, e) /\ booth'[c] = NewRow(r, l, e)
                => b = c
         /\ booth' = [b \in Booth |-> booth'[b]]
         /\ relay' = [x \in Room |-> IF relay[x] \in drop THEN None ELSE relay[x]]
<1>1. PICK id \in [langs -> {b \in Booth : booth[b].at = "new"}] :
        /\ \A l, k \in langs : id[l] = id[k] => l = k
        /\ booth' = [b \in Booth |->
             IF b \in drop THEN Gone
             ELSE IF \E l \in langs : id[l] = b
               THEN NewRow(r, CHOOSE l \in langs : id[l] = b, e)
               ELSE booth[b]]
        /\ relay' = [x \in Room |-> IF relay[x] \in drop THEN None ELSE relay[x]]
  BY DEF Placed
<1>2. ASSUME NEW b \in Booth, b \notin drop, NEW k \in langs, id[k] = b
      PROVE  booth'[b] = NewRow(r, k, e) /\ booth[b].at = "new"
  <2>1. (CHOOSE l \in langs : id[l] = b) = k
    BY <1>1, <1>2
  <2> QED BY <1>1, <1>2, <2>1
<1>3. ASSUME NEW b \in Booth, b \notin drop, \A k \in langs : id[k] # b
      PROVE  booth'[b] = booth[b]
  BY <1>1, <1>3
<1>4. \A b \in Booth : b \in drop => booth'[b] = Gone
  BY <1>1
<1>5. ASSUME NEW b \in Booth, NEW l \in langs, booth[b].at = "new", booth'[b] = NewRow(r, l, e)
      PROVE  id[l] = b
  <2>1. booth'[b].at = "row" /\ booth'[b].lang = l
    BY <1>5 DEF NewRow
  <2>2. b \notin drop
    BY <1>4, <2>1, GoneIsNoRow
  <2>3. PICK k \in langs : id[k] = b
    BY <1>3, <1>5, <2>1, <2>2
  <2>4. booth'[b] = NewRow(r, k, e)
    BY <1>2, <2>2, <2>3
  <2>5. booth'[b].lang = k
    BY <2>4 DEF NewRow
  <2> QED BY <2>1, <2>3, <2>5
<1> QED BY <1>1, <1>2, <1>3, <1>4, <1>5

LEMMA PlacedKeeps ==
  ASSUME DataOK, NEW r, NEW e, NEW langs \in SUBSET Lang, NEW drop, Placed(r, e, langs, drop),
         langs # {} => r \in Room /\ room'[r] = e /\ e \in Event /\ event'[e] # "none",
         \A l \in langs : RowFor(r, l) = {},
         room' \in [Room -> Event \cup {"new", "gone"}],
         \A x \in Room : room'[x] = room[x] \/ room[x] = "new",
         event' \in [Event -> {"none", "live", "deleted"}],
         \A x \in Event : event'[x] = "none" => event[x] = "none"
  PROVE  DataOK' /\ RowsMove
<1> USE NoneIsNothing, SlugsAreOwn
<1>1. \A b \in Booth : \/ booth'[b] = Gone /\ b \in drop
                       \/ booth'[b] = booth[b] /\ b \notin drop
                       \/ /\ booth[b].at = "new" /\ b \notin drop
                          /\ \E l \in langs : booth'[b] = NewRow(r, l, e)
  BY PlacedRows DEF DataOK
<1>2. \A b, c \in Booth, l \in langs :
        booth[b].at = "new" /\ booth[c].at = "new" /\ booth'[b] = NewRow(r, l, e) /\ booth'[c] = NewRow(r, l, e)
          => b = c
  BY PlacedRows DEF DataOK
<1>3. /\ booth' = [b \in Booth |-> booth'[b]]
      /\ relay' = [x \in Room |-> IF relay[x] \in drop THEN None ELSE relay[x]]
  BY PlacedRows DEF DataOK
<1>4. \A l \in langs : NewRow(r, l, e) \in BoothRow
  BY DEF NewRow, BoothRow
<1>5. \A b \in Booth : IsRow(b)' =>
        \/ IsRow(b) /\ booth'[b] = booth[b]
        \/ booth[b].at = "new" /\ \E l \in langs : booth'[b] = NewRow(r, l, e)
  BY <1>1, GoneIsNoRow DEF IsRow
<1>6. \A b \in Booth, l \in langs : booth'[b] = NewRow(r, l, e) =>
        booth'[b].room = r /\ booth'[b].lang = l /\ booth'[b].event = e
  BY DEF NewRow
<1>7. \A b \in Booth : IsRow(b) => booth[b].room \in Room /\ room'[booth[b].room] = room[booth[b].room]
  BY DEF DataOK, DataTypes, RelayStaysInside
<1>8. DataTypes'
  <2>1. booth' \in [Booth -> BoothRow]
    <3>1. \A b \in Booth : booth'[b] \in BoothRow
      BY <1>1, <1>4, GoneIsNoRow DEF DataOK, DataTypes
    <3> QED BY <1>3, <3>1
  <2>2. relay' \in [Room -> Booth \cup {None}]
    BY <1>3 DEF DataOK, DataTypes
  <2>3. \A b \in Booth : IsRow(b)' =>
          booth'[b].room \in Room /\ booth'[b].lang \in Lang /\ booth'[b].event \in Event
    BY <1>5, <1>6 DEF DataOK, DataTypes
  <2> QED BY <2>1, <2>2, <2>3 DEF DataTypes
<1>9. RelayStaysInside'
  <2>1. ASSUME NEW b \in Booth, IsRow(b)'
        PROVE  room'[booth'[b].room] = booth'[b].event /\ event'[booth'[b].event] # "none"
    <3>1. CASE IsRow(b) /\ booth'[b] = booth[b]
      BY <1>7, <3>1 DEF DataOK, DataTypes, RelayStaysInside
    <3>2. CASE \E l \in langs : booth'[b] = NewRow(r, l, e)
      BY <1>6, <3>2
    <3> QED BY <1>5, <2>1, <3>1, <3>2
  <2>2. ASSUME NEW x \in Room, relay'[x] # None
        PROVE  IsRow(relay[x])' /\ booth'[relay'[x]].event = room'[x]
    <3> DEFINE b == relay[x]
    <3>1. relay'[x] = b /\ b \notin drop /\ b \in Booth
      BY <1>3, <2>2 DEF DataOK, DataTypes
    <3>2. IsRow(b) /\ booth[b].event = room[x] /\ booth[b].event \in Event
      BY <2>2, <3>1 DEF DataOK, DataTypes, RelayStaysInside
    <3>3. booth'[b] = booth[b] /\ booth[b].at = "row"
      BY <1>1, <3>1, <3>2 DEF IsRow
    <3>4. room'[x] = room[x]
      BY <3>2
    <3> QED BY <3>1, <3>2, <3>3, <3>4 DEF IsRow
  <2> QED BY <2>1, <2>2 DEF RelayStaysInside
<1>10. OneBoothPerLanguage'
  <2> SUFFICES ASSUME NEW b \in Booth, NEW c \in Booth, IsRow(b)', IsRow(c)',
                      booth'[b].room = booth'[c].room, booth'[b].lang = booth'[c].lang
               PROVE  b = c
    BY DEF OneBoothPerLanguage
  <2>1. CASE IsRow(b) /\ booth'[b] = booth[b] /\ IsRow(c) /\ booth'[c] = booth[c]
    BY <2>1 DEF DataOK, OneBoothPerLanguage
  <2>2. ASSUME NEW x \in Booth, NEW y \in Booth, IsRow(x), booth'[x] = booth[x],
               NEW l \in langs, booth'[y] = NewRow(r, l, e),
               booth'[x].room = booth'[y].room, booth'[x].lang = booth'[y].lang
        PROVE  FALSE
    <3>1. x \in RowFor(r, l)
      BY <1>6, <2>2 DEF RowFor, RowsOfRoom
    <3> QED BY <3>1
  <2>3. ASSUME NEW l \in langs, NEW k \in langs, booth[b].at = "new", booth[c].at = "new",
               booth'[b] = NewRow(r, l, e), booth'[c] = NewRow(r, k, e)
        PROVE  b = c
    <3>1. l = k
      BY <1>6, <2>3
    <3> QED BY <1>2, <2>3, <3>1
  <2> QED BY <1>5, <2>1, <2>2, <2>3
<1>11. RowsMove
  BY <1>1, GoneIsNoRow DEF RowsMove
<1> QED BY <1>8, <1>9, <1>10, <1>11 DEF DataOK

-----------------------------------------------------------------------------
(* The commits.  Only an unlocked event, or its own, has its row inserted  *)
(* or deleted by a request.                                                *)
LEMMA RequestKnown ==
  ASSUME RowsIInv, NEW q \in Request
  PROVE  /\ req[q] \in ReqRow /\ Fits(q, req[q]) /\ live \subseteq Booth /\ q # None
         /\ req[q].op # "idle" => req[q].event \in Event
  BY NoneIsNothing DEF RowsIInv, RequestsOK, Fits

LEMMA CommitEventKeeps ==
  ASSUME RowsIInv, NEW q \in Request, CommitEvent(q)
  PROVE  RowsIInv'
<1> DEFINE e == req[q].event
<1>1. /\ e \in Event /\ event[e] \in {"none", "live"} /\ live' \subseteq Booth
      /\ event' = event \/ (event[e] = "none" /\ event' = [event EXCEPT ![e] = "live"])
      /\ UNCHANGED <<room, relay, booth>>
  BY RequestKnown DEF CommitEvent
<1>2. event' \in [Event -> {"none", "live", "deleted"}]
      /\ \A x \in Event : event'[x] = event[x] \/ (event[x] = "none" /\ event'[x] = "live")
  BY <1>1 DEF RowsIInv, DataOK, DataTypes
<1>3. DataOK'
  BY <1>1, <1>2 DEF RowsIInv, DataOK, DataTypes, RelayStaysInside, OneBoothPerLanguage, IsRow
<1>4. RowsMove /\ EventsMoveUnder(q)
  BY <1>1, <1>2 DEF RowsMove, EventsMoveUnder
<1> QED BY <1>1, <1>3, <1>4, EndKeeps DEF CommitEvent

LEMMA CommitSoftDeleteKeeps ==
  ASSUME RowsIInv, NEW q \in Request, CommitSoftDelete(q)
  PROVE  RowsIInv'
<1> DEFINE e == req[q].event
<1>1. /\ req[q].op = "api_delete_event" /\ event' = [event EXCEPT ![e] = "deleted"]
      /\ UNCHANGED <<room, relay, booth>> /\ live' \subseteq Booth
  BY RequestKnown DEF CommitSoftDelete
<1>2. e \in Event /\ locked[e] = q
  BY <1>1, RequestKnown DEF Fits, ApiOps
<1>3. event' \in [Event -> {"none", "live", "deleted"}]
      /\ \A x \in Event : event'[x] = IF x = e THEN "deleted" ELSE event[x]
  BY <1>1, <1>2 DEF RowsIInv, DataOK, DataTypes
<1>4. DataOK'
  BY <1>1, <1>3 DEF RowsIInv, DataOK, DataTypes, RelayStaysInside, OneBoothPerLanguage, IsRow
<1>5. RowsMove /\ EventsMoveUnder(q)
  BY <1>1, <1>2, <1>3 DEF RowsMove, EventsMoveUnder
<1> QED BY <1>1, <1>4, <1>5, EndKeeps DEF CommitSoftDelete

LEMMA CommitHardDeleteKeeps ==
  ASSUME RowsIInv, NEW q \in Request, CommitHardDelete(q)
  PROVE  RowsIInv'
<1> DEFINE e == req[q].event
           rooms == RoomsOfEvent(e)
           doomed == UNION {RowsOfRoom(r) : r \in rooms}
<1>1. /\ req[q].op = "delete_event" /\ locked[e] = None /\ event' = [event EXCEPT ![e] = "none"]
      /\ DeleteRooms(rooms) /\ UNCHANGED <<live, locked>> /\ End(q)
  BY DEF CommitHardDelete, Free
<1>2. e \in Event /\ live' \subseteq Booth
  BY <1>1, RequestKnown
<1>3. event' \in [Event -> {"none", "live", "deleted"}]
      /\ \A x \in Event : event'[x] = IF x = e THEN "none" ELSE event[x]
  BY <1>1, <1>2 DEF RowsIInv, DataOK, DataTypes
<1>4. DataOK' /\ RowsMove
  <2>1. /\ room' = [r \in Room |-> IF r \in rooms THEN "gone" ELSE room[r]]
        /\ booth' = [b \in Booth |-> IF b \in doomed THEN Gone ELSE booth[b]]
        /\ relay' = [r \in Room |-> IF r \in rooms \/ relay[r] \in doomed THEN None ELSE relay[r]]
    BY <1>1 DEF DeleteRooms
  <2>2. \A r \in rooms : RowsOfRoom(r) \subseteq doomed
    OBVIOUS
  <2>3. \A x \in Event : event'[x] = "none" => event[x] = "none" \/ RoomsOfEvent(x) \subseteq rooms
    BY <1>3
  <2> HIDE DEF doomed
  <2> QED BY <1>3, <2>1, <2>2, <2>3, DeletingKeeps DEF RowsIInv
<1>5. EventsMoveUnder(q)
  BY <1>1, <1>3 DEF EventsMoveUnder
<1> QED BY <1>1, <1>2, <1>4, <1>5, EndKeeps DEF ApiOps

LEMMA CommitRoomKeeps ==
  ASSUME RowsIInv, NEW q \in Request, CommitRoom(q)
  PROVE  RowsIInv'
<1> USE NoneIsNothing, SlugsAreOwn
<1> DEFINE e == req[q].event
<1>1. PICK r \in Room : room[r] = "new" /\ room' = [room EXCEPT ![r] = e]
  BY DEF CommitRoom
<1>2. /\ req[q].op = "create_room" /\ e \in Event /\ live' \subseteq Booth
      /\ UNCHANGED <<event, relay, booth, live, locked>> /\ End(q)
  BY RequestKnown DEF CommitRoom
<1>3. room' \in [Room -> Event \cup {"new", "gone"}] /\ \A x \in Room : room'[x] = room[x] \/ room[x] = "new"
  BY <1>1, <1>2 DEF RowsIInv, DataOK, DataTypes
<1>4. DataOK'
  BY <1>2, <1>3 DEF RowsIInv, DataOK, DataTypes, RelayStaysInside, OneBoothPerLanguage, IsRow
<1>5. RowsMove /\ EventsMoveUnder(q)
  BY <1>2, <1>3 DEF RowsMove, EventsMoveUnder
<1> QED BY <1>2, <1>4, <1>5, EndKeeps DEF ApiOps

LEMMA CommitDeleteRoomKeeps ==
  ASSUME RowsIInv, NEW q \in Request, CommitDeleteRoom(q)
  PROVE  RowsIInv'
<1> DEFINE rooms == {req[q].room}
           doomed == UNION {RowsOfRoom(r) : r \in rooms}
<1>1. /\ room' = [r \in Room |-> IF r \in rooms THEN "gone" ELSE room[r]]
      /\ booth' = [b \in Booth |-> IF b \in doomed THEN Gone ELSE booth[b]]
      /\ relay' = [r \in Room |-> IF r \in rooms \/ relay[r] \in doomed THEN None ELSE relay[r]]
      /\ event' = event /\ live' \subseteq Booth /\ Unlock(q) /\ End(q)
  BY RequestKnown DEF CommitDeleteRoom, DeleteRooms
<1>2. DataOK' /\ RowsMove
  <2>1. \A r \in rooms : RowsOfRoom(r) \subseteq doomed
    OBVIOUS
  <2>2. event' \in [Event -> {"none", "live", "deleted"}]
    BY <1>1 DEF RowsIInv, DataOK, DataTypes
  <2> HIDE DEF doomed, rooms
  <2> QED BY <1>1, <2>1, <2>2, DeletingKeeps DEF RowsIInv
<1>3. EventsMoveUnder(q)
  BY <1>1 DEF EventsMoveUnder
<1> QED BY <1>1, <1>2, <1>3, EndKeeps

LEMMA CommitDeleteBoothKeeps ==
  ASSUME RowsIInv, NEW q \in Request, CommitDeleteBooth(q)
  PROVE  RowsIInv'
<1> DEFINE doomed == req[q].drop
<1>1. /\ booth' = [b \in Booth |-> IF b \in doomed THEN Gone ELSE booth[b]]
      /\ relay' = [r \in Room |-> IF relay[r] \in doomed THEN None ELSE relay[r]]
      /\ event' = event /\ room' = room /\ live' \subseteq Booth /\ Unlock(q) /\ End(q)
  BY RequestKnown DEF CommitDeleteBooth, DeleteBooths
<1>2. DataOK' /\ RowsMove
  <2> DEFINE rooms == {}
  <2>1. room' = [r \in Room |-> IF r \in rooms THEN "gone" ELSE room[r]]
    BY <1>1 DEF RowsIInv, DataOK, DataTypes
  <2>2. relay' = [r \in Room |-> IF r \in rooms \/ relay[r] \in doomed THEN None ELSE relay[r]]
    BY <1>1
  <2>3. \A r \in rooms : RowsOfRoom(r) \subseteq doomed
    OBVIOUS
  <2>4. event' \in [Event -> {"none", "live", "deleted"}]
    BY <1>1 DEF RowsIInv, DataOK, DataTypes
  <2> HIDE DEF doomed, rooms
  <2> QED BY <1>1, <2>1, <2>2, <2>3, <2>4, DeletingKeeps DEF RowsIInv
<1>3. EventsMoveUnder(q)
  BY <1>1 DEF EventsMoveUnder
<1> QED BY <1>1, <1>2, <1>3, EndKeeps

LEMMA CommitRelayKeeps ==
  ASSUME RowsIInv, NEW q \in Request, CommitRelay(q)
  PROVE  RowsIInv'
<1> USE NoneIsNothing, SlugsAreOwn
<1> DEFINE r == req[q].room  b == req[q].booth
<1>1. /\ req[q].op = "edit_relay" /\ room[r] \in Event /\ (b # None => IsRow(b))
      /\ relay' = [relay EXCEPT ![r] = b]
      /\ UNCHANGED <<event, room, booth, live, locked>> /\ End(q)
  BY DEF CommitRelay, RelayKey
<1>2. r \in Room /\ b \in Booth \cup {None} /\ live' \subseteq Booth
  BY <1>1, RequestKnown DEF Fits, OnRoom, ReqRow
<1>3. b # None => booth[b].event = room[r]
  BY <1>1, <1>2, RequestKnown DEF Fits
<1>4. relay' \in [Room -> Booth \cup {None}] /\ \A x \in Room : relay'[x] = IF x = r THEN b ELSE relay[x]
  BY <1>1, <1>2 DEF RowsIInv, DataOK, DataTypes
<1>5. DataTypes' /\ OneBoothPerLanguage'
  BY <1>1, <1>4 DEF RowsIInv, DataOK, DataTypes, OneBoothPerLanguage, IsRow
<1>6. RelayStaysInside'
  BY <1>1, <1>2, <1>3, <1>4 DEF RowsIInv, DataOK, RelayStaysInside, IsRow
<1>7. RowsMove /\ EventsMoveUnder(q)
  BY <1>1 DEF RowsMove, EventsMoveUnder
<1> QED BY <1>1, <1>2, <1>5, <1>6, <1>7, EndKeeps DEF DataOK, ApiOps

LEMMA RollbackKeeps ==
  ASSUME RowsIInv, NEW q \in Request, Rollback(q)
  PROVE  RowsIInv'
<1>1. UNCHANGED <<event, room, relay, booth, live>> /\ Unlock(q) /\ End(q)
  BY DEF Rollback
<1>2. RowsMove /\ EventsMoveUnder(q) /\ live' \subseteq Booth
  BY <1>1, RequestKnown DEF RowsMove, EventsMoveUnder
<1> QED BY <1>1, <1>2, DataUnchanged, EndKeeps DEF RowsIInv

(* The room a request finds or creates.                                    *)
LEMMA FoundOrNew ==
  ASSUME DataTypes, NEW x \in Room \cup {None}, NEW e \in Event, NEW r \in GetOrCreate(x, e),
         room' = [room EXCEPT ![r] = e]
  PROVE  /\ r \in Room /\ room'[r] = e
         /\ room' \in [Room -> Event \cup {"new", "gone"}]
         /\ \A y \in Room : room'[y] = room[y] \/ room[y] = "new"
<1>1. r \in Room /\ room[r] \in {e, "new"}
  BY NoneIsNothing DEF GetOrCreate
<1> QED BY <1>1 DEF DataTypes

LEMMA CommitUpsertKeeps ==
  ASSUME RowsIInv, NEW q \in Request, CommitUpsert(q)
  PROVE  RowsIInv'
<1> DEFINE e == req[q].event  drop == req[q].drop
           new(r) == {l \in req[q].langs : RowFor(r, l) = {}}
<1>1. /\ req[q].op \in {"api_upsert_room", "new_room"} /\ event' = event /\ live' = live
      /\ End(q) /\ Unlock(q)
      /\ req[q].op = "new_room" => event[e] # "none"
  BY DEF CommitUpsert
<1>2. PICK r \in GetOrCreate(req[q].room, e) : room' = [room EXCEPT ![r] = e] /\ Placed(r, e, new(r), drop)
  BY DEF CommitUpsert
<1>3. e \in Event /\ req[q].room \in Room \cup {None} /\ req[q].langs \subseteq Lang /\ live \subseteq Booth
  BY <1>1, RequestKnown DEF ReqRow
<1>4. event[e] # "none"
  <2>1. CASE req[q].op = "api_upsert_room"
    BY <2>1, RequestKnown DEF Fits, ApiOps
  <2> QED BY <1>1, <2>1
<1>5. /\ r \in Room /\ room'[r] = e
      /\ room' \in [Room -> Event \cup {"new", "gone"}]
      /\ \A y \in Room : room'[y] = room[y] \/ room[y] = "new"
  BY <1>2, <1>3, FoundOrNew DEF RowsIInv, DataOK
<1>6. DataOK' /\ RowsMove
  <2> DEFINE langs == new(r)
  <2>1. langs \in SUBSET Lang /\ \A l \in langs : RowFor(r, l) = {}
    BY <1>3
  <2>2. Placed(r, e, langs, drop)
    BY <1>2
  <2>3. DataOK /\ event' \in [Event -> {"none", "live", "deleted"}] /\ event'[e] # "none"
    BY <1>1, <1>4 DEF RowsIInv, DataOK, DataTypes
  <2> HIDE DEF langs, e, drop
  <2> QED BY <1>1, <1>3, <1>5, <2>1, <2>2, <2>3, PlacedKeeps
<1>7. EventsMoveUnder(q)
  BY <1>1 DEF EventsMoveUnder
<1> QED BY <1>1, <1>3, <1>6, <1>7, EndKeeps

LEMMA CommitBoothsKeeps ==
  ASSUME RowsIInv, NEW q \in Request, CommitBooths(q)
  PROVE  RowsIInv'
<1> DEFINE r == req[q].room  e == req[q].event  langs == req[q].langs  drop == req[q].drop
<1>1. /\ req[q].op \in {"create_booth", "api_create_booth", "save_setup"}
      /\ event' = event /\ room' = room /\ live' = live /\ End(q) /\ Unlock(q)
      /\ Insertable(r, e, langs) /\ Placed(r, e, langs, drop)
  BY DEF CommitBooths
<1>2. e \in Event /\ r \in Room /\ langs \in SUBSET Lang /\ live \subseteq Booth /\ room[r] \in {e, "gone"}
  BY <1>1, RequestKnown, NoneIsNothing DEF ReqRow, Fits, OnRoom
<1>3. DataOK' /\ RowsMove
  <2>1. langs # {} => room'[r] = e /\ event'[e] # "none"
    BY <1>1, <1>2, SlugsAreOwn DEF Insertable
  <2>2. \A l \in langs : RowFor(r, l) = {}
    BY <1>1 DEF Insertable
  <2>3. /\ DataOK /\ event' \in [Event -> {"none", "live", "deleted"}]
        /\ room' \in [Room -> Event \cup {"new", "gone"}]
    BY <1>1 DEF RowsIInv, DataOK, DataTypes
  <2> HIDE DEF r, e, langs, drop
  <2> QED BY <1>1, <1>2, <2>1, <2>2, <2>3, PlacedKeeps
<1>4. EventsMoveUnder(q)
  BY <1>1 DEF EventsMoveUnder
<1> QED BY <1>1, <1>2, <1>3, <1>4, EndKeeps

LEMMA CommitProvisionKeeps ==
  ASSUME RowsIInv, NEW q \in Request, CommitProvision(q)
  PROVE  RowsIInv'
<1> DEFINE e == req[q].event  langs == req[q].langs
<1>1. /\ req[q].op = "provision" /\ locked[e] = None /\ live' = live /\ locked' = locked /\ End(q)
      /\ event' = [event EXCEPT ![e] = IF event[e] = "none" THEN "live" ELSE event[e]]
  BY DEF CommitProvision, Free
<1>2. PICK r \in GetOrCreate(req[q].room, e) :
        /\ room' = [room EXCEPT ![r] = e]
        /\ \A l \in langs : RowFor(r, l) = {}
        /\ Placed(r, e, langs, {})
  BY DEF CommitProvision
<1>3. e \in Event /\ req[q].room \in Room \cup {None} /\ langs \in SUBSET Lang /\ live \subseteq Booth
  BY <1>1, RequestKnown DEF ReqRow
<1>4. /\ event' \in [Event -> {"none", "live", "deleted"}] /\ event'[e] # "none"
      /\ \A x \in Event : x # e => event'[x] = event[x]
      /\ \A x \in Event : event'[x] = "none" => event[x] = "none"
  BY <1>1, <1>3 DEF RowsIInv, DataOK, DataTypes
<1>5. /\ r \in Room /\ room'[r] = e
      /\ room' \in [Room -> Event \cup {"new", "gone"}]
      /\ \A y \in Room : room'[y] = room[y] \/ room[y] = "new"
  BY <1>2, <1>3, FoundOrNew DEF RowsIInv, DataOK
<1>6. DataOK' /\ RowsMove
  <2> HIDE DEF langs, e
  <2> QED BY <1>2, <1>3, <1>4, <1>5, PlacedKeeps DEF RowsIInv
<1>7. EventsMoveUnder(q)
  BY <1>1, <1>4 DEF EventsMoveUnder
<1> QED BY <1>1, <1>3, <1>6, <1>7, EndKeeps DEF ApiOps

LEMMA RegistryKeeps ==
  ASSUME RowsIInv, NEW b \in Booth, GoLive(b) \/ GoIdle(b)
  PROVE  RowsIInv'
<1>1. UNCHANGED <<event, room, relay, booth, locked, req>> /\ live' \subseteq Booth
  BY DEF GoLive, GoIdle, RowsIInv, RequestsOK
<1> QED BY <1>1, DataUnchanged DEF RowsIInv, LocksOK, RequestsOK, Fits, IsRow

LEMMA RowsStepKeeps == RowsIInv /\ [RowsNext]_rowsVars => RowsIInv'
<1> SUFFICES ASSUME RowsIInv, [RowsNext]_rowsVars PROVE RowsIInv'
  OBVIOUS
<1>1. CASE UNCHANGED rowsVars
  BY <1>1, DataUnchanged DEF rowsVars, RowsIInv, LocksOK, RequestsOK, Fits, IsRow
<1>2. ASSUME NEW q \in Request, Write(q) PROVE RowsIInv'
  BY <1>2, CommitEventKeeps, CommitSoftDeleteKeeps, CommitHardDeleteKeeps, CommitRoomKeeps,
     CommitDeleteRoomKeeps, CommitUpsertKeeps, CommitBoothsKeeps, CommitProvisionKeeps,
     CommitDeleteBoothKeeps, CommitRelayKeeps, RollbackKeeps DEF Write
<1> QED BY <1>1, <1>2, ReadKeeps, RegistryKeeps DEF RowsNext

LEMMA RowsInvariance == RowsSpec => []RowsIInv
  BY RowsStart, RowsStepKeeps, PTL DEF RowsSpec

(* Whatever requests read before each other's commits: every booth is in a *)
(* room of its own event, a room relays only a booth of its event that is  *)
(* there, no room has two booths for one language, and a row lock is held  *)
(* only by an OAuth request at work on that event.                         *)
THEOREM RowsHold == RowsSpec => []RowsInv
  BY RowsInvariance, RowsIInvSuffices, PTL

-----------------------------------------------------------------------------
(* A request that is reading changes no row yet.                           *)
LEMMA ReadsChangeNoRow ==
  ASSUME NEW q \in Request, Read(q)
  PROVE  UNCHANGED <<event, room, relay, booth>>
<1>1. ASSUME NEW e \in Event,
             \/ ApiCreateEvent(q, e) \/ ApiDeleteEvent(q, e) \/ CreateEvent(q, e)
             \/ SetupCreateEvent(q, e) \/ DeleteEvent(q, e) \/ CreateRoom(q, e)
      PROVE  UNCHANGED <<event, room, relay, booth>>
  BY <1>1 DEF ApiCreateEvent, ApiDeleteEvent, CreateEvent, SetupCreateEvent, DeleteEvent, CreateRoom
<1>2. ASSUME NEW e, NEW r, NEW langs, NEW l, NEW b,
             \/ NewRoom(q, e, langs) \/ ApiUpsertRoom(q, e, r, langs) \/ Provision(q, e, r, l)
             \/ ApiDeleteRoom(q, e, r) \/ ApiCreateBooth(q, e, r, l) \/ ApiDeleteBooth(q, e, b)
      PROVE  UNCHANGED <<event, room, relay, booth>>
  BY <1>2 DEF NewRoom, ApiUpsertRoom, Provision, ApiDeleteRoom, ApiCreateBooth, ApiDeleteBooth
<1>3. ASSUME NEW r, NEW langs, NEW l, NEW b,
             \/ DeleteRoom(q, r) \/ CreateBooth(q, r, l) \/ SetupAddBooth(q, r, l) \/ EditRelay(q, r, b)
             \/ SaveSetup(q, r, langs) \/ ApplyPlan(q) \/ DeleteBooth(q, b) \/ DeleteBoothByLanguage(q, b)
      PROVE  UNCHANGED <<event, room, relay, booth>>
  BY <1>3 DEF DeleteRoom, CreateBooth, SetupAddBooth, EditRelay, SaveSetup, ApplyPlan, DeleteBooth,
             DeleteBoothByLanguage
<1> QED BY <1>1, <1>2, <1>3 DEF Read

(* Whoever writes, a slug in the bin is not put back in use: the two that  *)
(* make an event live do so for a slug that has none.                      *)
LEMMA WritesLeaveTheBin ==
  ASSUME RowsIInv, NEW q \in Request, Write(q)
  PROVE  DeletedStays
<1>1. event \in [Event -> {"none", "live", "deleted"}]
  BY DEF RowsIInv, DataOK, DataTypes
<1>2. CASE CommitEvent(q)
  BY <1>1, <1>2 DEF CommitEvent, DeletedStays
<1>3. CASE CommitSoftDelete(q) \/ CommitHardDelete(q)
  BY <1>1, <1>3 DEF CommitSoftDelete, CommitHardDelete, DeletedStays
<1>4. CASE CommitProvision(q)
  BY <1>1, <1>4 DEF CommitProvision, DeletedStays
<1>5. CASE UNCHANGED event
  BY <1>5 DEF DeletedStays
<1>6. CommitRoom(q) \/ CommitDeleteRoom(q) \/ CommitRelay(q) \/ Rollback(q) => UNCHANGED event
  BY DEF CommitRoom, CommitDeleteRoom, CommitRelay, Rollback
<1>7. CommitUpsert(q) \/ CommitBooths(q) \/ CommitDeleteBooth(q) => UNCHANGED event
  BY DEF CommitUpsert, CommitBooths, CommitDeleteBooth
<1> QED BY <1>2, <1>3, <1>4, <1>5, <1>6, <1>7 DEF Write

LEMMA DeletedStep == RowsIInv /\ [RowsNext]_rowsVars => ApiLeavesDeletedAlone /\ DeletedStays
<1> SUFFICES ASSUME RowsIInv, [RowsNext]_rowsVars PROVE ApiLeavesDeletedAlone /\ DeletedStays
  OBVIOUS
<1>1. \A q \in Request : req[q].op \in ApiOps => event[req[q].event] # "deleted"
  BY RequestKnown DEF Fits
<1>2. ApiLeavesDeletedAlone
  BY <1>1 DEF ApiLeavesDeletedAlone
<1>3. UNCHANGED event => DeletedStays
  BY DEF DeletedStays
<1>4. (\A b \in Booth : GoLive(b) \/ GoIdle(b) => UNCHANGED event) /\ (UNCHANGED rowsVars => UNCHANGED event)
  BY DEF GoLive, GoIdle, rowsVars
<1>5. DeletedStays
  BY <1>3, <1>4, ReadsChangeNoRow, WritesLeaveTheBin DEF RowsNext
<1> QED BY <1>2, <1>5

(* An event deleted by the OAuth API is over for every request: none of    *)
(* the API's commits a change to its rooms or booths (the row lock keeps   *)
(* the deletion out while one is under way), and no request brings the     *)
(* slug back, whatever it had read.                                        *)
THEOREM DeletedIsForGood == RowsSpec => DeletedIsOver
  BY RowsInvariance, DeletedStep, PTL DEF RowsSpec, DeletedIsOver

-----------------------------------------------------------------------------
(* What the forms write about a language.                                  *)
LanguageRow == [there : BOOLEAN, enabled : BOOLEAN, tts : BOOLEAN]

(* A language is switched on only by giving it a row.                      *)
EnabledHasRow == \A l \in Language : row[l].enabled => row[l].there

SetupIInv == SetupInv /\ EnabledHasRow

LEMMA SetupStarts == SetupInit => SetupIInv
<1> SUFFICES ASSUME SetupInit PROVE SetupIInv
  OBVIOUS
<1>1. ~saved.is /\ saved.kept = {} /\ saved.chosen \in [Language -> Choosable]
  BY DEF SetupInit, NotSaved, Choosable, Delivery
<1>2. SetupTypeOK
  BY <1>1 DEF SetupInit, SetupTypeOK, NoLanguageRow
<1>3. EnabledHasRow
  BY DEF SetupInit, EnabledHasRow, NoLanguageRow
<1> QED BY <1>1, <1>2, <1>3 DEF SetupIInv, SetupInv, ShowsWhatWasChosen, CaptionsUnderAI

(* Whatever the older pages and the API leave behind, no plan has just     *)
(* been applied.                                                           *)
LEMMA UnsavedNeedsTypes ==
  ASSUME saved' = NotSaved, booths' \subseteq Language, liveBooths' \subseteq booths',
         row' \in [Language -> LanguageRow], EnabledHasRow',
         captions' \in BOOLEAN, translating' \in BOOLEAN, voice' \in BOOLEAN,
         spoken' \in Language \cup {Elsewhere}
  PROVE  SetupIInv'
  BY DEF SetupIInv, SetupInv, SetupTypeOK, ShowsWhatWasChosen, CaptionsUnderAI, NotSaved, LanguageRow, Choosable,
         Delivery

LEMMA EditsKeep ==
  ASSUME SetupIInv, NEW on \in BOOLEAN, NEW ai \in BOOLEAN, NEW langs \in SUBSET Language,
         NEW lang \in Language \cup {Elsewhere},
         EditTranscription(on, lang) \/ EditTranslation(on, langs) \/ EditVoice(on) \/ ApiUpsert(on, ai, langs)
  PROVE  SetupIInv'
<1> USE DEF SetupIInv, EnabledHasRow, SetupInv, SetupTypeOK, LanguageRow
<1>1. CASE EditTranscription(on, lang)
  BY <1>1, UnsavedNeedsTypes DEF EditTranscription
<1>2. CASE EditTranslation(on, langs)
  <2>1. row' \in [Language -> LanguageRow]
    BY <1>2 DEF EditTranslation
  <2>2. \A l \in Language : row'[l].enabled => row'[l].there
    BY <1>2 DEF EditTranslation
  <2>3. EnabledHasRow'
    BY <2>2
  <2> QED BY <1>2, <2>1, <2>3, UnsavedNeedsTypes DEF EditTranslation
<1>3. CASE EditVoice(on)
  BY <1>3, UnsavedNeedsTypes DEF EditVoice
<1>4. CASE ApiUpsert(on, ai, langs)
  <2>1. row' \in [Language -> LanguageRow]
    BY <1>4 DEF ApiUpsert, NoLanguageRow
  <2>2. liveBooths' \subseteq booths' /\ booths' \subseteq Language
    BY <1>4 DEF ApiUpsert
  <2>3. \A l \in Language : row'[l].enabled => row'[l].there
    BY <1>4 DEF ApiUpsert, NoLanguageRow
  <2>4. EnabledHasRow'
    BY <2>3
  <2> QED BY <1>4, <2>1, <2>2, <2>4, UnsavedNeedsTypes DEF ApiUpsert
<1> QED BY <1>1, <1>2, <1>3, <1>4

LEMMA BoothPagesKeep ==
  ASSUME SetupIInv, NEW l \in Language, AddBooth(l) \/ DropBooth(l)
  PROVE  SetupIInv'
  BY UnsavedNeedsTypes DEF SetupIInv, EnabledHasRow, SetupInv, SetupTypeOK, LanguageRow, AddBooth, DropBooth

LEMMA OnAirKeeps ==
  ASSUME SetupIInv, NEW l \in Language, OnAir(l)
  PROVE  SetupIInv'
<1>1. UNCHANGED <<booths, row, captions, translating, voice, spoken, saved>> /\ liveBooths' \subseteq booths
  BY DEF OnAir, SetupIInv, SetupInv, SetupTypeOK
<1>2. Snapshot' = Snapshot
  BY <1>1 DEF Snapshot, Translated
<1> QED BY <1>1, <1>2 DEF SetupIInv, EnabledHasRow, SetupInv, SetupTypeOK, ShowsWhatWasChosen, CaptionsUnderAI

(* Applying a plan: a live booth that is no longer wanted keeps its        *)
(* channel an interpreter's; every other language is what was chosen.      *)
LEMMA SaveKeeps ==
  ASSUME SetupIInv, NEW chosen \in [Language -> Choosable], NEW asked \in BOOLEAN,
         NEW lang \in Language \cup {Elsewhere}, Save(chosen, asked, lang)
  PROVE  SetupIInv'
<1> DEFINE plan == Parsed(chosen, lang)
           kept == KeptLive(plan)
           ai == AiCodes(plan)
           speak == Uses(plan, {"ai_voice"})
<1>1. plan \in [Language -> Choosable]
  BY DEF Parsed, Choosable, Delivery
<1>2. /\ spoken' = lang /\ liveBooths' = liveBooths
      /\ booths' = Uses(plan, Human) \cup kept
      /\ captions' = WantsCaptions(plan, asked)
      /\ translating' = (ai # {})
      /\ row' = SyncRows(ai, speak)
      /\ voice' = (ai # {} /\ speak # {})
      /\ saved' = [is |-> TRUE, chosen |-> plan, captions |-> asked, kept |-> kept]
  BY DEF Save
<1>3. /\ kept \subseteq Language /\ kept \subseteq liveBooths
      /\ Uses(plan, Human) \subseteq Language /\ speak \subseteq Language /\ ai \subseteq Language
      /\ liveBooths \subseteq Uses(plan, Human) \cup kept
  BY DEF KeptLive, Uses, AiCodes, SetupIInv, SetupInv, SetupTypeOK
<1>4. \A l \in Language :
        /\ l \in Uses(plan, Human) <=> plan[l] = "interpreter"
        /\ l \in speak <=> plan[l] = "ai_voice"
        /\ l \in ai <=> plan[l] \in {"ai_voice", "ai_text"} /\ l \notin kept
        /\ l \in kept => plan[l] # "interpreter"
  BY <1>1 DEF Uses, AiCodes, KeptLive, Human, AI, Choosable, Delivery
<1>5. WantsCaptions(plan, asked) \in BOOLEAN /\ (ai # {} => WantsCaptions(plan, asked))
  BY DEF WantsCaptions, NeedsCaptions, AiCodes
<1> HIDE DEF plan, kept, ai, speak
<1>6. row' \in [Language -> LanguageRow]
  BY <1>2 DEF SyncRows, LanguageRow, SetupIInv, SetupInv, SetupTypeOK
<1>7. \A l \in Language : /\ l \in ai => row'[l].there /\ row'[l].enabled /\ (row'[l].tts <=> l \in speak)
                          /\ l \notin ai => ~row'[l].enabled
  <2> SUFFICES ASSUME NEW l \in Language
               PROVE  /\ l \in ai => row'[l].there /\ row'[l].enabled /\ (row'[l].tts <=> l \in speak)
                      /\ l \notin ai => ~row'[l].enabled
    OBVIOUS
  <2>1. row'[l] = IF l \in ai \/ row[l].there
                    THEN [there |-> TRUE, enabled |-> l \in ai, tts |-> l \in speak]
                    ELSE row[l]
    BY <1>2 DEF SyncRows
  <2>2. row[l].enabled => row[l].there
    BY DEF SetupIInv, EnabledHasRow
  <2>3. CASE l \in ai
    <3>1. row'[l].there = TRUE /\ row'[l].enabled = (l \in ai) /\ row'[l].tts = (l \in speak)
      BY <2>1, <2>3
    <3> QED BY <2>3, <3>1
  <2>4. CASE l \notin ai /\ row[l].there
    <3>1. row'[l].enabled = (l \in ai)
      BY <2>1, <2>4
    <3> QED BY <2>4, <3>1
  <2>5. CASE l \notin ai /\ ~row[l].there
    <3>1. row'[l].enabled = row[l].enabled
      BY <2>1, <2>5
    <3> QED BY <2>2, <2>5, <3>1
  <2> QED BY <2>3, <2>4, <2>5
<1>8. SetupTypeOK'
  <2>1. /\ captions' \in BOOLEAN /\ translating' \in BOOLEAN /\ voice' \in BOOLEAN
    BY <1>2, <1>5
  <2>2. saved'.chosen = plan /\ saved'.kept = kept
    BY <1>2
  <2> QED BY <1>1, <1>2, <1>3, <1>6, <2>1, <2>2 DEF SetupTypeOK, LanguageRow
<1>9. Translated' = ai
  <2>1. translating' <=> ai # {}
    BY <1>2
  <2>2. \A l \in Language : row'[l].enabled <=> l \in ai
    BY <1>7
  <2> QED BY <1>3, <2>1, <2>2 DEF Translated
<1>10. \A l \in Language : Snapshot'[l] = IF l \in kept THEN "interpreter" ELSE plan[l]
  <2> SUFFICES ASSUME NEW l \in Language
               PROVE  Snapshot'[l] = IF l \in kept THEN "interpreter" ELSE plan[l]
    OBVIOUS
  <2>1. Snapshot'[l] = IF l \in booths' THEN IF l \in ai THEN "both" ELSE "interpreter"
                       ELSE IF l \notin ai THEN "off"
                       ELSE IF voice' /\ row'[l].tts THEN "ai_voice" ELSE "ai_text"
    BY <1>9 DEF Snapshot
  <2>2. l \in booths' <=> plan[l] = "interpreter" \/ l \in kept
    BY <1>2, <1>4
  <2>3. l \in ai => ((voice' /\ row'[l].tts) <=> plan[l] = "ai_voice")
    BY <1>2, <1>4, <1>7
  <2>4. plan[l] \in {"off", "interpreter", "ai_voice", "ai_text"}
    BY <1>1 DEF Choosable, Delivery
  <2>5. l \in ai => plan[l] \in {"ai_voice", "ai_text"} /\ l \notin kept
    BY <1>4
  <2>6. l \notin ai => plan[l] \notin {"ai_voice", "ai_text"} \/ l \in kept
    BY <1>4
  <2> QED BY <2>1, <2>2, <2>3, <2>4, <2>5, <2>6
<1>11. ShowsWhatWasChosen'
  <2>1. saved'.chosen = plan /\ saved'.kept = kept
    BY <1>2
  <2> QED BY <1>10, <2>1 DEF ShowsWhatWasChosen, Snapshot
<1>12. CaptionsUnderAI'
  BY <1>2, <1>5 DEF CaptionsUnderAI
<1>13. EnabledHasRow'
  BY <1>7 DEF EnabledHasRow
<1> QED BY <1>8, <1>11, <1>12, <1>13 DEF SetupIInv, SetupInv

LEMMA SetupStepKeeps == SetupIInv /\ [SetupNext]_setupVars => SetupIInv'
<1> SUFFICES ASSUME SetupIInv, [SetupNext]_setupVars PROVE SetupIInv'
  OBVIOUS
<1>1. CASE UNCHANGED setupVars
  BY <1>1 DEF setupVars, SetupIInv, EnabledHasRow, SetupInv, SetupTypeOK, ShowsWhatWasChosen, CaptionsUnderAI,
     Snapshot, Translated
<1>2. CASE SetupNext
  <2>1. ASSUME NEW on \in BOOLEAN, NEW lang \in Language \cup {Elsewhere}, EditTranscription(on, lang)
        PROVE  SetupIInv'
    BY <2>1, EditsKeep
  <2>2. ASSUME NEW on \in BOOLEAN, NEW ai \in BOOLEAN, NEW langs \in SUBSET Language,
               EditTranslation(on, langs) \/ ApiUpsert(on, ai, langs)
        PROVE  SetupIInv'
    <3>1. Elsewhere \in Language \cup {Elsewhere}
      OBVIOUS
    <3> QED BY <2>2, <3>1, EditsKeep
  <2>3. ASSUME NEW on \in BOOLEAN, EditVoice(on) PROVE SetupIInv'
    <3>1. Elsewhere \in Language \cup {Elsewhere} /\ {} \in SUBSET Language
      OBVIOUS
    <3> QED BY <2>3, <3>1, EditsKeep
  <2> QED BY <1>2, <2>1, <2>2, <2>3, SaveKeeps, BoothPagesKeep, OnAirKeeps DEF SetupNext
<1> QED BY <1>1, <1>2

(* parse_plan, apply_plan, load_snapshot: whatever earlier pages and the   *)
(* API left in the room's columns, the form opened after a save shows what *)
(* was chosen in it, and captions are on wherever AI needs them, for any   *)
(* languages.                                                              *)
THEOREM SetupHolds == SetupSpec => []SetupInv
<1>1. SetupIInv => SetupInv
  BY DEF SetupIInv
<1> QED BY <1>1, SetupStarts, SetupStepKeeps, PTL DEF SetupSpec
=============================================================================
