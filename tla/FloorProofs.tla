---------------------------- MODULE FloorProofs ----------------------------
(***************************************************************************)
(* Who owns a floor: FloorInv and FreshFeedKept of program ingest, for any *)
(* number of rooms and MediaMTX sessions, and AgentInv of the meeting bot, *)
(* for any meetings and any budget of restarts.                            *)
(***************************************************************************)
EXTENDS FloorPublish, MeetingAgent, FiniteSetTheorems, TLAPS

RowOf == [source : {"bot", "program"}, relay : BOOLEAN,
          key : {"none", "valid"}, secret : Credential, sid : Session \cup {None}]
LockOf == [op : Op, by : Session \cup {None}, seen : Session \cup {None}]
PubOf == [at : {"off", "asking", "allowed", "live"}, room : Room \cup {None}, as : Kind, good : BOOLEAN]

(* The rooms that are counted.                                             *)
Held == {q \in Room : row[q].sid # None /\ row[q].source = "program"}

(* A session that holds a reservation is past asking, and does not ask     *)
(* again while it does; those that are counted are finitely many.          *)
FloorIInv ==
  /\ FloorInv
  /\ IsFiniteSet(Held)
  /\ \A r \in Room : row[r].sid # None => pub[row[r].sid].at # "asking"
  /\ \A p \in Session : pub[p].at = "asking" => pub[p].room \in Room

NobodyAsks == \A p \in Session : pub'[p].at = "asking" => pub[p].at = "asking" /\ pub'[p].room = pub[p].room

(* Held changes at one room only, and there only by a reservation.         *)
LEMMA HeldGrows ==
  ASSUME FloorIInv, NEW r \in Room,
         \A q \in Room \ {r} : row'[q].sid = row[q].sid /\ row'[q].source = row[q].source,
         \/ row'[r].sid = None \/ row'[r].source # "program"
         \/ row[r].sid # None /\ row[r].source = "program"
         \/ Count < MaxRooms
  PROVE  IsFiniteSet(Held)' /\ CapacityHeld'
<1>1. IsFiniteSet(Held) /\ Count = Cardinality(Held) /\ Count <= MaxRooms /\ MaxRooms \in Nat
  BY FloorAssumption DEF FloorIInv, FloorInv, CapacityHeld, Count, Held
<1>2. Cardinality(Held) \in Nat
  BY <1>1, FS_CardinalityType
<1>3. Held' \subseteq Held \cup {r}
  BY DEF Held
<1>4. Count' = Cardinality(Held')
  BY DEF Count, Held
<1>5. CASE r \notin Held' \/ r \in Held
  <2>1. Held' \subseteq Held
    BY <1>3, <1>5
  <2>2. IsFiniteSet(Held') /\ Cardinality(Held') <= Cardinality(Held) /\ Cardinality(Held') \in Nat
    BY <1>1, <2>1, FS_Subset, FS_CardinalityType
  <2> QED BY <1>1, <1>2, <1>4, <2>2 DEF CapacityHeld
<1>6. CASE r \in Held' /\ r \notin Held
  <2>1. Count < MaxRooms
    BY <1>6 DEF Held
  <2>2. IsFiniteSet(Held \cup {r}) /\ Cardinality(Held \cup {r}) = Cardinality(Held) + 1
    BY <1>1, <1>6, FS_AddElement
  <2>3. IsFiniteSet(Held') /\ Cardinality(Held') <= Cardinality(Held \cup {r}) /\ Cardinality(Held') \in Nat
    BY <1>3, <2>2, FS_Subset, FS_CardinalityType
  <2> QED BY <1>1, <1>2, <1>4, <2>1, <2>2, <2>3 DEF CapacityHeld
<1> QED BY <1>5, <1>6

LEMMA HeldStays ==
  ASSUME FloorIInv, UNCHANGED row PROVE IsFiniteSet(Held)' /\ CapacityHeld'
<1>1. Held' = Held /\ Count' = Count
  BY DEF Held, Count
<1> QED BY <1>1 DEF FloorIInv, FloorInv, CapacityHeld

LEMMA FloorStarts == FloorInit => FloorIInv
<1> SUFFICES ASSUME FloorInit PROVE FloorIInv
  OBVIOUS
<1>1. FloorTypeOK
  BY FloorAssumption DEF FloorInit, FloorTypeOK, Credential, Age, Op, Kind, Unlocked, Off
<1>2. Held = {} /\ Count = 0
  <2>1. Held = {}
    BY DEF FloorInit, Held
  <2> QED BY <2>1, FS_EmptySet DEF Held, Count
<1>3. CapacityHeld /\ IsFiniteSet(Held)
  BY <1>2, FloorAssumption, FS_EmptySet DEF CapacityHeld
<1>4. \A p \in Session : pub[p].at = "off"
  BY DEF FloorInit, Off
<1> QED BY <1>1, <1>3, <1>4 DEF FloorInit, FloorIInv, FloorInv, OneOwner

(* Of a lock, a session and a reservation: what kicking, retiring and      *)
(* looking at the path give.                                               *)
LEMMA Pubs ==
  ASSUME FloorTypeOK
  PROVE  /\ \A r \in Room : Source(r) \in Session \cup {None}
         /\ \A gone : Kicked(gone) \in [Session -> PubOf]
         /\ \A gone, p \in Session : Kicked(gone)[p] = pub[p] \/ Kicked(gone)[p].at = "off"
<1>1. Off \in PubOf /\ Off.at = "off" /\ pub \in [Session -> PubOf]
  BY DEF Off, PubOf, Kind, FloorTypeOK
<1>2. ASSUME NEW r \in Room PROVE Source(r) \in Session \cup {None}
  BY DEF Source
<1> QED BY <1>1, <1>2 DEF Kicked

LEMMA RetiredPubs ==
  ASSUME NEW pubs \in [Session -> PubOf], NEW r \in Room, NEW kinds
  PROVE  /\ Retired(pubs, r, kinds) \in [Session -> PubOf]
         /\ \A p \in Session : Retired(pubs, r, kinds)[p].at = pubs[p].at /\ Retired(pubs, r, kinds)[p].room = pubs[p].room
<1> SUFFICES ASSUME NEW p \in Session
             PROVE  /\ Retired(pubs, r, kinds)[p] \in PubOf /\ Retired(pubs, r, kinds)[p].at = pubs[p].at
                    /\ Retired(pubs, r, kinds)[p].room = pubs[p].room
  BY DEF Retired
<1>1. pubs[p] \in PubOf
  OBVIOUS
<1>2. Retired(pubs, r, kinds)[p] \in {pubs[p], [pubs[p] EXCEPT !.good = FALSE]}
  BY DEF Retired
<1>3. [pubs[p] EXCEPT !.good = FALSE] \in PubOf /\ [pubs[p] EXCEPT !.good = FALSE].at = pubs[p].at
      /\ [pubs[p] EXCEPT !.good = FALSE].room = pubs[p].room
  BY <1>1 DEF PubOf
<1> QED BY <1>1, <1>2, <1>3

(* A row that is changed as the source asks is a row of the table.         *)
LEMMA RowKept ==
  ASSUME FloorIInv, NEW r \in Room, NEW new \in RowOf, row' = [row EXCEPT ![r] = new],
         new.relay => new.secret = "none",
         new.source = "bot" => new.key = "none" /\ new.secret = "none" /\ new.sid = None,
         \/ new.sid = None
         \/ row[r].sid # None /\ row[r].source = "program"
         \/ Count < MaxRooms
  PROVE  /\ row' \in [Room -> RowOf] /\ \A q \in Room : row'[q].relay => row'[q].secret = "none"
         /\ OneOwner' /\ IsFiniteSet(Held)' /\ CapacityHeld'
<1>1. row \in [Room -> RowOf] /\ (\A q \in Room : row[q].relay => row[q].secret = "none") /\ OneOwner
  BY DEF FloorIInv, FloorInv, FloorTypeOK, RowOf
<1>2. row' \in [Room -> RowOf] /\ row'[r] = new /\ \A q \in Room \ {r} : row'[q] = row[q]
  BY <1>1
<1>3. (\A q \in Room : row'[q].relay => row'[q].secret = "none") /\ OneOwner'
  BY <1>1, <1>2 DEF OneOwner
<1>4. IsFiniteSet(Held)' /\ CapacityHeld'
  BY <1>2, HeldGrows
<1> QED BY <1>2, <1>3, <1>4

LEMMA FloorAsk ==
  ASSUME FloorIInv, NEW p \in Session, NEW r \in Room, NEW kind \in Kind, Ask(p, r, kind)
  PROVE  FloorIInv'
<1> USE DEF Ask
<1>1. IsFiniteSet(Held)' /\ CapacityHeld'
  BY HeldStays
<1>2. FloorTypeOK'
  BY DEF FloorIInv, FloorInv, FloorTypeOK
<1>3. OneOwner' /\ \A q \in Room : row'[q].sid # None => pub'[row'[q].sid].at # "asking"
  BY DEF FloorIInv, FloorInv, OneOwner, FloorTypeOK
<1>4. \A q \in Session : pub'[q].at = "asking" => pub'[q].room \in Room
  BY DEF FloorIInv, FloorInv, FloorTypeOK
<1> QED BY <1>1, <1>2, <1>3, <1>4 DEF FloorIInv, FloorInv

LEMMA FloorGoLive ==
  ASSUME FloorIInv, NEW p \in Session, GoLive(p) PROVE FloorIInv'
<1> USE DEF GoLive
<1>1. IsFiniteSet(Held)' /\ CapacityHeld'
  BY HeldStays
<1>2. pub \in [Session -> PubOf] /\ Off \in PubOf /\ Off.at = "off"
  BY DEF FloorIInv, FloorInv, FloorTypeOK, PubOf, Off, Kind
<1>3. PICK new \in PubOf : pub' = [pub EXCEPT ![p] = new] /\ new.at \in {"off", "live"}
  <2>1. [pub[p] EXCEPT !.at = "live"] \in PubOf /\ [pub[p] EXCEPT !.at = "live"].at = "live"
    BY <1>2 DEF PubOf
  <2> QED BY <1>2, <2>1
<1>4. pub' \in [Session -> PubOf] /\ NobodyAsks
  BY <1>2, <1>3 DEF NobodyAsks
<1>5. FloorTypeOK'
  BY <1>4 DEF FloorIInv, FloorInv, FloorTypeOK, PubOf
<1>6. OneOwner' /\ \A q \in Room : row'[q].sid # None => pub'[row'[q].sid].at # "asking"
  BY <1>4 DEF FloorIInv, FloorInv, OneOwner, FloorTypeOK, NobodyAsks
<1>7. \A q \in Session : pub'[q].at = "asking" => pub'[q].room \in Room
  BY <1>4 DEF FloorIInv, NobodyAsks
<1> QED BY <1>1, <1>5, <1>6, <1>7 DEF FloorIInv, FloorInv

(* A step that leaves the rows alone and lets nobody ask.                  *)
LEMMA RowsAlone ==
  ASSUME FloorIInv, UNCHANGED row, pub' \in [Session -> PubOf],
         NobodyAsks,
         reserved' \in [Room -> Age], missing' \in [Room -> BOOLEAN], lock' \in [Room -> LockOf],
         todo' \subseteq Room, unlisted' \subseteq Room, snap' \in [Room -> Session \cup {None}], restarts' \in 0 .. MaxPortalRestarts
  PROVE  FloorIInv'
<1>1. IsFiniteSet(Held)' /\ CapacityHeld'
  BY HeldStays
<1>2. FloorTypeOK'
  BY DEF FloorIInv, FloorInv, FloorTypeOK, PubOf, LockOf
<1>3. OneOwner' /\ \A q \in Room : row'[q].sid # None => pub'[row'[q].sid].at # "asking"
  BY DEF FloorIInv, FloorInv, OneOwner, FloorTypeOK, NobodyAsks
<1>4. \A q \in Session : pub'[q].at = "asking" => pub'[q].room \in Room
  BY DEF FloorIInv, NobodyAsks
<1> QED BY <1>1, <1>2, <1>3, <1>4 DEF FloorIInv, FloorInv

(* A step that changes one row and lets nobody ask.                        *)
LEMMA RowAlone ==
  ASSUME FloorIInv, NEW r \in Room, NEW new \in RowOf, row' = [row EXCEPT ![r] = new],
         new.relay => new.secret = "none",
         new.source = "bot" => new.key = "none" /\ new.secret = "none" /\ new.sid = None,
         new.sid = None \/ new.sid = row[r].sid,
         new.source = row[r].source \/ new.sid = None,
         pub' \in [Session -> PubOf],
         NobodyAsks,
         reserved' \in [Room -> Age], missing' \in [Room -> BOOLEAN], lock' \in [Room -> LockOf],
         todo' \subseteq Room, unlisted' \subseteq Room, snap' \in [Room -> Session \cup {None}], restarts' \in 0 .. MaxPortalRestarts
  PROVE  FloorIInv'
<1>1. row[r] \in RowOf /\ row \in [Room -> RowOf]
  BY DEF FloorIInv, FloorInv, FloorTypeOK, RowOf
<1>2. new.sid = None \/ (row[r].sid # None /\ row[r].source = "program")
  <2>1. row[r].source = "bot" => row[r].sid = None
    BY DEF FloorIInv, FloorInv, OneOwner
  <2> QED BY <1>1, <2>1 DEF RowOf
<1>3. /\ row' \in [Room -> RowOf] /\ \A q \in Room : row'[q].relay => row'[q].secret = "none"
      /\ OneOwner' /\ IsFiniteSet(Held)' /\ CapacityHeld'
  BY <1>2, RowKept
<1>4. FloorTypeOK'
  BY <1>3 DEF FloorIInv, FloorInv, FloorTypeOK, PubOf, LockOf, RowOf
<1>5. ASSUME NEW q \in Room, row'[q].sid # None PROVE pub'[row'[q].sid].at # "asking"
  <2>1. row'[q].sid = row[q].sid
    BY <1>1, <1>5
  <2>2. row[q].sid \in Session /\ pub[row[q].sid].at # "asking"
    BY <1>1, <1>5, <2>1 DEF FloorIInv, RowOf
  <2> QED BY <2>1, <2>2 DEF NobodyAsks
<1>6. \A q \in Session : pub'[q].at = "asking" => pub'[q].room \in Room
  BY DEF FloorIInv, NobodyAsks
<1> QED BY <1>3, <1>4, <1>5, <1>6 DEF FloorIInv, FloorInv

LEMMA FloorShape ==
  FloorIInv => /\ row \in [Room -> RowOf] /\ pub \in [Session -> PubOf] /\ lock \in [Room -> LockOf]
               /\ reserved \in [Room -> Age] /\ missing \in [Room -> BOOLEAN] /\ todo \subseteq Room /\ unlisted \subseteq Room
               /\ snap \in [Room -> Session \cup {None}] /\ restarts \in 0 .. MaxPortalRestarts
               /\ FloorTypeOK /\ (\A r \in Room : row[r].relay => row[r].secret = "none") /\ OneOwner
               /\ Off \in PubOf /\ Off.at = "off" /\ Unlocked \in LockOf /\ "none" \in Age /\ "new" \in Age
BY DEF FloorIInv, FloorInv, FloorTypeOK, PubOf, LockOf, RowOf, Off, Kind, Unlocked, Op, Age

LEMMA FloorDrop ==
  ASSUME FloorIInv, NEW p \in Session, Drop(p) PROVE FloorIInv'
<1>1. pub' \in [Session -> PubOf] /\ NobodyAsks
  BY FloorShape DEF Drop, NobodyAsks
<1> QED BY <1>1, FloorShape, RowsAlone DEF Drop

LEMMA FloorRefuse ==
  ASSUME FloorIInv, NEW p \in Session, Refuse(p), lock' \in [Room -> LockOf] PROVE FloorIInv'
<1>1. pub' \in [Session -> PubOf] /\ NobodyAsks
  BY FloorShape DEF Refuse, NobodyAsks
<1> QED BY <1>1, FloorShape, RowsAlone DEF Refuse

LEMMA FloorAuthStart ==
  ASSUME FloorIInv, NEW p \in Session, AuthStart(p), pub[p].room \in Room PROVE FloorIInv'
<1> DEFINE new(q) == [row[q] EXCEPT !.sid = IF Taken(q, p) THEN None ELSE row[q].sid]
<1>0. PICK r \in Room : r = pub[p].room
  OBVIOUS
<1>1. CASE Refuse(p) /\ UNCHANGED lock
  BY <1>1, FloorShape, FloorRefuse
<1>2. ASSUME /\ row' = [row EXCEPT ![r].sid = IF Taken(r, p) THEN None ELSE @]
             /\ reserved' = [reserved EXCEPT ![r] = IF Taken(r, p) THEN "none" ELSE @]
             /\ missing' = [missing EXCEPT ![r] = @ /\ ~Taken(r, p)]
             /\ lock' = [lock EXCEPT ![r] = [op |-> "auth", by |-> p, seen |-> None]]
             /\ UNCHANGED <<pub, todo, unlisted, snap, restarts>>
      PROVE  FloorIInv'
  <2>1. row[r] \in RowOf /\ row' = [row EXCEPT ![r] = new(r)]
    BY <1>2, FloorShape
  <2>2. /\ new(r) \in RowOf /\ new(r).relay = row[r].relay /\ new(r).secret = row[r].secret
        /\ new(r).source = row[r].source /\ new(r).key = row[r].key
        /\ new(r).sid = None \/ new(r).sid = row[r].sid
    BY <2>1 DEF RowOf
  <2>3. PICK n \in RowOf : n = new(r)
    BY <2>2
  <2>4. row[r].source = "bot" => row[r].key = "none" /\ row[r].secret = "none" /\ row[r].sid = None
    BY FloorShape DEF OneOwner
  <2>5. lock' \in [Room -> LockOf] /\ reserved' \in [Room -> Age] /\ missing' \in [Room -> BOOLEAN]
    BY <1>2, FloorShape DEF LockOf, Op
  <2> HIDE DEF new
  <2>6. (n.relay => n.secret = "none") /\ (n.source = "bot" => n.key = "none" /\ n.secret = "none" /\ n.sid = None)
    BY <2>2, <2>3, <2>4, FloorShape
  <2>7. pub' \in [Session -> PubOf] /\ NobodyAsks
    BY <1>2, FloorShape DEF NobodyAsks
  <2> QED BY <1>2, <2>1, <2>2, <2>3, <2>5, <2>6, <2>7, FloorShape, RowAlone
<1> QED BY <1>0, <1>1, <1>2 DEF AuthStart

LEMMA FloorAuthReserve ==
  ASSUME FloorIInv, NEW p \in Session, AuthReserve(p), pub[p].room \in Room PROVE FloorIInv'
<1>0. PICK r \in Room : r = pub[p].room
  OBVIOUS
<1>1. lock' \in [Room -> LockOf]
  BY <1>0, FloorShape DEF AuthReserve
<1>2. CASE Refuse(p)
  BY <1>1, <1>2, FloorRefuse
<1>3. ASSUME /\ Permitted(p) /\ ~Full(r)
             /\ row' = [row EXCEPT ![r].sid = p]
             /\ reserved' = [reserved EXCEPT ![r] = "new"] /\ missing' = [missing EXCEPT ![r] = FALSE]
             /\ pub' = [pub EXCEPT ![p].at = "allowed"]
             /\ UNCHANGED <<todo, unlisted, snap, restarts>>
      PROVE  FloorIInv'
  <2> DEFINE new == [row[r] EXCEPT !.sid = p]
  <2>1. row[r] \in RowOf /\ row' = [row EXCEPT ![r] = new] /\ row \in [Room -> RowOf]
    BY <1>3, FloorShape
  <2>2. /\ new \in RowOf /\ new.relay = row[r].relay /\ new.secret = row[r].secret
        /\ new.source = row[r].source /\ new.sid = p
    BY <2>1 DEF RowOf
  <2>3. row[r].source = "program"
    BY <1>0, <1>3 DEF Permitted
  <2>4. (row[r].sid # None /\ row[r].source = "program") \/ Count < MaxRooms
    <3>1. Count <= MaxRooms /\ MaxRooms \in Nat /\ Count \in Nat
      BY FloorAssumption, FS_CardinalityType DEF FloorIInv, FloorInv, CapacityHeld, Count, Held
    <3> QED BY <1>3, <2>3, <3>1 DEF Full
  <2>5. PICK n \in RowOf : n = new
    BY <2>2
  <2> HIDE DEF new
  <2>6. (n.relay => n.secret = "none") /\ n.source = "program"
    BY <2>2, <2>3, <2>5, FloorShape
  <2>7. /\ row' \in [Room -> RowOf] /\ \A q \in Room : row'[q].relay => row'[q].secret = "none"
        /\ OneOwner' /\ IsFiniteSet(Held)' /\ CapacityHeld'
    BY <2>1, <2>4, <2>5, <2>6, RowKept
  <2>8. pub' \in [Session -> PubOf] /\ pub'[p].at = "allowed" /\ \A q \in Session : q # p => pub'[q] = pub[q]
    BY <1>3, FloorShape DEF PubOf
  <2>9. FloorTypeOK'
    BY <1>1, <1>3, <2>7, <2>8, FloorShape DEF FloorTypeOK, PubOf, LockOf, RowOf
  <2>10. ASSUME NEW q \in Room, row'[q].sid # None PROVE pub'[row'[q].sid].at # "asking"
    <3>1. row'[q].sid = p \/ row'[q].sid = row[q].sid
      BY <2>1, <2>2, <2>5
    <3>2. row'[q].sid = row[q].sid => row[q].sid \in Session /\ pub[row[q].sid].at # "asking"
      BY <2>1, <2>10 DEF FloorIInv, RowOf
    <3> QED BY <2>8, <3>1, <3>2
  <2>11. \A q \in Session : pub'[q].at = "asking" => pub'[q].room \in Room
    BY <2>8 DEF FloorIInv
  <2> QED BY <2>7, <2>9, <2>10, <2>11 DEF FloorIInv, FloorInv
<1> QED BY <1>0, <1>2, <1>3 DEF AuthReserve

(* What is on a path, kicked or retired: nobody asks because of it.        *)
LEMMA KickedPubs ==
  ASSUME FloorIInv, NEW gone, NEW r \in Room, NEW kinds,
         pub' \in {Kicked(gone), Retired(Kicked(gone), r, kinds), Retired(pub, r, kinds), pub}
  PROVE  pub' \in [Session -> PubOf] /\ NobodyAsks
<1>1. /\ Kicked(gone) \in [Session -> PubOf] /\ pub \in [Session -> PubOf]
      /\ \A p \in Session : Kicked(gone)[p] = pub[p] \/ Kicked(gone)[p].at = "off"
  <2>1. FloorTypeOK /\ pub \in [Session -> PubOf]
    BY FloorShape
  <2>2. Off \in PubOf /\ Off.at = "off"
    BY FloorShape
  <2> QED BY <2>1, <2>2 DEF Kicked
<1>2. ASSUME NEW pubs \in {Kicked(gone), pub}, pub' = Retired(pubs, r, kinds) PROVE pub' \in [Session -> PubOf] /\ NobodyAsks
  <2>1. pubs \in [Session -> PubOf] /\ \A p \in Session : pubs[p] = pub[p] \/ pubs[p].at = "off"
    BY <1>1
  <2>2. pub' \in [Session -> PubOf] /\ \A p \in Session : pub'[p].at = pubs[p].at /\ pub'[p].room = pubs[p].room
    BY <1>2, <2>1, RetiredPubs
  <2> QED BY <2>1, <2>2 DEF NobodyAsks
<1>3. CASE pub' \in {Kicked(gone), pub}
  BY <1>1, <1>3 DEF NobodyAsks
<1> QED BY <1>2, <1>3

LEMMA FloorChange ==
  ASSUME FloorIInv, NEW r \in Room, NEW op \in Op \ {"none", "auth", "open"}, Change(r, op) PROVE FloorIInv'
<1>1. lock' \in [Room -> LockOf]
  <2>1. Source(r) \in Session \cup {None}
    BY FloorShape, Pubs
  <2> QED BY <2>1, FloorShape DEF Change, LockOf, Op
<1>2. CASE op # "revoke"
  BY <1>1, <1>2, FloorShape, RowsAlone DEF Change, NobodyAsks
<1>3. CASE op = "revoke"
  <2> DEFINE r1 == [row[r] EXCEPT !.key = "none"]
             r2 == [r1 EXCEPT !.secret = "none"]
             r3 == [r2 EXCEPT !.sid = None]
  <2>1. row[r] \in RowOf /\ row' = [row EXCEPT ![r] = r3] /\ pub' = Retired(pub, r, Kind)
    BY <1>3, FloorShape DEF Change
  <2>2. r1 \in RowOf /\ r1.source = row[r].source
    BY <2>1 DEF RowOf
  <2> HIDE DEF r1
  <2>3. r2 \in RowOf /\ r2.source = row[r].source /\ r2.secret = "none" /\ (r1.key = "none" => r2.key = "none")
    BY <2>2 DEF RowOf, Credential
  <2>4. r1.key = "none"
    BY <2>1 DEF r1, RowOf
  <2> HIDE DEF r2
  <2>5. r3 \in RowOf /\ r3.source = row[r].source /\ r3.secret = "none" /\ r3.key = "none" /\ r3.sid = None
    BY <2>3, <2>4 DEF RowOf
  <2> HIDE DEF r3
  <2>6. pub' \in [Session -> PubOf] /\ NobodyAsks
    BY <2>1, KickedPubs
  <2>7. PICK new \in RowOf : new = r3
    BY <2>5
  <2>8. UNCHANGED <<reserved, missing, todo, unlisted, snap, restarts>>
    BY DEF Change
  <2> QED BY <1>1, <2>1, <2>5, <2>6, <2>7, <2>8, FloorShape, RowAlone
<1> QED BY <1>2, <1>3

LEMMA FloorConfigure ==
  ASSUME FloorIInv, NEW r \in Room, Configure(r) PROVE FloorIInv'
<1>1. row' = [row EXCEPT ![r] = Configured(r)]
  BY DEF Configure
<1>2. /\ Configured(r) \in RowOf /\ Configured(r).secret = "none" /\ Configured(r).sid = None
      /\ Configured(r).source = "bot" => Configured(r).key = "none"
  <2>1. row[r].relay \in BOOLEAN
    BY FloorShape DEF RowOf
  <2> DEFINE a == lock[r].op = "relay" \/ (lock[r].op \in {"rotate", "revoke"} /\ row[r].relay)
             s == IF lock[r].op = "disable" THEN "bot" ELSE "program"
             k == IF lock[r].op \in {"enable", "relay", "rotate"} THEN "valid" ELSE "none"
  <2>2. a \in BOOLEAN /\ s \in {"bot", "program"} /\ k \in {"none", "valid"} /\ (s = "bot" => k = "none")
    OBVIOUS
  <2>3. Configured(r) = [source |-> s, relay |-> a, key |-> k, secret |-> "none", sid |-> None]
    BY DEF Configured
  <2> HIDE DEF a, s, k
  <2> QED BY <2>2, <2>3 DEF RowOf, Credential
<1>3. PICK new \in RowOf : new = Configured(r)
  BY <1>2
<1>4. pub' \in [Session -> PubOf] /\ NobodyAsks
  BY KickedPubs DEF Configure
<1>5. /\ reserved' \in [Room -> Age] /\ missing' \in [Room -> BOOLEAN] /\ lock' \in [Room -> LockOf]
      /\ UNCHANGED <<todo, unlisted, snap, restarts>>
  BY FloorShape DEF Configure
<1> QED BY <1>1, <1>2, <1>3, <1>4, <1>5, FloorShape, RowAlone

LEMMA FloorOpenSender ==
  ASSUME FloorIInv, NEW r \in Room, OpenSender(r) PROVE FloorIInv'
<1>1. Source(r) \in Session \cup {None}
  BY FloorShape, Pubs
<1>2. lock' \in [Room -> LockOf]
  BY <1>1, FloorShape DEF OpenSender, LockOf, Op
<1> QED BY <1>2, FloorShape, RowsAlone DEF OpenSender, NobodyAsks

LEMMA FloorOpened ==
  ASSUME FloorIInv, NEW r \in Room, Opened(r) PROVE FloorIInv'
<1> DEFINE r1 == [row[r] EXCEPT !.source = "program"]
           r2 == [r1 EXCEPT !.relay = FALSE]
           r3 == [r2 EXCEPT !.secret = "valid"]
           r4 == [r3 EXCEPT !.sid = None]
<1>1. row[r] \in RowOf /\ row' = [row EXCEPT ![r] = r4]
  BY FloorShape DEF Opened
<1>2. r1 \in RowOf /\ r1.source = "program"
  BY <1>1 DEF RowOf
<1> HIDE DEF r1
<1>3. r2 \in RowOf /\ r2.source = "program" /\ r2.relay = FALSE
  BY <1>2 DEF RowOf
<1> HIDE DEF r2
<1>4. r3 \in RowOf /\ r3.source = "program" /\ r3.relay = FALSE
  BY <1>3 DEF RowOf, Credential
<1> HIDE DEF r3
<1>5. r4 \in RowOf /\ r4.source = "program" /\ r4.relay = FALSE /\ r4.sid = None
  BY <1>4 DEF RowOf
<1> HIDE DEF r4
<1>6. PICK new \in RowOf : new = r4
  BY <1>5
<1>7. pub' \in [Session -> PubOf] /\ NobodyAsks
  BY KickedPubs DEF Opened
<1>8. /\ reserved' \in [Room -> Age] /\ missing' \in [Room -> BOOLEAN] /\ lock' \in [Room -> LockOf]
      /\ UNCHANGED <<todo, unlisted, snap, restarts>>
  BY FloorShape DEF Opened
<1> QED BY <1>1, <1>5, <1>6, <1>7, <1>8, FloorShape, RowAlone

LEMMA FloorFails ==
  ASSUME FloorIInv, NEW r \in Room, Fails(r) PROVE FloorIInv'
<1>1. pub' \in [Session -> PubOf] /\ NobodyAsks
  BY KickedPubs DEF Fails
<1>2. lock' \in [Room -> LockOf]
  BY FloorShape DEF Fails
<1> QED BY <1>1, <1>2, FloorShape, RowsAlone DEF Fails

LEMMA FloorClose ==
  ASSUME FloorIInv, NEW r \in Room, CloseSender(r) PROVE FloorIInv'
<1> DEFINE r1 == [row[r] EXCEPT !.secret = "none"]
           r2 == [r1 EXCEPT !.sid = None]
<1>0. /\ reserved' \in [Room -> Age] /\ missing' \in [Room -> BOOLEAN] /\ lock' \in [Room -> LockOf]
      /\ UNCHANGED <<todo, unlisted, snap, restarts>>
  <2>1. reserved' \in {reserved, [reserved EXCEPT ![r] = "none"]} /\ missing' \in {missing, [missing EXCEPT ![r] = FALSE]}
        /\ UNCHANGED <<lock, todo, unlisted, snap, restarts>>
    BY DEF CloseSender
  <2> QED BY <2>1, FloorShape
<1>1. pub' \in [Session -> PubOf] /\ NobodyAsks
  <2>1. CASE pub' = Retired(Kicked({row[r].sid} \ {None}), r, {"sender"})
    BY <2>1, KickedPubs
  <2>2. CASE pub' = Retired(pub, r, {"sender"})
    BY <2>2, KickedPubs
  <2> QED BY <2>1, <2>2 DEF CloseSender
<1>2. row[r] \in RowOf /\ (row' = [row EXCEPT ![r] = r2] \/ row' = [row EXCEPT ![r] = r1])
  BY FloorShape DEF CloseSender
<1>3. r1 \in RowOf /\ r1.secret = "none" /\ r1.source = row[r].source /\ r1.key = row[r].key /\ r1.sid = row[r].sid
  BY <1>2 DEF RowOf, Credential
<1> HIDE DEF r1
<1>4. r2 \in RowOf /\ r2.secret = "none" /\ r2.source = row[r].source /\ r2.key = row[r].key /\ r2.sid = None
  BY <1>3 DEF RowOf
<1> HIDE DEF r2
<1>5. PICK new \in RowOf : new \in {r1, r2} /\ row' = [row EXCEPT ![r] = new]
  BY <1>2, <1>3, <1>4
<1>6. row[r].source = "bot" => row[r].key = "none" /\ row[r].sid = None
  BY FloorShape DEF OneOwner
<1> QED BY <1>0, <1>1, <1>3, <1>4, <1>5, <1>6, FloorShape, RowAlone

LEMMA FloorListing == ASSUME FloorIInv, Listing PROVE FloorIInv'
<1>1. snap' \in [Room -> Session \cup {None}]
  BY FloorShape, Pubs DEF Listing
<1> QED BY <1>1, FloorShape, RowsAlone DEF Listing, NobodyAsks

LEMMA FloorPassOver == ASSUME FloorIInv, PassOver PROVE FloorIInv'
<1>1. reserved' \in [Room -> Age] /\ missing' \in [Room -> BOOLEAN] /\ unlisted' \subseteq Room
  BY FloorShape DEF PassOver
<1> QED BY <1>1, FloorShape, RowsAlone DEF PassOver, NobodyAsks

(* One room of the reconcile pass.                                         *)
LEMMA FloorReconcile ==
  ASSUME FloorIInv, NEW r \in Room, NEW ready \in BOOLEAN, NEW over \in BOOLEAN, Reconcile(r, ready, over)
  PROVE  FloorIInv'
<1>1. /\ reserved' \in [Room -> Age] /\ missing' \in [Room -> BOOLEAN] /\ lock' \in [Room -> LockOf]
      /\ todo' \subseteq Room /\ snap' \in [Room -> Session \cup {None}] /\ UNCHANGED <<unlisted, restarts>>
  <2>1. /\ todo' = todo \ {r} /\ snap' = [snap EXCEPT ![r] = None] /\ UNCHANGED <<lock, unlisted, restarts>>
    BY DEF Reconcile
  <2>2. /\ reserved' \in {reserved, [reserved EXCEPT ![r] = "none"]}
        /\ missing' \in {missing, [missing EXCEPT ![r] = FALSE], [missing EXCEPT ![r] = @ \/ reserved[r] = "none"]}
    BY DEF Reconcile, NoFeed
  <2> QED BY <2>1, <2>2, FloorShape
<1>2. pub' \in [Session -> PubOf] /\ NobodyAsks
  <2>1. CASE UNCHANGED pub
    BY <2>1, KickedPubs
  <2>2. CASE pub' = Kicked({row[r].sid, IF Outsider(r) THEN snap[r] ELSE None} \ {None})
    BY <2>2, KickedPubs
  <2>3. CASE pub' = Kicked({IF Outsider(r) THEN snap[r] ELSE None} \ {None})
    BY <2>3, KickedPubs
  <2> QED BY <2>1, <2>2, <2>3 DEF Reconcile, NoFeed
<1>3. CASE UNCHANGED row
  BY <1>1, <1>2, <1>3, FloorShape, RowsAlone
<1>4. CASE row' = [row EXCEPT ![r].sid = None]
  <2> DEFINE r1 == [row[r] EXCEPT !.sid = None]
  <2>1. row[r] \in RowOf /\ row' = [row EXCEPT ![r] = r1]
    BY <1>4, FloorShape
  <2>2. /\ r1 \in RowOf /\ r1.sid = None /\ r1.source = row[r].source /\ r1.key = row[r].key
        /\ r1.secret = row[r].secret /\ r1.relay = row[r].relay
    BY <2>1 DEF RowOf
  <2> HIDE DEF r1
  <2>3. PICK new \in RowOf : new = r1
    BY <2>2
  <2>4. /\ row[r].source = "bot" => row[r].key = "none" /\ row[r].secret = "none"
        /\ row[r].relay => row[r].secret = "none"
    BY FloorShape DEF OneOwner
  <2> QED BY <1>1, <1>2, <2>1, <2>2, <2>3, <2>4, FloorShape, RowAlone
<1> QED BY <1>3, <1>4 DEF Reconcile, NoFeed

LEMMA FloorReconcileFails == ASSUME FloorIInv, NEW r \in Room, ReconcileFails(r) PROVE FloorIInv'
<1>1. snap' \in [Room -> Session \cup {None}] /\ todo' \subseteq Room
  BY FloorShape DEF ReconcileFails
<1> QED BY <1>1, FloorShape, RowsAlone DEF ReconcileFails, NobodyAsks

LEMMA FloorGrow == ASSUME FloorIInv, NEW r \in Room, Grow(r) PROVE FloorIInv'
<1>1. reserved' \in [Room -> Age]
  BY FloorShape DEF Grow, Age
<1> QED BY <1>1, FloorShape, RowsAlone DEF Grow, NobodyAsks

LEMMA FloorExpire == ASSUME FloorIInv, NEW r \in Room, Expire(r) PROVE FloorIInv'
<1>1. pub' \in [Session -> PubOf] /\ NobodyAsks
  BY FloorShape DEF Expire, NobodyAsks
<1>2. row[r] \in RowOf
  BY FloorShape
<1>3. /\ row[r].source = "bot" => row[r].key = "none" /\ row[r].secret = "none" /\ row[r].sid = None
      /\ row[r].relay => row[r].secret = "none"
  BY FloorShape DEF OneOwner
<1>4. UNCHANGED <<reserved, missing, lock, todo, unlisted, snap, restarts>>
  BY DEF Expire
<1>5. CASE row[r].key = "valid" /\ row' = [row EXCEPT ![r].key = "none"]
  <2> DEFINE r1 == [row[r] EXCEPT !.key = "none"]
  <2>1. row' = [row EXCEPT ![r] = r1]
    BY <1>5, FloorShape
  <2>2. /\ r1 \in RowOf /\ r1.sid = row[r].sid /\ r1.source = row[r].source /\ r1.key = "none"
        /\ r1.secret = row[r].secret /\ r1.relay = row[r].relay
    BY <1>2 DEF RowOf
  <2> HIDE DEF r1
  <2>3. PICK new \in RowOf : new = r1
    BY <2>2
  <2> QED BY <1>1, <1>3, <1>4, <2>1, <2>2, <2>3, FloorShape, RowAlone
<1>6. CASE row[r].secret = "valid" /\ row' = [row EXCEPT ![r].secret = "expired"]
  <2> DEFINE r1 == [row[r] EXCEPT !.secret = "expired"]
  <2>1. row' = [row EXCEPT ![r] = r1] /\ row[r].source = "program" /\ ~row[r].relay
    <3>1. row[r].source \in {"bot", "program"}
      BY <1>2 DEF RowOf
    <3> QED BY <1>3, <1>6, <3>1, FloorShape
  <2>2. /\ r1 \in RowOf /\ r1.sid = row[r].sid /\ r1.source = row[r].source /\ r1.relay = row[r].relay
    BY <1>2 DEF RowOf, Credential
  <2> HIDE DEF r1
  <2>3. PICK new \in RowOf : new = r1
    BY <2>2
  <2> QED BY <1>1, <1>4, <2>1, <2>2, <2>3, FloorShape, RowAlone
<1> QED BY <1>5, <1>6 DEF Expire

LEMMA FloorRestart == ASSUME FloorIInv, Restart PROVE FloorIInv'
<1>1. restarts' \in 0 .. MaxPortalRestarts
  BY FloorShape, FloorAssumption DEF Restart
<1>2. pub' \in [Session -> PubOf] /\ NobodyAsks
  BY FloorShape DEF Restart, NobodyAsks
<1>3. /\ reserved' \in [Room -> Age] /\ missing' \in [Room -> BOOLEAN] /\ lock' \in [Room -> LockOf]
      /\ todo' \subseteq Room /\ unlisted' \subseteq Room /\ snap' \in [Room -> Session \cup {None}]
  BY FloorShape DEF Restart
<1> QED BY <1>1, <1>2, <1>3, RowsAlone DEF Restart

LEMMA FloorStep == ASSUME FloorIInv, [FloorNext]_floorVars PROVE FloorIInv'
<1>1. CASE UNCHANGED floorVars
  BY <1>1, FloorShape, RowsAlone DEF floorVars, NobodyAsks
<1>2. ASSUME NEW p \in Session, NEW r \in Room, NEW kind \in Kind, Ask(p, r, kind) PROVE FloorIInv'
  BY <1>2, FloorAsk
<1>3. ASSUME NEW p \in Session, GoLive(p) \/ Drop(p) PROVE FloorIInv'
  BY <1>3, FloorGoLive, FloorDrop
<1>4. ASSUME NEW p \in Session, pub[p].at = "asking", AuthStart(p) \/ AuthReserve(p) PROVE FloorIInv'
  <2>1. pub[p].room \in Room
    BY <1>4 DEF FloorIInv
  <2> QED BY <1>4, <2>1, FloorAuthStart, FloorAuthReserve
<1>5. ASSUME NEW r \in Room, NEW op \in Op \ {"none", "auth", "open"}, Change(r, op) PROVE FloorIInv'
  BY <1>5, FloorChange
<1>6. ASSUME NEW r \in Room, Configure(r) \/ OpenSender(r) \/ Opened(r) \/ Fails(r) \/ CloseSender(r) PROVE FloorIInv'
  BY <1>6, FloorConfigure, FloorOpenSender, FloorOpened, FloorFails, FloorClose
<1>7. ASSUME NEW r \in Room, NEW ready \in BOOLEAN, NEW over \in BOOLEAN, Reconcile(r, ready, over) PROVE FloorIInv'
  BY <1>7, FloorReconcile
<1>8. ASSUME NEW r \in Room, ReconcileFails(r) \/ Grow(r) \/ Expire(r) PROVE FloorIInv'
  BY <1>8, FloorReconcileFails, FloorGrow, FloorExpire
<1>9. CASE Listing \/ PassOver \/ Restart
  BY <1>9, FloorListing, FloorPassOver, FloorRestart
<1> QED BY <1>1, <1>2, <1>3, <1>4, <1>5, <1>6, <1>7, <1>8, <1>9 DEF FloorNext, FloorNextIn

(* However the publish hook, the owners and the reconcile pass interleave, *)
(* no more floors are reserved than the portal allows, and a floor that is *)
(* the meeting bot's keeps nothing of an ingest.                           *)
THEOREM FloorHolds == FloorSpec => []FloorInv
<1>1. FloorInit => FloorIInv
  BY FloorStarts
<1>2. FloorIInv /\ [FloorNext]_floorVars => FloorIInv'
  BY FloorStep
<1>3. FloorIInv => FloorInv
  BY DEF FloorIInv
<1> QED BY <1>1, <1>2, <1>3, PTL DEF FloorSpec

(* Where a pass is done with a room.                                       *)
LEMMA FreshFeedStep ==
  ASSUME FloorIInv, FloorNext, NEW r \in Room, r \in todo, r \notin todo',
         reserved[r] \in {"new", "pending"}, row[r].sid # None
  PROVE  pub'[row[r].sid] = pub[row[r].sid]
<1> DEFINE s == row[r].sid
<1>1. s \in Session /\ pub[s].at # "asking"
  BY FloorShape DEF FloorIInv, RowOf
<1>2. ASSUME NEW ready \in BOOLEAN, NEW over \in BOOLEAN, Reconcile(r, ready, over) PROVE pub'[s] = pub[s]
  <2>1. ~GraceMayBeOver(r)
    BY DEF GraceMayBeOver
  <2>2. pub' = pub \/ pub' = Kicked({IF Outsider(r) THEN snap[r] ELSE None} \ {None})
    BY <1>2, <2>1 DEF Reconcile, NoFeed
  <2>3. s \notin {IF Outsider(r) THEN snap[r] ELSE None} \ {None}
    BY DEF Outsider
  <2> QED BY <1>1, <2>2, <2>3 DEF Kicked
<1>3. CASE ReconcileFails(r)
  BY <1>3 DEF ReconcileFails
<1>4. CASE Restart
  BY <1>1, <1>4 DEF Restart
<1>5. \/ \E ready, over \in BOOLEAN : Reconcile(r, ready, over)
      \/ ReconcileFails(r) \/ Restart
  <2>1. ASSUME NEW p \in Session, \/ \E q \in Room, kind \in Kind : Ask(p, q, kind)
                                  \/ GoLive(p) \/ Drop(p) \/ AuthStart(p) \/ AuthReserve(p)
        PROVE  todo' = todo
    BY <2>1 DEF Ask, GoLive, Drop, AuthStart, AuthReserve, Refuse
  <2>2. ASSUME NEW q \in Room, \/ \E op \in Op : Change(q, op)
                               \/ Configure(q) \/ OpenSender(q) \/ Opened(q) \/ Fails(q) \/ CloseSender(q)
                               \/ Grow(q) \/ Expire(q)
        PROVE  todo' = todo
    BY <2>2 DEF Change, Configure, OpenSender, Opened, Fails, CloseSender, Grow, Expire
  <2>3. ASSUME NEW q \in Room, NEW ready \in BOOLEAN, NEW over \in BOOLEAN, Reconcile(q, ready, over) PROVE q = r
    BY <2>3 DEF Reconcile
  <2>4. ASSUME NEW q \in Room, ReconcileFails(q) PROVE q = r
    BY <2>4 DEF ReconcileFails
  <2>5. ~Listing /\ ~PassOver
    BY DEF Listing, PassOver
  <2> QED BY <2>1, <2>2, <2>3, <2>4, <2>5 DEF FloorNext, FloorNextIn
<1> QED BY <1>2, <1>3, <1>4, <1>5

(* A pass that listed the paths before a publisher was let in is done with *)
(* the room without cutting that publisher off.                            *)
THEOREM FreshFeedStays == FloorSpec => FreshFeedKept
<1>1. FloorInit => FloorIInv
  BY FloorStarts
<1>2. FloorIInv /\ [FloorNext]_floorVars => FloorIInv'
  BY FloorStep
<1>3. FloorIInv /\ [FloorNext]_floorVars =>
        [\A r \in Room : r \in todo /\ r \notin todo' /\ reserved[r] \in {"new", "pending"}
           /\ row[r].sid # None => pub'[row[r].sid] = pub[row[r].sid]]_floorVars
  BY FreshFeedStep
<1> QED BY <1>1, <1>2, <1>3, PTL DEF FloorSpec, FreshFeedKept

------------------------------------------------------------------------------
(* The meeting bot.                                                        *)
BotOf == [at : Stages \cup {"none", "dead"}, url : Url \cup {NoUrl}]
HealthOf == [restarts : 0 .. MaxRestarts, next : {"none", "wait", "due"},
             known : Url \cup {NoUrl}, joined : BOOLEAN, heard : BOOLEAN]
LoopOf == [at : {"idle", "status", "sweep", "room"}, wanted : BOOLEAN, seen : BotOf, path : BOOLEAN]

LEMMA AgentShape ==
  /\ NoBot \in BotOf /\ \A u \in Url : Started(u) \in BotOf
  /\ NoBot.at = "none" /\ \A u : Started(u).at = "joining"
  /\ Fresh \in HealthOf /\ Fresh.restarts = 0 /\ Fresh.next = "none"
  /\ Idle \in LoopOf /\ Idle.at = "idle"
<1>1. 0 \in 0 .. MaxRestarts
  BY AgentAssumption
<1>2. NoBot \in BotOf /\ \A u \in Url : Started(u) \in BotOf
  BY DEF NoBot, Started, BotOf, Stages
<1>4. Fresh \in HealthOf /\ Fresh.restarts = 0 /\ Fresh.next = "none"
  BY <1>1 DEF Fresh, HealthOf
<1>5. Idle \in LoopOf /\ Idle.at = "idle"
  BY <1>2 DEF Idle, LoopOf
<1>6. NoBot.at = "none" /\ \A u : Started(u).at = "joining"
  BY DEF NoBot, Started
<1> QED BY <1>2, <1>4, <1>5, <1>6

(* What is on the path and on its way there.                               *)
StreamsOK ==
  /\ media \in Publisher \cup {"none"} /\ admitted \subseteq Publisher /\ late \subseteq Publisher
  /\ (media = "bot" \/ "bot" \in admitted => bot.at = "in_meeting")
  /\ (media = "bot" \/ "bot" \in admitted => source = "bot" \/ "bot" \in late)
  /\ (media = "program" \/ "program" \in admitted => source = "program" \/ "program" \in late)

(* The invariant with the types by name, and the streams apart.            *)
LEMMA AgentParts ==
  AgentInv <=> /\ want \in BOOLEAN /\ source \in Publisher /\ url \in Url
               /\ health \in HealthOf /\ bot \in BotOf /\ worker \in BOOLEAN /\ loop \in LoopOf
               /\ StreamsOK
               /\ (worker => want /\ source = "bot")
BY DEF AgentInv, AgentTypeOK, ForeignWasLetInBefore, WorkerIsTheAgents, StreamsOK, Publisher, BotOf, HealthOf, LoopOf

LEMMA AgentPartsNext ==
  AgentInv' <=> /\ want' \in BOOLEAN /\ source' \in Publisher /\ url' \in Url
                /\ health' \in HealthOf /\ bot' \in BotOf /\ worker' \in BOOLEAN /\ loop' \in LoopOf
                /\ StreamsOK'
                /\ (worker' => want' /\ source' = "bot")
BY DEF AgentInv, AgentTypeOK, ForeignWasLetInBefore, WorkerIsTheAgents, StreamsOK, Publisher, BotOf, HealthOf, LoopOf

LEMMA AgentStarts == AgentInit => AgentInv
<1> SUFFICES ASSUME AgentInit PROVE AgentInv
  OBVIOUS
<1>1. StreamsOK
  BY DEF AgentInit, StreamsOK
<1> QED BY <1>1, AgentParts, AgentShape DEF AgentInit

LEMMA StreamsStay ==
  ASSUME StreamsOK, UNCHANGED <<bot, source, media, admitted, late>> PROVE StreamsOK'
BY DEF StreamsOK

(* A bot that is replaced, stopped or left as it was takes nothing of the  *)
(* other's along.                                                          *)
LEMMA BotsStreams ==
  ASSUME StreamsOK, bot' \in BotOf, UNCHANGED source, Unheard \/ UNCHANGED <<bot, media, admitted, late>>
  PROVE  StreamsOK'
<1>1. CASE Unheard
  BY <1>1 DEF StreamsOK, Unheard, StillLate, Publisher
<1>2. CASE UNCHANGED <<bot, media, admitted, late>>
  BY <1>2 DEF StreamsOK
<1> QED BY <1>1, <1>2

(* The floor is another's: the path is empty, and whoever is still on the  *)
(* way to it was let in before.                                            *)
LEMMA HandsStreams ==
  ASSUME StreamsOK, bot' \in BotOf, NEW gone \in {{}, {"bot"}}, ChangesHands(gone),
         gone = {} => bot' = bot, source' \in Publisher
  PROVE  StreamsOK'
<1>1. /\ media' = "none" /\ admitted' \subseteq admitted \ gone /\ late' = admitted' \ {source'}
  BY DEF ChangesHands
<1>2. "bot" \in admitted' => gone = {}
  BY <1>1
<1> QED BY <1>1, <1>2 DEF StreamsOK, Publisher

(* What the bot service and the bot's process do.                          *)
LEMMA BotSteps ==
  ASSUME AgentInv, \/ BotMoves \/ BotLeaves \/ MediaEnds \/ BotServiceRestarts
                   \/ \E k \in Publisher : LetIn(k) \/ GoesLive(k)
  PROVE  AgentInv'
<1> USE AgentParts, AgentPartsNext, AgentShape
<1>0. StreamsOK
  OBVIOUS
<1>1. CASE BotMoves
  <2>1. bot' \in BotOf
    BY <1>1 DEF BotMoves, BotOf, Stages
  <2>2. media # "bot" /\ "bot" \notin admitted
        /\ UNCHANGED <<want, source, url, health, media, admitted, late, worker, loop, faults>>
    BY <1>0, <1>1 DEF BotMoves, StreamsOK
  <2>3. StreamsOK'
    BY <1>0, <2>2 DEF StreamsOK
  <2> QED BY <2>1, <2>2, <2>3
<1>2. CASE BotLeaves
  <2>1. bot' \in BotOf
    BY <1>2 DEF BotLeaves, BotOf, Stages
  <2>2. StreamsOK'
    BY <1>0, <1>2, <2>1, BotsStreams DEF BotLeaves
  <2> QED BY <1>2, <2>1, <2>2 DEF BotLeaves
<1>3. ASSUME NEW k \in Publisher, LetIn(k) PROVE AgentInv'
  <2>1. CASE k = "bot"
    <3>1. StreamsOK'
      BY <1>0, <1>3, <2>1 DEF LetIn, Admits, Publisher, StreamsOK
    <3> QED BY <1>3, <3>1 DEF LetIn
  <2>2. CASE k = "program"
    <3>1. StreamsOK'
      BY <1>0, <1>3, <2>2 DEF LetIn, Admits, Publisher, StreamsOK
    <3> QED BY <1>3, <3>1 DEF LetIn
  <2> QED BY <2>1, <2>2 DEF Publisher
<1>4. ASSUME NEW k \in Publisher, GoesLive(k) PROVE AgentInv'
  <2>1. k = "bot" \/ k = "program"
    BY DEF Publisher
  <2>2. /\ k \in admitted /\ admitted' = admitted \ {k}
        /\ media' = (IF media = "none" THEN k ELSE media)
        /\ late' = late \cap (admitted' \cup {media'}) /\ UNCHANGED <<bot, source>>
    BY <1>4 DEF GoesLive, StillLate
  <2>3. CASE media = "none"
    BY <1>0, <1>4, <2>1, <2>2, <2>3 DEF GoesLive, Publisher, StreamsOK
  <2>4. CASE media # "none"
    BY <1>0, <1>4, <2>1, <2>2, <2>4 DEF GoesLive, Publisher, StreamsOK
  <2> QED BY <2>3, <2>4
<1>5. CASE MediaEnds
  <2>1. /\ media' \in {"none", media} /\ admitted' \subseteq admitted
        /\ late' = late \cap (admitted' \cup {media'}) /\ UNCHANGED <<bot, source>>
    BY <1>5 DEF MediaEnds, StillLate
  <2>2. StreamsOK'
    BY <1>0, <2>1 DEF Publisher, StreamsOK
  <2> QED BY <1>5, <2>2 DEF MediaEnds
<1>6. CASE BotServiceRestarts
  <2>1. StreamsOK'
    BY <1>0, <1>6, BotsStreams DEF BotServiceRestarts, Stops
  <2> QED BY <1>6, <2>1 DEF BotServiceRestarts, Stops
<1> QED BY <1>1, <1>2, <1>3, <1>4, <1>5, <1>6

(* What owners and program ingest do.                                      *)
LEMMA OwnerSteps ==
  ASSUME AgentInv, NEW u \in Url, NEW stopped \in BOOLEAN,
         Connect(u) \/ ConnectFails(u) \/ ChangeMeeting(u) \/ Disconnect(stopped) \/ TakeOver(stopped) \/ GiveBack
  PROVE  AgentInv'
<1> USE AgentParts, AgentPartsNext, AgentShape
<1>0. StreamsOK
  OBVIOUS
<1>1. CASE Connect(u)
  <2>1. [Fresh EXCEPT !.known = u] \in HealthOf
    BY DEF HealthOf
  <2>2. PICK starts \in BOOLEAN :
          /\ bot' = (IF starts THEN Started(u) ELSE bot)
          /\ IF source = "bot"
             THEN /\ IF starts THEN Unheard ELSE UNCHANGED <<media, admitted, late>>
                  /\ UNCHANGED worker
             ELSE /\ ChangesHands(IF starts THEN {"bot"} ELSE {})
                  /\ worker' = FALSE
    BY <1>1 DEF Connect
  <2>3. /\ want' = TRUE /\ source' = "bot" /\ url' = u /\ health' = [Fresh EXCEPT !.known = u]
        /\ UNCHANGED loop
    BY <1>1 DEF Connect
  <2>4. bot' \in BotOf
    BY <2>2
  <2>5. StreamsOK'
    <3>1. CASE source = "bot"
      BY <1>0, <2>2, <2>3, <2>4, <3>1, BotsStreams
    <3>2. CASE source # "bot"
      <4>1. source' \in Publisher
        BY <2>3 DEF Publisher
      <4>2. CASE starts
        BY <1>0, <2>2, <2>4, <3>2, <4>1, <4>2, HandsStreams
      <4>3. CASE ~starts
        BY <1>0, <2>2, <2>4, <3>2, <4>1, <4>3, HandsStreams
      <4> QED BY <4>2, <4>3
    <3> QED BY <3>1, <3>2
  <2>6. worker' \in BOOLEAN
    BY <2>2
  <2> QED BY <2>1, <2>3, <2>4, <2>5, <2>6 DEF Publisher
<1>2. CASE ConnectFails(u)
  <2>1. StreamsOK'
    BY <1>0, <1>2, BotsStreams DEF ConnectFails, Starts
  <2> QED BY <1>2, <2>1 DEF ConnectFails, Starts
<1>3. CASE ChangeMeeting(u)
  BY <1>0, <1>3, StreamsStay DEF ChangeMeeting
<1>4. CASE Disconnect(stopped)
  <2>1. StreamsOK' /\ bot' \in BotOf
    BY <1>0, <1>4, BotsStreams DEF Disconnect, Stops, Untouched
  <2> QED BY <1>4, <2>1 DEF Disconnect
<1>5. CASE TakeOver(stopped)
  <2>1. bot' \in BotOf /\ source' = "program" /\ source' \in Publisher
    BY <1>5 DEF TakeOver, Publisher
  <2>2. StreamsOK'
    <3>1. CASE stopped
      BY <1>0, <1>5, <2>1, <3>1, HandsStreams DEF TakeOver
    <3>2. CASE ~stopped
      BY <1>0, <1>5, <2>1, <3>2, HandsStreams DEF TakeOver
    <3> QED BY <3>1, <3>2
  <2> QED BY <1>5, <2>1, <2>2 DEF TakeOver
<1>6. CASE GiveBack
  <2>1. source' \in Publisher
    BY <1>6 DEF GiveBack, Publisher
  <2>2. StreamsOK'
    BY <1>0, <1>6, <2>1, HandsStreams DEF GiveBack
  <2> QED BY <1>6, <2>1, <2>2 DEF GiveBack
<1> QED BY <1>1, <1>2, <1>3, <1>4, <1>5, <1>6

(* Whatever a recovery comes to, the agent it leaves is one of the room's. *)
LEMMA RecoveredShape ==
  ASSUME AgentInv, NEW stops \in BOOLEAN, Recovered(stops)
  PROVE  health' \in HealthOf /\ (Starts(url) \/ Stops \/ Untouched)
<1> DEFINE a == [health EXCEPT !.joined = FALSE]
           lost == [a EXCEPT !.heard = FALSE]
<1>0. lost = [health EXCEPT !.joined = FALSE, !.heard = FALSE]
  OBVIOUS
<1>1. lost \in HealthOf
  <2>1. a \in HealthOf
    BY AgentParts DEF HealthOf
  <2> HIDE DEF a
  <2> QED BY <2>1 DEF HealthOf
<1> HIDE DEF lost
<1>2. Starts(url) \/ Stops \/ Untouched
  BY DEF Recovered
<1>3. CASE health' = lost \/ health' = [lost EXCEPT !.next = "wait"]
  <2>1. [lost EXCEPT !.next = "wait"] \in HealthOf
    BY <1>1 DEF HealthOf
  <2> QED BY <1>1, <1>2, <1>3, <2>1
<1>4. CASE health.restarts < MaxRestarts /\ health' = [lost EXCEPT !.next = "none", !.known = url, !.restarts = SpendsBudget]
  <2> DEFINE b == [lost EXCEPT !.next = "none"]
             c == [b EXCEPT !.known = url]
  <2>1. SpendsBudget \in 0 .. MaxRestarts
    BY <1>4, AgentAssumption, AgentParts DEF SpendsBudget, HealthOf
  <2>2. health' = [c EXCEPT !.restarts = SpendsBudget]
    BY <1>4
  <2>3. b \in HealthOf
    BY <1>1 DEF HealthOf
  <2> HIDE DEF b
  <2>4. c \in HealthOf
    BY <2>3, AgentParts DEF HealthOf
  <2> HIDE DEF c
  <2>5. [c EXCEPT !.restarts = SpendsBudget] \in HealthOf
    BY <2>1, <2>4 DEF HealthOf
  <2> QED BY <1>2, <2>2, <2>5
<1>5. CASE health.restarts < MaxRestarts /\ health' = [lost EXCEPT !.next = "none", !.restarts = SpendsBudget]
  <2> DEFINE b == [lost EXCEPT !.next = "none"]
  <2>1. SpendsBudget \in 0 .. MaxRestarts
    BY <1>5, AgentAssumption, AgentParts DEF SpendsBudget, HealthOf
  <2>2. health' = [b EXCEPT !.restarts = SpendsBudget]
    BY <1>5
  <2>3. b \in HealthOf
    BY <1>1 DEF HealthOf
  <2> HIDE DEF b
  <2>4. [b EXCEPT !.restarts = SpendsBudget] \in HealthOf
    BY <2>1, <2>3 DEF HealthOf
  <2> QED BY <1>2, <2>2, <2>4
<1>6. \/ health' = lost \/ health' = [lost EXCEPT !.next = "wait"]
      \/ health.restarts < MaxRestarts /\ health' = [lost EXCEPT !.next = "none", !.known = url, !.restarts = SpendsBudget]
      \/ health.restarts < MaxRestarts /\ health' = [lost EXCEPT !.next = "none", !.restarts = SpendsBudget]
  BY <1>0 DEF Recovered
<1> QED BY <1>2, <1>3, <1>4, <1>5, <1>6

(* The room's part of the loop.                                            *)
LEMMA AgentReconciles ==
  ASSUME AgentInv, ReconcileAgent PROVE AgentInv'
<1> USE AgentParts, AgentPartsNext
<1>1. loop' \in LoopOf /\ UNCHANGED <<source, url>>
  BY AgentShape DEF ReconcileAgent, Done
<1>2. SUFFICES /\ health' \in HealthOf /\ (Starts(url) \/ Stops \/ Untouched)
               /\ want' \in BOOLEAN /\ worker' \in BOOLEAN /\ (worker' => want' /\ source = "bot")
  <2>1. StreamsOK /\ bot' \in BotOf
    BY <1>2, AgentShape DEF Starts, Stops, Untouched
  <2>2. StreamsOK'
    BY <1>1, <1>2, <2>1, BotsStreams DEF Starts, Stops, Untouched
  <2> QED BY <1>1, <1>2, <2>1, <2>2
<1>3. CASE RoomGone
  BY <1>3, AgentShape DEF RoomGone
<1>4. ASSUME want, source = "bot", NEW answered \in BOOLEAN, Rejoin(answered)
      PROVE  /\ health' \in HealthOf /\ (Starts(url) \/ Stops \/ Untouched)
             /\ want' \in BOOLEAN /\ worker' \in BOOLEAN /\ (worker' => want' /\ source = "bot")
  <2>1. [Fresh EXCEPT !.known = url] \in HealthOf
    BY AgentShape DEF HealthOf
  <2> QED BY <1>4, <2>1, AgentParts DEF Rejoin
<1>5. CASE Recover \/ Silent
  <2>1. PICK stops \in BOOLEAN : Recovered(stops)
    BY <1>5 DEF Recover, Silent
  <2> QED BY <1>5, <2>1, RecoveredShape DEF Recover, Silent
<1>6. CASE want /\ source = "bot" /\ OnTheWay
  <2>1. [health EXCEPT !.known = url] \in HealthOf
    BY AgentParts DEF HealthOf
  <2> QED BY <1>6, <2>1 DEF OnTheWay
<1>8. CASE want /\ source = "bot" /\ NothingNew
  <2> DEFINE b == [health EXCEPT !.known = url]
  <2>1. b \in HealthOf
    BY DEF HealthOf
  <2>2. health' = [b EXCEPT !.joined = TRUE]
    BY <1>8 DEF NothingNew
  <2> HIDE DEF b
  <2>3. health' \in HealthOf
    BY <2>1, <2>2 DEF HealthOf
  <2> QED BY <1>8, <2>3 DEF NothingNew
<1>7. ASSUME want, source = "bot", NEW runs \in BOOLEAN, NEW steady \in BOOLEAN, InMeeting(runs, steady)
      PROVE  /\ health' \in HealthOf /\ (Starts(url) \/ Stops \/ Untouched)
             /\ want' \in BOOLEAN /\ worker' \in BOOLEAN /\ (worker' => want' /\ source = "bot")
  <2> DEFINE heard == health.heard \/ loop.path
             b == [health EXCEPT !.known = url]
             c == [b EXCEPT !.joined = TRUE]
             d == [c EXCEPT !.heard = heard]
             n == IF heard /\ runs /\ worker /\ steady THEN 0 ELSE health.restarts
  <2>1. b \in HealthOf /\ b.restarts = health.restarts
    BY AgentParts DEF HealthOf
  <2>2. health' = [d EXCEPT !.restarts = n]
    BY <1>7, AgentParts DEF InMeeting, HealthOf
  <2>3. heard \in BOOLEAN
    BY AgentParts DEF HealthOf, LoopOf
  <2>4. n \in 0 .. MaxRestarts
    BY AgentParts, AgentAssumption DEF HealthOf
  <2>5. worker' \in BOOLEAN /\ want' = want /\ Untouched
    BY <1>7, <2>3 DEF InMeeting
  <2> HIDE DEF b, heard, n
  <2>6. c \in HealthOf
    BY <2>1 DEF HealthOf
  <2> HIDE DEF c
  <2>7. d \in HealthOf
    BY <2>3, <2>6 DEF HealthOf
  <2> HIDE DEF d
  <2>8. health' \in HealthOf
    BY <2>2, <2>4, <2>7 DEF HealthOf
  <2> QED BY <1>7, <2>5, <2>8
<1> QED BY <1>3, <1>4, <1>5, <1>6, <1>7, <1>8 DEF ReconcileAgent

(* The rest of the loop, its clock and a restart of the portal.            *)
LEMMA LoopSteps ==
  ASSUME AgentInv, ListRooms \/ ReadStatus \/ Skips \/ Sweep \/ BackoffOver \/ PortalRestarts PROVE AgentInv'
<1> USE AgentParts, AgentPartsNext, AgentShape
<1>0. UNCHANGED <<bot, source, media, admitted, late>> => StreamsOK'
  BY StreamsStay
<1>1. CASE ListRooms
  <2> DEFINE a == [Idle EXCEPT !.at = "status"]
  <2>1. a \in LoopOf
    BY DEF LoopOf
  <2>2. loop' = [a EXCEPT !.wanted = want]
    BY <1>1 DEF ListRooms
  <2> HIDE DEF a
  <2>3. loop' \in LoopOf
    BY <2>1, <2>2 DEF LoopOf
  <2> QED BY <1>0, <1>1, <2>3 DEF ListRooms
<1>2. CASE ReadStatus
  <2> DEFINE n == IF bot.at = "none" THEN "idle" ELSE "sweep"
             p == bot.at = "in_meeting" /\ media # "none"
  <2>1. CASE loop' = [at |-> "room", wanted |-> TRUE, seen |-> bot, path |-> p]
    <3>1. p \in BOOLEAN
      OBVIOUS
    <3> HIDE DEF p
    <3>2. loop' \in LoopOf
      BY <2>1, <3>1 DEF LoopOf
    <3> QED BY <1>0, <1>2, <3>2 DEF ReadStatus
  <2>2. CASE loop' = [Idle EXCEPT !.at = n]
    <3>1. n \in {"idle", "sweep"}
      OBVIOUS
    <3> HIDE DEF n
    <3>2. loop' \in LoopOf
      BY <2>2, <3>1 DEF LoopOf
    <3> QED BY <1>0, <1>2, <3>2 DEF ReadStatus
  <2> QED BY <1>2, <2>1, <2>2 DEF ReadStatus
<1>3. CASE Skips \/ PortalRestarts
  BY <1>0, <1>3 DEF Skips, PortalRestarts
<1>4. CASE Sweep
  <2>1. StreamsOK /\ bot' \in BotOf
    BY <1>4 DEF Sweep, Stops, Untouched
  <2>2. StreamsOK'
    BY <1>4, <2>1, BotsStreams DEF Sweep, Stops, Untouched
  <2> QED BY <1>4, <2>1, <2>2 DEF Sweep
<1>5. CASE BackoffOver
  <2>1. [health EXCEPT !.next = "due"] \in HealthOf
    BY DEF HealthOf
  <2> QED BY <1>0, <1>5, <2>1 DEF BackoffOver
<1> QED BY <1>1, <1>2, <1>3, <1>4, <1>5

LEMMA AgentStep == AgentInv /\ [AgentNext]_agentVars => AgentInv'
<1> SUFFICES ASSUME AgentInv, [AgentNext]_agentVars PROVE AgentInv'
  OBVIOUS
<1>1. CASE UNCHANGED agentVars
  BY <1>1, StreamsStay, AgentParts, AgentPartsNext DEF agentVars
<1>2. CASE \/ BotMoves \/ BotLeaves \/ MediaEnds \/ BotServiceRestarts
            \/ \E k \in Publisher : LetIn(k) \/ GoesLive(k)
  BY <1>2, BotSteps
<1>3. ASSUME NEW u \in Url, Connect(u) \/ ConnectFails(u) \/ ChangeMeeting(u) PROVE AgentInv'
  BY <1>3, OwnerSteps
<1>4. ASSUME NEW stopped \in BOOLEAN, Disconnect(stopped) \/ TakeOver(stopped) \/ GiveBack PROVE AgentInv'
  <2>1. url \in Url
    BY AgentParts
  <2> QED BY <1>4, <2>1, OwnerSteps
<1>5. CASE ReconcileAgent
  BY <1>5, AgentReconciles
<1>6. CASE ListRooms \/ ReadStatus \/ Skips \/ Sweep \/ BackoffOver \/ PortalRestarts
  BY <1>6, LoopSteps
<1> QED BY <1>1, <1>2, <1>3, <1>4, <1>5, <1>6 DEF AgentNext, Pass

(* Whoever publishes a floor that is not its own was let in while it was,  *)
(* and the worker that transcribes the meeting does not outlive it as the  *)
(* source.                                                                 *)
THEOREM AgentHolds == AgentSpec => []AgentInv
BY AgentStarts, AgentStep, PTL DEF AgentSpec

=============================================================================
