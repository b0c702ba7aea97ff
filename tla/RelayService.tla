----------------------------- MODULE RelayService -----------------------------
(***************************************************************************)
(* The YouTube relay of the rooms in relay mode: the portal's reconcile    *)
(* pass (portal/program_relay.py, program_ingest.reconcile_once) brings    *)
(* the relay service (program-relay/relay.py) to what the rooms want.  The *)
(* service runs one supervised FFmpeg per room; its requests are served    *)
(* concurrently and share a lock, whose critical sections are single steps *)
(* here.  The portal gives a request three seconds and then goes on, while *)
(* the service still works on it.                                          *)
(***************************************************************************)
EXTENDS FiniteSets, Naturals

CONSTANTS Relayed,    \* ids of rooms in relay mode, numbers: they are admitted in order
          Dest,       \* destinations; a fingerprint stands for one
          Id,         \* bound: Relay objects at a time
          Handler,    \* bound: requests the service works on at a time
          Absent,
          MaxRelays,  \* PROGRAM_RELAY_MAX, RELAY_MAX
          MaxBreaks   \* bound: destinations set, requests given up, restarts of the
              \* portal or the service

ASSUME RelayAssumption ==
  /\ Relayed \subseteq Nat /\ MaxRelays \in Nat /\ MaxBreaks \in Nat
  /\ Absent \notin Id   \* None is no Relay object

VARIABLES dest,    \* the room's stored destination
          feeds,    \* the rooms whose feed is on its path
          relays,  \* RelayManager.relays
          relay,   \* the Relay objects and what their supervisor threads are at
          hand,    \* requests being handled
          owner,   \* the request an owner's page waits for with the room locked
          sync,    \* the reconcile pass
          breaks

relayVars == <<dest, feeds, relays, relay, hand, owner, sync, breaks>>

NoRelay == [at |-> "free", room |-> 0, dest |-> Absent, stop |-> FALSE]
NoHand == [op |-> "none", room |-> 0, dest |-> Absent, joins |-> Absent]
Nothing == [r \in Relayed |-> Absent]
NoPass == [at |-> "idle", wanted |-> Nothing, live |-> Nothing, todo |-> {}, waits |-> Absent]

(* Types; a room's entry in the table is an object made for that room.     *)
RelayTypeOK ==
  /\ dest \in [Relayed -> Dest \cup {Absent}] /\ feeds \in [Relayed -> BOOLEAN]
  /\ relays \in [Relayed -> Id \cup {Absent}]
  /\ relay \in [Id -> [at : {"free", "top", "spawned", "runs", "dying", "failed", "ended"},
                       room : Relayed \cup {0}, dest : Dest \cup {Absent}, stop : BOOLEAN]]
  /\ hand \in [Handler -> [op : {"none", "put", "delete", "join"}, room : Relayed \cup {0},
                           dest : Dest \cup {Absent}, joins : Id \cup {Absent}]]
  /\ owner \in [Relayed -> Handler \cup {Absent}]
  /\ sync \in [at : {"idle", "collect", "list", "stop", "start"}, wanted : [Relayed -> Dest \cup {Absent}],
               live : [Relayed -> Dest \cup {Absent}], todo : SUBSET Relayed, waits : Handler \cup {Absent}]
  /\ breaks \in 0 .. MaxBreaks
  /\ \A r \in Relayed : relays[r] # Absent =>
       relay[relays[r]].room = r /\ relay[relays[r]].at \notin {"free", "ended"} /\ ~relay[relays[r]].stop

RelayInit ==
  /\ dest \in [Relayed -> Dest \cup {Absent}] /\ feeds = [r \in Relayed |-> FALSE]
  /\ relays = Nothing /\ relay = [i \in Id |-> NoRelay]
  /\ hand = [k \in Handler |-> NoHand] /\ owner = Nothing
  /\ sync = NoPass /\ breaks = 0

Alive(i) == relay[i].at \in {"spawned", "runs"}

(* An object nobody holds any more is as good as none.                     *)
Ended(i) == IF \E r \in Relayed : relays[r] = i THEN [relay[i] EXCEPT !.at = "ended"]
            ELSE IF \E k \in Handler : hand[k].joins = i THEN [relay[i] EXCEPT !.at = "ended"]
            ELSE NoRelay

------------------------------------------------------------------------------
(* _supervise: spawn, register under the lock, wait for the end, back off. *)
Spawn(i) ==
  /\ relay[i].at = "top"
  /\ \/ /\ ~relay[i].stop
        /\ \E at \in {"spawned", "failed"} : relay' = [relay EXCEPT ![i].at = at]
     \/ relay[i].stop /\ relay' = [relay EXCEPT ![i] = Ended(i)]
  /\ UNCHANGED <<dest, feeds, relays, hand, owner, sync, breaks>>

(* slip: a stop that came during the spawn is not looked for               *)
RegisteredAnyway(i) == [relay[i] EXCEPT !.at = "runs"]

Registered(i) == IF relay[i].stop THEN Ended(i) ELSE [relay[i] EXCEPT !.at = "runs"]

Register(i) ==
  /\ relay[i].at = "spawned"
  /\ relay' = [relay EXCEPT ![i] = Registered(i)]
  /\ UNCHANGED <<dest, feeds, relays, hand, owner, sync, breaks>>

(* FFmpeg exits, or the watchdog ends one that forwards nothing.           *)
Exits(i) ==
  /\ relay[i].at = "runs"
  /\ relay' = [relay EXCEPT ![i].at = "top"]
  /\ UNCHANGED <<dest, feeds, relays, hand, owner, sync, breaks>>

Reaps(i) ==
  /\ relay[i].at = "dying"
  /\ relay' = [relay EXCEPT ![i] = Ended(i)]
  /\ UNCHANGED <<dest, feeds, relays, hand, owner, sync, breaks>>

(* _stop_locked: a registered process is terminated here, one that is only *)
(* being spawned by its supervisor.                                        *)
StopLocked(i) == [relay[i] EXCEPT !.stop = TRUE, !.at = IF @ = "runs" THEN "dying" ELSE @]

------------------------------------------------------------------------------
(* The service's requests.  Who stopped an object joins its thread.  The   *)
(* answer lets go on who still waits for it.                               *)
LetGo(k) == /\ sync' = IF sync.waits = k THEN [sync EXCEPT !.waits = Absent] ELSE sync
            /\ owner' = [r \in Relayed |-> IF owner[r] = k THEN Absent ELSE owner[r]]

Answer(k) == hand' = [hand EXCEPT ![k] = NoHand] /\ LetGo(k)

(* slip: the answer does not wait for the one that was replaced            *)
JoinsNobody(k, i) == Answer(k)

(* A thread that has returned (its FFmpeg was not there) is joined at once. *)
Joins(k, i) ==
  \/ (i # Absent => relay[i].at = "failed") /\ Answer(k)
  \/ /\ i # Absent /\ relay[i].at # "failed"
     /\ hand' = [hand EXCEPT ![k] = [NoHand EXCEPT !.op = "join", !.joins = i]]
     /\ UNCHANGED <<owner, sync>>

(* slip: full means more than full                                         *)
AtCapacityLate(r) == relays[r] = Absent /\ Cardinality({q \in Relayed : relays[q] # Absent}) > MaxRelays

AtCapacity(r) == relays[r] = Absent /\ Cardinality({q \in Relayed : relays[q] # Absent}) >= MaxRelays

Dropped(i) == IF relay[i].at = "failed" THEN NoRelay ELSE StopLocked(i)

(* ensure.  Which of the free places an object takes makes no difference.  *)
FreeIds == {i \in Id : relay[i].at = "free"}

Ensure(k) == LET r == hand[k].room IN LET old == relays[r] IN
  /\ hand[k].op = "put"
  /\ \/ /\ (old # Absent /\ relay[old].dest = hand[k].dest) \/ AtCapacity(r)
        /\ Answer(k) /\ UNCHANGED <<relays, relay>>
     \/ /\ old # Absent => relay[old].dest # hand[k].dest
        /\ ~AtCapacity(r)
        /\ FreeIds # {}
        /\ LET i == CHOOSE j \in FreeIds : TRUE IN
             /\ relays' = [relays EXCEPT ![r] = i]
             /\ relay' = [j \in Id |->
                  IF j = i THEN [at |-> "top", room |-> r, dest |-> hand[k].dest, stop |-> FALSE]
                  ELSE IF j = old THEN Dropped(j) ELSE relay[j]]
        /\ Joins(k, old)
  /\ UNCHANGED <<dest, feeds, breaks>>

(* stop                                                                    *)
Stop(k) == LET r == hand[k].room IN LET old == relays[r] IN
  /\ hand[k].op = "delete"
  /\ relays' = [relays EXCEPT ![r] = Absent]
  /\ relay' = [j \in Id |-> IF j = old THEN Dropped(j) ELSE relay[j]]
  /\ Joins(k, old)
  /\ UNCHANGED <<dest, feeds, breaks>>

Join(k) ==
  /\ hand[k].op = "join" /\ relay[hand[k].joins].at = "ended"
  /\ Answer(k)
  /\ relay' = [relay EXCEPT ![hand[k].joins] =
                 IF \E j \in Handler \ {k} : hand[j].joins = hand[k].joins THEN @ ELSE NoRelay]
  /\ UNCHANGED <<dest, feeds, relays, breaks>>

ServiceRestarts ==
  /\ breaks < MaxBreaks /\ breaks' = breaks + 1
  /\ relays' = Nothing /\ relay' = [i \in Id |-> NoRelay]
  /\ hand' = [k \in Handler |-> NoHand]
  /\ sync' = [sync EXCEPT !.waits = Absent] /\ owner' = Nothing
  /\ UNCHANGED <<dest, feeds>>

------------------------------------------------------------------------------
(* The portal sends a request; the first free place is as good as any.     *)
FreeHands == {k \in Handler : hand[k].op = "none"}
Sends(k, op, r, d) ==
  /\ FreeHands # {} /\ k = CHOOSE j \in FreeHands : TRUE
  /\ hand' = [hand EXCEPT ![k] = [op |-> op, room |-> r, dest |-> d, joins |-> Absent]]

(* relay_destination_set; configure_source and feeds that come and go.     *)
SetDest(r, d) ==
  /\ owner[r] = Absent /\ d # dest[r]
  /\ breaks < MaxBreaks /\ breaks' = breaks + 1
  /\ dest' = [dest EXCEPT ![r] = d]
  /\ UNCHANGED <<feeds, relays, relay, hand, owner, sync>>

FeedChanges(r) ==
  /\ feeds' = [feeds EXCEPT ![r] = ~@]
  /\ UNCHANGED <<dest, relays, relay, hand, owner, sync, breaks>>

(* relay_destination_clear commits first and stops the relay then;         *)
(* configure_source kicks the feed and stops it.  The room stays locked.    *)
ClearDest(r, k) ==
  /\ owner[r] = Absent /\ dest[r] # Absent
  /\ dest' = [dest EXCEPT ![r] = Absent] /\ UNCHANGED feeds
  /\ Sends(k, "delete", r, Absent) /\ owner' = [owner EXCEPT ![r] = k]
  /\ UNCHANGED <<relays, relay, sync, breaks>>

ChangeSource(r, k) ==
  /\ owner[r] = Absent /\ feeds[r]
  /\ feeds' = [feeds EXCEPT ![r] = FALSE] /\ UNCHANGED dest
  /\ Sends(k, "delete", r, Absent) /\ owner' = [owner EXCEPT ![r] = k]
  /\ UNCHANGED <<relays, relay, sync, breaks>>

(* The service was not there: cleanup_pending.                             *)
ClearUnreached(r) ==
  /\ owner[r] = Absent /\ dest[r] # Absent
  /\ dest' = [dest EXCEPT ![r] = Absent]
  /\ UNCHANGED <<feeds, relays, relay, hand, owner, sync, breaks>>

(* Three seconds are over; the service works on.                           *)
OwnerGoesOn(r) ==
  /\ owner[r] # Absent
  /\ breaks < MaxBreaks /\ breaks' = breaks + 1
  /\ owner' = [owner EXCEPT ![r] = Absent]
  /\ UNCHANGED <<dest, feeds, relays, relay, hand, sync>>

------------------------------------------------------------------------------
(* reconcile_once and sync.                                                *)
Passes(next) == sync' = next /\ UNCHANGED <<dest, feeds, relays, relay, owner, breaks>>

(* The media paths are listed, then the rooms are asked one by one.        *)
BeginPass ==
  /\ sync.at = "idle"
  /\ Passes([NoPass EXCEPT !.at = "collect", !.todo = {r \in Relayed : feeds[r]}])
  /\ UNCHANGED hand

Collect(r) ==
  /\ sync.at = "collect" /\ r \in sync.todo /\ owner[r] = Absent
  /\ Passes([sync EXCEPT !.todo = @ \ {r}, !.wanted[r] = dest[r]])
  /\ UNCHANGED hand

Orphans(live) == {r \in Relayed : live[r] # Absent /\ sync.wanted[r] = Absent}

List ==
  /\ sync.at = "collect" /\ sync.todo = {}
  /\ LET live == [r \in Relayed |-> IF relays[r] = Absent THEN Absent ELSE relay[relays[r]].dest]
     IN Passes([sync EXCEPT !.at = "stop", !.live = live, !.todo = Orphans(live)])
  /\ UNCHANGED hand

ListFails ==
  /\ sync.at = "collect" /\ sync.todo = {}
  /\ Passes(NoPass) /\ UNCHANGED hand

(* One request at a time; one that cannot be sent is left to the next pass. *)
StopOrphan(r, k) ==
  /\ sync.at = "stop" /\ sync.waits = Absent /\ r \in sync.todo
  /\ Sends(k, "delete", r, Absent)
  /\ Passes([sync EXCEPT !.todo = @ \ {r}, !.waits = k])

Before(q, r) == LET known(s) == sync.live[s] # Absent IN
  \/ known(q) /\ ~known(r)
  \/ known(q) = known(r) /\ q < r

(* The rooms that are admitted and not at their destination already.       *)
ToStart == {r \in Relayed :
  /\ sync.wanted[r] # Absent /\ sync.live[r] # sync.wanted[r]
  /\ Cardinality({q \in Relayed : sync.wanted[q] # Absent /\ Before(q, r)}) < MaxRelays}

StopsDone ==
  /\ sync.at = "stop" /\ sync.waits = Absent /\ sync.todo = {}
  /\ Passes([sync EXCEPT !.at = "start", !.todo = ToStart,
                          !.wanted = [r \in Relayed |-> IF r \in ToStart THEN @[r] ELSE Absent],
                          !.live = [r \in Relayed |-> IF r \in ToStart THEN @[r] ELSE Absent]])
  /\ UNCHANGED hand

Start(r, k) ==
  /\ sync.at = "start" /\ sync.waits = Absent /\ r \in sync.todo
  /\ \A q \in sync.todo \ {r} : Before(r, q)
  /\ Sends(k, "put", r, sync.wanted[r])
  /\ Passes([sync EXCEPT !.todo = @ \ {r}, !.waits = k, !.wanted[r] = Absent, !.live[r] = Absent])

Unreached(r) ==
  /\ sync.at \in {"stop", "start"} /\ sync.waits = Absent /\ r \in sync.todo
  /\ Passes([sync EXCEPT !.todo = @ \ {r}]) /\ UNCHANGED hand

SyncGoesOn ==
  /\ sync.waits # Absent
  /\ breaks < MaxBreaks /\ breaks' = breaks + 1
  /\ sync' = [sync EXCEPT !.waits = Absent]
  /\ UNCHANGED <<dest, feeds, relays, relay, hand, owner>>

EndPass ==
  /\ sync.at = "start" /\ sync.waits = Absent /\ sync.todo = {}
  /\ Passes(NoPass) /\ UNCHANGED hand

(* The portal starts again: the room locks and the pass are gone.          *)
PortalRestart ==
  /\ breaks < MaxBreaks /\ breaks' = breaks + 1
  /\ owner' = Nothing /\ sync' = NoPass
  /\ UNCHANGED <<dest, feeds, relays, relay, hand>>

Supervisor(i) == Spawn(i) \/ Register(i) \/ Reaps(i)
Service(k) == Ensure(k) \/ Stop(k) \/ Join(k)
PassGoesOn ==
  \/ BeginPass \/ List \/ StopsDone \/ SyncGoesOn \/ EndPass
  \/ \E r \in Relayed : Collect(r) \/ Unreached(r)

(* What happens to some of the rooms.                                      *)
RelayNextIn(rooms) ==
  \/ PassGoesOn \/ ListFails \/ PortalRestart \/ ServiceRestarts
  \/ \E i \in Id : Supervisor(i) \/ Exits(i)
  \/ \E k \in Handler : Service(k)
  \/ \E r \in rooms : \/ \E d \in Dest : SetDest(r, d)
                      \/ FeedChanges(r) \/ ClearUnreached(r) \/ OwnerGoesOn(r)
                      \/ \E k \in Handler : \/ ClearDest(r, k) \/ ChangeSource(r, k)
                                            \/ StopOrphan(r, k) \/ Start(r, k)

RelayNext == RelayNextIn(Relayed)

(* Threads run, the pass goes on for ever; neither the list nor a request  *)
(* fails for ever.                                                         *)
RelayFairness ==
  /\ \A i \in Id : WF_relayVars(Supervisor(i))
  /\ \A k \in Handler : WF_relayVars(Service(k))
  /\ WF_relayVars(PassGoesOn) /\ SF_relayVars(List)
  /\ \A r \in Relayed :
       /\ WF_relayVars(OwnerGoesOn(r)) /\ SF_relayVars(Collect(r))
       /\ SF_relayVars(\E k \in Handler : StopOrphan(r, k))
       /\ SF_relayVars(\E k \in Handler : Start(r, k))

RelaySpec == RelayInit /\ [][RelayNext]_relayVars /\ RelayFairness

------------------------------------------------------------------------------
(* "No old FFmpeg outlives a successful replacement": one that was stopped *)
(* or replaced runs only while the request that did it is unanswered.      *)
ReplacedIsGone == \A i \in Id :
  Alive(i) /\ relay[i].stop => \E k \in Handler : hand[k].joins = i

(* RELAY_MAX rooms at a time, and no FFmpeg but theirs.                    *)
RelaysBounded ==
  /\ Cardinality({r \in Relayed : relays[r] # Absent}) <= MaxRelays
  /\ \A i \in Id : Alive(i) /\ ~relay[i].stop => relays[relay[i].room] = i

(* What was stopped dies, wherever its supervisor was, and "a running      *)
(* relay restarts on the new destination": nothing goes on being pushed    *)
(* where the owner does not want it, whichever pass or late request put it *)
(* there.                                                                  *)
UnwantedPushEnds == \A i \in Id :
  LET pushes == Alive(i) /\ (relay[i].stop \/ dest[relay[i].room] # relay[i].dest)
  IN pushes ~> ~pushes

(* A feed that stays gets its relay, unless the rooms before it fill the   *)
(* service or FFmpeg is not there.                                         *)
WantedIsRelayed == \A r \in Relayed :
  dest[r] # Absent /\ feeds[r] ~>
    \/ dest[r] = Absent \/ ~feeds[r]
    \/ \E i \in Id : relay[i].room = r /\ relay[i].at \in {"runs", "failed"} /\ relay[i].dest = dest[r]
    \/ \E q \in Relayed \ {r} : relays[q] # Absent

(* Who pushes, at every moment.                                            *)
RelayInv ==
  /\ RelayTypeOK
  /\ ReplacedIsGone
  /\ RelaysBounded

(* Who pushes in the end: what is wanted and nothing else.                 *)
RelaySettles == UnwantedPushEnds /\ WantedIsRelayed
==============================================================================
