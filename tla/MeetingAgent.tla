---------------------------- MODULE MeetingAgent ----------------------------
(***************************************************************************)
(* The meeting bot as the source of one room's floor                       *)
(* (portal/meeting_source.py, floor-bot/bot.py): what the owner wants is   *)
(* in the room's row, the bot service runs a process per room, and a loop  *)
(* brings the two together from a listing of rooms, a status of the bot    *)
(* service and a listing of media paths that are older than the room's     *)
(* lock.  Handlers and the room part of the loop hold that lock; what they *)
(* ask of the bot service may fail before or after it was done.  Program   *)
(* ingest is here only as the other owner of the floor.  MediaMTX asks the *)
(* portal before a publisher goes live, and makes it the source of a free  *)
(* path when it likes, be the floor another owner's by then.               *)
(***************************************************************************)
EXTENDS Naturals

CONSTANTS Url, NoUrl,
          MaxRestarts,   \* meeting_agent_max_restarts
          MaxFaults      \* bound: restarts of the portal, changes of the meeting,
                         \* connects that fail or ask for what is already wanted

ASSUME AgentAssumption == MaxRestarts \in Nat /\ MaxFaults \in Nat

VARIABLES want,    \* meeting_agent_enabled
          source,  \* floor_source
          url,     \* the meeting the room names
          health,  \* AgentHealth of the room, or Fresh
          bot,     \* the process the bot service has for the room
          media,   \* what is on the floor's path: nothing, the bot, program ingest
          admitted, \* the publishers let in that are not on the path yet
          late,    \* history: those let in or on the path that have lost the floor
                   \* since they were let in
          worker,  \* the floor's transcription worker was started for the agent
          loop,    \* where the reconcile pass is
          faults

agentVars == <<want, source, url, health, bot, media, admitted, late, worker, loop, faults>>

Fresh == [restarts |-> 0, next |-> "none", known |-> NoUrl, joined |-> FALSE, heard |-> FALSE]
NoBot == [at |-> "none", url |-> NoUrl]
Stages == {"joining", "in_meeting", "leaving"}  \* launching is joining still
Publisher == {"bot", "program"}
Idle == [at |-> "idle", wanted |-> FALSE, seen |-> NoBot, path |-> FALSE]

(* Types; restarts stay in their budget; only a bot in a meeting is heard. *)
AgentTypeOK ==
  /\ want \in BOOLEAN /\ source \in Publisher /\ url \in Url
  /\ health \in [restarts : 0 .. MaxRestarts, next : {"none", "wait", "due"},
                 known : Url \cup {NoUrl}, joined : BOOLEAN, heard : BOOLEAN]
  /\ bot \in [at : Stages \cup {"none", "dead"}, url : Url \cup {NoUrl}]
  /\ media \in Publisher \cup {"none"} /\ admitted \subseteq Publisher /\ late \subseteq Publisher
  /\ worker \in BOOLEAN
  /\ loop \in [at : {"idle", "status", "sweep", "room"}, wanted : BOOLEAN,
               seen : [at : Stages \cup {"none", "dead"}, url : Url \cup {NoUrl}], path : BOOLEAN]
  /\ media = "bot" \/ "bot" \in admitted => bot.at = "in_meeting"

AgentInit ==
  /\ want = FALSE /\ source \in Publisher /\ url \in Url
  /\ health = Fresh /\ bot = NoBot /\ media = "none" /\ admitted = {} /\ late = {}
  /\ worker = FALSE /\ loop = Idle /\ faults = 0

------------------------------------------------------------------------------
(* floor-bot: start_room replaces the room's process, stop_room ends it.   *)
Started(u) == [at |-> "joining", url |-> u]

StillLate == late' = late \cap (admitted' \cup {media'})

(* A bot that goes takes its stream with it.                               *)
Unheard ==
  /\ media' = (IF media = "bot" THEN "none" ELSE media) /\ admitted' = admitted \ {"bot"}
  /\ StillLate

Starts(u) == bot' = Started(u) /\ Unheard
Stops == bot' = NoBot /\ Unheard
Untouched == UNCHANGED <<bot, media, admitted, late>>

(* The process launches, joins, loses the meeting and ends.                *)
BotMoves ==
  /\ bot.at = "joining" /\ bot' = [bot EXCEPT !.at = "in_meeting"]
  /\ UNCHANGED <<want, source, url, health, media, admitted, late, worker, loop, faults>>

BotLeaves ==
  /\ bot.at \in Stages
  /\ bot' = [bot EXCEPT !.at = IF @ = "leaving" THEN "dead" ELSE "leaving"]
  /\ Unheard
  /\ UNCHANGED <<want, source, url, health, worker, loop, faults>>

(* slip: RTSP is let in from the private network whoever has the floor     *)
AdmitsRtsp(k) == k = "bot" \/ source = k

(* authorize_publish: RTSP while the floor is the bot's, the credentials   *)
(* of program ingest while it is its own.                                  *)
Admits(k) == source = k

LetIn(k) ==
  /\ k = "bot" => bot.at = "in_meeting"
  /\ media # k /\ Admits(k)
  /\ admitted' = admitted \cup {k}
  /\ UNCHANGED <<want, source, url, health, bot, media, late, worker, loop, faults>>

(* MediaMTX has one source on a path; a second publisher is turned away.   *)
(* One session stands for those of program ingest that come to the same.   *)
GoesLive(k) ==
  /\ k \in admitted /\ admitted' = admitted \ {k}
  /\ media' = (IF media = "none" THEN k ELSE media) /\ StillLate
  /\ UNCHANGED <<want, source, url, health, bot, worker, loop, faults>>

(* Its FFmpeg fails, or an encoder of a program floor goes.                *)
MediaEnds ==
  /\ \/ media # "none" /\ media' = "none" /\ UNCHANGED admitted
     \/ (\E k \in admitted : admitted' = admitted \ {k}) /\ UNCHANGED media
  /\ StillLate
  /\ UNCHANGED <<want, source, url, health, bot, worker, loop, faults>>

------------------------------------------------------------------------------
OtherMeeting(agent, known, target) ==
  IF agent.at = "none" THEN known \notin {NoUrl, target} ELSE agent.url # target

Alive(agent) == agent.at \in Stages

(* configure_source: the source of the path is kicked, and so is the       *)
(* session that holds the reservation.  One that was let in and has lost   *)
(* its reservation to another, or comes by RTSP, stays on its way to the   *)
(* path; the stream of a bot that is gone does not.                        *)
ChangesHands(gone) ==
  /\ media' = "none"
  /\ admitted' \in {admitted \ gone, admitted \ (gone \cup {"program"})}
  /\ late' = admitted' \ {source'}

(* connect: the agent first, then the floor.                               *)
Connect(u) ==
  LET starts == OtherMeeting(bot, IF health.known # NoUrl THEN health.known ELSE url, u)
                  \/ ~Alive(bot)
  IN /\ want \/ u # url => faults < MaxFaults
     /\ faults' = IF want \/ u # url THEN faults + 1 ELSE faults
     /\ want' = TRUE /\ source' = "bot" /\ url' = u
     /\ health' = [Fresh EXCEPT !.known = u]
     /\ bot' = IF starts THEN Started(u) ELSE bot
     /\ IF source = "bot"
        THEN /\ IF starts THEN Unheard ELSE UNCHANGED <<media, admitted, late>>
             /\ UNCHANGED worker
        ELSE /\ ChangesHands(IF starts THEN {"bot"} ELSE {})
             /\ worker' = FALSE
     /\ UNCHANGED loop

(* The start's answer is lost, or the floor cannot be switched and the     *)
(* abandoned agent cannot be stopped either: an agent nobody asked for.    *)
ConnectFails(u) ==
  /\ faults < MaxFaults /\ faults' = faults + 1
  /\ Starts(u)
  /\ UNCHANGED <<want, source, url, health, worker, loop>>

(* disconnect: an agent that cannot be stopped now is left to the sweep.   *)
Disconnect(stopped) ==
  /\ want' = FALSE /\ health' = Fresh
  /\ worker' = (worker /\ source # "bot")
  /\ IF stopped THEN Stops ELSE Untouched
  /\ UNCHANGED <<source, url, loop, faults>>

(* The room page names another meeting.                                    *)
ChangeMeeting(u) ==
  /\ u # url /\ url' = u
  /\ faults < MaxFaults /\ faults' = faults + 1
  /\ UNCHANGED <<want, source, health, bot, media, admitted, late, worker, loop>>

(* configure_source(enable) and open_sender_session: a bot service that    *)
(* does not answer is no obstacle, the kick is what counts.                *)
TakeOver(stopped) ==
  /\ source = "bot"
  /\ source' = "program" /\ want' = FALSE /\ worker' = FALSE
  /\ bot' = IF stopped THEN NoBot ELSE bot
  /\ ChangesHands(IF stopped THEN {"bot"} ELSE {})
  /\ UNCHANGED <<url, health, loop, faults>>

(* configure_source(disable)                                               *)
GiveBack ==
  /\ source = "program"
  /\ source' = "bot" /\ ChangesHands({})
  /\ UNCHANGED <<want, url, health, bot, worker, loop, faults>>

------------------------------------------------------------------------------
(* reconcile_once: the rooms that want an agent; with none, a sweep now    *)
(* and then.                                                               *)
ListRooms ==
  /\ loop.at = "idle"
  /\ loop' = [Idle EXCEPT !.at = "status", !.wanted = want]
  /\ health' = IF want THEN health ELSE Fresh
  /\ UNCHANGED <<want, source, url, bot, media, admitted, late, worker, faults>>

(* The bot service's status and the media paths; neither may be there.     *)
(* Whose stream is on the path the pass does not see; it asks only while   *)
(* the bot is in a meeting.                                                *)
ReadStatus ==
  /\ loop.at = "status"
  /\ loop' = IF loop.wanted THEN [at |-> "room", wanted |-> TRUE, seen |-> bot,
                                   path |-> bot.at = "in_meeting" /\ media # "none"]
             ELSE [Idle EXCEPT !.at = IF bot.at = "none" THEN "idle" ELSE "sweep"]
  /\ UNCHANGED <<want, source, url, health, bot, media, admitted, late, worker, faults>>

Skips ==
  /\ loop.at \in {"status", "sweep"} /\ loop' = Idle
  /\ UNCHANGED <<want, source, url, health, bot, media, admitted, late, worker, faults>>

Stale == ~want \/ source # "bot"

(* _stop_stale_agents, which asks the row again under the lock.            *)
Sweep ==
  /\ loop.at = "sweep" /\ loop' = Idle
  /\ IF Stale THEN Stops ELSE Untouched
  /\ UNCHANGED <<want, source, url, health, worker, faults>>

------------------------------------------------------------------------------
(* reconcile_room, with the agent and the path as they were seen.          *)
Done == loop' = Idle /\ UNCHANGED <<source, url, faults>>

(* The room was disconnected, or the floor taken, since the listing.       *)
RoomGone ==
  /\ ~want \/ source # "bot"
  /\ want' = FALSE /\ health' = IF want THEN Fresh ELSE health
  /\ UNCHANGED worker /\ Untouched

(* Another meeting: rejoin at once, with a new budget.                     *)
Rejoin(answered) ==
  /\ OtherMeeting(loop.seen, health.known, url)
  /\ worker' = FALSE
  /\ IF answered THEN Starts(url) /\ health' = [Fresh EXCEPT !.known = url]
     ELSE (Starts(url) \/ Untouched) /\ UNCHANGED health
  /\ UNCHANGED want

(* slip: a spent budget is refilled by the attempt itself                  *)
SpendsBudgetNever == health.restarts

SpendsBudget == health.restarts + 1

(* _recover, and the restart of the agent when its time has come.          *)
Recovered(stops) ==
  LET lost == [health EXCEPT !.joined = FALSE, !.heard = FALSE]
      unstarted == IF stops THEN Stops ELSE Untouched
  IN \/ /\ health.restarts >= MaxRestarts /\ health' = lost /\ unstarted
     \/ /\ health.restarts < MaxRestarts /\ health.next # "due" /\ unstarted
        /\ health' = [lost EXCEPT !.next = "wait"]
     \/ /\ health.restarts < MaxRestarts /\ health.next = "due"
        /\ \/ Starts(url) /\ health' = [lost EXCEPT !.next = "none", !.known = url,
                                                    !.restarts = SpendsBudget]
           \/ unstarted /\ health' = [lost EXCEPT !.next = "none", !.restarts = SpendsBudget]

Recover ==
  /\ ~OtherMeeting(loop.seen, health.known, url)
  /\ ~Alive(loop.seen) \/ health.next # "none"
  /\ worker' = FALSE
  /\ Recovered(FALSE) /\ UNCHANGED want

Agrees == Alive(loop.seen) /\ loop.seen.url = url /\ health.next = "none"

OnTheWay ==
  /\ Agrees /\ loop.seen.at # "in_meeting"
  /\ health' = [health EXCEPT !.known = url]
  /\ worker' = (worker /\ loop.seen.at # "leaving")
  /\ UNCHANGED want /\ Untouched

(* Nothing was heard for too long since it joined: stop it and recover.    *)
Silent ==
  /\ Agrees /\ loop.seen.at = "in_meeting" /\ ~loop.path /\ health.joined
  /\ worker' = FALSE
  /\ \E stops \in BOOLEAN : Recovered(stops)
  /\ UNCHANGED want

(* In the meeting, the paths could not be listed or nothing has been heard *)
(* since it joined: the worker is left.                                    *)
NothingNew ==
  /\ Agrees /\ loop.seen.at = "in_meeting" /\ ~loop.path
  /\ health' = [health EXCEPT !.known = url, !.joined = TRUE]
  /\ UNCHANGED <<want, worker>> /\ Untouched

(* In the meeting: the worker runs once audio has come and nothing in the  *)
(* room's settings is in its way; a minute of that ends the incident.      *)
InMeeting(runs, steady) ==
  /\ Agrees /\ loop.seen.at = "in_meeting"
  /\ health.heard \/ loop.path
  /\ worker' = runs
  /\ health' = [health EXCEPT !.known = url, !.joined = TRUE, !.heard = TRUE,
                         !.restarts = IF runs /\ worker /\ steady THEN 0 ELSE @]
  /\ UNCHANGED want /\ Untouched

ReconcileAgent ==
  /\ loop.at = "room" /\ Done
  /\ \/ RoomGone
     \/ /\ want /\ source = "bot"
        /\ \/ \E answered \in BOOLEAN : Rejoin(answered)
           \/ Recover \/ OnTheWay \/ NothingNew \/ Silent
           \/ \E runs, steady \in BOOLEAN : InMeeting(runs, steady)

(* The backoff of a scheduled restart runs out.                            *)
BackoffOver ==
  /\ health.next = "wait" /\ health' = [health EXCEPT !.next = "due"]
  /\ UNCHANGED <<want, source, url, bot, media, admitted, late, worker, loop, faults>>

(* The portal starts again: it has forgotten everything but the row.       *)
PortalRestarts ==
  /\ faults < MaxFaults /\ faults' = faults + 1
  /\ health' = Fresh /\ worker' = FALSE /\ loop' = Idle
  /\ UNCHANGED <<want, source, url, bot, media, admitted, late>>

BotServiceRestarts ==
  /\ bot # NoBot /\ Stops
  /\ UNCHANGED <<want, source, url, health, worker, loop, faults>>

Pass == ListRooms \/ ReadStatus \/ Sweep \/ ReconcileAgent

AgentNext ==
  \/ BotMoves \/ BotLeaves \/ MediaEnds
  \/ \E k \in Publisher : LetIn(k) \/ GoesLive(k)
  \/ \E u \in Url : Connect(u) \/ ConnectFails(u) \/ ChangeMeeting(u)
  \/ \E stopped \in BOOLEAN : Disconnect(stopped) \/ TakeOver(stopped)
  \/ GiveBack \/ Skips \/ Pass \/ BackoffOver \/ PortalRestarts \/ BotServiceRestarts

(* The loop runs for ever; a status, a sweep and a start do not fail for   *)
(* ever; processes and clocks move.                                        *)
AgentFairness ==
  /\ WF_agentVars(ListRooms /\ (want \/ bot # NoBot)) /\ SF_agentVars(ReadStatus) /\ SF_agentVars(Sweep)
  /\ WF_agentVars(ReconcileAgent)
  /\ SF_agentVars(loop.at = "room" /\ want /\ source = "bot" /\ Done /\ Rejoin(TRUE))
  /\ WF_agentVars(BackoffOver) /\ WF_agentVars(BotMoves)
  /\ WF_agentVars(bot.at = "leaving" /\ BotLeaves)

AgentSpec == AgentInit /\ [][AgentNext]_agentVars /\ AgentFairness

------------------------------------------------------------------------------
(* Who is let in or on the path and does not own the floor was let in      *)
(* while it did: a change of hands leaves nothing of the old source on the *)
(* path and nothing it can put there but a stream that was on its way.     *)
ForeignWasLetInBefore == (admitted \cup {media}) \ {"none", source} \subseteq late

(* The worker that transcribes the meeting does not outlive it as the      *)
(* source: not when the agent could not be stopped, not after a takeover.  *)
WorkerIsTheAgents == worker => want /\ source = "bot"

(* The bot and program ingest take turns, worker included.                 *)
AgentInv ==
  /\ AgentTypeOK
  /\ ForeignWasLetInBefore
  /\ WorkerIsTheAgents

Wanted == want /\ source = "bot"

(* An agent nobody wants (a stop failed, an answer was lost, the portal    *)
(* restarted) leaves the meeting.                                          *)
UnwantedLeaves == bot.at # "none" /\ ~Wanted ~> bot.at = "none" \/ Wanted

(* A wanted agent gets into the room's meeting, or its restarts are spent  *)
(* and the owner is told, whatever else fails.                             *)
WantedSettles ==
  Wanted ~>
    \/ bot.at = "in_meeting" /\ bot.url = url
    \/ health.restarts = MaxRestarts
    \/ ~Wanted

(* In the end the bot is where the owner wants it.                         *)
AgentSettles == UnwantedLeaves /\ WantedSettles
==============================================================================
