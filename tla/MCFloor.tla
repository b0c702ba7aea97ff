------------------------------- MODULE MCFloor -------------------------------
(* What a floor comes to in the end, for TLC: who publishes it under program *)
(* ingest, and the meeting bot.  A behaviour runs one of the two models; the *)
(* other one has no room to care for, so that its fairness asks for nothing. *)
EXTENDS FloorPublish, MeetingAgent

VARIABLE which

allVars == <<floorVars, agentVars, which>>

FloorsInit ==
  /\ FloorInit /\ AgentInit /\ which \in {"ingest", "agent"}
  /\ url = CHOOSE u \in Url : TRUE
  /\ which = "ingest" => source = "bot"

FloorsNext ==
  /\ which' = which
  /\ \/ which = "ingest" /\ FloorNext /\ UNCHANGED agentVars
     \/ which = "agent" /\ AgentNext /\ UNCHANGED floorVars

FloorsSpec ==
  /\ FloorsInit /\ [][FloorsNext]_allVars
  /\ FloorFairness /\ AgentFairness
==============================================================================
