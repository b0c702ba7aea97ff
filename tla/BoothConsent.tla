---------------------------- MODULE BoothConsent ----------------------------
(***************************************************************************)
(* BoothRegistry with a history variable: on whose behalf the last step    *)
(* was taken. It lets the properties say who may take the microphone from  *)
(* whom, and who may end a handoff, which the registry's own state cannot. *)
(***************************************************************************)
EXTENDS BoothRegistry

VARIABLE caller   \* the participant the last call named as its author

consentVars == <<boothVars, caller>>

ConsentInit == BoothInit /\ caller = NoOne

(* The calls made on behalf of p.                                          *)
CallOf(p) ==
  \/ \E r \in Role, reclaim \in BOOLEAN : JoinParticipant(p, r, reclaim)
  \/ LeaveParticipant(p)
  \/ \E q \in Participant : SetActiveInterpreter(p, q)
  \/ InitiateHandoff(p)
  \/ AcceptHandoff(p)
  \/ CancelHandoff(p)
  \/ \E mic, ingest \in Flag : UpdateParticipantState(p, mic, ingest)

(* Mission Control, transcription and the deletion endpoints.              *)
CallOfNoOne ==
  \/ Touch
  \/ \E u \in BOOLEAN : SetBroadcastUnlocked(u)
  \/ ReportOverload
  \/ RemoveBooth

ConsentNext ==
  \/ \E p \in Participant : CallOf(p) /\ caller' = p
  \/ CallOfNoOne /\ caller' = NoOne

ConsentSpec == ConsentInit /\ [][ConsentNext]_consentVars

-----------------------------------------------------------------------------
(* The microphone is not taken from somebody who stays in the booth unless *)
(* they gave it away themselves, were offering it, or somebody with the    *)
(* right to choose the active interpreter took it.                         *)
SlotChangesHands ==
  active \in participants \cap participants' /\ active' # active

Consented ==
  SlotChangesHands =>
    \/ caller' = active
    \/ handoff = "offered" /\ initiator = active /\ active' = caller'
    \/ CanSetActive(caller')

(* A handoff that does not move the microphone is ended by its initiator,  *)
(* by the departure of one of its parties, or by somebody who could have   *)
(* moved the microphone; nobody else can make an offer or a request vanish.*)
EndedByParty ==
  handoff # "idle" /\ handoff' = "idle" /\ active' = active =>
    \/ caller' \in {initiator, active}
    \/ CanSetActive(caller')
    \/ participants' = {}

(* Of set_active_interpreter, accept_handoff, cancel_handoff and           *)
(* leave_participant, in any order, none acts over the heads of those      *)
(* whose microphone or handoff it is.                                      *)
ConsentKept == [][Consented /\ EndedByParty]_consentVars
=============================================================================
