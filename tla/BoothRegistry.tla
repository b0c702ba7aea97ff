--------------------------- MODULE BoothRegistry ---------------------------
(***************************************************************************)
(* One booth of portal/booth_state.py's BoothRegistry: who is in it, who   *)
(* holds the active slot, how the slot is handed over, who is on the air   *)
(* and what status the booth reports.                                      *)
(*                                                                         *)
(* Every method of the registry runs under one asyncio.Lock and awaits     *)
(* nothing while it holds it, so each is one action.  The callers are      *)
(* unconstrained here: any participant identifier may be named by any      *)
(* call, present or not.  BoothSessions adds the sockets that make them.   *)
(*                                                                         *)
(* A call that raises still runs _get_or_create_booth first; all of those  *)
(* are the action Touch.                                                   *)
(***************************************************************************)
EXTENDS FiniteSets

CONSTANTS Participant,     \* participant identifiers
          NoOne,           \* None, where an identifier is expected
          Role,            \* the role names of portal/roles.py
          NoRole,          \* the role of an identifier that is not present
          GoLiveRole,      \* roles for which can_go_live holds
          SetActiveRole    \* roles for which can_set_active holds

ASSUME BoothAssumption ==
  /\ NoOne \notin Participant
  /\ NoRole \notin Role
  /\ GoLiveRole \subseteq Role
  /\ SetActiveRole \subseteq Role

VARIABLES
  exists,            \* the booth is in _booths
  role,              \* Participant.role of those present, NoRole otherwise
  before,            \* the order of the participants dict: pairs <<earlier, later>>
  micActive,         \* participants whose mic_active is set
  ingestConnected,   \* participants whose ingest_connected is set
  active,            \* active_interpreter_id
  handoff,           \* handoff_state
  initiator,         \* handoff_initiator_id
  unlocked,          \* broadcast_unlocked
  ingestStatus       \* ingest_status

members == <<exists, role, before>>
floor   == <<active, handoff, initiator>>
air     == <<micActive, ingestConnected, ingestStatus>>
boothVars == <<members, floor, air, unlocked>>

HandoffState == {"idle", "offered", "requested"}
IngestStatus == {"disconnected", "connected", "overloaded"}

BoothTypeOK ==
  /\ exists \in BOOLEAN
  /\ role \in [Participant -> Role \cup {NoRole}]
  /\ before \subseteq Participant \X Participant
  /\ micActive \subseteq Participant
  /\ ingestConnected \subseteq Participant
  /\ active \in Participant \cup {NoOne}
  /\ handoff \in HandoffState
  /\ initiator \in Participant \cup {NoOne}
  /\ unlocked \in BOOLEAN
  /\ ingestStatus \in IngestStatus

-----------------------------------------------------------------------------
participants == {p \in Participant : role[p] # NoRole}

CanGoLive(p)    == role[p] \in GoLiveRole
CanSetActive(p) == role[p] \in SetActiveRole

Others(p) == participants \ {p}

(* Definitions marked "slip" are plausible mistakes in the one that follows *)
(* them; nothing uses them but the demonstration that the properties below *)
(* would notice. *)

(* refresh_ingest_status, for the set of participants still publishing.    *)
RefreshedStatus(publishing) ==
  IF publishing = {} THEN "disconnected" ELSE "connected"

(* slip: the slot is left empty *)
NextInterpreterNone(p) == {NoOne}

(* _pick_next_interpreter once p has left: the earliest remaining          *)
(* participant who can go live, or nobody.                                 *)
NextInterpreter(p) ==
  LET able == {q \in Others(p) : CanGoLive(q)}
  IN  IF able = {}
        THEN {NoOne}
        ELSE {q \in able : \A e \in able : <<e, q>> \notin before}

EmptyBooth == [p \in Participant |-> NoRole]

(* No booth yet; the fields are those of a Booth just constructed.         *)
BoothInit ==
  /\ exists = FALSE
  /\ role = EmptyBooth /\ before = {}
  /\ micActive = {} /\ ingestConnected = {} /\ ingestStatus = "disconnected"
  /\ active = NoOne /\ handoff = "idle" /\ initiator = NoOne
  /\ unlocked = FALSE

HandoffSettled == handoff' = "idle" /\ initiator' = NoOne

(* The flags after the active slot went to p: everyone else is off the air.*)
OnlyOnAir(p) ==
  /\ micActive' = micActive \cap {p}
  /\ ingestConnected' = ingestConnected \cap {p}
  /\ ingestStatus' = RefreshedStatus(ingestConnected')

-----------------------------------------------------------------------------
(* create_booth, snapshot, check_publish_permission, a cancel_handoff or a *)
(* leave_participant that changes nothing, and every call that raises.     *)
Touch ==
  /\ exists' = TRUE
  /\ UNCHANGED <<role, before, floor, air, unlocked>>

(* slip: only those who may choose the active interpreter get a free slot *)
TakesFreeSlotSelector(r) == active = NoOne /\ r \in SetActiveRole

TakesFreeSlot(r) == active = NoOne /\ r \in GoLiveRole

(* join_participant. A taken identifier is honoured only with reclaim;     *)
(* otherwise the caller is given a fresh one. A reclaimed record is        *)
(* replaced in its place in the dict, with both flags down.                *)
JoinParticipant(p, r, reclaim) ==
  /\ p \in participants => reclaim
  /\ exists' = TRUE
  /\ role' = [role EXCEPT ![p] = r]
  /\ before' = IF p \in participants THEN before
                                     ELSE before \cup (participants \X {p})
  /\ micActive' = micActive \ {p}
  /\ ingestConnected' = ingestConnected \ {p}
  /\ active' = IF TakesFreeSlot(r) THEN p ELSE active
  /\ UNCHANGED <<handoff, initiator, ingestStatus, unlocked>>

EndsHandoff(p) == p \in {active, initiator}

(* leave_participant, of somebody who is present.                          *)
LeaveParticipant(p) ==
  /\ p \in participants
  /\ role' = [role EXCEPT ![p] = NoRole]
  /\ before' = {e \in before : p \notin {e[1], e[2]}}
  /\ micActive' = micActive \ {p}
  /\ ingestConnected' = ingestConnected \ {p}
  /\ IF active = p THEN active' \in NextInterpreter(p) ELSE UNCHANGED active
  /\ handoff' = IF EndsHandoff(p) \/ Others(p) = {} THEN "idle" ELSE handoff
  /\ initiator' = IF EndsHandoff(p) THEN NoOne ELSE initiator
  /\ ingestStatus' = CASE Others(p) = {}       -> "disconnected"
                       [] Others(p) # {} /\ p \in ingestConnected
                                               -> RefreshedStatus(ingestConnected')
                       [] OTHER                -> ingestStatus
  /\ UNCHANGED <<exists, unlocked>>

(* set_broadcast_unlocked: Mission Control's Go Live and Stop.             *)
SetBroadcastUnlocked(u) ==
  /\ exists' = TRUE
  /\ unlocked' = u
  /\ IF u THEN UNCHANGED air
          ELSE micActive' = {} /\ ingestConnected' = {} /\ ingestStatus' = "disconnected"
  /\ UNCHANGED <<role, before, floor>>

(* set_active_interpreter: who may ask for what, then the reassignment.    *)
MaySetActive(requester, target) ==
  /\ {requester, target} \subseteq participants
  /\ CanGoLive(target)
  /\ CanSetActive(requester) \/ active = requester

SetActiveInterpreter(requester, target) ==
  /\ MaySetActive(requester, target)
  /\ active' = target
  /\ HandoffSettled
  /\ OnlyOnAir(target)
  /\ UNCHANGED <<members, unlocked>>

(* initiate_handoff: the active interpreter offers, anyone else requests.  *)
InitiateHandoff(requester) ==
  /\ requester \in participants
  /\ CanGoLive(requester)
  /\ handoff = "idle"
  /\ \E q \in Others(requester) : CanGoLive(q)
  /\ handoff' = IF active = requester THEN "offered" ELSE "requested"
  /\ initiator' = requester
  /\ UNCHANGED <<members, active, air, unlocked>>

(* accept_handoff: an offer is taken up by somebody else, a request is     *)
(* granted by the active interpreter.                                      *)
AcceptOffer(acceptor) ==
  /\ handoff = "offered"
  /\ acceptor # initiator
  /\ active # acceptor
  /\ CanGoLive(acceptor)
  /\ active' = acceptor

(* slip: anybody but the requester may grant it *)
GrantRequestByAnyone(acceptor) ==
  /\ handoff = "requested"
  /\ acceptor # initiator
  /\ active' = initiator

GrantRequest(acceptor) ==
  /\ handoff = "requested"
  /\ acceptor # initiator
  /\ active = acceptor
  /\ active' = initiator

AcceptHandoff(acceptor) ==
  /\ acceptor \in participants
  /\ AcceptOffer(acceptor) \/ GrantRequest(acceptor)
  /\ HandoffSettled
  /\ OnlyOnAir(active')
  /\ UNCHANGED <<members, unlocked>>

(* cancel_handoff, by the initiator of a handoff in progress.              *)
CancelHandoff(requester) ==
  /\ handoff # "idle"
  /\ initiator = requester
  /\ HandoffSettled
  /\ UNCHANGED <<members, active, air, unlocked>>

(* update_participant_state: mic and ingest are each raised, lowered or    *)
(* left alone (None), and raising either takes the active slot.            *)
Flag == {"raise", "lower", "leave"}

Flagged(set, p, flag) ==
  CASE flag = "leave" -> set
    [] flag = "raise" -> set \cup {p}
    [] flag = "lower" -> set \ {p}

UpdateParticipantState(p, mic, ingest) ==
  /\ p \in participants
  /\ "raise" \in {mic, ingest} => CanGoLive(p) /\ active = p
  /\ micActive' = Flagged(micActive, p, mic)
  /\ ingestConnected' = Flagged(ingestConnected, p, ingest)
  /\ ingestStatus' = RefreshedStatus(ingestConnected')
  /\ UNCHANGED <<members, floor, unlocked>>

(* broadcast_transcription reporting that transcription is overloaded or   *)
(* failed: it writes the status of an existing booth without the lock.     *)
ReportOverload ==
  /\ exists
  /\ ingestStatus' = "overloaded"
  /\ UNCHANGED <<members, floor, micActive, ingestConnected, unlocked>>

(* remove_booth: the state is dropped, whoever is in it.                   *)
RemoveBooth ==
  /\ exists
  /\ exists' = FALSE
  /\ role' = EmptyBooth /\ before' = {}
  /\ micActive' = {} /\ ingestConnected' = {} /\ ingestStatus' = "disconnected"
  /\ active' = NoOne /\ HandoffSettled
  /\ unlocked' = FALSE

-----------------------------------------------------------------------------
BoothNext ==
  \/ Touch
  \/ \E p \in Participant, r \in Role, reclaim \in BOOLEAN : JoinParticipant(p, r, reclaim)
  \/ \E p \in Participant : LeaveParticipant(p)
  \/ \E u \in BOOLEAN : SetBroadcastUnlocked(u)
  \/ \E p, q \in Participant : SetActiveInterpreter(p, q)
  \/ \E p \in Participant : InitiateHandoff(p)
  \/ \E p \in Participant : AcceptHandoff(p)
  \/ \E p \in Participant : CancelHandoff(p)
  \/ \E p \in Participant, mic, ingest \in Flag : UpdateParticipantState(p, mic, ingest)
  \/ ReportOverload
  \/ RemoveBooth

BoothSpec == BoothInit /\ [][BoothNext]_boothVars

-----------------------------------------------------------------------------
(* At most one voice: a participant is only ever marked as speaking or as  *)
(* publishing while it is the active interpreter, through every handoff,   *)
(* reassignment and departure.                                             *)
SingleVoice == micActive \cup ingestConnected \subseteq {active}

(* The active slot is never left on somebody who has gone, and never left  *)
(* empty while somebody who can go live is in the booth.                   *)
SlotFilled ==
  /\ active # NoOne => active \in participants
  /\ active = NoOne => \A p \in participants : ~CanGoLive(p)

(* A handoff in progress is about the people in the booth now: an offer is *)
(* always the current holder's, and a request always comes from somebody   *)
(* who is still there and does not hold the slot. Accepting a stale offer  *)
(* would take the microphone from whoever got it in the meantime.          *)
HandoffCurrent ==
  /\ handoff = "idle" <=> initiator = NoOne
  /\ handoff = "offered" => initiator = active
  /\ handoff = "requested" => active # NoOne /\ initiator \in Others(active)

(* A participant who is publishing is always visible to the listeners: the *)
(* booth is then reported connected, or overloaded, never disconnected.    *)
PublisherReported == ingestConnected # {} => ingestStatus # "disconnected"

(* What every call of any method keeps.  SingleVoice and SlotFilled need   *)
(* each other (a departing holder must be succeeded, and the successor     *)
(* must be silent), and SlotFilled needs to know who is in the booth.      *)
BoothInv ==
  /\ BoothTypeOK
  /\ SingleVoice
  /\ SlotFilled
  /\ HandoffCurrent
  /\ PublisherReported

(* The registry implements the promise of OnAir.                           *)
Floor == INSTANCE OnAir
  WITH Member   <- Participant,
       Nobody   <- NoOne,
       eligible <- {p \in participants : CanGoLive(p)},
       holder   <- active,
       live     <- micActive \cup ingestConnected

ImplementsOnAir == Floor!OnAirSpec
=============================================================================
