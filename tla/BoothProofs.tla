----------------------------- MODULE BoothProofs -----------------------------
(***************************************************************************)
(* What TLAPS proves of a booth, for any set of participants and sockets   *)
(* and any permission table.  The registry: its invariant, and that it     *)
(* implements OnAir.  What uses it: the microphone is taken only with      *)
(* consent and handoffs end only by their parties; the socket handlers     *)
(* keep to the registry's methods, so what is proved of BoothRegistry      *)
(* holds under any number of sockets, and only a session that is joined    *)
(* and not revoked puts anybody on the air.  What listeners see of it: no  *)
(* listener's status goes back, and the last one sent is the last one      *)
(* recorded.                                                               *)
(***************************************************************************)
EXTENDS BoothSockets, BoothConsent, TLAPS

USE DEF participants, Others, CanGoLive, TakesFreeSlot, EndsHandoff

-----------------------------------------------------------------------------
(* Whoever is picked when p leaves is one of the others who can go live,   *)
(* and nobody is picked only when none of them can.                        *)
LEMMA NextInterpreterIsAble ==
  ASSUME BoothTypeOK, NEW p \in Participant, NEW q \in NextInterpreter(p)
  PROVE  \/ q \in Others(p) /\ CanGoLive(q)
         \/ q = NoOne /\ \A o \in Others(p) : ~CanGoLive(o)
  BY DEF NextInterpreter

(* A status computed from the publishers is never "disconnected" while     *)
(* somebody publishes.                                                     *)
LEMMA RefreshReports ==
  ASSUME NEW S
  PROVE  /\ RefreshedStatus(S) \in IngestStatus
         /\ S # {} => RefreshedStatus(S) # "disconnected"
  BY DEF RefreshedStatus, IngestStatus

(* The registry starts with an empty, idle booth.                          *)
LEMMA BoothInitInv == BoothInit => BoothInv
  BY BoothAssumption DEF BoothInit, BoothInv, BoothTypeOK, SingleVoice, SlotFilled,
     HandoffCurrent, PublisherReported, EmptyBooth, HandoffState, IngestStatus

-----------------------------------------------------------------------------
LEMMA TouchInv == BoothInv /\ Touch => BoothInv'
  BY DEF Touch, BoothInv, BoothTypeOK, SingleVoice, SlotFilled, HandoffCurrent,
     PublisherReported, air, floor

LEMMA JoinInv ==
  ASSUME BoothInv, NEW p \in Participant, NEW r \in Role, NEW reclaim \in BOOLEAN,
         JoinParticipant(p, r, reclaim)
  PROVE  BoothInv'
<1> USE BoothAssumption DEF JoinParticipant
<1>1. BoothTypeOK' /\ SingleVoice'
  BY DEF BoothInv, BoothTypeOK, SingleVoice
<1>2. participants' = participants \cup {p}
  BY DEF BoothInv, BoothTypeOK
<1>3. SlotFilled'
  BY <1>2 DEF BoothInv, BoothTypeOK, SlotFilled
<1>4. HandoffCurrent'
  BY <1>2 DEF BoothInv, BoothTypeOK, SlotFilled, HandoffCurrent, HandoffState
<1>5. PublisherReported'
  BY DEF BoothInv, PublisherReported
<1> QED BY <1>1, <1>3, <1>4, <1>5 DEF BoothInv

LEMMA LeaveInv ==
  ASSUME BoothInv, NEW p \in Participant, LeaveParticipant(p)
  PROVE  BoothInv'
<1> USE BoothAssumption DEF LeaveParticipant
<1>1. participants' = Others(p)
  BY DEF BoothInv, BoothTypeOK
<1>2. active = p => \/ active' \in Others(p) /\ CanGoLive(active')
                    \/ active' = NoOne /\ \A o \in Others(p) : ~CanGoLive(o)
  BY NextInterpreterIsAble DEF BoothInv
<1>3. BoothTypeOK'
  <2>1. role' \in [Participant -> Role \cup {NoRole}] /\ before' \subseteq Participant \X Participant
    BY DEF BoothInv, BoothTypeOK
  <2>2. active' \in Participant \cup {NoOne}
    BY <1>2 DEF BoothInv, BoothTypeOK
  <2>3. ingestStatus' \in IngestStatus
    BY RefreshReports DEF BoothInv, BoothTypeOK, IngestStatus
  <2> QED BY <2>1, <2>2, <2>3 DEF BoothInv, BoothTypeOK, HandoffState
<1>4. SingleVoice'
  BY DEF BoothInv, SingleVoice
<1>5. SlotFilled'
  BY <1>1, <1>2 DEF BoothInv, BoothTypeOK, SlotFilled
<1>6. HandoffCurrent'
  BY <1>1, <1>2 DEF BoothInv, BoothTypeOK, SlotFilled, HandoffCurrent, HandoffState
<1>7. PublisherReported'
  <2>1. ingestConnected' # {} => Others(p) # {}
    BY <1>1, <1>5 DEF BoothInv, BoothTypeOK, SingleVoice, SlotFilled
  <2> QED BY <2>1, RefreshReports DEF BoothInv, PublisherReported
<1> QED BY <1>3, <1>4, <1>5, <1>6, <1>7 DEF BoothInv
LEMMA LockInv ==
  ASSUME BoothInv, NEW u \in BOOLEAN, SetBroadcastUnlocked(u)
  PROVE  BoothInv'
  BY DEF SetBroadcastUnlocked, BoothInv, BoothTypeOK, SingleVoice, SlotFilled,
     HandoffCurrent, PublisherReported, air, floor, IngestStatus

LEMMA SetActiveInv ==
  ASSUME BoothInv, NEW p \in Participant, NEW q \in Participant, SetActiveInterpreter(p, q)
  PROVE  BoothInv'
<1> USE BoothAssumption DEF SetActiveInterpreter, MaySetActive, HandoffSettled, OnlyOnAir, members
<1>1. BoothTypeOK' /\ PublisherReported'
  BY RefreshReports DEF BoothInv, BoothTypeOK, PublisherReported, HandoffState
<1>2. SingleVoice' /\ SlotFilled' /\ HandoffCurrent'
  BY DEF BoothInv, BoothTypeOK, SingleVoice, SlotFilled, HandoffCurrent
<1> QED BY <1>1, <1>2 DEF BoothInv

LEMMA InitiateInv ==
  ASSUME BoothInv, NEW p \in Participant, InitiateHandoff(p)
  PROVE  BoothInv'
<1> USE BoothAssumption DEF InitiateHandoff, members, air
<1>1. BoothTypeOK' /\ SingleVoice' /\ SlotFilled' /\ PublisherReported'
  BY DEF BoothInv, BoothTypeOK, SingleVoice, SlotFilled, PublisherReported, HandoffState
<1>2. HandoffCurrent'
  BY DEF BoothInv, BoothTypeOK, SlotFilled, HandoffCurrent
<1> QED BY <1>1, <1>2 DEF BoothInv

LEMMA AcceptInv ==
  ASSUME BoothInv, NEW p \in Participant, AcceptHandoff(p)
  PROVE  BoothInv'
<1> USE BoothAssumption DEF AcceptHandoff, HandoffSettled, OnlyOnAir, members
<1>1. active' \in participants
  BY DEF AcceptOffer, GrantRequest, BoothInv, HandoffCurrent
<1>2. BoothTypeOK' /\ PublisherReported'
  BY <1>1, RefreshReports DEF BoothInv, BoothTypeOK, PublisherReported, HandoffState
<1>3. SingleVoice' /\ SlotFilled' /\ HandoffCurrent'
  BY <1>1 DEF BoothInv, BoothTypeOK, SingleVoice, SlotFilled, HandoffCurrent
<1> QED BY <1>2, <1>3 DEF BoothInv

LEMMA CancelInv ==
  ASSUME BoothInv, NEW p \in Participant, CancelHandoff(p)
  PROVE  BoothInv'
  BY DEF CancelHandoff, HandoffSettled, members, air, BoothInv, BoothTypeOK, SingleVoice,
     SlotFilled, HandoffCurrent, PublisherReported, HandoffState

LEMMA UpdateInv ==
  ASSUME BoothInv, NEW p \in Participant, NEW mic \in Flag, NEW ingest \in Flag,
         UpdateParticipantState(p, mic, ingest)
  PROVE  BoothInv'
<1> USE DEF UpdateParticipantState, members, floor
<1>1. \A set, flag : flag \in Flag =>
        /\ Flagged(set, p, flag) \subseteq set \cup {p}
        /\ flag # "raise" => Flagged(set, p, flag) \subseteq set
  BY DEF Flag, Flagged
<1>2. BoothTypeOK' /\ PublisherReported'
  BY <1>1, RefreshReports DEF BoothInv, BoothTypeOK, PublisherReported
<1>3. SingleVoice'
  BY <1>1 DEF BoothInv, SingleVoice
<1>4. SlotFilled' /\ HandoffCurrent'
  BY DEF BoothInv, SlotFilled, HandoffCurrent
<1> QED BY <1>2, <1>3, <1>4 DEF BoothInv

LEMMA OverloadInv == BoothInv /\ ReportOverload => BoothInv'
  BY DEF ReportOverload, members, floor, BoothInv, BoothTypeOK, SingleVoice, SlotFilled,
     HandoffCurrent, PublisherReported, IngestStatus

LEMMA RemoveInv == BoothInv /\ RemoveBooth => BoothInv'
  BY BoothAssumption DEF RemoveBooth, HandoffSettled, EmptyBooth, BoothInv, BoothTypeOK,
     SingleVoice, SlotFilled, HandoffCurrent, PublisherReported, HandoffState, IngestStatus

LEMMA StutterInv == BoothInv /\ UNCHANGED boothVars => BoothInv'
  BY DEF boothVars, members, floor, air, BoothInv, BoothTypeOK, SingleVoice, SlotFilled,
     HandoffCurrent, PublisherReported

-----------------------------------------------------------------------------
(* Every step of the registry preserves the inductive invariant.           *)
THEOREM BoothInvInductive == BoothInv /\ [BoothNext]_boothVars => BoothInv'
<1> SUFFICES ASSUME BoothInv, [BoothNext]_boothVars PROVE BoothInv'
  OBVIOUS
<1>1. CASE Touch
  BY <1>1, TouchInv
<1>2. ASSUME NEW p \in Participant, NEW r \in Role, NEW reclaim \in BOOLEAN,
             JoinParticipant(p, r, reclaim)
      PROVE  BoothInv'
  BY <1>2, JoinInv
<1>3. ASSUME NEW p \in Participant, LeaveParticipant(p) PROVE BoothInv'
  BY <1>3, LeaveInv
<1>4. ASSUME NEW u \in BOOLEAN, SetBroadcastUnlocked(u) PROVE BoothInv'
  BY <1>4, LockInv
<1>5. ASSUME NEW p \in Participant, NEW q \in Participant, SetActiveInterpreter(p, q)
      PROVE  BoothInv'
  BY <1>5, SetActiveInv
<1>6. ASSUME NEW p \in Participant, InitiateHandoff(p) PROVE BoothInv'
  BY <1>6, InitiateInv
<1>7. ASSUME NEW p \in Participant, AcceptHandoff(p) PROVE BoothInv'
  BY <1>7, AcceptInv
<1>8. ASSUME NEW p \in Participant, CancelHandoff(p) PROVE BoothInv'
  BY <1>8, CancelInv
<1>9. ASSUME NEW p \in Participant, NEW mic \in Flag, NEW ingest \in Flag,
             UpdateParticipantState(p, mic, ingest)
      PROVE  BoothInv'
  BY <1>9, UpdateInv
<1>10. CASE ReportOverload
  BY <1>10, OverloadInv
<1>11. CASE RemoveBooth
  BY <1>11, RemoveInv
<1>12. CASE UNCHANGED boothVars
  BY <1>12, StutterInv
<1> QED
  BY <1>1, <1>2, <1>3, <1>4, <1>5, <1>6, <1>7, <1>8, <1>9, <1>10, <1>11, <1>12 DEF BoothNext

(* In every reachable state: types, one voice at most, a filled slot, a    *)
(* current handoff and a reported publisher.                               *)
THEOREM BoothInvariance == BoothSpec => []BoothInv
  BY BoothInitInv, BoothInvInductive, PTL DEF BoothSpec

(* BoothRegistry.set_active_interpreter, the handoff methods, departures   *)
(* and update_participant_state never leave anyone but the active          *)
(* interpreter marked as speaking or publishing.                           *)
THEOREM SingleVoiceHolds == BoothSpec => []SingleVoice
  BY BoothInvariance, PTL DEF BoothInv

(* The active slot follows the people in the booth: never dangling, never  *)
(* empty while somebody can go live.                                       *)
THEOREM SlotFilledHolds == BoothSpec => []SlotFilled
  BY BoothInvariance, PTL DEF BoothInv

(* No offer or request outlives the people it is about.                    *)
THEOREM HandoffCurrentHolds == BoothSpec => []HandoffCurrent
  BY BoothInvariance, PTL DEF BoothInv

(* A participant who publishes is never reported disconnected.             *)
THEOREM PublisherReportedHolds == BoothSpec => []PublisherReported
  BY BoothInvariance, PTL DEF BoothInv

-----------------------------------------------------------------------------
(* The refinement, one lemma per kind of step: each step of the registry   *)
(* is a step of OnAir, or leaves OnAir's view of the booth alone.          *)
eligibleNow == {p \in participants : CanGoLive(p)}
liveNow     == micActive \cup ingestConnected

OnAirStep == [Floor!OnAirNext]_(Floor!onAirVars)

USE DEF Floor!onAirVars

LEMMA RefineInit == BoothInit => Floor!OnAirInit
  BY DEF BoothInit, EmptyBooth, Floor!OnAirInit

LEMMA RefineUntouched ==
  ASSUME UNCHANGED <<role, active, micActive, ingestConnected>>
  PROVE  OnAirStep
  BY DEF OnAirStep

LEMMA RefineJoin ==
  ASSUME BoothInv, NEW p \in Participant, NEW r \in Role, NEW reclaim \in BOOLEAN,
         JoinParticipant(p, r, reclaim)
  PROVE  OnAirStep
<1>1. eligibleNow' = IF r \in GoLiveRole THEN eligibleNow \cup {p} ELSE eligibleNow \ {p}
  BY BoothAssumption DEF JoinParticipant, eligibleNow, BoothInv, BoothTypeOK
<1>2. Floor!Arrive(p)
  BY <1>1, BoothAssumption DEF JoinParticipant, Floor!Arrive, eligibleNow, BoothInv, BoothTypeOK
<1> QED BY <1>2 DEF OnAirStep, Floor!OnAirNext

LEMMA RefineLeave ==
  ASSUME BoothInv, NEW p \in Participant, LeaveParticipant(p)
  PROVE  OnAirStep
<1>1. eligibleNow' = {q \in Others(p) : CanGoLive(q)} /\ eligibleNow' = eligibleNow \ {p}
  BY BoothAssumption DEF LeaveParticipant, eligibleNow, BoothInv, BoothTypeOK
<1>2. active = p => \/ active' \in eligibleNow'
                    \/ active' = NoOne /\ eligibleNow' = {}
  BY <1>1, NextInterpreterIsAble DEF LeaveParticipant, BoothInv
<1>3. Floor!Depart(p)
  BY <1>1, <1>2 DEF LeaveParticipant, Floor!Depart, eligibleNow
<1> QED BY <1>3 DEF OnAirStep, Floor!OnAirNext

(* The slot goes to q, who is present.                                     *)
LEMMA RefinePass ==
  ASSUME BoothInv, NEW q \in participants, CanGoLive(q) \/ active # NoOne,
         active' = q, OnlyOnAir(q), UNCHANGED role
  PROVE  OnAirStep
<1>1. active # NoOne
  BY DEF BoothInv, SlotFilled
<1>2. Floor!Pass(q)
  BY <1>1 DEF Floor!Pass, OnlyOnAir
<1> QED BY <1>2 DEF OnAirStep, Floor!OnAirNext

LEMMA RefineAccept ==
  ASSUME BoothInv, NEW p \in Participant, AcceptHandoff(p)
  PROVE  OnAirStep
<1>1. active' \in participants /\ active # NoOne
  BY BoothAssumption DEF AcceptHandoff, AcceptOffer, GrantRequest, BoothInv, HandoffCurrent
<1>2. OnlyOnAir(active') /\ UNCHANGED role
  BY DEF AcceptHandoff, members
<1> QED BY <1>1, <1>2, RefinePass

LEMMA RefineUpdate ==
  ASSUME BoothInv, NEW p \in Participant, NEW mic \in Flag, NEW ingest \in Flag,
         UpdateParticipantState(p, mic, ingest)
  PROVE  OnAirStep
<1>1. UNCHANGED <<role, active>>
  BY DEF UpdateParticipantState, members, floor
<1>2. liveNow' \subseteq {active}
  BY UpdateInv, <1>1 DEF BoothInv, SingleVoice, liveNow
<1>3. CASE active # NoOne
  BY <1>1, <1>2, <1>3 DEF OnAirStep, Floor!OnAirNext, Floor!Speak, liveNow
<1>4. CASE active = NoOne
  <2>1. liveNow = {} /\ liveNow' = {}
    BY <1>2, <1>4, <1>1, UpdateInv, BoothAssumption DEF BoothInv, BoothTypeOK, SingleVoice, liveNow
  <2> QED BY <1>1, <2>1 DEF OnAirStep, liveNow
<1> QED BY <1>3, <1>4

LEMMA RefineLock ==
  ASSUME NEW u \in BOOLEAN, SetBroadcastUnlocked(u)
  PROVE  OnAirStep
<1>1. CASE u
  BY <1>1, RefineUntouched DEF SetBroadcastUnlocked, floor, air
<1>2. CASE ~u
  BY <1>2 DEF SetBroadcastUnlocked, floor, OnAirStep, Floor!OnAirNext, Floor!Silence
<1> QED BY <1>1, <1>2

LEMMA RefineRemove == RemoveBooth => OnAirStep
  BY DEF RemoveBooth, EmptyBooth, OnAirStep, Floor!OnAirNext, Floor!Dissolve

LEMMA RefineNext == BoothInv /\ [BoothNext]_boothVars => OnAirStep
<1> SUFFICES ASSUME BoothInv, [BoothNext]_boothVars PROVE OnAirStep
  OBVIOUS
<1>1. CASE Touch
  BY <1>1, RefineUntouched DEF Touch, floor, air
<1>2. ASSUME NEW p \in Participant, NEW r \in Role, NEW reclaim \in BOOLEAN,
             JoinParticipant(p, r, reclaim)
      PROVE  OnAirStep
  BY <1>2, RefineJoin
<1>3. ASSUME NEW p \in Participant, LeaveParticipant(p) PROVE OnAirStep
  BY <1>3, RefineLeave
<1>4. ASSUME NEW u \in BOOLEAN, SetBroadcastUnlocked(u) PROVE OnAirStep
  BY <1>4, RefineLock
<1>5. ASSUME NEW p \in Participant, NEW q \in Participant, SetActiveInterpreter(p, q)
      PROVE  OnAirStep
  BY <1>5, RefinePass DEF SetActiveInterpreter, MaySetActive, members
<1>6. ASSUME NEW p \in Participant, InitiateHandoff(p) PROVE OnAirStep
  BY <1>6, RefineUntouched DEF InitiateHandoff, members, air
<1>7. ASSUME NEW p \in Participant, AcceptHandoff(p) PROVE OnAirStep
  BY <1>7, RefineAccept
<1>8. ASSUME NEW p \in Participant, CancelHandoff(p) PROVE OnAirStep
  BY <1>8, RefineUntouched DEF CancelHandoff, members, air
<1>9. ASSUME NEW p \in Participant, NEW mic \in Flag, NEW ingest \in Flag,
             UpdateParticipantState(p, mic, ingest)
      PROVE  OnAirStep
  BY <1>9, RefineUpdate
<1>10. CASE ReportOverload
  BY <1>10, RefineUntouched DEF ReportOverload, members, floor
<1>11. CASE RemoveBooth
  BY <1>11, RefineRemove
<1>12. CASE UNCHANGED boothVars
  BY <1>12, RefineUntouched DEF boothVars, members, floor, air
<1> QED
  BY <1>1, <1>2, <1>3, <1>4, <1>5, <1>6, <1>7, <1>8, <1>9, <1>10, <1>11, <1>12 DEF BoothNext

(* BoothRegistry keeps the promise of OnAir: one microphone, one holder,   *)
(* nobody else on the air, whatever sequence of calls is made.             *)
THEOREM RegistryImplementsOnAir == BoothSpec => ImplementsOnAir
  BY RefineInit, RefineNext, BoothInvariance, PTL DEF BoothSpec, ImplementsOnAir, OnAirStep, Floor!OnAirSpec

-----------------------------------------------------------------------------
LEMMA LeaveAsIsBoothStep == ASSUME NEW p, LeaveAs(p) PROVE BoothNext
  BY DEF LeaveAs, LeaveParticipant, BoothNext

(* Whatever a socket does, the booth takes one step of the registry, or    *)
(* none.                                                                   *)
LEMMA SocketStepIsBoothStep ==
  ASSUME BoothInv, NEW s \in Socket, SocketStep(s)
  PROVE  BoothNext \/ UNCHANGED boothVars
<1>1. ASSUME NEW g \in Role \cup {NoRole}, Connect(s, g) PROVE UNCHANGED boothVars
  BY <1>1 DEF Connect
<1>2. ASSUME NEW named \in Participant \cup {NoOne}, NEW p \in Participant, NEW r \in Role,
             HandleJoin(s, named, p, r)
      PROVE  BoothNext
  BY <1>2 DEF HandleJoin, BoothNext
<1>3. CASE HandleLeave(s)
  BY <1>3, LeaveAsIsBoothStep DEF HandleLeave
<1>4. ASSUME NEW target \in Participant, HandleSetActive(s, target) PROVE BoothNext
  BY <1>4 DEF HandleSetActive, SetActiveInterpreter, MaySetActive, BoothNext
<1>5. ASSUME NEW mic \in Flag, NEW ingest \in Flag, HandleUpdateState(s, mic, ingest)
      PROVE  BoothNext
  BY <1>5 DEF HandleUpdateState, UpdateParticipantState, BoothNext
<1>6. CASE HandleInitiateHandoff(s)
  BY <1>6 DEF HandleInitiateHandoff, InitiateHandoff, BoothNext
<1>7. CASE HandleAcceptHandoff(s)
  BY <1>7 DEF HandleAcceptHandoff, AcceptHandoff, BoothNext
<1>8. CASE HandleCancelHandoff(s)
  BY <1>8 DEF HandleCancelHandoff, Joined, CancelHandoff, BoothInv, BoothTypeOK, BoothNext
<1>9. ASSUME NEW u \in BOOLEAN, HandleSetBroadcastUnlocked(s, u) PROVE BoothNext
  BY <1>9 DEF HandleSetBroadcastUnlocked, BoothNext
<1>10. CASE HandleRefused(s)
  BY <1>10 DEF HandleRefused, BoothNext
<1>11. CASE Revoke(s) \/ CloseRevoked(s) \/ Drop(s)
  BY <1>11 DEF Revoke, CloseRevoked, Drop
<1>12. CASE Finally(s)
  BY <1>12, LeaveAsIsBoothStep DEF Finally
<1> QED
  BY <1>1, <1>2, <1>3, <1>4, <1>5, <1>6, <1>7, <1>8, <1>9, <1>10, <1>11, <1>12 DEF SocketStep

LEMMA SessionsStepIsBoothStep ==
  ASSUME BoothInv, [SessionsNext]_vars
  PROVE  [BoothNext]_boothVars
<1>1. Snapshot \/ Overload \/ DeleteBooth \/ DeleteBoothV1 => BoothNext
  BY DEF Snapshot, Overload, DeleteBooth, DeleteBoothV1, BoothNext
<1> QED BY <1>1, SocketStepIsBoothStep DEF SessionsNext, vars

LEMMA SessionsKeepBoothInv == SessionsSpec => []BoothInv
<1>1. SessionsInit => BoothInv
  BY BoothInitInv DEF SessionsInit
<1>2. BoothInv /\ [SessionsNext]_vars => BoothInv'
  BY SessionsStepIsBoothStep, BoothInvInductive
<1> QED BY <1>1, <1>2, PTL DEF SessionsSpec

(* The handlers of handlers.py and manager.py drive the registry only      *)
(* through its methods, on behalf of whom their session remembers.         *)
THEOREM SessionsUseRegistry == SessionsSpec => UsesRegistry
<1>1. SessionsInit => BoothInit
  BY DEF SessionsInit
<1>2. BoothInv /\ [SessionsNext]_vars => [BoothNext]_boothVars
  BY SessionsStepIsBoothStep
<1> QED BY <1>1, <1>2, SessionsKeepBoothInv, PTL DEF SessionsSpec, UsesRegistry, BoothSpec

(* So the promise to the listeners holds with any number of sockets.       *)
THEOREM SessionsImplementOnAir == SessionsSpec => ImplementsOnAir
  BY SessionsUseRegistry, RegistryImplementsOnAir DEF UsesRegistry

-----------------------------------------------------------------------------
LEMMA JoinAddsNoVoice ==
  ASSUME NEW p, NEW r, NEW reclaim, JoinParticipant(p, r, reclaim) PROVE onAir' \subseteq onAir
  BY DEF JoinParticipant, onAir

LEMMA LeaveAddsNoVoice == ASSUME NEW p, LeaveAs(p) PROVE onAir' \subseteq onAir
  BY DEF LeaveAs, LeaveParticipant, Touch, air, onAir

LEMMA HandoffAddsNoVoice ==
  ASSUME NEW q, OnlyOnAir(q) PROVE onAir' \subseteq onAir
  BY DEF OnlyOnAir, onAir

LEMMA SocketVouches ==
  ASSUME NEW s \in Socket, SocketStep(s)
  PROVE  Vouched
<1> USE DEF Vouched
<1>1. ASSUME NEW g \in Role \cup {NoRole}, Connect(s, g) PROVE Vouched
  BY <1>1 DEF Connect, boothVars, air, onAir
<1>2. ASSUME NEW named \in Participant \cup {NoOne}, NEW p \in Participant, NEW r \in Role,
             HandleJoin(s, named, p, r)
      PROVE  Vouched
  BY <1>2, JoinAddsNoVoice DEF HandleJoin
<1>3. CASE HandleLeave(s)
  BY <1>3, LeaveAddsNoVoice DEF HandleLeave
<1>4. ASSUME NEW target \in Participant, HandleSetActive(s, target) PROVE Vouched
  BY <1>4, HandoffAddsNoVoice DEF HandleSetActive, SetActiveInterpreter
<1>5. ASSUME NEW mic \in Flag, NEW ingest \in Flag, HandleUpdateState(s, mic, ingest)
      PROVE  Vouched
  <2>1. onAir' \subseteq onAir \cup {pid[s]}
    BY <1>5 DEF HandleUpdateState, UpdateParticipantState, Flagged, Flag, onAir
  <2> QED BY <1>5, <2>1 DEF HandleUpdateState, Joined, Attending
<1>6. CASE HandleInitiateHandoff(s) \/ HandleCancelHandoff(s)
  BY <1>6 DEF HandleInitiateHandoff, HandleCancelHandoff, InitiateHandoff, CancelHandoff, air, onAir
<1>7. CASE HandleAcceptHandoff(s)
  BY <1>7, HandoffAddsNoVoice DEF HandleAcceptHandoff, AcceptHandoff
<1>8. ASSUME NEW u \in BOOLEAN, HandleSetBroadcastUnlocked(s, u) PROVE Vouched
  BY <1>8 DEF HandleSetBroadcastUnlocked, SetBroadcastUnlocked, air, onAir
<1>9. CASE HandleRefused(s)
  BY <1>9 DEF HandleRefused, Touch, air, onAir
<1>10. CASE Revoke(s) \/ CloseRevoked(s) \/ Drop(s)
  BY <1>10 DEF Revoke, CloseRevoked, Drop, boothVars, air, onAir
<1>11. CASE Finally(s)
  BY <1>11, LeaveAddsNoVoice DEF Finally, boothVars, air, onAir
<1> QED
  BY <1>1, <1>2, <1>3, <1>4, <1>5, <1>6, <1>7, <1>8, <1>9, <1>10, <1>11 DEF SocketStep

LEMMA OthersAddNoVoice ==
  Snapshot \/ Overload \/ DeleteBooth \/ DeleteBoothV1 => onAir' \subseteq onAir
  BY DEF Snapshot, Touch, air, Overload, ReportOverload, DeleteBooth, DeleteBoothV1, RemoveBooth, onAir

(* The receive loop's revocation check, with every handler behind it: no   *)
(* participant goes on the air but at the word of a session joined as them *)
(* that has not been revoked.                                              *)
THEOREM VoiceOnlyFromSession == SessionsSpec => VoiceNeedsSession
<1>1. SessionsNext => Vouched
  <2>1. CASE \E s \in Socket : SocketStep(s)
    BY <2>1, SocketVouches
  <2>2. CASE Snapshot \/ Overload \/ DeleteBooth \/ DeleteBoothV1
    BY <2>2, OthersAddNoVoice DEF Vouched
  <2> QED BY <2>1, <2>2 DEF SessionsNext
<1> QED BY <1>1, PTL DEF SessionsSpec, VoiceNeedsSession

-----------------------------------------------------------------------------
LEMMA ConsentStepIsBoothStep ==
  ASSUME [ConsentNext]_consentVars
  PROVE  [BoothNext]_boothVars
<1>1. ASSUME NEW p \in Participant, CallOf(p) PROVE BoothNext
  BY <1>1 DEF CallOf, BoothNext
<1>2. CallOfNoOne => BoothNext
  BY DEF CallOfNoOne, BoothNext
<1> QED BY <1>1, <1>2 DEF ConsentNext, consentVars

(* The history variable does not disturb the registry's invariant.         *)
LEMMA ConsentKeepsBoothInv == ConsentSpec => []BoothInv
<1>1. ConsentInit => BoothInv
  BY BoothInitInv DEF ConsentInit
<1>2. BoothInv /\ [ConsentNext]_consentVars => BoothInv'
  BY ConsentStepIsBoothStep, BoothInvInductive
<1> QED BY <1>1, <1>2, PTL DEF ConsentSpec

-----------------------------------------------------------------------------
LEMMA CallsAreConsented ==
  ASSUME BoothInv, NEW p \in Participant, CallOf(p), caller' = p
  PROVE  Consented
<1> USE BoothAssumption DEF Consented, SlotChangesHands, CanSetActive
<1>1. ASSUME NEW r \in Role, NEW reclaim \in BOOLEAN, JoinParticipant(p, r, reclaim)
      PROVE  Consented
  BY <1>1 DEF JoinParticipant, BoothInv, BoothTypeOK
<1>2. CASE LeaveParticipant(p)
  BY <1>2 DEF LeaveParticipant
<1>3. ASSUME NEW q \in Participant, SetActiveInterpreter(p, q) PROVE Consented
  BY <1>3 DEF SetActiveInterpreter, MaySetActive
<1>4. CASE InitiateHandoff(p)
  BY <1>4 DEF InitiateHandoff
<1>5. CASE AcceptHandoff(p)
  BY <1>5 DEF AcceptHandoff, AcceptOffer, GrantRequest, BoothInv, HandoffCurrent
<1>6. CASE CancelHandoff(p)
  BY <1>6 DEF CancelHandoff
<1>7. ASSUME NEW mic \in Flag, NEW ingest \in Flag, UpdateParticipantState(p, mic, ingest)
      PROVE  Consented
  BY <1>7 DEF UpdateParticipantState, floor
<1> QED BY <1>1, <1>2, <1>3, <1>4, <1>5, <1>6, <1>7 DEF CallOf

LEMMA OthersLeaveTheSlot == BoothInv /\ CallOfNoOne => Consented
<1> USE BoothAssumption DEF Consented, SlotChangesHands
<1>1. Touch => Consented
  BY DEF Touch, floor
<1>2. ASSUME NEW u \in BOOLEAN, SetBroadcastUnlocked(u) PROVE Consented
  BY <1>2 DEF SetBroadcastUnlocked, floor
<1>3. ReportOverload => Consented
  BY DEF ReportOverload, floor
<1>4. RemoveBooth => Consented
  BY DEF RemoveBooth, EmptyBooth
<1> QED BY <1>1, <1>2, <1>3, <1>4 DEF CallOfNoOne

(* set_active_interpreter, accept_handoff and leave_participant never take *)
(* the active slot from somebody who stays, without their consent or the   *)
(* right to choose.                                                        *)
THEOREM SlotTakenOnlyWithConsent == ConsentSpec => [][Consented]_consentVars
<1>1. BoothInv /\ [ConsentNext]_consentVars => [Consented]_consentVars
  BY CallsAreConsented, OthersLeaveTheSlot DEF ConsentNext
<1> QED BY <1>1, ConsentKeepsBoothInv, PTL DEF ConsentSpec

-----------------------------------------------------------------------------
LEMMA CallsEndByParty ==
  ASSUME BoothInv, NEW p \in Participant, CallOf(p), caller' = p
  PROVE  EndedByParty
<1> USE BoothAssumption DEF EndedByParty, CanSetActive
<1>1. ASSUME NEW r \in Role, NEW reclaim \in BOOLEAN, JoinParticipant(p, r, reclaim)
      PROVE  EndedByParty
  BY <1>1 DEF JoinParticipant
<1>2. CASE LeaveParticipant(p)
  BY <1>2 DEF LeaveParticipant, BoothInv, BoothTypeOK
<1>3. ASSUME NEW q \in Participant, SetActiveInterpreter(p, q) PROVE EndedByParty
  BY <1>3 DEF SetActiveInterpreter, MaySetActive
<1>4. CASE InitiateHandoff(p)
  BY <1>4 DEF InitiateHandoff
<1>5. CASE AcceptHandoff(p)
  BY <1>5 DEF AcceptHandoff, AcceptOffer, GrantRequest, BoothInv, HandoffCurrent
<1>6. CASE CancelHandoff(p)
  BY <1>6 DEF CancelHandoff
<1>7. ASSUME NEW mic \in Flag, NEW ingest \in Flag, UpdateParticipantState(p, mic, ingest)
      PROVE  EndedByParty
  BY <1>7 DEF UpdateParticipantState, floor
<1> QED BY <1>1, <1>2, <1>3, <1>4, <1>5, <1>6, <1>7 DEF CallOf

LEMMA OthersEndNothing == BoothInv /\ CallOfNoOne => EndedByParty
<1> USE BoothAssumption DEF EndedByParty
<1>1. Touch => EndedByParty
  BY DEF Touch, floor
<1>2. ASSUME NEW u \in BOOLEAN, SetBroadcastUnlocked(u) PROVE EndedByParty
  BY <1>2 DEF SetBroadcastUnlocked, floor
<1>3. ReportOverload => EndedByParty
  BY DEF ReportOverload, floor
<1>4. RemoveBooth => EndedByParty
  BY DEF RemoveBooth, EmptyBooth
<1> QED BY <1>1, <1>2, <1>3, <1>4 DEF CallOfNoOne

(* cancel_handoff, leave_participant and set_active_interpreter: a handoff *)
(* that did not move the microphone was ended by one of its parties or by  *)
(* somebody who may choose the active interpreter.                         *)
THEOREM HandoffEndedOnlyByParties == ConsentSpec => [][EndedByParty]_consentVars
<1>1. BoothInv /\ [ConsentNext]_consentVars => [EndedByParty]_consentVars
  BY CallsEndByParty, OthersEndNothing DEF ConsentNext
<1> QED BY <1>1, ConsentKeepsBoothInv, PTL DEF ConsentSpec

(* The microphone and the handoffs of a booth are moved by consent only.   *)
THEOREM ConsentHolds == ConsentSpec => ConsentKept
<1>1. [Consented]_consentVars /\ [EndedByParty]_consentVars => [Consented /\ EndedByParty]_consentVars
  OBVIOUS
<1> QED BY <1>1, SlotTakenOnlyWithConsent, HandoffEndedOnlyByParties, PTL DEF ConsentKept

-----------------------------------------------------------------------------
(* What keeps the listeners' status: only the head of the lock's queue     *)
(* sends, to listeners in the room; the last state sent is what each       *)
(* listener that had an update shows, or is about to be sent; and it is    *)
(* the registry's as long as no update is still to take the lock. What is  *)
(* being sent is no older than what anybody has seen, unless it is no      *)
(* state of the registry.                                                  *)
Queued == Listener \cup Update
Sending == \E x \in Queued : stage[x] = "sends"
Reached == room \cap alive \cap caughtUp

HeadSends == \A x \in Queued : stage[x] = "sends" => Holds(x)

TookState == \A u \in Update : stage[u] # "idle" => took[u] \in Message

NoneFromTheFuture ==
  /\ \A u \in Update : took[u].version <= version
  /\ \A l \in Listener : seen[l].version <= version
  /\ Sending => message.version <= version

TargetsInRoom ==
  /\ targets # {} => \E u \in Update : stage[u] = "sends"
  /\ targets \cap alive \subseteq room
  /\ \A l \in Listener : stage[l] = "idle" => l \notin targets /\ l \notin room
  /\ targets \cap alive # {} => last = message.status

LastIsShown == \A l \in Reached : l \in targets \/ seen[l].status = last

LastIsCurrent ==
  ~quiet => /\ status \in Status
            /\ \/ status = last
               \/ \E u \in Update : stage[u] \in {"members", "waits"}
               \/ Reached = {} /\ targets \cap alive = {}

SendsNewest ==
  Sending => message.fallback \/ \A l \in Listener : seen[l].version <= message.version

StatusIInv ==
  /\ StatusTypeOK
  /\ HeadSends
  /\ TookState
  /\ NoneFromTheFuture
  /\ TargetsInRoom
  /\ LastIsShown
  /\ LastIsCurrent
  /\ SendsNewest

LEMMA StatusIInvAtFirst == StatusInit => StatusIInv
  BY StatusAssumption DEF StatusInit, StatusIInv, StatusTypeOK, HeadSends, TookState,
     NoneFromTheFuture, TargetsInRoom, LastIsShown, LastIsCurrent, SendsNewest, Sending,
     Reached, Queued, Stage, NoMessage, registry, sending, client

(* An update and the greeting of a listener do not send at the same time.  *)
LEMMA OneSends ==
  ASSUME StatusIInv, NEW x \in Queued, Holds(x)
  PROVE  /\ \A y \in Queued : stage[y] = "sends" => y = x
         /\ stage[x] # "sends" => ~Sending /\ targets = {}
         /\ x \in Listener => targets = {}
  BY StatusAssumption DEF StatusIInv, HeadSends, Holds, TargetsInRoom, Sending, Queued

(* Joining the queue changes nobody who holds the lock.                    *)
LEMMA JoinsBehind ==
  ASSUME NEW q \in Seq(Queued), NEW x \in Queued
  PROVE  /\ Append(q, x) \in Seq(Queued)
         /\ q # <<>> => Append(q, x) # <<>> /\ Head(Append(q, x)) = Head(q)
  OBVIOUS

LEMMA LeavesAhead ==
  ASSUME NEW q \in Seq(Queued), q # <<>>
  PROVE  Tail(q) \in Seq(Queued)
  OBVIOUS

LEMMA ChangeKeeps ==
  ASSUME StatusIInv, NEW u \in Update, NEW s \in Status, Change(u, s)
  PROVE  StatusIInv'
<1> USE StatusAssumption DEF Change, Sets, MovesTo, sending, client, Message
<1>0. version' \in 0 .. MaxVersion /\ version' = version + 1 /\ version \in Nat
  BY DEF StatusIInv, StatusTypeOK
<1>1. StatusTypeOK'
  <2>1. took' \in [Update -> Message \cup {NoMessage}]
    BY <1>0 DEF StatusIInv, StatusTypeOK
  <2>2. stage' \in [Queued -> Stage]
    BY DEF StatusIInv, StatusTypeOK, Stage, Queued
  <2>3. Sending' => Sending
    BY DEF StatusIInv, StatusTypeOK, Sending, Queued
  <2> QED BY <1>0, <2>1, <2>2, <2>3 DEF StatusIInv, StatusTypeOK, Sending, Queued
<1>2. \A x \in Queued : stage'[x] = "sends" => stage[x] = "sends" /\ x # u
  BY DEF StatusIInv, StatusTypeOK, Queued
<1>3. HeadSends'
  BY <1>2 DEF StatusIInv, HeadSends, Holds, Queued
<1>4. TookState'
  BY <1>0 DEF StatusIInv, StatusTypeOK, TookState
<1>5. NoneFromTheFuture'
  <2>1. \A v \in Update : took'[v].version <= version'
    BY <1>0 DEF StatusIInv, StatusTypeOK, NoneFromTheFuture, NoMessage
  <2>2. \A l \in Listener : seen[l].version <= version'
    BY <1>0 DEF StatusIInv, StatusTypeOK, NoneFromTheFuture, NoMessage
  <2>3. Sending' => message.version <= version'
    BY <1>0, <1>2 DEF StatusIInv, StatusTypeOK, NoneFromTheFuture, Sending, NoMessage, Queued
  <2> QED BY <2>1, <2>2, <2>3 DEF NoneFromTheFuture
<1>6. TargetsInRoom'
  BY DEF StatusIInv, StatusTypeOK, TargetsInRoom, Queued
<1>7. LastIsShown' /\ SendsNewest'
  BY <1>2 DEF StatusIInv, LastIsShown, SendsNewest, Reached, Sending
<1>8. LastIsCurrent'
  <2>1. stage'[u] = "members"
    BY DEF StatusIInv, StatusTypeOK, Queued
  <2> QED BY <2>1 DEF LastIsCurrent
<1> QED BY <1>1, <1>3, <1>4, <1>5, <1>6, <1>7, <1>8 DEF StatusIInv

LEMMA ChangeQuietlyKeeps ==
  ASSUME StatusIInv, NEW s, ChangeQuietly(s)
  PROVE  StatusIInv'
<1> USE StatusAssumption DEF ChangeQuietly, Sets, sending, client
<1>0. version' \in 0 .. MaxVersion /\ version' = version + 1 /\ version \in Nat
  BY DEF StatusIInv, StatusTypeOK
<1>1. StatusTypeOK'
  BY <1>0 DEF StatusIInv, StatusTypeOK
<1>2. HeadSends' /\ TookState' /\ TargetsInRoom' /\ LastIsShown' /\ LastIsCurrent' /\ SendsNewest'
  BY DEF StatusIInv, HeadSends, Holds, TookState, TargetsInRoom, LastIsShown, LastIsCurrent,
     SendsNewest, Sending, Reached
<1>3. NoneFromTheFuture'
  <2>1. \A v \in Update : took[v].version <= version'
    BY <1>0 DEF StatusIInv, StatusTypeOK, NoneFromTheFuture, NoMessage, Message
  <2>2. \A l \in Listener : seen[l].version <= version'
    BY <1>0 DEF StatusIInv, StatusTypeOK, NoneFromTheFuture, NoMessage, Message
  <2>3. Sending' => message.version <= version'
    BY <1>0 DEF StatusIInv, StatusTypeOK, NoneFromTheFuture, NoMessage, Message, Sending, Queued
  <2> QED BY <2>1, <2>2, <2>3 DEF NoneFromTheFuture
<1> QED BY <1>1, <1>2, <1>3 DEF StatusIInv

LEMMA MembersToldKeeps ==
  ASSUME StatusIInv, NEW u \in Update, MembersTold(u)
  PROVE  StatusIInv'
<1> USE StatusAssumption DEF MembersTold, MovesTo, registry, sending, client
<1>1. \A x \in Queued : stage'[x] = "sends" <=> stage[x] = "sends"
  BY DEF StatusIInv, StatusTypeOK, Queued
<1>2. StatusTypeOK'
  <2>1. stage' \in [Queued -> Stage] /\ queue' \in Seq(Queued)
    BY JoinsBehind DEF StatusIInv, StatusTypeOK, Queued, Stage
  <2> QED BY <1>1, <2>1 DEF StatusIInv, StatusTypeOK, Queued
<1>3. HeadSends'
  BY <1>1, JoinsBehind DEF StatusIInv, StatusTypeOK, HeadSends, Holds, Queued
<1>4. TookState' /\ NoneFromTheFuture'
  BY <1>1 DEF StatusIInv, StatusTypeOK, TookState, NoneFromTheFuture, Sending, Queued
<1>5. TargetsInRoom' /\ LastIsShown' /\ SendsNewest'
  BY <1>1 DEF StatusIInv, StatusTypeOK, TargetsInRoom, LastIsShown, SendsNewest, Reached,
     Sending, Queued
<1>6. LastIsCurrent'
  <2>1. stage'[u] = "waits"
    BY DEF StatusIInv, StatusTypeOK, Queued
  <2> QED BY <2>1 DEF StatusIInv, LastIsCurrent
<1> QED BY <1>2, <1>3, <1>4, <1>5, <1>6 DEF StatusIInv

(* A skipped update leaves everybody with the state it would have sent.    *)
LEMMA UpdateSkippedKeeps ==
  ASSUME StatusIInv, NEW u \in Update, UpdateSkipped(u)
  PROVE  StatusIInv'
<1> USE StatusAssumption DEF UpdateSkipped, Releases, MovesTo, registry, client
<1>1. u \in Queued /\ stage[u] = "waits" /\ Holds(u)
  BY DEF Queued
<1>2. ~Sending /\ targets = {}
  BY <1>1, OneSends
<1>3. ~Sending' /\ targets' = {}
  BY <1>2 DEF StatusIInv, StatusTypeOK, Sending, Queued
<1>4. StatusTypeOK'
  <2>1. stage' \in [Queued -> Stage] /\ queue' \in Seq(Queued)
    BY <1>1, LeavesAhead DEF StatusIInv, StatusTypeOK, Queued, Stage, Holds
  <2> QED BY <1>3, <2>1 DEF StatusIInv, StatusTypeOK, Queued, Sending
<1>5. HeadSends' /\ SendsNewest'
  BY <1>3 DEF HeadSends, SendsNewest, Sending
<1>6. TookState' /\ NoneFromTheFuture'
  BY <1>3 DEF StatusIInv, StatusTypeOK, TookState, NoneFromTheFuture, Queued
<1>7. TargetsInRoom' /\ LastIsShown'
  BY <1>2, <1>3 DEF StatusIInv, StatusTypeOK, TargetsInRoom, LastIsShown, Reached, Queued
<1>8. LastIsCurrent'
  <2> SUFFICES ASSUME ~quiet
               PROVE  /\ status \in Status
                      /\ status = last \/ (Reached = {} /\ targets' = {})
    BY DEF LastIsCurrent, Reached
  <2>1. status \in Status
    BY DEF StatusIInv, LastIsCurrent
  <2>2. Current(u).status = status
    BY <2>1 DEF Current, Newest
  <2>3. CASE room = {}
    BY <2>1, <1>3, <2>3 DEF Reached
  <2>4. CASE NothingNew(u)
    BY <2>1, <2>2, <2>4 DEF NothingNew
  <2> QED BY <2>3, <2>4
<1> QED BY <1>4, <1>5, <1>6, <1>7, <1>8 DEF StatusIInv

(* What an update sends when it finds something new: the newest state, or  *)
(* the one it was called with if the registry has none.                    *)
LEMMA CurrentIsState ==
  ASSUME StatusIInv, NEW u \in Update, stage[u] # "idle"
  PROVE  /\ Current(u) \in Message
         /\ Current(u).version <= version
         /\ Current(u).fallback \/ Current(u).version = version
         /\ status \in Status => Current(u).status = status
<1>1. took[u] \in Message /\ took[u].version <= version
  BY DEF StatusIInv, TookState, NoneFromTheFuture
<1>2. CASE status = NoStatus
  <2>1. Current(u) = [took[u] EXCEPT !.fallback = TRUE]
    BY <1>2 DEF Current
  <2> QED BY <1>1, <1>2, <2>1, StatusAssumption DEF Message
<1>3. CASE status # NoStatus
  <2>1. Current(u) = [status |-> status, version |-> version, fallback |-> FALSE]
    BY <1>3 DEF Current, Newest
  <2>2. status \in Status /\ version \in 0 .. MaxVersion
    BY <1>3 DEF StatusIInv, StatusTypeOK
  <2> QED BY <2>1, <2>2, StatusAssumption DEF Message
<1> QED BY <1>2, <1>3

LEMMA UpdateBeginsKeeps ==
  ASSUME StatusIInv, NEW u \in Update, UpdateBegins(u)
  PROVE  StatusIInv'
<1> USE StatusAssumption DEF UpdateBegins, MovesTo, registry, client
<1>1. u \in Queued /\ stage[u] = "waits" /\ Holds(u)
  BY DEF Queued
<1>2. ~Sending /\ targets = {}
  BY <1>1, OneSends
<1>3. \A x \in Queued : stage'[x] = "sends" <=> x = u
  BY <1>2 DEF StatusIInv, StatusTypeOK, Sending, Queued
<1> DEFINE m == Current(u)
<1>4. /\ m \in Message
      /\ m.version <= version
      /\ m.fallback \/ m.version = version
      /\ status \in Status => m.status = status
  BY <1>1, CurrentIsState
<1>5. message' = m /\ last' = m.status
  OBVIOUS
<1> HIDE DEF m
<1>6. m.status \in Status
  BY <1>4 DEF Message
<1>7. StatusTypeOK'
  <2>1. stage' \in [Queued -> Stage]
    BY DEF StatusIInv, StatusTypeOK, Queued, Stage
  <2> QED BY <1>4, <1>5, <1>6, <2>1 DEF StatusIInv, StatusTypeOK, Queued
<1>8. HeadSends'
  BY <1>1, <1>3 DEF HeadSends, Holds
<1>9. TookState'
  BY <1>1 DEF StatusIInv, StatusTypeOK, TookState, Queued
<1>10. NoneFromTheFuture'
  BY <1>4, <1>5 DEF StatusIInv, NoneFromTheFuture
<1>11. TargetsInRoom'
  <2>1. stage'[u] = "sends"
    BY <1>1, <1>3
  <2>2. \A l \in Listener : stage'[l] = stage[l]
    BY DEF StatusIInv, StatusTypeOK, Queued
  <2> QED BY <1>5, <2>1, <2>2 DEF StatusIInv, TargetsInRoom
<1>12. LastIsShown'
  BY DEF LastIsShown, Reached
<1>13. LastIsCurrent'
  BY <1>4, <1>5 DEF StatusIInv, LastIsCurrent
<1>14. SendsNewest'
  BY <1>4, <1>5 DEF StatusIInv, NoneFromTheFuture, SendsNewest
<1> QED BY <1>7, <1>8, <1>9, <1>10, <1>11, <1>12, <1>13, <1>14 DEF StatusIInv

LEMMA UpdateSendsKeeps ==
  ASSUME StatusIInv, NEW u \in Update, NEW l \in Listener, UpdateSends(u, l)
  PROVE  StatusIInv'
<1> USE StatusAssumption DEF UpdateSends, registry
<1>1. Sending /\ message \in Message
  BY DEF Sending, StatusIInv, StatusTypeOK, Queued
<1>2. StatusTypeOK'
  BY <1>1 DEF StatusIInv, StatusTypeOK
<1>3. HeadSends' /\ TookState'
  BY DEF StatusIInv, HeadSends, Holds, TookState
<1>4. /\ seen'[l] = IF l \in alive THEN message ELSE seen[l]
      /\ \A k \in Listener : k # l => seen'[k] = seen[k]
  BY DEF StatusIInv, StatusTypeOK
<1>5. NoneFromTheFuture'
  BY <1>1, <1>4 DEF StatusIInv, NoneFromTheFuture, Sending
<1>6. TargetsInRoom'
  BY DEF StatusIInv, TargetsInRoom
<1>7. LastIsShown'
  <2> SUFFICES ASSUME NEW k \in Reached' PROVE k \in targets' \/ seen'[k].status = last
    BY DEF LastIsShown
  <2>1. k \in Listener /\ k \in room /\ k \in alive
    BY DEF Reached, StatusIInv, StatusTypeOK
  <2>2. CASE k = l
    <3>1. last = message.status
      BY <2>1, <2>2 DEF StatusIInv, TargetsInRoom
    <3> QED BY <1>4, <2>1, <2>2, <3>1
  <2>3. CASE k # l
    <3>1. k \in Reached
      BY <2>1, <2>3 DEF Reached
    <3> QED BY <1>4, <2>1, <2>3, <3>1 DEF StatusIInv, LastIsShown
  <2> QED BY <2>2, <2>3
<1>8. LastIsCurrent'
  BY DEF StatusIInv, LastIsCurrent, Reached
<1>9. SendsNewest'
  <2>1. message.version <= message.version
    BY <1>1 DEF Message
  <2> QED BY <1>1, <1>4, <2>1 DEF StatusIInv, SendsNewest
<1> QED BY <1>2, <1>3, <1>5, <1>6, <1>7, <1>8, <1>9 DEF StatusIInv

LEMMA UpdateEndsKeeps ==
  ASSUME StatusIInv, NEW u \in Update, UpdateEnds(u)
  PROVE  StatusIInv'
<1> USE StatusAssumption DEF UpdateEnds, Releases, Remains, MovesTo, registry, client
<1>1. u \in Queued /\ stage[u] = "sends" /\ Holds(u)
  BY DEF Queued, StatusIInv, HeadSends
<1>2. ~Sending' /\ targets' = {} /\ targets = {}
  BY <1>1, OneSends DEF StatusIInv, StatusTypeOK, Sending, Queued
<1>3. StatusTypeOK'
  <2>1. stage' \in [Queued -> Stage] /\ queue' \in Seq(Queued)
    BY <1>1, LeavesAhead DEF StatusIInv, StatusTypeOK, Queued, Stage, Holds
  <2> QED BY <1>2, <2>1 DEF StatusIInv, StatusTypeOK, Queued, Sending
<1>4. HeadSends' /\ SendsNewest'
  BY <1>2 DEF HeadSends, SendsNewest, Sending
<1>5. TookState' /\ NoneFromTheFuture'
  BY <1>2 DEF StatusIInv, StatusTypeOK, TookState, NoneFromTheFuture, Queued
<1>6. TargetsInRoom' /\ LastIsShown'
  BY <1>2 DEF StatusIInv, StatusTypeOK, TargetsInRoom, LastIsShown, Reached, Queued
<1>7. LastIsCurrent'
  <2>1. \A v \in Update : stage[v] \in {"members", "waits"} => stage'[v] = stage[v]
    BY <1>1 DEF StatusIInv, StatusTypeOK, Queued
  <2> QED BY <1>2, <2>1 DEF StatusIInv, LastIsCurrent, Reached
<1> QED BY <1>3, <1>4, <1>5, <1>6, <1>7 DEF StatusIInv

-----------------------------------------------------------------------------
LEMMA ConnectKeeps ==
  ASSUME StatusIInv, NEW l \in Listener, ConnectListener(l)
  PROVE  StatusIInv'
<1> USE StatusAssumption DEF ConnectListener, MovesTo, registry, sending
<1>1. \A x \in Queued : stage'[x] = "sends" <=> stage[x] = "sends"
  BY DEF StatusIInv, StatusTypeOK, Queued
<1>2. l \notin targets /\ l \notin room
  BY DEF StatusIInv, TargetsInRoom
<1>3. /\ seen'[l] = NoMessage
      /\ \A k \in Listener : k # l => seen'[k] = seen[k]
  BY DEF StatusIInv, StatusTypeOK
<1>4. StatusTypeOK'
  <2>1. stage' \in [Queued -> Stage] /\ queue' \in Seq(Queued)
    BY JoinsBehind DEF StatusIInv, StatusTypeOK, Queued, Stage
  <2> QED BY <1>1, <2>1 DEF StatusIInv, StatusTypeOK, Queued
<1>5. HeadSends'
  BY <1>1, JoinsBehind DEF StatusIInv, StatusTypeOK, HeadSends, Holds, Queued
<1>6. TookState'
  BY DEF StatusIInv, StatusTypeOK, TookState, Queued
<1>7. NoneFromTheFuture'
  <2>1. 0 <= version
    BY DEF StatusIInv, StatusTypeOK
  <2> QED BY <1>1, <1>3, <2>1 DEF StatusIInv, NoneFromTheFuture, Sending, NoMessage
<1>8. TargetsInRoom'
  <2>1. \A u \in Update : stage'[u] = stage[u]
    BY DEF StatusIInv, StatusTypeOK, Queued
  <2>2. targets \cap alive' = targets \cap alive
    BY <1>2
  <2>3. \A k \in Listener : stage'[k] = "idle" => stage[k] = "idle" /\ k # l
    BY DEF StatusIInv, StatusTypeOK, Queued
  <2> QED BY <1>2, <2>1, <2>2, <2>3 DEF StatusIInv, TargetsInRoom
<1>9. Reached' = Reached
  BY <1>2 DEF Reached
<1>10. LastIsShown'
  BY <1>2, <1>3, <1>9 DEF StatusIInv, StatusTypeOK, LastIsShown, Reached
<1>11. LastIsCurrent'
  <2>1. \A u \in Update : stage'[u] = stage[u]
    BY DEF StatusIInv, StatusTypeOK, Queued
  <2> QED BY <1>2, <1>9, <2>1 DEF StatusIInv, LastIsCurrent
<1>12. SendsNewest'
  <2>1. Sending => 0 <= message.version
    BY DEF StatusIInv, StatusTypeOK, Sending, Queued, Message
  <2> QED BY <1>1, <1>3, <2>1 DEF StatusIInv, SendsNewest, Sending, NoMessage
<1> QED BY <1>4, <1>5, <1>6, <1>7, <1>8, <1>10, <1>11, <1>12 DEF StatusIInv

(* A socket that has the lock to itself and gives it up.                   *)
LEMMA ListenerReleases ==
  ASSUME StatusIInv, NEW l \in Listener, Holds(l), Releases,
         NEW next \in {"listens", "idle"}, MovesTo(l, next),
         UNCHANGED <<registry, took>>
  PROVE  /\ stage' \in [Queued -> Stage] /\ queue' \in Seq(Queued)
         /\ targets = {} /\ targets' = {} /\ dead' = {} /\ message' = NoMessage
         /\ ~Sending'
         /\ \A u \in Update : stage'[u] = stage[u]
         /\ \A k \in Listener : stage'[k] = IF k = l THEN next ELSE stage[k]
         /\ HeadSends' /\ SendsNewest' /\ TookState'
<1> USE StatusAssumption DEF Releases, MovesTo, registry
<1>1. l \in Queued
  BY DEF Queued
<1>2. targets = {} /\ \A y \in Queued : stage[y] = "sends" => y = l
  BY <1>1, OneSends
<1>3. stage' \in [Queued -> Stage] /\ queue' \in Seq(Queued)
  BY <1>1, LeavesAhead DEF StatusIInv, StatusTypeOK, Queued, Stage, Holds
<1>4. /\ \A u \in Update : stage'[u] = stage[u]
      /\ \A k \in Listener : stage'[k] = IF k = l THEN next ELSE stage[k]
  BY DEF StatusIInv, StatusTypeOK, Queued
<1>5. ~Sending'
  BY <1>2, <1>4 DEF Sending, Queued
<1>6. HeadSends' /\ SendsNewest' /\ TookState'
  BY <1>4, <1>5 DEF StatusIInv, HeadSends, SendsNewest, TookState, Sending
<1> QED BY <1>2, <1>3, <1>4, <1>5, <1>6

LEMMA GreetsKeeps ==
  ASSUME StatusIInv, NEW l \in Listener, Greets(l)
  PROVE  StatusIInv'
<1> USE StatusAssumption DEF Greets, registry, client
<1>1. CASE status = NoStatus
  <2>1. /\ stage' \in [Queued -> Stage] /\ queue' \in Seq(Queued)
        /\ targets = {} /\ targets' = {} /\ dead' = {} /\ message' = NoMessage
        /\ ~Sending'
        /\ \A u \in Update : stage'[u] = stage[u]
        /\ \A k \in Listener : stage'[k] = IF k = l THEN "listens" ELSE stage[k]
        /\ HeadSends' /\ SendsNewest' /\ TookState'
    BY <1>1, ListenerReleases
  <2>2. StatusTypeOK'
    BY <2>1 DEF StatusIInv, StatusTypeOK, Queued, Sending
  <2>3. NoneFromTheFuture' /\ TargetsInRoom' /\ LastIsShown' /\ LastIsCurrent'
    BY <2>1 DEF StatusIInv, NoneFromTheFuture, TargetsInRoom, LastIsShown, LastIsCurrent, Reached
  <2> QED BY <2>1, <2>2, <2>3 DEF StatusIInv
<1>2. CASE status # NoStatus
  <2>1. l \in Queued /\ stage[l] = "waits" /\ Holds(l)
    BY DEF Queued
  <2>2. ~Sending /\ targets = {}
    BY <2>1, OneSends
  <2>3. \A x \in Queued : stage'[x] = IF x = l THEN "sends" ELSE stage[x]
    BY <1>2 DEF StatusIInv, StatusTypeOK, Queued, MovesTo
  <2>4. message' = [status |-> status, version |-> version, fallback |-> FALSE] /\ message' \in Message
    <3>1. status \in Status /\ version \in 0 .. MaxVersion
      BY <1>2 DEF StatusIInv, StatusTypeOK
    <3>2. message' = [status |-> status, version |-> version, fallback |-> FALSE]
      BY <1>2 DEF Newest
    <3>3. [status |-> status, version |-> version, fallback |-> FALSE] \in Message
      BY <3>1 DEF Message
    <3> QED BY <3>2, <3>3
  <2>5. StatusTypeOK'
    <3>1. stage' \in [Queued -> Stage]
      BY <1>2 DEF StatusIInv, StatusTypeOK, Queued, Stage, MovesTo
    <3> QED BY <1>2, <2>4, <3>1 DEF StatusIInv, StatusTypeOK, Queued
  <2>6. HeadSends'
    BY <1>2, <2>1, <2>2, <2>3 DEF HeadSends, Holds, Sending
  <2>7. TookState'
    BY <2>3 DEF StatusIInv, TookState, Queued
  <2>8. NoneFromTheFuture' /\ SendsNewest'
    BY <2>4 DEF StatusIInv, StatusTypeOK, NoneFromTheFuture, SendsNewest
  <2>9. TargetsInRoom' /\ LastIsShown' /\ LastIsCurrent'
    BY <1>2, <2>2, <2>3 DEF StatusIInv, TargetsInRoom, LastIsShown, LastIsCurrent, Reached, Queued
  <2> QED BY <2>5, <2>6, <2>7, <2>8, <2>9 DEF StatusIInv
<1> QED BY <1>1, <1>2

LEMMA GreetedKeeps ==
  ASSUME StatusIInv, NEW l \in Listener, Greeted(l)
  PROVE  StatusIInv'
<1> USE StatusAssumption DEF Greeted, registry
<1>1. l \in Queued /\ Holds(l) /\ Sending /\ message \in Message
  BY DEF StatusIInv, StatusTypeOK, HeadSends, Sending, Queued
<1>2. /\ stage' \in [Queued -> Stage] /\ queue' \in Seq(Queued)
      /\ targets = {} /\ targets' = {} /\ dead' = {} /\ message' = NoMessage
      /\ ~Sending'
      /\ \A u \in Update : stage'[u] = stage[u]
      /\ \A k \in Listener : stage'[k] = IF k = l THEN "listens" ELSE stage[k]
      /\ HeadSends' /\ SendsNewest' /\ TookState'
  BY <1>1, ListenerReleases
<1>3. /\ seen'[l] = message
      /\ \A k \in Listener : k # l => seen'[k] = seen[k]
  BY DEF StatusIInv, StatusTypeOK
<1>4. StatusTypeOK'
  BY <1>1, <1>2 DEF StatusIInv, StatusTypeOK, Queued, Sending
<1>5. NoneFromTheFuture'
  BY <1>1, <1>2, <1>3 DEF StatusIInv, NoneFromTheFuture
<1>6. TargetsInRoom' /\ LastIsShown' /\ LastIsCurrent'
  BY <1>2, <1>3 DEF StatusIInv, StatusTypeOK, TargetsInRoom, LastIsShown, LastIsCurrent, Reached
<1> QED BY <1>2, <1>4, <1>5, <1>6 DEF StatusIInv

LEMMA LoseKeeps ==
  ASSUME StatusIInv, NEW l \in Listener, Lose(l)
  PROVE  StatusIInv'
<1> USE DEF Lose, registry, sending
<1>1. StatusTypeOK'
  BY DEF StatusIInv, StatusTypeOK
<1>2. HeadSends' /\ TookState' /\ NoneFromTheFuture' /\ SendsNewest'
  BY DEF StatusIInv, HeadSends, Holds, TookState, NoneFromTheFuture, SendsNewest, Sending
<1>3. TargetsInRoom' /\ LastIsShown' /\ LastIsCurrent'
  BY DEF StatusIInv, TargetsInRoom, LastIsShown, LastIsCurrent, Reached
<1> QED BY <1>1, <1>2, <1>3 DEF StatusIInv

LEMMA CaptionFailsKeeps ==
  ASSUME StatusIInv, NEW l \in Listener, CaptionFails(l)
  PROVE  StatusIInv'
<1> USE DEF CaptionFails, Remains, registry, sending, client
<1>1. StatusTypeOK'
  BY DEF StatusIInv, StatusTypeOK
<1>2. HeadSends' /\ TookState' /\ NoneFromTheFuture' /\ SendsNewest'
  BY DEF StatusIInv, HeadSends, Holds, TookState, NoneFromTheFuture, SendsNewest, Sending
<1>3. targets \cap alive \subseteq room'
  BY DEF StatusIInv, TargetsInRoom
<1>4. TargetsInRoom' /\ LastIsShown' /\ LastIsCurrent'
  BY <1>3 DEF StatusIInv, TargetsInRoom, LastIsShown, LastIsCurrent, Reached
<1> QED BY <1>1, <1>2, <1>4 DEF StatusIInv

LEMMA LeaveSocketKeeps ==
  ASSUME StatusIInv, NEW l \in Listener, Leave(l)
  PROVE  StatusIInv'
<1> USE StatusAssumption DEF Leave, registry, client
<1>1. CASE /\ stage[l] = "listens"
           /\ targets' = targets \ {l} /\ dead' = dead \ {l}
           /\ UNCHANGED <<queue, message>>
  <2>1. \A x \in Queued : stage'[x] = IF x = l THEN "idle" ELSE stage[x]
    BY DEF StatusIInv, StatusTypeOK, Queued, MovesTo
  <2>2. Sending' <=> Sending
    BY <1>1, <2>1 DEF Sending, Queued
  <2>3. StatusTypeOK'
    <3>1. stage' \in [Queued -> Stage]
      BY DEF StatusIInv, StatusTypeOK, Queued, Stage, MovesTo
    <3> QED BY <1>1, <2>2, <3>1 DEF StatusIInv, StatusTypeOK, Queued, Sending, Remains
  <2>4. HeadSends' /\ TookState' /\ NoneFromTheFuture' /\ SendsNewest'
    BY <1>1, <2>1, <2>2 DEF StatusIInv, HeadSends, Holds, TookState, NoneFromTheFuture,
       SendsNewest, Queued
  <2>5. targets' \cap alive \subseteq room'
    BY <1>1 DEF StatusIInv, TargetsInRoom, Remains
  <2>6. TargetsInRoom' /\ LastIsShown' /\ LastIsCurrent'
    <3>1. \A u \in Update : stage'[u] = stage[u]
      BY <2>1 DEF Queued
    <3> QED
      BY <1>1, <2>1, <2>5, <3>1 DEF StatusIInv, TargetsInRoom, LastIsShown, LastIsCurrent, Reached,
         Remains, Queued
  <2> QED BY <2>3, <2>4, <2>6 DEF StatusIInv
<1>2. CASE stage[l] = "sends" /\ Releases
  <2>1. Holds(l)
    BY <1>2 DEF StatusIInv, HeadSends, Queued
  <2>2. /\ stage' \in [Queued -> Stage] /\ queue' \in Seq(Queued)
        /\ targets = {} /\ targets' = {} /\ dead' = {} /\ message' = NoMessage
        /\ ~Sending'
        /\ \A u \in Update : stage'[u] = stage[u]
        /\ \A k \in Listener : stage'[k] = IF k = l THEN "idle" ELSE stage[k]
        /\ HeadSends' /\ SendsNewest' /\ TookState'
    BY <1>2, <2>1, ListenerReleases
  <2>3. StatusTypeOK'
    BY <2>2 DEF StatusIInv, StatusTypeOK, Queued, Sending, Remains
  <2>4. NoneFromTheFuture' /\ TargetsInRoom' /\ LastIsShown' /\ LastIsCurrent'
    BY <2>2 DEF StatusIInv, NoneFromTheFuture, TargetsInRoom, LastIsShown, LastIsCurrent, Reached,
       Remains
  <2> QED BY <2>2, <2>3, <2>4 DEF StatusIInv
<1> QED BY <1>1, <1>2

LEMMA StatusStepKeeps ==
  StatusIInv /\ [StatusNext]_statusVars => StatusIInv'
<1> SUFFICES ASSUME StatusIInv, [StatusNext]_statusVars PROVE StatusIInv'
  OBVIOUS
<1>1. ASSUME NEW u \in Update, UpdateStep(u) PROVE StatusIInv'
  BY <1>1, ChangeKeeps, MembersToldKeeps, UpdateSkippedKeeps, UpdateBeginsKeeps, UpdateSendsKeeps,
     UpdateEndsKeeps DEF UpdateStep
<1>2. ASSUME NEW l \in Listener, ListenerStep(l) PROVE StatusIInv'
  BY <1>2, ConnectKeeps, GreetsKeeps, GreetedKeeps, LoseKeeps, CaptionFailsKeeps, LeaveSocketKeeps
     DEF ListenerStep
<1>3. CASE UNCHANGED statusVars
  BY <1>3 DEF statusVars, registry, sending, client, StatusIInv, StatusTypeOK, HeadSends, Holds,
     TookState, NoneFromTheFuture, TargetsInRoom, LastIsShown, LastIsCurrent, SendsNewest, Sending,
     Reached
<1> QED BY <1>1, <1>2, <1>3, ChangeQuietlyKeeps DEF StatusNext

(* When nobody holds the lock, nothing is half sent and no update is due.  *)
LEMMA SettledMeansAgreed == StatusIInv => UpdatedListenersAgree
<1> SUFFICES ASSUME StatusIInv, Settled PROVE \A l \in Reached : seen[l].status = status
  BY DEF UpdatedListenersAgree, Reached
<1>1. ~Sending
  BY DEF StatusIInv, HeadSends, Holds, Settled, Sending
<1>2. targets = {}
  BY <1>1 DEF StatusIInv, TargetsInRoom, Sending, Queued
<1>3. status = last \/ Reached = {}
  BY DEF StatusIInv, LastIsCurrent, Settled
<1> QED BY <1>2, <1>3 DEF StatusIInv, LastIsShown

(* What a listener is sent is no older than what it has seen, or is no     *)
(* state of the registry.                                                  *)
NoStepBack ==
  \A l \in Listener :
    seen'[l] # seen[l] /\ seen'[l] # NoMessage =>
      \/ seen'[l].version >= seen[l].version
      \/ seen'[l].fallback

LEMMA SendsNoStepBack ==
  ASSUME StatusIInv, [StatusNext]_statusVars
  PROVE  NoStepBack
<1> DEFINE Sent(l) == Sending /\ seen' = [seen EXCEPT ![l] = message]
<1>1. ASSUME NEW l \in Listener, Sent(l) PROVE NoStepBack
  <2>1. /\ seen'[l] = message
        /\ \A k \in Listener : k # l => seen'[k] = seen[k]
    BY <1>1 DEF StatusIInv, StatusTypeOK
  <2>2. message.fallback \/ seen[l].version <= message.version
    BY <1>1 DEF StatusIInv, SendsNewest
  <2>3. message.version \in Nat /\ seen[l].version \in Nat
    BY <1>1, StatusAssumption DEF StatusIInv, StatusTypeOK, Message, NoMessage, Sending, Queued
  <2> QED BY <2>1, <2>2, <2>3 DEF NoStepBack
<1>2. ASSUME NEW u \in Update, UpdateStep(u) PROVE NoStepBack
  <2>1. seen' = seen \/ \E l \in Listener : Sent(l)
    BY <1>2 DEF UpdateStep, Change, MembersTold, UpdateSkipped, UpdateBegins, UpdateSends,
       UpdateEnds, client, Sending, Queued
  <2> QED BY <1>1, <2>1 DEF NoStepBack
<1>3. ASSUME NEW l \in Listener, ListenerStep(l) PROVE NoStepBack
  <2>1. CASE ConnectListener(l)
    BY <2>1 DEF ConnectListener, NoStepBack, StatusIInv, StatusTypeOK
  <2>2. CASE ~ConnectListener(l)
    <3>1. seen' = seen \/ Sent(l)
      BY <1>3, <2>2 DEF ListenerStep, Greets, Greeted, Lose, CaptionFails, Leave, client, Sending,
         Queued
    <3> QED BY <1>1, <3>1 DEF NoStepBack
  <2> QED BY <2>1, <2>2
<1>4. ASSUME NEW s, ChangeQuietly(s) PROVE NoStepBack
  BY <1>4 DEF ChangeQuietly, client, NoStepBack
<1>5. CASE UNCHANGED statusVars
  BY <1>5 DEF statusVars, client, NoStepBack
<1> QED BY <1>2, <1>3, <1>4, <1>5 DEF StatusNext

-----------------------------------------------------------------------------
LEMMA SeatsKeepTypes ==
  ASSUME NEW p, LeaveAs(p), seat \in [Participant -> Socket \cup {Nowhere}]
  PROVE  seat' \in [Participant -> Socket \cup {Nowhere}]
  BY DEF LeaveAs, Unseated

LEMMA SocketKeepsTypes ==
  ASSUME SessionsTypeOK, BoothTypeOK', NEW s \in Socket, SocketStep(s)
  PROVE  SessionsTypeOK'
<1> USE DEF SessionsTypeOK, OnlyBooth, sessionVars
<1>1. ASSUME NEW g \in Role \cup {NoRole}, Connect(s, g) PROVE SessionsTypeOK'
  BY <1>1 DEF Connect
<1>2. ASSUME NEW named \in Participant \cup {NoOne}, NEW p \in Participant, NEW r \in Role,
             HandleJoin(s, named, p, r)
      PROVE  SessionsTypeOK'
  BY <1>2 DEF HandleJoin
<1>3. CASE HandleLeave(s)
  BY <1>3, SeatsKeepTypes DEF HandleLeave
<1>4. CASE OnlyBooth
  BY <1>4
<1>5. CASE Revoke(s) \/ CloseRevoked(s) \/ Drop(s)
  BY <1>5 DEF Revoke, CloseRevoked, Drop
<1>6. CASE Finally(s)
  BY <1>6, SeatsKeepTypes DEF Finally
<1>7. \/ \E g \in Role \cup {NoRole} : Connect(s, g)
      \/ \E named \in Participant \cup {NoOne}, p \in Participant, r \in Role :
           HandleJoin(s, named, p, r)
      \/ HandleLeave(s)
      \/ OnlyBooth
      \/ Revoke(s) \/ CloseRevoked(s) \/ Drop(s)
      \/ Finally(s)
  BY DEF SocketStep, HandleSetActive, HandleUpdateState, HandleInitiateHandoff, HandleAcceptHandoff,
     HandleCancelHandoff, HandleSetBroadcastUnlocked, HandleRefused
<1> QED BY <1>1, <1>2, <1>3, <1>4, <1>5, <1>6, <1>7

LEMMA SessionsKeepTypes ==
  ASSUME SessionsTypeOK, BoothTypeOK', [SessionsNext]_vars
  PROVE  SessionsTypeOK'
<1>1. CASE Snapshot \/ Overload \/ DeleteBooth \/ DeleteBoothV1
  BY <1>1 DEF Snapshot, Overload, DeleteBooth, DeleteBoothV1, OnlyBooth, sessionVars, SessionsTypeOK
<1>2. CASE UNCHANGED vars
  BY <1>2 DEF vars, sessionVars, SessionsTypeOK
<1> QED BY <1>1, <1>2, SocketKeepsTypes DEF SessionsNext

(* The two kinds of socket together, for each step of one of them.         *)
SocketsIInv == BoothInv /\ SessionsTypeOK /\ StatusIInv

LEMMA SocketsStepIsOne ==
  ASSUME [SocketsNext]_socketsVars
  PROVE  [SessionsNext]_vars /\ [StatusNext]_statusVars
  BY DEF SocketsNext, socketsVars

LEMMA SocketsInductive == SocketsSpec => []SocketsIInv
<1>1. SocketsInit => SocketsIInv
  BY BoothInitInv, StatusIInvAtFirst
     DEF SocketsInit, SessionsInit, SocketsIInv, SessionsTypeOK, BoothInv
<1>2. SocketsIInv /\ [SocketsNext]_socketsVars => SocketsIInv'
  <2> SUFFICES ASSUME SocketsIInv, [SocketsNext]_socketsVars PROVE SocketsIInv'
    OBVIOUS
  <2>1. [SessionsNext]_vars /\ [StatusNext]_statusVars
    BY SocketsStepIsOne
  <2>2. BoothInv'
    BY <2>1, SessionsStepIsBoothStep, BoothInvInductive DEF SocketsIInv
  <2>3. SessionsTypeOK'
    BY <2>1, <2>2, SessionsKeepTypes DEF SocketsIInv, BoothInv
  <2>4. StatusIInv'
    BY <2>1, StatusStepKeeps DEF SocketsIInv
  <2> QED BY <2>2, <2>3, <2>4 DEF SocketsIInv
<1> QED BY <1>1, <1>2, PTL DEF SocketsSpec

(* broadcast_booth_state and send_booth_state: with any listeners coming   *)
(* and going and any updates overlapping, waiting or skipped, once all are *)
(* through every listener that had one shows the registry's status.        *)
THEOREM SocketsHold == SocketsSpec => []SocketsInv
<1>1. SocketsIInv => SocketsInv
  BY SettledMeansAgreed DEF SocketsIInv, StatusIInv, SocketsInv
<1> QED BY <1>1, SocketsInductive, PTL

(* Under the lock of the booth no listener is told an older status after a *)
(* newer one, except for what an update falls back to once the booth has   *)
(* left the registry.                                                      *)
THEOREM StatusNeverBackwards == SocketsSpec => NeverBackwards
<1>1. SocketsIInv /\ [SocketsNext]_socketsVars => [NoStepBack]_statusVars
  BY SocketsStepIsOne, SendsNoStepBack DEF SocketsIInv
<1>2. SocketsSpec => [][NoStepBack]_statusVars
  BY <1>1, SocketsInductive, PTL DEF SocketsSpec
<1>3. [][NoStepBack]_statusVars => NeverBackwards
  BY PTL DEF NoStepBack, NeverBackwards
<1> QED BY <1>2, <1>3, PTL
=============================================================================
