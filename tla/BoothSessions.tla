--------------------------- MODULE BoothSessions ---------------------------
(***************************************************************************)
(* The WebSocket sessions of one booth (portal/websockets/handlers.py and  *)
(* the _handle_* functions of manager.py) in front of its registry: each   *)
(* socket's session remembers the participant it joined as, its role is    *)
(* fixed when it connects and is taken away by a revocation, and whatever  *)
(* ends its receive loop makes its participant leave, in a later step.     *)
(*                                                                         *)
(* A handler runs from the revocation check to the end of its registry     *)
(* call without suspending, so check, call and session update are one      *)
(* action. How authorization is checked is external: Connect resolves any  *)
(* role, and Revoke may strike any session at any moment.                  *)
(***************************************************************************)
EXTENDS BoothRegistry, Integers

CONSTANTS Socket,      \* WebSocket connections; a closed one may be used again
          Nowhere,     \* no socket
          Rank         \* ROLE_RANK of portal/roles.py

ASSUME SessionsAssumption ==
  /\ Nowhere \notin Socket
  /\ Rank \in [Role -> Int]

VARIABLES
  conn,      \* "closed", "open" (in the receive loop) or "closing" (finally is due)
  pid,       \* session.participant_id
  granted,   \* session.granted_role, NoRole when None
  revoked,   \* session.revoked
  seat       \* history: the socket whose booth:join made a participant's record

sessionVars == <<conn, pid, granted, revoked>>
vars == <<boothVars, sessionVars, seat>>

SessionsTypeOK ==
  /\ BoothTypeOK
  /\ conn \in [Socket -> {"closed", "open", "closing"}]
  /\ pid \in [Socket -> Participant \cup {NoOne}]
  /\ granted \in [Socket -> Role \cup {NoRole}]
  /\ revoked \in [Socket -> BOOLEAN]
  /\ seat \in [Participant -> Socket \cup {Nowhere}]

SessionsInit ==
  /\ BoothInit
  /\ conn = [s \in Socket |-> "closed"]
  /\ pid = [s \in Socket |-> NoOne]
  /\ granted = [s \in Socket |-> NoRole]
  /\ revoked = [s \in Socket |-> FALSE]
  /\ seat = [p \in Participant |-> Nowhere]

-----------------------------------------------------------------------------
(* slip: the receive loop does not look at session.revoked *)
AttendingUnchecked(s) == conn[s] = "open"

(* The receive loop of s takes a message and finds the session not revoked.*)
Attending(s) == conn[s] = "open" /\ ~revoked[s]

Joined(s) == Attending(s) /\ pid[s] # NoOne

(* A handler whose only effect outside its session is its registry call.   *)
OnlyBooth == UNCHANGED <<sessionVars, seat>>

Unseated(p) == seat' = [seat EXCEPT ![p] = Nowhere]

(* slip: the participant of a socket that ends stays *)
LeaveAsNothing(p) == Touch /\ UNCHANGED seat

(* leave_participant of whoever the session remembers, present or not.     *)
LeaveAs(p) ==
  \/ LeaveParticipant(p) /\ Unseated(p)
  \/ p \notin participants /\ Touch /\ UNCHANGED seat

(* ws_booth up to manager.add: the socket is registered with the role      *)
(* resolved for it, possibly none.                                         *)
Connect(s, g) ==
  /\ conn[s] = "closed"
  /\ conn' = [conn EXCEPT ![s] = "open"]
  /\ granted' = [granted EXCEPT ![s] = g]
  /\ UNCHANGED <<boothVars, pid, revoked, seat>>

(* _handle_join. The client may name an identifier; it gets it if nobody   *)
(* present has it or if this session already holds it, and otherwise, or   *)
(* when it names none, one that has never been handed out (uuid4).         *)
JoinAs(s, named, p) ==
  IF named # NoOne /\ (named \notin participants \/ named = pid[s])
    THEN p = named
    ELSE p \notin participants \cup {pid[t] : t \in Socket}

HandleJoin(s, named, p, r) ==
  /\ Attending(s)
  /\ granted[s] # NoRole
  /\ Rank[granted[s]] >= Rank[r]
  /\ JoinAs(s, named, p)
  /\ JoinParticipant(p, r, named = pid[s])
  /\ pid' = [pid EXCEPT ![s] = p]
  /\ seat' = [seat EXCEPT ![p] = s]
  /\ UNCHANGED <<conn, granted, revoked>>

(* _handle_leave                                                           *)
HandleLeave(s) ==
  /\ Joined(s)
  /\ LeaveAs(pid[s])
  /\ pid' = [pid EXCEPT ![s] = NoOne]
  /\ UNCHANGED <<conn, granted, revoked>>

HandleSetActive(s, target) ==
  Joined(s) /\ SetActiveInterpreter(pid[s], target) /\ OnlyBooth

HandleUpdateState(s, mic, ingest) ==
  Joined(s) /\ UpdateParticipantState(pid[s], mic, ingest) /\ OnlyBooth

HandleInitiateHandoff(s) == Joined(s) /\ InitiateHandoff(pid[s]) /\ OnlyBooth
HandleAcceptHandoff(s)   == Joined(s) /\ AcceptHandoff(pid[s]) /\ OnlyBooth
HandleCancelHandoff(s)   == Joined(s) /\ CancelHandoff(pid[s]) /\ OnlyBooth

(* _handle_set_broadcast_unlocked: Mission Control, which does not join.   *)
(* A Stop goes on to stop the booth's transcription, a request of          *)
(* TranscriptionWorkers.                                                   *)
HandleSetBroadcastUnlocked(s, u) ==
  /\ Attending(s)
  /\ granted[s] \in SetActiveRole
  /\ SetBroadcastUnlocked(u)
  /\ OnlyBooth

(* Any handler whose registry call raises or only reads.                   *)
HandleRefused(s) == Joined(s) /\ Touch /\ OnlyBooth

(* revoke_session, revoke_user_sessions, revoke_token_sessions and the     *)
(* pull layer of broadcast: the session loses its role where it stands.    *)
Revoke(s) ==
  /\ conn[s] # "closed"
  /\ granted' = [granted EXCEPT ![s] = NoRole]
  /\ revoked' = [revoked EXCEPT ![s] = TRUE]
  /\ UNCHANGED <<boothVars, conn, pid, seat>>

(* close_session, which every revocation goes on to call, or the receive   *)
(* loop finding the session revoked: the loop ends.                        *)
CloseRevoked(s) ==
  /\ conn[s] = "open" /\ revoked[s]
  /\ conn' = [conn EXCEPT ![s] = "closing"]
  /\ UNCHANGED <<boothVars, pid, granted, revoked, seat>>

(* The peer goes away, or a send to it fails.                              *)
Drop(s) ==
  /\ conn[s] = "open"
  /\ conn' = [conn EXCEPT ![s] = "closing"]
  /\ UNCHANGED <<boothVars, pid, granted, revoked, seat>>

(* The finally clause of ws_booth.                                         *)
Finally(s) ==
  /\ conn[s] = "closing"
  /\ \/ pid[s] # NoOne /\ LeaveAs(pid[s])
     \/ pid[s] = NoOne /\ UNCHANGED <<boothVars, seat>>
  /\ conn' = [conn EXCEPT ![s] = "closed"]
  /\ pid' = [pid EXCEPT ![s] = NoOne]
  /\ granted' = [granted EXCEPT ![s] = NoRole]
  /\ revoked' = [revoked EXCEPT ![s] = FALSE]

(* What reaches the registry without a socket: the booth page's snapshot,  *)
(* transcription reporting an overload, and the two kinds of deletion.     *)
Snapshot == Touch /\ OnlyBooth

Overload == ReportOverload /\ OnlyBooth

(* The portal's DELETE booth endpoints: the booth goes, its sockets stay.  *)
DeleteBooth ==
  /\ RemoveBooth
  /\ seat' = [p \in Participant |-> Nowhere]
  /\ UNCHANGED sessionVars

(* API v1: deleting an event, a room or a language is refused (409) while  *)
(* a booth of it is "connected".                                           *)
DeleteBoothV1 ==
  /\ ingestStatus # "connected"
  /\ DeleteBooth

-----------------------------------------------------------------------------
SocketStep(s) ==
  \/ \E g \in Role \cup {NoRole} : Connect(s, g)
  \/ \E named \in Participant \cup {NoOne}, p \in Participant, r \in Role :
       HandleJoin(s, named, p, r)
  \/ HandleLeave(s)
  \/ \E target \in Participant : HandleSetActive(s, target)
  \/ \E mic, ingest \in Flag : HandleUpdateState(s, mic, ingest)
  \/ HandleInitiateHandoff(s)
  \/ HandleAcceptHandoff(s)
  \/ HandleCancelHandoff(s)
  \/ \E u \in BOOLEAN : HandleSetBroadcastUnlocked(s, u)
  \/ HandleRefused(s)
  \/ Revoke(s)
  \/ CloseRevoked(s)
  \/ Drop(s)
  \/ Finally(s)

SessionsNext ==
  \/ \E s \in Socket : SocketStep(s)
  \/ Snapshot
  \/ Overload
  \/ DeleteBooth
  \/ DeleteBoothV1

SessionsSpec == SessionsInit /\ [][SessionsNext]_vars

(* The event loop runs every close it has scheduled and every finally      *)
(* clause that is due; nothing else is promised.                           *)
Fairness == \A s \in Socket : WF_vars(CloseRevoked(s)) /\ WF_vars(Finally(s))

FairSessionsSpec == SessionsSpec /\ Fairness

-----------------------------------------------------------------------------
(* The handlers use the registry only through its methods.                 *)
UsesRegistry == BoothSpec

(* Nobody goes on the air unless a session that is joined as them, and has *)
(* not been revoked, says so: a revoked or closing socket can no longer    *)
(* speak for its participant, even though that participant is still in the *)
(* booth and may be handed the active slot in the meantime.                *)
onAir == micActive \cup ingestConnected

Vouched ==
  \A p \in onAir' \ onAir :
    \E s \in Socket : conn[s] = "open" /\ ~revoked[s] /\ pid[s] = p

VoiceNeedsSession == [][Vouched]_vars

(* The participant of a socket that is revoked or gone leaves the booth,   *)
(* and with it the air and the active slot, even if the participant is     *)
(* deleted and joined again by others in between.                          *)
GoneMeansLeft ==
  \A s \in Socket, p \in Participant :
    (revoked[s] \/ conn[s] = "closing") /\ pid[s] = p /\ seat[p] = s
      ~> p \notin participants \/ seat[p] # s
=============================================================================
