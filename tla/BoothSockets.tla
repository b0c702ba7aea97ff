---------------------------- MODULE BoothSockets ----------------------------
(* The two kinds of booth socket: the sessions of those who speak and the   *)
(* status its listeners are told.  They share no state; a behaviour runs    *)
(* one of them.                                                             *)
EXTENDS BoothSessions, ListenerStatus

VARIABLE which

SocketsInit == SessionsInit /\ StatusInit /\ which \in {"sessions", "listeners"}

SocketsNext ==
  /\ which' = which
  /\ \/ which = "sessions" /\ SessionsNext /\ UNCHANGED statusVars
     \/ which = "listeners" /\ StatusNext /\ UNCHANGED vars

socketsVars == <<vars, statusVars, which>>

SocketsSpec == SocketsInit /\ [][SocketsNext]_socketsVars

(* Types, and whoever has had an update shows the registry's status when   *)
(* all is quiet.                                                           *)
SocketsInv ==
  /\ SessionsTypeOK
  /\ StatusTypeOK
  /\ UpdatedListenersAgree
=============================================================================
