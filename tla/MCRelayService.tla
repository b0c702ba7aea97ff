---------------------------- MODULE MCRelayService ----------------------------
(* The relay for TLC: one room, its destination stored before the portal    *)
(* starts.  That a room has none yet is reached by clearing it; which of    *)
(* the destinations it has makes no difference.                             *)
EXTENDS RelayService

RelayStoredInit == RelayInit /\ dest = [r \in Relayed |-> CHOOSE d \in Dest : TRUE]

RelayStoredSpec == RelayStoredInit /\ [][RelayNext]_relayVars /\ RelayFairness
===============================================================================
