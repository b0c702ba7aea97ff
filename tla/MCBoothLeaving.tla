-------------------------- MODULE MCBoothLeaving --------------------------
(* BoothSessions for TLC with one role: where roles do not matter.         *)
EXTENDS BoothSessions

R == INSTANCE Roles

MCOneRole == {"room_coordinator"}
MCOneRank == [r \in MCOneRole |-> R!RoleRank[r]]
=============================================================================
