--------------------------- MODULE MCBoothSockets ---------------------------
(* Booth sockets for TLC.  The roles are one that may reassign the slot and *)
(* one that may not, with the ranks and permissions of portal/roles.py.     *)
EXTENDS BoothSockets, TLC

R == INSTANCE Roles

MCRole == {"room_coordinator", "interpreter"}
MCGoLiveRole == MCRole \cap R!GoLiveRoles
MCSetActiveRole == MCRole \cap R!SetActiveRoles
MCRank == [r \in MCRole |-> R!RoleRank[r]]

MCSymmetry ==
  Permutations(Participant) \cup Permutations(Socket) \cup Permutations(Listener) \cup Permutations(Update)
=============================================================================
