------------------------- MODULE MCSocketRevocation -------------------------
(* Who hears in a booth and who speaks there, for TLC.  They look at        *)
(* different state; a behaviour runs one of them.  Of sockets there are two *)
(* of one kind and one request, or one socket and two requests: nothing     *)
(* that is checked relates a socket of the account to one of the link.      *)
EXTENDS SocketRevocation, BoothConsent

R == INSTANCE Roles

\* Of the roles, which all may go live, three may set the active interpreter.
MCRole == {"room_coordinator", "interpreter"}
MCGoLiveRole == MCRole \cap R!GoLiveRoles
MCSetActiveRole == MCRole \cap R!SetActiveRoles

CONSTANT Second

VARIABLE which

allVars == <<revocationVars, consentVars, which>>

MCInit ==
  /\ ConsentInit /\ which \in {"sockets", "registry"}
  /\ Started /\ requests \in {0, 1}
  /\ which = "registry" => requests = 0
  /\ \E k \in Kinds :
       /\ socket = [s \in Sockets |-> IF s = Second /\ requests = 0 THEN Gone(NewSocket(k)) ELSE NewSocket(k)]
       /\ which = "registry" => k = "account"

MCNext ==
  /\ which' = which
  /\ \/ which = "sockets" /\ RevocationNext /\ UNCHANGED consentVars
     \/ which = "registry" /\ ConsentNext /\ UNCHANGED revocationVars

MCSpec == MCInit /\ [][MCNext]_allVars /\ RevocationFairness
=============================================================================
