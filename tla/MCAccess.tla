------------------------------ MODULE MCAccess ------------------------------
(* Who is given access, for TLC: to the platform, to an event, to an event  *)
(* through an app, and how often somebody may try.  They share no rows      *)
(* here; a behaviour runs one of them.                                      *)
EXTENDS HostingAccess, OAuthGrants, EventTeam, RequestLimits, TLC

VARIABLE which

(* Two call sites: one short window, one longer than the sweep's interval.  *)
MCWindow == [k \in Key |-> IF k = CHOOSE x \in Key : TRUE THEN SweepInterval ELSE SweepInterval + 1]

(* The parts that do not run stay at one initial state.                     *)
AccessInit ==
  /\ HostingInit /\ OAuthInit /\ TeamInit /\ LimitsInit
  /\ which \in {"hosting", "apps", "team", "requests", "codes"}
  /\ which # "hosting" => account = [u \in Account |-> [Member EXCEPT !.admin = TRUE]]
  /\ which # "apps" => client = [c \in Client |-> "none"] /\ owner = {} /\ approved
  /\ which # "team" => role = [u \in User |-> IF u = CHOOSE x \in User : TRUE THEN "event_owner" ELSE ""]

AccessNext ==
  /\ which' = which
  /\ \/ which = "hosting" /\ HostingNext /\ UNCHANGED <<oauthVars, teamVars, limitVars>>
     \/ which = "apps" /\ OAuthNext /\ UNCHANGED <<hostingVars, teamVars, limitVars>>
     \/ which = "team" /\ TeamNext /\ UNCHANGED <<hostingVars, oauthVars, limitVars>>
     \/ which = "requests" /\ RatesNext /\ UNCHANGED <<hostingVars, oauthVars, teamVars>>
     \/ which = "codes" /\ CodesNext /\ UNCHANGED <<hostingVars, oauthVars, teamVars>>

AccessSpec == AccessInit /\ [][AccessNext]_<<hostingVars, oauthVars, teamVars, limitVars, which>>

MCSymmetry == Permutations(Account) \cup Permutations(Handler) \cup Permutations(Caller) \cup Permutations(Request)
=============================================================================
