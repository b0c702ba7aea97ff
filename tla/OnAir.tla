------------------------------- MODULE OnAir -------------------------------
(***************************************************************************)
(* What a booth promises its listeners, whatever the interpreters click:   *)
(* one microphone, held by one member, and nobody else on the air.  The    *)
(* state is the microphone's holder, the members who could hold it and the *)
(* members who are on the air.  How the microphone changes hands (offers,  *)
(* requests, reassignments, disconnections) is BoothRegistry's business.   *)
(***************************************************************************)
CONSTANTS Member, Nobody

VARIABLES eligible,     \* the members who may hold the microphone now
          holder,       \* the member who holds it, or Nobody
          live          \* the members on the air

onAirVars == <<eligible, holder, live>>

OnAirTypeOK ==
  /\ eligible \subseteq Member
  /\ holder \in Member \cup {Nobody}
  /\ live \subseteq Member

(***************************************************************************)
(* A microphone nobody holds is a microphone nobody wants.                 *)
(***************************************************************************)
Attended == holder = Nobody => eligible = {}

OnAirInit ==
  /\ eligible = {}
  /\ holder = Nobody
  /\ live = {}

(* A member arrives, or comes back silent; a free microphone is theirs if  *)
(* they may hold it.                                                       *)
Arrive(m) ==
  /\ \/ eligible' = eligible \cup {m}
     \/ eligible' = eligible \ {m}
  /\ holder' = IF holder = Nobody /\ m \in eligible' THEN m ELSE holder
  /\ live' = live \ {m}

(* A member goes: the microphone of a holder passes to a remaining member, *)
(* who is not on the air yet.                                              *)
Depart(m) ==
  /\ eligible' = eligible \ {m}
  /\ live' = live \ {m}
  /\ IF holder = m
       THEN \/ holder' \in eligible'
            \/ eligible' = {} /\ holder' = Nobody
       ELSE UNCHANGED holder

(* The microphone passes: only the new holder may stay on the air, and it  *)
(* was on the air only if it already held the microphone.                  *)
Pass(m) ==
  /\ holder # Nobody
  /\ holder' = m
  /\ live' = live \cap {m}
  /\ UNCHANGED eligible

(* The holder opens or closes its microphone.                              *)
Speak ==
  /\ holder # Nobody
  /\ live' \subseteq {holder}
  /\ UNCHANGED <<eligible, holder>>

(* The room is stopped, or the booth is removed with everybody in it.      *)
Silence ==
  /\ live' = {}
  /\ UNCHANGED <<eligible, holder>>

Dissolve ==
  /\ eligible' = {}
  /\ holder' = Nobody
  /\ live' = {}

OnAirNext ==
  \/ \E m \in Member : Arrive(m) \/ Depart(m) \/ Pass(m)
  \/ Speak
  \/ Silence
  \/ Dissolve

OnAirSpec == OnAirInit /\ [][OnAirNext]_onAirVars

(***************************************************************************)
(* The promise: whoever is on the air holds the microphone.                *)
(***************************************************************************)
OneVoice == live \subseteq {holder}
=============================================================================
