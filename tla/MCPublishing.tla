---------------------------- MODULE MCPublishing ----------------------------
(* Who may publish, for TLC: the tickets of the booths, the floors and the  *)
(* relays.  The first two share only the hook that asks; a behaviour runs   *)
(* one of the three, of the floors either all of one room or what changes   *)
(* the count of two, and of the relays one request at a time.               *)
EXTENDS PublishTickets, FloorPublish, RelayService, TLC

R == INSTANCE Roles

MCRole == {"interpreter"}
MCGoLiveRole == MCRole \cap R!GoLiveRoles
MCSetActiveRole == MCRole \cap R!SetActiveRoles

VARIABLE which

allVars == <<publishVars, floorVars, relayVars, which>>

PublishingInit ==
  /\ TicketsInit /\ FloorInit /\ RelayInit
  /\ dest = [r \in Relayed |-> CHOOSE d \in Dest : TRUE]
  /\ which \in {"tickets", "floor", "floors", "relays"}

Counting ==
  \/ \E p \in Session : \/ \E r \in Room : Ask(p, r, "encoder")
                        \/ GoLive(p) \/ Drop(p)
                        \/ pub[p].at = "asking" /\ (AuthStart(p) \/ AuthReserve(p))
  \/ \E r \in Room : \/ \E op \in {"enable", "disable"} : Change(r, op)
                     \/ Configure(r) \/ Fails(r) \/ Grow(r)

PublishingNext ==
  /\ which' = which
  /\ \/ which = "tickets" /\ TicketsNext /\ UNCHANGED <<floorVars, relayVars>>
     \/ /\ which = "floor" /\ FloorNextIn({CHOOSE r \in Room : TRUE})
        /\ UNCHANGED <<publishVars, relayVars>>
     \/ which = "floors" /\ Counting /\ UNCHANGED <<publishVars, relayVars>>
     \/ /\ which = "relays" /\ RelayNext /\ \E k \in Handler : hand'[k] = NoHand
        /\ breaks' = breaks
        /\ UNCHANGED <<publishVars, floorVars>>

PublishingSpec == PublishingInit /\ [][PublishingNext]_allVars

MCSymmetry == Permutations(Participant) \cup Permutations(Session)
=============================================================================
