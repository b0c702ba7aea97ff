---------------------------- MODULE MCTenancy ----------------------------
(* Events, rooms and booths for TLC: their rows, and what a room offers.    *)
(* The two look at different state; a behaviour runs one of them.           *)
EXTENDS EventRows, RoomSetup, TLC

VARIABLE which

allVars == <<rowsVars, setupVars, which>>

TenancyInit == RowsInit /\ SetupInit /\ which \in {"rows", "setup"}

TenancyNext ==
  /\ which' = which
  /\ \/ which = "rows" /\ RowsNext /\ UNCHANGED setupVars
     \/ which = "setup" /\ SetupNext /\ UNCHANGED rowsVars

TenancySpec == TenancyInit /\ [][TenancyNext]_allVars

MCSymmetry == Permutations(Request) \cup Permutations(Event)
                \cup Permutations(Room) \cup Permutations(Booth)
=============================================================================
