---------------------------- MODULE MCShipAlerts ----------------------------
(* ShipAlerts, and a claim of the code's comments. *)
EXTENDS ShipAlerts, TLC

\* A ship of which one quantity changes.
Steady == [hull |-> {2}, fuel |-> {3}, heat |-> {0}, shield |-> {TRUE},
           inFlight |-> 2]
HullFlight == [Steady EXCEPT !.hull = Hull]
ShieldFlight == [Steady EXCEPT !.shield = BOOLEAN]

LiveFlights == {[Steady EXCEPT !.fuel = {1, 2, 3}, !.inFlight = 1], ShieldFlight,
                [Steady EXCEPT !.heat = {0, 2}, !.inFlight = 1]}
HullFlights == {[HullFlight EXCEPT !.inFlight = 1]}

\* omnicovas/core/event_types.py: "HULL_CRITICAL_* fire exactly once per downward
\* threshold crossing"; here of events that are handled in order.
HullCrossingAnnounced ==
  [][(/\ tasks # <<>> /\ tasks' = Tail(tasks) /\ Head(tasks).type = "HullDamage"
      /\ prevHull # Missing /\ Falls(st.value["hull"], st'.value["hull"], 2)) =>
       "HULL_CRITICAL_25" \in ToSet(alerts')]_vars
=============================================================================
