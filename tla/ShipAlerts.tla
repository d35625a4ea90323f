----------------------------- MODULE ShipAlerts -----------------------------
(***************************************************************************)
(* What the commander is told of the ship: omnicovas/core/status_reader.py,*)
(* the Status, hull and shield handlers of omnicovas/core/handlers.py, and *)
(* omnicovas/features/{hull_triggers,fuel,heat_management}.py, over the    *)
(* session state (TelemetryState).                                         *)
(*                                                                         *)
(* The game tells its story twice.  It appends journal events, each of     *)
(* which becomes a task of its own that may overtake another, and it       *)
(* rewrites Status.json, which StatusReader polls and turns into a Status  *)
(* event and sub-events, dispatched one after the other.  Every dispatch   *)
(* suspends before its handlers run, so the two stories interleave.        *)
(*                                                                         *)
(* Quantities are levels between the thresholds of the code:               *)
(*   hull  0 below 10%, 1 below 25%, 2 above;                              *)
(*   fuel  0 below 0.25 t, 1 below 10% of capacity, 2 below 25%, 3 above;  *)
(*   heat  0 below 0.75, 1 below 0.80, 2 above.                            *)
(***************************************************************************)
EXTENDS Integers, Sequences, SequencesExt, NoValue

CONSTANTS
  Flights,      \* bound: what a ship may go through, see Flight
  MaxInFlight   \* bound: journal events written and not yet handled

Hull == 0 .. 2
Fuel == 0 .. 3
Heat == 0 .. 2

\* The levels a ship takes in one behaviour, and its journal events in flight.
Flight == [hull : SUBSET Hull, fuel : SUBSET Fuel, heat : SUBSET Heat,
           shield : SUBSET BOOLEAN, inFlight : 0 .. MaxInFlight]

ASSUME FlightsAssumption == Flights \subseteq Flight
ASSUME MaxInFlightAssumption == MaxInFlight \in Nat

INSTANCE TelemetryState WITH
  Fields <- {"hull", "fuel", "heat", "shield", "heatState", "capacity"},
  LiveFields <- {"fuel", "shield"}

VARIABLES
  flight,    \* what the ship of this behaviour goes through; it never changes
  ship,      \* the ship in the game
  file,      \* Status.json
  unread,    \* its timestamp is not the one of the poll begun last
  lastState, \* StatusReader._last_state
  polled,    \* the Status.json the poll under way has read
  todo,      \* the events the poll under way has yet to dispatch
  tasks,     \* journal events whose handlers have not run, oldest first
  st,        \* the session state
  prevHull,  \* hull_triggers: prev_holder
  prevHeat,  \* heat_management: prev_holder
  \* The variables below only observe the system.
  alerts,    \* what the last step published, in order
  armed      \* alerts whose quantity was shown beyond the threshold since the last one

game == <<flight, ship, file, unread>>
reader == <<lastState, polled, todo>>
app == <<st, prevHull, prevHeat>>
vars == <<game, reader, tasks, app, alerts, armed>>

Ship == [hull : Hull, fuel : Fuel, heat : Heat, shield : BOOLEAN]
StatusFile == [fuel : Fuel \cup {Missing}, heat : Heat \cup {Missing}, shield : BOOLEAN]
JournalEvent == [type : {"HullDamage", "Loadout"}, level : Hull]
                \cup [type : {"FSDJump", "FuelScoop"}, level : Fuel]
                \cup [type : {"RefuelAll", "RefuelPartial", "ShipyardSwap", "ShipDestroyed",
                              "ShieldsDown", "ShieldsUp", "HeatWarning", "HeatDamage"},
                      level : {0}]
StatusEvent == {"Status", "FuelLow", "HeatWarning", "ShieldDown"}
Alert == {"HULL_CRITICAL_25", "HULL_CRITICAL_10", "FUEL_LOW", "FUEL_CRITICAL",
          "HEAT_WARNING", "HEAT_DAMAGE", "SHIELDS_DOWN", "SHIELDS_UP"}

TypeOK ==
  /\ flight \in Flights
  /\ ship \in Ship
  /\ file \in StatusFile
  /\ unread \in BOOLEAN
  /\ lastState \in StatusFile \cup {Missing}
  /\ polled \in StatusFile \cup {Missing}
  /\ todo \in Seq(StatusEvent) /\ Len(todo) <= 4
  /\ tasks \in Seq(JournalEvent) /\ Len(tasks) <= MaxInFlight
  /\ st.value["hull"] \in Hull \cup {Missing}
  /\ st.value["fuel"] \in Fuel \cup {Missing}
  /\ st.value["heat"] \in Heat \cup {Missing}
  /\ st.value["shield"] \in BOOLEAN \cup {Missing}
  /\ st.value["heatState"] \in {"warning", "damage", Missing}
  /\ st.value["capacity"] \in {"known", Missing}
  /\ prevHull \in Hull \cup {Missing}
  /\ prevHeat \in Heat \cup {Missing}
  /\ alerts \in Seq(Alert)
  /\ armed \subseteq Alert

Init ==
  /\ flight \in Flights
  /\ ship \in [hull : flight.hull, fuel : flight.fuel, heat : flight.heat, shield : flight.shield]
  /\ file = [fuel |-> ship.fuel, heat |-> ship.heat, shield |-> ship.shield]
  /\ unread = TRUE
  /\ lastState = Missing /\ polled = Missing /\ todo = <<>>
  /\ tasks = <<>>
  /\ st = Fresh
  /\ prevHull = Missing /\ prevHeat = Missing
  /\ alerts = <<>> /\ armed = {}

\* A step that runs no handler publishes nothing.
Silent == alerts' = <<>> /\ UNCHANGED <<app, armed>>

-----------------------------------------------------------------------------
(* The game.                                                               *)

Event(type, level) == [type |-> type, level |-> level]

\* The quantity with these levels may change.
Varies(levels) == ~ \A a, b \in levels : a = b

\* The journal gets these events; each is soon a task of its own.
Write(events) ==
  /\ Len(tasks) + Len(events) <= flight.inFlight
  /\ tasks' = tasks \o events
  /\ UNCHANGED <<flight, file, unread, reader>>
  /\ Silent

HullHit(h) ==
  /\ Varies(flight.hull)
  /\ h <= ship.hull
  /\ ship' = [ship EXCEPT !.hull = h]
  /\ Write(<<Event("HullDamage", h)>>)

\* A repair or a change of modules is followed by Loadout.
Refit(h) ==
  /\ h >= ship.hull
  /\ ship' = [ship EXCEPT !.hull = h]
  /\ Write(<<Event("Loadout", h)>>)

\* Another ship, or a new one after the loss of this one.
ChangeShip(type, h) ==
  /\ Varies(flight.hull)
  /\ ship' = [ship EXCEPT !.hull = h]
  /\ Write(<<Event(type, 0), Event("Loadout", h)>>)

\* Fuel is burnt without a journal event.
BurnFuel(f) ==
  /\ Varies(flight.fuel)
  /\ f < ship.fuel
  /\ ship' = [ship EXCEPT !.fuel = f]
  /\ UNCHANGED <<flight, file, unread, reader, tasks>>
  /\ Silent

\* A jump or a scoop, whose event carries the new level.
MoveFuel(type, f) ==
  /\ Varies(flight.fuel)
  /\ IF type = "FSDJump" THEN f <= ship.fuel ELSE f >= ship.fuel
  /\ ship' = [ship EXCEPT !.fuel = f]
  /\ Write(<<Event(type, f)>>)

\* A refuel, whose event carries an amount.
Refuel(type, f) ==
  /\ Varies(flight.fuel)
  /\ f >= ship.fuel
  /\ type = "RefuelAll" => f = 3
  /\ ship' = [ship EXCEPT !.fuel = f]
  /\ Write(<<Event(type, 0)>>)

ChangeHeat(h) ==
  /\ Varies(flight.heat)
  /\ ship' = [ship EXCEPT !.heat = h]
  /\ UNCHANGED <<flight, file, unread, reader, tasks>>
  /\ Silent

\* The game reports an overheating ship in the journal.
ReportHeat(type) ==
  /\ Varies(flight.heat)
  /\ ship.heat = 2
  /\ UNCHANGED ship
  /\ Write(<<Event(type, 0)>>)

ToggleShield ==
  /\ Varies(flight.shield)
  /\ ship' = [ship EXCEPT !.shield = ~@]
  /\ Write(<<Event(IF ship.shield THEN "ShieldsDown" ELSE "ShieldsUp", 0)>>)

\* Status.json is rewritten, with a new timestamp or within the same second as
\* before; fuel and heat may be left out.
WriteStatus(newSecond, omit) ==
  /\ file' = [fuel |-> IF omit THEN Missing ELSE ship.fuel,
              heat |-> IF omit THEN Missing ELSE ship.heat,
              shield |-> ship.shield]
  /\ unread' = (unread \/ newSecond)
  /\ UNCHANGED <<flight, ship, reader, tasks>>
  /\ Silent

GameStep ==
  \/ \E h \in flight.hull :
       \/ HullHit(h) \/ Refit(h)
       \/ \E type \in {"ShipyardSwap", "ShipDestroyed"} : ChangeShip(type, h)
  \/ \E f \in flight.fuel : BurnFuel(f)
  \/ \E f \in flight.fuel, type \in {"FSDJump", "FuelScoop"} : MoveFuel(type, f)
  \/ \E f \in flight.fuel, type \in {"RefuelAll", "RefuelPartial"} : Refuel(type, f)
  \/ \E h \in flight.heat : ChangeHeat(h)
  \/ \E type \in {"HeatWarning", "HeatDamage"} : ReportHeat(type)
  \/ ToggleShield
  \/ \E newSecond, omit \in BOOLEAN : WriteStatus(newSecond, omit)

-----------------------------------------------------------------------------
(* StatusReader.                                                           *)

\* FuelMain is in tons and counts as 1.0 when it is left out.
ScarceFuel(s) == s.fuel # Missing /\ s.fuel = 0

\* Heat counts as 0.0 when it is left out.
Hot(s) == s.heat # Missing /\ s.heat >= 1

\* _detect_sub_events: none on the first read.
SubEvents(old, new) ==
  IF old = Missing THEN <<>>
  ELSE (IF ~ScarceFuel(old) /\ ScarceFuel(new) THEN <<"FuelLow">> ELSE <<>>)
       \o (IF ~Hot(old) /\ Hot(new) THEN <<"HeatWarning">> ELSE <<>>)
       \o (IF old.shield /\ ~new.shield THEN <<"ShieldDown">> ELSE <<>>)

\* _poll_once reads a Status.json with another timestamp.
Poll ==
  /\ polled = Missing
  /\ unread
  /\ unread' = FALSE
  /\ polled' = file
  /\ todo' = <<"Status">> \o SubEvents(lastState, file)
  /\ UNCHANGED <<flight, ship, file, lastState, tasks>>
  /\ Silent

\* The last event has been dispatched: the tracking state is updated.
PollDone ==
  /\ polled # Missing
  /\ todo = <<>>
  /\ lastState' = polled
  /\ polled' = Missing
  /\ UNCHANGED <<game, todo, tasks>>
  /\ Silent

-----------------------------------------------------------------------------
(* Handlers.  Each returns the alerts it publishes.                        *)

When(condition, alert) == IF condition THEN <<alert>> ELSE <<>>

\* Mutant: a reading below the threshold will do.
FallsAnyhow(old, new, threshold) == old # Missing /\ new < threshold

\* A reading falls through a threshold.
Falls(old, new, threshold) == old # Missing /\ old >= threshold /\ new < threshold

\* Mutant: an alert that event_types.py does not know.
HullAlertsMisnamed(prev, h) == When(Falls(prev, h, 2), "HULL_CRITICAL")

\* hull_triggers.handle_hull_damage compares with the HullDamage before.
HullAlerts(prev, h) ==
  When(Falls(prev, h, 2), "HULL_CRITICAL_25") \o When(Falls(prev, h, 1), "HULL_CRITICAL_10")

\* Mutant: a first reading counts as a fall from a full tank.
FuelAlertsOnFirst(prev, f) ==
  IF st.value["capacity"] = Missing THEN <<>>
  ELSE When((prev = Missing \/ prev >= 3) /\ f < 3, "FUEL_LOW")

\* fuel._check_thresholds: nothing without a capacity, and one alert at most.
FuelAlerts(prev, f) ==
  IF st.value["capacity"] = Missing THEN <<>>
  ELSE IF Falls(prev, f, 2) THEN <<"FUEL_CRITICAL">>
  ELSE When(Falls(prev, f, 3), "FUEL_LOW")

\* Mutant: the reading before is compared with the other threshold.
HeatAlertsMixed(prev, h) == When((prev = Missing \/ prev < 1) /\ h = 2, "HEAT_WARNING")

\* heat_management.handle_status_heat: the first reading may warn too.
HeatAlerts(prev, h) == When((prev = Missing \/ prev < 2) /\ h = 2, "HEAT_WARNING")

\* The state s shows the quantity of alert a beyond its threshold: the alert may
\* be due again.
Recovered(s, a) ==
  CASE a = "HULL_CRITICAL_25" -> s.value["hull"] \in {2}
    [] a = "HULL_CRITICAL_10" -> s.value["hull"] \in {1, 2}
    [] a = "FUEL_LOW" -> s.value["fuel"] \in {3}
    [] a = "FUEL_CRITICAL" -> s.value["fuel"] \in {2, 3}
    [] a = "HEAT_WARNING" -> s.value["heat"] \in {0, 1}
    [] OTHER -> FALSE

\* A handler leaves the state s and publishes these alerts.
Handle(s, published) ==
  /\ st' = s
  /\ alerts' = published
  /\ armed' = (armed \ ToSet(published)) \cup {a \in Alert : Recovered(s, a)}

HandleHullDamage(e) ==
  /\ e.type = "HullDamage"
  /\ Handle(Put(st, "hull", e.level, Journal), HullAlerts(prevHull, e.level))
  /\ prevHull' = e.level

\* Loadout re-grounds the hull and the fuel capacity.
HandleLoadout(e) ==
  /\ e.type = "Loadout"
  /\ Handle(Put(Put(st, "hull", e.level, Journal), "capacity", "known", Journal), <<>>)
  /\ UNCHANGED prevHull

\* A swap clears what belongs to the ship, but not its fuel and fuel capacity.
HandleShipyardSwap(e) ==
  /\ e.type = "ShipyardSwap"
  /\ Handle(Put(st, "hull", Missing, Journal), <<>>)
  /\ UNCHANGED prevHull

HandleShipDestroyed(e) ==
  /\ e.type = "ShipDestroyed"
  /\ Handle(Put(Put(st, "hull", Missing, Journal), "shield", Missing, Journal), <<>>)
  /\ UNCHANGED prevHull

HandleHull(e) ==
  HandleHullDamage(e) \/ HandleLoadout(e) \/ HandleShipyardSwap(e) \/ HandleShipDestroyed(e)

\* The level a refuel by an amount leads to: the capacity if all was refuelled
\* and it is known, otherwise something on top of the level shown.
RefuelledTo(type) ==
  IF type = "RefuelAll" /\ st.value["capacity"] # Missing THEN {3}
  ELSE IF st.value["fuel"] = Missing THEN Fuel
  ELSE st.value["fuel"] .. 3

\* The journal events about the fuel.
HandleFuel(e) ==
  \E f \in IF e.type \in {"FSDJump", "FuelScoop"} THEN {e.level} ELSE RefuelledTo(e.type) :
    /\ e.type \in {"FSDJump", "FuelScoop", "RefuelAll", "RefuelPartial"}
    /\ Handle(Put(st, "fuel", f, Journal), FuelAlerts(st.value["fuel"], f))
    /\ UNCHANGED prevHull

HandleShields(e) ==
  /\ \/ e.type = "ShieldsDown" /\ Handle(Put(st, "shield", FALSE, Journal), <<"SHIELDS_DOWN">>)
     \/ e.type = "ShieldsUp" /\ Handle(Put(st, "shield", TRUE, Journal), <<"SHIELDS_UP">>)
  /\ UNCHANGED prevHull

HandleHeat(e) ==
  /\ \/ e.type = "HeatWarning" /\ Handle(Put(st, "heatState", "warning", Journal),
                                         <<"HEAT_WARNING">>)
     \/ e.type = "HeatDamage" /\ Handle(Put(st, "heatState", "damage", Journal),
                                        <<"HEAT_DAMAGE">>)
  /\ UNCHANGED prevHull

\* The recorders are done with a journal event: its handlers run.
HandleTask(n) ==
  /\ \/ HandleHull(tasks[n]) \/ HandleFuel(tasks[n])
     \/ HandleShields(tasks[n]) \/ HandleHeat(tasks[n])
  /\ tasks' = RemoveAt(tasks, n)
  /\ UNCHANGED <<game, reader, prevHeat>>

\* A field that Status.json left out is not updated.
PutReading(s, f, v) == IF v = Missing THEN s ELSE Put(s, f, v, StatusJson)

\* Mutant: the shields are left to the sub-event.
HandleStatusNoShield ==
  /\ todo # <<>>
  /\ Head(todo) = "Status"
  /\ Handle(PutReading(PutReading(st, "fuel", polled.fuel), "heat", polled.heat),
            IF polled.heat = Missing THEN <<>> ELSE HeatAlerts(prevHeat, polled.heat))
  /\ prevHeat' = IF polled.heat = Missing THEN prevHeat ELSE polled.heat
  /\ todo' = Tail(todo)
  /\ UNCHANGED <<game, lastState, polled, tasks, prevHull>>

\* handle_status, then handle_status_heat.
HandleStatus ==
  /\ todo # <<>>
  /\ Head(todo) = "Status"
  /\ LET read == PutReading(PutReading(st, "fuel", polled.fuel), "heat", polled.heat)
         warning == IF polled.heat = Missing THEN <<>> ELSE HeatAlerts(prevHeat, polled.heat)
     IN Handle(Put(read, "shield", polled.shield, StatusJson), warning)
  /\ prevHeat' = IF polled.heat = Missing THEN prevHeat ELSE polled.heat
  /\ todo' = Tail(todo)
  /\ UNCHANGED <<game, lastState, polled, tasks, prevHull>>

\* The sub-events: FuelLow is only logged; HeatWarning has the journal event's
\* name and runs its handler; ShieldDown sets the shields down again.
HandleSubEvent ==
  /\ todo # <<>>
  /\ \/ Head(todo) = "FuelLow" /\ Handle(st, <<>>)
     \/ Head(todo) = "HeatWarning" /\ Handle(Put(st, "heatState", "warning", Journal),
                                             <<"HEAT_WARNING">>)
     \/ Head(todo) = "ShieldDown" /\ Handle(Put(st, "shield", FALSE, StatusJson),
                                            <<"SHIELDS_DOWN">>)
  /\ todo' = Tail(todo)
  /\ UNCHANGED <<game, lastState, polled, tasks, prevHull, prevHeat>>

AppStep ==
  \/ Poll \/ HandleStatus \/ HandleSubEvent \/ PollDone
  \/ \E n \in 1 .. MaxInFlight : n <= Len(tasks) /\ HandleTask(n)

Next == GameStep \/ AppStep

Spec == Init /\ [][Next]_vars

\* The loop polls and runs every task; a flying ship rewrites Status.json again
\* and again, with new timestamps and all of its fields.
Fairness ==
  /\ WF_vars(Poll \/ HandleStatus \/ HandleSubEvent \/ PollDone)
  /\ WF_vars(\E n \in 1 .. MaxInFlight : n <= Len(tasks) /\ HandleTask(n))
  /\ WF_vars(WriteStatus(TRUE, FALSE))

FairSpec == Spec /\ Fairness

-----------------------------------------------------------------------------
(* Properties.                                                             *)

Threshold == {"HULL_CRITICAL_25", "HULL_CRITICAL_10", "FUEL_LOW", "FUEL_CRITICAL"}

\* A threshold alert of hull or fuel is never repeated, nor raised on a first
\* reading: the quantity was shown beyond the threshold since the last one, even
\* when events overtake one another or Status.json writes in between.
NoUnfoundedAlert == [][ToSet(alerts') \cap Threshold \subseteq armed]_vars

\* Heat that is shown to rise above the warning level is always announced.
HeatAnnounced ==
  [][(st.value["heat"] # 2 /\ st'.value["heat"] = 2) => "HEAT_WARNING" \in ToSet(alerts')]_vars

\* What is shown of the shields settles on the truth once the ship does, whichever
\* of the two stories came last.
ShieldSettles ==
  \A b \in BOOLEAN : <>[](ship.shield = b) => <>[](st.value["shield"] = b)

\* So does the fuel, once the journal is quiet and Status.json names it: a refuel
\* may be counted twice, but Status.json has the last word.
FuelSettles ==
  \A f \in Fuel :
    <>[](ship.fuel = f /\ tasks = <<>> /\ file.fuel # Missing) => <>[](st.value["fuel"] = f)
=============================================================================
