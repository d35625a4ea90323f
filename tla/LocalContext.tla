---------------------------- MODULE LocalContext ----------------------------
(***************************************************************************)
(* Where the commander is, and what of it is still true:                   *)
(* omnicovas/features/local_context_facts.py, local_state_hydration.py and *)
(* the travel handlers of core/handlers.py.                                *)
(*                                                                         *)
(* Three stories meet in the session state: journal lines, whose handlers  *)
(* may overtake one another; the Docked flag of Status.json; and a repair  *)
(* pass that every request runs, which reads the journal files themselves, *)
(* ahead of the handlers, and fills what is missing.  A request then puts  *)
(* labels of freshness on what it shows.                                   *)
(*                                                                         *)
(* Market.json, Outfitting.json and Shipyard.json are written alike; one   *)
(* file stands for them.  A station's name stands for its MarketID.        *)
(***************************************************************************)
EXTENDS JournalTasks, NoValue

CONSTANTS
  Systems,
  Port, Carrier, \* a station at PortSystem, and one that moves
  PortSystem,
  MaxTravel      \* bound: journal lines, those of earlier sessions included

Station == {Port, Carrier}

Whereabouts == [system : Systems, station : Station \cup {Missing}]
SystemContext == [system : Systems, ts : 1 .. MaxTravel]

ASSUME TravelAssumption ==
  /\ MaxTravel \in Nat \ {0} /\ PortSystem \in Systems
  /\ Missing \notin Systems \cup Station \cup Whereabouts \cup SystemContext

Flags == {"docked", "supercruise", "wanted"}
Places == {"system", "station", "systemCtx", "stationCtx"}

Registers == INSTANCE TelemetryState WITH Fields <- Flags \cup Places, LiveFields <- {}

VARIABLES
  at,      \* the commander's system and station
  carrier, \* the system the carrier is in
  screen,  \* the snapshot written when a station's screen was opened last
  flag,    \* the Docked flag of a Status event under way
  session, \* the session state
  jumpedTo, \* extended_events: last_system_holder
  reply    \* what the last step answered to a request

galaxy == <<at, carrier, screen, lines>>
travelVars == <<galaxy, waiting, flag, session, jumpedTo, reply, inOrder>>

\* What the code takes for becoming wanted: a crime of the commander, and a Bounty line,
\* which the game writes when he is paid one for a kill.
Offence == {"CommitCrime", "Bounty"}

TravelLine == [type : {"Location", "Docked", "Undocked", "FSDJump", "CarrierJump"} \cup Offence,
               system : Systems, station : Station \cup {Missing}]
Label == {"fresh", "stale", "last_known", "not_loaded", "market_snapshot_only",
          "commander_observed"}

TravelTypeOK ==
  /\ at \in Whereabouts /\ carrier \in Systems
  /\ screen \in Whereabouts \cup {Missing}
  /\ lines \in Seq(TravelLine) /\ Len(lines) <= MaxTravel
  /\ \A n \in DOMAIN waiting : waiting[n] \in DOMAIN lines
  /\ flag \in BOOLEAN \cup {Missing}
  /\ \A f \in Flags : session.value[f] \in BOOLEAN \cup {Missing}
  /\ session.value["system"] \in Systems \cup {Missing}
  /\ session.value["station"] \in Station \cup {Missing}
  /\ session.value["stationCtx"] \in Whereabouts \cup {Missing}
  /\ session.value["systemCtx"] \in SystemContext \cup {Missing}
  /\ reply \in {Missing} \cup [station : Label, system : Label, services : Label,
                               market : Label, outfitting : Label]
  /\ jumpedTo \in Systems \cup {Missing} /\ inOrder \in BOOLEAN

Place(system, station) == [system |-> system, station |-> station]
Entry(type, place) == [type |-> type, system |-> place.system, station |-> place.station]

\* An earlier session may have left a line, since when the commander moved.
TravelInit ==
  /\ carrier = PortSystem
  /\ at \in {Place(s, Missing) : s \in Systems} \cup {Place(PortSystem, port) : port \in Station}
  /\ screen = Missing
  /\ lines \in {<<>>} \cup {<<Entry("Docked", Place(PortSystem, port))>> : port \in Station}
  /\ waiting = <<>> /\ flag = Missing /\ inOrder = TRUE
  /\ session = Registers!Fresh /\ jumpedTo = Missing
  /\ reply = Missing

-----------------------------------------------------------------------------
(* The game.                                                               *)

\* The commander is at place now, and the journal says so.
Travel(type, place) ==
  /\ Len(lines) < MaxTravel
  /\ at' = place
  /\ Enter(Entry(type, place))
  /\ reply' = Missing
  /\ UNCHANGED <<screen, flag, session, jumpedTo>>

\* The first event of a session says where the commander is.
InSession == \E n \in DOMAIN lines : lines[n].type = "Location"

StartSession == Travel("Location", at) /\ UNCHANGED carrier

Jump(s) ==
  /\ InSession /\ at.station = Missing /\ s # at.system
  /\ Travel("FSDJump", Place(s, Missing))
  /\ UNCHANGED carrier

Dock(station) ==
  /\ InSession /\ at.station = Missing
  /\ at.system = IF station = Carrier THEN carrier ELSE PortSystem
  /\ Travel("Docked", Place(at.system, station))
  /\ UNCHANGED carrier

Undock ==
  /\ InSession /\ at.station # Missing
  /\ Travel("Undocked", Place(at.system, Missing))
  /\ UNCHANGED carrier

Clash(offence) ==
  /\ InSession /\ at.station = Missing
  /\ Travel(offence, at)
  /\ UNCHANGED carrier

\* The carrier jumps with the commander aboard.
RideCarrier(s) ==
  /\ InSession /\ at.station = Carrier /\ s # carrier
  /\ carrier' = s
  /\ Travel("CarrierJump", Place(s, Carrier))

\* The commander opens the market, the outfitting or the shipyard.
OpenScreen ==
  /\ InSession /\ at.station # Missing
  /\ screen' = at
  /\ reply' = Missing
  /\ UNCHANGED <<at, carrier, lines, waiting, flag, session, jumpedTo, inOrder>>

\* StatusReader reads Status.json and dispatches a Status event.
PollStatus ==
  /\ InSession /\ flag = Missing
  /\ flag' = (at.station # Missing)
  /\ reply' = Missing
  /\ UNCHANGED <<galaxy, waiting, session, jumpedTo, inOrder>>

-----------------------------------------------------------------------------
(* Handlers.                                                               *)

PutJ(s, f, v) == Registers!Put(s, f, v, Registers!Journal)

Differ(a, b) == a # Missing /\ b # Missing /\ a # b

\* A Docked event, or a Location event that says docked.
Arrived(s, e) ==
  LET flags == PutJ(PutJ(s, "docked", TRUE), "supercruise", FALSE)
  IN PutJ(PutJ(flags, "station", e.station), "stationCtx", Place(e.system, e.station))

\* Mutant: only the scalar fields are cleared.
LeftKeepingContext(s) == PutJ(PutJ(s, "docked", FALSE), "station", Missing)

\* The station is left, or was never there.
Left(s) == PutJ(PutJ(PutJ(s, "docked", FALSE), "station", Missing), "stationCtx", Missing)

\* should_apply_location_system_context: a Location does not replace what a later
\* jump to the same system has said.
Applies(ctx, e, ts) == ctx = Missing \/ ctx.system # e.system \/ ts > ctx.ts

SystemCtx(e, ts) == [system |-> e.system, ts |-> ts]

\* What the handler of line e, written at ts, leaves of the state s.
\* The handlers of handlers.py come first, then those of extended_events.py, of which
\* only the last two writes of FSDJump differ from what has been written.
HandleFSDJump(s, e, ts) ==
  LET jumped == PutJ(PutJ(PutJ(s, "system", e.system), "supercruise", TRUE),
                     "systemCtx", SystemCtx(e, ts))
      landed == PutJ(jumped, "supercruise", FALSE)
  IN IF Differ(jumpedTo, e.system) THEN PutJ(landed, "wanted", FALSE) ELSE landed

HandleCarrierJump(s, e, ts) ==
  PutJ(PutJ(s, "system", e.system), "systemCtx", SystemCtx(e, ts))

HandleDocked(s, e) == PutJ(Arrived(s, e), "system", e.system)

HandleLocation(s, e, ts) ==
  LET here == PutJ(s, "system", e.system)
      placed == IF e.station = Missing THEN Left(here) ELSE Arrived(here, e)
  IN IF Applies(placed.value["systemCtx"], e, ts)
       THEN PutJ(placed, "systemCtx", SystemCtx(e, ts)) ELSE placed

Followed(s, e, ts) ==
  CASE e.type = "FSDJump" -> HandleFSDJump(s, e, ts)
    [] e.type = "CarrierJump" -> HandleCarrierJump(s, e, ts)
    [] e.type = "Docked" -> HandleDocked(s, e)
    [] e.type = "Undocked" -> Left(s)
    [] e.type = "Location" -> HandleLocation(s, e, ts)
    [] e.type \in Offence -> PutJ(s, "wanted", TRUE)

\* The recorders are done with a line: its handler runs.
HandleTravelLine(n) ==
  /\ session' = Followed(session, lines[waiting[n]], waiting[n])
  /\ jumpedTo' = IF lines[waiting[n]].type = "FSDJump" THEN lines[waiting[n]].system ELSE jumpedTo
  /\ TakeOut(n)
  /\ reply' = Missing
  /\ UNCHANGED <<galaxy, flag>>

HandleDockedFlag ==
  /\ flag # Missing
  /\ session' = Registers!Put(session, "docked", flag, Registers!StatusJson)
  /\ flag' = Missing
  /\ reply' = Missing
  /\ UNCHANGED <<galaxy, waiting, jumpedTo, inOrder>>

-----------------------------------------------------------------------------
(* Hydration: a scan of the journal files, earlier sessions included.      *)

Arrives(e) == e.type = "Docked" \/ (e.type = "Location" /\ e.station # Missing)

\* The fields a line tells of: _apply_journal_event and _apply_location_event.
TellsOfPlace(e, f) ==
  \/ /\ f = "system"
     /\ e.type \in {"Docked", "FSDJump", "CarrierJump", "Location"}
  \/ /\ f \in {"docked", "station", "stationCtx"}
     /\ e.type \in {"Docked", "Undocked", "FSDJump", "Location"}
  \/ /\ f = "systemCtx"
     /\ e.type \in {"FSDJump", "CarrierJump", "Location"}
  \/ /\ f = "supercruise"
     /\ e.type = "FSDJump" \/ (e.type = "Location" /\ Arrives(e))

\* What it tells, written at ts.  The lines are scanned in the order of their timestamps,
\* so that a Location is always newer than what it is compared with.
ToldOfPlace(e, ts, f) ==
  CASE f = "system" -> e.system
    [] f = "docked" -> Arrives(e)
    [] f = "station" -> IF Arrives(e) THEN e.station ELSE Missing
    [] f = "stationCtx" -> IF Arrives(e) THEN Place(e.system, e.station) ELSE Missing
    [] f = "systemCtx" -> SystemCtx(e, ts)
    [] f = "supercruise" -> e.type = "FSDJump"

\* The line that tells of f last: what is scanned later overwrites what was before.
LastOfPlace(f) ==
  {n \in DOMAIN lines : /\ TellsOfPlace(lines[n], f)
                        /\ \A k \in n + 1 .. Len(lines) : ~TellsOfPlace(lines[k], f)}

Scan(f) ==
  IF LastOfPlace(f) = {} THEN Missing
  ELSE LET n == CHOOSE n \in LastOfPlace(f) : TRUE IN ToldOfPlace(lines[n], n, f)

\* _should_apply_boolean_context_field: the journal outranks a flag of Status.json.
FillFlag(s, f, v) ==
  IF \/ v = Missing
     \/ s.value[f] = v
     \/ s.value[f] # Missing /\ s.source[f] <= Registers!Journal
  THEN s ELSE PutJ(s, f, v)

\* _should_apply_field: what is known stays.
Fill(s, f, v) == IF v = Missing \/ s.value[f] # Missing THEN s ELSE PutJ(s, f, v)

\* _apply_missing_values: the flags first, for the station depends on them.
Rehydrated(s) ==
  LET flags == FillFlag(FillFlag(s, "docked", Scan("docked")),
                        "supercruise", Scan("supercruise"))
      places == Fill(Fill(Fill(flags, "system", Scan("system")),
                          "station", Scan("station")),
                     "systemCtx", Scan("systemCtx"))
  IN IF flags.value["docked"] = FALSE THEN places
     ELSE Fill(places, "stationCtx", Scan("stationCtx"))

-----------------------------------------------------------------------------
(* The labels of a request, over the values v of the hydrated state.       *)

\* session_activity_payload: no journal was written of late.
LastKnown(v, active) ==
  /\ ~active
  /\ lines # <<>> \/ screen # Missing \/ v["stationCtx"] # Missing \/ v["systemCtx"] # Missing

Labelled(stale, lastKnown) ==
  IF stale THEN "stale" ELSE IF lastKnown THEN "last_known" ELSE "fresh"

StationLabel(v, lastKnown) ==
  LET ctx == v["stationCtx"]
  IN IF ctx = Missing THEN IF screen = Missing THEN "not_loaded" ELSE "market_snapshot_only"
     ELSE Labelled(\/ v["docked"] = FALSE
                   \/ Differ(v["station"], ctx.station)
                   \/ screen # Missing /\ screen.station # ctx.station, lastKnown)

SystemLabel(v, lastKnown) ==
  IF v["systemCtx"] = Missing THEN "not_loaded"
  ELSE Labelled(Differ(v["system"], v["systemCtx"].system), lastKnown)

\* Services are those seen when the commander docked, never stale.
ServicesLabel(v, lastKnown) ==
  IF v["stationCtx"] = Missing THEN "not_loaded"
  ELSE IF lastKnown THEN "last_known" ELSE "commander_observed"

\* Mutant: the screen of a station left long ago is fresh anywhere.
ScreenLabelAnywhere(v) == IF screen = Missing THEN "not_loaded" ELSE "fresh"

\* _companion_station_stale_reasons.
ScreenLabel(v) ==
  IF screen = Missing THEN "not_loaded"
  ELSE Labelled(\/ v["docked"] = FALSE
                \/ Differ(v["station"], screen.station)
                \/ Differ(v["system"], screen.system), FALSE)

\* _outfitting_stale_reasons and _shipyard_stale_reasons fall back on the context.
OutfittingLabel(v) ==
  LET ctx == v["stationCtx"]
      station == IF v["station"] = Missing /\ ctx # Missing THEN ctx.station ELSE v["station"]
      system == IF v["system"] = Missing /\ ctx # Missing THEN ctx.system ELSE v["system"]
  IN IF screen = Missing THEN "not_loaded"
     ELSE Labelled(\/ v["docked"] = FALSE
                   \/ ctx # Missing /\ ctx.station # screen.station
                   \/ Differ(station, screen.station)
                   \/ Differ(system, screen.system), FALSE)

\* local_context_snapshot_payload: hydrate, then label.
Request(active) ==
  /\ session' = Rehydrated(session)
  /\ LET v == session'.value
         lastKnown == LastKnown(v, active)
     IN reply' = [station |-> StationLabel(v, lastKnown), system |-> SystemLabel(v, lastKnown),
                  services |-> ServicesLabel(v, lastKnown), market |-> ScreenLabel(v),
                  outfitting |-> OutfittingLabel(v)]
  /\ UNCHANGED <<galaxy, waiting, flag, jumpedTo, inOrder>>

TravelNext ==
  \/ StartSession \/ Undock \/ OpenScreen
  \/ \E offence \in Offence : Clash(offence)
  \/ \E s \in Systems : Jump(s) \/ RideCarrier(s)
  \/ \E station \in Station : Dock(station)
  \/ PollStatus \/ HandleDockedFlag
  \/ \E n \in DOMAIN waiting : HandleTravelLine(n)
  \/ \E active \in BOOLEAN : Request(active)

TravelSpec == TravelInit /\ [][TravelNext]_travelVars

-----------------------------------------------------------------------------
(* Properties.                                                             *)

\* Every line of the session has been handled, one after the other.
TravelSettled == Settled /\ InSession

JumpsBefore(n) == {m \in 1 .. n - 1 : lines[m].type = "FSDJump"}

\* Line n is a jump whose handler clears what the commander is wanted for: it goes to
\* another system than the jump before it went to.  The first jump the application
\* handles has none before it and clears nothing, nor does one that leads back, after a
\* ride on a carrier, to where the last one went; event_types.py says of either that it
\* clears ("clears on FSD jump to a different system").
Clears(n) ==
  /\ lines[n].type = "FSDJump"
  /\ \E m \in JumpsBefore(n) :
       lines[m].system # lines[n].system /\ \A k \in JumpsBefore(n) : k <= m

\* However Status.json and the repair pass, which runs ahead of the handlers and
\* remembers earlier sessions, came in between: once the handlers have caught up,
\* the state says where the commander is, and that he is wanted exactly when a crime or
\* a bounty has followed the last jump that clears it.
WhereaboutsSettle ==
  TravelSettled =>
    /\ session.value["system"] = at.system
    /\ session.value["station"] = at.station
    /\ session.value["docked"] = (at.station # Missing)
    /\ session.value["systemCtx"].system = at.system
    /\ IF at.station = Missing THEN session.value["stationCtx"] = Missing
       ELSE session.value["stationCtx"].station = at.station
    /\ session.value["wanted"] = TRUE <=>
         \E n \in DOMAIN lines : /\ lines[n].type \in Offence
                                /\ \A k \in n + 1 .. Len(lines) : ~Clears(k)

\* A snapshot of a station's screen is only called fresh at that station, and there
\* only while it is where the snapshot was taken.
FreshIsHere ==
  (TravelSettled /\ reply # Missing) =>
    /\ reply.market = "fresh" => screen = at
    /\ reply.outfitting = "fresh" => screen = at
=============================================================================
