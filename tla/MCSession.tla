----------------------------- MODULE MCSession -----------------------------
(***************************************************************************)
(* The session state on small instances: ShipAlerts, which this extends,   *)
(* and the parts driven by the journal alone.  One behaviour is about one  *)
(* part; the variables of the others stay as they begin.                   *)
(***************************************************************************)
EXTENDS ShipAlerts, Interdiction, ShipIdentity, LocalContext, CommanderRecord

VARIABLE part   \* the part a behaviour is about

\* What a line of the journal leaves out of what it tells of the ship.
SessionOmissions == {{}, {"name"}, {"values"}, {"ship", "hull"}}

SessionRecordLines == [missions |-> 4, rewards |-> 3, rank |-> 5, power |-> 3]

\* Three lines; or two, read twice, and one change by the commander.
SessionScripts ==
  {[lines |-> 3, rereads |-> 0, edits |-> 0], [lines |-> 2, rereads |-> 1, edits |-> 1]}

\* The hull is damaged and repaired; the ship heats up and cools down; or fuel is used.
Steady == [hull |-> {2}, fuel |-> {3}, heat |-> {0}, shield |-> {TRUE}, inFlight |-> 2]
Heating == [Steady EXCEPT !.heat = Heat, !.inFlight = 1]
SessionFlights ==
  {[Steady EXCEPT !.hull = Hull], Heating, [Steady EXCEPT !.fuel = 1 .. 3, !.inFlight = 1]}

\* A variable of no meaning to this behaviour.
NoCtx ==
  /\ at = Missing /\ carrier = Missing /\ screen = Missing /\ jumpedTo = Missing
  /\ flag = Missing /\ session = Registers!Fresh /\ reply = Missing
NoRec ==
  /\ story = Missing /\ truth = Missing /\ rec = Missing /\ repeats = Missing
NoPvp ==
  /\ script = Missing /\ pulled = Missing /\ lastFlag = Missing /\ rising = Missing
  /\ combat = Missing /\ guard = Missing /\ pending = Missing /\ nextId = Missing
  /\ writers = Missing /\ rows = Missing /\ alone = FALSE /\ edits = Missing
NoVessel ==
  /\ flown = Missing /\ hold = Missing /\ told = {} /\ known = NothingKnown
NoAlert == Init /\ flight = Heating /\ ship.heat = 0

\* Every part begins, or stays, in its own way.
SessionInit ==
  \/ part = "context" /\ TravelInit /\ NoRec /\ NoPvp /\ NoVessel /\ NoAlert
     /\ rereads = Missing
  \/ part = "record" /\ RecordInit /\ NoCtx /\ NoPvp /\ NoVessel /\ NoAlert
     /\ rereads = Missing
  \/ part = "interdiction" /\ CombatInit /\ NoCtx /\ NoRec /\ NoVessel /\ NoAlert
  \/ part = "ship" /\ ShipInit /\ NoCtx /\ NoRec /\ NoPvp /\ NoAlert
     /\ rereads = Missing
  \/ part = "alerts" /\ Init /\ NoCtx /\ NoRec /\ NoPvp /\ NoVessel
     /\ lines = Missing /\ waiting = Missing /\ inOrder = Missing /\ rereads = Missing

onlyCtx == <<at, carrier, screen, flag, session, jumpedTo, reply>>
onlyRec == <<story, truth, rec, repeats>>
onlyPvp == <<script, pulled, lastFlag, rising, combat, guard, pending, nextId, writers,
             rows, alone, edits>>
onlyVessel == <<flown, hold, told, known>>
shared == <<lines, waiting, inOrder, rereads>>

\* What is not of a part is left alone.
SessionNext ==
  /\ UNCHANGED part
  /\ \/ /\ part = "context" /\ TravelNext
        /\ UNCHANGED <<onlyRec, onlyPvp, onlyVessel, vars, rereads>>
     \/ /\ part = "record" /\ RecordNext
        /\ UNCHANGED <<onlyCtx, onlyPvp, onlyVessel, vars, rereads>>
     \/ /\ part = "interdiction" /\ CombatNext
        /\ UNCHANGED <<onlyCtx, onlyRec, onlyVessel, vars>>
     \/ /\ part = "ship" /\ ShipNext
        /\ UNCHANGED <<onlyCtx, onlyRec, onlyPvp, vars, rereads>>
     \/ /\ part = "alerts" /\ Next
        /\ UNCHANGED <<onlyCtx, onlyRec, onlyPvp, onlyVessel, shared>>

sessionVars == <<part, shared, onlyCtx, onlyRec, onlyPvp, onlyVessel, vars>>

SessionSpec == SessionInit /\ [][SessionNext]_sessionVars

-----------------------------------------------------------------------------
(* Properties of the parts that their modules do not state.                *)

\* Every part keeps to its types.
Typed ==
  CASE part = "context" -> TravelTypeOK
    [] part = "record" -> RecordTypeOK
    [] part = "interdiction" -> CombatTypeOK
    [] part = "ship" -> ShipTypeOK
    [] part = "alerts" -> TypeOK
=============================================================================
