---------------------------- MODULE ShipIdentity ----------------------------
(***************************************************************************)
(* Which ship the commander flies and what is known of it:                 *)
(* omnicovas/features/ship_state.py, loadout.py, cargo.py and rebuy.py,     *)
(* the handlers of destruction in extended_events.py,                      *)
(* and the part of local_state_hydration.py that repairs these fields.     *)
(*                                                                         *)
(* A journal line tells a part of the story: LoadGame and ShipyardSwap who *)
(* the ship is, Loadout everything about it, ShipDestroyed that it is no   *)
(* more.  What an earlier line has left behind of another ship is the      *)
(* danger, and a request repairs what it finds empty from a scan of the    *)
(* whole journal.                                                          *)
(*                                                                         *)
(* A field that describes a ship holds the fit of that ship it describes.  *)
(***************************************************************************)
EXTENDS JournalTasks, NoValue

CONSTANTS
  Ships,
  Omissions, \* sets of fields that a line of the game may leave out
  MaxFits,   \* bound: configurations a ship is given
  MaxLines   \* bound: lines of the journal

Fit == [ship : Ships, fit : 1 .. MaxFits, damaged : BOOLEAN]
Cargo == 0 .. 1

\* What ShipyardSwap clears, and what it does not: hull_value, modules_value,
\* rebuy_cost, the fuel capacities and cargo_capacity.
Cleared == {"name", "hull", "jump", "hash", "modules"}
Figures == {"values"}
Described == Cleared \cup Figures
ShipFields == {"ship", "cargo"} \cup Described

\* The fields of LoadGame and Loadout that a handler writes only if the line has them: a
\* ship need have no name, and some versions of the game leave ModulesValue out.
Optional == {"ship", "name", "hull", "jump"} \cup Figures

ASSUME ShipAssumption ==
  /\ MaxLines \in Nat /\ MaxFits \in Nat \ {0} /\ Omissions \subseteq SUBSET Optional
  /\ Missing \notin Ships \cup Fit \cup Cargo

VARIABLES
  flown,    \* the ship, its fit and its health
  hold,     \* the cargo last written to the journal
  told,     \* the fields the journal has told as they still are
  known     \* the session state: every field here is the journal's

hangar == <<flown, hold, told, lines>>
shipVars == <<hangar, waiting, known, inOrder>>

ShipLine == [type : {"LoadGame"}, ship : Ships, omits : Omissions]
              \cup [type : {"Loadout"}, fit : Fit, omits : Omissions]
              \cup [type : {"ShipyardSwap"}, ship : Ships]
              \cup [type : {"ShipDestroyed"}] \cup [type : {"Cargo"}, cargo : Cargo]

ShipTypeOK ==
  /\ flown \in Fit /\ hold \in Cargo /\ told \subseteq ShipFields
  /\ lines \in Seq(ShipLine) /\ Len(lines) <= MaxLines
  /\ \A n \in DOMAIN waiting : waiting[n] \in DOMAIN lines
  /\ known.ship \in Ships \cup {Missing} /\ known.cargo \in Cargo \cup {Missing}
  /\ known.name \in Ships \cup {Missing}
  /\ \A f \in Described \ {"name"} : known[f] \in Fit \cup {Missing}

NothingKnown == [f \in ShipFields |-> Missing]

ShipInit ==
  /\ flown \in [ship : Ships, fit : {1}, damaged : BOOLEAN]
  /\ hold = 0 /\ told = {} /\ lines = <<>> /\ waiting = <<>>
  /\ known = NothingKnown
  /\ inOrder = TRUE

-----------------------------------------------------------------------------
(* The game.                                                               *)

Report(line) == Len(lines) < MaxLines /\ Enter(line) /\ UNCHANGED known

LogIn(omits) ==
  /\ Report([type |-> "LoadGame", ship |-> flown.ship, omits |-> omits])
  /\ told' = told \cup ({"ship", "name"} \ omits)
  /\ UNCHANGED <<flown, hold>>

\* A Loadout follows a LoadGame, a swap, outfitting and repair.
Describe(omits) ==
  /\ Report([type |-> "Loadout", fit |-> flown, omits |-> omits])
  /\ told' = told \cup (({"ship"} \cup Described) \ omits)
  /\ UNCHANGED <<flown, hold>>

Swap(s) ==
  /\ s # flown.ship
  /\ flown' = [ship |-> s, fit |-> 1, damaged |-> FALSE]
  /\ told' = {"ship"} \cup (told \cap {"cargo"})
  /\ Report([type |-> "ShipyardSwap", ship |-> s])
  /\ UNCHANGED hold

Destroyed ==
  /\ Report([type |-> "ShipDestroyed"])
  /\ told' = told \cap {"cargo"}
  /\ UNCHANGED <<flown, hold>>

\* Outfitting or repair, of which Loadout tells later.
Mend(fit) ==
  /\ "hash" \in told
  /\ fit.ship = flown.ship /\ fit # flown
  /\ flown' = fit /\ told' = told \cap {"ship", "name", "cargo"}
  /\ UNCHANGED <<hold, lines, waiting, known, inOrder>>

Trade(n) ==
  /\ n # hold /\ hold' = n
  /\ told' = told \cup {"cargo"}
  /\ Report([type |-> "Cargo", cargo |-> n])
  /\ UNCHANGED flown

-----------------------------------------------------------------------------
(* Handlers.                                                               *)

Swapped(s, ship) ==
  [f \in ShipFields |-> IF f = "ship" THEN ship ELSE IF f \in Cleared THEN Missing ELSE s[f]]

\* Mutant: the figures are kept.
LoadedKeepingFigures(s, e) ==
  [f \in ShipFields |-> IF f \in {"cargo"} \cup Figures \cup e.omits THEN s[f]
                        ELSE IF f \in {"ship", "name"} THEN e.fit.ship ELSE e.fit]

\* loadout.py's handler writes the modules, then ship_state.py's everything else that the
\* line has: what it leaves out stays as it is, be it another ship's.
Loaded(s, e) ==
  [f \in ShipFields |-> IF f \in {"cargo"} \cup e.omits THEN s[f]
                        ELSE IF f \in {"ship", "name"} THEN e.fit.ship ELSE e.fit]

\* LoadGame tells the name, not the state, of the ship.
Boarded(s, e) ==
  [f \in ShipFields |-> IF f \in {"ship", "name"} \ e.omits THEN e.ship ELSE s[f]]

Wrecked(s) == [s EXCEPT !["ship"] = Missing, !["hull"] = Missing, !["modules"] = Missing]

Updated(s, e) ==
  CASE e.type = "LoadGame" -> Boarded(s, e)
    [] e.type = "Loadout" -> Loaded(s, e)
    [] e.type = "ShipyardSwap" -> Swapped(s, e.ship)
    [] e.type = "ShipDestroyed" -> Wrecked(s)
    [] e.type = "Cargo" -> [s EXCEPT !["cargo"] = e.cargo]

HandleShipLine(n) ==
  /\ known' = Updated(known, lines[waiting[n]])
  /\ TakeOut(n)
  /\ UNCHANGED hangar

\* calculate_rebuy: nothing without a ship; the values of the modules are added up if
\* no Loadout has given their sum, were it that of another ship.
Rebuy(s) ==
  IF s.ship = Missing THEN Missing
  ELSE IF s.values = Missing THEN s.modules ELSE s.values

-----------------------------------------------------------------------------
(* Requests.                                                               *)

\* scan_recent_local_state knows LoadGame, Loadout and Cargo, and no other line.
Tells(e, f) ==
  \/ e.type = "LoadGame" /\ f \in {"ship", "name"} \ e.omits
  \/ e.type = "Loadout" /\ f \in ({"ship"} \cup Described) \ e.omits
  \/ e.type = "Cargo" /\ f = "cargo"

\* The line that tells of f last: what is scanned later overwrites what was before.
LastTold(f) ==
  {n \in DOMAIN lines : /\ Tells(lines[n], f)
                        /\ \A k \in n + 1 .. Len(lines) : ~Tells(lines[k], f)}

Scanned(f) ==
  IF LastTold(f) = {} THEN Missing
  ELSE LET n == CHOOSE n \in LastTold(f) : TRUE IN Updated(NothingKnown, lines[n])[f]

\* _apply_missing_values: what is known stays, what is empty is filled.
Hydrated(s) == [f \in ShipFields |-> IF s[f] = Missing THEN Scanned(f) ELSE s[f]]

\* A request repairs the state before it is answered.
Hydrate ==
  /\ known' = Hydrated(known)
  /\ UNCHANGED <<hangar, waiting, inOrder>>

ShipNext ==
  \/ \E omits \in Omissions : LogIn(omits) \/ Describe(omits)
  \/ Destroyed
  \/ \E s \in Ships : Swap(s)
  \/ \E fit \in Fit : Mend(fit)
  \/ \E n \in Cargo : Trade(n)
  \/ \E n \in DOMAIN waiting : HandleShipLine(n)
  \/ Hydrate

ShipSpec == ShipInit /\ [][ShipNext]_shipVars

-----------------------------------------------------------------------------
(* Properties.                                                             *)

\* What a field is to say.
Actual(f) ==
  IF f = "cargo" THEN hold ELSE IF f \in {"ship", "name"} THEN flown.ship ELSE flown

\* ship_state.py, loadout.py, cargo.py: whatever ships came before and whichever
\* requests repaired what in between, once the lines are handled, every field that one of
\* them has told is as it was told.  One that the lines of this ship left out may still be
\* an earlier ship's, but it is empty or what the last line that had it said, never what
\* an older one did.  The rebuy is that of this ship if its Loadout gave the sum, or none
\* of an earlier ship did.
ShipSettles ==
  Settled =>
    /\ \A f \in told : known[f] = Actual(f)
    /\ \A f \in Described \cup {"cargo"} : known[f] \in {Missing, Scanned(f)}
    /\ ({"ship", "modules"} \subseteq told /\ ("values" \in told \/ Scanned("values") = Missing))
         => Rebuy(known) = flown
=============================================================================
