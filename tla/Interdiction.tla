---------------------------- MODULE Interdiction ----------------------------
(***************************************************************************)
(* Combat as OmniCOVAS follows it: features/combat_state.py, the critical  *)
(* response proposals (core/handlers.py, api/week13.py) and the journal    *)
(* encounters of features/pvp_encounter.py.                                *)
(*                                                                         *)
(* An interdiction begins with a flag of Status.json and ends with a line  *)
(* of the journal; the two reach their handlers on different paths.  A     *)
(* proposal is raised by the first, guarded until the second, answered by  *)
(* the commander in between or later.  Interdictions by players go to the  *)
(* database, which outlives the process; the journal is read again after   *)
(* a restart, so the writer looks for its row before it inserts one.       *)
(*                                                                         *)
(* The position of a line stands for its timestamp.                        *)
(***************************************************************************)
EXTENDS JournalTasks, FiniteSets, NoValue

CONSTANTS
  Scripts      \* bounds: sets of lines, rereads (restarts and catch-ups in vain) and
               \* edits (what the commander does to encounters)

ASSUME ScriptsAssumption == Scripts \subseteq [lines : Nat, rereads : Nat, edits : Nat]

VARIABLES
  script,   \* the bounds of this behaviour; it never changes
  pulled,   \* the flag of Status.json: the commander is being interdicted
  lastFlag, \* StatusReader._last_state
  rising,   \* BeingInterdicted events whose handlers have not run
  combat,   \* the combat state
  guard,    \* critical_response_proposal_id
  pending,  \* week13._pending_confirmations
  nextId,
  writers,  \* handlers in ensure_journal_pvp_encounter: [line, step]
  rows,     \* table pvp_encounters
  \* The variables below only observe the system.
  alone,    \* no line was handled while it was being handled
  rereads, edits

scene == <<script, pulled, lines>>
database == <<writers, rows, edits>>
workflow == <<combat, guard, pending, nextId>>
observed == <<inOrder, alone, rereads>>
combatVars == <<scene, waiting, lastFlag, rising, workflow, database, observed>>

Modes == {"targeted", "under_attack"}

\* EscapeInterdiction or Interdicted; FSDJump or Docked; ShipTargeted; HullDamage.
Line == [type : {"End"}, player : BOOLEAN] \cup [type : {"Boundary", "Target"}]
          \cup [type : {"Hull"}, low : BOOLEAN]

CombatTypeOK ==
  /\ pulled \in BOOLEAN /\ lastFlag \in BOOLEAN \cup {Missing} /\ rising \in 0 .. script.lines + 1
  /\ lines \in Seq(Line) /\ Len(lines) <= script.lines
  /\ \A n \in DOMAIN waiting : waiting[n] \in DOMAIN lines
  /\ combat \in [interdicted : BOOLEAN \cup {Missing}, attacked : BOOLEAN \cup {Missing},
                 mode : Modes \cup {Missing}, low : BOOLEAN]
  /\ guard \in (0 .. nextId) \cup {Missing} /\ pending \subseteq 0 .. nextId
  /\ \A n \in DOMAIN writers :
       writers[n] \in [line : DOMAIN lines, step : {"check", "insert"}]
  /\ \A n \in DOMAIN rows : rows[n] \in [line : DOMAIN lines, edited : BOOLEAN]

NoCombat == [interdicted |-> Missing, attacked |-> Missing, mode |-> Missing, low |-> FALSE]

CombatInit ==
  /\ script \in Scripts
  /\ pulled = FALSE /\ lines = <<>> /\ waiting = <<>> /\ lastFlag = Missing /\ rising = 0
  /\ combat = NoCombat /\ guard = Missing /\ pending = {} /\ nextId = 0
  /\ writers = <<>> /\ rows = <<>>
  /\ inOrder = TRUE /\ alone = TRUE /\ rereads = 0 /\ edits = 0

-----------------------------------------------------------------------------
(* The scene, and the StatusReader.                                         *)

Logged(line) ==
  /\ Len(lines) < script.lines
  /\ Enter(line)
  /\ UNCHANGED <<script, lastFlag, rising, workflow, database, observed>>

Pull ==
  /\ ~pulled
  /\ pulled' = TRUE
  /\ UNCHANGED <<script, lines, waiting, lastFlag, rising, workflow, database, observed>>

EndPull(player) ==
  /\ pulled /\ pulled' = FALSE
  /\ Logged([type |-> "End", player |-> player])

Fight(line) ==
  /\ line.type \in {"Target", "Hull"}
  /\ UNCHANGED pulled
  /\ Logged(line)

Leave ==
  /\ ~pulled /\ UNCHANGED pulled
  /\ Logged([type |-> "Boundary"])

\* _poll_once: a rising edge between two polls becomes an event.
PollFlag ==
  /\ lastFlag # pulled
  /\ lastFlag' = pulled
  /\ rising' = rising + (IF lastFlag = FALSE /\ pulled THEN 1 ELSE 0)
  /\ UNCHANGED <<scene, waiting, workflow, database, observed>>

\* The application is closed or dies, and is started again.
Restart ==
  /\ rereads < script.rereads /\ rereads' = rereads + 1
  /\ waiting' = [n \in DOMAIN lines |-> n]
  /\ lastFlag' = Missing /\ rising' = 0
  /\ combat' = NoCombat /\ guard' = Missing /\ pending' = {}
  /\ writers' = <<>>
  /\ UNCHANGED <<scene, nextId, rows, edits, inOrder, alone>>

\* After a failed catch-up the journal is delivered again.
Reread ==
  /\ rereads < script.rereads /\ rereads' = rereads + 1
  /\ waiting' = waiting \o [n \in DOMAIN lines |-> n]
  /\ UNCHANGED <<scene, lastFlag, rising, workflow, database, inOrder, alone>>

-----------------------------------------------------------------------------
(* Handlers.                                                               *)

\* _maybe_enqueue_critical_response_proposal.
Propose ==
  IF guard = Missing /\ combat.low
  THEN /\ guard' = nextId /\ pending' = pending \cup {nextId}
       /\ nextId' = nextId + 1
  ELSE UNCHANGED <<guard, pending, nextId>>

\* handle_being_interdicted: nothing happens when one is shown already.
HandleRising ==
  /\ rising > 0 /\ rising' = rising - 1
  /\ IF combat.interdicted = TRUE THEN UNCHANGED workflow
     ELSE combat' = [combat EXCEPT !.interdicted = TRUE] /\ Propose
  /\ inOrder' = (inOrder /\ pulled /\ waiting = <<>>)
  /\ UNCHANGED <<scene, waiting, lastFlag, database, alone, rereads>>

Take(n) ==
  /\ TakeOut(n)
  /\ UNCHANGED <<scene, lastFlag, rising, rows, edits, rereads>>

\* Mutant: only the guard is cleared.
HandleEndStillShown(n) ==
  /\ lines[waiting[n]].type = "End"
  /\ Take(n)
  /\ guard' = Missing
  /\ UNCHANGED <<combat, pending, nextId, writers, alone>>

\* handle_escape_interdiction and handle_interdicted: _maybe_record_pvp_encounter last.
HandleEnd(n) ==
  /\ lines[waiting[n]].type = "End"
  /\ Take(n)
  /\ combat' = [combat EXCEPT !.interdicted = FALSE]
  /\ guard' = Missing /\ UNCHANGED <<pending, nextId>>
  /\ writers' = IF lines[waiting[n]].player
                THEN Append(writers, [line |-> waiting[n], step |-> "check"]) ELSE writers
  /\ alone' = (alone /\ \A k \in DOMAIN writers : writers[k].line # waiting[n])

\* Mutant: the proposal guard outlives the interdiction.
HandleBoundaryKeepGuard(n) ==
  /\ lines[waiting[n]].type = "Boundary"
  /\ Take(n)
  /\ combat' = [combat EXCEPT !.attacked = FALSE, !.mode = Missing,
                              !.interdicted = IF @ = TRUE THEN FALSE ELSE @]
  /\ UNCHANGED <<guard, pending, nextId, writers, alone>>

\* record_session_boundary, then _clear_interdiction_at_boundary.
HandleBoundary(n) ==
  /\ lines[waiting[n]].type = "Boundary"
  /\ Take(n)
  /\ combat' = [combat EXCEPT !.attacked = FALSE, !.mode = Missing,
                              !.interdicted = IF @ = TRUE THEN FALSE ELSE @]
  /\ guard' = IF combat.interdicted = TRUE THEN Missing ELSE guard
  /\ UNCHANGED <<pending, nextId, writers, alone>>

HandleFight(n) ==
  LET line == lines[waiting[n]]
  IN /\ line.type \in {"Target", "Hull"}
     /\ Take(n)
     /\ combat' = IF line.type = "Target" THEN [combat EXCEPT !.mode = "targeted"]
                  ELSE [combat EXCEPT !.attacked = TRUE, !.mode = "under_attack",
                                      !.low = line.low]
     /\ UNCHANGED <<guard, pending, nextId, writers, alone>>

\* respond_to_confirmation; the guard stays.
Respond(id) ==
  /\ pending' = pending \ {id}
  /\ UNCHANGED <<scene, waiting, lastFlag, rising, combat, guard, nextId, database, observed>>

-----------------------------------------------------------------------------
(* Encounters.                                                             *)

Step(k) ==
  /\ UNCHANGED <<scene, waiting, lastFlag, rising, workflow, edits, observed>>
  /\ k \in DOMAIN writers

\* A row is found by its provenance too, which an edit changes.
Found(line) == \E r \in DOMAIN rows : rows[r] = [line |-> line, edited |-> FALSE]

\* Mutant: the row is inserted without a look at the table.
CheckBlindly(k) ==
  /\ Step(k) /\ writers[k].step = "check"
  /\ writers' = [writers EXCEPT ![k].step = "insert"]
  /\ UNCHANGED rows

\* ensure_journal_pvp_encounter: a session of its own for the select ...
Check(k) ==
  /\ Step(k) /\ writers[k].step = "check"
  /\ writers' = IF Found(writers[k].line) THEN RemoveAt(writers, k)
                ELSE [writers EXCEPT ![k].step = "insert"]
  /\ UNCHANGED rows

\* ... and create_encounter with another one.
Insert(k) ==
  /\ Step(k) /\ writers[k].step = "insert"
  /\ rows' = Append(rows, [line |-> writers[k].line, edited |-> FALSE])
  /\ writers' = RemoveAt(writers, k)

\* A database error is logged and forgotten.
DatabaseFails(k) ==
  /\ Step(k)
  /\ writers' = RemoveAt(writers, k)
  /\ UNCHANGED rows

Commander ==
  /\ edits < script.edits /\ edits' = edits + 1
  /\ UNCHANGED <<scene, waiting, lastFlag, rising, workflow, writers, observed>>

\* update_encounter and link_encounter_note change the provenance.
Edit(r) == Commander /\ rows' = [rows EXCEPT ![r].edited = TRUE]

Delete(r) == Commander /\ rows' = RemoveAt(rows, r)

CombatNext ==
  \/ Pull
  \/ \E player \in BOOLEAN : EndPull(player)
  \/ \E line \in Line : Fight(line)
  \/ Leave \/ PollFlag \/ Restart \/ Reread \/ HandleRising
  \/ \E n \in DOMAIN waiting : HandleEnd(n) \/ HandleBoundary(n) \/ HandleFight(n)
  \/ \E id \in pending : Respond(id)
  \/ \E k \in DOMAIN writers : Check(k) \/ Insert(k) \/ DatabaseFails(k)
  \/ \E r \in DOMAIN rows : Edit(r) \/ Delete(r)

CombatSpec == CombatInit /\ [][CombatNext]_combatVars

-----------------------------------------------------------------------------
(* Properties.                                                             *)

\* The guard is held for an interdiction that is shown, whichever of the five handlers
\* ends it: otherwise no proposal would ever be made again.
GuardFollowsInterdiction == guard # Missing => combat.interdicted = TRUE

\* Once everything has been handled, nothing having overtaken anything, an interdiction
\* is only shown while there is one; and what the last boundary has cleared stays cleared
\* until there is a new attack.
CombatSettles ==
  (rising = 0 /\ waiting = <<>> /\ inOrder /\ rereads = 0) =>
    /\ combat.interdicted = TRUE => pulled
    /\ (lines # <<>> /\ Last(lines).type = "Boundary") =>
         combat.attacked = FALSE /\ combat.mode = Missing

\* combat_state.py, handlers.py: an interdiction is only shown while there is one, a
\* boundary clears the combat state, and the proposal guard is held for an interdiction
\* that is shown.
InterdictionSettles == GuardFollowsInterdiction /\ CombatSettles

Copies(line) == Cardinality({r \in DOMAIN rows : rows[r].line = line})

\* pvp_encounter.py: however often the journal is read, the process dying at any point of it, a player's
\* interdiction that the commander has not edited is in the table once, unless it was
\* handled twice at the same time.
EncounterOnce ==
  (alone /\ edits = 0) => \A n \in DOMAIN lines : Copies(n) <= 1

\* features/pvp_encounter.py: "Check for an existing journal-derived PvP record before
\* creating".
EncounterDeduplicated == alone => \A n \in DOMAIN lines : Copies(n) <= 1
=============================================================================
