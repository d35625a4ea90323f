---------------------------- MODULE StateManager ----------------------------
(***************************************************************************)
(* The in-memory session state and its source priority (Law 7):            *)
(* omnicovas/core/state_manager.py, for callers that update any field from *)
(* any source at any time.  All calls come from the one event loop and     *)
(* none suspends, so a call is a step.                                     *)
(***************************************************************************)
EXTENDS TelemetryState

CONSTANT Values

ASSUME FieldsAssumption == LiveFields \subseteq Fields
ASSUME MissingAssumption == Missing \notin Values

VARIABLES
  state,    \* StateManager._state
  latest    \* observer: the last report of each rank on each field

vars == <<state, latest>>

\* For a live field the journal and Status.json count alike.
Rank(f, s) == IF Exempt(f, s) THEN Journal ELSE s

SessionState ==
  [value : [Fields -> Values \cup {Missing}], source : [Fields -> Source \cup {Unset}]]

TypeOK ==
  /\ state \in SessionState
  /\ latest \in [Fields -> [Source -> SUBSET (Values \cup {Missing})]]

Init ==
  /\ state = Fresh
  /\ latest = [f \in Fields |-> [r \in Source |-> {}]]

\* A report that says nothing: Status.json without a live field that is known.
Silence(f, v, s) == Exempt(f, s) /\ v = Missing /\ state.value[f] # Missing

\* A handler calls update_field on a public field (any other name is refused).
UpdateField(f, v, s) ==
  /\ state' = Put(state, f, v, s)
  /\ latest' = IF Silence(f, v, s) THEN latest ELSE [latest EXCEPT ![f][Rank(f, s)] = {v}]

\* Mutant: the values are cleared, the sources are not.
ResetKeepsSources ==
  /\ state' = [state EXCEPT !.value = Fresh.value]
  /\ latest' = [f \in Fields |-> [r \in Source |-> {}]]

\* reset() starts a new session.
Reset ==
  /\ state' = Fresh
  /\ latest' = [f \in Fields |-> [r \in Source |-> {}]]

Next ==
  \/ \E f \in Fields, v \in Values \cup {Missing}, s \in Source : UpdateField(f, v, s)
  \/ Reset

Spec == Init /\ [][Next]_vars

-----------------------------------------------------------------------------
(* Properties.                                                             *)

\* Law 7: what a reader sees is the last report of the best rank that has
\* reported, however the reports of the sources interleaved.
BestReportShown ==
  \A f \in Fields :
    \A r \in Source :
      (latest[f][r] # {} /\ \A q \in Source : latest[f][q] # {} => r <= q) =>
        latest[f][r] = {state.value[f]}

\* Law 5: what is known of a live field is only forgotten on the journal's word.
LiveFieldsKept ==
  [][\A f \in LiveFields :
       state.value[f] # Missing /\ state.source[f] \in {Journal, StatusJson} /\
       state'.value[f] = Missing => state'.source[f] \in {Journal, Unset}]_vars

Registers == INSTANCE FieldRegisters WITH Ranks <- Source, shown <- state.value

\* Readers see one register per rank.
ImplementsRegisters == Registers!RegistersSpec
=============================================================================
