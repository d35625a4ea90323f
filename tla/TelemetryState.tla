--------------------------- MODULE TelemetryState ---------------------------
(***************************************************************************)
(* One update of the session state: StateManager.update_field of           *)
(* omnicovas/core/state_manager.py as an operator on a record of two       *)
(* functions, the value of every field and the source that set it.  The    *)
(* modules of the event handlers use it too.                               *)
(***************************************************************************)
EXTENDS Integers

CONSTANTS
  Fields,      \* the public fields of SessionState
  LiveFields,  \* fuel_main, fuel_reservoir and shield_up: polled all the time
  Missing      \* Python's None: nothing is known

\* TelemetrySource: a smaller number is a better source.
Journal == 1
StatusJson == 2
Capi == 3
Eddn == 4
Inferred == 5
Source == Journal .. Inferred
Unset == 0     \* no entry in _field_sources

\* Mutant: the sources start as None.
FreshWithNone ==
  [value |-> [f \in Fields |-> Missing], source |-> [f \in Fields |-> Missing]]

\* A SessionState with nothing known.
Fresh == [value |-> [f \in Fields |-> Missing], source |-> [f \in Fields |-> Unset]]

\* Mutant: the journal keeps the live fields too.
ExemptNever(f, s) == FALSE

\* Status.json may update the live fields whatever set them before.
Exempt(f, s) == s = StatusJson /\ f \in LiveFields

\* Mutant: the sources are compared the wrong way round.
OutranksReversed(st, f, s) == st.source[f] # Unset /\ st.source[f] > s

\* A better source has set f.
Outranks(st, f, s) == st.source[f] # Unset /\ st.source[f] < s

\* Mutant: a live field is overwritten with None like any other.
AcceptsNone(st, f, v, s) == Exempt(f, s) \/ ~Outranks(st, f, s)

\* update_field's two early returns: a better source has set the field, or
\* Status.json has lost what was known of a live field.
Accepts(st, f, v, s) ==
  IF Exempt(f, s) THEN v # Missing \/ st.value[f] = Missing ELSE ~Outranks(st, f, s)

\* update_field(f, v, s).
Put(st, f, v, s) ==
  IF Accepts(st, f, v, s)
    THEN [value |-> [st.value EXCEPT ![f] = v], source |-> [st.source EXCEPT ![f] = s]]
    ELSE st
=============================================================================
