--------------------------- MODULE FieldRegisters ---------------------------
(***************************************************************************)
(* What Law 7 of the state manager promises its readers: every field has a *)
(* register per rank of source, and a reader sees the register of the best *)
(* rank that has reported since the last reset.  StateManager implements   *)
(* this with one value and one source per field (omnicovas/core/           *)
(* state_manager.py).                                                      *)
(***************************************************************************)
EXTENDS Integers

CONSTANTS Fields, Values, Missing, Ranks

VARIABLES
  latest,   \* latest[f][r]: the last report of rank r on f, a set of at most one value
  shown     \* shown[f]: what a reader of f sees

registers == <<latest, shown>>

Unreported == [f \in Fields |-> [r \in Ranks |-> {}]]

\* r is the best rank that has reported on f; a smaller rank is better.
Best(reports, f, r) ==
  /\ reports[f][r] # {}
  /\ \A q \in Ranks : reports[f][q] # {} => r <= q

\* A reader of f sees v: the report of the best rank, or nothing.
Shows(reports, f, v) ==
  \/ v = Missing /\ \A r \in Ranks : reports[f][r] = {}
  \/ \E r \in Ranks : Best(reports, f, r) /\ reports[f][r] = {v}

RegistersInit ==
  /\ latest = Unreported
  /\ \A f \in Fields : Shows(latest, f, shown[f])

Report(f, r, v) == latest' = [latest EXCEPT ![f][r] = {v}]

Forget == latest' = Unreported

RegistersNext ==
  /\ \/ \E f \in Fields, r \in Ranks, v \in Values \cup {Missing} : Report(f, r, v)
     \/ Forget
  /\ shown' \in [Fields -> Values \cup {Missing}]
  /\ \A f \in Fields : Shows(latest', f, shown'[f])

RegistersSpec == RegistersInit /\ [][RegistersNext]_registers
=============================================================================
