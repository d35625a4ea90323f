------------------------------ MODULE NoValue ------------------------------
(***************************************************************************)
(* Python's None, as the session state holds it for what it does not know. *)
(***************************************************************************)
CONSTANT Missing

ASSUME MissingAssumption == Missing \notin BOOLEAN
=============================================================================
