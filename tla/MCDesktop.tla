----------------------------- MODULE MCDesktop -----------------------------
(***************************************************************************)
(* The desktop shell with its cores and pages, and the live connection of  *)
(* a core with its clients, on small instances.  They share no variable,   *)
(* and one behaviour is about one of them: the other stays as it begins.   *)
(***************************************************************************)
EXTENDS Sidecar, LiveBridge

CONSTANT c1     \* a client

\* Of the events, the second and the third say the same.
EntryOf == [n \in 1 .. MaxEvents |-> n \div 2]

VARIABLE part   \* "shell" or "bridge"

DesktopInit == part \in {"shell", "bridge"} /\ Init /\ BridgeInit

DesktopNext ==
  /\ UNCHANGED part
  /\ \/ part = "shell" /\ Next /\ UNCHANGED bridgeVars
     \/ part = "bridge" /\ BridgeNext /\ UNCHANGED vars

\* Neither fairness asks anything of a part that stays as it begins.
DesktopSpec ==
  DesktopInit /\ [][DesktopNext]_<<part, vars, bridgeVars>> /\ Fair /\ BridgeFair

-----------------------------------------------------------------------------
(* Properties: those of the parts are Sidecar's and LiveBridge's own.      *)

\* api_bridge.py: a registered client is served, whatever becomes of the others.
\* Clients are alike, and one stands for all.
ClientsServed == Served(c1)
=============================================================================
