------------------------------ MODULE Circuits -------------------------------
(***************************************************************************)
(* Campaign circuits and their stops (features/campaign_circuits.py) and   *)
(* the end points on them (api/navigation_bookmarks.py).  A circuit is     *)
(* archived and never deleted; a stop is deleted.  What is done is logged  *)
(* after the commit.                                                       *)
(***************************************************************************)
EXTENDS Integers, RecordCalls

CONSTANT MaxStops      \* MAX_STOPS

Circuit(workflow) ==
  [table |-> "circuit", workflow |-> workflow, title |-> "old", campaign |-> Absent,
   archivedAt |-> Absent]

Stop(circuit) == [table |-> "stop", circuit |-> circuit, system |-> "old", fact |-> Absent]

Stops(circuit) == {s \in All("stop") : rows[s].circuit = circuit}

\* What is logged of a change, at its end.
After(table, what, k) == {Entry(table, what, k)}

-----------------------------------------------------------------------------
(* Circuits.                                                               *)

CreateCircuit(c, workflow) ==
  IF workflow = "bad" THEN Answers(c, "refused")
  ELSE Adds(c, Circuit(workflow), {}, After("circuit", "created", c))

\* Archived circuits are left out unless the caller asks for them.
ListCircuits(archived) ==
  {k \in All("circuit") : archived \/ rows[k].archivedAt = Absent}

UpdateCircuit(c, k, changes) ==
  Changes(c, "circuit", k, changes, {}, After("circuit", "updated", k))

\* Nothing looks whether it is archived already, and nothing is read back.
ArchiveCircuit(c, k) ==
  IF k \notin All("circuit")
  THEN Answers(c, "not found")
  ELSE /\ call[c] = Idle
       /\ Commits(c, k, rows[k], [rows[k] EXCEPT !.archivedAt = c],
                  {}, After("circuit", "archived", k), FALSE, Done("ok"))

LinkCampaign(c, k, campaign) ==
  Changes(c, "circuit", k, [campaign |-> campaign], {}, After("circuit", "linked", k))

UnlinkCampaign(c, k) ==
  Changes(c, "circuit", k, [campaign |-> Absent], {}, After("circuit", "unlinked", k))

-----------------------------------------------------------------------------
(* Stops.                                                                  *)

Room(circuit) == Cardinality(Stops(circuit)) < MaxStops

\* The stops are counted, and the stop is inserted in a commit later on; a circuit
\* that is archived takes stops like any other.
AddStop(c, circuit) ==
  IF circuit \notin All("circuit") \/ ~Room(circuit)
  THEN Answers(c, "refused")
  ELSE Adds(c, Stop(circuit), {}, After("stop", "added", c))

UpdateStop(c, s, changes) == Changes(c, "stop", s, changes, {}, After("stop", "updated", s))

\* Mutant: the removal is logged when it is asked for.
RemoveStopLoggedFirst(c, s) ==
  IF s \notin All("stop")
  THEN Answers(c, "not found")
  ELSE /\ call[c] = Idle
       /\ Commits(c, s, rows[s], Absent, After("stop", "removed", s), {}, FALSE, Done("ok"))

RemoveStop(c, s) == Removes(c, "stop", s, After("stop", "removed", s))

-----------------------------------------------------------------------------
(* End points.                                                             *)

PostCircuit(c) == \E workflow \in {"bgs", "bad"} : CreateCircuit(c, workflow)

GetCircuits(c) == \E archived \in BOOLEAN : Shows(c, [circuits |-> ListCircuits(archived)])

\* The circuit and then its stops are read.
GetCircuit(c, k) ==
  \/ k \notin All("circuit") /\ Answers(c, "not found")
  \/ /\ k \in All("circuit") /\ call[c] = Idle
     /\ Goes(c, [at |-> "stops", key |-> k]) /\ UNCHANGED <<rows, log>>
  \/ /\ call[c] = [at |-> "stops", key |-> k]
     /\ Goes(c, Shown([circuit |-> k, stops |-> Stops(k)])) /\ UNCHANGED <<rows, log>>

PatchCircuit(c, k) ==
  \E body \in {[title |-> Absent], [title |-> "new"]} : UpdateCircuit(c, k, Given(body, {}))

DeleteCircuit(c, k) == ArchiveCircuit(c, k)

PostStop(c, k) == AddStop(c, k)

\* The circuit of the path is not looked at.
PatchStop(c, s) ==
  \E body \in {[system |-> Absent], [system |-> "new"], [fact |-> Absent], [fact |-> "fact"]} :
    UpdateStop(c, s, Given(body, {"fact"}))

DeleteStop(c, s) == RemoveStop(c, s)

PostLink(c, k) == LinkCampaign(c, k, "campaign")

DeleteLink(c, k) == UnlinkCampaign(c, k)

OnCircuits(c) ==
  \/ PostCircuit(c) \/ GetCircuits(c)
  \/ \E k \in Names :
       \/ GetCircuit(c, k) \/ PatchCircuit(c, k) \/ DeleteCircuit(c, k)
       \/ PostLink(c, k) \/ DeleteLink(c, k) \/ PostStop(c, k)
       \/ PatchStop(c, k) \/ DeleteStop(c, k)

CircuitsSpec == Start /\ [][Database \/ \E c \in Calls : OnCircuits(c)]_vars

-----------------------------------------------------------------------------
(* Properties.                                                             *)

CircuitRows ==
  [table : {"circuit"}, workflow : {"bgs"}, title : {"old", "new"},
   campaign : {"campaign", Absent}, archivedAt : Names \cup {Absent}]

StopRows ==
  [table : {"stop"}, circuit : Names, system : {"old", "new"}, fact : {"fact", Absent}]

CircuitsTypeOK ==
  \A k \in All("circuit") \cup All("stop") : rows[k] \in CircuitRows \cup StopRows

\* Every stop is of a circuit that is there, and the log never says that a stop is
\* gone that is there, nor keeps quiet of one that was added.
StopsAccountedFor ==
  /\ \A s \in All("stop") : rows[s].circuit \in All("circuit")
  /\ \A s \in All("stop") : Entry("stop", "removed", s) \notin log
  /\ \A s \in All("stop") \ Old : Entry("stop", "added", s) \in log \/ Coming(s)
=============================================================================
