------------------------------ MODULE Records ------------------------------
(***************************************************************************)
(* The records of the commander: the plans, campaigns, circuits, squadron  *)
(* notes and the library as one database with one activity log, which the  *)
(* calls of one session share in any order.                                *)
(***************************************************************************)
EXTENDS Engineering, Campaigns, Circuits, Squadrons, NavigationLibrary

recordsVars == <<vars, squad>>

LibraryTables == {"bookmark", "route"}

Tables == Planned \cup {"campaign", "circuit", "stop", "note"} \cup LibraryTables

Row == PlanRows \cup CampaignRows \cup CircuitRows \cup StopRows \cup NoteRows \cup LibraryRows

\* No kind of notes has the name of another table or of a list.
ASSUME TablesAssumption ==
  /\ Kinds \cap {"goal", "build", "plan", "material", "import", "campaign", "circuit",
                "stop", "note", "bookmark", "route"} = {}
  /\ Kinds \cap Sections = {}
  /\ Absent \notin Row

\* The tables as earlier sessions left them: every row in its table, every stop in
\* its circuit, every draft with its sources.
LeftInOrder(some) ==
  \A k \in DOMAIN some :
    /\ some[k] \in Row
    /\ IF some[k].table \in LibraryTables
       THEN /\ k \in LibraryKeys /\ some[k].table = k[1] /\ some[k].by \in Old
            /\ \A j \in DOMAIN some :
                 (some[j].table = some[k].table /\ some[j].by = some[k].by) => j = k
       ELSE k \in Old
    /\ some[k].table = "stop" =>
         some[k].circuit \in DOMAIN some /\ some[some[k].circuit].table = "circuit"
    /\ some[k].table = "campaign" =>
         \A d \in some[k].drafts : d.by \in Old /\ d.cites \subseteq d.sources

ASSUME EarlierAssumption == \A some \in Earlier : LeftInOrder(some)

RecordsInit == Start /\ NothingListed

RecordsNext ==
  \/ Database /\ UNCHANGED squad
  \/ \E c \in Calls :
       \/ OnPlans(c) /\ UNCHANGED squad
       \/ OnCampaigns(c) /\ UNCHANGED squad
       \/ OnCircuits(c) /\ UNCHANGED squad
       \/ OnLibrary(c) /\ UNCHANGED squad
       \/ Notes(c) /\ UNCHANGED squad
       \/ OnSquad(c)

RecordsSpec == RecordsInit /\ [][RecordsNext]_recordsVars

-----------------------------------------------------------------------------
(* Properties.                                                             *)

\* Every table keeps to its types.
RecordsTyped ==
  /\ \A k \in Keys : rows[k] # Absent => rows[k].table \in Tables
  /\ PlansTypeOK /\ CampaignsTypeOK /\ CircuitsTypeOK /\ SquadronsTypeOK /\ LibraryTypeOK

\* engineering.py, campaign_circuits.py, squadrons.py, navigation_bookmarks.py: the
\* activity log tells of every row that is made, and of none as gone that is there.
LogMatchesRows == PlansLogged /\ StopsAccountedFor /\ NotesLogged /\ LibraryLogged

\* campaign.py, api/squadrons.py: nothing enters without a confirmation.  Every draft
\* that is kept was approved, and cites only linked facts; the lists of the squadron are
\* what was confirmed, once each.
ConfirmedOnly == DraftsSourced /\ SquadFollowsConfirmations

WasArchived(row) == row # Absent /\ "archivedAt" \in DOMAIN row /\ row.archivedAt # Absent

\* A campaign is in the archive by its state, in which alone campaign.py looks for it.
InArchive(row) == row # Absent /\ row.table = "campaign" /\ row.state = "archived"

\* A transition of campaign k is committed that has read its state before another call
\* archived it: nothing looks at the state again.
Overdue(k) ==
  \E c \in Calls :
    /\ Commit(c) /\ call[c].key = k
    /\ call[c].seen.state # "archived"
    /\ call[c].wanted.state \notin {call[c].seen.state, "archived"}

StaysArchived(k) ==
  /\ WasArchived(rows[k]) => WasArchived(rows'[k])
  /\ InArchive(rows[k]) => InArchive(rows'[k]) \/ Overdue(k)

\* campaign.py, campaign_circuits.py, squadrons.py: what has been archived stays so,
\* whatever another call has read before: no edit, link or draft under way takes it back.
\* The only thing that takes a campaign out of the archive is a transition that had read
\* its state before, and its stamp stays even then.
ArchivedKept == [][\A k \in Keys : StaysArchived(k)]_recordsVars
=============================================================================
