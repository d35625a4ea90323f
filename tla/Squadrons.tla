------------------------------ MODULE Squadrons ------------------------------
(***************************************************************************)
(* The commander's notes on a squadron (features/squadrons.py) and the     *)
(* end points on them (api/squadrons.py).                                  *)
(*                                                                         *)
(* The lists of the squadron are in memory and are changed by proposals:   *)
(* one request makes a proposal, another confirms or cancels it, in any    *)
(* order, by the id of the proposal.  No such handler waits for anything,  *)
(* so that it is one step.  A proposal is named after the call that makes  *)
(* it: call[p] is pending as long as p is in _pending_proposals.           *)
(*                                                                         *)
(* Campaign notes are rows of the session database, without proposals.     *)
(***************************************************************************)
EXTENDS Integers, Sequences, RecordCalls

VARIABLE squad      \* the ids of the items of each list

Sections == {"roster", "invite", "role", "operation", "navigation", "emergency", "log"}

NothingListed == squad = [s \in Sections |-> {}]

-----------------------------------------------------------------------------
(* The lists: state_manager.squadron is replaced by a changed copy.        *)

Listed(section, item) == squad' = [squad EXCEPT ![section] = @ \cup {item}]

Unlisted(section, item) == squad' = [squad EXCEPT ![section] = @ \ {item}]

CreateRosterMember(item) == Listed("roster", item)
RevokeRosterMember(item) == Unlisted("roster", item)

CreateInviteCode(item) == Listed("invite", item)
RevokeInviteCode(item) == Unlisted("invite", item)

CreateRole(item) == Listed("role", item)
RevokeRole(item) == Unlisted("role", item)

CreateSharedOperation(item) == Listed("operation", item)
RevokeSharedOperation(item) == Unlisted("operation", item)

CreateSharedNavigation(item) == Listed("navigation", item)
RevokeSharedNavigation(item) == Unlisted("navigation", item)

CreateEmergencyNote(item) == Listed("emergency", item)
RevokeEmergencyNote(item) == Unlisted("emergency", item)

AppendLogEntry(item) == Listed("log", item)

-----------------------------------------------------------------------------
(* Proposals.                                                              *)

Proposal(section, kind, item) ==
  [at |-> "pending", section |-> section, kind |-> kind, item |-> item]

Propose(c, proposal) ==
  /\ call[c] = Idle
  /\ Goes(c, proposal)
  /\ UNCHANGED <<rows, log, squad>>

\* _get_proposal: a proposal that is gone, or of another action, is refused and
\* changes nothing.
Pending(p, section, kind) ==
  /\ call[p].at = "pending"
  /\ call[p].section = section
  /\ call[p].kind = kind

Creations == {e \in log : e.of \in Sections /\ e.what = "created"}

\* A new random id, named after the proposal it is confirmed for.
Fresh(p) == <<p, Cardinality({e \in Creations : e.key[1] = p})>>

\* What a request to revoke may name: items that are or have been there, or none.
Nameable == {e.key : e \in Creations} \cup {<<Absent, 0>>}

\* Any cancel end point takes any proposal.
Cancel(p) ==
  /\ call[p].at = "pending"
  /\ Goes(p, Done("cancelled"))
  /\ UNCHANGED <<rows, log, squad>>

\* Mutant: a proposal that is confirmed stays in _pending_proposals.
StaysPending(p) == UNCHANGED call

UsedUp(p) == Goes(p, Done("confirmed"))

ConfirmCreation(p, section, Create(_)) ==
  /\ Pending(p, section, "create")
  /\ Create(Fresh(p))
  /\ UsedUp(p)
  /\ log' = log \cup {Entry(section, "created", Fresh(p))}
  /\ UNCHANGED rows

\* The proposal is used up even if the item is gone, which is not logged.
ConfirmRevocation(p, section, Revoke(_)) ==
  /\ Pending(p, section, "revoke")
  /\ LET item == call[p].item
     IN IF item \in squad[section]
        THEN /\ Revoke(item)
             /\ UsedUp(p)
             /\ log' = log \cup {Entry(section, "revoked", item)}
        ELSE Goes(p, Done("not found")) /\ UNCHANGED <<log, squad>>
  /\ UNCHANGED rows

\* A proposal without its text is refused.
Creation(c, section, Create(_)) ==
  \/ Answers(c, "refused") /\ UNCHANGED squad
  \/ Propose(c, Proposal(section, "create", Absent))
  \/ ConfirmCreation(c, section, Create)
  \/ Cancel(c)

\* Whether there is such an item is only looked at when it is confirmed.
Revocation(c, section, Revoke(_)) ==
  \/ \E item \in Nameable : Propose(c, Proposal(section, "revoke", item))
  \/ ConfirmRevocation(c, section, Revoke)
  \/ Cancel(c)

Roster(c) ==
  Creation(c, "roster", CreateRosterMember) \/ Revocation(c, "roster", RevokeRosterMember)

Invites(c) ==
  Creation(c, "invite", CreateInviteCode) \/ Revocation(c, "invite", RevokeInviteCode)

Roles(c) == Creation(c, "role", CreateRole) \/ Revocation(c, "role", RevokeRole)

SharedOperations(c) ==
  \/ Creation(c, "operation", CreateSharedOperation)
  \/ Revocation(c, "operation", RevokeSharedOperation)

SharedNavigation(c) ==
  \/ Creation(c, "navigation", CreateSharedNavigation)
  \/ Revocation(c, "navigation", RevokeSharedNavigation)

EmergencyNotes(c) ==
  \/ Creation(c, "emergency", CreateEmergencyNote)
  \/ Revocation(c, "emergency", RevokeEmergencyNote)

\* An entry of the squadron's own log is never taken back.
Log(c) == Creation(c, "log", AppendLogEntry)

Reads(c) == Shows(c, [squad |-> squad]) /\ UNCHANGED squad

\* What is reserved for later is recorded and blocked.
ReservedIntent(c) ==
  /\ call[c] = Idle
  /\ \E known \in BOOLEAN :
       /\ Goes(c, Done(IF known THEN "blocked" ELSE "refused"))
       /\ log' = IF known THEN log \cup {Entry("intent", "blocked", <<c, 0>>)} ELSE log
  /\ UNCHANGED <<rows, squad>>

-----------------------------------------------------------------------------
(* Campaign notes: they are archived and never deleted.                    *)

Note(campaign) ==
  [table |-> "note", text |-> "old", campaign |-> campaign, archivedAt |-> Absent]

\* The notes that may still be changed.
ActiveNotes == {k \in All("note") : rows[k].archivedAt = Absent}

NoteEntry(what, k) == {Entry("note", what, <<k, 0>>)}

CreateCampaignNote(c, campaign) ==
  Adds(c, Note(campaign), {},
       NoteEntry("created", c)
         \cup IF campaign = Absent THEN {} ELSE NoteEntry("linked", c))

PostNote(c) ==
  \/ Answers(c, "refused")
  \/ \E campaign \in {"campaign", Absent} : CreateCampaignNote(c, campaign)

\* GET /campaign-notes.
ListCampaignNotes(c) ==
  \E archived \in BOOLEAN : Shows(c, [notes |-> IF archived THEN All("note") ELSE ActiveNotes])

NoteBodies == {[text |-> "new"], [campaign |-> "campaign"], [campaign |-> Absent]}

\* The active notes are listed, to know what the note was linked to.
PatchNote(c, k, body) ==
  /\ call[c] = Idle
  /\ Goes(c, [at |-> "listed", key |-> k, body |-> body,
              linked |-> k \in ActiveNotes /\ rows[k].campaign # Absent])
  /\ UNCHANGED <<rows, log>>

\* What is logged of the link compares with the list, not with the row.
LinkChange(k, body, linked) ==
  IF "campaign" \notin DOMAIN body THEN {}
  ELSE CASE body.campaign # Absent /\ ~linked -> NoteEntry("linked", k)
         [] body.campaign = Absent /\ linked -> NoteEntry("unlinked", k)
         [] OTHER -> {}

UpdateCampaignNote(c) ==
  /\ call[c].at = "listed"
  /\ LET k == call[c].key
         body == call[c].body
     IN IF k \notin ActiveNotes
        THEN Goes(c, Done("not found")) /\ UNCHANGED <<rows, log>>
        ELSE Commits(c, k, rows[k], With(rows[k], body), {},
                     NoteEntry("updated", k) \cup LinkChange(k, body, call[c].linked),
                     TRUE, Done("ok"))

\* Nothing is read back.
ArchiveCampaignNote(c, k) ==
  IF k \notin ActiveNotes
  THEN Answers(c, "not found")
  ELSE /\ call[c] = Idle
       /\ Commits(c, k, rows[k], [rows[k] EXCEPT !.archivedAt = c],
                  {}, NoteEntry("archived", k), FALSE, Done("ok"))

Notes(c) ==
  \/ PostNote(c) \/ ListCampaignNotes(c) \/ UpdateCampaignNote(c)
  \/ \E k \in Names :
       \/ ArchiveCampaignNote(c, k)
       \/ \E body \in NoteBodies : PatchNote(c, k, body)

-----------------------------------------------------------------------------
OnSquad(c) ==
  \/ Roster(c) \/ Invites(c) \/ Roles(c) \/ SharedOperations(c)
  \/ SharedNavigation(c) \/ EmergencyNotes(c) \/ Log(c)
  \/ Reads(c) \/ ReservedIntent(c)

SquadronsNext ==
  \/ \E c \in Calls : OnSquad(c)
  \/ (Database \/ \E c \in Calls : Notes(c)) /\ UNCHANGED squad

SquadronsSpec == Start /\ NothingListed /\ [][SquadronsNext]_<<vars, squad>>

-----------------------------------------------------------------------------
(* Properties.                                                             *)

NoteRows ==
  [table : {"note"}, text : {"old", "new"}, campaign : {"campaign", Absent},
   archivedAt : Names \cup {Absent}]

SquadronsTypeOK ==
  /\ \A s \in Sections : \A item \in squad[s] : item[1] \in Calls
  /\ \A k \in All("note") : rows[k] \in NoteRows

\* The items of a list of which the log tells this.
Those(what, section) ==
  {e.key : e \in {x \in log : x.of = section /\ x.what = what}}

\* The lists are what the log says was confirmed, less what it says was revoked; no
\* proposal makes more than one item, and none does that was cancelled.
SquadFollowsConfirmations ==
  /\ \A s \in Sections :
       squad[s] = Those("created", s) \ Those("revoked", s)
  /\ \A e \in Creations : e.key[2] = 0 /\ call[e.key[1]] = Done("confirmed")

\* The log tells of every note that is made, or is about to.
NotesLogged ==
  \A k \in All("note") \ Old : Entry("note", "created", <<k, 0>>) \in log \/ Coming(k)
=============================================================================
