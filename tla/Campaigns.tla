------------------------------ MODULE Campaigns ------------------------------
(***************************************************************************)
(* Campaign objectives (features/campaign.py), the drafting of plans by a  *)
(* language model behind the confirmation gate (campaign_drafter.py,       *)
(* confirmation_gate.py) and the end points on them (api/operations.py).   *)
(*                                                                         *)
(* A draft waits for the provider between the get of its campaign and the  *)
(* commit, for as long as the provider takes.  Texts are abstracted; facts *)
(* and circuits are names the commander links to a campaign.               *)
(***************************************************************************)
EXTENDS Integers, RecordCalls

CONSTANTS Facts,        \* names of Intel facts
          Outputs       \* what a provider may answer

Workflows == {"bgs", "powerplay"}
States == {"proposed", "active", "blocked", "completed", "archived"}

AllowedTransitions ==
  [proposed |-> {"active", "archived"}, active |-> {"blocked", "completed", "archived"},
   blocked |-> {"active", "archived"}, completed |-> {"archived"}, archived |-> {}]

Campaign(workflow, state) ==
  [table |-> "campaign", workflow |-> workflow, state |-> state, title |-> "old",
   archivedAt |-> Absent, facts |-> {}, circuits |-> {}, drafts |-> {}]

\* Campaigns are never deleted, so that a row that was got is there.
Is(k) == k \in All("campaign")

-----------------------------------------------------------------------------
(* Objectives.                                                             *)

CreateCampaign(c, workflow, state) ==
  IF workflow \notin Workflows \/ state \notin States
  THEN Answers(c, "refused")
  ELSE Adds(c, Campaign(workflow, state), {Entry("campaign", "created", c)}, {})

\* An archived campaign may be edited.
UpdateCampaign(c, k, changes) ==
  Changes(c, "campaign", k, changes, {Entry("campaign", "updated", k)}, {})

\* Archiving is a transition, too, and stamps the row.
TransitionState(c, k, state) ==
  IF state \notin States \/ (Is(k) /\ state \notin AllowedTransitions[rows[k].state])
  THEN Answers(c, "refused")
  ELSE Changes(c, "campaign", k,
               IF state = "archived" THEN [state |-> state, archivedAt |-> c]
               ELSE [state |-> state],
               {Entry("campaign", state, k)}, {})

\* A list that is linked is read, changed and written back as a whole.
LinkIntelFact(c, k, fact, link) ==
  LET linked == IF Is(k) THEN rows[k].facts ELSE {}
  IN Changes(c, "campaign", k,
             [facts |-> IF link THEN linked \cup {fact} ELSE linked \ {fact}],
             {Entry("campaign", IF link THEN "fact linked" ELSE "fact unlinked", k)}, {})

LinkNavigationCircuit(c, k, circuit, link) ==
  LET linked == IF Is(k) THEN rows[k].circuits ELSE {}
  IN Changes(c, "campaign", k,
             [circuits |-> IF link THEN linked \cup {circuit} ELSE linked \ {circuit}],
             {Entry("campaign", IF link THEN "circuit linked" ELSE "circuit unlinked", k)}, {})

\* Nothing is read back; a campaign that is archived already is left alone.
ArchiveCampaign(c, k) ==
  /\ Is(k) /\ rows[k].state # "archived"
  /\ call[c] = Idle
  /\ Commits(c, k, rows[k], [rows[k] EXCEPT !.state = "archived", !.archivedAt = c],
             {Entry("campaign", "archived", k)}, {}, FALSE, Done("archived"))

-----------------------------------------------------------------------------
(* The gate and the drafter.                                               *)

\* require_confirmation: at this commit it decides at once, and always keeps a record.
Gate(c, approved) == {Entry("gate", IF approved THEN "approved" ELSE "rejected", c)}

\* The entries of the knowledge base on a kind of campaign; some need review.
KBExcerpts(workflow) == IF workflow = "bgs" THEN {"bgs"} ELSE {"powerplay"}

NeedsReview(workflow) == workflow = "powerplay"

\* What the provider is told: names of facts and excerpts, and no private text.
Prompt(row) == [facts |-> row.facts, kb |-> KBExcerpts(row.workflow), workflow |-> row.workflow]

\* Mutant: what a draft cites is taken on trust.
ValidUnchecked(output, prompt) == output.claim = "none"

\* validate_draft_output: what is not a JSON object cites nothing that could be checked.
Valid(output, prompt) ==
  /\ output.shape # "object" \/ (~output.fact /\ output.cites \subseteq prompt.facts
                                  /\ output.kb \subseteq prompt.kb)
  /\ output.claim \notin {"provider", "tick"}
  /\ output.claim = "merit" => ~NeedsReview(prompt.workflow)

\* The draft as the history keeps it; its sources are those of the gate.
Draft(c, output, prompt) ==
  [by |-> c, sources |-> prompt.facts, cites |-> IF output.shape = "object" THEN output.cites ELSE {}]

\* request_ai_draft up to the provider, which is asked or is none.
RequestAiDraft(c, k, approved, provider) ==
  /\ Is(k)
  /\ call[c] = Idle
  /\ log' = log \cup {Entry("campaign", "gate shown", k)} \cup Gate(c, approved)
            \cup {Entry("campaign", IF approved THEN "gate confirmed" ELSE "gate canceled", k)}
  /\ UNCHANGED rows
  /\ Goes(c, IF ~approved THEN Done("gate_canceled")
             ELSE IF ~provider THEN Done("nullprovider")
             ELSE [at |-> "asked", key |-> k, seen |-> rows[k]])

\* The provider fails, or has no answer.
NullProvider(c) ==
  /\ call[c].at = "asked"
  /\ Goes(c, Shown([sources |-> call[c].seen.facts, kb |-> KBExcerpts(call[c].seen.workflow)]))
  /\ UNCHANGED <<rows, log>>

\* The history of the row as it was read is written back with the draft.  Of JSON
\* that is no object nothing can be taken: the call ends in an error.
Answered(c, output) ==
  /\ call[c].at = "asked"
  /\ LET row == call[c].seen
         k == call[c].key
         prompt == Prompt(row)
     IN IF ~Valid(output, prompt)
        THEN /\ Goes(c, Done("validation_failed"))
             /\ log' = log \cup {Entry("campaign", "draft refused", k)}
             /\ UNCHANGED rows
        ELSE IF output.shape = "other"
        THEN Goes(c, Done("error")) /\ UNCHANGED <<rows, log>>
        ELSE Commits(c, k, row, [row EXCEPT !.drafts = @ \cup {Draft(c, output, prompt)}],
                     {Entry("campaign", "draft emitted", k)}, {}, FALSE, Done("emitted"))

-----------------------------------------------------------------------------
(* End points.                                                             *)

PostCampaign(c) ==
  \E workflow \in Workflows, state \in {"proposed", "archived", "bad"} :
    CreateCampaign(c, workflow, state)

PatchCampaign(c, k) ==
  \E body \in {[title |-> Absent], [title |-> "new"]} : UpdateCampaign(c, k, Given(body, {}))

PostState(c, k) == \E state \in States \cup {"bad"} : TransitionState(c, k, state)

PostIntelLink(c, k) == \E fact \in Facts, link \in BOOLEAN : LinkIntelFact(c, k, fact, link)

PostNavigationLink(c, k) == \E link \in BOOLEAN : LinkNavigationCircuit(c, k, "circuit", link)

PostAiDraft(c, k) ==
  \/ ~Is(k) /\ Answers(c, "not found")
  \/ \E approved, provider \in BOOLEAN : RequestAiDraft(c, k, approved, provider)

\* Whether a campaign that was not archived now is missing is looked up again.
DeleteCampaign(c, k) ==
  \/ ArchiveCampaign(c, k)
  \/ ~Is(k) /\ Answers(c, "not found")
  \/ Is(k) /\ rows[k].state = "archived" /\ Answers(c, "already_archived")

\* list_campaigns: archived ones are in the list unless the caller filters them.
ListCampaigns(c) ==
  \E workflow \in Workflows \cup {Absent, "bad"}, state \in States \cup {Absent} :
    IF workflow = "bad" THEN Answers(c, "refused")
    ELSE Shows(c, [campaigns |-> {k \in All("campaign") : workflow \in {Absent, rows[k].workflow}
                                                         /\ state \in {Absent, rows[k].state}}])

GetCampaign(c, k) == IF Is(k) THEN Shows(c, [campaign |-> rows[k]]) ELSE Answers(c, "not found")

-----------------------------------------------------------------------------
OnCampaigns(c) ==
  \/ PostCampaign(c) \/ ListCampaigns(c) \/ NullProvider(c)
  \/ \E output \in Outputs : Answered(c, output)
  \/ \E k \in Names :
       \/ PatchCampaign(c, k) \/ PostState(c, k) \/ PostIntelLink(c, k)
       \/ PostNavigationLink(c, k) \/ PostAiDraft(c, k) \/ DeleteCampaign(c, k)
       \/ GetCampaign(c, k)

CampaignsSpec == Start /\ [][Database \/ \E c \in Calls : OnCampaigns(c)]_vars

-----------------------------------------------------------------------------
(* Properties.                                                             *)

Drafts == [by : Names, sources : SUBSET Facts, cites : SUBSET Facts]

CampaignRows ==
  [table : {"campaign"}, workflow : Workflows, state : States, title : {"old", "new"},
   archivedAt : Names \cup {Absent}, facts : SUBSET Facts, circuits : SUBSET {"circuit"},
   drafts : SUBSET Drafts]

CampaignsTypeOK == \A k \in All("campaign") : rows[k] \in CampaignRows

\* A draft of this session was approved at the gate, and none cites a fact but those
\* that were linked to its campaign when the gate was shown.
Sourced(d) ==
  /\ d.by \in Calls => Entry("gate", "approved", d.by) \in log
  /\ d.cites \subseteq d.sources

\* Every draft in a history is.
DraftsSourced == \A k \in All("campaign") : \A d \in rows[k].drafts : Sourced(d)
=============================================================================
