-------------------------- MODULE CommanderRecord --------------------------
(***************************************************************************)
(* What the journal says of the commander's business:                      *)
(* omnicovas/features/combat_session.py (missions, vouchers, combat rank), *)
(* the Powerplay and BGS recorders of features/local_context_facts.py, and *)
(* their handlers in core/handlers.py.                                     *)
(*                                                                         *)
(* Each line adds to, or takes from, what the lines before it have built.  *)
(* Lines are waiting that may overtake one another, and after a failed       *)
(* catch-up (JournalTail) the journal is read again from its start, so     *)
(* that every line is handled twice.                                       *)
(*                                                                         *)
(* The four stories (missions, rewards, rank, power) write different       *)
(* fields; a behaviour is about one of them.                               *)
(***************************************************************************)
EXTENDS JournalTasks, FiniteSets, NoValue

CONSTANTS
  Missions, Destinations, Powers,
  Ranks,          \* bound: combat ranks, 1 .. Ranks
  HistoryLimit,   \* _PHASE9_HISTORY_LIMIT
  MaxRecordLines, \* bound: lines of the journal and times it is read again, for each story
  MaxRereads      \* bound: times the journal is read again, within MaxRecordLines

ASSUME RecordAssumption ==
  /\ IsFiniteSet(Missions)
  /\ Missing \notin Destinations \cup Powers \cup Nat
  /\ Ranks \in Nat \ {0} /\ HistoryLimit \in Nat \ {0} /\ MaxRereads \in Nat

VARIABLES
  story,   \* what this behaviour is about; it never changes
  truth,   \* how things are in the game
  rec,     \* what the session state says
  \* The variable below only observes the system.
  repeats  \* times the journal was read again

career == <<story, truth, lines>>
recordVars == <<career, waiting, rec, inOrder, repeats>>

Story == {"missions", "rewards", "rank", "power"}
MissionEnd == {"MissionCompleted", "MissionFailed"}   \* MissionAbandoned is like MissionFailed
MissionEntry == [id : Missions, to : Destinations \cup {Missing}]
PowerplayEvent == {"Powerplay", "PowerplayJoin", "PowerplayDefect", "PowerplayLeave",
                   "PowerplayMerits"}

\* The lines of the journal, as far as their handlers look at them.
RecordLine ==
  [type : {"Missions"}, arg : Seq(Missions)]
    \cup [type : {"MissionAccepted", "MissionRedirected"},
          arg : [id : Missions, to : Destinations]]
    \cup [type : MissionEnd, arg : Missions]
    \cup [type : {"RedeemVoucher"}, arg : 1 .. 2]
    \cup [type : {"Rank", "Progress", "Promotion"}, arg : 1 .. Ranks]
    \cup [type : PowerplayEvent, arg : Powers \cup {Missing}]

\* What the session state holds of the commander's business.
RecordState ==
  [missions : Seq(MissionEntry), session : BOOLEAN \cup {Missing},
   bounty : Nat \cup {Missing}, rank : (1 .. Ranks) \cup {Missing},
   progress : (1 .. Ranks) \cup {Missing}, pledge : Powers \cup {Missing},
   history : Seq({"MissionCompleted", "RedeemVoucher"} \cup PowerplayEvent)]

RecordTypeOK ==
  /\ story \in Story
  /\ truth \in [active : [Missions -> Destinations \cup {Missing}], redeemed : Nat,
                rank : 1 .. Ranks, pledge : Powers \cup {Missing}]
  /\ lines \in Seq(RecordLine)
  /\ waiting \in Seq(DOMAIN lines)
  /\ rec \in RecordState
  /\ Len(rec.history) <= HistoryLimit
  /\ inOrder \in BOOLEAN /\ repeats \in 0 .. MaxRereads

News(type, arg) == [type |-> type, arg |-> arg]

Active == {m \in Missions : truth.active[m] # Missing}

\* The lines a game session begins with.
Opening ==
  CASE story = "missions" -> <<News("Missions", SetToSeq(Active))>>
    [] story = "rank" -> <<News("Rank", truth.rank), News("Progress", truth.rank)>>
    [] story = "power" -> IF truth.pledge = Missing THEN <<>>
                          ELSE <<News("Powerplay", truth.pledge)>>
    [] story = "rewards" -> <<>>

RecordInit ==
  /\ story \in Story
  /\ truth \in [active : [Missions -> Destinations \cup {Missing}], redeemed : {0},
                rank : {1}, pledge : Powers \cup {Missing}]
  /\ story # "missions" => \A m \in Missions : truth.active[m] = Missing
  /\ story # "power" => truth.pledge = Missing
  /\ lines = Opening
  /\ waiting = [n \in DOMAIN lines |-> n]
  /\ rec = [missions |-> <<>>, session |-> Missing, bounty |-> Missing, rank |-> Missing,
            progress |-> Missing, pledge |-> Missing, history |-> <<>>]
  /\ inOrder = TRUE /\ repeats = 0

-----------------------------------------------------------------------------
(* The game.                                                               *)

WriteNews(new) ==
  /\ Len(lines) + Len(new) + repeats <= MaxRecordLines[story]
  /\ lines' = lines \o new
  /\ waiting' = waiting \o [n \in DOMAIN new |-> Len(lines) + n]
  /\ UNCHANGED <<story, rec, inOrder, repeats>>

\* A new game session repeats the opening.
Relog ==
  /\ Opening # <<>>
  /\ WriteNews(Opening)
  /\ UNCHANGED truth

Accept(m, d) ==
  /\ story = "missions" /\ truth.active[m] = Missing
  /\ truth' = [truth EXCEPT !.active[m] = d]
  /\ WriteNews(<<News("MissionAccepted", [id |-> m, to |-> d])>>)

Redirect(m, d) ==
  /\ story = "missions" /\ truth.active[m] \notin {Missing, d}
  /\ truth' = [truth EXCEPT !.active[m] = d]
  /\ WriteNews(<<News("MissionRedirected", [id |-> m, to |-> d])>>)

EndMission(m, type) ==
  /\ story = "missions" /\ truth.active[m] # Missing
  /\ truth' = [truth EXCEPT !.active[m] = Missing]
  /\ WriteNews(<<News(type, m)>>)

Redeem(amount) ==
  /\ story = "rewards"
  /\ truth' = [truth EXCEPT !.redeemed = @ + amount]
  /\ WriteNews(<<News("RedeemVoucher", amount)>>)

Promote ==
  /\ story = "rank" /\ truth.rank < Ranks
  /\ truth' = [truth EXCEPT !.rank = @ + 1]
  /\ WriteNews(<<News("Promotion", truth.rank + 1)>>)

Pledge(p) ==
  /\ story = "power" /\ p # truth.pledge
  /\ truth' = [truth EXCEPT !.pledge = p]
  /\ WriteNews(<<News(IF p = Missing THEN "PowerplayLeave"
                  ELSE IF truth.pledge = Missing THEN "PowerplayJoin" ELSE "PowerplayDefect", p)>>)

\* Any other Powerplay event.
WorkForPower ==
  /\ story = "power" /\ truth.pledge # Missing
  /\ UNCHANGED truth
  /\ WriteNews(<<News("PowerplayMerits", truth.pledge)>>)

\* A failed catch-up: the next change of the file delivers it from its start.
RereadAll ==
  /\ repeats < MaxRereads /\ Len(lines) < MaxRecordLines[story]
  /\ repeats' = repeats + 1
  /\ waiting' = waiting \o [n \in DOMAIN lines |-> n]
  /\ UNCHANGED <<career, rec, inOrder>>

-----------------------------------------------------------------------------
(* Handlers.                                                               *)

\* Mutant: the snapshot adds to what is listed.
RecordMissionsMerged(r, ids) ==
  [r EXCEPT !.missions = @ \o [n \in DOMAIN ids |-> [id |-> ids[n], to |-> Missing]],
            !.session = (r.missions # <<>> \/ ids # <<>>)]

\* record_missions_snapshot replaces the list; the snapshot knows no destinations.
RecordMissions(r, ids) ==
  [r EXCEPT !.missions = [n \in DOMAIN ids |-> [id |-> ids[n], to |-> Missing]],
            !.session = (ids # <<>>)]

\* record_mission_accepted appends, whatever is listed already.
RecordAccepted(r, entry) ==
  [r EXCEPT !.missions = Append(@, entry), !.session = TRUE]

\* The first entry of mission m, if there is one.
Entries(r, m) == {n \in DOMAIN r.missions : r.missions[n].id = m}
FirstEntry(r, m) == CHOOSE n \in Entries(r, m) : \A k \in Entries(r, m) : n <= k

\* _commit_mission_status_change removes one entry.
RecordEnded(r, m) ==
  IF Entries(r, m) = {} THEN r
  ELSE [r EXCEPT !.missions = RemoveAt(@, FirstEntry(r, m)), !.session = (Len(r.missions) > 1)]

RecordRedirected(r, entry) ==
  IF Entries(r, entry.id) = {} THEN r
  ELSE [r EXCEPT !.missions[FirstEntry(r, entry.id)].to = entry.to]

\* _bounded_history.
Remember(r, event) ==
  LET all == Append(r.history, event)
  IN [r EXCEPT !.history =
        SubSeq(all, IF Len(all) > HistoryLimit THEN Len(all) - HistoryLimit + 1 ELSE 1, Len(all))]

\* Mutant: the last voucher is the total.
RecordVoucherLast(r, amount) == [Remember(r, "RedeemVoucher") EXCEPT !.bounty = amount]

\* record_redeem_voucher, after record_phase9_bgs_reward_event.
RecordVoucher(r, amount) ==
  [Remember(r, "RedeemVoucher") EXCEPT !.bounty = IF @ = Missing THEN amount ELSE @ + amount]

\* record_promotion clears the progress.
RecordPromotion(r, rank) == [r EXCEPT !.rank = rank, !.progress = Missing]

\* Mutant: a defection keeps the pledge.
RecordPowerKeptOnDefect(r, e) ==
  LET seen == Remember(r, e.type)
  IN IF e.type \in {"Powerplay", "PowerplayJoin", "PowerplayLeave"}
       THEN [seen EXCEPT !.pledge = e.arg] ELSE seen

\* record_phase9_powerplay_event: four events tell the pledge.
RecordPower(r, e) ==
  LET seen == Remember(r, e.type)
  IN IF e.type \in {"Powerplay", "PowerplayJoin", "PowerplayDefect", "PowerplayLeave"}
       THEN [seen EXCEPT !.pledge = e.arg] ELSE seen

\* What the handler of line e leaves of r.
Recorded(r, e) ==
  CASE e.type = "Missions" -> RecordMissions(r, e.arg)
    [] e.type = "MissionAccepted" -> RecordAccepted(r, e.arg)
    [] e.type = "MissionCompleted" -> RecordEnded(Remember(r, e.type), e.arg)
    [] e.type = "MissionFailed" -> RecordEnded(r, e.arg)
    [] e.type = "MissionRedirected" -> RecordRedirected(r, e.arg)
    [] e.type = "RedeemVoucher" -> RecordVoucher(r, e.arg)
    [] e.type = "Rank" -> [r EXCEPT !.rank = e.arg]
    [] e.type = "Progress" -> [r EXCEPT !.progress = e.arg]
    [] e.type = "Promotion" -> RecordPromotion(r, e.arg)
    [] OTHER -> RecordPower(r, e)

HandleRecordLine(n) ==
  /\ TakeOut(n)
  /\ rec' = Recorded(rec, lines[waiting[n]])
  /\ UNCHANGED <<story, truth, repeats>>

RecordNext ==
  \/ Relog
  \/ \E m \in Missions, d \in Destinations : Accept(m, d) \/ Redirect(m, d)
  \/ \E m \in Missions, type \in MissionEnd : EndMission(m, type)
  \/ \E amount \in 1 .. 2 : Redeem(amount)
  \/ Promote
  \/ \E p \in Powers \cup {Missing} : Pledge(p)
  \/ WorkForPower
  \/ RereadAll
  \/ \E n \in DOMAIN waiting : HandleRecordLine(n)

RecordSpec == RecordInit /\ [][RecordNext]_recordVars

-----------------------------------------------------------------------------
(* Properties.                                                             *)

\* The missions listed are those active in the game, each once, and a destination
\* that is shown is the mission's.
MissionsRight ==
  /\ {rec.missions[n].id : n \in DOMAIN rec.missions} = Active
  /\ Len(rec.missions) = Cardinality(Active)
  /\ \A n \in DOMAIN rec.missions :
       rec.missions[n].to \in {Missing, truth.active[rec.missions[n].id]}
  /\ rec.session = (Active # {})

\* Lines handled in order leave the right list, even when the journal was handled
\* twice: its opening Missions event starts the list afresh.
MissionsSettle == (story = "missions" /\ Settled) => MissionsRight

\* And whatever went wrong before, a Missions event that comes last puts it right.
SnapshotHeals ==
  [][(/\ story = "missions" /\ waiting # <<>> /\ waiting' = <<>>
      /\ Last(waiting) = Len(lines) /\ Last(lines).type = "Missions") =>
        MissionsRight']_recordVars

\* The credits of the vouchers whose handlers have not run, one by one.
Underway ==
  UNION {{n} \X (1 .. lines[n].arg) : n \in {waiting[k] : k \in DOMAIN waiting}}

\* No voucher is lost or counted twice, in whatever order they are handled, as long
\* as the journal is read once: the total and what is under way are what was redeemed.
VouchersConserved ==
  (story = "rewards" /\ repeats = 0) =>
    (IF rec.bounty = Missing THEN 0 ELSE rec.bounty) + Cardinality(Underway) = truth.redeemed

\* Progress is shown of the rank shown, or not at all, unless a journal is handled
\* again whose ranks have been passed.
ProgressOfRank ==
  (story = "rank" /\ inOrder /\ repeats = 0) => rec.progress \in {Missing, rec.rank}

\* The pledge shown settles on the commander's.
PledgeSettles == (story = "power" /\ Settled) => rec.pledge = truth.pledge

\* combat_session.py: the missions listed and the pledge settle on the commander's,
\* progress is shown of the rank shown, and no voucher is lost or counted twice.
RecordSettles == MissionsSettle /\ PledgeSettles /\ ProgressOfRank /\ VouchersConserved
=============================================================================
