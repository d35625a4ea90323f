----------------------------- MODULE Engineering -----------------------------
(***************************************************************************)
(* The engineering plans of the commander (features/engineering.py) and    *)
(* the end points on them (api/engineering.py): goals, planned builds,     *)
(* material requirements, acquisition plans and what is handed over to     *)
(* other pages, readiness notes, and the disabled imports.                 *)
(*                                                                         *)
(* A row has its state and one other column that a PATCH may set; counts,  *)
(* titles and notes are abstracted.  Bodies with the state "bad" stand for *)
(* what validation refuses.                                                *)
(***************************************************************************)
EXTENDS Integers, Sequences, RecordCalls

CONSTANT Kinds      \* kinds of readiness notes

Providers == <<"coriolis", "edsy">>

\* The rows that calls make for them have keys of their own.
ASSUME ImportsAssumption == Calls \X {Providers[1], Providers[2]} \subseteq Further

Bodies == {[state |-> "complete"], [state |-> "bad"], [state |-> Absent],
           [notes |-> Absent], [notes |-> "new"]}

Refused(body) == "state" \in DOMAIN body /\ body.state = "bad"

\* A row as a handler makes it, or the answer to a body that is refused.
Create(c, row, before, after) ==
  IF row.state = "bad" THEN Answers(c, "refused") ELSE Adds(c, row, before, after)

\* The changes are made in the order of the columns once the row is there.
Update(c, table, k, changes, events) ==
  IF k \in All(table) /\ Refused(changes)
  THEN Answers(c, "refused")
  ELSE Changes(c, table, k, changes, events, {})

-----------------------------------------------------------------------------
(* Goals.                                                                  *)

Goal(state) == [table |-> "goal", state |-> state, notes |-> "old"]

CreateGoal(c, state) == Create(c, Goal(state), {Entry("goal", "created", c)}, {})

\* The change of state is an event of its own.
Changed(k, changes) ==
  "state" \in DOMAIN changes /\ rows[k] # Absent /\ rows[k].state # changes.state

UpdateGoal(c, k, changes) ==
  Update(c, "goal", k, changes,
         {Entry("goal", IF Changed(k, changes) THEN "state" ELSE "updated", k)})

\* Mutant: the deletion is logged ahead of the commit.
DeleteGoalLoggedFirst(c, k) ==
  IF k \notin All("goal")
  THEN Answers(c, "not found")
  ELSE /\ call[c] = Idle
       /\ Commits(c, k, rows[k], Absent, {Entry("goal", "archived", k)}, {}, FALSE, Done("ok"))

DeleteGoal(c, k) == Removes(c, "goal", k, {Entry("goal", "archived", k)})

PostGoal(c) == \E state \in {"active", "bad"} : CreateGoal(c, state)

PatchGoal(c, k) == \E body \in Bodies : UpdateGoal(c, k, Given(body, {"notes"}))

-----------------------------------------------------------------------------
(* Planned builds.                                                         *)

Build(state) == [table |-> "build", state |-> state, notes |-> "old"]

CreateBuildPlan(c, state) == Create(c, Build(state), {Entry("build", "created", c)}, {})

UpdateBuildPlan(c, k, changes) ==
  Update(c, "build", k, changes, {Entry("build", "updated", k)})

DeleteBuildPlan(c, k) == Removes(c, "build", k, {Entry("build", "archived", k)})

PostBuild(c) == \E state \in {"active", "bad"} : CreateBuildPlan(c, state)

PatchBuild(c, k) == \E body \in Bodies : UpdateBuildPlan(c, k, Given(body, {"notes"}))

-----------------------------------------------------------------------------
(* Material requirements: a count that is not given is unknown, not zero.  *)

GapState(row) ==
  CASE row.required = Absent -> "gap_unknown_requirement"
    [] row.required # Absent /\ row.current = Absent -> "gap_unknown_inventory"
    [] OTHER -> IF row.required = "more" THEN "gap_known" ELSE "complete"

\* Without a key the end point always makes a new row; required is more than
\* what the commander has, or no more than that.
UpsertMaterialOverride(c, required, current) ==
  IF required = "bad"
  THEN Answers(c, "refused")
  ELSE Adds(c, [table |-> "material", required |-> required, current |-> current],
            {}, {Entry("material", "created", c)})

DeleteMaterialOverride(c, k) == Removes(c, "material", k, {Entry("material", "archived", k)})

PostMaterial(c) ==
  \E required \in {"more", "enough", "bad", Absent}, current \in {"some", Absent} :
    UpsertMaterialOverride(c, required, current)

\* GET /materials: the snapshot of a ship of which nothing is known, or the gaps.
Materials(c) ==
  IF All("material") = {} THEN Answers(c, "not loaded")
  ELSE Shows(c, [gaps |-> {GapState(rows[k]) : k \in All("material")}])

-----------------------------------------------------------------------------
(* Acquisition plans.                                                      *)

Plan(state) == [table |-> "plan", state |-> state, notes |-> "old",
                handoffs |-> {}, task |-> Absent]

CreateAcquisitionPlan(c, state) == Create(c, Plan(state), {Entry("plan", "created", c)}, {})

UpdateAcquisitionPlan(c, k, changes) ==
  Update(c, "plan", k, changes,
         {Entry("plan", IF Changed(k, changes) THEN "state" ELSE "updated", k)})

DeleteAcquisitionPlan(c, k) == Removes(c, "plan", k, {Entry("plan", "archived", k)})

PostPlan(c) == \E state \in {"active", "bad"} : CreateAcquisitionPlan(c, state)

PatchPlan(c, k) == \E body \in Bodies : UpdateAcquisitionPlan(c, k, Given(body, {"notes"}))

\* The list of handoffs is read, appended to and written back.
HandoffToNavigation(c, k) ==
  LET seen == IF k \in All("plan") THEN rows[k].handoffs ELSE {}
  IN Changes(c, "plan", k, [state |-> "sent to navigation", handoffs |-> seen \cup {c}],
             {Entry("plan", "handoff", c)}, {})

\* A task there is already is handed over again.
HandoffToOperations(c, k) ==
  LET task == IF k \in All("plan") /\ rows[k].task # Absent THEN rows[k].task ELSE c
  IN Changes(c, "plan", k, [state |-> "sent to operations", task |-> task],
             {Entry("plan", "task", k)}, {})

-----------------------------------------------------------------------------
(* Readiness notes are only created and listed.                            *)

CreateReadinessState(c, kind, state) ==
  IF kind \notin Kinds \/ state = "bad"
  THEN Answers(c, "refused")
  ELSE Adds(c, [table |-> kind, state |-> state], {}, {Entry(kind, "created", c)})

PostReadiness(c) ==
  \E kind \in Kinds \cup {"bad"}, state \in {"active", "bad"} : CreateReadinessState(c, kind, state)

-----------------------------------------------------------------------------
(* Imports are disabled; the state of each source is a row of its own that *)
(* is made when it is first asked for.                                     *)

ImportsOf(p) == {k \in All("import") : rows[k].provider = p}

\* ensure_import_source_state: one row or none is looked for and a second one is
\* an error; then the call goes on to next, with an entry for an attempt.
EnsureImportSource(c, p, attempt, next) ==
  LET made == Entry("import", "created", <<c, p>>)
  IN IF Cardinality(ImportsOf(p)) > 1
     THEN Goes(c, Done("error")) /\ UNCHANGED <<rows, log>>
     ELSE IF ImportsOf(p) # {}
     THEN Goes(c, next) /\ log' = log \cup attempt /\ UNCHANGED rows
     ELSE Commits(c, <<c, p>>, Absent, [table |-> "import", provider |-> p],
                  {}, {made} \cup attempt, TRUE, next)

\* The attempt is logged whatever the state of the source; there is no other effect.
AttemptImport(c, p) ==
  IF p \notin {Providers[1], Providers[2]}
  THEN Answers(c, "refused")
  ELSE /\ call[c] = Idle
       /\ EnsureImportSource(c, p, {Entry("import", "attempt", c)}, Done("disabled"))

\* GET /import-sources makes the rows that are missing, one after the other.
ImportSources(c) ==
  \/ /\ call[c] = Idle
     /\ EnsureImportSource(c, Providers[1], {}, [at |-> "second source"])
  \/ /\ call[c].at = "second source"
     /\ EnsureImportSource(c, Providers[2], {}, Done("disabled"))

\* Attempts on sources that are gated are only logged.
AttemptSource(c) ==
  \/ Answers(c, "not found")
  \/ /\ call[c] = Idle
     /\ Goes(c, Done("blocked"))
     /\ log' = log \cup {Entry("import", "attempt", c)}
     /\ UNCHANGED rows

-----------------------------------------------------------------------------
(* Lists.                                                                  *)

ListGoals == All("goal")
ListBuildPlans == All("build")
ListAcquisitionPlans == All("plan")

GetGoals(c) == Shows(c, [goals |-> ListGoals])
GetBuilds(c) == Shows(c, [builds |-> ListBuildPlans])
GetAcquisitionPlans(c) == Shows(c, [plans |-> ListAcquisitionPlans])

\* One kind of notes; the kinds are asked for one after the other for all of them.
ListReadiness(c) ==
  \/ \E kind \in Kinds : Shows(c, [readiness |-> All(kind)])
  \/ /\ call[c] = Idle
     /\ Goes(c, [at |-> "readiness", unread |-> Kinds, found |-> {}])
     /\ UNCHANGED <<rows, log>>
  \/ /\ call[c].at = "readiness"
     /\ \E kind \in call[c].unread :
          LET unread == call[c].unread \ {kind}
              found == call[c].found \cup All(kind)
          IN Goes(c, IF unread = {} THEN Shown([readiness |-> found])
                     ELSE [at |-> "readiness", unread |-> unread, found |-> found])
     /\ UNCHANGED <<rows, log>>

-----------------------------------------------------------------------------
(* The overview lists every table twice: once for the counts, and again    *)
(* for what is shown next to them.                                         *)

ActiveGoals(goals) == {k \in goals : rows[k].state # "complete"}

Counts ==
  [goals |-> Cardinality(All("goal")), active |-> Cardinality(ActiveGoals(All("goal"))),
   builds |-> Cardinality(All("build")), plans |-> Cardinality(All("plan")),
   gaps |-> Cardinality({k \in All("material") : GapState(rows[k]) \in {"gap_known", "complete"}}),
   readiness |-> Cardinality(UNION {All(kind) : kind \in Kinds})]

Overview(c) ==
  \/ /\ call[c] = Idle
     /\ Goes(c, [at |-> "overview", counts |-> Counts])
     /\ UNCHANGED <<rows, log>>
  \/ /\ call[c].at = "overview"
     /\ Goes(c, Shown([counts |-> call[c].counts, goals |-> All("goal"), plans |-> All("plan")]))
     /\ UNCHANGED <<rows, log>>

-----------------------------------------------------------------------------
ChangingPlans(c, k) ==
  \/ PatchGoal(c, k) \/ DeleteGoal(c, k) \/ PatchBuild(c, k) \/ DeleteBuildPlan(c, k)
  \/ DeleteMaterialOverride(c, k) \/ PatchPlan(c, k) \/ DeleteAcquisitionPlan(c, k)
  \/ HandoffToNavigation(c, k) \/ HandoffToOperations(c, k)

AskingPlans(c) ==
  \/ PostGoal(c) \/ PostBuild(c) \/ PostMaterial(c) \/ PostPlan(c) \/ PostReadiness(c)
  \/ GetGoals(c) \/ GetBuilds(c) \/ GetAcquisitionPlans(c) \/ ListReadiness(c)
  \/ Materials(c) \/ Overview(c) \/ AttemptSource(c)
  \/ ImportSources(c) \/ \E p \in {"edsy", "other"} : AttemptImport(c, p)

OnPlans(c) == AskingPlans(c) \/ \E k \in Names : ChangingPlans(c, k)

PlansSpec == Start /\ [][Database \/ \E c \in Calls : OnPlans(c)]_vars

-----------------------------------------------------------------------------
(* Properties.                                                             *)

Planned == {"goal", "build", "plan", "material", "import"} \cup Kinds

GoalRows ==
  [table : {"goal", "build"}, state : {"active", "complete"}, notes : {"old", "new", Absent}]

AcquisitionRows ==
  [table : {"plan"}, notes : {"old", "new", Absent},
   state : {"active", "complete", "sent to navigation", "sent to operations"},
   handoffs : SUBSET Names, task : Names \cup {Absent}]

MaterialRows ==
  [table : {"material"}, required : {"more", "enough", Absent}, current : {"some", Absent}]

ImportRows == [table : {"import"}, provider : {Providers[1], Providers[2]}]

ReadinessRows == [table : Kinds, state : {"active"}]

PlanRows == GoalRows \cup AcquisitionRows \cup MaterialRows \cup ImportRows \cup ReadinessRows

PlansTypeOK == \A table \in Planned : \A k \in All(table) : rows[k] \in PlanRows

\* The activity log tells of every row that is made, unless the call that made it
\* is about to; and a row that is logged as deleted is gone for good, whatever a
\* call wrote that had read it before.
PlansLogged ==
  /\ \A table \in Planned : \A k \in All(table) \ Old :
       Entry(table, "created", k) \in log \/ Coming(k)
  /\ \A e \in log : (e.of \in Planned /\ e.what = "archived") => rows[e.key] = Absent
=============================================================================
