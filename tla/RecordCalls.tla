----------------------------- MODULE RecordCalls -----------------------------
(***************************************************************************)
(* Calls of the local HTTP API on the session database, as the modules     *)
(* about planning records make them.  A handler gets a row, changes it,    *)
(* commits, reads the row back and writes an entry of the activity log,    *)
(* and other calls run whenever it waits for the database: after the get,  *)
(* during the commit and before the read-back.  A commit writes the        *)
(* columns the handler changed, to the row of that key, whatever the row   *)
(* has become; nothing detects that it has changed since the get.          *)
(*                                                                         *)
(* The row a call creates has the name of the call: keys are random and    *)
(* never used again.  The activity log is in memory and starts empty.      *)
(***************************************************************************)
EXTENDS FiniteSets

CONSTANTS Old,      \* keys of the rows of earlier sessions
          Calls,    \* the calls of a behaviour
          Further,  \* keys of other rows
          Earlier,  \* what the tables may hold of earlier sessions
          Absent    \* no row, no value

VARIABLES rows,     \* the tables of the session database
          log,      \* entries of the activity log
          call      \* where each call is

\* What a row, or what happens to it, may be named after.
Names == Old \cup Calls

Keys == Names \cup Further

ASSUME KeysAssumption ==
  /\ Old \cap Calls = {} /\ Names \cap Further = {}
  /\ Absent \notin Names

vars == <<rows, log, call>>

Idle == [at |-> "idle"]
Done(answer) == [at |-> "done", answer |-> answer]

\* Nothing has been called; the rows are those of earlier sessions.
Start ==
  /\ \E some \in Earlier :
       rows = [k \in Keys |-> IF k \in DOMAIN some THEN some[k] ELSE Absent]
  /\ log = {}
  /\ call = [c \in Calls |-> Idle]

\* The rows of a table, and one of them, if there is such a row.
All(table) == {k \in Keys : rows[k] # Absent /\ rows[k].table = table}

\* What happened to the row, or the item, of that key.
Entry(table, what, k) == [of |-> table, what |-> what, key |-> k]

Goes(c, next) == call' = [call EXCEPT ![c] = next]

\* The call is over and nothing was written.
Answers(c, answer) ==
  call[c] = Idle /\ Goes(c, Done(answer)) /\ UNCHANGED <<rows, log>>

\* The call is over and has shown what it read.
Shown(values) == [at |-> "done", shown |-> values]
Shows(c, values) == call[c] = Idle /\ Goes(c, Shown(values)) /\ UNCHANGED <<rows, log>>

\* The call waits for a commit that makes row k of what it has seen what it
\* wants; before was logged ahead of the commit, after is logged at the end.
Commits(c, k, seen, wanted, before, after, readBack, next) ==
  /\ Goes(c, [at |-> "commit", key |-> k, seen |-> seen, wanted |-> wanted,
              after |-> after, readBack |-> readBack, next |-> next])
  /\ log' = log \cup before
  /\ UNCHANGED rows

Adds(c, row, before, after) ==
  call[c] = Idle /\ Commits(c, c, Absent, row, before, after, TRUE, Done("ok"))

\* The row with the columns of cells set.
With(row, cells) == [f \in DOMAIN row |-> IF f \in DOMAIN cells THEN cells[f] ELSE row[f]]

\* The columns of cells are set in the row, if it is there.
Changes(c, table, k, cells, before, after) ==
  IF k \notin All(table)
  THEN Answers(c, "not found")
  ELSE /\ call[c] = Idle
       /\ Commits(c, k, rows[k], With(rows[k], cells), before, after, TRUE, Done("ok"))

Removes(c, table, k, after) ==
  IF k \notin All(table)
  THEN Answers(c, "not found")
  ELSE /\ call[c] = Idle
       /\ Commits(c, k, rows[k], Absent, {}, after, FALSE, Done("ok"))

\* Mutant: the whole row is written as the handler saw it.
WrittenWhole(now, seen, wanted) == wanted

\* The row after the commit: changed columns only.
Written(now, seen, wanted) ==
  IF seen = Absent \/ wanted = Absent
  THEN wanted
  ELSE [f \in DOMAIN wanted |-> IF wanted[f] # seen[f] THEN wanted[f] ELSE now[f]]

\* An UPDATE of a row that is gone is an error, a DELETE of it is not.
Stale(c) ==
  call[c].seen # Absent /\ call[c].wanted # Absent /\ rows[call[c].key] = Absent

Commit(c) ==
  /\ call[c].at = "commit"
  /\ IF Stale(c)
     THEN Goes(c, Done("error")) /\ UNCHANGED rows
     ELSE /\ rows' = [rows EXCEPT ![call[c].key] = Written(@, call[c].seen, call[c].wanted)]
          /\ Goes(c, [at |-> "written", key |-> call[c].key, after |-> call[c].after,
                      readBack |-> call[c].readBack, next |-> call[c].next])
  /\ UNCHANGED log

\* The disk is full, or another connection holds the lock for too long.
CommitFails(c) ==
  /\ call[c].at = "commit"
  /\ Goes(c, Done("error"))
  /\ UNCHANGED <<rows, log>>

\* The row is read back; what is logged at the end, and maybe more, is logged.
Ends(c, more) ==
  /\ call[c].at = "written"
  /\ IF call[c].readBack /\ rows[call[c].key] = Absent
     THEN Goes(c, Done("error")) /\ UNCHANGED log
     ELSE Goes(c, call[c].next) /\ log' = log \cup call[c].after \cup more
  /\ UNCHANGED rows

\* A call that compares what it reads back with what there was ends in its own way.
Compares(c) == call[c].at = "written" /\ "had" \in DOMAIN call[c].next

Finish(c) == ~Compares(c) /\ Ends(c, {})

Database == \E c \in Calls : Commit(c) \/ CommitFails(c) \/ Finish(c)

\* A PATCH: a field that is null is only looked at where the column may be NULL.
Given(body, nullable) ==
  [f \in {g \in DOMAIN body : body[g] # Absent \/ g \in nullable} |-> body[f]]

\* A row whose creation some call is about to log.
Coming(k) == \E c \in Calls : call[c].at = "written" /\ call[c].key = k
=============================================================================
