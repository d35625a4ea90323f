---------------------------- MODULE RecordsProofs ----------------------------
(***************************************************************************)
(* What Records promises, proved for every set of calls and rows.  Every   *)
(* handler is shown to be Lawful: it leaves its call waiting for nothing   *)
(* but what the invariant allows.  What commits, failures, read-backs and  *)
(* confirmations do is then shown once, for all handlers.                  *)
(***************************************************************************)
EXTENDS Records, FiniteSetTheorems, TLAPS

-----------------------------------------------------------------------------
(* What the handlers keep, whatever they do at the same time.              *)

\* The name of a row: its key, but of a bookmark or route the call that made it.
NameOf(k, row) == IF row.table \in LibraryTables THEN row.by ELSE k

\* A call waits for a commit that makes the row of its own name.
MakesItsOwn(c, m) == m.at = "commit" /\ m.seen = Absent /\ m.key = c

\* No row of that name can be made any more.
Settled(n) ==
  n \in Calls => call[n].at \notin {"idle", "insert"} /\ ~MakesItsOwn(n, call[n])

\* The table of a row is known by its key, as far as these properties go.
Place(k, table) ==
  /\ table \in Tables
  /\ k \in LibraryKeys => table = k[1]
  /\ k \in Names => table \notin LibraryTables
  /\ k \notin Names \cup LibraryKeys => table = "import"

\* What the log tells of the making of a row.
Making(k, row) ==
  IF row.table = "stop" THEN Entry("stop", "added", k)
  ELSE IF row.table = "note" THEN Entry("note", "created", <<k, 0>>)
  ELSE Entry(row.table, "created", NameOf(k, row))

\* The row is of an earlier session, or the log tells of it, or is about to.
Told(k) ==
  \/ NameOf(k, rows[k]) \in Old
  \/ Making(k, rows[k]) \in log
  \/ \E c \in Calls : /\ call[c].at = "written" /\ call[c].key = k
                      /\ Making(k, rows[k]) \in call[c].after

DraftsOf(row) == IF row.table = "campaign" THEN row.drafts ELSE {}

Whole(k) ==
  /\ rows[k] \in Row
  /\ Place(k, rows[k].table)
  /\ Settled(NameOf(k, rows[k]))
  /\ rows[k].table = "stop" => rows[k].circuit \in All("circuit")
  /\ \A d \in DraftsOf(rows[k]) : Sourced(d)
  /\ Told(k)

\* No two bookmarks, and no two routes, have one name.
OnePlace ==
  \A j, k \in Keys :
    (/\ rows[j] # Absent /\ rows[k] # Absent
     /\ rows[j].table \in LibraryTables /\ rows[k].table = rows[j].table
     /\ rows[j].by = rows[k].by) => j = k

\* An entry that says that a row is gone, and the row it is about.
Deletes(e) ==
  \/ e.of \in Planned /\ e.what = "archived"
  \/ e.of = "stop" /\ e.what = "removed"
  \/ e.of \in LibraryTables /\ e.what = "deleted"

IsOf(e, k) ==
  IF e.of \in LibraryTables THEN rows[k].table = e.of /\ rows[k].by = e.key ELSE k = e.key

\* The row is in none but these places, and will be in no other.
OnlyAt(e, places) ==
  /\ e.key \in Names /\ Settled(e.key)
  /\ \A k \in Keys : (rows[k] # Absent /\ IsOf(e, k)) => k \in places

\* Nothing is said to be gone, and nothing about the lists of the squadron.
Quiet(events) == \A e \in events : ~Deletes(e) /\ e.of \notin Sections

-----------------------------------------------------------------------------
(* What a call may hold while it waits.                                    *)

Removable == {"goal", "build", "plan", "material", "stop"} \cup LibraryTables

\* A row as some call got it: there may be none by now, but no row of another table.
Held(k, seen) ==
  /\ k \in Names \cup LibraryKeys /\ seen \in Row
  /\ Place(k, seen.table)
  /\ k \in Names => Settled(k)
  /\ (k \in Keys /\ rows[k] # Absent) => rows[k].table = seen.table

\* What a handler may want of a row that it has seen.
Revises(seen, wanted) ==
  /\ wanted \in Row /\ wanted.table = seen.table
  /\ wanted.table = "stop" => wanted.circuit = seen.circuit
  /\ wanted.table \in LibraryTables => wanted.by = seen.by
  /\ (wanted.table \in {"campaign", "circuit", "note"} /\ wanted.archivedAt = Absent)
       => seen.archivedAt = Absent
  /\ (wanted.table = "campaign" /\ seen.state = "archived") => wanted.state = "archived"
  /\ \A d \in DraftsOf(wanted) : Sourced(d)

MakesRow(c, m) ==
  /\ m.wanted \in Row /\ Place(m.key, m.wanted.table)
  /\ m.key \notin LibraryKeys /\ (m.key \in Names => m.key = c)
  /\ m.wanted.table = "stop" => m.wanted.circuit \in All("circuit")
  /\ DraftsOf(m.wanted) = {}
  /\ Making(m.key, m.wanted) \in log \cup m.after
  /\ Quiet(m.after)

ChangesRow(m) == Held(m.key, m.seen) /\ Revises(m.seen, m.wanted) /\ Quiet(m.after)

Says(events, places) ==
  \A e \in events : e.of \notin Sections /\ (Deletes(e) => OnlyAt(e, places))

RemovesRow(m) ==
  /\ Held(m.key, m.seen) /\ m.seen.table \in Removable
  /\ m.wanted = Absent
  /\ Says(m.after, {m.key})

Waits(c, m) ==
  /\ m.at = "commit" =>
       /\ m.next.at \in {"done", "second source"}
       /\ \/ m.seen = Absent /\ MakesRow(c, m)
          \/ RemovesRow(m)
          \/ ChangesRow(m)
  /\ m.at = "written" => m.next.at \in {"done", "second source"} /\ Says(m.after, {})
  /\ m.at = "insert" => m.row \in LibraryRows /\ m.row.by = c
  /\ m.at = "asked" =>
       /\ Held(m.key, m.seen) /\ m.seen.table = "campaign"
       /\ \A d \in m.seen.drafts : Sourced(d)
       /\ Entry("gate", "approved", c) \in log
  /\ m.at = "listed" => m.body \in NoteBodies

-----------------------------------------------------------------------------
(* The inductive invariant.                                                *)

Shape == rows = [k \in Keys |-> rows[k]] /\ call = [c \in Calls |-> call[c]]

RowsWhole == \A k \in Keys : rows[k] # Absent => Whole(k)

GoneIsGone == \A e \in log : Deletes(e) => OnlyAt(e, {})

CallsWait == \A c \in Calls : Waits(c, call[c])

ListsConfirmed ==
  /\ squad = [s \in Sections |-> Those("created", s) \ Those("revoked", s)]
  /\ \A s \in Sections : Those("revoked", s) \subseteq Those("created", s)
  /\ \A e \in Creations : \E p \in Calls : e.key = <<p, 0>> /\ call[p] = Done("confirmed")

RecordsInv ==
  Shape /\ RowsWhole /\ OnePlace /\ GoneIsGone /\ CallsWait /\ ListsConfirmed

-----------------------------------------------------------------------------
(* Rows.                                                                   *)

LEMMA RowsAreThere == \A r \in Row : r # Absent
BY TablesAssumption

\* A row is of the type of its table.
LEMMA RowTables ==
  ASSUME NEW r \in Row
  PROVE  /\ r.table \in Tables
         /\ r.table \in Planned => r \in PlanRows
         /\ r.table \in {"goal", "build"} => r \in GoalRows
         /\ r.table = "plan" => r \in AcquisitionRows
         /\ r.table = "material" => r \in MaterialRows
         /\ r.table = "import" => r \in ImportRows
         /\ r.table \in Kinds => r \in ReadinessRows
         /\ r.table = "campaign" => r \in CampaignRows
         /\ r.table = "circuit" => r \in CircuitRows
         /\ r.table = "stop" => r \in StopRows
         /\ r.table = "note" => r \in NoteRows
         /\ r.table \in LibraryTables => r \in LibraryRows
<1>1. CASE r \in PlanRows
  BY <1>1, TablesAssumption
  DEF PlanRows, GoalRows, AcquisitionRows, MaterialRows, ImportRows, ReadinessRows, Planned,
      Tables, LibraryTables
<1>2. CASE r \in CampaignRows
  BY <1>2, TablesAssumption DEF CampaignRows, Planned, Tables, LibraryTables
<1>3. CASE r \in CircuitRows
  BY <1>3, TablesAssumption DEF CircuitRows, Planned, Tables, LibraryTables
<1>4. CASE r \in StopRows
  BY <1>4, TablesAssumption DEF StopRows, Planned, Tables, LibraryTables
<1>5. CASE r \in NoteRows
  BY <1>5, TablesAssumption DEF NoteRows, Planned, Tables, LibraryTables
<1>6. CASE r \in LibraryRows
  BY <1>6, TablesAssumption DEF LibraryRows, Planned, Tables, LibraryTables
<1> QED
  BY <1>1, <1>2, <1>3, <1>4, <1>5, <1>6 DEF Row

\* What may be archived.
LEMMA Archivable ==
  ASSUME NEW r \in Row
  PROVE  "archivedAt" \in DOMAIN r <=> r.table \in {"campaign", "circuit", "note"}
<1>1. CASE r \in PlanRows
  BY <1>1, TablesAssumption
  DEF PlanRows, GoalRows, AcquisitionRows, MaterialRows, ImportRows, ReadinessRows
<1>2. CASE r \in StopRows \cup LibraryRows
  BY <1>2 DEF StopRows, LibraryRows
<1>3. CASE r \in CampaignRows \cup CircuitRows \cup NoteRows
  BY <1>3 DEF CampaignRows, CircuitRows, NoteRows
<1> QED
  BY <1>1, <1>2, <1>3 DEF Row

\* The row after a commit: changed columns as wanted, the others as they are.
LEMMA WrittenRow ==
  ASSUME NEW now \in Row, NEW seen \in Row, NEW wanted \in Row,
         now.table = seen.table, wanted.table = seen.table
  PROVE  /\ Written(now, seen, wanted) \in Row
         /\ Written(now, seen, wanted).table = seen.table
         /\ \A f \in DOMAIN wanted :
              Written(now, seen, wanted)[f] = IF wanted[f] # seen[f] THEN wanted[f] ELSE now[f]
<1> DEFINE new == [f \in DOMAIN wanted |-> IF wanted[f] # seen[f] THEN wanted[f] ELSE now[f]]
<1>1. Written(now, seen, wanted) = new
  BY RowsAreThere DEF Written
<1>2. "table" \in DOMAIN wanted
  <2>1. CASE wanted \in PlanRows
    BY <2>1
    DEF PlanRows, GoalRows, AcquisitionRows, MaterialRows, ImportRows, ReadinessRows
  <2>2. CASE wanted \notin PlanRows
    BY <2>2 DEF Row, CampaignRows, CircuitRows, StopRows, NoteRows, LibraryRows
  <2> QED
    BY <2>1, <2>2
<1>3. new.table = seen.table
  BY <1>2
<1> DEFINE t == wanted.table
<1>4. t \in {"goal", "build"} \cup {"plan", "material", "import"} \cup Kinds
           \cup {"campaign", "circuit", "stop", "note"} \cup LibraryTables
  BY RowTables DEF Tables, Planned
<1>5. CASE t \in {"goal", "build"}
  <2>1. now \in GoalRows /\ seen \in GoalRows /\ wanted \in GoalRows
    BY <1>5, RowTables
  <2>2. new \in GoalRows
    BY <1>5, <2>1, <1>3 DEF GoalRows
  <2> QED
    BY <1>1, <1>3, <2>2 DEF Row, PlanRows
<1>6. CASE t = "plan"
  <2>1. now \in AcquisitionRows /\ seen \in AcquisitionRows /\ wanted \in AcquisitionRows
    BY <1>6, RowTables
  <2>2. new \in AcquisitionRows
    BY <1>6, <2>1, <1>3 DEF AcquisitionRows
  <2> QED
    BY <1>1, <1>3, <2>2 DEF Row, PlanRows
<1>7. CASE t = "material"
  <2>1. now \in MaterialRows /\ seen \in MaterialRows /\ wanted \in MaterialRows
    BY <1>7, RowTables
  <2>2. new \in MaterialRows
    BY <1>7, <2>1, <1>3 DEF MaterialRows
  <2> QED
    BY <1>1, <1>3, <2>2 DEF Row, PlanRows
<1>8. CASE t = "import"
  <2>1. now \in ImportRows /\ seen \in ImportRows /\ wanted \in ImportRows
    BY <1>8, RowTables
  <2>2. new \in ImportRows
    BY <1>8, <2>1, <1>3 DEF ImportRows
  <2> QED
    BY <1>1, <1>3, <2>2 DEF Row, PlanRows
<1>9. CASE t \in Kinds
  <2>1. now \in ReadinessRows /\ seen \in ReadinessRows /\ wanted \in ReadinessRows
    BY <1>9, RowTables
  <2>2. new \in ReadinessRows
    BY <1>9, <2>1, <1>3 DEF ReadinessRows
  <2> QED
    BY <1>1, <1>3, <2>2 DEF Row, PlanRows
<1>10. CASE t = "campaign"
  <2>1. now \in CampaignRows /\ seen \in CampaignRows /\ wanted \in CampaignRows
    BY <1>10, RowTables
  <2>2. new \in CampaignRows
    BY <1>10, <2>1, <1>3 DEF CampaignRows
  <2> QED
    BY <1>1, <1>3, <2>2 DEF Row
<1>11. CASE t = "circuit"
  <2>1. now \in CircuitRows /\ seen \in CircuitRows /\ wanted \in CircuitRows
    BY <1>11, RowTables
  <2>2. new \in CircuitRows
    BY <1>11, <2>1, <1>3 DEF CircuitRows
  <2> QED
    BY <1>1, <1>3, <2>2 DEF Row
<1>12. CASE t = "stop"
  <2>1. now \in StopRows /\ seen \in StopRows /\ wanted \in StopRows
    BY <1>12, RowTables
  <2>2. new \in StopRows
    BY <1>12, <2>1, <1>3 DEF StopRows
  <2> QED
    BY <1>1, <1>3, <2>2 DEF Row
<1>13. CASE t = "note"
  <2>1. now \in NoteRows /\ seen \in NoteRows /\ wanted \in NoteRows
    BY <1>13, RowTables
  <2>2. new \in NoteRows
    BY <1>13, <2>1, <1>3 DEF NoteRows
  <2> QED
    BY <1>1, <1>3, <2>2 DEF Row
<1>14. CASE t \in LibraryTables
  <2>1. now \in LibraryRows /\ seen \in LibraryRows /\ wanted \in LibraryRows
    BY <1>14, RowTables
  <2>2. new \in LibraryRows
    BY <1>14, <2>1, <1>3 DEF LibraryRows
  <2> QED
    BY <1>1, <1>3, <2>2 DEF Row
<1> QED
  BY <1>4, <1>5, <1>6, <1>7, <1>8, <1>9, <1>10, <1>11, <1>12, <1>13, <1>14

LEMMA DoneIsDone == \A answer : Done(answer).at = "done"
BY DEF Done

-----------------------------------------------------------------------------
(* Steps of any kind.                                                      *)

\* A row that is there after the step was there before it, or is new: then no row of
\* its name could be there.
Same(k) ==
  /\ rows[k] # Absent
  /\ rows'[k].table = rows[k].table
  /\ NameOf(k, rows'[k]) = NameOf(k, rows[k])

New(k) ==
  /\ Place(k, rows'[k].table)
  /\ NameOf(k, rows'[k]) \in Names => ~Settled(NameOf(k, rows'[k]))

Onward ==
  /\ \A n : Settled(n) => Settled(n)'
  /\ log \subseteq log'
  /\ \A k \in Keys : rows'[k] # Absent => Same(k) \/ New(k)
  /\ All("circuit") \subseteq All("circuit")'

\* What a call has been promised stays so.
LEMMA Promises ==
  ASSUME Onward
  PROVE  /\ \A d : Sourced(d) => Sourced(d)'
         /\ \A e, places : OnlyAt(e, places) => OnlyAt(e, places)'
         /\ \A k, seen : Held(k, seen) => Held(k, seen)'
         /\ \A c, m : Waits(c, m) => Waits(c, m)'
<1>1. ASSUME NEW d, Sourced(d) PROVE Sourced(d)'
  BY <1>1 DEF Onward, Sourced
<1>2. ASSUME NEW e, NEW places, OnlyAt(e, places) PROVE OnlyAt(e, places)'
  <2>1. e.key \in Names /\ Settled(e.key) /\ Settled(e.key)'
    BY <1>2 DEF Onward, OnlyAt
  <2>2. ASSUME NEW k \in Keys, rows'[k] # Absent, IsOf(e, k)' PROVE k \in places
    <3>1. CASE Same(k)
      <4>1. IsOf(e, k)
        BY <2>2, <3>1 DEF Same, IsOf, NameOf
      <4> QED
        BY <4>1, <1>2, <3>1 DEF OnlyAt, Same
    <3>2. CASE New(k)
      <4>1. NameOf(k, rows'[k]) = e.key
        BY <2>1, <2>2, <3>2 DEF IsOf, NameOf, New, Place
      <4> QED
        BY <4>1, <2>1, <3>2 DEF New
    <3> QED
      BY <2>2, <3>1, <3>2 DEF Onward
  <2> QED
    BY <2>1, <2>2 DEF OnlyAt
<1>3. ASSUME NEW k, NEW seen, Held(k, seen) PROVE Held(k, seen)'
  <2>1. ASSUME k \in Keys, rows'[k] # Absent PROVE rows'[k].table = seen.table
    <3>1. CASE Same(k)
      BY <1>3, <2>1, <3>1 DEF Held, Same
    <3>2. CASE New(k) /\ k \in Names
      BY <1>3, <3>2 DEF Held, New, Place, NameOf
    <3>3. CASE New(k) /\ k \in LibraryKeys
      BY <1>3, <3>3 DEF Held, New, Place
    <3> QED
      BY <1>3, <2>1, <3>1, <3>2, <3>3 DEF Onward, Held
  <2> QED
    BY <1>3, <2>1 DEF Held, Onward, Place
<1>4. ASSUME NEW c, NEW m, Waits(c, m) PROVE Waits(c, m)'
  <2>1. ASSUME NEW events, NEW places, Says(events, places) PROVE Says(events, places)'
    BY <1>2, <2>1 DEF Says, Deletes
  <2>2. ASSUME m.at = "commit"
        PROVE  /\ m.next.at \in {"done", "second source"}
               /\ ((m.seen = Absent /\ MakesRow(c, m)) \/ RemovesRow(m) \/ ChangesRow(m))'
    <3>1. CASE m.seen = Absent /\ MakesRow(c, m)
      BY <3>1, <1>4, <2>2 DEF Waits, MakesRow, Onward, Place, Quiet, Deletes
    <3>2. CASE RemovesRow(m)
      BY <3>2, <1>3, <2>1, <1>4, <2>2 DEF Waits, RemovesRow
    <3>3. CASE ChangesRow(m)
      BY <3>3, <1>1, <1>3, <1>4, <2>2 DEF Waits, ChangesRow, Revises, Quiet, Deletes
    <3> QED
      BY <3>1, <3>2, <3>3, <1>4, <2>2 DEF Waits
  <2>3. ASSUME m.at = "written"
        PROVE  m.next.at \in {"done", "second source"} /\ Says(m.after, {})'
    BY <2>1, <2>3, <1>4 DEF Waits
  <2>4. ASSUME m.at = "insert" PROVE m.row \in LibraryRows /\ m.row.by = c
    BY <2>4, <1>4 DEF Waits
  <2>5. ASSUME m.at = "asked"
        PROVE  /\ Held(m.key, m.seen)' /\ m.seen.table = "campaign"
               /\ (\A d \in m.seen.drafts : Sourced(d))'
               /\ (Entry("gate", "approved", c) \in log)'
    BY <2>5, <1>4, <1>3, <1>1 DEF Waits, Onward
  <2>6. ASSUME m.at = "listed" PROVE m.body \in NoteBodies
    BY <2>6, <1>4 DEF Waits
  <2> QED
    BY <2>2, <2>3, <2>4, <2>5, <2>6 DEF Waits
<1> QED
  BY <1>1, <1>2, <1>3, <1>4

\* A row that no step touches stays as it should be.
LEMMA StaysWhole ==
  ASSUME Onward, NEW k \in Keys, Whole(k), rows'[k] = rows[k], Told(k)'
  PROVE  Whole(k)'
<1>1. \A d \in DraftsOf(rows[k]) : Sourced(d)'
  BY Promises DEF Whole
<1>2. rows[k].table = "stop" => rows[k].circuit \in All("circuit")'
  BY DEF Onward, Whole
<1>3. Settled(NameOf(k, rows[k]))'
  BY DEF Onward, Whole
<1> QED
  BY <1>1, <1>2, <1>3 DEF Whole

\* Where nothing is logged about the lists, they follow the log.
LEMMA ListsFollow ==
  ASSUME ListsConfirmed, UNCHANGED squad, log \subseteq log',
         \A e \in log' \ log : e.of \notin Sections,
         \A c \in Calls : call[c] = Done("confirmed") => call'[c] = call[c]
  PROVE  ListsConfirmed'
<1>1. \A what, s : s \in Sections => Those(what, s)' = Those(what, s)
  BY DEF Those
<1>2. Creations' = Creations
  BY DEF Creations
<1> QED
  BY <1>1, <1>2, Zenon DEF ListsConfirmed

-----------------------------------------------------------------------------
(* Handlers.                                                               *)

\* Call c goes on, to wait for something it may wait for; nothing is written yet.
Moves(c) ==
  /\ call[c].at \notin {"commit", "written", "done"}
  /\ call' = [call EXCEPT ![c] = call'[c]]
  /\ call'[c].at \notin {"idle", "written"}
  /\ Settled(c) => Settled(c)'
  /\ Waits(c, call[c])'
  /\ log \subseteq log' /\ \A e \in log' \ log : ~Deletes(e)
  /\ UNCHANGED rows

Lawful(c) == Moves(c) /\ \A e \in log' \ log : e.of \notin Sections

LEMMA StandsStill ==
  ASSUME RecordsInv, NEW c \in Calls, call' = [call EXCEPT ![c] = call'[c]],
         Settled(c) => Settled(c)', log \subseteq log', UNCHANGED rows
  PROVE  Onward /\ \A d \in Calls : d # c => call'[d] = call[d]
<1>1. \A d \in Calls : d # c => call'[d] = call[d]
  BY DEF RecordsInv, Shape
<1>2. ASSUME NEW n, Settled(n) PROVE Settled(n)'
  BY <1>1, <1>2 DEF Settled
<1>3. \A k \in Keys : rows'[k] # Absent => Same(k)
  BY DEF Same, NameOf
<1>4. All("circuit") \subseteq All("circuit")'
  BY DEF All
<1> QED
  BY <1>1, <1>2, <1>3, <1>4 DEF Onward

LEMMA MovesKeep ==
  ASSUME RecordsInv, NEW c \in Calls, Moves(c), ListsConfirmed'
  PROVE  RecordsInv'
<1>1. Onward /\ \A d \in Calls : d # c => call'[d] = call[d]
  BY StandsStill DEF Moves
<1>2. Shape'
  BY DEF RecordsInv, Shape, Moves
<1>3. RowsWhole'
  <2> SUFFICES ASSUME NEW k \in Keys, rows'[k] # Absent PROVE Whole(k)'
    BY DEF RowsWhole
  <2>1. Whole(k) /\ rows'[k] = rows[k]
    BY DEF RecordsInv, RowsWhole, Moves
  <2>2. Told(k)'
    BY <1>1, <2>1 DEF Whole, Told, Moves
  <2> QED
    BY <1>1, <2>1, <2>2, StaysWhole
<1>4. OnePlace'
  BY DEF RecordsInv, OnePlace, Moves
<1>5. GoneIsGone'
  BY <1>1, Promises DEF RecordsInv, GoneIsGone, Moves, Deletes
<1>6. CallsWait'
  <2> SUFFICES ASSUME NEW d \in Calls PROVE Waits(d, call[d])'
    BY DEF CallsWait
  <2>1. CASE d = c
    BY <2>1 DEF Moves
  <2>2. CASE d # c
    BY <2>2, <1>1, Promises DEF RecordsInv, CallsWait
  <2> QED
    BY <2>1, <2>2
<1> QED
  BY <1>2, <1>3, <1>4, <1>5, <1>6 DEF RecordsInv

LEMMA LawfulKeeps ==
  ASSUME RecordsInv, NEW c \in Calls, Lawful(c), UNCHANGED squad
  PROVE  RecordsInv'
<1>1. \A d \in Calls : d # c => call'[d] = call[d]
  BY StandsStill DEF Lawful, Moves
<1>2. \A d \in Calls : call[d] = Done("confirmed") => call'[d] = call[d]
  BY <1>1, DoneIsDone DEF Lawful, Moves
<1>3. ListsConfirmed'
  BY <1>2, ListsFollow DEF RecordsInv, Lawful, Moves
<1> QED
  BY <1>3, MovesKeep DEF Lawful

-----------------------------------------------------------------------------
(* The database.                                                           *)

\* A call that has waited for the database goes on, and what it logs now is true.
LEMMA GoesOn ==
  ASSUME RecordsInv, UNCHANGED <<rows, squad>>,
         NEW c \in Calls, call[c].at \in {"commit", "insert", "written"},
         call' = [call EXCEPT ![c] = call'[c]], call'[c].at \in {"done", "second source"},
         log \subseteq log', Says(log' \ log, {}),
         \A k \in Keys :
           (/\ rows[k] # Absent /\ call[c].at = "written" /\ call[c].key = k
            /\ Making(k, rows[k]) \in call[c].after) => Making(k, rows[k]) \in log'
  PROVE  RecordsInv'
<1>1. \A d \in Calls : d # c => call'[d] = call[d]
  BY DEF RecordsInv, Shape
<1>2. Onward
  <2>1. ASSUME NEW n, Settled(n) PROVE Settled(n)'
    BY <1>1, <2>1 DEF Settled, MakesItsOwn
  <2>2. \A k \in Keys : rows'[k] # Absent => Same(k)
    BY DEF Same, NameOf
  <2>3. All("circuit") \subseteq All("circuit")'
    BY DEF All
  <2> QED
    BY <2>1, <2>2, <2>3 DEF Onward
<1>3. Shape'
  BY DEF RecordsInv, Shape
<1>4. RowsWhole'
  <2> SUFFICES ASSUME NEW k \in Keys, rows'[k] # Absent PROVE Whole(k)'
    BY DEF RowsWhole
  <2>1. Whole(k) /\ rows'[k] = rows[k]
    BY DEF RecordsInv, RowsWhole
  <2>2. Told(k)'
    BY <1>1, <2>1 DEF Whole, Told
  <2> QED
    BY <1>2, <2>1, <2>2, StaysWhole
<1>5. OnePlace'
  BY DEF RecordsInv, OnePlace
<1>6. GoneIsGone'
  BY <1>2, Promises DEF RecordsInv, GoneIsGone, Says, Deletes
<1>7. CallsWait'
  <2> SUFFICES ASSUME NEW d \in Calls PROVE Waits(d, call[d])'
    BY DEF CallsWait
  <2>1. CASE d = c
    BY <2>1 DEF Waits
  <2>2. CASE d # c
    BY <2>2, <1>1, <1>2, Promises DEF RecordsInv, CallsWait
  <2> QED
    BY <2>1, <2>2
<1>8. ListsConfirmed'
  <2>1. ASSUME NEW d \in Calls, call[d] = Done("confirmed") PROVE call'[d] = call[d]
    <3>1. call[d].at = "done"
      BY <2>1, DoneIsDone
    <3> QED
      BY <1>1, <3>1
  <2> QED
    BY <2>1, ListsFollow DEF RecordsInv, Says
<1> QED
  BY <1>3, <1>4, <1>5, <1>6, <1>7, <1>8 DEF RecordsInv

LEMMA EndsKeeps ==
  ASSUME RecordsInv, NEW c \in Calls, NEW more, Ends(c, more), Quiet(more), UNCHANGED squad
  PROVE  RecordsInv'
<1>1. Waits(c, call[c])
  BY DEF RecordsInv, CallsWait
<1>2. call = [d \in Calls |-> call[d]]
  BY DEF RecordsInv, Shape
<1>3. CASE call[c].readBack /\ rows[call[c].key] = Absent
  <2>1. call'[c] = Done("error") /\ call' = [call EXCEPT ![c] = call'[c]]
    BY <1>2, <1>3 DEF Ends, Goes
  <2>2. call'[c].at = "done"
    BY <2>1 DEF Done
  <2>3. log' = log /\ rows' = rows
    BY <1>3 DEF Ends
  <2>4. Says(log' \ log, {})
    BY <2>3 DEF Says
  <2> QED
    BY <1>1, <1>3, <2>1, <2>2, <2>3, <2>4, GoesOn DEF Ends
<1>4. CASE ~(call[c].readBack /\ rows[call[c].key] = Absent)
  <2>1. call'[c] = call[c].next /\ call' = [call EXCEPT ![c] = call'[c]]
    BY <1>2, <1>4 DEF Ends, Goes
  <2>2. log' = log \cup call[c].after \cup more
    BY <1>4 DEF Ends
  <2>3. Says(log' \ log, {})
    BY <1>1, <2>2 DEF Ends, Waits, Says, Quiet
  <2> QED
    BY <1>1, <2>1, <2>2, <2>3, GoesOn DEF Ends, Waits
<1> QED
  BY <1>3, <1>4

LEMMA CommitFailsKeeps ==
  ASSUME RecordsInv, NEW c \in Calls, CommitFails(c), UNCHANGED squad
  PROVE  RecordsInv'
<1>1. call'[c] = Done("error") /\ call' = [call EXCEPT ![c] = call'[c]]
  BY DEF CommitFails, Goes, RecordsInv, Shape
<1>2. call'[c].at = "done"
  BY <1>1 DEF Done
<1>3. log' = log /\ rows' = rows
  BY DEF CommitFails
<1>4. Says(log' \ log, {})
  BY <1>3 DEF Says
<1> QED
  BY <1>1, <1>2, <1>3, <1>4, GoesOn DEF CommitFails

\* A step that writes one row, for a call that then reads it back.
LEMMA Writes ==
  ASSUME RecordsInv, Onward, UNCHANGED <<log, squad>>,
         NEW c \in Calls, call[c].at \in {"commit", "insert"},
         call' = [call EXCEPT ![c] = call'[c]], call'[c].at = "written",
         Waits(c, call[c])',
         NEW place, rows' = [rows EXCEPT ![place] = rows'[place]],
         (place \in Keys /\ rows'[place] # Absent) => Whole(place)',
         OnePlace'
  PROVE  RecordsInv'
<1>1. \A d \in Calls : d # c => call'[d] = call[d]
  BY DEF RecordsInv, Shape
<1>2. \A k \in Keys : k # place => rows'[k] = rows[k]
  BY DEF RecordsInv, Shape
<1>3. Shape'
  BY DEF RecordsInv, Shape
<1>4. RowsWhole'
  <2> SUFFICES ASSUME NEW k \in Keys, rows'[k] # Absent PROVE Whole(k)'
    BY DEF RowsWhole
  <2>1. CASE k = place
    BY <2>1
  <2>2. CASE k # place
    <3>1. Whole(k) /\ rows'[k] = rows[k]
      BY <1>2, <2>2 DEF RecordsInv, RowsWhole
    <3>2. Told(k)'
      BY <1>1, <3>1 DEF Whole, Told
    <3> QED
      BY <3>1, <3>2, StaysWhole
  <2> QED
    BY <2>1, <2>2
<1>5. GoneIsGone'
  BY Promises DEF RecordsInv, GoneIsGone, Deletes
<1>6. CallsWait'
  <2> SUFFICES ASSUME NEW d \in Calls PROVE Waits(d, call[d])'
    BY DEF CallsWait
  <2>1. CASE d = c
    BY <2>1
  <2>2. CASE d # c
    BY <2>2, <1>1, Promises DEF RecordsInv, CallsWait
  <2> QED
    BY <2>1, <2>2
<1>7. ListsConfirmed'
  <2>1. \A d \in Calls : call[d] = Done("confirmed") => call'[d] = call[d]
    BY <1>1 DEF Done
  <2> QED
    BY <2>1, ListsFollow DEF RecordsInv
<1> QED
  BY <1>3, <1>4, <1>5, <1>6, <1>7 DEF RecordsInv

\* What a commit does that is no error.
LEMMA Committed ==
  ASSUME RecordsInv, NEW c \in Calls, Commit(c), ~Stale(c)
  PROVE  /\ call[c].at = "commit" /\ Waits(c, call[c]) /\ log' = log
         /\ call' = [call EXCEPT ![c] = call'[c]]
         /\ \A d \in Calls : d # c => call'[d] = call[d]
         /\ call'[c].at = "written" /\ call'[c].key = call[c].key
         /\ call'[c].after = call[c].after /\ call'[c].next = call[c].next
         /\ rows' = [rows EXCEPT ![call[c].key] = rows'[call[c].key]]
         /\ \A k \in Keys : k # call[c].key => rows'[k] = rows[k]
         /\ call[c].key \in Keys =>
              rows'[call[c].key] = Written(rows[call[c].key], call[c].seen, call[c].wanted)
         /\ \A n : Settled(n) => Settled(n)'
         /\ Settled(c)'
<1> DEFINE next == [at |-> "written", key |-> call[c].key, after |-> call[c].after,
                    readBack |-> call[c].readBack, next |-> call[c].next]
<1>1. call' = [call EXCEPT ![c] = next]
  BY DEF Commit, Goes
<1>2. call'[c] = next /\ \A d \in Calls : d # c => call'[d] = call[d]
  BY <1>1 DEF RecordsInv, Shape
<1>3. /\ call'[c].at = "written" /\ call'[c].key = call[c].key
      /\ call'[c].after = call[c].after /\ call'[c].next = call[c].next
  BY <1>2
<1> HIDE DEF next
<1>7. call' = [call EXCEPT ![c] = call'[c]]
  BY <1>1, <1>2
<1>4. \A n : (Settled(n) => Settled(n)') /\ Settled(c)'
  BY <1>2, <1>3 DEF Settled, MakesItsOwn
<1>5. rows' = [rows EXCEPT ![call[c].key] =
                 Written(rows[call[c].key], call[c].seen, call[c].wanted)]
  BY DEF Commit
<1>6. /\ rows' = [rows EXCEPT ![call[c].key] = rows'[call[c].key]]
      /\ \A k \in Keys : k # call[c].key => rows'[k] = rows[k]
      /\ call[c].key \in Keys =>
           rows'[call[c].key] = Written(rows[call[c].key], call[c].seen, call[c].wanted)
  BY <1>5 DEF RecordsInv, Shape
<1> QED
  BY <1>2, <1>3, <1>4, <1>6, <1>7 DEF Commit, RecordsInv, CallsWait

\* What is not written stays where it is.
LEMMA UnwrittenStays ==
  ASSUME NEW k \in Keys, rows'[k] = rows[k]
  PROVE  StaysArchived(k)
BY DEF StaysArchived, WasArchived, InArchive

LEMMA NothingWritten ==
  ASSUME UNCHANGED rows
  PROVE  \A k \in Keys : StaysArchived(k)
BY UnwrittenStays

\* A row that is made.
LEMMA CommitMakes ==
  ASSUME RecordsInv, NEW c \in Calls, Commit(c), ~Stale(c), UNCHANGED squad,
         NEW place, place = call[c].key, NEW wanted, wanted = call[c].wanted,
         call[c].seen = Absent, MakesRow(c, call[c])
  PROVE  /\ RecordsInv'
         /\ \A k \in Keys : StaysArchived(k)
<1>1. place \in Keys => rows'[place] = wanted
  BY Committed DEF Written
<1>2. wanted.table \notin LibraryTables /\ NameOf(place, wanted) = place
  BY DEF MakesRow, Place, LibraryTables, NameOf
<1>3. place \in Names => place = c /\ rows[place] = Absent
  <2> SUFFICES ASSUME place \in Names, rows[c] # Absent PROVE FALSE
    BY DEF MakesRow
  <2>1. place = c /\ ~Settled(c)
    BY Committed DEF MakesRow, Settled, MakesItsOwn
  <2>2. c \in Keys /\ Whole(c) /\ c \in Names
    BY DEF RecordsInv, RowsWhole, Keys, Names
  <2>3. NameOf(c, rows[c]) = c
    BY <2>2 DEF Whole, Place, NameOf
  <2> QED
    BY <2>1, <2>2, <2>3 DEF Whole
<1>4. (place \in Keys /\ rows[place] # Absent) => rows[place].table = "import"
  BY <1>3 DEF RecordsInv, RowsWhole, Whole, Place, MakesRow
<1>5. Onward
  <2>1. ASSUME NEW k \in Keys, rows'[k] # Absent PROVE Same(k) \/ New(k)
    <3>1. CASE k = place
      <4>1. Place(place, wanted.table) /\ (place \in Names => ~Settled(place))
        BY <1>3, Committed DEF MakesRow, Settled, MakesItsOwn, Names
      <4> QED
        BY <3>1, <4>1, <1>1, <1>2 DEF New
    <3>2. CASE k # place
      BY <2>1, <3>2, Committed DEF Same
    <3> QED
      BY <3>1, <3>2
  <2>2. All("circuit") \subseteq All("circuit")'
    BY <1>4, Committed DEF All
  <2> QED
    BY <2>1, <2>2, Committed DEF Onward
<1>6. ASSUME place \in Keys, rows'[place] # Absent PROVE Whole(place)'
  <2>1. Settled(place)'
    BY <1>3, Committed DEF Settled, Names
  <2>2. Told(place)'
    BY <1>1, <1>6, Committed DEF MakesRow, Told
  <2>3. rows'[place].table = "stop" => rows'[place].circuit \in All("circuit")'
    BY <1>1, <1>6, <1>5 DEF MakesRow, Onward
  <2>4. /\ rows'[place] \in Row /\ Place(place, rows'[place].table)
        /\ DraftsOf(rows'[place]) = {} /\ NameOf(place, rows'[place]) = place
    BY <1>1, <1>2, <1>6 DEF MakesRow
  <2> QED
    BY <2>1, <2>2, <2>3, <2>4 DEF Whole
<1>7. OnePlace'
  BY <1>1, <1>2, Committed DEF RecordsInv, OnePlace
<1>8. Waits(c, call[c])'
  <2>1. \A e \in call[c].after : e.of \notin Sections /\ ~Deletes(e)
    BY DEF MakesRow, Quiet
  <2>2. /\ call'[c].at = "written" /\ call'[c].after = call[c].after
        /\ call'[c].next.at \in {"done", "second source"}
    BY Committed DEF Waits
  <2> QED
    BY <2>1, <2>2 DEF Waits, Says, Deletes
<1>9. RecordsInv'
  BY <1>5, <1>6, <1>7, <1>8, Committed, Writes
<1>10. ASSUME NEW k \in Keys PROVE StaysArchived(k)
  <2>1. CASE k = place
    <3>1. ~WasArchived(rows[k]) /\ ~InArchive(rows[k])
      BY <1>4, <2>1, Archivable DEF WasArchived, InArchive, RecordsInv, RowsWhole, Whole
    <3> QED
      BY <3>1 DEF StaysArchived
  <2>2. CASE k # place
    BY <2>2, Committed, UnwrittenStays
  <2> QED
    BY <2>1, <2>2
<1> QED
  BY <1>9, <1>10

\* A row that is removed.
LEMMA CommitRemoves ==
  ASSUME RecordsInv, NEW c \in Calls, Commit(c), ~Stale(c), UNCHANGED squad,
         NEW place, place = call[c].key, RemovesRow(call[c])
  PROVE  /\ RecordsInv'
         /\ \A k \in Keys : StaysArchived(k)
<1>1. place \in Keys /\ rows'[place] = Absent
  BY Committed DEF RemovesRow, Held, Written, Names, Keys, LibraryKeys
<1>2. rows[place] # Absent => rows[place].table \in Removable
  BY <1>1 DEF RemovesRow, Held
<1>3. Onward
  <2>1. \A k \in Keys : rows'[k] # Absent => Same(k)
    BY <1>1, Committed DEF Same
  <2>2. All("circuit") \subseteq All("circuit")'
    BY <1>1, <1>2, Committed DEF All, Removable, LibraryTables
  <2> QED
    BY <2>1, <2>2, Committed DEF Onward
<1>4. OnePlace'
  BY <1>1, Committed DEF RecordsInv, OnePlace
<1>5. Waits(c, call[c])'
  <2>1. ASSUME NEW e \in call[c].after, Deletes(e) PROVE OnlyAt(e, {})'
    <3>1. OnlyAt(e, {place})'
      BY <1>3, <2>1, Promises DEF RemovesRow, Says
    <3> QED
      BY <1>1, <3>1 DEF OnlyAt
  <2>2. /\ call'[c].at = "written" /\ call'[c].after = call[c].after
        /\ call'[c].next.at \in {"done", "second source"}
    BY Committed DEF Waits
  <2>3. \A e \in call[c].after : e.of \notin Sections
    BY DEF RemovesRow, Says
  <2> QED
    BY <2>1, <2>2, <2>3 DEF Waits, Says, Deletes
<1>6. RecordsInv'
  BY <1>1, <1>3, <1>4, <1>5, Committed, Writes
<1>7. ASSUME NEW k \in Keys PROVE StaysArchived(k)
  <2>1. CASE k = place
    <3>1. ~WasArchived(rows[k]) /\ ~InArchive(rows[k])
      BY <1>2, <2>1, Archivable
      DEF WasArchived, InArchive, RecordsInv, RowsWhole, Whole, Removable, LibraryTables
    <3> QED
      BY <3>1 DEF StaysArchived
  <2>2. CASE k # place
    BY <2>2, Committed, UnwrittenStays
  <2> QED
    BY <2>1, <2>2
<1> QED
  BY <1>6, <1>7

\* Columns of a row that are set.
LEMMA CommitChanges ==
  ASSUME RecordsInv, NEW c \in Calls, Commit(c), ~Stale(c), UNCHANGED squad,
         NEW place, place = call[c].key, ChangesRow(call[c])
  PROVE  /\ RecordsInv'
         /\ \A k \in Keys : StaysArchived(k)
<1> DEFINE seen == call[c].seen
           wanted == call[c].wanted
           now == rows[place]
<1>1. place \in Keys
  BY DEF ChangesRow, Held, Names, Keys, LibraryKeys
<1>2. /\ seen \in Row /\ wanted \in Row /\ now \in Row
      /\ now # Absent /\ now.table = seen.table /\ wanted.table = seen.table
  BY <1>1, RowsAreThere
  DEF ChangesRow, Held, Revises, Stale, RecordsInv, RowsWhole, Whole
<1>3. rows'[place] = Written(now, seen, wanted)
  BY <1>1, Committed
<1>4. /\ rows'[place] \in Row /\ rows'[place].table = now.table
      /\ \A f \in DOMAIN wanted : rows'[place][f] = IF wanted[f] # seen[f] THEN wanted[f] ELSE now[f]
  BY <1>2, <1>3, WrittenRow
<1>5. now.table \in LibraryTables => rows'[place].by = now.by
  <2> SUFFICES ASSUME now.table \in LibraryTables PROVE rows'[place].by = now.by
    OBVIOUS
  <2>1. "by" \in DOMAIN wanted
    BY <1>2, RowTables DEF LibraryRows
  <2> QED
    BY <1>2, <1>4, <2>1 DEF ChangesRow, Revises
<1>6. now.table = "stop" => rows'[place].circuit = now.circuit
  <2> SUFFICES ASSUME now.table = "stop" PROVE rows'[place].circuit = now.circuit
    OBVIOUS
  <2>1. "circuit" \in DOMAIN wanted
    BY <1>2, RowTables DEF StopRows
  <2> QED
    BY <1>2, <1>4, <2>1 DEF ChangesRow, Revises
<1>7. DraftsOf(rows'[place]) \in {DraftsOf(wanted), DraftsOf(now)}
  <2>1. CASE now.table = "campaign"
    <3>1. "drafts" \in DOMAIN wanted
      BY <1>2, <2>1, RowTables DEF CampaignRows
    <3> QED
      BY <1>2, <1>4, <2>1, <3>1 DEF DraftsOf
  <2>2. CASE now.table # "campaign"
    BY <1>2, <1>4, <2>2 DEF DraftsOf
  <2> QED
    BY <2>1, <2>2
<1>8. /\ rows'[place] # Absent /\ NameOf(place, rows'[place]) = NameOf(place, now)
      /\ Making(place, rows'[place]) = Making(place, now)
  BY <1>4, <1>5, RowsAreThere DEF NameOf, Making
<1>9. Onward
  <2>1. \A k \in Keys : rows'[k] # Absent => Same(k)
    BY <1>2, <1>4, <1>8, Committed DEF Same
  <2>2. All("circuit") \subseteq All("circuit")'
    BY <1>4, <1>8, Committed DEF All
  <2> QED
    BY <2>1, <2>2, Committed DEF Onward
<1>10. Whole(place)'
  <2>1. Whole(place)
    BY <1>1, <1>2 DEF RecordsInv, RowsWhole
  <2>2. Settled(NameOf(place, rows[place]))'
    <3> DEFINE name == NameOf(place, now)
    <3>1. PICK n : n = name
      OBVIOUS
    <3>2. Settled(n)'
      BY <2>1, <3>1, Committed DEF Whole
    <3> QED
      BY <1>8, <3>1, <3>2
  <2>3. rows'[place].table = "stop" => rows'[place].circuit \in All("circuit")'
    BY <1>4, <1>6, <1>9, <2>1 DEF Whole, Onward
  <2>4. ASSUME NEW d \in DraftsOf(rows'[place]) PROVE Sourced(d)'
    <3>1. Sourced(d)
      BY <1>7, <2>1, <2>4 DEF ChangesRow, Revises, Whole
    <3> QED
      BY <1>9, <3>1, Promises
  <2>5. Told(place)'
    <3>1. CASE NameOf(place, now) \in Old \/ Making(place, now) \in log
      BY <1>8, <3>1, Committed DEF Told
    <3>2. ASSUME NEW d \in Calls, call[d].at = "written", call[d].key = place,
                 Making(place, now) \in call[d].after
          PROVE  Told(place)'
      <4>1. d # c /\ call'[d] = call[d]
        BY <3>2, Committed
      <4> QED
        BY <1>8, <3>2, <4>1 DEF Told
    <3> QED
      BY <2>1, <3>1, <3>2 DEF Whole, Told
  <2> QED
    BY <1>4, <2>1, <2>2, <2>3, <2>4, <2>5 DEF Whole
<1>11. OnePlace'
  BY <1>1, <1>2, <1>4, <1>5, Committed DEF RecordsInv, OnePlace
<1>12. Waits(c, call[c])'
  <2>1. \A e \in call[c].after : e.of \notin Sections /\ ~Deletes(e)
    BY DEF ChangesRow, Quiet
  <2>2. /\ call'[c].at = "written" /\ call'[c].after = call[c].after
        /\ call'[c].next.at \in {"done", "second source"}
    BY Committed DEF Waits
  <2> QED
    BY <2>1, <2>2 DEF Waits, Says, Deletes
<1>13. RecordsInv'
  BY <1>9, <1>10, <1>11, <1>12, Committed, Writes
<1>14. ASSUME WasArchived(now) PROVE WasArchived(rows'[place])
  <2>1. now.table \in {"campaign", "circuit", "note"}
    BY <1>2, <1>14, Archivable DEF WasArchived
  <2>2. "archivedAt" \in DOMAIN wanted /\ "archivedAt" \in DOMAIN rows'[place]
    BY <1>2, <1>4, <2>1, Archivable
  <2>3. now.archivedAt # Absent
    BY <1>14 DEF WasArchived
  <2> QED
    BY <1>2, <1>4, <1>8, <2>1, <2>2, <2>3 DEF WasArchived, ChangesRow, Revises
<1>15. ASSUME InArchive(now) PROVE InArchive(rows'[place]) \/ Overdue(place)
  <2>1. now.table = "campaign" /\ now.state = "archived"
    BY <1>15 DEF InArchive
  <2>2. "state" \in DOMAIN wanted
    BY <1>2, <2>1, RowTables DEF CampaignRows
  <2>3. CASE wanted.state \in {seen.state, "archived"}
    <3>1. rows'[place].state = "archived"
      BY <1>4, <2>1, <2>2, <2>3
    <3> QED
      BY <1>4, <1>8, <2>1, <3>1 DEF InArchive
  <2>4. CASE wanted.state \notin {seen.state, "archived"}
    <3>1. seen.state # "archived"
      BY <1>2, <2>1, <2>4 DEF ChangesRow, Revises
    <3> QED
      BY <2>4, <3>1 DEF Overdue
  <2> QED
    BY <2>3, <2>4
<1>16. ASSUME NEW k \in Keys PROVE StaysArchived(k)
  <2>1. CASE k # place
    BY <2>1, Committed, UnwrittenStays
  <2>2. CASE k = place
    BY <1>14, <1>15, <2>2 DEF StaysArchived
  <2> QED
    BY <2>1, <2>2
<1> QED
  BY <1>13, <1>16

LEMMA CommitKeeps ==
  ASSUME RecordsInv, NEW c \in Calls, Commit(c), UNCHANGED squad
  PROVE  /\ RecordsInv'
         /\ \A k \in Keys : StaysArchived(k)
<1>1. CASE Stale(c)
  <2>1. call'[c] = Done("error") /\ call' = [call EXCEPT ![c] = call'[c]]
    BY <1>1 DEF Commit, Goes, RecordsInv, Shape
  <2>2. call'[c].at = "done"
    BY <2>1, DoneIsDone
  <2>3. log' = log /\ rows' = rows
    BY <1>1 DEF Commit
  <2>4. Says(log' \ log, {})
    BY <2>3 DEF Says
  <2>5. RecordsInv'
    BY <2>1, <2>2, <2>3, <2>4, GoesOn DEF Commit
  <2> QED
    BY <2>3, <2>5, NothingWritten
<1>2. CASE ~Stale(c)
  <2>1. PICK place : place = call[c].key
    OBVIOUS
  <2>2. PICK wanted : wanted = call[c].wanted
    OBVIOUS
  <2>3. call[c].at = "commit" /\ Waits(c, call[c])
    BY <1>2, Committed
  <2>4. CASE call[c].seen = Absent /\ MakesRow(c, call[c])
    BY <1>2, <2>1, <2>2, <2>4, CommitMakes
  <2>5. CASE RemovesRow(call[c])
    BY <1>2, <2>1, <2>5, CommitRemoves
  <2>6. CASE ChangesRow(call[c])
    BY <1>2, <2>1, <2>6, CommitChanges
  <2> QED
    BY <2>3, <2>4, <2>5, <2>6 DEF Waits
<1> QED
  BY <1>1, <1>2

LEMMA InsertKeeps ==
  ASSUME RecordsInv, NEW c \in Calls, Insert(c), UNCHANGED squad
  PROVE  /\ RecordsInv'
         /\ \A k \in Keys : StaysArchived(k)
<1> DEFINE row == call[c].row
<1>1. /\ call[c].at = "insert" /\ row \in LibraryRows /\ row.by = c
      /\ row \in Row /\ row.table \in LibraryTables
  BY DEF Insert, RecordsInv, CallsWait, Waits, LibraryRows, LibraryTables, Row
<1>2. CASE call' = [call EXCEPT ![c] = Done("error")] /\ UNCHANGED rows
  <2>1. call'[c] = Done("error") /\ call' = [call EXCEPT ![c] = call'[c]]
    BY <1>2 DEF RecordsInv, Shape
  <2>2. call'[c].at = "done"
    BY <2>1, DoneIsDone
  <2>3. log' = log
    BY DEF Insert
  <2>4. Says(log' \ log, {})
    BY <2>3 DEF Says
  <2>5. RecordsInv'
    BY <1>1, <1>2, <2>1, <2>2, <2>3, <2>4, GoesOn
  <2> QED
    BY <1>2, <2>5, NothingWritten
<1>3. ASSUME NEW k \in LibraryKeys, k = NextKey(row.table), rows' = [rows EXCEPT ![k] = row],
             NEW next, call' = [call EXCEPT ![c] = next], next.at = "written", next.key = k,
             next.after = Named(row.table, "created", row.by) \cup Tagged(k, row.tags),
             next.next = Done("ok")
      PROVE  /\ RecordsInv'
             /\ \A j \in Keys : StaysArchived(j)
  <2>1. /\ call'[c] = next /\ call' = [call EXCEPT ![c] = call'[c]]
        /\ \A d \in Calls : d # c => call'[d] = call[d]
    BY <1>3 DEF RecordsInv, Shape
  <2>2. /\ k \in Keys /\ k \notin Names /\ k[1] = row.table /\ rows'[k] = row
        /\ \A j \in Keys : j # k => rows'[j] = rows[j]
        /\ rows' = [rows EXCEPT ![k] = rows'[k]]
    <3>1. k \in Keys /\ k \notin Names
      BY KeysAssumption DEF LibraryKeys, Keys
    <3>2. k[1] = row.table
      BY <1>3 DEF NextKey
    <3> QED
      BY <1>3, <3>1, <3>2 DEF RecordsInv, Shape
  <2>3. ~Settled(c)
    BY <1>1 DEF Settled
  <2>4. ASSUME NEW n, Settled(n) PROVE Settled(n)'
    BY <1>3, <2>1, <2>4 DEF Settled, MakesItsOwn
  <2>5. Settled(c)'
    BY <1>3, <2>1 DEF Settled, MakesItsOwn
  <2>6. Place(k, row.table) /\ NameOf(k, row) = c
    BY <1>1, <2>2 DEF Place, NameOf, Tables
  <2>7. rows[k] # Absent => rows[k].table \in LibraryTables
    BY <1>1, <2>2 DEF RecordsInv, RowsWhole, Whole, Place
  <2>8. Onward
    <3>1. ASSUME NEW j \in Keys, rows'[j] # Absent PROVE Same(j) \/ New(j)
      <4>1. CASE j = k
        BY <2>2, <2>3, <2>6, <4>1 DEF New
      <4>2. CASE j # k
        BY <2>2, <3>1, <4>2 DEF Same
      <4> QED
        BY <4>1, <4>2
    <3>2. All("circuit") \subseteq All("circuit")'
      BY <2>2, <2>7 DEF All, LibraryTables
    <3>3. log' = log
      BY DEF Insert
    <3> QED
      BY <2>4, <3>1, <3>2, <3>3 DEF Onward
  <2>9. Whole(k)'
    <3>1. Making(k, row) \in next.after
      BY <1>1, <1>3 DEF Making, NameOf, Named, LibraryTables
    <3>2. Told(k)'
      BY <1>3, <2>1, <2>2, <3>1 DEF Told
    <3>3. DraftsOf(row) = {} /\ row.table # "stop"
      BY <1>1 DEF DraftsOf, LibraryTables
    <3> QED
      BY <1>1, <2>2, <2>5, <2>6, <3>2, <3>3 DEF Whole
  <2>10. OnePlace'
    <3>1. ASSUME NEW j \in Keys, j # k, rows[j] # Absent, rows[j].table \in LibraryTables
          PROVE  rows[j].by # c
      <4>1. Settled(rows[j].by)
        BY <3>1 DEF RecordsInv, RowsWhole, Whole, NameOf
      <4> QED
        BY <2>3, <4>1
    <3> QED
      BY <1>1, <2>2, <3>1 DEF RecordsInv, OnePlace
  <2>11. Waits(c, call[c])'
    <3>1. \A e \in next.after : e.of \in LibraryTables /\ e.what \in {"created", "tagged"}
      BY <1>1, <1>3 DEF Named, Tagged, Entry, LibraryTables
    <3>2. \A e \in next.after : e.of \notin Sections /\ ~Deletes(e)
      BY <3>1, TablesAssumption DEF LibraryTables, Sections, Deletes, Planned
    <3>3. next.next.at = "done"
      BY <1>3, DoneIsDone
    <3> QED
      BY <1>3, <2>1, <3>2, <3>3 DEF Waits, Says, Deletes
  <2>12. RecordsInv'
    BY <1>1, <1>3, <2>1, <2>2, <2>8, <2>9, <2>10, <2>11, Writes DEF Insert
  <2>13. ASSUME NEW j \in Keys PROVE StaysArchived(j)
    <3>1. CASE j = k
      <4>1. ~WasArchived(rows[j]) /\ ~InArchive(rows[j])
        BY <2>7, <3>1, Archivable
        DEF WasArchived, InArchive, RecordsInv, RowsWhole, Whole, LibraryTables
      <4> QED
        BY <4>1 DEF StaysArchived
    <3>2. CASE j # k
      BY <2>2, <3>2, UnwrittenStays
    <3> QED
      BY <3>1, <3>2
  <2> QED
    BY <2>12, <2>13
<1> QED
  BY <1>2, <1>3 DEF Insert, Goes

-----------------------------------------------------------------------------
(* What handlers are made of.                                              *)

\* A call that holds nothing but what it shows in the end.
LEMMA PlainLawful ==
  ASSUME RecordsInv, NEW c \in Calls, call[c].at \notin {"commit", "written", "done"},
         NEW next, Goes(c, next),
         next.at \in {"done", "second source", "readiness", "overview", "stops", "routes",
                      "pending"},
         NEW new, log' = log \cup new, Quiet(new), UNCHANGED rows
  PROVE  Lawful(c)
<1>1. call'[c] = next /\ call' = [call EXCEPT ![c] = next]
  BY DEF Goes, RecordsInv, Shape
<1>2. Waits(c, call[c])'
  BY <1>1 DEF Waits
<1>3. Settled(c)'
  BY <1>1 DEF Settled, MakesItsOwn
<1> QED
  BY <1>1, <1>2, <1>3 DEF Lawful, Moves, Quiet

LEMMA AnswersLawful ==
  ASSUME RecordsInv, NEW c \in Calls, NEW answer, Answers(c, answer)
  PROVE  Lawful(c)
<1>1. call[c].at = "idle" /\ Goes(c, Done(answer)) /\ log' = log \cup {} /\ UNCHANGED rows
  BY DEF Answers, Idle
<1>2. Quiet({})
  BY DEF Quiet
<1> QED
  BY <1>1, <1>2, DoneIsDone, PlainLawful

LEMMA ShowsLawful ==
  ASSUME RecordsInv, NEW c \in Calls, NEW values, Shows(c, values)
  PROVE  Lawful(c)
<1>1. call[c].at = "idle" /\ Goes(c, Shown(values)) /\ log' = log \cup {} /\ UNCHANGED rows
  BY DEF Shows, Idle
<1>2. Quiet({}) /\ Shown(values).at = "done"
  BY DEF Quiet, Shown
<1> QED
  BY <1>1, <1>2, PlainLawful

\* A call that comes to wait for its commit.
LEMMA CommitsMoves ==
  ASSUME RecordsInv, NEW c \in Calls, call[c].at \notin {"commit", "written", "done"},
         NEW m, call' = [call EXCEPT ![c] = m], UNCHANGED rows,
         log \subseteq log', Quiet(log' \ log),
         m.at = "commit", m.next.at \in {"done", "second source"},
         Settled(c) => m.seen # Absent \/ m.key # c,
         (m.seen = Absent /\ MakesRow(c, m)') \/ RemovesRow(m) \/ ChangesRow(m)
  PROVE  Lawful(c)
<1>1. call'[c] = m /\ call' = [call EXCEPT ![c] = call'[c]]
  BY DEF RecordsInv, Shape
<1>2. Settled(c) => Settled(c)'
  BY <1>1 DEF Settled, MakesItsOwn
<1>3. Onward
  BY <1>1, <1>2, StandsStill
<1>4. Waits(c, m)'
  <2>1. CASE m.seen = Absent /\ MakesRow(c, m)'
    BY <2>1 DEF Waits
  <2>2. CASE RemovesRow(m) \/ ChangesRow(m)
    <3>1. Waits(c, m)
      BY <2>2 DEF Waits
    <3> QED
      BY <1>3, <3>1, Promises
  <2> QED
    BY <2>1, <2>2
<1>5. Waits(c, call[c])'
  BY <1>1, <1>4
<1> QED
  BY <1>1, <1>2, <1>5 DEF Lawful, Moves, Quiet

\* A row that is there, as a handler gets it.
LEMMA RowHeld ==
  ASSUME RecordsInv, NEW k \in Names \cup LibraryKeys, NEW table, k \in All(table)
  PROVE  /\ Held(k, rows[k]) /\ rows[k].table = table /\ rows[k] # Absent /\ rows[k] \in Row
         /\ \A d \in DraftsOf(rows[k]) : Sourced(d)
<1>1. /\ k \in Keys /\ rows[k] # Absent /\ rows[k].table = table
      /\ Whole(k)
  BY DEF All, RecordsInv, RowsWhole
<1>2. k \in Names => NameOf(k, rows[k]) = k
  BY <1>1 DEF Whole, Place, NameOf
<1> QED
  BY <1>1, <1>2 DEF Held, Whole

\* What waits for a commit.
Waiting(k, seen, wanted, after, readBack, next) ==
  [at |-> "commit", key |-> k, seen |-> seen, wanted |-> wanted, after |-> after,
   readBack |-> readBack, next |-> next]

\* A handler that makes a row of its own.
LEMMA AddsLawful ==
  ASSUME RecordsInv, NEW c \in Calls, NEW row, NEW before, NEW after,
         Adds(c, row, before, after),
         row \in Row, row.table \notin LibraryTables, DraftsOf(row) = {},
         row.table = "stop" => row.circuit \in All("circuit"),
         Making(c, row) \in before \cup after, Quiet(before), Quiet(after)
  PROVE  Lawful(c)
<1>1. PICK m : m = Waiting(c, Absent, row, after, TRUE, Done("ok"))
  OBVIOUS
<1>2. /\ m.at = "commit" /\ m.key = c /\ m.seen = Absent /\ m.wanted = row
      /\ m.after = after /\ m.next = Done("ok")
  BY <1>1 DEF Waiting
<1>3. /\ call[c] = Idle /\ call' = [call EXCEPT ![c] = m]
      /\ log' = log \cup before /\ UNCHANGED rows
  BY <1>1 DEF Adds, Commits, Goes, Waiting
<1>4. call[c].at = "idle" /\ ~Settled(c)
  BY <1>3 DEF Settled, Idle
<1>5. c \in Names /\ c \notin LibraryKeys /\ Place(c, row.table)
  BY KeysAssumption, RowTables DEF Names, LibraryKeys, Place
<1>6. MakesRow(c, m)'
  BY <1>2, <1>3, <1>5 DEF MakesRow, All, Quiet, Deletes
<1>7. Quiet(log' \ log)
  BY <1>3 DEF Quiet
<1> QED
  BY <1>2, <1>3, <1>4, <1>6, <1>7, CommitsMoves, DoneIsDone

\* A handler that sets columns of a row.
LEMMA RevisesLawful ==
  ASSUME RecordsInv, NEW c \in Calls, call[c].at \notin {"commit", "written", "done"},
         NEW m, call' = [call EXCEPT ![c] = m], UNCHANGED rows,
         log \subseteq log', Quiet(log' \ log),
         m.at = "commit", m.next.at \in {"done", "second source"},
         Held(m.key, m.seen), Revises(m.seen, m.wanted), Quiet(m.after)
  PROVE  Lawful(c)
<1>1. ChangesRow(m)
  BY DEF ChangesRow
<1>2. m.seen # Absent
  BY RowsAreThere DEF Held
<1> QED
  BY <1>1, <1>2, CommitsMoves

LEMMA ChangesLawful ==
  ASSUME RecordsInv, NEW c \in Calls, NEW table, NEW k \in Names, NEW cells,
         NEW before, NEW after, Changes(c, table, k, cells, before, after),
         k \in All(table) => Revises(rows[k], With(rows[k], cells)),
         Quiet(before), Quiet(after)
  PROVE  Lawful(c)
<1>1. CASE k \notin All(table)
  BY <1>1, AnswersLawful DEF Changes
<1>2. CASE k \in All(table)
  <2>1. PICK m : m = Waiting(k, rows[k], With(rows[k], cells), after, TRUE, Done("ok"))
    OBVIOUS
  <2>2. /\ m.at = "commit" /\ m.key = k /\ m.seen = rows[k]
        /\ m.wanted = With(rows[k], cells) /\ m.after = after /\ m.next = Done("ok")
    BY <2>1 DEF Waiting
  <2>3. /\ call[c] = Idle /\ call' = [call EXCEPT ![c] = m]
        /\ log' = log \cup before /\ UNCHANGED rows
    BY <1>2, <2>1 DEF Changes, Commits, Goes, Waiting
  <2>4. call[c].at = "idle"
    BY <2>3 DEF Idle
  <2>5. Held(m.key, m.seen) /\ Revises(m.seen, m.wanted)
    BY <1>2, <2>2, RowHeld
  <2>6. Quiet(log' \ log) /\ Quiet(m.after)
    BY <2>2, <2>3 DEF Quiet
  <2> QED
    BY <2>2, <2>3, <2>4, <2>5, <2>6, RevisesLawful, DoneIsDone
<1> QED
  BY <1>1, <1>2

\* A handler that removes a row, to tell of it when it is gone.
LEMMA DropsLawful ==
  ASSUME RecordsInv, NEW c \in Calls, call[c] = Idle,
         NEW k \in Names \cup LibraryKeys, NEW table \in Removable, k \in All(table),
         NEW after,
         Commits(c, k, rows[k], Absent, {}, after, FALSE, Done("ok")),
         Says(after, {k})
  PROVE  Lawful(c)
<1>1. PICK m : m = Waiting(k, rows[k], Absent, after, FALSE, Done("ok"))
  OBVIOUS
<1>2. /\ m.at = "commit" /\ m.key = k /\ m.seen = rows[k]
      /\ m.wanted = Absent /\ m.after = after /\ m.next = Done("ok")
  BY <1>1 DEF Waiting
<1>3. /\ call' = [call EXCEPT ![c] = m] /\ log' = log /\ UNCHANGED rows
  BY <1>1 DEF Commits, Goes, Waiting
<1>4. Held(m.key, m.seen) /\ m.seen.table = table /\ m.seen # Absent
  BY <1>2, RowHeld
<1>5. RemovesRow(m)
  BY <1>2, <1>4 DEF RemovesRow
<1>6. call[c].at = "idle" /\ Quiet(log' \ log)
  BY <1>3 DEF Quiet, Idle
<1> QED
  BY <1>2, <1>3, <1>4, <1>5, <1>6, CommitsMoves, DoneIsDone

LEMMA RemovesLawful ==
  ASSUME RecordsInv, NEW c \in Calls, NEW table \in Removable, table \notin LibraryTables,
         NEW k \in Names, NEW what, Removes(c, table, k, {Entry(table, what, k)})
  PROVE  Lawful(c)
<1>1. CASE k \notin All(table)
  BY <1>1, AnswersLawful DEF Removes
<1>2. CASE k \in All(table)
  <2>1. /\ call[c] = Idle
        /\ Commits(c, k, rows[k], Absent, {}, {Entry(table, what, k)}, FALSE, Done("ok"))
    BY <1>2, Zenon DEF Removes
  <2>2. Settled(k)
    BY <1>2, RowHeld DEF Held
  <2>3. Says({Entry(table, what, k)}, {k})
    BY <2>2 DEF Says, Entry, OnlyAt, IsOf, Removable, LibraryTables, Sections
  <2> QED
    BY <1>2, <2>1, <2>3, DropsLawful
<1> QED
  BY <1>1, <1>2

\* Entries that tell of nothing that is gone.
LEMMA QuietEntry ==
  ASSUME NEW table, table \notin Sections, NEW what, NEW k,
         \/ what \notin {"archived", "removed", "deleted"}
         \/ table \in {"campaign", "circuit", "note"}
  PROVE  Quiet({Entry(table, what, k)})
BY TablesAssumption DEF Quiet, Entry, Deletes, Planned, LibraryTables

LEMMA QuietTogether ==
  ASSUME NEW a, NEW b, Quiet(a), Quiet(b)
  PROVE  Quiet(a \cup b) /\ Quiet({})
BY DEF Quiet

-----------------------------------------------------------------------------
(* The engineering plans.                                                  *)

LEMMA PlannedQuiet ==
  \A table \in Planned : table \notin Sections /\ table \notin LibraryTables
                         /\ table \notin {"campaign", "circuit", "stop", "note"}
BY TablesAssumption DEF Planned, Sections, LibraryTables

\* A row of a plan, made with its entry.
LEMMA CreateLawful ==
  ASSUME RecordsInv, NEW c \in Calls, NEW row \in PlanRows, NEW before, NEW after,
         Adds(c, row, before, after), row.table # "import",
         \/ before = {} /\ after = {Entry(row.table, "created", c)}
         \/ before = {Entry(row.table, "created", c)} /\ after = {}
  PROVE  Lawful(c)
<1>1. row \in Row
  BY DEF Row
<1>2. row.table \in Planned
  BY DEF PlanRows, GoalRows, AcquisitionRows, MaterialRows, ImportRows, ReadinessRows, Planned
<1>3. /\ row.table \notin LibraryTables /\ row.table \notin Sections
      /\ row.table \notin {"campaign", "circuit", "stop", "note"}
  BY <1>2, PlannedQuiet
<1>4. DraftsOf(row) = {} /\ Making(c, row) = Entry(row.table, "created", c)
  BY <1>3 DEF DraftsOf, Making, NameOf
<1>5. Quiet({Entry(row.table, "created", c)}) /\ Quiet({})
  BY <1>3, QuietEntry DEF Quiet
<1> QED
  BY <1>1, <1>3, <1>4, <1>5, AddsLawful

LEMMA PostGoalLawful ==
  ASSUME RecordsInv, NEW c \in Calls, PostGoal(c) \/ PostBuild(c) \/ PostPlan(c)
  PROVE  Lawful(c)
<1>1. ASSUME NEW state \in {"active", "bad"}, CreateGoal(c, state) PROVE Lawful(c)
  <2>1. Goal(state).state = state /\ Goal(state).table = "goal"
    BY DEF Goal
  <2>2. state = "active" => Goal(state) \in PlanRows
    BY DEF Goal, PlanRows, GoalRows
  <2> QED
    BY <1>1, <2>1, <2>2, AnswersLawful, CreateLawful DEF CreateGoal, Create
<1>2. ASSUME NEW state \in {"active", "bad"}, CreateBuildPlan(c, state) PROVE Lawful(c)
  <2>1. Build(state).state = state /\ Build(state).table = "build"
    BY DEF Build
  <2>2. state = "active" => Build(state) \in PlanRows
    BY DEF Build, PlanRows, GoalRows
  <2> QED
    BY <1>2, <2>1, <2>2, AnswersLawful, CreateLawful DEF CreateBuildPlan, Create
<1>3. ASSUME NEW state \in {"active", "bad"}, CreateAcquisitionPlan(c, state)
      PROVE  Lawful(c)
  <2>1. Plan(state).state = state /\ Plan(state).table = "plan"
    BY DEF Plan
  <2>2. state = "active" => Plan(state) \in PlanRows
    BY DEF Plan, PlanRows, AcquisitionRows
  <2> QED
    BY <1>3, <2>1, <2>2, AnswersLawful, CreateLawful DEF CreateAcquisitionPlan, Create
<1> QED
  BY <1>1, <1>2, <1>3 DEF PostGoal, PostBuild, PostPlan

LEMMA PostMaterialLawful ==
  ASSUME RecordsInv, NEW c \in Calls, PostMaterial(c)
  PROVE  Lawful(c)
<1> SUFFICES ASSUME NEW required \in {"more", "enough", "bad", Absent},
                    NEW current \in {"some", Absent}, required # "bad",
                    UpsertMaterialOverride(c, required, current)
             PROVE  Lawful(c)
  BY AnswersLawful DEF PostMaterial, UpsertMaterialOverride
<1> DEFINE row == [table |-> "material", required |-> required, current |-> current]
<1>1. row \in PlanRows /\ row.table = "material"
  BY DEF PlanRows, MaterialRows
<1>2. Adds(c, row, {}, {Entry("material", "created", c)})
  BY DEF UpsertMaterialOverride
<1> QED
  BY <1>1, <1>2, CreateLawful

LEMMA PostReadinessLawful ==
  ASSUME RecordsInv, NEW c \in Calls, PostReadiness(c)
  PROVE  Lawful(c)
<1> SUFFICES ASSUME NEW kind \in Kinds, CreateReadinessState(c, kind, "active")
             PROVE  Lawful(c)
  BY AnswersLawful DEF PostReadiness, CreateReadinessState
<1> DEFINE row == [table |-> kind, state |-> "active"]
<1>1. row \in PlanRows /\ row.table = kind /\ kind # "import"
  BY TablesAssumption DEF PlanRows, ReadinessRows
<1>2. Adds(c, row, {}, {Entry(kind, "created", c)})
  BY DEF CreateReadinessState
<1> QED
  BY <1>1, <1>2, CreateLawful

\* What a PATCH may set of a goal, a build or a plan.
LEMMA PlanRevised ==
  ASSUME NEW r \in Row, r.table \in {"goal", "build", "plan"},
         NEW body \in Bodies, ~Refused(Given(body, {"notes"}))
  PROVE  Revises(r, With(r, Given(body, {"notes"})))
<1> DEFINE cells == Given(body, {"notes"})
           new == With(r, cells)
<1>1. /\ DOMAIN cells \subseteq {"state", "notes"}
      /\ "state" \in DOMAIN cells => cells.state = "complete"
      /\ "notes" \in DOMAIN cells => cells.notes \in {"new", Absent}
  BY DEF Bodies, Given, Refused
<1> HIDE DEF cells
<1>2. CASE r.table \in {"goal", "build"}
  <2>1. r \in GoalRows
    BY <1>2, RowTables
  <2>2. new \in GoalRows /\ new.table = r.table
    BY <1>1, <2>1 DEF With, GoalRows
  <2> QED
    BY <1>2, <2>2 DEF Revises, Row, PlanRows, DraftsOf, LibraryTables, cells
<1>3. CASE r.table = "plan"
  <2>1. r \in AcquisitionRows
    BY <1>3, RowTables
  <2>2. new \in AcquisitionRows /\ new.table = r.table
    BY <1>1, <2>1 DEF With, AcquisitionRows
  <2> QED
    BY <1>3, <2>2 DEF Revises, Row, PlanRows, DraftsOf, LibraryTables, cells
<1> QED
  BY <1>2, <1>3

LEMMA UpdateLawful ==
  ASSUME RecordsInv, NEW c \in Calls, NEW table \in {"goal", "build", "plan"},
         NEW k \in Names, NEW body \in Bodies, NEW what \in {"updated", "state"},
         Update(c, table, k, Given(body, {"notes"}), {Entry(table, what, k)})
  PROVE  Lawful(c)
<1> DEFINE cells == Given(body, {"notes"})
<1>1. CASE k \in All(table) /\ Refused(cells)
  BY <1>1, AnswersLawful DEF Update
<1>2. CASE ~(k \in All(table) /\ Refused(cells))
  <2>1. Changes(c, table, k, cells, {Entry(table, what, k)}, {})
    BY <1>2 DEF Update
  <2>2. k \in All(table) => Revises(rows[k], With(rows[k], cells))
    BY <1>2, RowHeld, PlanRevised
  <2>3. Quiet({Entry(table, what, k)}) /\ Quiet({})
    BY QuietEntry DEF Sections, Quiet
  <2> QED
    BY <2>1, <2>2, <2>3, ChangesLawful
<1> QED
  BY <1>1, <1>2

LEMMA PatchPlansLawful ==
  ASSUME RecordsInv, NEW c \in Calls, NEW k \in Names,
         PatchGoal(c, k) \/ PatchBuild(c, k) \/ PatchPlan(c, k)
  PROVE  Lawful(c)
<1>1. CASE PatchGoal(c, k)
  <2>1. PICK body \in Bodies : UpdateGoal(c, k, Given(body, {"notes"}))
    BY <1>1 DEF PatchGoal
  <2>2. PICK what \in {"updated", "state"} :
          Update(c, "goal", k, Given(body, {"notes"}), {Entry("goal", what, k)})
    BY <2>1 DEF UpdateGoal
  <2> QED
    BY <2>2, UpdateLawful
<1>2. CASE PatchBuild(c, k)
  <2>1. PICK body \in Bodies :
          Update(c, "build", k, Given(body, {"notes"}), {Entry("build", "updated", k)})
    BY <1>2 DEF PatchBuild, UpdateBuildPlan
  <2> QED
    BY <2>1, UpdateLawful
<1>3. CASE PatchPlan(c, k)
  <2>1. PICK body \in Bodies : UpdateAcquisitionPlan(c, k, Given(body, {"notes"}))
    BY <1>3 DEF PatchPlan
  <2>2. PICK what \in {"updated", "state"} :
          Update(c, "plan", k, Given(body, {"notes"}), {Entry("plan", what, k)})
    BY <2>1 DEF UpdateAcquisitionPlan
  <2> QED
    BY <2>2, UpdateLawful
<1> QED
  BY <1>1, <1>2, <1>3

LEMMA DeletePlansLawful ==
  ASSUME RecordsInv, NEW c \in Calls, NEW k \in Names,
         \/ DeleteGoal(c, k) \/ DeleteBuildPlan(c, k)
         \/ DeleteMaterialOverride(c, k) \/ DeleteAcquisitionPlan(c, k)
  PROVE  Lawful(c)
<1>1. ASSUME NEW table \in {"goal", "build", "material", "plan"},
             Removes(c, table, k, {Entry(table, "archived", k)})
      PROVE  Lawful(c)
  BY <1>1, RemovesLawful DEF Removable, LibraryTables
<1> QED
  BY <1>1 DEF DeleteGoal, DeleteBuildPlan, DeleteMaterialOverride, DeleteAcquisitionPlan

\* What is handed over is added to the plan.
LEMMA HandoffLawful ==
  ASSUME RecordsInv, NEW c \in Calls, NEW k \in Names, NEW cells,
         NEW what \in {"handoff", "task"}, NEW name,
         Changes(c, "plan", k, cells, {Entry("plan", what, name)}, {}),
         DOMAIN cells \subseteq {"state", "handoffs", "task"},
         "state" \in DOMAIN cells =>
           cells.state \in {"sent to navigation", "sent to operations"},
         k \in All("plan") =>
           /\ "handoffs" \in DOMAIN cells => cells.handoffs \subseteq Names
           /\ "task" \in DOMAIN cells => cells.task \in Names
  PROVE  Lawful(c)
<1>1. ASSUME k \in All("plan") PROVE Revises(rows[k], With(rows[k], cells))
  <2>1. PICK r : r = rows[k]
    OBVIOUS
  <2>2. r \in AcquisitionRows
    BY <1>1, <2>1, RowHeld, RowTables
  <2>3. With(r, cells) \in AcquisitionRows
    BY <1>1, <2>2 DEF With, AcquisitionRows
  <2>4. r.table = "plan" /\ With(r, cells).table = "plan"
    BY <2>2, <2>3 DEF AcquisitionRows
  <2> QED
    BY <2>1, <2>3, <2>4 DEF Revises, Row, PlanRows, DraftsOf, LibraryTables
<1>2. Quiet({Entry("plan", what, name)}) /\ Quiet({})
  BY QuietEntry DEF Sections, Quiet
<1> QED
  BY <1>1, <1>2, ChangesLawful

LEMMA HandoffsLawful ==
  ASSUME RecordsInv, NEW c \in Calls, NEW k \in Names,
         HandoffToNavigation(c, k) \/ HandoffToOperations(c, k)
  PROVE  Lawful(c)
<1>1. ASSUME k \in All("plan")
      PROVE  rows[k].handoffs \subseteq Names /\ rows[k].task \in Names \cup {Absent}
  <2>1. rows[k] \in AcquisitionRows
    BY <1>1, RowHeld, RowTables
  <2> QED
    BY <2>1 DEF AcquisitionRows
<1>2. CASE HandoffToNavigation(c, k)
  <2>1. PICK seen : /\ k \in All("plan") => seen \subseteq Names
                    /\ Changes(c, "plan", k, [state |-> "sent to navigation",
                                              handoffs |-> seen \cup {c}],
                               {Entry("plan", "handoff", c)}, {})
    BY <1>1, <1>2 DEF HandoffToNavigation
  <2> DEFINE cells == [state |-> "sent to navigation", handoffs |-> seen \cup {c}]
  <2>2. /\ DOMAIN cells \subseteq {"state", "handoffs", "task"}
        /\ cells.state = "sent to navigation" /\ "task" \notin DOMAIN cells
        /\ k \in All("plan") => cells.handoffs \subseteq Names
    BY <2>1 DEF Names
  <2> QED
    BY <2>1, <2>2, HandoffLawful
<1>3. CASE HandoffToOperations(c, k)
  <2>1. PICK task : /\ k \in All("plan") => task \in Names
                    /\ Changes(c, "plan", k, [state |-> "sent to operations", task |-> task],
                               {Entry("plan", "task", k)}, {})
    BY <1>1, <1>3 DEF HandoffToOperations, Names
  <2> DEFINE cells == [state |-> "sent to operations", task |-> task]
  <2>2. /\ DOMAIN cells \subseteq {"state", "handoffs", "task"}
        /\ cells.state = "sent to operations" /\ "handoffs" \notin DOMAIN cells
        /\ k \in All("plan") => cells.task \in Names
    BY <2>1
  <2> QED
    BY <2>1, <2>2, HandoffLawful
<1> QED
  BY <1>2, <1>3

\* What a request for an import source is followed by.
GoesOnWith(next) == next.at \in {"done", "second source"}

\* The row of an import source, which no other call makes.
LEMMA EnsureLawful ==
  ASSUME RecordsInv, NEW c \in Calls, call[c].at \in {"idle", "second source"},
         NEW p \in {Providers[1], Providers[2]}, NEW attempt, Quiet(attempt),
         NEW next, GoesOnWith(next), EnsureImportSource(c, p, attempt, next)
  PROVE  Lawful(c)
<1> DEFINE made == Entry("import", "created", <<c, p>>)
           row == [table |-> "import", provider |-> p]
<1>1. Quiet({made})
  BY QuietEntry DEF Sections
<1>2. CASE Goes(c, Done("error")) /\ UNCHANGED <<rows, log>>
  <2>1. log' = log \cup {} /\ Quiet({}) /\ Done("error").at = "done" /\ UNCHANGED rows
    BY <1>2, DoneIsDone DEF Quiet
  <2> QED
    BY <1>2, <2>1, PlainLawful
<1>3. CASE Goes(c, next) /\ log' = log \cup attempt /\ UNCHANGED rows
  BY <1>3, PlainLawful DEF GoesOnWith
<1>4. CASE Commits(c, <<c, p>>, Absent, row, {}, {made} \cup attempt, TRUE, next)
  <2>1. PICK m : m = Waiting(<<c, p>>, Absent, row, {made} \cup attempt, TRUE, next)
    OBVIOUS
  <2>2. /\ m.at = "commit" /\ m.key = <<c, p>> /\ m.seen = Absent /\ m.wanted = row
        /\ m.after = {made} \cup attempt /\ m.next = next
    BY <2>1 DEF Waiting
  <2>3. call' = [call EXCEPT ![c] = m] /\ log' = log \cup {} /\ UNCHANGED rows
    BY <1>4, <2>1 DEF Commits, Goes, Waiting
  <2>4. <<c, p>> \in Further /\ <<c, p>> \notin Names /\ <<c, p>> # c
    BY ImportsAssumption, KeysAssumption DEF Names
  <2>5. <<c, p>> \notin LibraryKeys
    BY LibraryAssumption DEF LibraryKeys
  <2>6. row \in Row /\ row.table = "import"
    BY DEF Row, PlanRows, ImportRows
  <2>7. Making(<<c, p>>, row) = made /\ DraftsOf(row) = {}
    BY <2>6 DEF Making, NameOf, LibraryTables, DraftsOf
  <2>8. Place(<<c, p>>, "import")
    BY <2>4, <2>5 DEF Place, Tables, Planned
  <2>9. Quiet(m.after)
    BY <1>1, <2>2 DEF Quiet
  <2> HIDE DEF row, made
  <2>10. MakesRow(c, m)'
    BY <2>2, <2>4, <2>5, <2>6, <2>7, <2>8, <2>9 DEF MakesRow, Quiet, Deletes
  <2>11. Quiet(log' \ log)
    BY <2>3 DEF Quiet
  <2> QED
    BY <2>2, <2>3, <2>4, <2>10, <2>11, CommitsMoves DEF GoesOnWith
<1> QED
  BY <1>2, <1>3, <1>4 DEF EnsureImportSource

LEMMA ImportsLawful ==
  ASSUME RecordsInv, NEW c \in Calls,
         ImportSources(c) \/ (\E p \in {"edsy", "other"} : AttemptImport(c, p)) \/ AttemptSource(c)
  PROVE  Lawful(c)
<1>1. Idle.at = "idle" /\ Quiet({}) /\ Quiet({Entry("import", "attempt", c)})
  BY QuietEntry DEF Idle, Sections, Quiet
<1>2. CASE ImportSources(c)
  <2>1. PICK second : second = [at |-> "second source"]
    OBVIOUS
  <2>2. CASE call[c] = Idle /\ EnsureImportSource(c, Providers[1], {}, second)
    <3>1. call[c].at \in {"idle", "second source"} /\ GoesOnWith(second)
      BY <1>1, <2>1, <2>2 DEF GoesOnWith
    <3>2. Providers[1] \in {Providers[1], Providers[2]}
      OBVIOUS
    <3> QED
      BY <1>1, <2>2, <3>1, <3>2, EnsureLawful
  <2>3. CASE call[c].at = "second source"
             /\ EnsureImportSource(c, Providers[2], {}, Done("disabled"))
    <3>1. GoesOnWith(Done("disabled"))
      BY DoneIsDone DEF GoesOnWith
    <3>2. call[c].at \in {"idle", "second source"}
      BY <2>3
    <3>3. Providers[2] \in {Providers[1], Providers[2]}
      OBVIOUS
    <3> QED
      BY <1>1, <2>3, <3>1, <3>2, <3>3, EnsureLawful
  <2> QED
    BY <1>2, <2>1, <2>2, <2>3 DEF ImportSources
<1>3. ASSUME NEW p \in {"edsy", "other"}, AttemptImport(c, p) PROVE Lawful(c)
  <2>1. CASE p \notin {Providers[1], Providers[2]}
    BY <1>3, <2>1, AnswersLawful DEF AttemptImport
  <2>2. CASE p \in {Providers[1], Providers[2]}
    <3>1. /\ call[c] = Idle
          /\ EnsureImportSource(c, p, {Entry("import", "attempt", c)}, Done("disabled"))
      BY <1>3, <2>2 DEF AttemptImport
    <3>2. GoesOnWith(Done("disabled"))
      BY DoneIsDone DEF GoesOnWith
    <3>3. call[c].at \in {"idle", "second source"}
      BY <1>1, <3>1
    <3> QED
      BY <1>1, <2>2, <3>1, <3>2, <3>3, EnsureLawful
  <2> QED
    BY <2>1, <2>2
<1>4. CASE AttemptSource(c)
  <2>1. CASE Answers(c, "not found")
    BY <2>1, AnswersLawful
  <2>2. CASE /\ call[c] = Idle /\ Goes(c, Done("blocked"))
             /\ log' = log \cup {Entry("import", "attempt", c)} /\ UNCHANGED rows
    BY <1>1, <2>2, PlainLawful, DoneIsDone
  <2> QED
    BY <1>4, <2>1, <2>2 DEF AttemptSource
<1> QED
  BY <1>2, <1>3, <1>4

LEMMA ListPlansLawful ==
  ASSUME RecordsInv, NEW c \in Calls,
         \/ GetGoals(c) \/ GetBuilds(c) \/ GetAcquisitionPlans(c) \/ ListReadiness(c)
         \/ Materials(c) \/ Overview(c)
  PROVE  Lawful(c)
<1>1. Idle.at = "idle" /\ Quiet({})
  BY DEF Idle, Quiet
<1>2. ASSUME NEW next, next.at \in {"done", "readiness", "overview"}, Goes(c, next),
             call[c].at \in {"idle", "readiness", "overview"}, UNCHANGED <<rows, log>>
      PROVE  Lawful(c)
  <2>1. log' = log \cup {}
    BY <1>2
  <2> QED
    BY <1>1, <1>2, <2>1, PlainLawful
<1>3. CASE GetGoals(c) \/ GetBuilds(c) \/ GetAcquisitionPlans(c) \/ Materials(c)
  BY <1>3, AnswersLawful, ShowsLawful DEF GetGoals, GetBuilds, GetAcquisitionPlans, Materials
<1>4. CASE ListReadiness(c)
  <2>1. CASE \E kind \in Kinds : Shows(c, [readiness |-> All(kind)])
    BY <2>1, ShowsLawful
  <2>2. CASE ~\E kind \in Kinds : Shows(c, [readiness |-> All(kind)])
    <3>1. PICK next : /\ next.at \in {"done", "readiness"} /\ Goes(c, next)
                      /\ call[c].at \in {"idle", "readiness"} /\ UNCHANGED <<rows, log>>
      BY <1>1, <1>4, <2>2 DEF ListReadiness, Shown
    <3> QED
      BY <1>2, <3>1
  <2> QED
    BY <2>1, <2>2
<1>5. CASE Overview(c)
  <2>1. PICK next : /\ next.at \in {"done", "overview"} /\ Goes(c, next)
                    /\ call[c].at \in {"idle", "overview"} /\ UNCHANGED <<rows, log>>
    BY <1>1, <1>5 DEF Overview, Shown
  <2> QED
    BY <1>2, <2>1
<1> QED
  BY <1>3, <1>4, <1>5

LEMMA OnPlansLawful ==
  ASSUME RecordsInv, NEW c \in Calls, OnPlans(c)
  PROVE  Lawful(c)
<1>1. ASSUME NEW k \in Names, ChangingPlans(c, k) PROVE Lawful(c)
  BY <1>1, PatchPlansLawful, DeletePlansLawful, HandoffsLawful DEF ChangingPlans
<1>2. CASE AskingPlans(c)
  BY <1>2, PostGoalLawful, PostMaterialLawful, PostReadinessLawful, ListPlansLawful,
     ImportsLawful DEF AskingPlans
<1> QED
  BY <1>1, <1>2 DEF OnPlans

-----------------------------------------------------------------------------
(* Campaigns.                                                              *)

LEMMA PostCampaignLawful ==
  ASSUME RecordsInv, NEW c \in Calls, PostCampaign(c)
  PROVE  Lawful(c)
<1>1. PICK workflow \in Workflows, state \in {"proposed", "archived", "bad"} :
        CreateCampaign(c, workflow, state)
  BY DEF PostCampaign
<1>2. CASE state \notin States
  BY <1>1, <1>2, AnswersLawful DEF CreateCampaign
<1>3. CASE state \in States
  <2>1. Adds(c, Campaign(workflow, state), {Entry("campaign", "created", c)}, {})
    BY <1>1, <1>3 DEF CreateCampaign
  <2>2. PICK row : row = Campaign(workflow, state)
    OBVIOUS
  <2>3. row \in CampaignRows /\ row.table = "campaign" /\ row.drafts = {}
    BY <1>3, <2>2 DEF Campaign, CampaignRows
  <2>4. row \in Row
    BY <2>3 DEF Row
  <2>5. /\ DraftsOf(row) = {} /\ row.table \notin LibraryTables
        /\ Making(c, row) = Entry("campaign", "created", c)
    BY <2>3 DEF DraftsOf, LibraryTables, Making, NameOf
  <2>6. Quiet({Entry("campaign", "created", c)}) /\ Quiet({})
    BY QuietEntry DEF Sections, Quiet
  <2> QED
    BY <2>1, <2>2, <2>3, <2>4, <2>5, <2>6, AddsLawful
<1> QED
  BY <1>2, <1>3

\* Columns of a campaign that may be set.
CampaignCells(cells) ==
  /\ DOMAIN cells \subseteq {"title", "state", "archivedAt", "facts", "circuits"}
  /\ "title" \in DOMAIN cells => cells.title = "new"
  /\ "state" \in DOMAIN cells => cells.state \in States
  /\ "archivedAt" \in DOMAIN cells => cells.archivedAt \in Calls
  /\ "facts" \in DOMAIN cells => cells.facts \subseteq Facts
  /\ "circuits" \in DOMAIN cells => cells.circuits \subseteq {"circuit"}

LEMMA CampaignRevised ==
  ASSUME NEW r \in CampaignRows, \A d \in r.drafts : Sourced(d),
         NEW cells, CampaignCells(cells),
         "state" \in DOMAIN cells => r.state # "archived"
  PROVE  Revises(r, With(r, cells))
<1> DEFINE new == With(r, cells)
<1>1. /\ new \in CampaignRows /\ new.table = "campaign" /\ r.table = "campaign"
      /\ new.drafts = r.drafts
  BY DEF CampaignCells, With, CampaignRows, Names
<1>2. new.archivedAt = Absent => r.archivedAt = Absent
  BY KeysAssumption DEF CampaignCells, With, CampaignRows, Names
<1>4. r.state = "archived" => new.state = "archived"
  BY DEF With, CampaignRows
<1> HIDE DEF new
<1>3. Revises(r, new)
  BY <1>1, <1>2, <1>4 DEF Revises, Row, DraftsOf, LibraryTables
<1> QED
  BY <1>3 DEF new

LEMMA CampaignRow ==
  ASSUME RecordsInv, NEW k \in Names, Is(k)
  PROVE  rows[k] \in CampaignRows /\ \A d \in rows[k].drafts : Sourced(d)
BY RowHeld, RowTables DEF Is, DraftsOf

LEMMA ChangeCampaignLawful ==
  ASSUME RecordsInv, NEW c \in Calls, NEW k \in Names, NEW cells, NEW what,
         Changes(c, "campaign", k, cells, {Entry("campaign", what, k)}, {}),
         Is(k) => CampaignCells(cells) /\ ("state" \in DOMAIN cells => rows[k].state # "archived")
  PROVE  Lawful(c)
<1>1. k \in All("campaign") => Revises(rows[k], With(rows[k], cells))
  BY CampaignRow, CampaignRevised DEF Is
<1>2. Quiet({Entry("campaign", what, k)}) /\ Quiet({})
  BY QuietEntry DEF Sections, Quiet
<1> QED
  BY <1>1, <1>2, ChangesLawful

LEMMA ChangeCampaignsLawful ==
  ASSUME RecordsInv, NEW c \in Calls, NEW k \in Names,
         \/ PatchCampaign(c, k) \/ PostState(c, k)
         \/ PostIntelLink(c, k) \/ PostNavigationLink(c, k)
  PROVE  Lawful(c)
<1>1. CASE PatchCampaign(c, k)
  <2>1. PICK body \in {[title |-> Absent], [title |-> "new"]} :
          UpdateCampaign(c, k, Given(body, {}))
    BY <1>1 DEF PatchCampaign
  <2>2. PICK cells : cells = Given(body, {})
    OBVIOUS
  <2>3. CampaignCells(cells) /\ "state" \notin DOMAIN cells
    BY <2>2 DEF Given, CampaignCells
  <2> QED
    BY <2>1, <2>2, <2>3, ChangeCampaignLawful DEF UpdateCampaign
<1>2. CASE PostState(c, k)
  <2>1. PICK state \in States \cup {"bad"} : TransitionState(c, k, state)
    BY <1>2 DEF PostState
  <2>2. CASE state \notin States \/ (Is(k) /\ state \notin AllowedTransitions[rows[k].state])
    BY <2>1, <2>2, AnswersLawful DEF TransitionState
  <2>3. CASE ~(state \notin States \/ (Is(k) /\ state \notin AllowedTransitions[rows[k].state]))
    <3>1. PICK cells : /\ cells \in {[state |-> state, archivedAt |-> c], [state |-> state]}
                       /\ Changes(c, "campaign", k, cells, {Entry("campaign", state, k)}, {})
      BY <2>1, <2>3 DEF TransitionState
    <3>2. CampaignCells(cells)
      BY <2>3, <3>1 DEF CampaignCells
    <3>3. Is(k) => rows[k].state # "archived"
      BY <2>3 DEF AllowedTransitions
    <3> QED
      BY <3>1, <3>2, <3>3, ChangeCampaignLawful
  <2> QED
    BY <2>2, <2>3
<1>3. CASE PostIntelLink(c, k)
  <2>1. PICK fact \in Facts, link \in BOOLEAN : LinkIntelFact(c, k, fact, link)
    BY <1>3 DEF PostIntelLink
  <2>2. PICK linked : linked = IF Is(k) THEN rows[k].facts ELSE {}
    OBVIOUS
  <2>3. PICK facts : facts = IF link THEN linked \cup {fact} ELSE linked \ {fact}
    OBVIOUS
  <2>4. PICK what : what = IF link THEN "fact linked" ELSE "fact unlinked"
    OBVIOUS
  <2>5. Changes(c, "campaign", k, [facts |-> facts], {Entry("campaign", what, k)}, {})
    BY <2>1, <2>2, <2>3, <2>4 DEF LinkIntelFact, Changes, Commits, Goes
  <2>6. Is(k) => CampaignCells([facts |-> facts])
    BY <2>2, <2>3, CampaignRow DEF CampaignRows, CampaignCells
  <2> QED
    BY <2>5, <2>6, ChangeCampaignLawful
<1>4. CASE PostNavigationLink(c, k)
  <2>1. PICK link \in BOOLEAN : LinkNavigationCircuit(c, k, "circuit", link)
    BY <1>4 DEF PostNavigationLink
  <2>2. PICK linked : linked = IF Is(k) THEN rows[k].circuits ELSE {}
    OBVIOUS
  <2>3. PICK circuits :
          circuits = IF link THEN linked \cup {"circuit"} ELSE linked \ {"circuit"}
    OBVIOUS
  <2>4. PICK what : what = IF link THEN "circuit linked" ELSE "circuit unlinked"
    OBVIOUS
  <2>5. Changes(c, "campaign", k, [circuits |-> circuits], {Entry("campaign", what, k)}, {})
    BY <2>1, <2>2, <2>3, <2>4 DEF LinkNavigationCircuit, Changes, Commits, Goes
  <2>6. Is(k) => CampaignCells([circuits |-> circuits])
    BY <2>2, <2>3, CampaignRow DEF CampaignRows, CampaignCells
  <2> QED
    BY <2>5, <2>6, ChangeCampaignLawful
<1> QED
  BY <1>1, <1>2, <1>3, <1>4

LEMMA DeleteCampaignLawful ==
  ASSUME RecordsInv, NEW c \in Calls, NEW k \in Names, DeleteCampaign(c, k)
  PROVE  Lawful(c)
<1>1. CASE ArchiveCampaign(c, k)
  <2>1. PICK r : r = rows[k]
    OBVIOUS
  <2>2. r \in CampaignRows /\ (\A d \in r.drafts : Sourced(d)) /\ Held(k, r)
    BY <1>1, <2>1, CampaignRow, RowHeld DEF ArchiveCampaign, Is
  <2>3. PICK new : new = [r EXCEPT !.state = "archived", !.archivedAt = c]
    OBVIOUS
  <2>4. PICK m : m = Waiting(k, r, new, {}, FALSE, Done("archived"))
    OBVIOUS
  <2>5. /\ m.at = "commit" /\ m.key = k /\ m.seen = r /\ m.wanted = new /\ m.after = {}
        /\ m.next = Done("archived")
    BY <2>4 DEF Waiting
  <2>6. /\ call[c] = Idle /\ call' = [call EXCEPT ![c] = m] /\ UNCHANGED rows
        /\ log' = log \cup {Entry("campaign", "archived", k)}
    BY <1>1, <2>1, <2>3, <2>4 DEF ArchiveCampaign, Commits, Goes, Waiting
  <2>7. /\ new \in CampaignRows /\ new.table = "campaign" /\ r.table = "campaign"
        /\ new.drafts = r.drafts /\ new.archivedAt # Absent /\ new.state = "archived"
    BY <2>2, <2>3, KeysAssumption DEF CampaignRows, Names, States
  <2>8. Revises(r, new)
    BY <2>2, <2>7 DEF Revises, Row, DraftsOf, LibraryTables
  <2>9. Quiet({Entry("campaign", "archived", k)}) /\ Quiet({})
    BY QuietEntry DEF Sections, Quiet
  <2>10. Quiet(log' \ log) /\ call[c].at = "idle"
    BY <2>6, <2>9 DEF Quiet, Idle
  <2> QED
    BY <2>2, <2>5, <2>6, <2>8, <2>9, <2>10, RevisesLawful, DoneIsDone
<1> QED
  BY <1>1, AnswersLawful DEF DeleteCampaign

\* What the gate and the drafter log of it.
LEMMA GateQuiet ==
  ASSUME NEW c, NEW k, NEW approved, NEW what, what # "archived"
  PROVE  Quiet({Entry("campaign", what, k)}) /\ Quiet(Gate(c, approved))
BY TablesAssumption DEF Quiet, Entry, Gate, Deletes, Planned, LibraryTables, Sections

LEMMA RequestLawful ==
  ASSUME RecordsInv, NEW c \in Calls, NEW k \in Names, NEW approved \in BOOLEAN,
         NEW provider \in BOOLEAN, RequestAiDraft(c, k, approved, provider)
  PROVE  Lawful(c)
<1>1. PICK what : what = IF approved THEN "gate confirmed" ELSE "gate canceled"
  OBVIOUS
<1>2. PICK new : new = {Entry("campaign", "gate shown", k)} \cup Gate(c, approved)
                        \cup {Entry("campaign", what, k)}
  OBVIOUS
<1>3. /\ call[c].at = "idle" /\ UNCHANGED rows /\ log' = log \cup new
  <2>1. call[c].at = "idle" /\ UNCHANGED rows
    <3>1. call[c] = Idle /\ UNCHANGED rows
      BY Zenon DEF RequestAiDraft
    <3> QED
      BY <3>1 DEF Idle
  <2>2. PICK gate : gate = Gate(c, approved)
    OBVIOUS
  <2>3. log' = log \cup {Entry("campaign", "gate shown", k)} \cup gate
               \cup {Entry("campaign", what, k)}
    BY <1>1, <2>2, Zenon DEF RequestAiDraft
  <2> QED
    BY <1>2, <2>1, <2>2, <2>3
<1>4. Quiet(new)
  <2>1. what # "archived"
    BY <1>1
  <2> QED
    BY <1>2, <2>1, GateQuiet, QuietTogether
<1>5. CASE ~(approved /\ provider)
  <2>1. PICK answer : Goes(c, Done(answer))
    BY <1>5 DEF RequestAiDraft
  <2> QED
    BY <1>3, <1>4, <2>1, DoneIsDone, PlainLawful
<1>6. CASE approved /\ provider
  <2>1. PICK m : m = [at |-> "asked", key |-> k, seen |-> rows[k]]
    OBVIOUS
  <2>2. m.at = "asked" /\ m.key = k /\ m.seen = rows[k]
    BY <2>1
  <2>3. call' = [call EXCEPT ![c] = m] /\ call'[c] = m /\ call' = [call EXCEPT ![c] = call'[c]]
    BY <1>6, <2>1 DEF RequestAiDraft, Goes, RecordsInv, Shape
  <2>4. Settled(c) => Settled(c)'
    BY <2>2, <2>3 DEF Settled, MakesItsOwn
  <2>5. Onward
    BY <1>3, <2>3, <2>4, StandsStill
  <2>6. k \in All("campaign")
    BY DEF RequestAiDraft, Is
  <2>7. /\ Held(k, m.seen) /\ m.seen.table = "campaign"
        /\ \A d \in m.seen.drafts : Sourced(d)
    BY <2>2, <2>6, RowHeld DEF DraftsOf
  <2>8. Held(k, m.seen)' /\ \A d \in m.seen.drafts : Sourced(d)'
    BY <2>5, <2>7, Promises
  <2>9. Entry("gate", "approved", c) \in log'
    BY <1>2, <1>3, <1>6 DEF Gate
  <2>10. Waits(c, m)'
    BY <2>2, <2>7, <2>8, <2>9 DEF Waits
  <2>11. Waits(c, call[c])'
    BY <2>3, <2>10
  <2> QED
    BY <1>3, <1>4, <2>2, <2>3, <2>4, <2>11 DEF Lawful, Moves, Quiet
<1> QED
  BY <1>5, <1>6

\* A draft that is emitted was approved, and cites what the gate was shown.
LEMMA AnsweredLawful ==
  ASSUME RecordsInv, NEW c \in Calls, NEW output, Answered(c, output)
  PROVE  Lawful(c)
<1>1. PICK row : row = call[c].seen
  OBVIOUS
<1>2. PICK k : k = call[c].key
  OBVIOUS
<1>3. /\ call[c].at = "asked" /\ Held(k, row) /\ row.table = "campaign"
      /\ (\A d \in row.drafts : Sourced(d)) /\ Entry("gate", "approved", c) \in log
  BY <1>1, <1>2 DEF Answered, RecordsInv, CallsWait, Waits
<1>4. PICK prompt : prompt = Prompt(row)
  OBVIOUS
<1>5. prompt.facts = row.facts /\ row \in CampaignRows
  BY <1>3, <1>4, RowTables DEF Prompt, Held
<1>6. CASE ~Valid(output, prompt)
  <2>1. /\ Goes(c, Done("validation_failed")) /\ UNCHANGED rows
        /\ log' = log \cup {Entry("campaign", "draft refused", k)}
    BY <1>1, <1>2, <1>4, <1>6 DEF Answered
  <2> QED
    BY <1>3, <2>1, DoneIsDone, GateQuiet, PlainLawful
<1>7. CASE Valid(output, prompt) /\ output.shape = "other"
  <2>1. Goes(c, Done("error")) /\ log' = log \cup {} /\ UNCHANGED rows
    BY <1>1, <1>2, <1>4, <1>7 DEF Answered
  <2>2. Quiet({})
    BY DEF Quiet
  <2> QED
    BY <1>3, <2>1, <2>2, DoneIsDone, PlainLawful
<1>8. CASE Valid(output, prompt) /\ output.shape # "other"
  <2>1. PICK draft : draft = Draft(c, output, prompt)
    OBVIOUS
  <2>2. PICK new : new = [row EXCEPT !.drafts = @ \cup {draft}]
    OBVIOUS
  <2>3. PICK m : m = Waiting(k, row, new, {}, FALSE, Done("emitted"))
    OBVIOUS
  <2>4. /\ m.at = "commit" /\ m.key = k /\ m.seen = row /\ m.wanted = new /\ m.after = {}
        /\ m.next = Done("emitted")
    BY <2>3 DEF Waiting
  <2>5. /\ call' = [call EXCEPT ![c] = m] /\ UNCHANGED rows
        /\ log' = log \cup {Entry("campaign", "draft emitted", k)}
    BY <1>1, <1>2, <1>4, <1>8, <2>1, <2>2, <2>3
    DEF Answered, Commits, Goes, Waiting
  <2>6. draft.by = c /\ draft.cites \subseteq prompt.facts /\ draft.sources = prompt.facts
    BY <1>8, <2>1 DEF Draft, Valid
  <2>7. draft \in Drafts /\ Sourced(draft)
    <3>1. prompt.facts \subseteq Facts
      BY <1>5 DEF CampaignRows
    <3>2. draft = [by |-> draft.by, sources |-> draft.sources, cites |-> draft.cites]
      BY <2>1 DEF Draft
    <3> QED
      BY <1>3, <2>6, <3>1, <3>2 DEF Drafts, Names, Sourced
  <2>8. /\ new \in CampaignRows /\ new.table = "campaign"
        /\ new.drafts = row.drafts \cup {draft} /\ new.archivedAt = row.archivedAt
        /\ new.state = row.state
    BY <1>5, <2>2, <2>7 DEF CampaignRows
  <2>9. Revises(row, new)
    BY <1>3, <2>7, <2>8 DEF Revises, Row, DraftsOf, LibraryTables
  <2>10. Quiet({Entry("campaign", "draft emitted", k)}) /\ Quiet({})
    BY QuietEntry DEF Sections, Quiet
  <2>11. Quiet(log' \ log)
    BY <2>5, <2>10 DEF Quiet
  <2> QED
    BY <1>3, <2>4, <2>5, <2>9, <2>10, <2>11, RevisesLawful, DoneIsDone
<1> QED
  BY <1>6, <1>7, <1>8

LEMMA OnCampaignsLawful ==
  ASSUME RecordsInv, NEW c \in Calls, OnCampaigns(c)
  PROVE  Lawful(c)
<1>1. CASE ListCampaigns(c)
  BY <1>1, AnswersLawful, ShowsLawful DEF ListCampaigns
<1>2. CASE NullProvider(c)
  <2>1. PICK next : next = Shown([sources |-> call[c].seen.facts,
                                  kb |-> KBExcerpts(call[c].seen.workflow)])
    OBVIOUS
  <2>2. Goes(c, next) /\ call[c].at = "asked" /\ log' = log \cup {} /\ UNCHANGED rows
    BY <1>2, <2>1 DEF NullProvider, Goes
  <2>3. next.at = "done" /\ Quiet({})
    BY <2>1 DEF Shown, Quiet
  <2> QED
    BY <2>2, <2>3, PlainLawful
<1>3. ASSUME NEW k \in Names, PostAiDraft(c, k) PROVE Lawful(c)
  BY <1>3, AnswersLawful, RequestLawful DEF PostAiDraft
<1>4. ASSUME NEW k \in Names, GetCampaign(c, k) PROVE Lawful(c)
  BY <1>4, AnswersLawful, ShowsLawful DEF GetCampaign
<1> QED
  BY <1>1, <1>2, <1>3, <1>4, PostCampaignLawful, AnsweredLawful, ChangeCampaignsLawful,
     DeleteCampaignLawful DEF OnCampaigns

-----------------------------------------------------------------------------
(* Circuits and stops.                                                     *)

\* A row that is stamped as archived.
LEMMA ArchivesLawful ==
  ASSUME RecordsInv, NEW c \in Calls, call[c] = Idle, NEW k \in Names,
         NEW table \in {"circuit", "note"}, k \in All(table), NEW after, Quiet(after),
         Commits(c, k, rows[k], [rows[k] EXCEPT !.archivedAt = c], {}, after, FALSE, Done("ok"))
  PROVE  Lawful(c)
<1>1. PICK r : r = rows[k]
  OBVIOUS
<1>2. PICK new : new = [r EXCEPT !.archivedAt = c]
  OBVIOUS
<1>3. PICK m : m = Waiting(k, r, new, after, FALSE, Done("ok"))
  OBVIOUS
<1>4. /\ m.at = "commit" /\ m.key = k /\ m.seen = r /\ m.wanted = new /\ m.after = after
      /\ m.next = Done("ok")
  BY <1>3 DEF Waiting
<1>5. call' = [call EXCEPT ![c] = m] /\ log' = log /\ UNCHANGED rows
  BY <1>1, <1>2, <1>3 DEF Commits, Goes, Waiting
<1>6. Held(k, r) /\ r.table = table /\ r \in Row
  BY <1>1, RowHeld
<1>7. /\ new.table = table /\ new.archivedAt # Absent
      /\ table = "circuit" => new \in CircuitRows
      /\ table = "note" => new \in NoteRows
  BY <1>2, <1>6, RowTables, KeysAssumption DEF CircuitRows, NoteRows, Names
<1>8. Revises(r, new)
  BY <1>6, <1>7 DEF Revises, Row, DraftsOf, LibraryTables
<1>9. Quiet(log' \ log) /\ call[c].at = "idle"
  BY <1>5 DEF Quiet, Idle
<1> QED
  BY <1>4, <1>5, <1>6, <1>8, <1>9, RevisesLawful, DoneIsDone

LEMMA PostCircuitLawful ==
  ASSUME RecordsInv, NEW c \in Calls, PostCircuit(c)
  PROVE  Lawful(c)
<1>1. PICK workflow \in {"bgs", "bad"} : CreateCircuit(c, workflow)
  BY DEF PostCircuit
<1>2. CASE workflow = "bad"
  BY <1>1, <1>2, AnswersLawful DEF CreateCircuit
<1>3. CASE workflow = "bgs"
  <2>1. PICK row : row = Circuit(workflow)
    OBVIOUS
  <2>2. PICK after : after = {Entry("circuit", "created", c)}
    OBVIOUS
  <2>3. Adds(c, row, {}, after)
    BY <1>1, <1>3, <2>1, <2>2 DEF CreateCircuit, After, Adds, Commits, Goes
  <2>4. row \in CircuitRows /\ row.table = "circuit"
    BY <1>3, <2>1 DEF Circuit, CircuitRows
  <2>5. /\ row \in Row /\ DraftsOf(row) = {} /\ row.table \notin LibraryTables
        /\ Making(c, row) \in after
    BY <2>2, <2>4 DEF Row, DraftsOf, LibraryTables, Making, NameOf
  <2>6. Quiet(after) /\ Quiet({})
    BY <2>2, QuietEntry DEF Sections, Quiet
  <2> QED
    BY <2>3, <2>4, <2>5, <2>6, AddsLawful
<1> QED
  BY <1>2, <1>3

\* Columns of a circuit that may be set; it is never taken out of the archive.
CircuitCells(cells) ==
  /\ DOMAIN cells \subseteq {"title", "campaign"}
  /\ "title" \in DOMAIN cells => cells.title = "new"
  /\ "campaign" \in DOMAIN cells => cells.campaign \in {"campaign", Absent}

LEMMA CircuitRevised ==
  ASSUME NEW r \in CircuitRows, NEW cells, CircuitCells(cells)
  PROVE  Revises(r, With(r, cells))
<1> DEFINE new == With(r, cells)
<1>1. /\ new \in CircuitRows /\ new.table = "circuit" /\ r.table = "circuit"
      /\ new.archivedAt = r.archivedAt
  BY DEF CircuitCells, With, CircuitRows
<1> HIDE DEF new
<1>2. Revises(r, new)
  BY <1>1 DEF Revises, Row, DraftsOf, LibraryTables
<1> QED
  BY <1>2 DEF new

LEMMA ChangeCircuitLawful ==
  ASSUME RecordsInv, NEW c \in Calls, NEW k \in Names, NEW cells, CircuitCells(cells),
         NEW what, Changes(c, "circuit", k, cells, {}, {Entry("circuit", what, k)})
  PROVE  Lawful(c)
<1>1. k \in All("circuit") => Revises(rows[k], With(rows[k], cells))
  BY RowHeld, RowTables, CircuitRevised
<1>2. Quiet({Entry("circuit", what, k)}) /\ Quiet({})
  BY QuietEntry DEF Sections, Quiet
<1> QED
  BY <1>1, <1>2, ChangesLawful

LEMMA ChangeCircuitsLawful ==
  ASSUME RecordsInv, NEW c \in Calls, NEW k \in Names,
         PatchCircuit(c, k) \/ PostLink(c, k) \/ DeleteLink(c, k)
  PROVE  Lawful(c)
<1>1. CASE PatchCircuit(c, k)
  <2>1. PICK body \in {[title |-> Absent], [title |-> "new"]} :
          UpdateCircuit(c, k, Given(body, {}))
    BY <1>1 DEF PatchCircuit
  <2>2. PICK cells : cells = Given(body, {})
    OBVIOUS
  <2>3. CircuitCells(cells)
    BY <2>2 DEF Given, CircuitCells
  <2> QED
    BY <2>1, <2>2, <2>3, ChangeCircuitLawful DEF UpdateCircuit, After
<1>2. CASE PostLink(c, k)
  <2>1. CircuitCells([campaign |-> "campaign"])
    BY DEF CircuitCells
  <2> QED
    BY <1>2, <2>1, ChangeCircuitLawful DEF PostLink, LinkCampaign, After
<1>3. CASE DeleteLink(c, k)
  <2>1. CircuitCells([campaign |-> Absent])
    BY DEF CircuitCells
  <2> QED
    BY <1>3, <2>1, ChangeCircuitLawful DEF DeleteLink, UnlinkCampaign, After
<1> QED
  BY <1>1, <1>2, <1>3

LEMMA DeleteCircuitLawful ==
  ASSUME RecordsInv, NEW c \in Calls, NEW k \in Names, DeleteCircuit(c, k)
  PROVE  Lawful(c)
<1>1. CASE k \notin All("circuit")
  BY <1>1, AnswersLawful DEF DeleteCircuit, ArchiveCircuit
<1>2. CASE k \in All("circuit")
  <2>1. PICK after : after = {Entry("circuit", "archived", k)}
    OBVIOUS
  <2>2. /\ call[c] = Idle
        /\ Commits(c, k, rows[k], [rows[k] EXCEPT !.archivedAt = c], {}, after, FALSE,
                   Done("ok"))
    BY <1>2, <2>1 DEF DeleteCircuit, ArchiveCircuit, After, Commits, Goes
  <2>3. Quiet(after)
    BY <2>1, QuietEntry DEF Sections
  <2> QED
    BY <1>2, <2>2, <2>3, ArchivesLawful
<1> QED
  BY <1>1, <1>2

LEMMA PostStopLawful ==
  ASSUME RecordsInv, NEW c \in Calls, NEW k \in Names, PostStop(c, k)
  PROVE  Lawful(c)
<1>1. CASE k \notin All("circuit") \/ ~Room(k)
  BY <1>1, AnswersLawful DEF PostStop, AddStop
<1>2. CASE ~(k \notin All("circuit") \/ ~Room(k))
  <2>1. PICK row : row = Stop(k)
    OBVIOUS
  <2>2. PICK after : after = {Entry("stop", "added", c)}
    OBVIOUS
  <2>3. Adds(c, row, {}, after)
    BY <1>2, <2>1, <2>2 DEF PostStop, AddStop, After, Adds, Commits, Goes
  <2>4. row \in StopRows /\ row.table = "stop" /\ row.circuit = k
    BY <2>1 DEF Stop, StopRows
  <2>5. /\ row \in Row /\ DraftsOf(row) = {} /\ row.table \notin LibraryTables
        /\ Making(c, row) \in after /\ row.circuit \in All("circuit")
    BY <1>2, <2>2, <2>4 DEF Row, DraftsOf, LibraryTables, Making
  <2>6. Quiet(after) /\ Quiet({})
    BY <2>2, QuietEntry DEF Sections, Quiet
  <2> QED
    BY <2>3, <2>4, <2>5, <2>6, AddsLawful
<1> QED
  BY <1>1, <1>2

LEMMA PatchStopLawful ==
  ASSUME RecordsInv, NEW c \in Calls, NEW s \in Names, PatchStop(c, s)
  PROVE  Lawful(c)
<1>1. PICK body \in {[system |-> Absent], [system |-> "new"], [fact |-> Absent],
                     [fact |-> "fact"]} : UpdateStop(c, s, Given(body, {"fact"}))
  BY DEF PatchStop
<1>2. PICK cells : cells = Given(body, {"fact"})
  OBVIOUS
<1>3. /\ DOMAIN cells \subseteq {"system", "fact"}
      /\ "system" \in DOMAIN cells => cells.system = "new"
      /\ "fact" \in DOMAIN cells => cells.fact \in {"fact", Absent}
  BY <1>2 DEF Given
<1>4. ASSUME s \in All("stop") PROVE Revises(rows[s], With(rows[s], cells))
  <2>1. PICK r : r = rows[s]
    OBVIOUS
  <2>2. r \in StopRows
    BY <1>4, <2>1, RowHeld, RowTables
  <2>3. PICK new : new = With(r, cells)
    OBVIOUS
  <2>4. /\ new \in StopRows /\ new.table = "stop" /\ r.table = "stop"
        /\ new.circuit = r.circuit
    BY <1>3, <2>2, <2>3 DEF With, StopRows
  <2>5. Revises(r, new)
    BY <2>4 DEF Revises, Row, DraftsOf, LibraryTables
  <2> QED
    BY <2>1, <2>3, <2>5
<1>5. Quiet({Entry("stop", "updated", s)}) /\ Quiet({})
  BY QuietEntry DEF Sections, Quiet
<1> QED
  BY <1>1, <1>2, <1>4, <1>5, ChangesLawful DEF UpdateStop, After

LEMMA OnCircuitsLawful ==
  ASSUME RecordsInv, NEW c \in Calls, OnCircuits(c)
  PROVE  Lawful(c)
<1>1. CASE GetCircuits(c)
  BY <1>1, ShowsLawful DEF GetCircuits
<1>2. ASSUME NEW k \in Names, GetCircuit(c, k) PROVE Lawful(c)
  <2>1. CASE Answers(c, "not found")
    BY <2>1, AnswersLawful
  <2>2. Quiet({})
    BY DEF Quiet
  <2>3. CASE call[c] = Idle /\ Goes(c, [at |-> "stops", key |-> k]) /\ UNCHANGED <<rows, log>>
    <3>1. PICK next : next = [at |-> "stops", key |-> k]
      OBVIOUS
    <3>2. /\ next.at = "stops" /\ Goes(c, next) /\ call[c].at = "idle"
          /\ log' = log \cup {} /\ UNCHANGED rows
      BY <2>3, <3>1 DEF Goes, Idle
    <3> QED
      BY <2>2, <3>2, PlainLawful
  <2>4. CASE /\ call[c] = [at |-> "stops", key |-> k]
             /\ Goes(c, Shown([circuit |-> k, stops |-> Stops(k)]))
             /\ UNCHANGED <<rows, log>>
    <3>1. PICK next : next = Shown([circuit |-> k, stops |-> Stops(k)])
      OBVIOUS
    <3>2. next.at = "done"
      BY <3>1 DEF Shown
    <3>3. Goes(c, next) /\ call[c].at = "stops" /\ log' = log \cup {} /\ UNCHANGED rows
      BY <2>4, <3>1 DEF Goes
    <3> QED
      BY <2>2, <3>2, <3>3, PlainLawful
  <2> QED
    BY <1>2, <2>1, <2>3, <2>4 DEF GetCircuit
<1>3. ASSUME NEW s \in Names, DeleteStop(c, s) PROVE Lawful(c)
  <2>1. Removes(c, "stop", s, {Entry("stop", "removed", s)})
    BY <1>3 DEF DeleteStop, RemoveStop, After
  <2> QED
    BY <2>1, RemovesLawful DEF Removable, LibraryTables
<1> QED
  BY <1>1, <1>2, <1>3, PostCircuitLawful, ChangeCircuitsLawful, DeleteCircuitLawful,
     PostStopLawful, PatchStopLawful DEF OnCircuits

-----------------------------------------------------------------------------
(* Notes.                                                                  *)

LEMMA NotesQuiet ==
  /\ Quiet({})
  /\ \A what, k : Quiet(NoteEntry(what, k))
  /\ \A k, body, linked : Quiet(LinkChange(k, body, linked))
<1>1. Quiet({})
  BY DEF Quiet
<1>2. ASSUME NEW what, NEW k PROVE Quiet(NoteEntry(what, k))
  BY QuietEntry DEF Sections, NoteEntry
<1>3. ASSUME NEW k, NEW body, NEW linked PROVE Quiet(LinkChange(k, body, linked))
  <2>1. CASE "campaign" \notin DOMAIN body
    BY <2>1, <1>1 DEF LinkChange
  <2>2. CASE "campaign" \in DOMAIN body /\ body.campaign # Absent
    BY <2>2, <1>1, <1>2, Zenon DEF LinkChange
  <2>3. CASE "campaign" \in DOMAIN body /\ body.campaign = Absent
    BY <2>3, <1>1, <1>2, Zenon DEF LinkChange
  <2> QED
    BY <2>1, <2>2, <2>3
<1> QED
  BY <1>1, <1>2, <1>3

LEMMA PostNoteLawful ==
  ASSUME RecordsInv, NEW c \in Calls, PostNote(c)
  PROVE  Lawful(c)
<1>1. CASE Answers(c, "refused")
  BY <1>1, AnswersLawful
<1>2. ASSUME NEW campaign \in {"campaign", Absent}, CreateCampaignNote(c, campaign)
      PROVE  Lawful(c)
  <2>1. PICK row : row = Note(campaign)
    OBVIOUS
  <2>2. PICK linked : linked = IF campaign = Absent THEN {} ELSE NoteEntry("linked", c)
    OBVIOUS
  <2>3. PICK after : after = NoteEntry("created", c) \cup linked
    OBVIOUS
  <2>4. Adds(c, row, {}, after)
    BY <1>2, <2>1, <2>2, <2>3 DEF CreateCampaignNote, Adds, Commits, Goes
  <2>5. row \in NoteRows /\ row.table = "note"
    BY <2>1 DEF Note, NoteRows
  <2>6. /\ row \in Row /\ DraftsOf(row) = {} /\ row.table \notin LibraryTables
        /\ Making(c, row) \in after
    BY <2>3, <2>5 DEF Row, DraftsOf, LibraryTables, Making, NoteEntry
  <2>7. Quiet(after) /\ Quiet({})
    <3>1. Quiet(NoteEntry("created", c)) /\ Quiet(linked)
      BY <2>2, NotesQuiet
    <3> QED
      BY <2>3, <3>1, QuietTogether
  <2> QED
    BY <2>4, <2>5, <2>6, <2>7, AddsLawful
<1> QED
  BY <1>1, <1>2 DEF PostNote

LEMMA PatchNoteLawful ==
  ASSUME RecordsInv, NEW c \in Calls, NEW k \in Names, NEW body \in NoteBodies,
         PatchNote(c, k, body)
  PROVE  Lawful(c)
<1>1. PICK m : m = [at |-> "listed", key |-> k, body |-> body,
                    linked |-> k \in ActiveNotes /\ rows[k].campaign # Absent]
  OBVIOUS
<1>2. m.at = "listed" /\ m.body = body
  BY <1>1
<1>3. call[c] = Idle /\ call' = [call EXCEPT ![c] = m] /\ UNCHANGED <<rows, log>>
  BY <1>1 DEF PatchNote, Goes
<1>4. /\ call[c].at = "idle" /\ call'[c] = m /\ call' = [call EXCEPT ![c] = call'[c]]
  BY <1>3 DEF Idle, RecordsInv, Shape
<1>5. Settled(c) => Settled(c)'
  BY <1>2, <1>4 DEF Settled, MakesItsOwn
<1>6. Waits(c, call[c])'
  BY <1>2, <1>4 DEF Waits
<1> QED
  BY <1>2, <1>3, <1>4, <1>5, <1>6 DEF Lawful, Moves

LEMMA UpdateNoteLawful ==
  ASSUME RecordsInv, NEW c \in Calls, UpdateCampaignNote(c)
  PROVE  Lawful(c)
<1>1. PICK k : k = call[c].key
  OBVIOUS
<1>2. PICK body : body = call[c].body
  OBVIOUS
<1>3. call[c].at = "listed" /\ body \in NoteBodies
  BY <1>2 DEF UpdateCampaignNote, RecordsInv, CallsWait, Waits
<1>4. CASE k \notin ActiveNotes
  <2>1. Goes(c, Done("not found")) /\ log' = log \cup {} /\ UNCHANGED rows
    BY <1>1, <1>4 DEF UpdateCampaignNote
  <2> QED
    BY <1>3, <2>1, DoneIsDone, NotesQuiet, PlainLawful
<1>5. CASE k \in ActiveNotes
  <2>1. k \in All("note") /\ k \in Keys /\ rows[k] # Absent /\ rows[k].table = "note"
    BY <1>5 DEF ActiveNotes, All
  <2>2. k \in Names
    BY <2>1 DEF RecordsInv, RowsWhole, Whole, Place, LibraryKeys
  <2>3. PICK r : r = rows[k]
    OBVIOUS
  <2>4. Held(k, r) /\ r.table = "note" /\ r \in NoteRows
    BY <2>1, <2>2, <2>3, RowHeld, RowTables
  <2>5. PICK new : new = With(r, body)
    OBVIOUS
  <2>6. PICK after : after = NoteEntry("updated", k) \cup LinkChange(k, body, call[c].linked)
    OBVIOUS
  <2>7. PICK m : m = Waiting(k, r, new, after, TRUE, Done("ok"))
    OBVIOUS
  <2>8. /\ m.at = "commit" /\ m.key = k /\ m.seen = r /\ m.wanted = new /\ m.after = after
        /\ m.next = Done("ok")
    BY <2>7 DEF Waiting
  <2>9. call' = [call EXCEPT ![c] = m] /\ log' = log /\ UNCHANGED rows
    BY <1>1, <1>2, <1>5, <2>3, <2>5, <2>6, <2>7
    DEF UpdateCampaignNote, Commits, Goes, Waiting
  <2>10. /\ new \in NoteRows /\ new.table = "note" /\ new.archivedAt = r.archivedAt
    BY <1>3, <2>4, <2>5 DEF With, NoteRows, NoteBodies
  <2>11. Revises(r, new)
    BY <2>4, <2>10 DEF Revises, Row, DraftsOf, LibraryTables
  <2>12. Quiet(after)
    BY <2>6, NotesQuiet, QuietTogether
  <2>13. Quiet(log' \ log)
    BY <2>9 DEF Quiet
  <2> QED
    BY <1>3, <2>4, <2>8, <2>9, <2>11, <2>12, <2>13, RevisesLawful, DoneIsDone
<1> QED
  BY <1>4, <1>5

LEMMA NotesLawful ==
  ASSUME RecordsInv, NEW c \in Calls, Notes(c)
  PROVE  Lawful(c)
<1>1. CASE ListCampaignNotes(c)
  BY <1>1, ShowsLawful DEF ListCampaignNotes
<1>2. ASSUME NEW k \in Names, ArchiveCampaignNote(c, k) PROVE Lawful(c)
  <2>1. CASE k \notin ActiveNotes
    BY <1>2, <2>1, AnswersLawful DEF ArchiveCampaignNote
  <2>2. CASE k \in ActiveNotes
    <3>1. PICK after : after = NoteEntry("archived", k)
      OBVIOUS
    <3>2. /\ call[c] = Idle
          /\ Commits(c, k, rows[k], [rows[k] EXCEPT !.archivedAt = c], {}, after, FALSE,
                     Done("ok"))
      BY <1>2, <2>2, <3>1 DEF ArchiveCampaignNote, Commits, Goes
    <3>3. k \in All("note") /\ Quiet(after)
      BY <2>2, <3>1, NotesQuiet DEF ActiveNotes
    <3> QED
      BY <3>2, <3>3, ArchivesLawful
  <2> QED
    BY <2>1, <2>2
<1> QED
  BY <1>1, <1>2, PostNoteLawful, PatchNoteLawful, UpdateNoteLawful DEF Notes

-----------------------------------------------------------------------------
(* The library.                                                            *)

LEMMA CreatesLawful ==
  ASSUME RecordsInv, NEW c \in Calls, NEW row \in LibraryRows, row.by = c, Creates(c, row)
  PROVE  Lawful(c)
<1>1. PICK m : m = [at |-> "insert", row |-> row]
  OBVIOUS
<1>2. m.at = "insert" /\ m.row = row
  BY <1>1
<1>3. call[c] = Idle /\ call' = [call EXCEPT ![c] = m] /\ UNCHANGED <<rows, log>>
  BY <1>1 DEF Creates, Goes
<1>4. /\ call[c].at = "idle" /\ call'[c] = m /\ call' = [call EXCEPT ![c] = call'[c]]
  BY <1>3 DEF Idle, RecordsInv, Shape
<1>5. ~Settled(c)
  BY <1>4 DEF Settled
<1>6. Waits(c, call[c])'
  BY <1>2, <1>4 DEF Waits
<1> QED
  BY <1>2, <1>3, <1>4, <1>5, <1>6 DEF Lawful, Moves

LEMMA PostLibraryLawful ==
  ASSUME RecordsInv, NEW c \in Calls, PostBookmark(c) \/ PostSavedRoute(c)
  PROVE  Lawful(c)
<1>1. ASSUME NEW tags, CreateBookmark(c, tags) PROVE Lawful(c)
  <2>1. tags \subseteq Tags => Bookmark(c, tags) \in LibraryRows /\ Bookmark(c, tags).by = c
    BY DEF Bookmark, LibraryRows, Names
  <2> QED
    BY <1>1, <2>1, AnswersLawful, CreatesLawful DEF CreateBookmark
<1>2. SavedRoute(c) \in LibraryRows /\ SavedRoute(c).by = c
  BY DEF SavedRoute, LibraryRows, Names
<1> QED
  BY <1>1, <1>2, AnswersLawful, CreatesLawful DEF PostBookmark, PostSavedRoute, CreateSavedRoute

LEMMA PatchLawful ==
  ASSUME RecordsInv, NEW c \in Calls, NEW table \in LibraryTables, NEW k \in LibraryKeys,
         NEW changes, DOMAIN changes \subseteq {"note", "tags"},
         "note" \in DOMAIN changes => changes.note \in {"new", Absent},
         NEW next, next.at = "done", Patch(c, table, k, changes, next)
  PROVE  Lawful(c)
<1>1. CASE k \notin All(table)
  BY <1>1, AnswersLawful DEF Patch
<1>2. CASE k \in All(table) /\ "tags" \in DOMAIN changes /\ ~(changes.tags \subseteq Tags)
  BY <1>2, AnswersLawful DEF Patch
<1>3. CASE k \in All(table) /\ ("tags" \in DOMAIN changes => changes.tags \subseteq Tags)
  <2>1. PICK r : r = rows[k]
    OBVIOUS
  <2>2. PICK new : new = With(r, changes)
    OBVIOUS
  <2>3. PICK after : after = Named(table, "updated", r.by)
    OBVIOUS
  <2>4. PICK m : m = Waiting(k, r, new, after, TRUE, next)
    OBVIOUS
  <2>5. /\ m.at = "commit" /\ m.key = k /\ m.seen = r /\ m.wanted = new /\ m.after = after
        /\ m.next = next
    BY <2>4 DEF Waiting
  <2>6. call[c] = Idle /\ call' = [call EXCEPT ![c] = m] /\ log' = log /\ UNCHANGED rows
    BY <1>3, <2>1, <2>2, <2>3, <2>4 DEF Patch, Commits, Goes, Waiting
  <2>7. Held(k, r) /\ r.table = table /\ r \in LibraryRows
    BY <1>3, <2>1, RowHeld, RowTables
  <2>8. new \in LibraryRows /\ new.table = table /\ new.by = r.by
    BY <1>3, <2>2, <2>7 DEF With, LibraryRows
  <2>9. Revises(r, new)
    BY <2>7, <2>8 DEF Revises, Row, DraftsOf, LibraryTables
  <2>10. Quiet(after)
    BY <2>3, QuietEntry DEF Named, LibraryTables, Sections
  <2>11. call[c].at = "idle" /\ Quiet(log' \ log)
    BY <2>6 DEF Quiet, Idle
  <2> QED
    BY <2>5, <2>6, <2>7, <2>9, <2>10, <2>11, RevisesLawful
<1> QED
  BY <1>1, <1>2, <1>3

LEMMA PatchLibraryLawful ==
  ASSUME RecordsInv, NEW c \in Calls, NEW k \in LibraryKeys,
         PatchBookmark(c, k) \/ PatchSavedRoute(c, k)
  PROVE  Lawful(c)
<1>1. CASE PatchBookmark(c, k)
  <2>1. PICK body \in {[note |-> Absent], [note |-> "new"], [tags |-> {}], [tags |-> Tags],
                       [tags |-> {"bad"}]} : UpdateBookmark(c, k, body)
    BY <1>1 DEF PatchBookmark
  <2>2. PICK next :
          next = IF "tags" \in DOMAIN body /\ k \in All("bookmark")
                 THEN [at |-> "done", answer |-> "ok", had |-> rows[k].tags]
                 ELSE Done("ok")
    OBVIOUS
  <2>3. next.at = "done"
    BY <2>2, DoneIsDone
  <2>4. Patch(c, "bookmark", k, body, next)
    BY <2>1, <2>2 DEF UpdateBookmark, Patch, Commits, Goes
  <2>5. /\ DOMAIN body \subseteq {"note", "tags"}
        /\ "note" \in DOMAIN body => body.note \in {"new", Absent}
    BY <2>1
  <2> QED
    BY <2>3, <2>4, <2>5, PatchLawful DEF LibraryTables
<1>2. CASE PatchSavedRoute(c, k)
  <2>1. PICK body \in {[note |-> Absent], [note |-> "new"]} : UpdateSavedRoute(c, k, body)
    BY <1>2 DEF PatchSavedRoute
  <2>2. /\ DOMAIN body \subseteq {"note", "tags"}
        /\ "note" \in DOMAIN body => body.note \in {"new", Absent}
    BY <2>1
  <2> QED
    BY <2>1, <2>2, DoneIsDone, PatchLawful DEF UpdateSavedRoute, LibraryTables
<1> QED
  BY <1>1, <1>2

\* What is deleted is told by the name of the row, which no other row has.
LEMMA DeleteLawful ==
  ASSUME RecordsInv, NEW c \in Calls, NEW table \in LibraryTables, NEW k \in LibraryKeys,
         Delete(c, table, k)
  PROVE  Lawful(c)
<1>1. CASE k \notin All(table)
  BY <1>1, AnswersLawful DEF Delete
<1>2. CASE k \in All(table)
  <2>1. PICK name : name = rows[k].by
    OBVIOUS
  <2>2. PICK after : after = {Entry(table, "deleted", name)}
    OBVIOUS
  <2>3. /\ call[c] = Idle
        /\ Commits(c, k, rows[k], Absent, {}, after, FALSE, Done("ok"))
    BY <1>2, <2>1, <2>2 DEF Delete, Named, Commits, Goes
  <2>4. k \in Keys /\ rows[k] # Absent /\ rows[k].table = table /\ Whole(k)
    BY <1>2 DEF All, RecordsInv, RowsWhole
  <2>5. name \in Names /\ Settled(name)
    BY <2>1, <2>4, RowTables DEF Whole, NameOf, LibraryRows
  <2>6. ASSUME NEW j \in Keys, rows[j] # Absent, rows[j].table = table, rows[j].by = name
        PROVE  j = k
    BY <2>1, <2>4, <2>6 DEF RecordsInv, OnePlace
  <2>7. Says(after, {k})
    BY <2>2, <2>5, <2>6 DEF Says, Entry, OnlyAt, IsOf, LibraryTables, Sections
  <2> QED
    BY <1>2, <2>3, <2>7, DropsLawful DEF Removable
<1> QED
  BY <1>1, <1>2

LEMMA OnLibraryLawful ==
  ASSUME RecordsInv, NEW c \in Calls, OnLibrary(c), ~Insert(c), ~ReadBack(c)
  PROVE  Lawful(c)
<1>1. CASE GetBookmarks(c)
  BY <1>1, AnswersLawful, ShowsLawful DEF GetBookmarks
<1>2. CASE GetNavigationSnapshot(c)
  BY <1>2, ShowsLawful DEF GetNavigationSnapshot
<1>3. CASE GetLibrary(c)
  <2>1. Quiet({})
    BY DEF Quiet
  <2>2. CASE /\ call[c] = Idle
             /\ Goes(c, [at |-> "routes", bookmarks |-> ListBookmarks])
             /\ UNCHANGED <<rows, log>>
    <3>1. PICK next : next = [at |-> "routes", bookmarks |-> ListBookmarks]
      OBVIOUS
    <3>2. /\ next.at = "routes" /\ Goes(c, next) /\ call[c].at = "idle"
          /\ log' = log \cup {} /\ UNCHANGED rows
      BY <2>2, <3>1 DEF Goes, Idle
    <3> QED
      BY <2>1, <3>2, PlainLawful
  <2>3. CASE /\ call[c].at = "routes"
             /\ Goes(c, Shown([bookmarks |-> call[c].bookmarks, routes |-> ListSavedRoutes]))
             /\ UNCHANGED <<rows, log>>
    <3>1. PICK next : next = Shown([bookmarks |-> call[c].bookmarks,
                                    routes |-> ListSavedRoutes])
      OBVIOUS
    <3>2. next.at = "done"
      BY <3>1 DEF Shown
    <3>3. Goes(c, next) /\ log' = log \cup {} /\ UNCHANGED rows
      BY <2>3, <3>1 DEF Goes
    <3> QED
      BY <2>1, <2>3, <3>2, <3>3, PlainLawful
  <2> QED
    BY <1>3, <2>2, <2>3 DEF GetLibrary
<1>4. ASSUME NEW k \in LibraryKeys, RemoveBookmark(c, k) \/ RemoveSavedRoute(c, k)
      PROVE  Lawful(c)
  BY <1>4, DeleteLawful
  DEF RemoveBookmark, RemoveSavedRoute, DeleteBookmark, DeleteSavedRoute, LibraryTables
<1> QED
  BY <1>1, <1>2, <1>3, <1>4, PostLibraryLawful, PatchLibraryLawful DEF OnLibrary

LEMMA OnLibraryKeeps ==
  ASSUME RecordsInv, NEW c \in Calls, OnLibrary(c), UNCHANGED squad
  PROVE  /\ RecordsInv'
         /\ \A k \in Keys : StaysArchived(k)
<1>1. CASE Insert(c)
  BY <1>1, InsertKeeps
<1>2. CASE ReadBack(c)
  <2>1. PICK more : more = Tagged(call[c].key, rows[call[c].key].tags \ call[c].next.had)
    OBVIOUS
  <2>2. Ends(c, more) /\ UNCHANGED rows
    BY <1>2, <2>1 DEF ReadBack, Ends, Goes
  <2>3. Quiet(more)
    <3>1. ASSUME NEW e \in more PROVE e.of = "bookmark" /\ e.what = "tagged"
      BY <2>1, <3>1 DEF Tagged, Entry
    <3> QED
      BY <3>1, TablesAssumption DEF Quiet, Deletes, Planned, Sections, LibraryTables
  <2> QED
    BY <2>2, <2>3, EndsKeeps, NothingWritten
<1>3. CASE ~Insert(c) /\ ~ReadBack(c)
  <2>1. Lawful(c)
    BY <1>3, OnLibraryLawful
  <2> QED
    BY <2>1, LawfulKeeps, NothingWritten DEF Lawful, Moves
<1> QED
  BY <1>1, <1>2, <1>3

-----------------------------------------------------------------------------
(* The lists of the squadron.                                              *)

\* A proposal is confirmed: to add an item, to take one back, or in vain.
Confirms(p, section) ==
  /\ Pending(p, section, "create")
  /\ squad' = [squad EXCEPT ![section] = @ \cup {Fresh(p)}]
  /\ call' = [call EXCEPT ![p] = Done("confirmed")]
  /\ log' = log \cup {Entry(section, "created", Fresh(p))}
  /\ UNCHANGED rows

Revokes(p, section) ==
  /\ Pending(p, section, "revoke")
  /\ call[p].item \in squad[section]
  /\ squad' = [squad EXCEPT ![section] = @ \ {call[p].item}]
  /\ call' = [call EXCEPT ![p] = Done("confirmed")]
  /\ log' = log \cup {Entry(section, "revoked", call[p].item)}
  /\ UNCHANGED rows

RevokesNothing(p) ==
  /\ call[p].at = "pending"
  /\ Goes(p, Done("not found"))
  /\ UNCHANGED <<rows, log, squad>>

\* No item is named after a proposal that is pending.
LEMMA FreshItem ==
  ASSUME RecordsInv, NEW p \in Calls, call[p].at = "pending"
  PROVE  /\ Fresh(p) = <<p, 0>>
         /\ \A e \in Creations : e.key # <<p, 0>>
<1>1. ASSUME NEW e \in Creations, NEW q \in Calls, e.key = <<q, 0>>,
             call[q] = Done("confirmed")
      PROVE  e.key[1] # p /\ e.key # <<p, 0>>
  <2>1. call[q].at = "done"
    BY <1>1, DoneIsDone
  <2> QED
    BY <1>1, <2>1
<1>2. \A e \in Creations : e.key[1] # p /\ e.key # <<p, 0>>
  BY <1>1 DEF RecordsInv, ListsConfirmed
<1>3. {e \in Creations : e.key[1] = p} = {}
  BY <1>2
<1>4. Cardinality({}) = 0
  BY FS_EmptySet
<1>5. Cardinality({e \in Creations : e.key[1] = p}) = 0
  BY <1>3, <1>4
<1> QED
  BY <1>2, <1>5 DEF Fresh

\* The call of a proposal that is confirmed is over.
LEMMA ConfirmedMoves ==
  ASSUME RecordsInv, NEW p \in Calls, call[p].at = "pending",
         call' = [call EXCEPT ![p] = Done("confirmed")], UNCHANGED rows,
         NEW section \in Sections, NEW what \in {"created", "revoked"}, NEW item,
         log' = log \cup {Entry(section, what, item)}
  PROVE  /\ Moves(p)
         /\ call'[p] = Done("confirmed")
         /\ \A q \in Calls : call[q] = Done("confirmed") => call'[q] = Done("confirmed")
<1>1. /\ call'[p] = Done("confirmed") /\ call' = [call EXCEPT ![p] = call'[p]]
      /\ \A q \in Calls : q # p => call'[q] = call[q]
  BY DEF RecordsInv, Shape
<1>2. call'[p].at = "done"
  BY <1>1, DoneIsDone
<1>3. Settled(p)' /\ Waits(p, call[p])'
  BY <1>2 DEF Settled, MakesItsOwn, Waits
<1>4. ~Deletes(Entry(section, what, item))
  BY DEF Deletes, Entry
<1> QED
  BY <1>1, <1>2, <1>3, <1>4 DEF Moves

LEMMA ConfirmsKeeps ==
  ASSUME RecordsInv, NEW p \in Calls, NEW section \in Sections, Confirms(p, section)
  PROVE  RecordsInv'
<1>1. PICK item : item = <<p, 0>>
  OBVIOUS
<1>2. PICK new : new = Entry(section, "created", item)
  OBVIOUS
<1>3. new.of = section /\ new.what = "created" /\ new.key = item
  BY <1>2 DEF Entry
<1>4. call[p].at = "pending"
  BY DEF Confirms, Pending
<1>5. Fresh(p) = item /\ \A e \in Creations : e.key # item
  BY <1>1, <1>4, FreshItem
<1>6. log' = log \cup {new} /\ squad' = [squad EXCEPT ![section] = @ \cup {item}]
  BY <1>2, <1>5 DEF Confirms
<1>7. /\ Moves(p) /\ call'[p] = Done("confirmed")
      /\ \A q \in Calls : call[q] = Done("confirmed") => call'[q] = Done("confirmed")
  BY <1>2, <1>4, <1>6, ConfirmedMoves DEF Confirms
<1>8. Creations' = Creations \cup {new}
  BY <1>3, <1>6 DEF Creations
<1>9. ASSUME NEW s \in Sections
      PROVE  /\ Those("created", s)' =
                  Those("created", s) \cup (IF s = section THEN {item} ELSE {})
             /\ Those("revoked", s)' = Those("revoked", s)
             /\ item \notin Those("revoked", s)
  <2>1. item \notin Those("created", s)
    BY <1>5 DEF Those, Creations
  <2>2. item \notin Those("revoked", s)
    BY <2>1 DEF RecordsInv, ListsConfirmed
  <2>3. Those("revoked", s)' = Those("revoked", s)
    BY <1>3, <1>6 DEF Those
  <2>4. Those("created", s)' = Those("created", s) \cup (IF s = section THEN {item} ELSE {})
    BY <1>3, <1>6 DEF Those
  <2> QED
    BY <2>2, <2>3, <2>4
<1>10. squad' = [s \in Sections |-> Those("created", s)' \ Those("revoked", s)']
  <2>1. /\ squad = [s \in Sections |-> squad[s]]
        /\ \A s \in Sections : squad[s] = Those("created", s) \ Those("revoked", s)
    BY Zenon DEF RecordsInv, ListsConfirmed
  <2>2. squad' = [s \in Sections |-> squad'[s]]
    BY <1>6, <2>1
  <2>3. \A s \in Sections : squad'[s] = Those("created", s)' \ Those("revoked", s)'
    BY <1>6, <1>9, <2>1
  <2> QED
    BY <2>2, <2>3
<1>11. \A s \in Sections : Those("revoked", s)' \subseteq Those("created", s)'
  BY <1>9 DEF RecordsInv, ListsConfirmed
<1>12. \A e \in Creations' : \E q \in Calls : e.key = <<q, 0>> /\ call'[q] = Done("confirmed")
  BY <1>1, <1>3, <1>7, <1>8 DEF RecordsInv, ListsConfirmed
<1>13. ListsConfirmed'
  BY <1>10, <1>11, <1>12 DEF ListsConfirmed
<1> QED
  BY <1>7, <1>13, MovesKeep

LEMMA RevokesKeeps ==
  ASSUME RecordsInv, NEW p \in Calls, NEW section \in Sections, Revokes(p, section)
  PROVE  RecordsInv'
<1>1. PICK item : item = call[p].item
  OBVIOUS
<1>2. PICK new : new = Entry(section, "revoked", item)
  OBVIOUS
<1>3. new.of = section /\ new.what = "revoked" /\ new.key = item
  BY <1>2 DEF Entry
<1>4. call[p].at = "pending"
  BY DEF Revokes, Pending
<1>5. /\ log' = log \cup {new} /\ squad' = [squad EXCEPT ![section] = @ \ {item}]
      /\ item \in squad[section]
  BY <1>1, <1>2 DEF Revokes
<1>6. /\ Moves(p)
      /\ \A q \in Calls : call[q] = Done("confirmed") => call'[q] = Done("confirmed")
  BY <1>2, <1>4, <1>5, ConfirmedMoves DEF Revokes
<1>7. Creations' = Creations
  BY <1>3, <1>5 DEF Creations
<1>8. ASSUME NEW s \in Sections
      PROVE  /\ Those("created", s)' = Those("created", s)
             /\ Those("revoked", s)' =
                  Those("revoked", s) \cup (IF s = section THEN {item} ELSE {})
  BY <1>3, <1>5 DEF Those
<1>9. item \in Those("created", section)
  BY <1>5 DEF RecordsInv, ListsConfirmed
<1>10. squad' = [s \in Sections |-> Those("created", s)' \ Those("revoked", s)']
  <2>1. /\ squad = [s \in Sections |-> squad[s]]
        /\ \A s \in Sections : squad[s] = Those("created", s) \ Those("revoked", s)
    BY Zenon DEF RecordsInv, ListsConfirmed
  <2>2. squad' = [s \in Sections |-> squad'[s]]
    BY <1>5, <2>1
  <2>3. \A s \in Sections : squad'[s] = Those("created", s)' \ Those("revoked", s)'
    BY <1>5, <1>8, <2>1
  <2> QED
    BY <2>2, <2>3
<1>11. \A s \in Sections : Those("revoked", s)' \subseteq Those("created", s)'
  BY <1>8, <1>9 DEF RecordsInv, ListsConfirmed
<1>12. \A e \in Creations' : \E q \in Calls : e.key = <<q, 0>> /\ call'[q] = Done("confirmed")
  BY <1>6, <1>7 DEF RecordsInv, ListsConfirmed
<1>13. ListsConfirmed'
  BY <1>10, <1>11, <1>12 DEF ListsConfirmed
<1> QED
  BY <1>6, <1>13, MovesKeep

LEMMA ListStep ==
  ASSUME NEW c \in Calls, OnSquad(c)
  PROVE  \/ Answers(c, "refused") /\ UNCHANGED squad
         \/ \E proposal : proposal.at = "pending" /\ Propose(c, proposal)
         \/ \E section \in Sections : Confirms(c, section) \/ Revokes(c, section)
         \/ RevokesNothing(c) \/ Cancel(c) \/ Reads(c) \/ ReservedIntent(c)
<1>1. ASSUME NEW section, NEW kind, NEW item
      PROVE  Proposal(section, kind, item).at = "pending"
  BY DEF Proposal
<1>2. CASE Roster(c)
  BY <1>1, <1>2
  DEF Roster, Creation, Revocation, ConfirmCreation, ConfirmRevocation, CreateRosterMember,
      RevokeRosterMember, Listed, Unlisted, UsedUp, Goes, Confirms, Revokes, RevokesNothing,
      Pending, Sections
<1>3. CASE Invites(c)
  BY <1>1, <1>3
  DEF Invites, Creation, Revocation, ConfirmCreation, ConfirmRevocation,
      CreateInviteCode, RevokeInviteCode, Listed, Unlisted, UsedUp, Goes,
      Confirms, Revokes, RevokesNothing, Pending, Sections
<1>4. CASE Roles(c)
  BY <1>1, <1>4
  DEF Roles, Creation, Revocation, ConfirmCreation, ConfirmRevocation,
      CreateRole, RevokeRole, Listed, Unlisted, UsedUp, Goes,
      Confirms, Revokes, RevokesNothing, Pending, Sections
<1>5. CASE SharedOperations(c)
  BY <1>1, <1>5
  DEF SharedOperations, Creation, Revocation, ConfirmCreation, ConfirmRevocation,
      CreateSharedOperation, RevokeSharedOperation, Listed, Unlisted, UsedUp, Goes,
      Confirms, Revokes, RevokesNothing, Pending, Sections
<1>6. CASE SharedNavigation(c)
  BY <1>1, <1>6
  DEF SharedNavigation, Creation, Revocation, ConfirmCreation, ConfirmRevocation,
      CreateSharedNavigation, RevokeSharedNavigation, Listed, Unlisted, UsedUp, Goes,
      Confirms, Revokes, RevokesNothing, Pending, Sections
<1>7. CASE EmergencyNotes(c)
  BY <1>1, <1>7
  DEF EmergencyNotes, Creation, Revocation, ConfirmCreation, ConfirmRevocation,
      CreateEmergencyNote, RevokeEmergencyNote, Listed, Unlisted, UsedUp, Goes,
      Confirms, Revokes, RevokesNothing, Pending, Sections
<1>8. CASE Log(c)
  BY <1>1, <1>8
  DEF Log, Creation, ConfirmCreation, AppendLogEntry, Listed, UsedUp, Goes, Confirms, Pending,
      Sections
<1> QED
  BY <1>2, <1>3, <1>4, <1>5, <1>6, <1>7, <1>8 DEF OnSquad

LEMMA OnSquadKeeps ==
  ASSUME RecordsInv, NEW c \in Calls, OnSquad(c)
  PROVE  /\ RecordsInv'
         /\ \A k \in Keys : StaysArchived(k)
<1>1. Quiet({})
  BY DEF Quiet
<1>2. ASSUME Lawful(c), UNCHANGED squad
      PROVE  /\ RecordsInv'
             /\ \A k \in Keys : StaysArchived(k)
  BY <1>2, LawfulKeeps, NothingWritten DEF Lawful, Moves
<1>3. CASE Answers(c, "refused") /\ UNCHANGED squad
  BY <1>2, <1>3, AnswersLawful
<1>4. ASSUME NEW proposal, proposal.at = "pending", Propose(c, proposal)
      PROVE  RecordsInv' /\ UNCHANGED rows
  <2>1. /\ call[c].at = "idle" /\ Goes(c, proposal) /\ log' = log \cup {}
        /\ UNCHANGED <<rows, squad>>
    BY <1>4 DEF Propose, Idle
  <2>2. Lawful(c)
    BY <1>1, <1>4, <2>1, PlainLawful
  <2> QED
    BY <1>2, <2>1, <2>2
<1>5. ASSUME NEW section \in Sections, Confirms(c, section) \/ Revokes(c, section)
      PROVE  RecordsInv' /\ UNCHANGED rows
  BY <1>5, ConfirmsKeeps, RevokesKeeps DEF Confirms, Revokes
<1>6. CASE RevokesNothing(c) \/ Cancel(c)
  <2>1. PICK answer : Goes(c, Done(answer))
    BY <1>6 DEF RevokesNothing, Cancel
  <2>2. /\ call[c].at = "pending" /\ log' = log \cup {} /\ UNCHANGED <<rows, squad>>
    BY <1>6 DEF RevokesNothing, Cancel
  <2>3. Lawful(c)
    BY <1>1, <2>1, <2>2, DoneIsDone, PlainLawful
  <2> QED
    BY <1>2, <2>2, <2>3
<1>7. CASE Reads(c)
  <2>1. PICK values : values = [squad |-> squad]
    OBVIOUS
  <2>2. Shows(c, values) /\ UNCHANGED squad
    BY <1>7, <2>1 DEF Reads, Shows, Shown, Goes
  <2> QED
    BY <1>2, <2>2, ShowsLawful
<1>8. CASE ReservedIntent(c)
  <2>1. PICK answer : Goes(c, Done(answer))
    BY <1>8 DEF ReservedIntent
  <2>2. PICK new : new \in {{}, {Entry("intent", "blocked", <<c, 0>>)}} /\ log' = log \cup new
    BY <1>8 DEF ReservedIntent
  <2>3. Quiet(new)
    BY <1>1, <2>2, QuietEntry DEF Sections
  <2>4. call[c].at = "idle" /\ UNCHANGED <<rows, squad>>
    BY <1>8 DEF ReservedIntent, Idle
  <2>5. Lawful(c)
    BY <2>1, <2>2, <2>3, <2>4, DoneIsDone, PlainLawful
  <2> QED
    BY <1>2, <2>4, <2>5
<1> QED
  BY <1>3, <1>4, <1>5, <1>6, <1>7, <1>8, ListStep, NothingWritten

-----------------------------------------------------------------------------
(* The initial state.                                                      *)

LEMMA RecordsStart ==
  ASSUME RecordsInit
  PROVE  RecordsInv
<1>1. PICK some \in Earlier :
        rows = [k \in Keys |-> IF k \in DOMAIN some THEN some[k] ELSE Absent]
  BY DEF RecordsInit, Start
<1>2. LeftInOrder(some)
  BY EarlierAssumption
<1>3. log = {} /\ call = [c \in Calls |-> Idle] /\ squad = [s \in Sections |-> {}]
  BY DEF RecordsInit, Start, NothingListed
<1>4. Shape
  BY <1>1, <1>3 DEF Shape
<1>5. \A k \in Keys : rows[k] # Absent => k \in DOMAIN some /\ rows[k] = some[k]
  BY <1>1
<1>6. ASSUME NEW k \in Keys, rows[k] # Absent PROVE Whole(k)
  <2>1. k \in DOMAIN some /\ rows[k] = some[k]
    BY <1>5, <1>6
  <2>2. PICK r : r = some[k]
    OBVIOUS
  <2>3. /\ r \in Row
        /\ r.table \in LibraryTables => k \in LibraryKeys /\ r.table = k[1] /\ r.by \in Old
        /\ r.table \notin LibraryTables => k \in Old
        /\ r.table = "stop" => r.circuit \in DOMAIN some /\ some[r.circuit].table = "circuit"
        /\ r.table = "campaign" => \A d \in r.drafts : d.by \in Old /\ d.cites \subseteq d.sources
    BY <1>2, <2>1, <2>2 DEF LeftInOrder
  <2>4. rows[k] = r
    BY <2>1, <2>2
  <2>5. Place(k, r.table)
    BY <2>3, RowTables, KeysAssumption DEF Place, Names, LibraryKeys
  <2>6. NameOf(k, r) \in Old
    BY <2>3 DEF NameOf
  <2>7. Settled(NameOf(k, r))
    BY <2>6, KeysAssumption DEF Settled
  <2>8. ASSUME r.table = "stop" PROVE r.circuit \in All("circuit")
    <3>1. r.circuit \in Names
      BY <2>3, <2>8, RowTables DEF StopRows
    <3>2. /\ rows[r.circuit] = some[r.circuit] /\ some[r.circuit] \in Row
          /\ some[r.circuit].table = "circuit"
      BY <1>1, <1>2, <2>3, <2>8, <3>1 DEF LeftInOrder, Keys
    <3> QED
      BY <3>1, <3>2, RowsAreThere DEF All, Keys
  <2>9. \A d \in DraftsOf(r) : Sourced(d)
    BY <2>3, KeysAssumption DEF DraftsOf, Sourced
  <2> QED
    BY <2>3, <2>4, <2>5, <2>6, <2>7, <2>8, <2>9 DEF Whole, Told
<1>7. OnePlace
  BY <1>2, <1>5 DEF OnePlace, LeftInOrder
<1>8. CallsWait
  BY <1>3 DEF CallsWait, Waits, Idle
<1>9. ListsConfirmed
  BY <1>3 DEF ListsConfirmed, Those, Creations
<1> QED
  BY <1>3, <1>4, <1>6, <1>7, <1>8, <1>9 DEF RecordsInv, RowsWhole, GoneIsGone

-----------------------------------------------------------------------------
(* Every step.                                                             *)

LEMMA RecordsStep ==
  ASSUME RecordsInv, [RecordsNext]_recordsVars
  PROVE  /\ RecordsInv'
         /\ \A k \in Keys : StaysArchived(k)
<1>1. CASE UNCHANGED recordsVars
  <2>1. UNCHANGED <<rows, log, call, squad>>
    BY <1>1 DEF recordsVars, vars
  <2>2. Onward
    BY <2>1 DEF Onward, Settled, MakesItsOwn, Same, NameOf, All
  <2>3. RowsWhole'
    <3> SUFFICES ASSUME NEW k \in Keys, rows'[k] # Absent PROVE Whole(k)'
      BY DEF RowsWhole
    <3>1. Whole(k) /\ rows'[k] = rows[k]
      BY <2>1 DEF RecordsInv, RowsWhole
    <3>2. Told(k)'
      BY <2>1, <3>1 DEF Whole, Told
    <3> QED
      BY <2>2, <3>1, <3>2, StaysWhole
  <2>4. GoneIsGone'
    BY <2>1, <2>2, Promises DEF RecordsInv, GoneIsGone, Deletes
  <2>5. CallsWait'
    BY <2>1, <2>2, Promises DEF RecordsInv, CallsWait
  <2>6. ListsConfirmed'
    BY <2>1, ListsFollow DEF RecordsInv
  <2>7. Shape' /\ OnePlace'
    BY <2>1 DEF RecordsInv, Shape, OnePlace
  <2> QED
    BY <2>1, <2>3, <2>4, <2>5, <2>6, <2>7, NothingWritten DEF RecordsInv
<1>2. ASSUME NEW c \in Calls, Lawful(c), UNCHANGED squad
      PROVE  /\ RecordsInv'
             /\ \A k \in Keys : StaysArchived(k)
  BY <1>2, LawfulKeeps, NothingWritten DEF Lawful, Moves
<1>3. CASE Database /\ UNCHANGED squad
  <2>1. PICK c \in Calls : Commit(c) \/ CommitFails(c) \/ Finish(c)
    BY <1>3 DEF Database
  <2>2. CASE CommitFails(c)
    BY <1>3, <2>2, CommitFailsKeeps, NothingWritten DEF CommitFails
  <2>3. CASE Finish(c)
    <3>1. Quiet({})
      BY DEF Quiet
    <3> QED
      BY <1>3, <2>3, <3>1, EndsKeeps, NothingWritten DEF Finish, Ends
  <2> QED
    BY <1>3, <2>1, <2>2, <2>3, CommitKeeps
<1>4. ASSUME NEW c \in Calls,
             \/ OnPlans(c) /\ UNCHANGED squad
             \/ OnCampaigns(c) /\ UNCHANGED squad
             \/ OnCircuits(c) /\ UNCHANGED squad
             \/ OnLibrary(c) /\ UNCHANGED squad
             \/ Notes(c) /\ UNCHANGED squad
             \/ OnSquad(c)
      PROVE  /\ RecordsInv'
             /\ \A k \in Keys : StaysArchived(k)
  BY <1>2, <1>4, OnPlansLawful, OnCampaignsLawful, OnCircuitsLawful, OnLibraryKeeps, NotesLawful,
     OnSquadKeeps
<1> QED
  BY <1>1, <1>3, <1>4 DEF RecordsNext

-----------------------------------------------------------------------------
(* What follows from the invariant.                                        *)

LEMMA WholeRow ==
  ASSUME RecordsInv, NEW table, NEW k \in All(table)
  PROVE  /\ k \in Keys /\ rows[k] # Absent /\ rows[k].table = table /\ Whole(k)
         /\ rows[k] \in Row
BY DEF RecordsInv, RowsWhole, Whole, All

LEMMA InvTyped ==
  ASSUME RecordsInv
  PROVE  RecordsTyped
<1>1. \A k \in Keys : rows[k] # Absent => rows[k].table \in Tables
  BY RowTables DEF RecordsInv, RowsWhole, Whole
<1>2. PlansTypeOK
  BY WholeRow, RowTables DEF PlansTypeOK
<1>3. CampaignsTypeOK
  BY WholeRow, RowTables DEF CampaignsTypeOK
<1>4. CircuitsTypeOK
  BY WholeRow, RowTables DEF CircuitsTypeOK
<1>5. SquadronsTypeOK
  <2>1. ASSUME NEW s \in Sections, NEW item \in squad[s] PROVE item[1] \in Calls
    <3>1. squad[s] = Those("created", s) \ Those("revoked", s)
      BY DEF RecordsInv, ListsConfirmed
    <3>2. PICK e \in Creations : e.key = item
      BY <2>1, <3>1 DEF Those, Creations
    <3> QED
      BY <3>2 DEF RecordsInv, ListsConfirmed
  <2>2. \A k \in All("note") : rows[k] \in NoteRows
    BY WholeRow, RowTables
  <2> QED
    BY <2>1, <2>2 DEF SquadronsTypeOK
<1>6. LibraryTypeOK
  BY WholeRow, RowTables DEF LibraryTypeOK, Whole, Place, LibraryTables
<1> QED
  BY <1>1, <1>2, <1>3, <1>4, <1>5, <1>6 DEF RecordsTyped

LEMMA InvLogged ==
  ASSUME RecordsInv
  PROVE  LogMatchesRows
<1>1. ASSUME NEW table, NEW k \in All(table)
      PROVE  NameOf(k, rows[k]) \in Old \/ Making(k, rows[k]) \in log \/ Coming(k)
  BY <1>1, WholeRow DEF Whole, Told, Coming
<1>2. ASSUME NEW e \in log, Deletes(e)
      PROVE  \A k \in Keys : rows[k] # Absent => ~IsOf(e, k)
  BY <1>2 DEF RecordsInv, GoneIsGone, OnlyAt
<1>3. PlansLogged
  <2>1. ASSUME NEW table \in Planned, NEW k \in All(table) \ Old
        PROVE  Entry(table, "created", k) \in log \/ Coming(k)
    <3>1. rows[k].table = table
      BY <2>1, WholeRow
    <3>2. NameOf(k, rows[k]) = k /\ Making(k, rows[k]) = Entry(table, "created", k)
      BY <3>1, PlannedQuiet DEF NameOf, Making
    <3> QED
      BY <1>1, <2>1, <3>2
  <2>2. ASSUME NEW e \in log, e.of \in Planned, e.what = "archived" PROVE rows[e.key] = Absent
    <3>1. Deletes(e) /\ IsOf(e, e.key)
      BY <2>2, PlannedQuiet DEF Deletes, IsOf
    <3>2. e.key \in Keys
      BY <3>1 DEF RecordsInv, GoneIsGone, OnlyAt, Keys
    <3> QED
      BY <1>2, <3>1, <3>2
  <2> QED
    BY <2>1, <2>2 DEF PlansLogged
<1>4. StopsAccountedFor
  <2>1. ASSUME NEW s \in All("stop")
        PROVE  /\ rows[s].circuit \in All("circuit")
               /\ Entry("stop", "removed", s) \notin log
               /\ s \notin Old => Entry("stop", "added", s) \in log \/ Coming(s)
    <3>1. s \in Keys /\ rows[s] # Absent /\ rows[s].table = "stop" /\ Whole(s)
      BY <2>1, WholeRow
    <3>2. NameOf(s, rows[s]) = s /\ Making(s, rows[s]) = Entry("stop", "added", s)
      BY <3>1 DEF NameOf, Making, LibraryTables
    <3>3. PICK e : e = Entry("stop", "removed", s)
      OBVIOUS
    <3>4. Deletes(e) /\ IsOf(e, s)
      BY <3>3 DEF Entry, Deletes, IsOf, LibraryTables
    <3>5. e \notin log
      BY <1>2, <3>1, <3>4
    <3> QED
      BY <1>1, <2>1, <3>1, <3>2, <3>3, <3>5 DEF Whole
  <2> QED
    BY <2>1 DEF StopsAccountedFor
<1>5. NotesLogged
  <2>1. ASSUME NEW k \in All("note") \ Old
        PROVE  Entry("note", "created", <<k, 0>>) \in log \/ Coming(k)
    <3>1. rows[k].table = "note"
      BY <2>1, WholeRow
    <3>2. NameOf(k, rows[k]) = k /\ Making(k, rows[k]) = Entry("note", "created", <<k, 0>>)
      BY <3>1 DEF NameOf, Making, LibraryTables
    <3> QED
      BY <1>1, <2>1, <3>2
  <2> QED
    BY <2>1 DEF NotesLogged
<1>6. LibraryLogged
  <2>1. ASSUME NEW table \in {"bookmark", "route"}, NEW k \in All(table)
        PROVE  /\ rows[k].by \in Calls =>
                    Entry(table, "created", rows[k].by) \in log \/ Coming(k)
               /\ Entry(table, "deleted", rows[k].by) \notin log
    <3>1. k \in Keys /\ rows[k] # Absent /\ rows[k].table = table
      BY <2>1, WholeRow
    <3>2. /\ NameOf(k, rows[k]) = rows[k].by
          /\ Making(k, rows[k]) = Entry(table, "created", rows[k].by)
      BY <2>1, <3>1 DEF NameOf, Making, LibraryTables
    <3>3. PICK e : e = Entry(table, "deleted", rows[k].by)
      OBVIOUS
    <3>4. Deletes(e) /\ IsOf(e, k)
      BY <2>1, <3>1, <3>3 DEF Entry, Deletes, IsOf, LibraryTables
    <3>5. e \notin log
      BY <1>2, <3>1, <3>4
    <3> QED
      BY <1>1, <3>2, <3>3, <3>5, KeysAssumption
  <2> QED
    BY <2>1 DEF LibraryLogged
<1> QED
  BY <1>3, <1>4, <1>5, <1>6 DEF LogMatchesRows

LEMMA InvConfirmed ==
  ASSUME RecordsInv
  PROVE  ConfirmedOnly
<1>1. DraftsSourced
  BY WholeRow DEF DraftsSourced, Whole, DraftsOf
<1>2. \A s \in Sections : squad[s] = Those("created", s) \ Those("revoked", s)
  BY DEF RecordsInv, ListsConfirmed
<1>3. \A e \in Creations : e.key[2] = 0 /\ call[e.key[1]] = Done("confirmed")
  BY DEF RecordsInv, ListsConfirmed
<1> QED
  BY <1>1, <1>2, <1>3 DEF ConfirmedOnly, SquadFollowsConfirmations

-----------------------------------------------------------------------------
(* Theorems.                                                               *)

\* However calls interleave on the tables, and whichever commits fail: no row loses its
\* name, its place or its parent, no row that is said to be gone is there or comes back,
\* every call that waits holds what it may hold, and the lists follow the log.
THEOREM RecordsInductive == RecordsSpec => []RecordsInv
<1>1. RecordsInit => RecordsInv
  BY RecordsStart
<1>2. RecordsInv /\ [RecordsNext]_recordsVars => RecordsInv'
  BY RecordsStep
<1> QED
  BY <1>1, <1>2, PTL DEF RecordsSpec

\* What handlers write, and what commits make of it, keeps to the types of the tables
\* (engineering.py, campaign.py, campaign_circuits.py, squadrons.py, navigation_bookmarks.py).
THEOREM EveryRowTyped == RecordsSpec => []RecordsTyped
<1>1. RecordsInv => RecordsTyped
  BY InvTyped
<1> QED
  BY <1>1, RecordsInductive, PTL

\* The activity log tells of every row that is made, and says of none that is there, or
\* that some call may yet write, that it is gone.
THEOREM LogTellsOfRows == RecordsSpec => []LogMatchesRows
<1>1. RecordsInv => LogMatchesRows
  BY InvLogged
<1> QED
  BY <1>1, RecordsInductive, PTL

\* Every draft that is kept was approved at the gate and cites what the gate was shown;
\* every item of the squadron's lists is of one confirmed proposal, and of no other.
THEOREM NothingUnconfirmed == RecordsSpec => []ConfirmedOnly
<1>1. RecordsInv => ConfirmedOnly
  BY InvConfirmed
<1> QED
  BY <1>1, RecordsInductive, PTL

\* A campaign, a circuit or a note that is archived stays so: no handler that read it
\* before writes the stamp away, and none but a transition that had read its state before
\* takes a campaign out of the archive.
THEOREM ArchiveIsKept == RecordsSpec => ArchivedKept
<1>1. RecordsInv /\ [RecordsNext]_recordsVars =>
        [\A k \in Keys : StaysArchived(k)]_recordsVars
  BY RecordsStep
<1> QED
  BY <1>1, RecordsInductive, PTL DEF RecordsSpec, ArchivedKept
=============================================================================
