---------------------------- MODULE SessionProofs ----------------------------
(***************************************************************************)
(* What Interdiction, ShipIdentity, LocalContext and CommanderRecord       *)
(* promise, proved for every journal, every number of restarts and every   *)
(* order in which handlers run; and that MCSession, which drives them and  *)
(* ShipAlerts side by side, is no more than its parts.                     *)
(***************************************************************************)
EXTENDS MCSession, ShipAlertsProofs, FiniteSetTheorems, SequenceTheorems,
        WellFoundedInduction, TLAPS

-----------------------------------------------------------------------------
(* Sequences that lose an element or grow.                                 *)

LEMMA RemovedAt ==
  ASSUME NEW S, NEW s \in Seq(S), NEW n \in 1 .. Len(s)
  PROVE  /\ RemoveAt(s, n) \in Seq(S) /\ Len(RemoveAt(s, n)) = Len(s) - 1
         /\ \A j \in 1 .. Len(s) - 1 : RemoveAt(s, n)[j] = s[IF j < n THEN j ELSE j + 1]
<1> DEFINE p == SubSeq(s, 1, n - 1)
           q == SubSeq(s, n + 1, Len(s))
<1>1. /\ p \in Seq(S) /\ Len(p) = n - 1 /\ \A j \in 1 .. n - 1 : p[j] = s[j]
      /\ q \in Seq(S) /\ Len(q) = Len(s) - n /\ \A j \in 1 .. Len(s) - n : q[j] = s[n + j]
  OBVIOUS
<1>2. RemoveAt(s, n) = p \o q
  BY DEF RemoveAt
<1> HIDE DEF p, q
<1>3. /\ p \o q \in Seq(S) /\ Len(p \o q) = Len(p) + Len(q)
      /\ \A j \in 1 .. Len(p) + Len(q) :
           (p \o q)[j] = IF j <= Len(p) THEN p[j] ELSE q[j - Len(p)]
  BY <1>1, ConcatProperties
<1>4. Len(p) + Len(q) = Len(s) - 1
  BY <1>1
<1>5. ASSUME NEW j \in 1 .. Len(s) - 1
      PROVE  (p \o q)[j] = s[IF j < n THEN j ELSE j + 1]
  <2>1. CASE j < n
    BY <1>1, <1>3, <1>4, <2>1
  <2>2. CASE ~(j < n)
    <3>1. (p \o q)[j] = q[j - Len(p)]
      BY <1>1, <1>3, <1>4, <2>2
    <3>2. j - Len(p) \in 1 .. Len(s) - n /\ n + (j - Len(p)) = j + 1
      BY <1>1, <2>2
    <3>3. q[j - Len(p)] = s[n + (j - Len(p))]
      BY <1>1, <3>2
    <3> QED
      BY <2>2, <3>1, <3>2, <3>3
  <2> QED
    BY <2>1, <2>2
<1> QED
  BY <1>2, <1>3, <1>4, <1>5

\* What is left of a sequence was in it before.
LEMMA Remaining ==
  ASSUME NEW S, NEW s \in Seq(S), NEW n \in 1 .. Len(s), NEW j \in 1 .. Len(s) - 1
  PROVE  \E k \in 1 .. Len(s) : /\ k # n /\ RemoveAt(s, n)[j] = s[k]
                                /\ k = (IF j < n THEN j ELSE j + 1)
  BY RemovedAt

LEMMA Appended ==
  ASSUME NEW S, NEW s \in Seq(S), NEW e \in S
  PROVE  /\ Append(s, e) \in Seq(S) /\ Len(Append(s, e)) = Len(s) + 1
         /\ \A j \in 1 .. Len(s) : Append(s, e)[j] = s[j]
         /\ Append(s, e)[Len(s) + 1] = e
  OBVIOUS

-----------------------------------------------------------------------------
(* The journal and the tasks.                                              *)

\* Lines that have been handled in order.
Handled == Len(lines) - Len(waiting)

\* As long as nothing was overtaken, what waits is the end of the journal.
Queued ==
  inOrder = TRUE =>
    Handled \in Nat /\ \A n \in 1 .. Len(waiting) : waiting[n] = Handled + n

\* The journal grows, and what waits grows with it.
LEMMA Entered ==
  ASSUME NEW L, lines \in Seq(L), waiting \in Seq(1 .. Len(lines)), NEW line \in L, Enter(line)
  PROVE  /\ lines' \in Seq(L) /\ Len(lines) \in Nat /\ Len(lines') = Len(lines) + 1
         /\ \A n \in 1 .. Len(lines) : lines'[n] = lines[n]
         /\ lines'[Len(lines) + 1] = line
         /\ waiting' \in Seq(1 .. Len(lines')) /\ Len(waiting) \in Nat
         /\ Len(waiting') = Len(waiting) + 1
         /\ \A n \in 1 .. Len(waiting) : waiting'[n] = waiting[n]
         /\ waiting'[Len(waiting) + 1] = Len(lines) + 1
         /\ Handled' = Handled /\ UNCHANGED inOrder
         /\ Queued => Queued'
<1>1. lines' = Append(lines, line) /\ waiting' = Append(waiting, Len(lines) + 1)
      /\ UNCHANGED inOrder
  BY DEF Enter
<1>2. /\ Len(lines) \in Nat /\ lines' \in Seq(L) /\ Len(lines') = Len(lines) + 1
      /\ \A n \in 1 .. Len(lines) : lines'[n] = lines[n]
      /\ lines'[Len(lines) + 1] = line
  BY <1>1, Appended
<1>3. waiting \in Seq(1 .. Len(lines'))
  <2>1. 1 .. Len(lines) \subseteq 1 .. Len(lines')
    BY <1>2
  <2> QED
    BY <2>1, SeqMonotonic
<1>4. /\ waiting' \in Seq(1 .. Len(lines')) /\ Len(waiting') = Len(waiting) + 1
      /\ \A n \in 1 .. Len(waiting) : waiting'[n] = waiting[n]
      /\ waiting'[Len(waiting) + 1] = Len(lines) + 1 /\ Len(waiting) \in Nat
  BY <1>1, <1>2, <1>3, Appended
<1>5. Handled' = Handled
  BY <1>2, <1>4 DEF Handled
<1>6. ASSUME Queued, inOrder' = TRUE
      PROVE  Handled' \in Nat /\ \A n \in 1 .. Len(waiting') : waiting'[n] = Handled' + n
  <2>1. Handled \in Nat /\ \A n \in 1 .. Len(waiting) : waiting[n] = Handled + n
    BY <1>1, <1>6 DEF Queued
  <2>2. ASSUME NEW n \in 1 .. Len(waiting')
        PROVE  waiting'[n] = Handled + n
    <3>1. CASE n \in 1 .. Len(waiting)
      BY <1>4, <2>1, <3>1
    <3>2. CASE n = Len(waiting) + 1
      BY <1>2, <1>4, <3>2 DEF Handled
    <3> QED
      BY <1>4, <3>1, <3>2
  <2> QED
    BY <1>5, <2>1, <2>2
<1>7. Queued => Queued'
  BY <1>6 DEF Queued
<1> QED
  BY <1>1, <1>2, <1>4, <1>5, <1>7

\* The line that is taken, and what is left of the others.
LEMMA TakenOut ==
  ASSUME NEW L, lines \in Seq(L), waiting \in Seq(1 .. Len(lines)), inOrder \in BOOLEAN,
         NEW n \in DOMAIN waiting, TakeOut(n)
  PROVE  /\ n \in 1 .. Len(waiting) /\ waiting[n] \in 1 .. Len(lines) /\ lines[waiting[n]] \in L
         /\ lines' = lines /\ Len(lines) \in Nat
         /\ Len(waiting) \in Nat /\ Len(waiting') = Len(waiting) - 1
         /\ \A j \in 1 .. Len(waiting) - 1 :
              waiting'[j] = waiting[IF j < n THEN j ELSE j + 1]
         /\ waiting' \in Seq(1 .. Len(lines))
         /\ inOrder' \in BOOLEAN /\ (inOrder' = TRUE => inOrder = TRUE /\ n = 1)
         /\ Queued => Queued'
         /\ (Queued /\ inOrder' = TRUE) =>
              Handled \in Nat /\ waiting[n] = Handled + 1 /\ Handled' = Handled + 1
<1>1. n \in 1 .. Len(waiting) /\ Len(waiting) \in Nat /\ Len(lines) \in Nat
  OBVIOUS
<1>2. waiting' = RemoveAt(waiting, n) /\ lines' = lines
  BY DEF TakeOut
<1>3. /\ waiting' \in Seq(1 .. Len(lines)) /\ Len(waiting') = Len(waiting) - 1
      /\ \A j \in 1 .. Len(waiting) - 1 : waiting'[j] = waiting[IF j < n THEN j ELSE j + 1]
  BY <1>1, <1>2, RemovedAt
<1>4. inOrder' = (inOrder /\ n = 1)
  BY DEF TakeOut
<1>5. inOrder' \in BOOLEAN /\ (inOrder' = TRUE => inOrder = TRUE /\ n = 1)
  BY <1>4, Zenon
<1>6. waiting[n] \in 1 .. Len(lines) /\ lines[waiting[n]] \in L
  BY <1>1
<1>7. ASSUME Queued, inOrder' = TRUE
      PROVE  /\ Handled \in Nat /\ waiting[n] = Handled + 1 /\ Handled' = Handled + 1
             /\ Handled' \in Nat
             /\ \A j \in 1 .. Len(waiting') : waiting'[j] = Handled' + j
  <2>1. inOrder = TRUE /\ n = 1
    BY <1>5, <1>7
  <2>2. Handled \in Nat /\ \A j \in 1 .. Len(waiting) : waiting[j] = Handled + j
    BY <1>7, <2>1 DEF Queued
  <2>3. Handled' = Handled + 1
    BY <1>1, <1>2, <1>3 DEF Handled
  <2>4. ASSUME NEW j \in 1 .. Len(waiting') PROVE waiting'[j] = Handled' + j
    <3>1. j \in 1 .. Len(waiting) - 1
      BY <1>3
    <3>3. ~(j < n) /\ j + 1 \in 1 .. Len(waiting)
      BY <1>1, <2>1, <3>1
    <3>2. waiting'[j] = waiting[j + 1]
      BY <1>3, <3>1, <3>3
    <3>4. waiting[j + 1] = Handled + (j + 1)
      BY <2>2, <3>3
    <3> QED
      BY <2>2, <2>3, <3>1, <3>2, <3>4
  <2> QED
    BY <1>1, <2>1, <2>2, <2>3, <2>4
<1>8. Queued => Queued'
  BY <1>7 DEF Queued
<1> QED
  BY <1>1, <1>2, <1>3, <1>5, <1>6, <1>7, <1>8

-----------------------------------------------------------------------------
(* Combat and encounters.  Their inductive invariant.                      *)

Scene ==
  /\ script \in [lines : Nat, rereads : Nat, edits : Nat]
  /\ pulled \in BOOLEAN
  /\ lines \in Seq(Line) /\ Len(lines) <= script.lines

CombatStates == [interdicted : BOOLEAN \cup {Missing}, attacked : BOOLEAN \cup {Missing},
                 mode : Modes \cup {Missing}, low : BOOLEAN]

Handlers ==
  /\ waiting \in Seq(1 .. Len(lines))
  /\ combat \in CombatStates
  /\ nextId \in Nat /\ guard \in (0 .. nextId) \cup {Missing} /\ pending \subseteq 0 .. nextId

\* A flag that rose has fallen since, which the journal tells, or is up and was seen so.
Edges ==
  /\ lastFlag \in BOOLEAN \cup {Missing} /\ rising \in Nat
  /\ rising <= Len(lines) + 1
  /\ ~(pulled = TRUE /\ lastFlag = TRUE) => rising <= Len(lines)

Table ==
  /\ writers \in Seq([line : 1 .. Len(lines), step : {"check", "insert"}])
  /\ rows \in Seq([line : 1 .. Len(lines), edited : BOOLEAN])

Observed ==
  /\ inOrder \in BOOLEAN /\ alone \in BOOLEAN
  /\ rereads \in Nat /\ edits \in Nat

\* As long as nothing was overtaken, what waits is the end of the journal; an
\* interdiction that is shown and over has its end among it; and what was handled last
\* has had its effect.
InTurn ==
  (inOrder = TRUE /\ rereads = 0) =>
    /\ Handled \in Nat /\ \A n \in 1 .. Len(waiting) : waiting[n] = Handled + n
    /\ combat.interdicted = TRUE =>
         pulled = TRUE \/ \E n \in 1 .. Len(waiting) : lines[waiting[n]].type = "End"
    /\ (Handled > 0 /\ lines[Handled].type = "Boundary") =>
         combat.attacked = FALSE /\ combat.mode = Missing

\* Handlers that were never at the same line at once keep apart: no two rows, no two
\* writers, and no row and writer about to insert, are of one line.
Apart ==
  (alone = TRUE /\ edits = 0) =>
    /\ \A r \in 1 .. Len(rows) : rows[r].edited = FALSE
    /\ \A q, r \in 1 .. Len(rows) : rows[q].line = rows[r].line => q = r
    /\ \A j, k \in 1 .. Len(writers) : writers[j].line = writers[k].line => j = k
    /\ \A k \in 1 .. Len(writers), r \in 1 .. Len(rows) :
         writers[k].step = "insert" => rows[r].line # writers[k].line

CombatInv ==
  Scene /\ Handlers /\ Edges /\ Table /\ Observed /\ GuardFollowsInterdiction /\ InTurn /\ Apart

-----------------------------------------------------------------------------
(* Every step keeps the types.                                             *)

CombatShape == Scene /\ Handlers /\ Edges /\ Table /\ Observed

\* Writers and rows of a journal are writers and rows of a longer one.
LEMMA Longer ==
  ASSUME NEW m \in Nat, NEW w, NEW r,
         w \in Seq([line : 1 .. m, step : {"check", "insert"}]),
         r \in Seq([line : 1 .. m, edited : BOOLEAN])
  PROVE  /\ w \in Seq([line : 1 .. (m + 1), step : {"check", "insert"}])
         /\ r \in Seq([line : 1 .. (m + 1), edited : BOOLEAN])
<1>1. 1 .. m \subseteq 1 .. (m + 1)
  OBVIOUS
<1>2. /\ [line : 1 .. m, step : {"check", "insert"}]
           \subseteq [line : 1 .. (m + 1), step : {"check", "insert"}]
      /\ [line : 1 .. m, edited : BOOLEAN] \subseteq [line : 1 .. (m + 1), edited : BOOLEAN]
  BY <1>1
<1> QED
  BY <1>2, SeqMonotonic

LEMMA LoggedTyped ==
  ASSUME CombatShape, NEW line \in Line, Logged(line), pulled' \in BOOLEAN
  PROVE  /\ CombatShape'
         /\ Len(lines') = Len(lines) + 1 /\ \A n \in 1 .. Len(lines) : lines'[n] = lines[n]
         /\ lines'[Len(lines) + 1] = line
         /\ Len(waiting') = Len(waiting) + 1 /\ waiting'[Len(waiting) + 1] = Len(lines) + 1
         /\ \A n \in 1 .. Len(waiting) : waiting'[n] = waiting[n]
<1>1. lines \in Seq(Line) /\ waiting \in Seq(1 .. Len(lines)) /\ Len(lines) \in Nat
  BY DEF CombatShape, Scene, Handlers
<1>2. Enter(line) /\ Len(lines) < script.lines
  BY DEF Logged
<1>3. /\ lines' \in Seq(Line) /\ Len(lines') = Len(lines) + 1
      /\ \A n \in 1 .. Len(lines) : lines'[n] = lines[n]
      /\ lines'[Len(lines) + 1] = line
  BY <1>1, <1>2, Entered
<1>5. /\ waiting' \in Seq(1 .. Len(lines')) /\ Len(waiting') = Len(waiting) + 1
      /\ waiting'[Len(waiting) + 1] = Len(lines) + 1
      /\ \A n \in 1 .. Len(waiting) : waiting'[n] = waiting[n]
  BY <1>1, <1>2, Entered
<1>6. Table'
  BY <1>1, <1>3, Longer DEF CombatShape, Table, Logged, database
<1>7. Scene'
  BY <1>1, <1>2, <1>3 DEF CombatShape, Scene, Logged
<1>8. Handlers'
  BY <1>5 DEF CombatShape, Handlers, Logged, workflow
<1>9. Edges'
  BY <1>1, <1>3 DEF CombatShape, Edges, Logged
<1>10. Observed'
  BY DEF CombatShape, Observed, Logged, observed, database
<1> QED
  BY <1>3, <1>5, <1>6, <1>7, <1>8, <1>9, <1>10 DEF CombatShape

LEMMA PullTyped == ASSUME CombatShape, Pull PROVE CombatShape'
  BY DEF CombatShape, Scene, Handlers, Edges, Table, Observed, Pull, workflow, database, observed

LEMMA PollTyped == ASSUME CombatShape, PollFlag PROVE CombatShape'
<1>1. UNCHANGED <<scene, waiting, workflow, database, observed>>
  BY DEF PollFlag
<1>2. Scene' /\ Handlers' /\ Table' /\ Observed'
  BY <1>1 DEF CombatShape, Scene, Handlers, Table, Observed, scene, workflow, database, observed
<1>3. /\ pulled \in BOOLEAN /\ lastFlag' = pulled /\ lastFlag # pulled
      /\ pulled' = pulled /\ lines' = lines
  BY DEF CombatShape, Scene, PollFlag, scene
<1>4. lastFlag' \in BOOLEAN \cup {Missing}
  BY <1>3
<1>5. ~(pulled = TRUE /\ lastFlag = TRUE)
  BY <1>3
<1>6. rising \in Nat /\ rising <= Len(lines) /\ Len(lines) \in Nat
  BY <1>5 DEF CombatShape, Edges, Scene
<1>7. CASE lastFlag = FALSE /\ pulled
  <2>1. rising' = rising + 1 /\ pulled' = TRUE /\ lastFlag' = TRUE
    BY <1>3, <1>7, Zenon DEF PollFlag
  <2> QED
    BY <1>2, <1>3, <1>4, <1>6, <2>1 DEF CombatShape, Edges
<1>8. CASE ~(lastFlag = FALSE /\ pulled)
  <2>1. rising' = rising + 0
    BY <1>8, Zenon DEF PollFlag
  <2> QED
    BY <1>2, <1>3, <1>4, <1>6, <2>1 DEF CombatShape, Edges
<1> QED
  BY <1>7, <1>8

LEMMA WholeJournal ==
  ASSUME CombatShape, NEW w, w = [n \in DOMAIN lines |-> n]
  PROVE  w \in Seq(1 .. Len(lines)) /\ Len(w) = Len(lines) /\ \A n \in 1 .. Len(lines) : w[n] = n
<1>1. lines \in Seq(Line)
  BY DEF CombatShape, Scene
<1>2. DOMAIN lines = 1 .. Len(lines) /\ Len(lines) \in Nat
  BY <1>1
<1> QED
  BY <1>2

LEMMA RestartTyped == ASSUME CombatShape, Restart PROVE CombatShape' /\ rereads' > 0
<1>1. waiting' \in Seq(1 .. Len(lines))
  BY WholeJournal DEF Restart
<1>2. UNCHANGED <<scene, nextId, rows, edits, inOrder, alone>>
  BY DEF Restart
<1>3. Scene' /\ lines' = lines
  BY <1>2 DEF CombatShape, Scene, scene
<1>4. Handlers'
  <2>1. combat' = NoCombat /\ guard' = Missing /\ pending' = {}
    BY DEF Restart
  <2> QED
    BY <1>1, <1>2, <1>3, <2>1 DEF CombatShape, Handlers, CombatStates, NoCombat
<1>5. Edges'
  BY <1>3 DEF CombatShape, Scene, Edges, Restart
<1>6. Table'
  <2>1. writers' = <<>>
    BY DEF Restart
  <2> QED
    BY <1>2, <1>3, <2>1 DEF CombatShape, Table
<1>7. Observed' /\ rereads' > 0
  BY <1>2 DEF CombatShape, Observed, Restart
<1> QED
  BY <1>3, <1>4, <1>5, <1>6, <1>7 DEF CombatShape

LEMMA RereadTyped == ASSUME CombatShape, Reread PROVE CombatShape' /\ rereads' > 0
<1>1. PICK w : w = [n \in DOMAIN lines |-> n]
  OBVIOUS
<1>2. waiting' = waiting \o w
  BY <1>1 DEF Reread
<1>3. waiting' \in Seq(1 .. Len(lines))
  BY <1>1, <1>2, WholeJournal, ConcatProperties DEF CombatShape, Handlers
<1>4. UNCHANGED <<scene, lastFlag, rising, workflow, database, inOrder, alone>>
  BY DEF Reread
<1> QED
  BY <1>3, <1>4
  DEF CombatShape, Scene, Handlers, Edges, Table, Observed, Reread, scene, workflow, database

LEMMA Proposed ==
  ASSUME Handlers, Propose
  PROVE  /\ nextId' \in Nat /\ guard' \in (0 .. nextId') \cup {Missing}
         /\ pending' \subseteq 0 .. nextId'
<1>1. nextId \in Nat /\ guard \in (0 .. nextId) \cup {Missing} /\ pending \subseteq 0 .. nextId
  BY DEF Handlers
<1>2. CASE guard = Missing /\ combat.low
  <2>1. guard' = nextId /\ pending' = pending \cup {nextId} /\ nextId' = nextId + 1
    BY <1>2 DEF Propose
  <2> QED
    BY <1>1, <2>1
<1>3. CASE ~(guard = Missing /\ combat.low)
  <2>1. UNCHANGED <<guard, pending, nextId>>
    BY <1>3 DEF Propose
  <2> QED
    BY <1>1, <2>1
<1> QED
  BY <1>2, <1>3

LEMMA RisingTyped == ASSUME CombatShape, HandleRising PROVE CombatShape'
<1>1. UNCHANGED <<scene, waiting, lastFlag, database, alone, rereads>>
  BY DEF HandleRising
<1>2. Scene' /\ Table'
  BY <1>1 DEF CombatShape, Scene, Table, scene, database
<1>3. Edges'
  BY <1>1 DEF CombatShape, Edges, HandleRising, scene
<1>4. inOrder' \in BOOLEAN
  BY Zenon DEF HandleRising
<1>5. Observed'
  BY <1>1, <1>4 DEF CombatShape, Observed, database
<1>6. CASE combat.interdicted = TRUE
  <2>1. UNCHANGED workflow
    BY <1>6 DEF HandleRising
  <2> QED
    BY <1>1, <1>2, <1>3, <1>5, <2>1 DEF CombatShape, Handlers, scene, workflow
<1>7. CASE combat.interdicted # TRUE
  <2>1. combat' = [combat EXCEPT !.interdicted = TRUE] /\ Propose
    BY <1>7 DEF HandleRising
  <2>2. combat' \in CombatStates
    BY <2>1 DEF CombatShape, Handlers, CombatStates
  <2>3. waiting' \in Seq(1 .. Len(lines'))
    BY <1>1 DEF CombatShape, Handlers, scene
  <2> QED
    BY <1>2, <1>3, <1>5, <2>1, <2>2, <2>3, Proposed DEF CombatShape, Handlers
<1> QED
  BY <1>6, <1>7

LEMMA RespondTyped == ASSUME CombatShape, NEW id \in pending, Respond(id) PROVE CombatShape'
  BY DEF CombatShape, Scene, Handlers, Edges, Table, Observed, Respond, scene, database, observed

\* The line that is taken, and what is left of the others.
LEMMA Taken ==
  ASSUME CombatShape, NEW n \in DOMAIN waiting, Take(n)
  PROVE  /\ n \in 1 .. Len(waiting) /\ waiting[n] \in 1 .. Len(lines)
         /\ lines[waiting[n]] \in Line
         /\ Len(waiting) \in Nat /\ Len(waiting') = Len(waiting) - 1
         /\ \A j \in 1 .. Len(waiting) - 1 :
              waiting'[j] = waiting[IF j < n THEN j ELSE j + 1]
         /\ waiting' \in Seq(1 .. Len(lines))
         /\ UNCHANGED <<script, pulled, lines, lastFlag, rising, rows, edits, rereads>>
         /\ inOrder' \in BOOLEAN
         /\ inOrder' = TRUE => inOrder = TRUE /\ n = 1
<1>1. waiting \in Seq(1 .. Len(lines)) /\ lines \in Seq(Line) /\ inOrder \in BOOLEAN
  BY DEF CombatShape, Scene, Handlers, Observed
<1>2. TakeOut(n) /\ UNCHANGED <<script, pulled, lines, lastFlag, rising, rows, edits, rereads>>
  BY DEF Take, scene
<1> QED
  BY <1>1, <1>2, TakenOut

LEMMA HandledTyped ==
  ASSUME CombatShape, NEW n \in DOMAIN waiting, Take(n),
         combat' \in CombatStates, guard' \in {guard, Missing}, UNCHANGED <<pending, nextId>>,
         writers' \in Seq([line : 1 .. Len(lines), step : {"check", "insert"}]),
         alone' \in BOOLEAN
  PROVE  CombatShape'
<1>1. Scene' /\ Edges'
  BY Taken DEF CombatShape, Scene, Edges
<1>2. Handlers'
  BY Taken DEF CombatShape, Handlers
<1>3. Table' /\ Observed'
  BY Taken DEF CombatShape, Table, Observed
<1> QED
  BY <1>1, <1>2, <1>3 DEF CombatShape

LEMMA EndTyped ==
  ASSUME CombatShape, NEW n \in DOMAIN waiting, HandleEnd(n)
  PROVE  CombatShape' /\ Take(n) /\ lines[waiting[n]].type = "End"
<1>1. Take(n) /\ lines[waiting[n]].type = "End"
  BY DEF HandleEnd
<1>2. combat' \in CombatStates
  BY DEF HandleEnd, CombatShape, Handlers, CombatStates
<1>3. guard' \in {guard, Missing} /\ UNCHANGED <<pending, nextId>>
  BY DEF HandleEnd
<1>4. writers' \in Seq([line : 1 .. Len(lines), step : {"check", "insert"}])
  <2>1. [line |-> waiting[n], step |-> "check"]
          \in [line : 1 .. Len(lines), step : {"check", "insert"}]
    BY <1>1, Taken
  <2>2. writers \in Seq([line : 1 .. Len(lines), step : {"check", "insert"}])
    BY DEF CombatShape, Table
  <2>3. \/ writers' = Append(writers, [line |-> waiting[n], step |-> "check"])
        \/ writers' = writers
    BY DEF HandleEnd
  <2>4. PICK S : S = [line : 1 .. Len(lines), step : {"check", "insert"}]
    OBVIOUS
  <2>5. Append(writers, [line |-> waiting[n], step |-> "check"]) \in Seq(S)
    BY <2>1, <2>2, <2>4, Appended
  <2> QED
    BY <2>2, <2>3, <2>4, <2>5
<1>5. alone' \in BOOLEAN
  BY Zenon DEF HandleEnd
<1> QED
  BY <1>1, <1>2, <1>3, <1>4, <1>5, HandledTyped

LEMMA BoundaryTyped ==
  ASSUME CombatShape, NEW n \in DOMAIN waiting, HandleBoundary(n)
  PROVE  CombatShape' /\ Take(n) /\ lines[waiting[n]].type = "Boundary" /\ UNCHANGED writers
<1>1. /\ Take(n) /\ lines[waiting[n]].type = "Boundary"
      /\ UNCHANGED <<pending, nextId, writers, alone>>
  BY DEF HandleBoundary
<1>2. combat' \in CombatStates
  <2>1. /\ combat' = [combat EXCEPT !.attacked = FALSE, !.mode = Missing,
                                    !.interdicted = IF @ = TRUE THEN FALSE ELSE @]
        /\ combat \in CombatStates
    BY DEF HandleBoundary, CombatShape, Handlers
  <2> QED
    BY <2>1 DEF CombatStates
<1>3. guard' \in {guard, Missing}
  BY DEF HandleBoundary
<1>4. /\ writers' \in Seq([line : 1 .. Len(lines), step : {"check", "insert"}])
      /\ alone' \in BOOLEAN
  BY <1>1 DEF CombatShape, Table, Observed
<1> QED
  BY <1>1, <1>2, <1>3, <1>4, HandledTyped

LEMMA FightTyped ==
  ASSUME CombatShape, NEW n \in DOMAIN waiting, HandleFight(n)
  PROVE  /\ CombatShape' /\ Take(n) /\ lines[waiting[n]].type \in {"Target", "Hull"}
         /\ UNCHANGED <<guard, writers, alone>> /\ combat'.interdicted = combat.interdicted
<1>1. /\ Take(n) /\ lines[waiting[n]].type \in {"Target", "Hull"}
      /\ UNCHANGED <<guard, pending, nextId, writers, alone>>
  BY DEF HandleFight
<1>2. lines[waiting[n]] \in Line /\ combat \in CombatStates
  BY <1>1, Taken DEF CombatShape, Handlers
<1>3. combat' \in CombatStates /\ combat'.interdicted = combat.interdicted
  <2>1. CASE lines[waiting[n]].type = "Target"
    <3>1. combat' = [combat EXCEPT !.mode = "targeted"]
      BY <2>1 DEF HandleFight
    <3> QED
      BY <1>2, <3>1 DEF CombatStates, Modes
  <2>2. CASE lines[waiting[n]].type = "Hull"
    <3>1. combat' = [combat EXCEPT !.attacked = TRUE, !.mode = "under_attack",
                                   !.low = lines[waiting[n]].low]
      BY <2>2 DEF HandleFight
    <3>2. lines[waiting[n]].low \in BOOLEAN
      BY <1>2, <2>2 DEF Line
    <3> QED
      BY <1>2, <3>1, <3>2 DEF CombatStates, Modes
  <2> QED
    BY <1>1, <2>1, <2>2
<1>4. /\ writers' \in Seq([line : 1 .. Len(lines), step : {"check", "insert"}])
      /\ alone' \in BOOLEAN
  BY <1>1 DEF CombatShape, Table, Observed
<1> QED
  BY <1>1, <1>3, <1>4, HandledTyped

\* A writer or the commander touches the table only.
LEMMA TableTyped ==
  ASSUME CombatShape, UNCHANGED <<scene, waiting, lastFlag, rising, workflow, observed>>,
         writers' \in Seq([line : 1 .. Len(lines), step : {"check", "insert"}]),
         rows' \in Seq([line : 1 .. Len(lines), edited : BOOLEAN]), edits' \in Nat
  PROVE  CombatShape'
  BY DEF CombatShape, Scene, Handlers, Edges, Table, Observed, scene, workflow, observed

\* A writer that goes leaves the others as they are.
LEMMA WriterGone ==
  ASSUME CombatShape, NEW k \in DOMAIN writers, writers' = RemoveAt(writers, k)
  PROVE  /\ k \in 1 .. Len(writers) /\ Len(writers) \in Nat
         /\ writers' \in Seq([line : 1 .. Len(lines), step : {"check", "insert"}])
         /\ Len(writers') = Len(writers) - 1
         /\ \A j \in 1 .. Len(writers) - 1 :
              writers'[j] = writers[IF j < k THEN j ELSE j + 1]
<1>1. PICK S : S = [line : 1 .. Len(lines), step : {"check", "insert"}]
  OBVIOUS
<1>2. writers \in Seq(S) /\ k \in 1 .. Len(writers)
  BY <1>1 DEF CombatShape, Table
<1>3. /\ RemoveAt(writers, k) \in Seq(S) /\ Len(RemoveAt(writers, k)) = Len(writers) - 1
      /\ \A j \in 1 .. Len(writers) - 1 :
           RemoveAt(writers, k)[j] = writers[IF j < k THEN j ELSE j + 1]
  BY <1>2, RemovedAt
<1>4. Len(writers) \in Nat
  BY <1>2
<1> QED
  BY <1>1, <1>2, <1>3, <1>4

\* A writer that found no row inserts one next.
LEMMA WriterSteps ==
  ASSUME CombatShape, NEW k \in DOMAIN writers, writers[k].step = "check",
         writers' = [writers EXCEPT ![k].step = "insert"]
  PROVE  /\ k \in 1 .. Len(writers) /\ Len(writers') = Len(writers)
         /\ writers' \in Seq([line : 1 .. Len(lines), step : {"check", "insert"}])
         /\ \A j \in 1 .. Len(writers) : writers'[j].line = writers[j].line
         /\ \A j \in 1 .. Len(writers) : j # k => writers'[j].step = writers[j].step
<1>1. PICK S : S = [line : 1 .. Len(lines), step : {"check", "insert"}]
  OBVIOUS
<1>2. writers \in Seq(S) /\ k \in 1 .. Len(writers)
  BY <1>1 DEF CombatShape, Table
<1>3. writers[k] \in S
  BY <1>2
<1>4. PICK e : e = [writers[k] EXCEPT !.step = "insert"]
  OBVIOUS
<1>5. e \in S /\ e.line = writers[k].line
  BY <1>1, <1>3, <1>4
<1>6. writers' = [writers EXCEPT ![k] = e]
  BY <1>4
<1>7. /\ writers' \in Seq(S) /\ Len(writers') = Len(writers)
      /\ \A j \in 1 .. Len(writers) : writers'[j] = IF j = k THEN e ELSE writers[j]
  BY <1>2, <1>5, <1>6, ExceptSeq
<1> QED
  BY <1>1, <1>2, <1>5, <1>7

LEMMA CheckTyped == ASSUME CombatShape, NEW k \in DOMAIN writers, Check(k) PROVE CombatShape'
<1>1. /\ UNCHANGED <<scene, waiting, lastFlag, rising, workflow, edits, observed, rows>>
      /\ writers[k].step = "check"
      /\ \/ writers' = RemoveAt(writers, k)
         \/ writers' = [writers EXCEPT ![k].step = "insert"]
  BY DEF Check, Step
<1>2. writers' \in Seq([line : 1 .. Len(lines), step : {"check", "insert"}])
  BY <1>1, WriterGone, WriterSteps
<1> QED
  BY <1>1, <1>2, TableTyped DEF CombatShape, Table, Observed

\* The row that is inserted comes last.
LEMMA InsertTyped ==
  ASSUME CombatShape, NEW k \in DOMAIN writers, Insert(k)
  PROVE  /\ CombatShape'
         /\ Len(rows) \in Nat /\ Len(rows') = Len(rows) + 1
         /\ \A r \in 1 .. Len(rows) : rows'[r] = rows[r]
         /\ rows'[Len(rows) + 1] = [line |-> writers[k].line, edited |-> FALSE]
<1>1. /\ UNCHANGED <<scene, waiting, lastFlag, rising, workflow, edits, observed>>
      /\ rows' = Append(rows, [line |-> writers[k].line, edited |-> FALSE])
      /\ writers' = RemoveAt(writers, k)
  BY DEF Insert, Step
<1>2. writers[k].line \in 1 .. Len(lines)
  <2>1. k \in 1 .. Len(writers)
    BY DEF CombatShape, Table
  <2>2. writers[k] \in [line : 1 .. Len(lines), step : {"check", "insert"}]
    BY <2>1, ElementOfSeq DEF CombatShape, Table
  <2> QED
    BY <2>2
<1>3. PICK S : S = [line : 1 .. Len(lines), edited : BOOLEAN]
  OBVIOUS
<1>4. PICK e : e = [line |-> writers[k].line, edited |-> FALSE]
  OBVIOUS
<1>5. rows \in Seq(S) /\ e \in S
  BY <1>2, <1>3, <1>4 DEF CombatShape, Table
<1>6. /\ rows' \in Seq(S) /\ Len(rows') = Len(rows) + 1 /\ rows'[Len(rows) + 1] = e
      /\ \A r \in 1 .. Len(rows) : rows'[r] = rows[r]
  BY <1>1, <1>4, <1>5, Appended
<1>7. CombatShape'
  BY <1>1, <1>3, <1>6, WriterGone, TableTyped DEF CombatShape, Table, Observed
<1> QED
  BY <1>4, <1>5, <1>6, <1>7

LEMMA FailTyped == ASSUME CombatShape, NEW k \in DOMAIN writers, DatabaseFails(k) PROVE CombatShape'
<1>1. /\ UNCHANGED <<scene, waiting, lastFlag, rising, workflow, edits, observed, rows>>
      /\ writers' = RemoveAt(writers, k)
  BY DEF DatabaseFails, Step
<1> QED
  BY <1>1, WriterGone, TableTyped DEF CombatShape, Table, Observed

LEMMA CommanderTyped ==
  ASSUME CombatShape, NEW r \in DOMAIN rows, Edit(r) \/ Delete(r)
  PROVE  CombatShape' /\ edits' > 0
<1>1. /\ UNCHANGED <<scene, waiting, lastFlag, rising, workflow, writers, observed>>
      /\ edits' = edits + 1
  BY DEF Edit, Delete, Commander
<1>2. edits' \in Nat /\ edits' > 0
  BY <1>1 DEF CombatShape, Observed
<1>3. PICK S : S = [line : 1 .. Len(lines), edited : BOOLEAN]
  OBVIOUS
<1>4. rows \in Seq(S) /\ r \in 1 .. Len(rows)
  BY <1>3 DEF CombatShape, Table
<1>5. CASE Edit(r)
  <2>1. PICK e : e = [rows[r] EXCEPT !.edited = TRUE]
    OBVIOUS
  <2>2. rows[r] \in S
    BY <1>4
  <2>3. e \in S
    BY <1>3, <2>1, <2>2
  <2>4. rows' = [rows EXCEPT ![r] = e]
    BY <1>5, <2>1 DEF Edit
  <2>5. rows' \in Seq(S)
    BY <1>4, <2>3, <2>4, ExceptSeq
  <2> QED
    BY <1>1, <1>2, <1>3, <2>5, TableTyped DEF CombatShape, Table
<1>6. CASE Delete(r)
  <2>1. rows' \in Seq(S)
    BY <1>4, <1>6, RemovedAt DEF Delete
  <2> QED
    BY <1>1, <1>2, <1>3, <2>1, TableTyped DEF CombatShape, Table
<1> QED
  BY <1>5, <1>6

-----------------------------------------------------------------------------
(* Every step keeps the guard and the order.                               *)

Ordered == GuardFollowsInterdiction /\ InTurn

\* Both look at the journal, what waits, the combat state and the guard only.
LEMMA Elsewhere ==
  ASSUME Ordered, UNCHANGED <<pulled, lines, waiting, combat, guard, inOrder, rereads>>
  PROVE  Ordered'
  BY DEF Ordered, GuardFollowsInterdiction, InTurn, Handled

LEMMA LoggedOrdered ==
  ASSUME CombatShape, Ordered, NEW line \in Line, Logged(line),
         pulled' \in BOOLEAN, pulled' = pulled \/ line.type = "End"
  PROVE  Ordered'
<1>1. UNCHANGED <<combat, guard, inOrder, rereads>>
  BY DEF Logged, workflow, observed
<1>2. GuardFollowsInterdiction'
  BY <1>1 DEF Ordered, GuardFollowsInterdiction
<1>3. /\ Len(lines) \in Nat /\ Len(waiting) \in Nat
      /\ \A n \in 1 .. Len(waiting) : waiting[n] \in 1 .. Len(lines)
  BY DEF CombatShape, Scene, Handlers
<1>4. /\ Len(lines') = Len(lines) + 1 /\ \A n \in 1 .. Len(lines) : lines'[n] = lines[n]
      /\ lines'[Len(lines) + 1] = line
      /\ Len(waiting') = Len(waiting) + 1 /\ waiting'[Len(waiting) + 1] = Len(lines) + 1
      /\ \A n \in 1 .. Len(waiting) : waiting'[n] = waiting[n]
  BY LoggedTyped
<1>5. SUFFICES ASSUME inOrder = TRUE, rereads = 0
               PROVE  /\ Handled' \in Nat
                      /\ \A n \in 1 .. Len(waiting') : waiting'[n] = Handled' + n
                      /\ combat.interdicted = TRUE =>
                           \/ pulled' = TRUE
                           \/ \E n \in 1 .. Len(waiting') : lines'[waiting'[n]].type = "End"
                      /\ (Handled' > 0 /\ lines'[Handled'].type = "Boundary") =>
                           combat.attacked = FALSE /\ combat.mode = Missing
  BY <1>1, <1>2 DEF Ordered, InTurn
<1>6. /\ Handled \in Nat /\ \A n \in 1 .. Len(waiting) : waiting[n] = Handled + n
      /\ combat.interdicted = TRUE =>
           pulled = TRUE \/ \E n \in 1 .. Len(waiting) : lines[waiting[n]].type = "End"
      /\ (Handled > 0 /\ lines[Handled].type = "Boundary") =>
           combat.attacked = FALSE /\ combat.mode = Missing
  BY <1>5 DEF Ordered, InTurn
<1>7. Handled' = Handled /\ Handled = Len(lines) - Len(waiting)
  BY <1>3, <1>4 DEF Handled
<1>8. ASSUME NEW n \in 1 .. Len(waiting') PROVE waiting'[n] = Handled' + n
  <2>1. CASE n \in 1 .. Len(waiting)
    BY <1>4, <1>6, <1>7, <2>1
  <2>2. CASE n = Len(waiting) + 1
    BY <1>3, <1>4, <1>7, <2>2
  <2> QED
    BY <1>3, <1>4, <2>1, <2>2
<1>9. combat.interdicted = TRUE =>
        pulled' = TRUE \/ \E n \in 1 .. Len(waiting') : lines'[waiting'[n]].type = "End"
  <2>1. CASE line.type = "End"
    <3>1. Len(waiting) + 1 \in 1 .. Len(waiting')
      BY <1>3, <1>4
    <3> QED
      BY <1>4, <2>1, <3>1
  <2>2. CASE pulled' = pulled
    <3>1. ASSUME NEW n \in 1 .. Len(waiting), lines[waiting[n]].type = "End"
          PROVE  n \in 1 .. Len(waiting') /\ lines'[waiting'[n]].type = "End"
      BY <1>3, <1>4, <3>1
    <3> QED
      BY <1>6, <2>2, <3>1
  <2> QED
    BY <2>1, <2>2
<1>10. (Handled' > 0 /\ lines'[Handled'].type = "Boundary") =>
         combat.attacked = FALSE /\ combat.mode = Missing
  <2>1. Handled > 0 => lines'[Handled] = lines[Handled]
    BY <1>3, <1>4, <1>6, <1>7
  <2> QED
    BY <1>6, <1>7, <2>1
<1> QED
  BY <1>6, <1>7, <1>8, <1>9, <1>10

LEMMA RereadOrdered ==
  ASSUME CombatShape, Ordered, Restart \/ Reread
  PROVE  Ordered'
<1>1. GuardFollowsInterdiction'
  BY DEF Restart, Reread, workflow, Ordered, GuardFollowsInterdiction
<1>2. rereads' > 0
  BY RestartTyped, RereadTyped
<1> QED
  BY <1>1, <1>2 DEF Ordered, InTurn

LEMMA RisingOrdered ==
  ASSUME CombatShape, Ordered, HandleRising
  PROVE  Ordered'
<1>1. /\ UNCHANGED <<scene, waiting, rereads>>
      /\ inOrder' = (inOrder /\ pulled /\ waiting = <<>>)
      /\ inOrder \in BOOLEAN /\ pulled \in BOOLEAN
  BY DEF HandleRising, CombatShape, Scene, Observed
<1>2. inOrder' = TRUE => inOrder = TRUE /\ pulled = TRUE
  BY <1>1, Zenon
<1>3. UNCHANGED <<pulled, lines, waiting, rereads>>
  BY <1>1 DEF scene
<1>4. CASE combat.interdicted = TRUE
  <2>1. UNCHANGED <<combat, guard>>
    BY <1>4 DEF HandleRising, workflow
  <2> QED
    BY <1>2, <1>3, <2>1 DEF Ordered, GuardFollowsInterdiction, InTurn, Handled
<1>5. CASE combat.interdicted # TRUE
  <2>1. combat' = [combat EXCEPT !.interdicted = TRUE] /\ combat \in CombatStates
    BY <1>5 DEF HandleRising, CombatShape, Handlers
  <2>2. /\ combat'.interdicted = TRUE
        /\ combat'.attacked = combat.attacked /\ combat'.mode = combat.mode
    BY <2>1 DEF CombatStates
  <2> QED
    BY <1>2, <1>3, <2>2 DEF Ordered, GuardFollowsInterdiction, InTurn, Handled
<1> QED
  BY <1>4, <1>5

\* Whatever a handler does to the combat state: if it takes the oldest line, the order
\* stays what it was.
LEMMA TakenInTurn ==
  ASSUME CombatShape, InTurn, NEW n \in DOMAIN waiting, Take(n),
         lines[waiting[n]].type = "Boundary" =>
           combat'.attacked = FALSE /\ combat'.mode = Missing,
         \/ combat'.interdicted # TRUE
         \/ combat'.interdicted = combat.interdicted /\ lines[waiting[n]].type # "End"
  PROVE  InTurn'
<1> SUFFICES ASSUME inOrder' = TRUE, rereads' = 0
             PROVE  /\ Handled' \in Nat
                    /\ \A j \in 1 .. Len(waiting') : waiting'[j] = Handled' + j
                    /\ combat'.interdicted = TRUE =>
                         \/ pulled' = TRUE
                         \/ \E j \in 1 .. Len(waiting') : lines'[waiting'[j]].type = "End"
                    /\ (Handled' > 0 /\ lines'[Handled'].type = "Boundary") =>
                         combat'.attacked = FALSE /\ combat'.mode = Missing
  BY DEF InTurn
<1>1. /\ inOrder = TRUE /\ n = 1 /\ rereads = 0 /\ pulled' = pulled /\ lines' = lines
      /\ n \in 1 .. Len(waiting)
      /\ Len(waiting) \in Nat /\ Len(waiting') = Len(waiting) - 1
      /\ \A j \in 1 .. Len(waiting) - 1 : waiting'[j] = waiting[j + 1]
  <2>1. /\ inOrder = TRUE /\ n = 1 /\ rereads = 0 /\ pulled' = pulled /\ lines' = lines
        /\ n \in 1 .. Len(waiting)
        /\ Len(waiting) \in Nat /\ Len(waiting') = Len(waiting) - 1
    BY Taken
  <2>2. ASSUME NEW j \in 1 .. Len(waiting) - 1 PROVE waiting'[j] = waiting[j + 1]
    <3>1. waiting'[j] = waiting[IF j < n THEN j ELSE j + 1]
      BY Taken
    <3> QED
      BY <2>1, <3>1
  <2> QED
    BY <2>1, <2>2
<1>2. /\ Handled \in Nat /\ \A j \in 1 .. Len(waiting) : waiting[j] = Handled + j
      /\ combat.interdicted = TRUE =>
           pulled = TRUE \/ \E j \in 1 .. Len(waiting) : lines[waiting[j]].type = "End"
  BY <1>1 DEF InTurn
<1>3. Len(lines) \in Nat
  BY DEF CombatShape, Scene
<1>4. Handled' = Handled + 1
  BY <1>1, <1>3 DEF Handled
<1>5. waiting[n] = Handled'
  BY <1>1, <1>2, <1>4
<1>6. ASSUME NEW j \in 1 .. Len(waiting') PROVE waiting'[j] = Handled' + j
  <2>1. j \in 1 .. Len(waiting) - 1 /\ j + 1 \in 1 .. Len(waiting)
    BY <1>1
  <2>2. waiting'[j] = waiting[j + 1] /\ waiting[j + 1] = Handled + (j + 1)
    BY <1>1, <1>2, <2>1
  <2> QED
    BY <1>2, <1>4, <2>2
<1>7. ASSUME combat'.interdicted = TRUE, pulled # TRUE
      PROVE  \E j \in 1 .. Len(waiting') : lines[waiting'[j]].type = "End"
  <2>1. combat.interdicted = TRUE /\ lines[waiting[n]].type # "End"
    BY <1>7
  <2>2. PICK j \in 1 .. Len(waiting) : lines[waiting[j]].type = "End"
    BY <1>2, <1>7, <2>1
  <2>3. j # 1
    BY <1>1, <2>1, <2>2
  <2>4. j - 1 \in 1 .. Len(waiting') /\ waiting'[j - 1] = waiting[j]
    BY <1>1, <2>3
  <2> QED
    BY <2>2, <2>4
<1>8. Handled' \in Nat
  BY <1>2, <1>4
<1>9. (Handled' > 0 /\ lines'[Handled'].type = "Boundary") =>
        combat'.attacked = FALSE /\ combat'.mode = Missing
  BY <1>1, <1>5
<1>10. combat'.interdicted = TRUE =>
         pulled' = TRUE \/ \E j \in 1 .. Len(waiting') : lines'[waiting'[j]].type = "End"
  BY <1>1, <1>7
<1> QED
  BY <1>6, <1>8, <1>9, <1>10

LEMMA HandledOrdered ==
  ASSUME CombatShape, Ordered, NEW n \in DOMAIN waiting,
         HandleEnd(n) \/ HandleBoundary(n) \/ HandleFight(n)
  PROVE  Ordered'
<1>1. combat \in CombatStates
  BY DEF CombatShape, Handlers
<1>2. CASE HandleEnd(n)
  <2>1. combat' = [combat EXCEPT !.interdicted = FALSE] /\ guard' = Missing
    BY <1>2 DEF HandleEnd
  <2>2. combat'.interdicted = FALSE /\ FALSE # TRUE
    BY <1>1, <2>1 DEF CombatStates
  <2> QED
    BY <1>2, <2>1, <2>2, EndTyped, TakenInTurn DEF Ordered, GuardFollowsInterdiction
<1>3. CASE HandleBoundary(n)
  <2>1. /\ combat' = [combat EXCEPT !.attacked = FALSE, !.mode = Missing,
                                    !.interdicted = IF @ = TRUE THEN FALSE ELSE @]
        /\ guard' = IF combat.interdicted = TRUE THEN Missing ELSE guard
    BY <1>3 DEF HandleBoundary
  <2>2. combat'.interdicted # TRUE /\ combat'.attacked = FALSE /\ combat'.mode = Missing
    BY <1>1, <2>1 DEF CombatStates
  <2>3. guard' = Missing
    BY <2>1 DEF Ordered, GuardFollowsInterdiction
  <2> QED
    BY <1>3, <2>2, <2>3, BoundaryTyped, TakenInTurn DEF Ordered, GuardFollowsInterdiction
<1>4. CASE HandleFight(n)
  BY <1>4, FightTyped, TakenInTurn DEF Ordered, GuardFollowsInterdiction
<1> QED
  BY <1>2, <1>3, <1>4

-----------------------------------------------------------------------------
(* Every step keeps the encounters apart.                                  *)

\* It looks at the table and its writers only.
LEMMA TableAlone ==
  ASSUME Apart, UNCHANGED <<rows, writers, alone, edits>>
  PROVE  Apart'
  BY DEF Apart

LEMMA FewerWriters ==
  ASSUME CombatShape, Apart, NEW k \in DOMAIN writers, writers' = RemoveAt(writers, k),
         UNCHANGED <<rows, alone, edits>>
  PROVE  Apart'
<1> SUFFICES ASSUME alone = TRUE, edits = 0
             PROVE  /\ \A i, j \in 1 .. Len(writers') :
                         writers'[i].line = writers'[j].line => i = j
                    /\ \A j \in 1 .. Len(writers'), r \in 1 .. Len(rows) :
                         writers'[j].step = "insert" => rows[r].line # writers'[j].line
  BY DEF Apart
<1>1. /\ k \in 1 .. Len(writers) /\ Len(writers) \in Nat /\ Len(writers') = Len(writers) - 1
      /\ \A j \in 1 .. Len(writers) - 1 :
           writers'[j] = writers[IF j < k THEN j ELSE j + 1]
  BY WriterGone
<1>2. /\ \A i, j \in 1 .. Len(writers) : writers[i].line = writers[j].line => i = j
      /\ \A j \in 1 .. Len(writers), r \in 1 .. Len(rows) :
           writers[j].step = "insert" => rows[r].line # writers[j].line
  BY DEF Apart
<1>3. ASSUME NEW j \in 1 .. Len(writers')
      PROVE  /\ (IF j < k THEN j ELSE j + 1) \in 1 .. Len(writers)
             /\ writers'[j] = writers[IF j < k THEN j ELSE j + 1]
  BY <1>1
<1>4. ASSUME NEW i \in 1 .. Len(writers'), NEW j \in 1 .. Len(writers'),
             writers'[i].line = writers'[j].line
      PROVE  i = j
  <2>1. PICK a \in 1 .. Len(writers) :
          writers'[i] = writers[a] /\ a = (IF i < k THEN i ELSE i + 1)
    BY <1>3
  <2>2. PICK b \in 1 .. Len(writers) :
          writers'[j] = writers[b] /\ b = (IF j < k THEN j ELSE j + 1)
    BY <1>3
  <2>3. a = b
    BY <1>2, <1>4, <2>1, <2>2
  <2> QED
    BY <1>1, <2>1, <2>2, <2>3
<1> QED
  BY <1>2, <1>3, <1>4

LEMMA EndApart ==
  ASSUME CombatShape, Apart, NEW n \in DOMAIN waiting, HandleEnd(n)
  PROVE  Apart'
<1>1. Take(n)
  BY DEF HandleEnd
<1>2. UNCHANGED <<rows, edits>> /\ waiting[n] \in 1 .. Len(lines)
  BY <1>1, Taken
<1>3. CASE ~lines[waiting[n]].player
  <2>1. writers' = writers
    BY <1>3 DEF HandleEnd
  <2>2. alone' = TRUE => alone = TRUE
    BY Zenon DEF HandleEnd, CombatShape, Observed
  <2> QED
    BY <1>2, <2>1, <2>2 DEF Apart
<1>4. CASE lines[waiting[n]].player
  <2>1. alone' = (alone /\ \A k \in DOMAIN writers : writers[k].line # waiting[n])
    BY DEF HandleEnd
  <2>2. alone \in BOOLEAN
    BY DEF CombatShape, Observed
  <2>3. alone' = TRUE =>
          alone = TRUE /\ \A k \in DOMAIN writers : writers[k].line # waiting[n]
    BY <2>1, <2>2, Zenon
  <2> SUFFICES ASSUME alone' = TRUE, edits = 0
               PROVE  /\ \A r \in 1 .. Len(rows) : rows[r].edited = FALSE
                      /\ \A q, r \in 1 .. Len(rows) : rows[q].line = rows[r].line => q = r
                      /\ \A j, k \in 1 .. Len(writers') :
                           writers'[j].line = writers'[k].line => j = k
                      /\ \A k \in 1 .. Len(writers'), r \in 1 .. Len(rows) :
                           writers'[k].step = "insert" => rows[r].line # writers'[k].line
    BY <1>2 DEF Apart
  <2>4. /\ \A r \in 1 .. Len(rows) : rows[r].edited = FALSE
        /\ \A q, r \in 1 .. Len(rows) : rows[q].line = rows[r].line => q = r
        /\ \A j, k \in 1 .. Len(writers) : writers[j].line = writers[k].line => j = k
        /\ \A k \in 1 .. Len(writers), r \in 1 .. Len(rows) :
             writers[k].step = "insert" => rows[r].line # writers[k].line
    BY <2>3 DEF Apart
  <2>5. PICK S : S = [line : 1 .. Len(lines), step : {"check", "insert"}]
    OBVIOUS
  <2>6. PICK e : e = [line |-> waiting[n], step |-> "check"]
    OBVIOUS
  <2>7. writers \in Seq(S) /\ e \in S
    BY <1>2, <2>5, <2>6 DEF CombatShape, Table
  <2>8. writers' = Append(writers, e)
    BY <1>4, <2>6 DEF HandleEnd
  <2>9. /\ Len(writers) \in Nat /\ Len(writers') = Len(writers) + 1
        /\ \A k \in 1 .. Len(writers) : writers'[k] = writers[k]
        /\ writers'[Len(writers) + 1] = e
    BY <2>7, <2>8, Appended
  <2>10. \A k \in 1 .. Len(writers) : writers[k].line # e.line
    <3>1. DOMAIN writers = 1 .. Len(writers)
      BY <2>7
    <3> QED
      BY <2>3, <2>6, <3>1
  <2>11. e.step # "insert"
    BY <2>6
  <2>12. \A k \in 1 .. Len(writers') : k \in 1 .. Len(writers) \/ k = Len(writers) + 1
    BY <2>9
  <2>13. \A j, k \in 1 .. Len(writers') : writers'[j].line = writers'[k].line => j = k
    BY <2>4, <2>9, <2>10, <2>12
  <2>14. \A k \in 1 .. Len(writers'), r \in 1 .. Len(rows) :
           writers'[k].step = "insert" => rows[r].line # writers'[k].line
    BY <2>4, <2>9, <2>11, <2>12
  <2> QED
    BY <2>4, <2>13, <2>14
<1> QED
  BY <1>3, <1>4

LEMMA CheckApart ==
  ASSUME CombatShape, Apart, NEW k \in DOMAIN writers, Check(k)
  PROVE  Apart'
<1>1. UNCHANGED <<rows, alone, edits>> /\ writers[k].step = "check"
  BY DEF Check, Step, observed
<1>2. CASE Found(writers[k].line)
  BY <1>1, <1>2, FewerWriters DEF Check
<1>3. CASE ~Found(writers[k].line)
  <2> SUFFICES ASSUME alone = TRUE, edits = 0
               PROVE  /\ \A i, j \in 1 .. Len(writers') :
                           writers'[i].line = writers'[j].line => i = j
                      /\ \A j \in 1 .. Len(writers'), r \in 1 .. Len(rows) :
                           writers'[j].step = "insert" => rows[r].line # writers'[j].line
    BY <1>1 DEF Apart
  <2>1. writers' = [writers EXCEPT ![k].step = "insert"]
    BY <1>3 DEF Check
  <2>2. /\ k \in 1 .. Len(writers) /\ Len(writers') = Len(writers)
        /\ \A j \in 1 .. Len(writers) : writers'[j].line = writers[j].line
        /\ \A j \in 1 .. Len(writers) : j # k => writers'[j].step = writers[j].step
    BY <1>1, <2>1, WriterSteps
  <2>3. /\ \A r \in 1 .. Len(rows) : rows[r].edited = FALSE
        /\ \A i, j \in 1 .. Len(writers) : writers[i].line = writers[j].line => i = j
        /\ \A j \in 1 .. Len(writers), r \in 1 .. Len(rows) :
             writers[j].step = "insert" => rows[r].line # writers[j].line
    BY DEF Apart
  <2>4. ASSUME NEW r \in 1 .. Len(rows) PROVE rows[r].line # writers[k].line
    <3>1. PICK S : S = [line : 1 .. Len(lines), edited : BOOLEAN]
      OBVIOUS
    <3>2. rows \in Seq(S)
      BY <3>1 DEF CombatShape, Table
    <3>3. rows[r] \in S /\ r \in DOMAIN rows
      BY <3>2
    <3>4. rows[r] = [line |-> rows[r].line, edited |-> FALSE]
      BY <2>3, <3>1, <3>3
    <3> QED
      BY <1>3, <3>3, <3>4 DEF Found
  <2>5. \A i, j \in 1 .. Len(writers') : writers'[i].line = writers'[j].line => i = j
    BY <2>2, <2>3
  <2>6. ASSUME NEW j \in 1 .. Len(writers'), NEW r \in 1 .. Len(rows),
               writers'[j].step = "insert"
        PROVE  rows[r].line # writers'[j].line
    <3>1. CASE j = k
      BY <2>2, <2>4, <3>1
    <3>2. CASE j # k
      BY <2>2, <2>3, <2>6, <3>2
    <3> QED
      BY <3>1, <3>2
  <2> QED
    BY <2>5, <2>6
<1> QED
  BY <1>2, <1>3

LEMMA InsertApart ==
  ASSUME CombatShape, Apart, NEW k \in DOMAIN writers, Insert(k)
  PROVE  Apart'
<1>1. UNCHANGED <<alone, edits>> /\ writers[k].step = "insert" /\ writers' = RemoveAt(writers, k)
  BY DEF Insert, Step, observed
<1> SUFFICES ASSUME alone = TRUE, edits = 0
             PROVE  /\ \A r \in 1 .. Len(rows') : rows'[r].edited = FALSE
                    /\ \A q, r \in 1 .. Len(rows') : rows'[q].line = rows'[r].line => q = r
                    /\ \A i, j \in 1 .. Len(writers') :
                         writers'[i].line = writers'[j].line => i = j
                    /\ \A j \in 1 .. Len(writers'), r \in 1 .. Len(rows') :
                         writers'[j].step = "insert" => rows'[r].line # writers'[j].line
  BY <1>1 DEF Apart
<1>2. /\ k \in 1 .. Len(writers) /\ Len(writers) \in Nat /\ Len(writers') = Len(writers) - 1
      /\ \A j \in 1 .. Len(writers) - 1 :
           writers'[j] = writers[IF j < k THEN j ELSE j + 1]
  BY <1>1, WriterGone
<1>3. PICK l : l = writers[k].line
  OBVIOUS
<1>4. PICK e : e = [line |-> l, edited |-> FALSE]
  OBVIOUS
<1>5. /\ Len(rows) \in Nat /\ Len(rows') = Len(rows) + 1
      /\ \A r \in 1 .. Len(rows) : rows'[r] = rows[r]
      /\ rows'[Len(rows) + 1] = e
  BY <1>3, <1>4, InsertTyped
<1>6. /\ \A r \in 1 .. Len(rows) : rows[r].edited = FALSE
      /\ \A q, r \in 1 .. Len(rows) : rows[q].line = rows[r].line => q = r
      /\ \A i, j \in 1 .. Len(writers) : writers[i].line = writers[j].line => i = j
      /\ \A j \in 1 .. Len(writers), r \in 1 .. Len(rows) :
           writers[j].step = "insert" => rows[r].line # writers[j].line
  BY DEF Apart
<1>7. \A r \in 1 .. Len(rows) : rows[r].line # l
  BY <1>1, <1>2, <1>3, <1>6
<1>8. e.line = l /\ e.edited = FALSE
  BY <1>4
<1>9. \A r \in 1 .. Len(rows') : r \in 1 .. Len(rows) \/ r = Len(rows) + 1
  BY <1>5
<1>10. ASSUME NEW j \in 1 .. Len(writers')
       PROVE  /\ (IF j < k THEN j ELSE j + 1) \in 1 .. Len(writers)
              /\ writers'[j] = writers[IF j < k THEN j ELSE j + 1]
              /\ writers'[j].line # l
  <2>1. /\ (IF j < k THEN j ELSE j + 1) \in 1 .. Len(writers)
        /\ (IF j < k THEN j ELSE j + 1) # k
        /\ writers'[j] = writers[IF j < k THEN j ELSE j + 1]
    BY <1>2
  <2> QED
    BY <1>2, <1>3, <1>6, <2>1
<1>11. ASSUME NEW i \in 1 .. Len(writers'), NEW j \in 1 .. Len(writers'),
              writers'[i].line = writers'[j].line
       PROVE  i = j
  <2>1. PICK a \in 1 .. Len(writers) :
          writers'[i] = writers[a] /\ a = (IF i < k THEN i ELSE i + 1)
    BY <1>10
  <2>2. PICK b \in 1 .. Len(writers) :
          writers'[j] = writers[b] /\ b = (IF j < k THEN j ELSE j + 1)
    BY <1>10
  <2>3. a = b
    BY <1>6, <1>11, <2>1, <2>2
  <2> QED
    BY <1>2, <2>1, <2>2, <2>3
<1>12. ASSUME NEW j \in 1 .. Len(writers'), NEW r \in 1 .. Len(rows'),
              writers'[j].step = "insert"
       PROVE  rows'[r].line # writers'[j].line
  <2>3. PICK b \in 1 .. Len(writers) : b # k /\ writers'[j] = writers[b]
    BY <1>10
  <2>1. CASE r \in 1 .. Len(rows)
    BY <1>5, <1>6, <1>12, <2>1, <2>3
  <2>2. CASE r = Len(rows) + 1
    BY <1>5, <1>8, <1>10, <2>2
  <2> QED
    BY <1>9, <2>1, <2>2
<1>13. \A r \in 1 .. Len(rows') : rows'[r].edited = FALSE
  BY <1>5, <1>6, <1>8, <1>9
<1>14. \A q, r \in 1 .. Len(rows') : rows'[q].line = rows'[r].line => q = r
  BY <1>5, <1>6, <1>7, <1>8, <1>9
<1> QED
  BY <1>11, <1>12, <1>13, <1>14

-----------------------------------------------------------------------------
(* The specification.                                                      *)

LEMMA CombatStart == CombatInit => CombatInv
<1> SUFFICES ASSUME CombatInit PROVE CombatInv
  OBVIOUS
<1>1. Scene /\ Handlers /\ Edges /\ Table /\ Observed
  <2>1. Scene /\ Len(lines) = 0
    <3>1. /\ script \in [lines : Nat, rereads : Nat, edits : Nat] /\ script.lines \in Nat
          /\ lines = <<>> /\ pulled = FALSE
      BY ScriptsAssumption DEF CombatInit
    <3>2. <<>> \in Seq(Line) /\ Len(<<>>) = 0 /\ 0 <= script.lines
      BY <3>1
    <3>3. lines \in Seq(Line) /\ Len(lines) = 0 /\ Len(lines) <= script.lines
      BY <3>1, <3>2
    <3> QED
      BY <3>1, <3>3, Zenon DEF Scene
  <2>2. Handlers
    BY DEF CombatInit, NoCombat, Handlers, CombatStates
  <2>3. rising = 0 /\ lastFlag = Missing
    BY DEF CombatInit
  <2>4. Edges
    BY <2>1, <2>3 DEF Edges
  <2>5. Table /\ Observed
    BY DEF CombatInit, Table, Observed
  <2> QED
    BY <2>1, <2>2, <2>4, <2>5
<1>2. GuardFollowsInterdiction /\ Apart
  BY DEF CombatInit, GuardFollowsInterdiction, Apart
<1>3. lines = <<>> /\ waiting = <<>> /\ combat = NoCombat
  BY DEF CombatInit
<1>4. Handled = 0 /\ Len(waiting) = 0 /\ combat.interdicted = Missing
  BY <1>3 DEF Handled, NoCombat
<1>5. Missing # TRUE
  BY MissingAssumption
<1>6. InTurn
  <2>1. Handled \in Nat /\ ~(Handled > 0) /\ \A n \in 1 .. Len(waiting) : FALSE
    BY <1>4
  <2>2. combat.interdicted # TRUE
    BY <1>4, <1>5
  <2> QED
    BY <2>1, <2>2, Zenon DEF InTurn
<1> QED
  BY <1>1, <1>2, <1>6 DEF CombatInv

LEMMA JournalStep ==
  ASSUME CombatInv,
         \/ \E player \in BOOLEAN : EndPull(player)
         \/ \E line \in Line : Fight(line)
         \/ Leave
  PROVE  CombatInv'
<1>1. PICK line \in Line :
        Logged(line) /\ pulled' \in BOOLEAN /\ (pulled' = pulled \/ line.type = "End")
  <2>1. pulled \in BOOLEAN
    BY DEF CombatInv, Scene
  <2>2. CASE \E player \in BOOLEAN : EndPull(player)
    <3>1. PICK player \in BOOLEAN : EndPull(player)
      BY <2>2
    <3>2. PICK l : l = [type |-> "End", player |-> player]
      OBVIOUS
    <3>3. l \in Line /\ l.type = "End"
      BY <3>2 DEF Line
    <3>4. Logged(l) /\ pulled' = FALSE
      BY <3>1, <3>2 DEF EndPull
    <3> QED
      BY <3>3, <3>4
  <2>3. CASE \E line \in Line : Fight(line)
    BY <2>1, <2>3 DEF Fight
  <2>4. CASE Leave
    <3>1. PICK l : l = [type |-> "Boundary"]
      OBVIOUS
    <3>2. l \in Line
      BY <3>1 DEF Line
    <3>3. Logged(l) /\ pulled' = pulled
      BY <2>4, <3>1 DEF Leave
    <3> QED
      BY <2>1, <3>2, <3>3
  <2> QED
    BY <2>2, <2>3, <2>4
<1>2. CombatShape'
  BY <1>1, LoggedTyped DEF CombatInv, CombatShape
<1>3. Ordered'
  BY <1>1, LoggedOrdered DEF CombatInv, CombatShape, Ordered
<1>4. Apart'
  BY <1>1, TableAlone DEF CombatInv, Logged, database, observed
<1> QED
  BY <1>2, <1>3, <1>4 DEF CombatInv, CombatShape, Ordered

LEMMA CombatStep == CombatInv /\ [CombatNext]_combatVars => CombatInv'
<1> SUFFICES ASSUME CombatInv, [CombatNext]_combatVars PROVE CombatInv'
  OBVIOUS
<1>0. CombatShape /\ Ordered /\ Apart
  BY DEF CombatInv, CombatShape, Ordered
<1>1. CASE \/ \E player \in BOOLEAN : EndPull(player)
           \/ \E line \in Line : Fight(line)
           \/ Leave
  BY <1>1, JournalStep
<1>2. CASE Pull
  <2>1. Ordered'
    BY <1>0, <1>2 DEF Pull, workflow, observed, Ordered, GuardFollowsInterdiction, InTurn, Handled
  <2>2. Apart'
    BY <1>0, <1>2, TableAlone DEF Pull, database, observed
  <2> QED
    BY <1>0, <1>2, <2>1, <2>2, PullTyped DEF CombatInv, CombatShape, Ordered
<1>3. CASE PollFlag
  <2>1. /\ UNCHANGED <<pulled, lines, waiting, combat, guard, inOrder, rereads>>
        /\ UNCHANGED <<rows, writers, alone, edits>>
    BY <1>3 DEF PollFlag, scene, workflow, database, observed
  <2> QED
    BY <1>0, <1>3, <2>1, PollTyped, Elsewhere, TableAlone DEF CombatInv, CombatShape, Ordered
<1>4. CASE Restart
  <2>1. Apart'
    BY <1>0, <1>4 DEF Restart, Apart
  <2> QED
    BY <1>0, <1>4, <2>1, RestartTyped, RereadOrdered DEF CombatInv, CombatShape, Ordered
<1>5. CASE Reread
  <2>1. UNCHANGED <<rows, writers, alone, edits>>
    BY <1>5 DEF Reread, database
  <2> QED
    BY <1>0, <1>5, <2>1, RereadTyped, RereadOrdered, TableAlone DEF CombatInv, CombatShape, Ordered
<1>6. CASE HandleRising
  <2>1. UNCHANGED <<rows, writers, alone, edits>>
    BY <1>6 DEF HandleRising, database
  <2> QED
    BY <1>0, <1>6, <2>1, RisingTyped, RisingOrdered, TableAlone DEF CombatInv, CombatShape, Ordered
<1>7. ASSUME NEW n \in DOMAIN waiting, HandleEnd(n) \/ HandleBoundary(n) \/ HandleFight(n)
      PROVE  CombatInv'
  <2>1. Ordered'
    BY <1>0, <1>7, HandledOrdered
  <2>2. CASE HandleEnd(n)
    BY <1>0, <2>1, <2>2, EndTyped, EndApart DEF CombatInv, CombatShape, Ordered
  <2>3. CASE HandleBoundary(n)
    <3>1. CombatShape' /\ Take(n) /\ UNCHANGED <<writers, alone>>
      BY <1>0, <2>3, BoundaryTyped DEF HandleBoundary
    <3> QED
      BY <1>0, <2>1, <3>1, Taken, TableAlone DEF CombatInv, CombatShape, Ordered
  <2>4. CASE HandleFight(n)
    <3>1. CombatShape' /\ Take(n) /\ UNCHANGED <<writers, alone>>
      BY <1>0, <2>4, FightTyped
    <3> QED
      BY <1>0, <2>1, <3>1, Taken, TableAlone DEF CombatInv, CombatShape, Ordered
  <2> QED
    BY <1>7, <2>2, <2>3, <2>4
<1>8. ASSUME NEW id \in pending, Respond(id) PROVE CombatInv'
  <2>1. /\ UNCHANGED <<pulled, lines, waiting, combat, guard, inOrder, rereads>>
        /\ UNCHANGED <<rows, writers, alone, edits>>
    BY <1>8 DEF Respond, scene, database, observed
  <2> QED
    BY <1>0, <1>8, <2>1, RespondTyped, Elsewhere, TableAlone DEF CombatInv, CombatShape, Ordered
<1>9. ASSUME NEW k \in DOMAIN writers, Check(k) \/ Insert(k) \/ DatabaseFails(k)
      PROVE  CombatInv'
  <2>1. /\ UNCHANGED <<pulled, lines, waiting, combat, guard, inOrder, rereads>>
        /\ UNCHANGED <<alone, edits>>
    BY <1>9 DEF Check, Insert, DatabaseFails, Step, scene, workflow, observed
  <2>2. Ordered'
    BY <1>0, <2>1, Elsewhere
  <2>3. CASE Check(k)
    BY <1>0, <2>2, <2>3, CheckTyped, CheckApart DEF CombatInv, CombatShape, Ordered
  <2>4. CASE Insert(k)
    BY <1>0, <2>2, <2>4, InsertTyped, InsertApart DEF CombatInv, CombatShape, Ordered
  <2>5. CASE DatabaseFails(k)
    <3>1. Apart'
      BY <1>0, <2>1, <2>5, FewerWriters DEF DatabaseFails
    <3> QED
      BY <1>0, <2>2, <2>5, <3>1, FailTyped DEF CombatInv, CombatShape, Ordered
  <2> QED
    BY <1>9, <2>3, <2>4, <2>5
<1>10. ASSUME NEW r \in DOMAIN rows, Edit(r) \/ Delete(r) PROVE CombatInv'
  <2>1. UNCHANGED <<pulled, lines, waiting, combat, guard, inOrder, rereads>>
    BY <1>10 DEF Edit, Delete, Commander, scene, workflow, observed
  <2>2. CombatShape' /\ edits' > 0
    BY <1>0, <1>10, CommanderTyped
  <2>3. Apart'
    BY <2>2 DEF Apart
  <2> QED
    BY <1>0, <2>1, <2>2, <2>3, Elsewhere DEF CombatInv, CombatShape, Ordered
<1>11. CASE UNCHANGED combatVars
  BY <1>11
  DEF combatVars, scene, workflow, database, observed, CombatInv, Scene, Handlers, Edges,
      Table, Observed, GuardFollowsInterdiction, InTurn, Handled, Apart
<1> QED
  BY <1>1, <1>2, <1>3, <1>4, <1>5, <1>6, <1>7, <1>8, <1>9, <1>10, <1>11 DEF CombatNext

\* The inductive invariant of combat_state.py, the proposal guard of handlers.py and the
\* encounter writer of pvp_encounter.py, for every journal and every number of restarts.
THEOREM CombatInductive == CombatSpec => []CombatInv
<1>1. CombatInit => CombatInv
  BY CombatStart
<1>2. CombatInv /\ [CombatNext]_combatVars => CombatInv'
  BY CombatStep
<1> QED
  BY <1>1, <1>2, PTL DEF CombatSpec

\* Type correctness; of the flag that status_reader.py follows, at most one rise more than
\* the journal has lines is waiting for handle_being_interdicted.
THEOREM CombatTyped == CombatSpec => []CombatTypeOK
<1>1. CombatInv => CombatTypeOK
  <2> SUFFICES ASSUME CombatInv PROVE CombatTypeOK
    OBVIOUS
  <2>1. /\ pulled \in BOOLEAN /\ lastFlag \in BOOLEAN \cup {Missing}
        /\ rising \in 0 .. script.lines + 1
    BY DEF CombatInv, Scene, Edges
  <2>2. /\ lines \in Seq(Line) /\ Len(lines) <= script.lines
        /\ DOMAIN lines = 1 .. Len(lines)
    BY DEF CombatInv, Scene
  <2>3. \A n \in DOMAIN waiting : waiting[n] \in DOMAIN lines
    BY <2>2 DEF CombatInv, Handlers
  <2>4. /\ combat \in CombatStates
        /\ guard \in (0 .. nextId) \cup {Missing} /\ pending \subseteq 0 .. nextId
    BY DEF CombatInv, Handlers
  <2>5. PICK W : W = [line : DOMAIN lines, step : {"check", "insert"}]
    OBVIOUS
  <2>6. PICK R : R = [line : DOMAIN lines, edited : BOOLEAN]
    OBVIOUS
  <2>7. writers \in Seq(W) /\ rows \in Seq(R)
    BY <2>2, <2>5, <2>6 DEF CombatInv, Table
  <2>8. \A n \in DOMAIN writers : writers[n] \in W
    BY <2>7
  <2>9. \A n \in DOMAIN rows : rows[n] \in R
    BY <2>7
  <2> QED
    BY <2>1, <2>2, <2>3, <2>4, <2>5, <2>6, <2>8, <2>9 DEF CombatTypeOK, CombatStates
<1> QED
  BY <1>1, CombatInductive, PTL

\* combat_state.py, handlers.py: the proposal guard is only held for an interdiction that
\* is shown; and once everything has been handled in order, an interdiction is only shown
\* while there is one, and what the last session boundary cleared is clear.
THEOREM GuardIsReleased == CombatSpec => []InterdictionSettles
<1>1. CombatInv => InterdictionSettles
  <2> SUFFICES ASSUME CombatInv, rising = 0, waiting = <<>>, inOrder = TRUE, rereads = 0
               PROVE  /\ combat.interdicted = TRUE => pulled = TRUE
                      /\ (lines # <<>> /\ Last(lines).type = "Boundary") =>
                           combat.attacked = FALSE /\ combat.mode = Missing
    <3>1. ASSUME CombatInv PROVE inOrder \in BOOLEAN /\ pulled \in BOOLEAN
      BY <3>1 DEF CombatInv, Observed, Scene
    <3> QED
      BY <3>1, Zenon DEF InterdictionSettles, CombatSettles, CombatInv
  <2>1. lines \in Seq(Line) /\ Len(waiting) = 0
    BY DEF CombatInv, Scene
  <2>2. Handled = Len(lines) /\ \A n \in 1 .. Len(waiting) : FALSE
    BY <2>1 DEF Handled
  <2>3. /\ combat.interdicted = TRUE =>
             pulled = TRUE \/ \E n \in 1 .. Len(waiting) : lines[waiting[n]].type = "End"
        /\ (Handled > 0 /\ lines[Handled].type = "Boundary") =>
             combat.attacked = FALSE /\ combat.mode = Missing
    BY DEF CombatInv, InTurn
  <2>4. lines # <<>> => Handled > 0 /\ Last(lines) = lines[Handled]
    BY <2>1, <2>2 DEF Last
  <2> QED
    BY <2>2, <2>3, <2>4
<1> QED
  BY <1>1, CombatInductive, PTL

\* pvp_encounter.py: however often the journal is read and whenever the process dies, an
\* interdiction by a player that the commander has not edited is in the table at most
\* once, unless two of its handlers overlapped.
THEOREM EncounterIsOnce == CombatSpec => []EncounterOnce
<1>1. CombatInv => EncounterOnce
  <2> SUFFICES ASSUME CombatInv, alone = TRUE, edits = 0, NEW n \in DOMAIN lines
               PROVE  Copies(n) <= 1
    <3>1. ASSUME CombatInv PROVE alone \in BOOLEAN
      BY <3>1 DEF CombatInv, Observed
    <3> QED
      BY <3>1, Zenon DEF EncounterOnce
  <2>1. PICK C : C = {r \in DOMAIN rows : rows[r].line = n}
    OBVIOUS
  <2>2. DOMAIN rows = 1 .. Len(rows)
    BY DEF CombatInv, Table
  <2>3. \A q, r \in C : q = r
    BY <2>1, <2>2 DEF CombatInv, Apart
  <2>4. CASE C = {}
    BY <2>1, <2>4, FS_EmptySet DEF Copies
  <2>5. CASE C # {}
    <3>1. PICK r : C = {r}
      BY <2>3, <2>5
    <3>2. Cardinality(C) = 1
      BY <3>1, FS_Singleton
    <3> QED
      BY <2>1, <3>2 DEF Copies
  <2> QED
    BY <2>4, <2>5
<1> QED
  BY <1>1, CombatInductive, PTL

-----------------------------------------------------------------------------
(* The ship.  Its inductive invariant.                                     *)

\* What a field may hold when it is not empty.
Values(f) == IF f \in {"ship", "name"} THEN Ships ELSE IF f = "cargo" THEN Cargo ELSE Fit

WellFormed(s) ==
  s = [f \in ShipFields |-> s[f]] /\ \A f \in ShipFields : s[f] \in Values(f) \cup {Missing}

ShipTyped ==
  /\ flown \in Fit /\ hold \in Cargo /\ told \subseteq ShipFields
  /\ lines \in Seq(ShipLine) /\ Len(lines) <= MaxLines
  /\ waiting \in Seq(1 .. Len(lines))
  /\ WellFormed(known) /\ inOrder \in BOOLEAN

\* The fields that the handler of a line writes, and what it writes in them.
WritesOf(e) ==
  CASE e.type = "LoadGame" -> {"ship", "name"} \ e.omits
    [] e.type = "Loadout" -> ({"ship"} \cup Described) \ e.omits
    [] e.type = "ShipyardSwap" -> {"ship"} \cup Cleared
    [] e.type = "ShipDestroyed" -> {"ship", "hull", "modules"}
    [] e.type = "Cargo" -> {"cargo"}

Writes(e, f) ==
  CASE e.type = "LoadGame" -> e.ship
    [] e.type = "Loadout" -> IF f \in {"ship", "name"} THEN e.fit.ship ELSE e.fit
    [] e.type = "ShipyardSwap" -> IF f = "ship" THEN e.ship ELSE Missing
    [] e.type = "ShipDestroyed" -> Missing
    [] e.type = "Cargo" -> e.cargo

\* A line that leaves field f right, if it was.
Harmless(e, f) == f \in WritesOf(e) => Writes(e, f) = Actual(f)

\* Line d makes field f right, and nothing after it makes it wrong.
RightFrom(d, f) ==
  f \in WritesOf(lines[d]) /\ \A n \in d .. Len(lines) : Harmless(lines[n], f)

\* Once the line that told of a field is handled, no request and no later line, and
\* no line that a request has read ahead of its handler, makes the field wrong.
ToldHolds ==
  \A f \in told :
    \E d \in 1 .. Len(lines) :
      RightFrom(d, f) /\ ((inOrder = TRUE /\ d <= Handled) => known[f] = Actual(f))

\* The fields that nothing but a line which tells of them fills.
Filled == Described \cup {"cargo"}

\* Line n tells of field f, and none that has been handled since does.
LatestFrom(n, f) ==
  /\ Tells(lines[n], f)
  /\ inOrder = TRUE => \A k \in (n + 1) .. Handled : ~Tells(lines[k], f)

\* A field is empty, or says what a line has told that no handled one has told otherwise.
LatestHolds ==
  \A f \in Filled :
    \/ known[f] = Missing
    \/ \E n \in 1 .. Len(lines) : LatestFrom(n, f) /\ known[f] = Writes(lines[n], f)

ShipInv == ShipTyped /\ Queued /\ ToldHolds /\ LatestHolds

LEMMA KindsOfLine ==
  ASSUME NEW e \in ShipLine
  PROVE  \/ e.type = "LoadGame" /\ e.ship \in Ships /\ e.omits \in Omissions
         \/ e.type = "ShipyardSwap" /\ e.ship \in Ships
         \/ e.type = "Loadout" /\ e.fit \in Fit /\ e.omits \in Omissions
         \/ e.type = "ShipDestroyed"
         \/ e.type = "Cargo" /\ e.cargo \in Cargo
  BY DEF ShipLine

LEMMA FitHasShip == ASSUME NEW fit \in Fit PROVE fit.ship \in Ships
  BY DEF Fit

\* The names of the fields.
LEMMA FieldNames ==
  /\ {"ship", "name", "hull", "modules", "cargo"} \subseteq ShipFields
  /\ Described \subseteq ShipFields /\ Cleared \subseteq Described /\ Filled \subseteq ShipFields
  /\ "ship" \notin Filled /\ "cargo" \notin Described /\ {"name", "hull", "modules"} \subseteq Described
  /\ ShipFields = {"ship", "cargo"} \cup Described
  BY DEF ShipFields, Filled, Described, Cleared, Figures

\* What each line leaves in each field.
LEMMA UpdatedFields ==
  ASSUME NEW s, WellFormed(s), NEW e \in ShipLine, NEW f \in ShipFields
  PROVE  Updated(s, e)[f] = IF f \in WritesOf(e) THEN Writes(e, f) ELSE s[f]
<1>1. s = [g \in ShipFields |-> s[g]]
  BY DEF WellFormed
<1>2. CASE e.type = "LoadGame"
  <2>1. /\ Updated(s, e) = Boarded(s, e) /\ Writes(e, f) = e.ship
        /\ WritesOf(e) = {"ship", "name"} \ e.omits
    BY <1>2 DEF Updated, WritesOf, Writes
  <2> QED
    BY <2>1 DEF Boarded
<1>3. CASE e.type = "ShipyardSwap"
  <2>1. /\ Updated(s, e) = Swapped(s, e.ship)
        /\ Writes(e, f) = IF f = "ship" THEN e.ship ELSE Missing
        /\ WritesOf(e) = {"ship"} \cup Cleared
    BY <1>3 DEF Updated, WritesOf, Writes
  <2> QED
    BY <2>1 DEF Swapped
<1>4. CASE e.type = "Loadout"
  <2>1. /\ Updated(s, e) = Loaded(s, e)
        /\ Writes(e, f) = IF f \in {"ship", "name"} THEN e.fit.ship ELSE e.fit
        /\ WritesOf(e) = ({"ship"} \cup Described) \ e.omits
    BY <1>4 DEF Updated, WritesOf, Writes
  <2>2. f \in {"cargo"} \cup e.omits <=> f \notin WritesOf(e)
    BY <2>1, FieldNames
  <2> QED
    BY <2>1, <2>2 DEF Loaded
<1>5. CASE e.type = "ShipDestroyed"
  <2>1. /\ Updated(s, e) = Wrecked(s) /\ Writes(e, f) = Missing
        /\ WritesOf(e) = {"ship", "hull", "modules"}
    BY <1>5 DEF Updated, WritesOf, Writes
  <2> QED
    BY <1>1, <2>1, FieldNames DEF Wrecked
<1>6. CASE e.type = "Cargo"
  <2>1. /\ Updated(s, e) = [s EXCEPT !["cargo"] = e.cargo] /\ Writes(e, f) = e.cargo
        /\ WritesOf(e) = {"cargo"}
    BY <1>6 DEF Updated, WritesOf, Writes
  <2> QED
    BY <1>1, <2>1, FieldNames
<1> QED
  BY KindsOfLine, <1>2, <1>3, <1>4, <1>5, <1>6

LEMMA WroteTyped ==
  ASSUME NEW e \in ShipLine, NEW f \in ShipFields, f \in WritesOf(e)
  PROVE  Writes(e, f) \in Values(f) \cup {Missing}
<1>1. /\ f \in {"ship", "name"} => Values(f) = Ships
      /\ f = "cargo" => Values(f) = Cargo
      /\ f \notin {"ship", "name", "cargo"} => Values(f) = Fit
  BY DEF Values
<1>2. CASE e.type = "LoadGame"
  BY <1>1, <1>2, KindsOfLine DEF WritesOf, Writes
<1>3. CASE e.type = "ShipyardSwap"
  BY <1>1, <1>3, KindsOfLine DEF Writes
<1>4. CASE e.type = "Loadout"
  <2>1. e.fit \in Fit /\ e.fit.ship \in Ships
    BY <1>4, KindsOfLine, FitHasShip
  <2>2. f # "cargo"
    BY <1>4, FieldNames DEF WritesOf
  <2> QED
    BY <1>1, <1>4, <2>1, <2>2 DEF Writes
<1>5. CASE e.type = "ShipDestroyed"
  BY <1>5 DEF Writes
<1>6. CASE e.type = "Cargo"
  BY <1>1, <1>6, KindsOfLine DEF WritesOf, Writes
<1> QED
  BY KindsOfLine, <1>2, <1>3, <1>4, <1>5, <1>6

LEMMA UpdatedWellFormed ==
  ASSUME NEW s, WellFormed(s), NEW e \in ShipLine
  PROVE  WellFormed(Updated(s, e))
<1>1. ASSUME NEW f \in ShipFields
      PROVE  Updated(s, e)[f] \in Values(f) \cup {Missing}
  BY UpdatedFields, WroteTyped DEF WellFormed
<1>2. Updated(s, e) = [f \in ShipFields |-> Updated(s, e)[f]]
  <2>1. s = [f \in ShipFields |-> s[f]]
    BY DEF WellFormed
  <2> QED
    BY <2>1, KindsOfLine DEF Updated, Boarded, Swapped, Loaded, Wrecked
<1> QED
  BY <1>1, <1>2 DEF WellFormed

\* A scan tells of what the handlers write, and what they write else is a blank.
LEMMA TellsWrites ==
  ASSUME NEW e \in ShipLine, NEW f
  PROVE  /\ Tells(e, f) => f \in ShipFields /\ f \in WritesOf(e)
         /\ (f \in Filled /\ f \in WritesOf(e) /\ ~Tells(e, f)) => Writes(e, f) = Missing
<1>1. CASE e.type = "LoadGame"
  BY <1>1, FieldNames DEF Tells, WritesOf
<1>2. CASE e.type = "ShipyardSwap"
  BY <1>2, FieldNames DEF Tells, Writes
<1>3. CASE e.type = "Loadout"
  BY <1>3, FieldNames DEF Tells, WritesOf
<1>4. CASE e.type = "ShipDestroyed"
  BY <1>4 DEF Tells, Writes
<1>5. CASE e.type = "Cargo"
  BY <1>5, FieldNames DEF Tells, WritesOf
<1> QED
  BY KindsOfLine, <1>1, <1>2, <1>3, <1>4, <1>5

\* What a request finds in the journal is what the line that tells of it last writes.
LEMMA ScannedLast ==
  ASSUME lines \in Seq(ShipLine), NEW f \in ShipFields
  PROVE  \/ Scanned(f) = Missing /\ LastTold(f) = {}
         \/ \E n \in 1 .. Len(lines) :
              /\ Tells(lines[n], f) /\ Scanned(f) = Writes(lines[n], f)
              /\ \A k \in (n + 1) .. Len(lines) : ~Tells(lines[k], f)
<1>1. CASE LastTold(f) # {}
  <2>1. PICK n \in LastTold(f) : Scanned(f) = Updated(NothingKnown, lines[n])[f]
    BY <1>1 DEF Scanned
  <2>2. /\ n \in 1 .. Len(lines) /\ lines[n] \in ShipLine /\ Tells(lines[n], f)
        /\ \A k \in (n + 1) .. Len(lines) : ~Tells(lines[k], f)
    BY <2>1 DEF LastTold
  <2>3. WellFormed(NothingKnown)
    BY DEF WellFormed, NothingKnown
  <2>4. Scanned(f) = Writes(lines[n], f)
    BY <2>1, <2>2, <2>3, UpdatedFields, TellsWrites
  <2> QED
    BY <2>2, <2>4
<1> QED
  BY <1>1 DEF Scanned

LEMMA Repaired ==
  ASSUME ShipTyped, Hydrate
  PROVE  /\ WellFormed(known')
         /\ \A f \in ShipFields :
              known'[f] = IF known[f] = Missing THEN Scanned(f) ELSE known[f]
<1>1. known' = [f \in ShipFields |-> IF known[f] = Missing THEN Scanned(f) ELSE known[f]]
  BY DEF Hydrate, Hydrated
<1>2. lines \in Seq(ShipLine) /\ \A f \in ShipFields : known[f] \in Values(f) \cup {Missing}
  BY DEF ShipTyped, WellFormed
<1>3. ASSUME NEW f \in ShipFields PROVE Scanned(f) \in Values(f) \cup {Missing}
  <2>1. ASSUME NEW n \in 1 .. Len(lines), Tells(lines[n], f), Scanned(f) = Writes(lines[n], f)
        PROVE  Scanned(f) \in Values(f) \cup {Missing}
    <3>1. lines[n] \in ShipLine
      BY <1>2
    <3> QED
      BY <2>1, <3>1, TellsWrites, WroteTyped
  <2> QED
    BY <1>2, <2>1, ScannedLast
<1> QED
  BY <1>1, <1>2, <1>3 DEF WellFormed

-----------------------------------------------------------------------------
(* The steps of the game: the journal grows, and what waits grows with it. *)

LEMMA Reported ==
  ASSUME ShipTyped, NEW line \in ShipLine, Report(line)
  PROVE  /\ lines' \in Seq(ShipLine) /\ Len(lines') <= MaxLines
         /\ Len(lines) \in Nat /\ Len(lines') = Len(lines) + 1
         /\ \A n \in 1 .. Len(lines) : lines'[n] = lines[n]
         /\ lines'[Len(lines) + 1] = line
         /\ waiting' \in Seq(1 .. Len(lines')) /\ Len(waiting) \in Nat
         /\ Handled' = Handled /\ UNCHANGED <<known, inOrder>>
         /\ Queued => Queued'
<1>1. lines \in Seq(ShipLine) /\ waiting \in Seq(1 .. Len(lines))
  BY DEF ShipTyped
<1>2. Enter(line) /\ Len(lines) < MaxLines /\ UNCHANGED known
  BY DEF Report
<1>3. Len(lines) \in Nat /\ Len(lines') = Len(lines) + 1
  BY <1>1, <1>2, Entered
<1>4. Len(lines') <= MaxLines
  BY <1>2, <1>3, ShipAssumption
<1> QED
  BY <1>1, <1>2, <1>4, Entered

\* A field is told by the new line, or it was by an earlier one and this one leaves it be.
StillTold(line, f) ==
  /\ Harmless(line, f)'
  /\ f \in WritesOf(line) \/ (f \in told /\ Actual(f)' = Actual(f))

LEMMA ToldKept ==
  ASSUME ShipTyped, ToldHolds, NEW line \in ShipLine, Report(line),
         \A f \in told' : StillTold(line, f)
  PROVE  ToldHolds'
<1>1. /\ Len(lines) \in Nat /\ Len(lines') = Len(lines) + 1
      /\ \A n \in 1 .. Len(lines) : lines'[n] = lines[n]
      /\ lines'[Len(lines) + 1] = line /\ Len(waiting) \in Nat
      /\ Handled' = Handled /\ UNCHANGED <<known, inOrder>>
  BY Reported
<1>2. ASSUME NEW f \in told'
      PROVE  \E d \in 1 .. Len(lines') :
               RightFrom(d, f)' /\ ((inOrder' = TRUE /\ d <= Handled') => known'[f] = Actual(f)')
  <2>1. Harmless(line, f)' /\ (f \in WritesOf(line) \/ (f \in told /\ Actual(f)' = Actual(f)))
    BY <1>2 DEF StillTold
  <2>2. CASE f \in WritesOf(line)
    <3>1. PICK d : d = Len(lines) + 1
      OBVIOUS
    <3>2. d \in 1 .. Len(lines') /\ \A n \in d .. Len(lines') : n = d
      BY <1>1, <3>1
    <3>3. RightFrom(d, f)'
      BY <1>1, <2>1, <2>2, <3>1, <3>2 DEF RightFrom
    <3>4. ~(d <= Handled')
      BY <1>1, <3>1 DEF Handled
    <3> QED
      BY <3>2, <3>3, <3>4
  <2>3. CASE f \in told /\ Actual(f)' = Actual(f)
    <3>1. PICK d \in 1 .. Len(lines) :
            RightFrom(d, f) /\ ((inOrder = TRUE /\ d <= Handled) => known[f] = Actual(f))
      BY <2>3 DEF ToldHolds
    <3>2. d \in 1 .. Len(lines') /\ lines'[d] = lines[d]
      BY <1>1
    <3>3. ASSUME NEW n \in d .. Len(lines') PROVE Harmless(lines[n], f)' 
      <4>1. CASE n = Len(lines) + 1
        BY <1>1, <2>1, <4>1 DEF Harmless
      <4>2. CASE n # Len(lines) + 1
        <5>1. n \in d .. Len(lines) /\ n \in 1 .. Len(lines)
          BY <1>1, <4>2
        <5>2. Harmless(lines[n], f) /\ lines'[n] = lines[n]
          BY <1>1, <3>1, <5>1 DEF RightFrom
        <5> QED
          BY <2>3, <5>2 DEF Harmless
      <4> QED
        BY <4>1, <4>2
    <3>4. RightFrom(d, f)'
      BY <3>1, <3>2, <3>3 DEF RightFrom
    <3> QED
      BY <1>1, <2>3, <3>1, <3>2, <3>4
  <2> QED
    BY <2>1, <2>2, <2>3
<1> QED
  BY <1>2 DEF ToldHolds

LEMMA LatestKept ==
  ASSUME ShipTyped, Queued, LatestHolds, NEW line \in ShipLine, Report(line)
  PROVE  LatestHolds'
<1>1. /\ Len(lines) \in Nat /\ Len(lines') = Len(lines) + 1 /\ Len(waiting) \in Nat
      /\ \A n \in 1 .. Len(lines) : lines'[n] = lines[n]
      /\ Handled' = Handled /\ UNCHANGED <<known, inOrder>>
  BY Reported
<1>2. ASSUME NEW f \in Filled, known'[f] # Missing
      PROVE  \E n \in 1 .. Len(lines') : LatestFrom(n, f)' /\ known'[f] = Writes(lines'[n], f)
  <2>1. PICK n \in 1 .. Len(lines) : LatestFrom(n, f) /\ known[f] = Writes(lines[n], f)
    BY <1>1, <1>2 DEF LatestHolds
  <2>2. n \in 1 .. Len(lines') /\ lines'[n] = lines[n]
    BY <1>1
  <2>3. ASSUME inOrder' = TRUE, NEW k \in (n + 1) .. Handled' PROVE ~Tells(lines'[k], f)
    <3>1. k \in (n + 1) .. Handled /\ k \in 1 .. Len(lines)
      BY <1>1, <2>3 DEF Handled
    <3> QED
      BY <1>1, <2>1, <2>3, <3>1 DEF LatestFrom
  <2>4. LatestFrom(n, f)'
    BY <2>1, <2>2, <2>3 DEF LatestFrom
  <2> QED
    BY <1>1, <2>1, <2>2, <2>4
<1> QED
  BY <1>2 DEF LatestHolds

LEMMA LogInStep ==
  ASSUME ShipInv, NEW omits \in Omissions, LogIn(omits) PROVE ShipInv'
<1>1. PICK line : line = [type |-> "LoadGame", ship |-> flown.ship, omits |-> omits]
  OBVIOUS
<1>2. line \in ShipLine /\ line.type = "LoadGame" /\ line.ship = flown.ship /\ line.omits = omits
  BY <1>1, FitHasShip DEF ShipInv, ShipTyped, ShipLine
<1>3. Report(line) /\ told' = told \cup ({"ship", "name"} \ omits) /\ UNCHANGED <<flown, hold>>
  BY <1>1 DEF LogIn
<1>4. ShipTyped' /\ Queued'
  BY <1>2, <1>3, Reported, FieldNames DEF ShipInv, ShipTyped
<1>5. WritesOf(line) = {"ship", "name"} \ omits /\ \A f : Writes(line, f) = flown.ship
  BY <1>2 DEF WritesOf, Writes
<1>6. \A f \in told' : StillTold(line, f)
  BY <1>3, <1>5, FieldNames DEF StillTold, Harmless, Actual
<1> QED
  BY <1>2, <1>3, <1>4, <1>6, ToldKept, LatestKept DEF ShipInv

LEMMA DescribeStep ==
  ASSUME ShipInv, NEW omits \in Omissions, Describe(omits) PROVE ShipInv'
<1>1. PICK line : line = [type |-> "Loadout", fit |-> flown, omits |-> omits]
  OBVIOUS
<1>2. line \in ShipLine /\ line.type = "Loadout" /\ line.fit = flown /\ line.omits = omits
  BY <1>1 DEF ShipInv, ShipTyped, ShipLine
<1>3. /\ Report(line) /\ told' = told \cup (({"ship"} \cup Described) \ omits)
      /\ UNCHANGED <<flown, hold>>
  BY <1>1 DEF Describe
<1>4. ShipTyped' /\ Queued'
  BY <1>2, <1>3, Reported, FieldNames DEF ShipInv, ShipTyped
<1>5. /\ WritesOf(line) = ({"ship"} \cup Described) \ omits
      /\ \A f : Writes(line, f) = IF f \in {"ship", "name"} THEN flown.ship ELSE flown
  BY <1>2 DEF WritesOf, Writes
<1>6. \A f \in told' : StillTold(line, f)
  BY <1>3, <1>5, FieldNames DEF StillTold, Harmless, Actual
<1> QED
  BY <1>2, <1>3, <1>4, <1>6, ToldKept, LatestKept DEF ShipInv

LEMMA SwapStep == ASSUME ShipInv, NEW s \in Ships, Swap(s) PROVE ShipInv'
<1>1. PICK line : line = [type |-> "ShipyardSwap", ship |-> s]
  OBVIOUS
<1>2. line \in ShipLine /\ line.type = "ShipyardSwap" /\ line.ship = s
  BY <1>1 DEF ShipLine
<1>3. Report(line) /\ told' = {"ship"} \cup (told \cap {"cargo"}) /\ UNCHANGED hold
  BY <1>1 DEF Swap
<1>4. flown' \in Fit /\ flown'.ship = s
  BY ShipAssumption DEF Swap, Fit
<1>5. ShipTyped' /\ Queued'
  BY <1>2, <1>3, <1>4, Reported, FieldNames DEF ShipInv, ShipTyped
<1>6. WritesOf(line) = {"ship"} \cup Cleared /\ Writes(line, "ship") = s
  BY <1>2 DEF WritesOf, Writes
<1>7. \A f \in told' : StillTold(line, f)
  BY <1>3, <1>4, <1>6, FieldNames DEF StillTold, Harmless, Actual
<1> QED
  BY <1>2, <1>3, <1>5, <1>7, ToldKept, LatestKept DEF ShipInv

LEMMA DestroyedStep == ASSUME ShipInv, Destroyed PROVE ShipInv'
<1>1. PICK line : line = [type |-> "ShipDestroyed"]
  OBVIOUS
<1>2. line \in ShipLine /\ line.type = "ShipDestroyed"
  BY <1>1 DEF ShipLine
<1>3. Report(line) /\ told' = told \cap {"cargo"} /\ UNCHANGED <<flown, hold>>
  BY <1>1 DEF Destroyed
<1>4. ShipTyped' /\ Queued'
  BY <1>2, <1>3, Reported DEF ShipInv, ShipTyped
<1>5. WritesOf(line) = {"ship", "hull", "modules"}
  BY <1>2 DEF WritesOf
<1>6. \A f \in told' : StillTold(line, f)
  BY <1>3, <1>5 DEF StillTold, Harmless, Actual
<1> QED
  BY <1>2, <1>3, <1>4, <1>6, ToldKept, LatestKept DEF ShipInv

LEMMA TradeStep == ASSUME ShipInv, NEW n \in Cargo, Trade(n) PROVE ShipInv'
<1>1. PICK line : line = [type |-> "Cargo", cargo |-> n]
  OBVIOUS
<1>2. line \in ShipLine /\ line.type = "Cargo" /\ line.cargo = n
  BY <1>1 DEF ShipLine
<1>3. Report(line) /\ hold' = n /\ told' = told \cup {"cargo"} /\ UNCHANGED flown
  BY <1>1 DEF Trade
<1>4. ShipTyped' /\ Queued'
  BY <1>2, <1>3, Reported, FieldNames DEF ShipInv, ShipTyped
<1>5. WritesOf(line) = {"cargo"} /\ \A f : Writes(line, f) = n
  BY <1>2 DEF WritesOf, Writes
<1>6. \A f \in told' : StillTold(line, f)
  BY <1>3, <1>5 DEF StillTold, Harmless, Actual
<1> QED
  BY <1>2, <1>3, <1>4, <1>6, ToldKept, LatestKept DEF ShipInv

LEMMA MendStep == ASSUME ShipInv, NEW fit \in Fit, Mend(fit) PROVE ShipInv'
<1>1. /\ flown' = fit /\ fit.ship = flown.ship /\ told' = told \cap {"ship", "name", "cargo"}
      /\ hold' = hold /\ lines' = lines /\ waiting' = waiting /\ known' = known
      /\ inOrder' = inOrder
  BY DEF Mend
<1>2. ShipTyped' /\ Queued'
  BY <1>1 DEF ShipInv, ShipTyped, Queued, Handled, WellFormed
<1>3. ToldHolds'
  <2>1. ASSUME NEW f \in told' PROVE f \in told /\ Actual(f)' = Actual(f)
    BY <1>1 DEF Actual
  <2> QED
    BY <1>1, <2>1 DEF ShipInv, ToldHolds, RightFrom, Harmless, Handled
<1>4. LatestHolds'
  BY <1>1 DEF ShipInv, LatestHolds, LatestFrom, Handled
<1> QED
  BY <1>2, <1>3, <1>4 DEF ShipInv

-----------------------------------------------------------------------------
(* Requests and handlers.                                                  *)

\* None of the values a field may hold is the empty one.
LEMMA NotMissing ==
  ASSUME ShipTyped
  PROVE  flown # Missing /\ flown.ship # Missing /\ \A f : Actual(f) # Missing
  BY ShipAssumption, FitHasShip DEF ShipTyped, Actual

LEMMA HydrateStep == ASSUME ShipInv, Hydrate PROVE ShipInv'
<1>1. UNCHANGED <<flown, hold, told, lines, waiting, inOrder>>
  BY DEF Hydrate, hangar
<1>2. /\ WellFormed(known')
      /\ \A f \in ShipFields :
           known'[f] = IF known[f] = Missing THEN Scanned(f) ELSE known[f]
  BY Repaired DEF ShipInv
<1>3. ShipTyped' /\ Queued'
  BY <1>1, <1>2 DEF ShipInv, ShipTyped, Queued, Handled, WellFormed
<1>4. lines \in Seq(ShipLine) /\ told \subseteq ShipFields /\ Len(lines) \in Nat
      /\ waiting \in Seq(1 .. Len(lines))
  BY DEF ShipInv, ShipTyped
<1>5. ToldHolds'
  <2>1. ASSUME NEW f \in told, known[f] = Actual(f) PROVE known'[f] = Actual(f)
    BY <1>2, <1>4, <2>1, NotMissing DEF ShipInv
  <2>2. \A f : Actual(f)' = Actual(f)
    BY <1>1 DEF Actual
  <2>3. \A d, f : RightFrom(d, f) => RightFrom(d, f)'
    BY <1>1, <2>2 DEF RightFrom, Harmless
  <2> QED
    BY <1>1, <2>1, <2>2, <2>3 DEF ShipInv, ToldHolds, Handled
<1>6. LatestHolds'
  <2>1. ASSUME NEW f \in Filled, known'[f] # Missing
        PROVE  \E n \in 1 .. Len(lines) : LatestFrom(n, f) /\ known'[f] = Writes(lines[n], f)
    <3>1. f \in ShipFields
      BY FieldNames
    <3>2. CASE known[f] = Missing
      <4>1. known'[f] = Scanned(f)
        BY <1>2, <3>1, <3>2
      <4>2. PICK n \in 1 .. Len(lines) :
              /\ Tells(lines[n], f) /\ Scanned(f) = Writes(lines[n], f)
              /\ \A k \in (n + 1) .. Len(lines) : ~Tells(lines[k], f)
        BY <1>4, <2>1, <3>1, <4>1, ScannedLast
      <4>3. \A k \in (n + 1) .. Handled : k \in (n + 1) .. Len(lines)
        BY <1>4 DEF Handled
      <4>4. LatestFrom(n, f)
        BY <4>2, <4>3 DEF LatestFrom
      <4> QED
        BY <4>1, <4>2, <4>4
    <3>3. CASE known[f] # Missing
      BY <1>2, <3>1, <3>3 DEF ShipInv, LatestHolds
    <3> QED
      BY <3>2, <3>3
  <2>2. \A n, f : LatestFrom(n, f) => LatestFrom(n, f)'
    BY <1>1 DEF LatestFrom, Handled
  <2> QED
    BY <1>1, <2>1, <2>2 DEF LatestHolds
<1> QED
  BY <1>3, <1>5, <1>6 DEF ShipInv

\* The line that is handled, and what is left to handle.
LEMMA ShipLineTaken ==
  ASSUME ShipInv, NEW n \in DOMAIN waiting, HandleShipLine(n)
  PROVE  /\ waiting[n] \in 1 .. Len(lines) /\ lines[waiting[n]] \in ShipLine
         /\ known' = Updated(known, lines[waiting[n]])
         /\ UNCHANGED <<flown, hold, told, lines>>
         /\ ShipTyped' /\ Queued'
         /\ inOrder' = TRUE =>
              inOrder = TRUE /\ waiting[n] = Handled + 1 /\ Handled' = Handled + 1
              /\ Handled \in Nat
<1>1. /\ lines \in Seq(ShipLine) /\ waiting \in Seq(1 .. Len(lines)) /\ inOrder \in BOOLEAN
      /\ Queued
  BY DEF ShipInv, ShipTyped
<1>2. /\ TakeOut(n) /\ known' = Updated(known, lines[waiting[n]])
      /\ UNCHANGED <<flown, hold, told, lines>>
  BY DEF HandleShipLine, hangar
<1>3. /\ waiting[n] \in 1 .. Len(lines) /\ lines[waiting[n]] \in ShipLine
      /\ waiting' \in Seq(1 .. Len(lines)) /\ inOrder' \in BOOLEAN /\ Queued'
      /\ inOrder' = TRUE =>
           inOrder = TRUE /\ waiting[n] = Handled + 1 /\ Handled' = Handled + 1
           /\ Handled \in Nat
  BY <1>1, <1>2, TakenOut
<1>4. WellFormed(known')
  BY <1>2, <1>3, UpdatedWellFormed DEF ShipInv, ShipTyped
<1>5. ShipTyped'
  BY <1>2, <1>3, <1>4 DEF ShipInv, ShipTyped
<1> QED
  BY <1>2, <1>3, <1>5

LEMMA HandleStep == ASSUME ShipInv, NEW n \in DOMAIN waiting, HandleShipLine(n) PROVE ShipInv'
<1>1. PICK e : e = lines[waiting[n]]
  OBVIOUS
<1>2. PICK w : w = waiting[n]
  OBVIOUS
<1>3. /\ w \in 1 .. Len(lines) /\ e = lines[w] /\ e \in ShipLine
      /\ known' = Updated(known, e)
      /\ flown' = flown /\ hold' = hold /\ told' = told /\ lines' = lines
      /\ ShipTyped' /\ Queued'
      /\ inOrder' = TRUE =>
           inOrder = TRUE /\ w = Handled + 1 /\ Handled' = Handled + 1 /\ Handled \in Nat
  BY <1>1, <1>2, ShipLineTaken
<1>4. /\ ShipTyped /\ WellFormed(known) /\ Len(lines) \in Nat /\ told \subseteq ShipFields
  BY DEF ShipInv, ShipTyped
<1>5. \A f \in ShipFields : known'[f] = IF f \in WritesOf(e) THEN Writes(e, f) ELSE known[f]
  BY <1>3, <1>4, UpdatedFields
<1>6. ToldHolds'
  <2>1. \A f : Actual(f)' = Actual(f)
    BY <1>3 DEF Actual
  <2>2. ASSUME NEW f \in told
        PROVE  \E d \in 1 .. Len(lines') :
                 RightFrom(d, f)' /\ ((inOrder' = TRUE /\ d <= Handled') => known'[f] = Actual(f)')
    <3>1. PICK d \in 1 .. Len(lines) :
            RightFrom(d, f) /\ ((inOrder = TRUE /\ d <= Handled) => known[f] = Actual(f))
      BY <2>2 DEF ShipInv, ToldHolds
    <3>2. RightFrom(d, f)'
      BY <1>3, <2>1, <3>1 DEF RightFrom, Harmless
    <3>3. f \in ShipFields
      BY <1>4, <2>2
    <3>4. ASSUME inOrder' = TRUE, d <= Handled' PROVE known'[f] = Actual(f)
      <4>1. inOrder = TRUE /\ w = Handled + 1 /\ Handled' = Handled + 1 /\ Handled \in Nat
        BY <1>3, <3>4
      <4>2. w \in d .. Len(lines)
        BY <1>3, <1>4, <3>4, <4>1
      <4>3. Harmless(e, f)
        BY <1>3, <3>1, <4>2 DEF RightFrom
      <4>4. CASE f \in WritesOf(e)
        BY <1>5, <3>3, <4>3, <4>4 DEF Harmless
      <4>5. CASE f \notin WritesOf(e)
        <5>1. d # w
          BY <1>3, <3>1, <4>5 DEF RightFrom
        <5>2. d <= Handled
          BY <3>4, <4>1, <5>1
        <5> QED
          BY <1>5, <3>1, <3>3, <4>1, <4>5, <5>2
      <4> QED
        BY <4>4, <4>5
    <3> QED
      BY <1>3, <2>1, <3>1, <3>2, <3>4
  <2> QED
    BY <1>3, <2>2 DEF ToldHolds
<1>7. LatestHolds'
  <2>1. ASSUME NEW f \in Filled, known'[f] # Missing
        PROVE  \E m \in 1 .. Len(lines') : LatestFrom(m, f)' /\ known'[f] = Writes(lines'[m], f)
    <3>1. f \in ShipFields
      BY FieldNames
    <3>2. CASE f \in WritesOf(e)
      <4>1. known'[f] = Writes(e, f)
        BY <1>5, <3>1, <3>2
      <4>2. Tells(e, f)
        BY <1>3, <2>1, <3>2, <4>1, TellsWrites
      <4>3. ASSUME inOrder' = TRUE PROVE \A k \in (w + 1) .. Handled' : FALSE
        BY <1>3, <4>3
      <4>4. LatestFrom(w, f)'
        BY <1>3, <4>2, <4>3 DEF LatestFrom
      <4> QED
        BY <1>3, <4>1, <4>4
    <3>3. CASE f \notin WritesOf(e)
      <4>1. known'[f] = known[f]
        BY <1>5, <3>1, <3>3
      <4>2. PICK m \in 1 .. Len(lines) : LatestFrom(m, f) /\ known[f] = Writes(lines[m], f)
        BY <2>1, <4>1 DEF ShipInv, LatestHolds
      <4>3. ~Tells(e, f)
        BY <1>3, <3>3, TellsWrites
      <4>4. ASSUME inOrder' = TRUE, NEW k \in (m + 1) .. Handled' PROVE ~Tells(lines[k], f)
        <5>1. inOrder = TRUE /\ w = Handled + 1 /\ Handled' = Handled + 1 /\ Handled \in Nat
          BY <1>3, <4>4
        <5>2. k = w \/ k \in (m + 1) .. Handled
          BY <4>4, <5>1
        <5> QED
          BY <1>3, <4>2, <4>3, <5>1, <5>2 DEF LatestFrom
      <4>5. LatestFrom(m, f)'
        BY <1>3, <4>2, <4>4 DEF LatestFrom
      <4> QED
        BY <1>3, <4>1, <4>2, <4>5
    <3> QED
      BY <3>2, <3>3
  <2> QED
    BY <2>1 DEF LatestHolds
<1> QED
  BY <1>3, <1>6, <1>7 DEF ShipInv

-----------------------------------------------------------------------------
(* The theorems about the ship.                                            *)

LEMMA ShipStart == ShipInit => ShipInv
<1> SUFFICES ASSUME ShipInit PROVE ShipInv
  OBVIOUS
<1>1. /\ lines = <<>> /\ waiting = <<>> /\ inOrder = TRUE /\ told = {} /\ hold = 0
      /\ known = NothingKnown
      /\ flown \in [ship : Ships, fit : {1}, damaged : BOOLEAN]
  BY DEF ShipInit
<1>2. flown \in Fit
  BY <1>1, ShipAssumption DEF Fit
<1>3. ShipTyped
  <2>1. WellFormed(known)
    BY <1>1 DEF WellFormed, NothingKnown
  <2>2. lines \in Seq(ShipLine) /\ waiting \in Seq(1 .. Len(lines)) /\ Len(lines) <= MaxLines
    BY <1>1, ShipAssumption
  <2>3. hold \in Cargo
    BY <1>1 DEF Cargo
  <2>4. told \subseteq ShipFields /\ inOrder \in BOOLEAN
    BY <1>1
  <2> QED
    BY <1>2, <2>1, <2>2, <2>3, <2>4 DEF ShipTyped
<1>4. Queued /\ ToldHolds
  BY <1>1 DEF Queued, ToldHolds, Handled
<1>5. LatestHolds
  BY <1>1, FieldNames DEF LatestHolds, NothingKnown
<1> QED
  BY <1>3, <1>4, <1>5 DEF ShipInv

LEMMA ShipStep == ShipInv /\ [ShipNext]_shipVars => ShipInv'
<1> SUFFICES ASSUME ShipInv, [ShipNext]_shipVars PROVE ShipInv'
  OBVIOUS
<1>1. CASE \E omits \in Omissions : LogIn(omits) \/ Describe(omits)
  BY <1>1, LogInStep, DescribeStep
<1>3. CASE Destroyed
  BY <1>3, DestroyedStep
<1>4. CASE \E s \in Ships : Swap(s)
  BY <1>4, SwapStep
<1>5. CASE \E fit \in Fit : Mend(fit)
  BY <1>5, MendStep
<1>6. CASE \E n \in Cargo : Trade(n)
  BY <1>6, TradeStep
<1>7. CASE \E n \in DOMAIN waiting : HandleShipLine(n)
  BY <1>7, HandleStep
<1>8. CASE Hydrate
  BY <1>8, HydrateStep
<1>9. CASE UNCHANGED shipVars
  <2>1. UNCHANGED <<flown, hold, told, lines, waiting, known, inOrder>>
    BY <1>9 DEF shipVars, hangar
  <2>2. ShipTyped' /\ Queued'
    BY <2>1 DEF ShipInv, ShipTyped, WellFormed, Queued, Handled
  <2>3. ToldHolds'
    <3>1. \A f : Actual(f)' = Actual(f)
      BY <2>1 DEF Actual
    <3> QED
      BY <2>1, <3>1 DEF ShipInv, ToldHolds, RightFrom, Harmless, Handled
  <2>4. LatestHolds'
    BY <2>1 DEF ShipInv, LatestHolds, LatestFrom, Handled
  <2> QED
    BY <2>2, <2>3, <2>4 DEF ShipInv
<1> QED
  BY <1>1, <1>3, <1>4, <1>5, <1>6, <1>7, <1>8, <1>9 DEF ShipNext

\* ship_state.py, cargo.py: whatever lines wait, were handled or were read ahead by a
\* request, the line that told of a field as it is is followed by nothing that makes the
\* field wrong; and a field is empty or says what a line has told that no line handled
\* since has told otherwise.
THEOREM ShipInductive == ShipSpec => []ShipInv
  BY ShipStart, ShipStep, PTL DEF ShipSpec

\* Every field of the ship is empty or holds what it is for.
THEOREM ShipIsTyped == ShipSpec => []ShipTypeOK
<1>1. ShipInv => ShipTypeOK
  <2> SUFFICES ASSUME ShipInv PROVE ShipTypeOK
    OBVIOUS
  <2>1. /\ lines \in Seq(ShipLine) /\ waiting \in Seq(1 .. Len(lines))
        /\ \A f \in ShipFields : known[f] \in Values(f) \cup {Missing}
    BY DEF ShipInv, ShipTyped, WellFormed
  <2>2. \A n \in DOMAIN waiting : waiting[n] \in DOMAIN lines
    BY <2>1
  <2>3. {"ship", "name", "cargo"} \subseteq ShipFields /\ Described \subseteq ShipFields
    BY FieldNames
  <2>4. /\ known["ship"] \in Ships \cup {Missing} /\ known["name"] \in Ships \cup {Missing}
        /\ known["cargo"] \in Cargo \cup {Missing}
    BY <2>1, <2>3 DEF Values
  <2>5. ASSUME NEW f \in Described \ {"name"} PROVE known[f] \in Fit \cup {Missing}
    <3>1. f \notin {"ship", "name", "cargo"}
      BY <2>5 DEF Described, Cleared, Figures
    <3> QED
      BY <2>1, <2>3, <3>1 DEF Values
  <2> QED
    BY <2>2, <2>4, <2>5 DEF ShipInv, ShipTyped, ShipTypeOK
<1> QED
  BY <1>1, ShipInductive, PTL

\* ship_state.py, loadout.py, cargo.py, local_state_hydration.py, rebuy.py: once the lines
\* are handled in order, every field that the journal has told of this ship is as it was
\* told, the others are empty or what the last line that had them said, and the rebuy is
\* this ship's wherever its sum is not another's.
THEOREM ShipIsKnown == ShipSpec => []ShipSettles
<1>1. ShipInv => ShipSettles
  <2> SUFFICES ASSUME ShipInv, Settled PROVE ShipSettles
    BY DEF ShipSettles
  <2>1. inOrder = TRUE /\ Handled = Len(lines) /\ Len(lines) \in Nat /\ lines \in Seq(ShipLine)
    BY DEF ShipInv, ShipTyped, Settled, Handled
  <2>2. \A f \in told : known[f] = Actual(f)
    BY <2>1 DEF ShipInv, ToldHolds
  <2>3. ASSUME NEW f \in Filled, known[f] # Missing PROVE known[f] = Scanned(f)
    <3>1. PICK n \in 1 .. Len(lines) :
            /\ Tells(lines[n], f) /\ known[f] = Writes(lines[n], f)
            /\ \A k \in (n + 1) .. Len(lines) : ~Tells(lines[k], f)
      BY <2>1, <2>3 DEF ShipInv, LatestHolds, LatestFrom
    <3>2. LastTold(f) # {}
      BY <2>1, <3>1 DEF LastTold
    <3>3. PICK m \in 1 .. Len(lines) :
            /\ Tells(lines[m], f) /\ Scanned(f) = Writes(lines[m], f)
            /\ \A k \in (m + 1) .. Len(lines) : ~Tells(lines[k], f)
      BY <2>1, <2>3, <3>2, ScannedLast, FieldNames
    <3>4. ~(m < n) /\ ~(n < m)
      BY <2>1, <3>1, <3>3
    <3>5. m = n
      BY <2>1, <3>4
    <3> QED
      BY <3>1, <3>3, <3>5
  <2>4. ASSUME {"ship", "modules"} \subseteq told, "values" \in told \/ Scanned("values") = Missing
        PROVE  Rebuy(known) = flown
    <3>1. known["ship"] = flown.ship /\ flown.ship # Missing /\ flown # Missing
          /\ known["modules"] = flown
      BY <2>2, <2>4, NotMissing DEF Actual, ShipInv
    <3>2. "values" \in Filled
      BY DEF Filled, Described, Figures
    <3>3. known["values"] \in {Missing, flown}
      BY <2>2, <2>3, <2>4, <3>2 DEF Actual
    <3> QED
      BY <3>1, <3>3 DEF Rebuy
  <2> QED
    BY <2>2, <2>3, <2>4 DEF ShipSettles, Filled
<1> QED
  BY <1>1, ShipInductive, PTL

-----------------------------------------------------------------------------
(* The whereabouts.  Their inductive invariant.                            *)

PlaceFields == Flags \cup Places

\* What a field may hold when it is not empty.
Kept(f) ==
  IF f \in Flags THEN BOOLEAN ELSE IF f = "system" THEN Systems
  ELSE IF f = "station" THEN Station ELSE IF f = "stationCtx" THEN Whereabouts
  ELSE SystemContext

\* What the journal sets, it may set again.
SessionFormed(s) ==
  /\ s.value = [f \in PlaceFields |-> s.value[f]]
  /\ s.source = [f \in PlaceFields |-> s.source[f]]
  /\ \A f \in PlaceFields : /\ s.value[f] \in Kept(f) \cup {Missing}
                            /\ s.source[f] \in 0 .. 2

TravelTyped ==
  /\ at \in Whereabouts /\ carrier \in Systems /\ screen \in Whereabouts \cup {Missing}
  /\ lines \in Seq(TravelLine) /\ Len(lines) <= MaxTravel
  /\ waiting \in Seq(1 .. Len(lines))
  /\ flag \in BOOLEAN \cup {Missing}
  /\ SessionFormed(session)
  /\ jumpedTo \in Systems \cup {Missing} /\ inOrder \in BOOLEAN

\* Line n belongs to the session, or to one after it.
Started(n) == \E m \in 1 .. n : lines[m].type = "Location"

\* Lines that tell of docking or undocking.
DockingTypes == {"Docked", "Undocked", "Location"}

\* A line says where the commander is when it is written; from one that tells of the
\* station to the next, the station is the same; and the last one is where he is.
JournalTells ==
  /\ \A n \in 1 .. Len(lines) :
       /\ lines[n].type = "Docked" => lines[n].station # Missing
       /\ lines[n].type \in {"Undocked", "FSDJump"} => lines[n].station = Missing
  /\ \A n \in 2 .. Len(lines) :
       /\ Started(n - 1) /\ lines[n].type \in {"Docked", "Undocked"} \cup Offence =>
            lines[n].system = lines[n - 1].system
       /\ Started(n - 1) /\ lines[n].type \notin DockingTypes =>
            lines[n].station = lines[n - 1].station
  /\ \A m \in 1 .. Len(lines) : \A n \in m .. Len(lines) :
       (Started(m) /\ \A k \in (m + 1) .. n : lines[k].type \notin DockingTypes) =>
         lines[n].station = lines[m].station
  /\ Started(Len(lines)) =>
       at.system = lines[Len(lines)].system /\ at.station = lines[Len(lines)].station

\* The station, and what is known of it, are those of line n.
StationRight(n) ==
  /\ session.value["station"] = lines[n].station
  /\ IF lines[n].station = Missing THEN session.value["stationCtx"] = Missing
     ELSE session.value["stationCtx"] # Missing
            /\ session.value["stationCtx"].station = lines[n].station

\* A line that waits will tell of the station.
StationAhead == \E n \in (Handled + 1) .. Len(lines) : lines[n].type \in DockingTypes

\* The state is that of the line handled last, but for a station that a request has
\* read ahead of its handler.
WhereaboutsHold ==
  (inOrder = TRUE /\ Started(Handled)) =>
    /\ session.value["system"] = lines[Handled].system
    /\ lines[Handled].station = Missing => session.value["docked"] = FALSE
    /\ lines[Handled].station # Missing => session.value["docked"] = TRUE
    /\ session.source["docked"] = Registers!Journal
    /\ session.value["systemCtx"] # Missing
    /\ session.value["systemCtx"].system = lines[Handled].system
    /\ StationRight(Handled) \/ StationAhead

\* The jump handled last is the one the next is compared with.
JumpHolds ==
  inOrder = TRUE =>
    IF \A n \in 1 .. Handled : lines[n].type # "FSDJump" THEN jumpedTo = Missing
    ELSE \E j \in 1 .. Handled :
           /\ lines[j].type = "FSDJump" /\ jumpedTo = lines[j].system
           /\ \A n \in (j + 1) .. Handled : lines[n].type # "FSDJump"

\* Of the first h lines, one makes the commander wanted and none after it clears him.
OutlawAt(h) ==
  \E n \in 1 .. h : lines[n].type \in Offence /\ \A k \in (n + 1) .. h : ~Clears(k)

WantedHolds ==
  inOrder = TRUE =>
    /\ session.value["wanted"] = TRUE => OutlawAt(Handled)
    /\ OutlawAt(Handled) => session.value["wanted"] = TRUE

\* A reply is about the state it left behind.
ReplyHolds ==
  reply # Missing =>
    /\ reply \in [station : Label, system : Label, services : Label, market : Label,
                  outfitting : Label]
    /\ reply.market = ScreenLabel(session.value)
    /\ reply.outfitting = OutfittingLabel(session.value)

ScreenHolds == screen # Missing => screen.station # Missing

TravelInv ==
  /\ TravelTyped /\ Queued /\ JournalTells
  /\ WhereaboutsHold /\ JumpHolds /\ WantedHolds /\ ReplyHolds /\ ScreenHolds

LEMMA Names ==
  /\ PlaceFields = {"docked", "supercruise", "wanted", "system", "station", "systemCtx", "stationCtx"}
  /\ \A f \in {"docked", "supercruise", "wanted"} : Kept(f) = BOOLEAN
  /\ Kept("system") = Systems /\ Kept("station") = Station /\ Kept("stationCtx") = Whereabouts
  /\ Kept("systemCtx") = SystemContext
<1>1. PlaceFields = {"docked", "supercruise", "wanted", "system", "station", "systemCtx", "stationCtx"}
  BY DEF PlaceFields, Flags, Places
<1> QED
  BY <1>1 DEF Kept, Flags

Same(s, t, fields) == \A f \in fields : t.value[f] = s.value[f]
SameSource(s, t, fields) == \A f \in fields : t.source[f] = s.source[f]

\* What the journal puts into a field is there.
LEMMA PutByJournal ==
  ASSUME NEW s, SessionFormed(s), NEW f \in PlaceFields, NEW v \in Kept(f) \cup {Missing}
  PROVE  /\ SessionFormed(PutJ(s, f, v))
         /\ PutJ(s, f, v).value[f] = v /\ PutJ(s, f, v).source[f] = 1
         /\ Same(s, PutJ(s, f, v), PlaceFields \ {f})
         /\ SameSource(s, PutJ(s, f, v), PlaceFields \ {f})
<1>1. /\ s.value = [g \in PlaceFields |-> s.value[g]]
      /\ s.source = [g \in PlaceFields |-> s.source[g]]
      /\ \A g \in PlaceFields : s.value[g] \in Kept(g) \cup {Missing} /\ s.source[g] \in 0 .. 2
  BY DEF SessionFormed
<1>2. Registers!Journal = 1
  BY DEF Registers!Journal
<1>3. Registers!Accepts(s, f, v, 1)
  BY <1>1 DEF Registers!Accepts, Registers!Exempt, Registers!Outranks, Registers!Unset
<1>4. PutJ(s, f, v) = [value |-> [s.value EXCEPT ![f] = v], source |-> [s.source EXCEPT ![f] = 1]]
  BY <1>2, <1>3 DEF PutJ, Registers!Put
<1>5. /\ \A g \in PlaceFields : PutJ(s, f, v).value[g] = IF g = f THEN v ELSE s.value[g]
      /\ \A g \in PlaceFields : PutJ(s, f, v).source[g] = IF g = f THEN 1 ELSE s.source[g]
  BY <1>1, <1>4
<1>6. /\ PutJ(s, f, v).value = [g \in PlaceFields |-> PutJ(s, f, v).value[g]]
      /\ PutJ(s, f, v).source = [g \in PlaceFields |-> PutJ(s, f, v).source[g]]
  BY <1>1, <1>4
<1> QED
  BY <1>1, <1>5, <1>6 DEF SessionFormed, Same, SameSource

\* A Status event does not replace what the journal has said.
LEMMA PutByStatus ==
  ASSUME NEW s, SessionFormed(s), NEW v \in BOOLEAN,
         NEW t, t = Registers!Put(s, "docked", v, Registers!StatusJson)
  PROVE  /\ SessionFormed(t)
         /\ s.source["docked"] = 1 => t = s
         /\ \A g \in PlaceFields \ {"docked"} : t.value[g] = s.value[g]
<1>1. /\ s.value = [g \in PlaceFields |-> s.value[g]]
      /\ s.source = [g \in PlaceFields |-> s.source[g]]
      /\ \A g \in PlaceFields : s.value[g] \in Kept(g) \cup {Missing} /\ s.source[g] \in 0 .. 2
  BY DEF SessionFormed
<1>2. Registers!StatusJson = 2 /\ "docked" \in PlaceFields /\ v \in Kept("docked")
  BY Names DEF Registers!StatusJson
<1>3. Registers!Accepts(s, "docked", v, 2) <=> s.source["docked"] # 1
  BY <1>1, <1>2 DEF Registers!Accepts, Registers!Exempt, Registers!Outranks, Registers!Unset
<1>4. CASE s.source["docked"] = 1
  <2>1. t = s
    BY <1>2, <1>3, <1>4 DEF Registers!Put
  <2> QED
    BY <2>1
<1>5. CASE s.source["docked"] # 1
  <2>1. t = [value |-> [s.value EXCEPT !["docked"] = v], source |-> [s.source EXCEPT !["docked"] = 2]]
    BY <1>2, <1>3, <1>5 DEF Registers!Put
  <2>2. /\ t.value = [g \in PlaceFields |-> t.value[g]]
        /\ t.source = [g \in PlaceFields |-> t.source[g]]
    BY <1>1, <2>1
  <2>3. /\ \A g \in PlaceFields : t.value[g] = IF g = "docked" THEN v ELSE s.value[g]
        /\ \A g \in PlaceFields : t.source[g] = IF g = "docked" THEN 2 ELSE s.source[g]
    BY <1>1, <2>1
  <2> QED
    BY <1>1, <1>2, <1>5, <2>2, <2>3 DEF SessionFormed
<1> QED
  BY <1>4, <1>5

LEMMA TravelKinds ==
  ASSUME NEW e \in TravelLine
  PROVE  /\ e.type \in {"Location", "Docked", "Undocked", "FSDJump", "CarrierJump"} \cup Offence
         /\ e.system \in Systems /\ e.station \in Station \cup {Missing}
         /\ e.system # Missing
  BY TravelAssumption DEF TravelLine, Offence

\* A jump that is seen to leave for the system of e ends being wanted.
WantedAfter(s, t, e) ==
  /\ Differ(jumpedTo, e.system) => t.value["wanted"] = FALSE
  /\ ~Differ(jumpedTo, e.system) => t.value["wanted"] = s.value["wanted"]

\* If line ts is taken and nothing is overtaken by that, it is the next one.
TakenNext(ts) ==
  inOrder' = TRUE =>
    inOrder = TRUE /\ ts = Handled + 1 /\ Handled' = Handled + 1 /\ Handled \in Nat

\* The state of a commander who is docked at the station, or nowhere.
DockedAs(s, station) ==
  /\ s.source["docked"] = 1 /\ s.value["station"] = station
  /\ station = Missing => s.value["docked"] = FALSE /\ s.value["stationCtx"] = Missing
  /\ station # Missing => /\ s.value["docked"] = TRUE /\ s.value["stationCtx"] # Missing
                          /\ s.value["stationCtx"].station = station

SameDock(s, t) ==
  /\ t.source["docked"] = s.source["docked"]
  /\ \A f \in {"docked", "station", "stationCtx"} : t.value[f] = s.value[f]

\* The state of a commander who is in the system.
LocatedAs(s, system) ==
  /\ s.value["system"] = system
  /\ s.value["systemCtx"] # Missing /\ s.value["systemCtx"].system = system

LEMMA FlagSets ==
  ASSUME NEW s, SessionFormed(s), NEW f \in {"docked", "supercruise", "wanted"},
         NEW v \in BOOLEAN, NEW t, t = PutJ(s, f, v)
  PROVE  /\ SessionFormed(t) /\ t.value[f] = v /\ t.source[f] = 1
         /\ Same(s, t, PlaceFields \ {f}) /\ SameSource(s, t, PlaceFields \ {f})
<1>1. f \in PlaceFields /\ v \in Kept(f) \cup {Missing}
  BY Names
<1> QED
  BY <1>1, PutByJournal, ZenonT(30)

LEMMA ArrivedSets ==
  ASSUME NEW s, SessionFormed(s), NEW e \in TravelLine, e.station # Missing
  PROVE  /\ SessionFormed(Arrived(s, e)) /\ DockedAs(Arrived(s, e), e.station)
         /\ Same(s, Arrived(s, e), {"system", "systemCtx", "wanted"})
<1>1. PICK s1 : s1 = PutJ(s, "docked", TRUE)
  OBVIOUS
<1>2. PICK s2 : s2 = PutJ(s1, "supercruise", FALSE)
  OBVIOUS
<1>3. PICK s3 : s3 = PutJ(s2, "station", e.station)
  OBVIOUS
<1>4. PICK s4 : s4 = PutJ(s3, "stationCtx", Place(e.system, e.station))
  OBVIOUS
<1>5. Arrived(s, e) = s4
  BY <1>1, <1>2, <1>3, <1>4 DEF Arrived
<1>6. /\ e.station \in Station /\ Place(e.system, e.station) \in Whereabouts
      /\ Place(e.system, e.station) # Missing /\ Place(e.system, e.station).station = e.station
  BY TravelKinds, TravelAssumption DEF Place, Whereabouts
<1>7. /\ SessionFormed(s1) /\ s1.value["docked"] = TRUE
      /\ s1.source["docked"] = 1
      /\ Same(s, s1, PlaceFields \ {"docked"})
  BY <1>1, FlagSets, Zenon
<1>8. /\ SessionFormed(s2) /\ Same(s1, s2, PlaceFields \ {"supercruise"})
      /\ SameSource(s1, s2, PlaceFields \ {"supercruise"})
  BY <1>2, <1>7, FlagSets, Zenon
<1>13. /\ s2.value["docked"] = s1.value["docked"] /\ s2.source["docked"] = 1
       /\ Same(s, s2, {"system", "systemCtx", "wanted"})
  BY <1>7, <1>8, Names DEF Same, SameSource
<1>9. /\ SessionFormed(s3) /\ s3.value["docked"] = s2.value["docked"]
      /\ s3.source["docked"] = 1 /\ s3.value["station"] = e.station
      /\ Same(s2, s3, {"system", "systemCtx", "wanted"})
  BY <1>3, <1>6, <1>8, <1>13, Names, PutByJournal DEF Same, SameSource
<1>14. /\ SessionFormed(s4) /\ s4.value["stationCtx"] = Place(e.system, e.station)
       /\ Same(s3, s4, PlaceFields \ {"stationCtx"})
       /\ SameSource(s3, s4, PlaceFields \ {"stationCtx"})
  BY <1>4, <1>6, <1>9, Names, PutByJournal
<1>10. /\ s4.value["docked"] = s3.value["docked"] /\ s4.source["docked"] = 1
       /\ s4.value["station"] = e.station
       /\ Same(s3, s4, {"system", "systemCtx", "wanted"})
  BY <1>9, <1>14, Names DEF Same, SameSource
<1>11. DockedAs(s4, e.station)
  BY <1>6, <1>7, <1>13, <1>9, <1>10, <1>14 DEF DockedAs
<1>12. Same(s, s4, {"system", "systemCtx", "wanted"})
  BY <1>13, <1>9, <1>10 DEF Same
<1> QED
  BY <1>5, <1>11, <1>12, <1>14

LEMMA LeftSets ==
  ASSUME NEW s, SessionFormed(s)
  PROVE  /\ SessionFormed(Left(s)) /\ DockedAs(Left(s), Missing)
         /\ Same(s, Left(s), {"system", "systemCtx", "wanted"})
<1>1. PICK s1 : s1 = PutJ(s, "docked", FALSE)
  OBVIOUS
<1>2. PICK s2 : s2 = PutJ(s1, "station", Missing)
  OBVIOUS
<1>3. PICK s3 : s3 = PutJ(s2, "stationCtx", Missing)
  OBVIOUS
<1>4. Left(s) = s3
  BY <1>1, <1>2, <1>3 DEF Left
<1>5. /\ SessionFormed(s1) /\ s1.value["docked"] = FALSE
      /\ s1.source["docked"] = 1
      /\ Same(s, s1, PlaceFields \ {"docked"})
  BY <1>1, FlagSets, Zenon
<1>6. /\ SessionFormed(s2) /\ s2.value["docked"] = s1.value["docked"]
      /\ s2.source["docked"] = 1 /\ s2.value["station"] = Missing
      /\ Same(s1, s2, {"system", "systemCtx", "wanted"})
  BY <1>2, <1>5, Names, PutByJournal DEF Same, SameSource
<1>7. /\ SessionFormed(s3) /\ s3.value["docked"] = s2.value["docked"]
      /\ s3.source["docked"] = 1
      /\ s3.value["station"] = Missing /\ s3.value["stationCtx"] = Missing
      /\ Same(s2, s3, {"system", "systemCtx", "wanted"})
  BY <1>3, <1>6, Names, PutByJournal DEF Same, SameSource
<1>8. DockedAs(s3, Missing) /\ Same(s, s3, {"system", "systemCtx", "wanted"})
  BY <1>5, <1>6, <1>7, Names DEF DockedAs, Same
<1> QED
  BY <1>4, <1>7, <1>8

LEMMA ContextSets ==
  ASSUME NEW s, SessionFormed(s), NEW e \in TravelLine, NEW ts \in 1 .. MaxTravel,
         NEW t, t = PutJ(s, "systemCtx", SystemCtx(e, ts))
  PROVE  /\ SessionFormed(t) /\ SameDock(s, t) /\ Same(s, t, {"system", "wanted"})
         /\ t.value["systemCtx"] # Missing /\ t.value["systemCtx"].system = e.system
<1>1. SystemCtx(e, ts) \in SystemContext /\ SystemCtx(e, ts) # Missing
      /\ SystemCtx(e, ts).system = e.system
  BY TravelKinds, TravelAssumption DEF SystemCtx, SystemContext
<1> QED
  BY <1>1, Names, PutByJournal DEF Same, SameSource, SameDock

LEMMA SystemSets ==
  ASSUME NEW s, SessionFormed(s), NEW e \in TravelLine, NEW t, t = PutJ(s, "system", e.system)
  PROVE  /\ SessionFormed(t) /\ SameDock(s, t) /\ Same(s, t, {"systemCtx", "wanted"})
         /\ t.value["system"] = e.system
  BY TravelKinds, Names, PutByJournal DEF Same, SameSource, SameDock

LEMMA CarrierJumpSets ==
  ASSUME NEW s, SessionFormed(s), NEW e \in TravelLine, NEW ts \in 1 .. MaxTravel,
         NEW t, t = HandleCarrierJump(s, e, ts)
  PROVE  SessionFormed(t) /\ SameDock(s, t) /\ LocatedAs(t, e.system) /\ Same(s, t, {"wanted"})
<1>1. PICK s1 : s1 = PutJ(s, "system", e.system)
  OBVIOUS
<1>2. /\ SessionFormed(s1) /\ SameDock(s, s1) /\ Same(s, s1, {"wanted"})
      /\ s1.value["system"] = e.system
  BY <1>1, SystemSets DEF Same
<1>3. t = PutJ(s1, "systemCtx", SystemCtx(e, ts))
  BY <1>1 DEF HandleCarrierJump
<1>4. /\ SessionFormed(t) /\ SameDock(s1, t) /\ Same(s1, t, {"system", "wanted"})
      /\ t.value["systemCtx"] # Missing /\ t.value["systemCtx"].system = e.system
  BY <1>2, <1>3, ContextSets
<1> QED
  BY <1>2, <1>4 DEF Same, SameDock, LocatedAs

LEMMA FSDJumpSets ==
  ASSUME NEW s, SessionFormed(s), NEW e \in TravelLine, NEW ts \in 1 .. MaxTravel,
         NEW t, t = HandleFSDJump(s, e, ts)
  PROVE  /\ SessionFormed(t) /\ SameDock(s, t) /\ LocatedAs(t, e.system)
         /\ WantedAfter(s, t, e)
<1>1. PICK s1 : s1 = PutJ(s, "system", e.system)
  OBVIOUS
<1>2. PICK s2 : s2 = PutJ(s1, "supercruise", TRUE)
  OBVIOUS
<1>3. PICK s3 : s3 = PutJ(s2, "systemCtx", SystemCtx(e, ts))
  OBVIOUS
<1>4. PICK s4 : s4 = PutJ(s3, "supercruise", FALSE)
  OBVIOUS
<1>5. t = IF Differ(jumpedTo, e.system) THEN PutJ(s4, "wanted", FALSE) ELSE s4
  BY <1>1, <1>2, <1>3, <1>4 DEF HandleFSDJump
<1>6. /\ SessionFormed(s1) /\ SameDock(s, s1) /\ Same(s, s1, {"wanted"})
      /\ s1.value["system"] = e.system
  BY <1>1, SystemSets DEF Same
<1>7. /\ SessionFormed(s2) /\ SameDock(s1, s2) /\ Same(s1, s2, {"system", "wanted"})
  <2>1. /\ SessionFormed(s2) /\ Same(s1, s2, PlaceFields \ {"supercruise"})
        /\ SameSource(s1, s2, PlaceFields \ {"supercruise"})
    BY <1>2, <1>6, FlagSets, Zenon
  <2> QED
    BY <2>1, Names DEF Same, SameSource, SameDock
<1>8. /\ SessionFormed(s3) /\ SameDock(s2, s3) /\ Same(s2, s3, {"system", "wanted"})
      /\ s3.value["systemCtx"] # Missing /\ s3.value["systemCtx"].system = e.system
  BY <1>3, <1>7, ContextSets
<1>9. /\ SessionFormed(s4) /\ SameDock(s3, s4) /\ Same(s3, s4, {"system", "systemCtx", "wanted"})
  <2>1. /\ SessionFormed(s4) /\ Same(s3, s4, PlaceFields \ {"supercruise"})
        /\ SameSource(s3, s4, PlaceFields \ {"supercruise"})
    BY <1>4, <1>8, FlagSets, Zenon
  <2> QED
    BY <2>1, Names DEF Same, SameSource, SameDock
<1>10. /\ SameDock(s, s4) /\ LocatedAs(s4, e.system) /\ s4.value["wanted"] = s.value["wanted"]
  BY <1>6, <1>7, <1>8, <1>9 DEF Same, SameDock, LocatedAs
<1>11. CASE Differ(jumpedTo, e.system)
  <2>1. t = PutJ(s4, "wanted", FALSE)
    BY <1>5, <1>11
  <2>2. /\ SessionFormed(t) /\ t.value["wanted"] = FALSE /\ Same(s4, t, PlaceFields \ {"wanted"})
        /\ SameSource(s4, t, PlaceFields \ {"wanted"})
    BY <1>9, <2>1, FlagSets, Zenon
  <2> QED
    BY <1>10, <1>11, <2>2, Names DEF Same, SameSource, SameDock, LocatedAs, WantedAfter
<1>12. CASE ~Differ(jumpedTo, e.system)
  BY <1>5, <1>9, <1>10, <1>12 DEF WantedAfter
<1> QED
  BY <1>11, <1>12

LEMMA DockedSets ==
  ASSUME NEW s, SessionFormed(s), NEW e \in TravelLine, e.station # Missing,
         NEW t, t = HandleDocked(s, e)
  PROVE  /\ SessionFormed(t) /\ DockedAs(t, e.station) /\ t.value["system"] = e.system
         /\ Same(s, t, {"systemCtx", "wanted"})
<1>1. PICK s1 : s1 = Arrived(s, e)
  OBVIOUS
<1>2. SessionFormed(s1) /\ DockedAs(s1, e.station) /\ Same(s, s1, {"systemCtx", "wanted"})
  BY <1>1, ArrivedSets DEF Same
<1>3. t = PutJ(s1, "system", e.system)
  BY <1>1 DEF HandleDocked
<1>4. /\ SessionFormed(t) /\ SameDock(s1, t) /\ Same(s1, t, {"systemCtx", "wanted"})
      /\ t.value["system"] = e.system
  BY <1>2, <1>3, SystemSets
<1> QED
  BY <1>2, <1>4 DEF Same, SameDock, DockedAs

\* A Location that is not newer than what is known of the system finds it right.
LEMMA LocationSets ==
  ASSUME NEW s, SessionFormed(s), NEW e \in TravelLine, NEW ts \in 1 .. MaxTravel,
         NEW t, t = HandleLocation(s, e, ts)
  PROVE  /\ SessionFormed(t) /\ DockedAs(t, e.station) /\ LocatedAs(t, e.system)
         /\ Same(s, t, {"wanted"})
<1>1. PICK s1 : s1 = PutJ(s, "system", e.system)
  OBVIOUS
<1>2. PICK s2 : s2 = IF e.station = Missing THEN Left(s1) ELSE Arrived(s1, e)
  OBVIOUS
<1>3. t = IF Applies(s2.value["systemCtx"], e, ts)
          THEN PutJ(s2, "systemCtx", SystemCtx(e, ts)) ELSE s2
  BY <1>1, <1>2 DEF HandleLocation
<1>4. /\ SessionFormed(s1) /\ Same(s, s1, {"wanted"}) /\ s1.value["system"] = e.system
  BY <1>1, SystemSets DEF Same
<1>5. SessionFormed(s2) /\ DockedAs(s2, e.station) /\ Same(s1, s2, {"system", "wanted"})
  <2>1. CASE e.station = Missing
    BY <1>2, <1>4, <2>1, LeftSets DEF Same
  <2>2. CASE e.station # Missing
    BY <1>2, <1>4, <2>2, ArrivedSets DEF Same
  <2> QED
    BY <2>1, <2>2
<1>6. CASE Applies(s2.value["systemCtx"], e, ts)
  <2>1. t = PutJ(s2, "systemCtx", SystemCtx(e, ts))
    BY <1>3, <1>6
  <2>2. /\ SessionFormed(t) /\ SameDock(s2, t) /\ Same(s2, t, {"system", "wanted"})
        /\ t.value["systemCtx"] # Missing /\ t.value["systemCtx"].system = e.system
    BY <1>5, <2>1, ContextSets
  <2> QED
    BY <1>4, <1>5, <2>2 DEF Same, SameDock, DockedAs, LocatedAs
<1>7. CASE ~Applies(s2.value["systemCtx"], e, ts)
  <2>1. t = s2 /\ s2.value["systemCtx"] # Missing /\ s2.value["systemCtx"].system = e.system
    BY <1>3, <1>7 DEF Applies
  <2> QED
    BY <1>4, <1>5, <2>1 DEF Same, LocatedAs
<1> QED
  BY <1>6, <1>7

\* What a handler does to the dock, to the system and to being wanted.
LEMMA FollowedSets ==
  ASSUME NEW s, SessionFormed(s), NEW e \in TravelLine, NEW ts \in 1 .. MaxTravel,
         e.type = "Docked" => e.station # Missing, e.type = "Undocked" => e.station = Missing,
         NEW t, t = Followed(s, e, ts)
  PROVE  /\ SessionFormed(t)
         /\ e.type \in DockingTypes => DockedAs(t, e.station)
         /\ e.type \notin DockingTypes => SameDock(s, t)
         /\ e.type = "Location" \/ LocatedAs(s, e.system) \/ e.type \in {"FSDJump", "CarrierJump"}
              => LocatedAs(t, e.system)
         /\ e.type \notin {"FSDJump"} \cup Offence => t.value["wanted"] = s.value["wanted"]
         /\ e.type \in Offence => t.value["wanted"] = TRUE
         /\ e.type = "FSDJump" => WantedAfter(s, t, e)
<1>0. Offence \cap ({"FSDJump", "CarrierJump"} \cup DockingTypes) = {}
  BY DEF Offence, DockingTypes
<1>1. CASE e.type = "FSDJump"
  <2>1. t = HandleFSDJump(s, e, ts)
    BY <1>1 DEF Followed, Offence
  <2>2. SessionFormed(t) /\ SameDock(s, t) /\ LocatedAs(t, e.system) /\ WantedAfter(s, t, e)
    BY <2>1, FSDJumpSets, Zenon
  <2>3. e.type \notin DockingTypes
    BY <1>1 DEF DockingTypes
  <2> QED
    BY <1>0, <1>1, <2>2, <2>3
<1>2. CASE e.type = "CarrierJump"
  <2>1. t = HandleCarrierJump(s, e, ts)
    BY <1>2 DEF Followed, Offence
  <2>2. SessionFormed(t) /\ SameDock(s, t) /\ LocatedAs(t, e.system) /\ Same(s, t, {"wanted"})
    BY <2>1, CarrierJumpSets, Zenon
  <2> QED
    BY <1>0, <1>2, <2>2 DEF DockingTypes, Same
<1>3. CASE e.type = "Docked"
  <2>1. t = HandleDocked(s, e)
    BY <1>3 DEF Followed, Offence
  <2>2. /\ SessionFormed(t) /\ DockedAs(t, e.station) /\ t.value["system"] = e.system
        /\ Same(s, t, {"systemCtx", "wanted"})
    BY <1>3, <2>1, DockedSets
  <2> QED
    BY <1>0, <1>3, <2>2 DEF DockingTypes, Same, LocatedAs
<1>4. CASE e.type = "Undocked"
  <2>1. t = Left(s) /\ e.station = Missing
    BY <1>4 DEF Followed, Offence
  <2>2. SessionFormed(t) /\ DockedAs(t, e.station) /\ Same(s, t, {"system", "systemCtx", "wanted"})
    BY <2>1, LeftSets
  <2> QED
    BY <1>0, <1>4, <2>2 DEF DockingTypes, Same, LocatedAs
<1>5. CASE e.type = "Location"
  <2>1. t = HandleLocation(s, e, ts)
    BY <1>5 DEF Followed, Offence
  <2>2. /\ SessionFormed(t) /\ DockedAs(t, e.station) /\ LocatedAs(t, e.system)
        /\ Same(s, t, {"wanted"})
    BY <2>1, LocationSets, Zenon
  <2> QED
    BY <1>0, <1>5, <2>2 DEF DockingTypes, Same
<1>6. CASE e.type \in Offence
  <2>1. t = PutJ(s, "wanted", TRUE)
    BY <1>6 DEF Followed, Offence
  <2>2. /\ SessionFormed(t) /\ t.value["wanted"] = TRUE /\ Same(s, t, PlaceFields \ {"wanted"})
        /\ SameSource(s, t, PlaceFields \ {"wanted"})
    BY <2>1, FlagSets, Zenon
  <2>3. SameDock(s, t) /\ Same(s, t, {"system", "systemCtx"})
    BY <2>2, Names DEF Same, SameSource, SameDock
  <2> QED
    BY <1>0, <1>6, <2>2, <2>3 DEF DockingTypes, Same, LocatedAs
<1> QED
  BY TravelKinds, <1>1, <1>2, <1>3, <1>4, <1>5, <1>6

-----------------------------------------------------------------------------
(* Whereabouts: a line is handled.                                         *)

LEMMA TravelLineTaken ==
  ASSUME TravelInv, NEW n \in DOMAIN waiting, HandleTravelLine(n),
         NEW e, e = lines[waiting[n]], NEW ts, ts = waiting[n]
  PROVE  /\ ts \in 1 .. Len(lines) /\ ts \in 1 .. MaxTravel /\ e \in TravelLine
         /\ e.type = "Docked" => e.station # Missing
         /\ e.type = "Undocked" => e.station = Missing
         /\ session' = Followed(session, e, ts)
         /\ jumpedTo' = IF e.type = "FSDJump" THEN e.system ELSE jumpedTo
         /\ lines' = lines /\ at' = at /\ carrier' = carrier /\ screen' = screen /\ flag' = flag
         /\ reply' = Missing
         /\ waiting' \in Seq(1 .. Len(lines)) /\ inOrder' \in BOOLEAN /\ Queued'
         /\ TakenNext(ts)
<1>1. /\ lines \in Seq(TravelLine) /\ waiting \in Seq(1 .. Len(lines)) /\ inOrder \in BOOLEAN
      /\ Queued /\ JournalTells /\ Len(lines) <= MaxTravel /\ MaxTravel \in Nat
      /\ Len(lines) \in Nat
  BY TravelAssumption DEF TravelInv, TravelTyped
<1>2. TakeOut(n)
  BY DEF HandleTravelLine
<1>3. /\ ts \in 1 .. Len(lines) /\ e \in TravelLine /\ lines' = lines
      /\ waiting' \in Seq(1 .. Len(lines)) /\ inOrder' \in BOOLEAN /\ Queued'
      /\ TakenNext(ts)
  BY <1>1, <1>2, TakenOut DEF TakenNext
<1>4. /\ e.type = "Docked" => e.station # Missing
      /\ e.type = "Undocked" => e.station = Missing
  BY <1>1, <1>3 DEF JournalTells
<1>5. /\ session' = Followed(session, e, ts)
      /\ jumpedTo' = IF e.type = "FSDJump" THEN e.system ELSE jumpedTo
      /\ at' = at /\ carrier' = carrier /\ screen' = screen /\ flag' = flag /\ reply' = Missing
  BY DEF HandleTravelLine, galaxy
<1>6. ts \in 1 .. MaxTravel
  BY <1>1, <1>3
<1> QED
  BY <1>3, <1>4, <1>5, <1>6

\* A journal that is not written goes on telling.
LEMMA NothingWritten ==
  ASSUME JournalTells, lines' = lines, at' = at
  PROVE  JournalTells'
<1>1. ASSUME NEW n PROVE Started(n)' <=> Started(n)
  BY DEF Started
<1> QED
  BY <1>1 DEF JournalTells

LEMMA FollowedTyped ==
  ASSUME TravelInv, NEW n \in DOMAIN waiting, HandleTravelLine(n)
  PROVE  TravelTyped' /\ JournalTells' /\ ReplyHolds' /\ ScreenHolds'
<1>1. PICK e, ts : e = lines[waiting[n]] /\ ts = waiting[n]
  OBVIOUS
<1>2. TravelTyped /\ JournalTells /\ ScreenHolds /\ SessionFormed(session)
  BY DEF TravelInv, TravelTyped
<1>3. /\ ts \in 1 .. Len(lines) /\ ts \in 1 .. MaxTravel /\ e \in TravelLine
      /\ e.type = "Docked" => e.station # Missing
      /\ e.type = "Undocked" => e.station = Missing
      /\ session' = Followed(session, e, ts)
      /\ jumpedTo' = IF e.type = "FSDJump" THEN e.system ELSE jumpedTo
      /\ lines' = lines /\ at' = at /\ carrier' = carrier /\ screen' = screen /\ flag' = flag
      /\ reply' = Missing
      /\ waiting' \in Seq(1 .. Len(lines)) /\ inOrder' \in BOOLEAN
  BY <1>1, TravelLineTaken, Zenon
<1>4. PICK t : t = Followed(session, e, ts)
  OBVIOUS
<1>5. SessionFormed(t)
  BY <1>2, <1>3, <1>4, FollowedSets, Zenon
<1>6. SessionFormed(session)'
  BY <1>3, <1>4, <1>5 DEF SessionFormed
<1>7. jumpedTo' \in Systems \cup {Missing}
  BY <1>2, <1>3, TravelKinds DEF TravelTyped
<1>8. TravelTyped'
  BY <1>2, <1>3, <1>6, <1>7 DEF TravelTyped
<1>9. JournalTells'
  <2>1. lines' = lines /\ at' = at
    BY <1>3
  <2> QED
    BY <1>2, <2>1, NothingWritten
<1>10. ScreenHolds' /\ ReplyHolds'
  <2>1. screen' = screen /\ reply' = Missing
    BY <1>3
  <2> QED
    BY <1>2, <1>3, <2>1 DEF ScreenHolds, ReplyHolds
<1> QED
  BY <1>8, <1>9, <1>10

LEMMA FollowedWhereabouts ==
  ASSUME TravelInv, NEW n \in DOMAIN waiting, HandleTravelLine(n)
  PROVE  WhereaboutsHold'
<1>1. PICK e, ts : e = lines[waiting[n]] /\ ts = waiting[n]
  OBVIOUS
<1>2. /\ TravelTyped /\ JournalTells /\ SessionFormed(session) /\ WhereaboutsHold
      /\ Len(lines) \in Nat
  BY DEF TravelInv, TravelTyped
<1>3. /\ ts \in 1 .. Len(lines) /\ ts \in 1 .. MaxTravel /\ e \in TravelLine
      /\ e.type = "Docked" => e.station # Missing
      /\ e.type = "Undocked" => e.station = Missing
      /\ session' = Followed(session, e, ts) /\ lines' = lines
  BY <1>1, TravelLineTaken, Zenon
<1>12. TakenNext(ts)
  BY <1>1, TravelLineTaken, Zenon
<1>4. PICK t : t = session'
  OBVIOUS
<1> SUFFICES ASSUME inOrder' = TRUE, Started(Handled)'
             PROVE  /\ LocatedAs(t, lines[Handled + 1].system)
                    /\ lines[Handled + 1].station = Missing => t.value["docked"] = FALSE
                    /\ lines[Handled + 1].station # Missing => t.value["docked"] = TRUE
                    /\ t.source["docked"] = 1
                    /\ StationRight(Handled)' \/ StationAhead'
  BY <1>3, <1>4, <1>12 DEF TakenNext, WhereaboutsHold, LocatedAs, Registers!Journal
<1>5. /\ inOrder = TRUE /\ ts = Handled + 1 /\ Handled' = Handled + 1 /\ Handled \in Nat
      /\ e = lines[Handled + 1]
  BY <1>1, <1>3, <1>12 DEF TakenNext
<1>6. /\ e.type \in DockingTypes => DockedAs(t, e.station)
      /\ e.type \notin DockingTypes => SameDock(session, t)
      /\ e.type = "Location" \/ LocatedAs(session, e.system) \/ e.type \in {"FSDJump", "CarrierJump"}
           => LocatedAs(t, e.system)
  BY <1>2, <1>3, <1>4, FollowedSets, Zenon
<1>7. e.type # "Location" => Started(Handled)
  <2> SUFFICES ASSUME e.type # "Location" PROVE Started(Handled)
    OBVIOUS
  <2>1. PICK m \in 1 .. Handled + 1 : lines[m].type = "Location"
    BY <1>3, <1>5 DEF Started
  <2> QED
    BY <1>5, <2>1 DEF Started
<1>8. ASSUME Started(Handled)
      PROVE  /\ Handled >= 1 /\ LocatedAs(session, lines[Handled].system)
             /\ lines[Handled].station = Missing => session.value["docked"] = FALSE
             /\ lines[Handled].station # Missing => session.value["docked"] = TRUE
             /\ session.source["docked"] = 1
             /\ StationRight(Handled) \/ StationAhead
  BY <1>2, <1>5, <1>8 DEF WhereaboutsHold, LocatedAs, Started, Registers!Journal
<1>9. LocatedAs(t, e.system)
  <2>1. CASE e.type \in {"Location", "FSDJump", "CarrierJump"}
    BY <1>6, <2>1
  <2>2. CASE e.type \in {"Docked", "Undocked"} \cup Offence
    <3>1. Started(Handled)
      BY <1>7, <2>2 DEF Offence
    <3>2. Handled + 1 \in 2 .. Len(lines) /\ (Handled + 1) - 1 = Handled
      BY <1>2, <1>3, <1>5, <1>8, <3>1
    <3>3. e.system = lines[Handled].system
      BY <1>2, <1>5, <2>2, <3>1, <3>2 DEF JournalTells, Offence
    <3> QED
      BY <1>6, <1>8, <3>1, <3>3
  <2> QED
    BY <1>3, <2>1, <2>2, TravelKinds DEF Offence
<1>10. CASE e.type \in DockingTypes
  <2>1. DockedAs(t, e.station)
    BY <1>6, <1>10
  <2>2. StationRight(Handled)'
    BY <1>3, <1>4, <1>5, <2>1 DEF StationRight, DockedAs
  <2> QED
    BY <1>5, <1>9, <2>1, <2>2 DEF DockedAs
<1>11. CASE e.type \notin DockingTypes
  <2>1. e.type # "Location"
    BY <1>11 DEF DockingTypes
  <2>2. Started(Handled)
    BY <1>7, <2>1
  <2>3. Handled + 1 \in 2 .. Len(lines) /\ (Handled + 1) - 1 = Handled
    BY <1>2, <1>3, <1>5, <1>8, <2>2
  <2>4. e.station = lines[Handled].station
    BY <1>2, <1>5, <1>11, <2>2, <2>3 DEF JournalTells
  <2>5. SameDock(session, t)
    BY <1>6, <1>11
  <2>6. StationRight(Handled)' \/ StationAhead'
    <3>1. CASE StationRight(Handled)
      BY <1>3, <1>4, <1>5, <2>4, <2>5, <3>1 DEF StationRight, SameDock
    <3>2. CASE StationAhead
      <4>1. PICK k \in (Handled + 1) .. Len(lines) : lines[k].type \in DockingTypes
        BY <3>2 DEF StationAhead
      <4>2. k \in (Handled' + 1) .. Len(lines)
        BY <1>2, <1>5, <1>11, <4>1
      <4> QED
        BY <1>3, <4>1, <4>2 DEF StationAhead
    <3> QED
      BY <1>8, <2>2, <3>1, <3>2
  <2>7. t.value["docked"] = session.value["docked"] /\ t.source["docked"] = session.source["docked"]
    BY <2>5 DEF SameDock
  <2> QED
    BY <1>5, <1>8, <1>9, <2>2, <2>4, <2>6, <2>7
<1> QED
  BY <1>10, <1>11

\* The jump handled next clears what the commander is wanted for when the one handled
\* last went elsewhere.
LEMMA ClearsSeen ==
  ASSUME JumpHolds, inOrder = TRUE, Handled \in Nat, Handled + 1 \in 1 .. Len(lines),
         Len(lines) \in Nat, lines \in Seq(TravelLine)
  PROVE  Clears(Handled + 1) <=>
           /\ lines[Handled + 1].type = "FSDJump"
           /\ Differ(jumpedTo, lines[Handled + 1].system)
<1>1. PICK e : e = lines[Handled + 1]
  OBVIOUS
<1>2. \A k \in 1 .. Len(lines) : lines[k] \in TravelLine /\ lines[k].system # Missing
  BY TravelKinds
<1>3. JumpsBefore(Handled + 1) = {k \in 1 .. Handled : lines[k].type = "FSDJump"}
  BY DEF JumpsBefore
<1>4. CASE \A k \in 1 .. Handled : lines[k].type # "FSDJump"
  <2>1. jumpedTo = Missing /\ JumpsBefore(Handled + 1) = {}
    BY <1>3, <1>4 DEF JumpHolds
  <2> QED
    BY <2>1 DEF Clears, Differ
<1>5. CASE ~\A k \in 1 .. Handled : lines[k].type # "FSDJump"
  <2>1. PICK j \in 1 .. Handled :
          /\ lines[j].type = "FSDJump" /\ jumpedTo = lines[j].system
          /\ \A k \in (j + 1) .. Handled : lines[k].type # "FSDJump"
    BY <1>5 DEF JumpHolds
  <2>2. j \in JumpsBefore(Handled + 1) /\ \A k \in JumpsBefore(Handled + 1) : k <= j
    BY <1>3, <2>1
  <2>3. ASSUME NEW i \in JumpsBefore(Handled + 1), \A k \in JumpsBefore(Handled + 1) : k <= i
        PROVE  i = j
    BY <1>3, <2>1, <2>2, <2>3
  <2>4. Clears(Handled + 1) <=> e.type = "FSDJump" /\ jumpedTo # e.system
    BY <1>1, <2>1, <2>2, <2>3 DEF Clears
  <2>5. jumpedTo # Missing /\ e.system # Missing
    BY <1>1, <1>2, <2>1
  <2> QED
    BY <1>1, <2>4, <2>5 DEF Differ
<1> QED
  BY <1>4, <1>5

LEMMA FollowedWanted ==
  ASSUME TravelInv, NEW n \in DOMAIN waiting, HandleTravelLine(n)
  PROVE  JumpHolds' /\ WantedHolds'
<1>1. PICK e, ts : e = lines[waiting[n]] /\ ts = waiting[n]
  OBVIOUS
<1>2. /\ SessionFormed(session) /\ JumpHolds /\ WantedHolds /\ Len(lines) \in Nat
      /\ lines \in Seq(TravelLine)
  BY DEF TravelInv, TravelTyped
<1>3. /\ ts \in 1 .. Len(lines) /\ ts \in 1 .. MaxTravel /\ e \in TravelLine
      /\ e.type = "Docked" => e.station # Missing
      /\ e.type = "Undocked" => e.station = Missing
      /\ session' = Followed(session, e, ts) /\ lines' = lines
      /\ jumpedTo' = IF e.type = "FSDJump" THEN e.system ELSE jumpedTo
  BY <1>1, TravelLineTaken, Zenon
<1>9. TakenNext(ts)
  BY <1>1, TravelLineTaken, Zenon
<1> SUFFICES ASSUME inOrder' = TRUE PROVE JumpHolds' /\ WantedHolds'
  BY DEF JumpHolds, WantedHolds
<1>4. PICK t : t = session'
  OBVIOUS
<1>5. /\ inOrder = TRUE /\ ts = Handled + 1 /\ Handled' = Handled + 1 /\ Handled \in Nat
      /\ e = lines[Handled + 1]
  BY <1>1, <1>3, <1>9 DEF TakenNext
<1>6. /\ e.type \notin {"FSDJump"} \cup Offence => t.value["wanted"] = session.value["wanted"]
      /\ e.type \in Offence => t.value["wanted"] = TRUE
      /\ e.type = "FSDJump" => WantedAfter(session, t, e)
  <2>1. /\ SessionFormed(session) /\ e \in TravelLine /\ ts \in 1 .. MaxTravel
        /\ e.type = "Docked" => e.station # Missing
        /\ e.type = "Undocked" => e.station = Missing
        /\ t = Followed(session, e, ts)
    BY <1>2, <1>3, <1>4, Zenon
  <2> QED
    BY <2>1, FollowedSets, ZenonT(60)
<1>7. JumpHolds'
  <2>1. CASE e.type = "FSDJump"
    <3>1. Handled + 1 \in 1 .. Handled + 1 /\ jumpedTo' = lines[Handled + 1].system
          /\ lines[Handled + 1].type = "FSDJump"
          /\ \A k \in (Handled + 1 + 1) .. Handled + 1 : lines[k].type # "FSDJump"
      BY <1>3, <1>5, <2>1
    <3> QED
      BY <1>3, <1>5, <3>1 DEF JumpHolds
  <2>2. CASE e.type # "FSDJump"
    <3>1. jumpedTo' = jumpedTo /\ lines[Handled + 1].type # "FSDJump"
      BY <1>3, <1>5, <2>2
    <3>2. CASE \A k \in 1 .. Handled : lines[k].type # "FSDJump"
      <4>1. jumpedTo = Missing /\ \A k \in 1 .. Handled + 1 : lines[k].type # "FSDJump"
        BY <1>2, <1>5, <3>1, <3>2 DEF JumpHolds
      <4> QED
        BY <1>3, <1>5, <3>1, <4>1 DEF JumpHolds
    <3>3. CASE ~\A k \in 1 .. Handled : lines[k].type # "FSDJump"
      <4>1. PICK j \in 1 .. Handled :
              /\ lines[j].type = "FSDJump" /\ jumpedTo = lines[j].system
              /\ \A k \in (j + 1) .. Handled : lines[k].type # "FSDJump"
        BY <1>2, <1>5, <3>3 DEF JumpHolds
      <4>2. j \in 1 .. Handled + 1
            /\ \A k \in (j + 1) .. Handled + 1 : lines[k].type # "FSDJump"
        BY <1>5, <3>1, <4>1
      <4> QED
        BY <1>3, <1>5, <3>1, <4>1, <4>2 DEF JumpHolds
    <3> QED
      BY <3>2, <3>3
  <2> QED
    BY <2>1, <2>2
<1>8. WantedHolds'
  <2> SUFFICES /\ t.value["wanted"] = TRUE => OutlawAt(Handled + 1)
               /\ OutlawAt(Handled + 1) => t.value["wanted"] = TRUE
    BY <1>3, <1>4, <1>5 DEF WantedHolds, OutlawAt, Clears, JumpsBefore
  <2>1. CASE e.type \in Offence
    <3>1. Handled + 1 \in 1 .. Handled + 1 /\ \A k \in (Handled + 1 + 1) .. Handled + 1 : FALSE
      BY <1>5
    <3>2. OutlawAt(Handled + 1)
      BY <1>5, <2>1, <3>1 DEF OutlawAt
    <3> QED
      BY <1>6, <2>1, <3>2
  <2>2. CASE e.type = "FSDJump" /\ Differ(jumpedTo, e.system)
    <3>1. t.value["wanted"] = FALSE /\ Clears(Handled + 1)
      BY <1>2, <1>3, <1>5, <1>6, <2>2, ClearsSeen DEF WantedAfter
    <3>2. ASSUME NEW m \in 1 .. Handled + 1, lines[m].type \in Offence,
                 \A k \in (m + 1) .. Handled + 1 : ~Clears(k)
          PROVE  FALSE
      <4>1. m # Handled + 1
        BY <1>5, <2>2, <3>2 DEF Offence
      <4>2. Handled + 1 \in (m + 1) .. Handled + 1
        BY <1>5, <4>1
      <4> QED
        BY <3>1, <3>2, <4>2
    <3>3. ~OutlawAt(Handled + 1)
      BY <3>2 DEF OutlawAt
    <3> QED
      BY <3>1, <3>3
  <2>3. CASE e.type \notin Offence /\ ~(e.type = "FSDJump" /\ Differ(jumpedTo, e.system))
    <3>1. t.value["wanted"] = session.value["wanted"] /\ ~Clears(Handled + 1)
      BY <1>2, <1>3, <1>5, <1>6, <2>3, ClearsSeen DEF WantedAfter
    <3>2. OutlawAt(Handled) => OutlawAt(Handled + 1)
      <4>1. ASSUME NEW m \in 1 .. Handled, \A k \in (m + 1) .. Handled : ~Clears(k),
                   NEW k \in (m + 1) .. Handled + 1
            PROVE  ~Clears(k)
        BY <1>5, <3>1, <4>1
      <4>2. 1 .. Handled \subseteq 1 .. Handled + 1
        BY <1>5
      <4> QED
        BY <4>1, <4>2 DEF OutlawAt
    <3>3. OutlawAt(Handled + 1) => OutlawAt(Handled)
      <4>1. ASSUME NEW m \in 1 .. Handled + 1, lines[m].type \in Offence
            PROVE  m \in 1 .. Handled
        BY <1>5, <2>3, <4>1
      <4>2. ASSUME NEW m \in 1 .. Handled, NEW k \in (m + 1) .. Handled
            PROVE  k \in (m + 1) .. Handled + 1
        BY <1>5
      <4> QED
        BY <4>1, <4>2 DEF OutlawAt
    <3> QED
      BY <1>2, <1>5, <3>1, <3>2, <3>3 DEF WantedHolds
  <2> QED
    BY <2>1, <2>2, <2>3 DEF Offence
<1> QED
  BY <1>7, <1>8

LEMMA TravelLineStep ==
  ASSUME TravelInv, NEW n \in DOMAIN waiting, HandleTravelLine(n)
  PROVE  TravelInv'
<1>1. Queued'
  BY TravelLineTaken, Zenon
<1> QED
  BY <1>1, FollowedTyped, FollowedWhereabouts, FollowedWanted DEF TravelInv

-----------------------------------------------------------------------------
(* Whereabouts: the commander travels.                                     *)

\* Where a commander may be, when the journal has a line about it.
Consistent(type, place) ==
  /\ type \in {"Location", "Docked", "Undocked", "FSDJump", "CarrierJump"} \cup Offence
  /\ place \in Whereabouts
  /\ type = "Docked" => place.station # Missing
  /\ type \in {"Undocked", "FSDJump"} => place.station = Missing
  /\ InSession /\ type \in {"Docked", "Undocked"} \cup Offence => place.system = at.system
  /\ InSession /\ type \notin DockingTypes => place.station = at.station

LEMMA LineEntered ==
  ASSUME TravelInv, NEW type, NEW place, Consistent(type, place), Travel(type, place)
  PROVE  /\ Len(lines) \in Nat /\ lines' \in Seq(TravelLine) /\ Len(lines') = Len(lines) + 1
         /\ Len(lines') <= MaxTravel
         /\ \A n \in 1 .. Len(lines) : lines'[n] = lines[n]
         /\ lines'[Len(lines) + 1].type = type
         /\ lines'[Len(lines) + 1].system = place.system
         /\ lines'[Len(lines) + 1].station = place.station
         /\ waiting' \in Seq(1 .. Len(lines')) /\ Handled' = Handled /\ inOrder' = inOrder
         /\ Queued' /\ at' = place /\ session' = session /\ screen' = screen
         /\ flag' = flag /\ jumpedTo' = jumpedTo /\ reply' = Missing
         /\ inOrder = TRUE => Handled \in Nat /\ Handled <= Len(lines)
<1>1. PICK line : line = Entry(type, place)
  OBVIOUS
<1>2. /\ line \in TravelLine /\ line.type = type
      /\ line.system = place.system /\ line.station = place.station
  BY <1>1 DEF Consistent, Whereabouts, TravelLine, Entry
<1>3. /\ lines \in Seq(TravelLine) /\ waiting \in Seq(1 .. Len(lines)) /\ Queued
      /\ Len(lines) \in Nat /\ MaxTravel \in Nat /\ Len(waiting) \in Nat
  BY TravelAssumption DEF TravelInv, TravelTyped
<1>4. /\ Enter(line) /\ Len(lines) < MaxTravel /\ at' = place /\ session' = session
      /\ screen' = screen /\ flag' = flag /\ jumpedTo' = jumpedTo /\ reply' = Missing
  BY <1>1 DEF Travel
<1>5. /\ lines' \in Seq(TravelLine) /\ Len(lines') = Len(lines) + 1
      /\ \A n \in 1 .. Len(lines) : lines'[n] = lines[n]
      /\ lines'[Len(lines) + 1] = line
      /\ waiting' \in Seq(1 .. Len(lines')) /\ Handled' = Handled /\ inOrder' = inOrder
      /\ Queued'
  BY <1>2, <1>3, <1>4, Entered
<1>6. inOrder = TRUE => Handled \in Nat /\ Handled <= Len(lines)
  BY <1>3 DEF Queued, Handled
<1> QED
  BY <1>2, <1>3, <1>4, <1>5, <1>6

LEMMA TellsOn ==
  ASSUME TravelInv, NEW type, NEW place, Consistent(type, place), Travel(type, place)
  PROVE  JournalTells'
<1> DEFINE N == Len(lines)
<1>1. /\ N \in Nat /\ Len(lines') = N + 1
      /\ \A n \in 1 .. N : lines'[n] = lines[n]
      /\ lines'[N + 1].type = type /\ lines'[N + 1].system = place.system
      /\ lines'[N + 1].station = place.station /\ at' = place
  BY LineEntered
<1>2. JournalTells /\ lines \in Seq(TravelLine)
  BY DEF TravelInv, TravelTyped
<1>3. ASSUME NEW n \in 1 .. N PROVE Started(n)' <=> Started(n)
  BY <1>1, <1>3 DEF Started
<1>4. ASSUME Started(N) PROVE InSession /\ at.system = lines[N].system /\ at.station = lines[N].station
  BY <1>1, <1>2, <1>4 DEF JournalTells, Started, InSession
<1>5. ASSUME NEW n \in 1 .. Len(lines')
      PROVE  /\ lines'[n].type = "Docked" => lines'[n].station # Missing
             /\ lines'[n].type \in {"Undocked", "FSDJump"} => lines'[n].station = Missing
  <2>1. CASE n \in 1 .. N
    BY <1>1, <1>2, <2>1 DEF JournalTells
  <2>2. CASE n = N + 1
    BY <1>1, <2>2 DEF Consistent
  <2> QED
    BY <1>1, <2>1, <2>2
<1>6. ASSUME NEW n \in 2 .. Len(lines')
      PROVE  /\ Started(n - 1)' /\ lines'[n].type \in {"Docked", "Undocked"} \cup Offence =>
                  lines'[n].system = lines'[n - 1].system
             /\ Started(n - 1)' /\ lines'[n].type \notin DockingTypes =>
                  lines'[n].station = lines'[n - 1].station
  <2>1. n - 1 \in 1 .. N /\ lines'[n - 1] = lines[n - 1]
    BY <1>1
  <2>2. Started(n - 1)' <=> Started(n - 1)
    BY <1>3, <2>1
  <2>3. CASE n \in 2 .. N
    BY <1>1, <1>2, <2>1, <2>2, <2>3 DEF JournalTells
  <2>4. CASE n = N + 1
    BY <1>1, <1>4, <2>1, <2>2, <2>4 DEF Consistent
  <2> QED
    BY <1>1, <2>3, <2>4
<1>7. ASSUME NEW m \in 1 .. Len(lines'), NEW n \in m .. Len(lines'), Started(m)',
             \A k \in (m + 1) .. n : lines'[k].type \notin DockingTypes
      PROVE  lines'[n].station = lines'[m].station
  <2>1. CASE n \in 1 .. N
    <3>1. m \in 1 .. N /\ n \in m .. N /\ Started(m)
      BY <1>1, <1>3, <1>7, <2>1
    <3>2. \A k \in (m + 1) .. n : lines[k].type \notin DockingTypes
      BY <1>1, <1>7, <3>1
    <3> QED
      BY <1>1, <1>2, <3>1, <3>2 DEF JournalTells
  <2>2. CASE n = N + 1 /\ m = N + 1
    BY <2>2
  <2>3. CASE n = N + 1 /\ m \in 1 .. N
    <3>1. Started(m) /\ N \in m .. N
      BY <1>1, <1>3, <1>7, <2>3
    <3>2. Started(N)
      BY <1>1, <2>3, <3>1 DEF Started
    <3>3. \A k \in (m + 1) .. N : lines[k].type \notin DockingTypes
      BY <1>1, <1>7, <2>3
    <3>4. lines[N].station = lines[m].station
      BY <1>2, <2>3, <3>1, <3>3 DEF JournalTells
    <3>5. type \notin DockingTypes
      BY <1>1, <1>7, <2>3
    <3>6. place.station = at.station
      BY <1>4, <3>2, <3>5 DEF Consistent
    <3> QED
      BY <1>1, <1>4, <2>3, <3>2, <3>4, <3>6
  <2> QED
    BY <1>1, <2>1, <2>2, <2>3
<1>8. /\ at'.system = lines'[Len(lines')].system
      /\ at'.station = lines'[Len(lines')].station
  BY <1>1
<1> QED
  BY <1>5, <1>6, <1>7, <1>8, Zenon DEF JournalTells

LEMMA TravelStep ==
  ASSUME TravelInv, NEW type, NEW place, Consistent(type, place), Travel(type, place),
         carrier' \in Systems
  PROVE  TravelInv'
<1> DEFINE N == Len(lines)
<1>1. /\ N \in Nat /\ lines' \in Seq(TravelLine) /\ Len(lines') = N + 1
      /\ Len(lines') <= MaxTravel
      /\ \A n \in 1 .. N : lines'[n] = lines[n]
      /\ waiting' \in Seq(1 .. Len(lines')) /\ Handled' = Handled /\ inOrder' = inOrder
      /\ Queued' /\ at' = place /\ session' = session /\ screen' = screen
      /\ flag' = flag /\ jumpedTo' = jumpedTo /\ reply' = Missing
      /\ inOrder = TRUE => Handled \in Nat /\ Handled <= N
  BY LineEntered, Zenon
<1>2. TravelTyped /\ WhereaboutsHold /\ JumpHolds /\ WantedHolds /\ ScreenHolds
  BY DEF TravelInv
<1>3. TravelTyped'
  BY <1>1, <1>2 DEF TravelTyped, SessionFormed, Consistent
<1>4. ReplyHolds' /\ ScreenHolds'
  BY <1>1, <1>2 DEF ReplyHolds, ScreenHolds
<1>5. WhereaboutsHold'
  <2> SUFFICES ASSUME inOrder = TRUE, Started(Handled)' PROVE WhereaboutsHold'
    BY <1>1 DEF WhereaboutsHold
  <2>1. Handled \in Nat /\ Handled <= N
    BY <1>1
  <2>2. Started(Handled) /\ Handled \in 1 .. N
    <3>1. PICK h : h = Handled
      OBVIOUS
    <3>2. PICK m \in 1 .. h : lines'[m].type = "Location"
      BY <1>1, <3>1 DEF Started
    <3>3. h \in Nat /\ h <= N
      BY <2>1, <3>1
    <3>4. m \in 1 .. N /\ h \in 1 .. N
      BY <3>3
    <3>5. lines[m].type = "Location"
      BY <1>1, <3>2, <3>4
    <3> QED
      BY <3>1, <3>4, <3>5 DEF Started
  <2>3. lines'[Handled] = lines[Handled]
    BY <1>1, <2>2
  <2>4. StationRight(Handled) => StationRight(Handled)'
    BY <1>1, <2>3 DEF StationRight
  <2>5. ASSUME StationAhead PROVE StationAhead'
    <3>1. PICK n \in (Handled + 1) .. N : lines[n].type \in DockingTypes
      BY <2>5 DEF StationAhead
    <3>2. n \in 1 .. N /\ n \in (Handled + 1) .. N + 1
      BY <1>1, <2>1
    <3>3. lines'[n].type \in DockingTypes
      BY <1>1, <3>1, <3>2
    <3> QED
      BY <1>1, <3>2, <3>3 DEF StationAhead
  <2> QED
    BY <1>1, <1>2, <2>2, <2>3, <2>4, <2>5 DEF WhereaboutsHold
<1>6. JumpHolds'
  <2> SUFFICES ASSUME inOrder = TRUE PROVE JumpHolds'
    BY <1>1 DEF JumpHolds
  <2>1. Handled \in Nat /\ Handled <= N
    BY <1>1
  <2>2. \A n \in 1 .. Handled : lines'[n] = lines[n]
    BY <1>1, <2>1
  <2>3. CASE \A n \in 1 .. Handled : lines[n].type # "FSDJump"
    BY <1>1, <1>2, <2>2, <2>3 DEF JumpHolds
  <2>4. CASE ~\A n \in 1 .. Handled : lines[n].type # "FSDJump"
    <3>1. PICK j \in 1 .. Handled :
            /\ lines[j].type = "FSDJump" /\ jumpedTo = lines[j].system
            /\ \A n \in (j + 1) .. Handled : lines[n].type # "FSDJump"
      BY <1>2, <2>4 DEF JumpHolds
    <3>2. lines'[j].type = "FSDJump" /\ jumpedTo' = lines'[j].system
      BY <1>1, <2>2, <3>1
    <3>3. ASSUME NEW n \in (j + 1) .. Handled PROVE lines'[n].type # "FSDJump"
      <4>1. n \in 1 .. Handled
        BY <2>1
      <4> QED
        BY <2>2, <3>1, <4>1
    <3>4. ~\A n \in 1 .. Handled : lines'[n].type # "FSDJump"
      BY <3>2
    <3> QED
      BY <1>1, <3>2, <3>3, <3>4 DEF JumpHolds
  <2> QED
    BY <2>3, <2>4
<1>7. WantedHolds'
  <2> SUFFICES ASSUME inOrder = TRUE PROVE WantedHolds'
    BY <1>1 DEF WantedHolds
  <2>1. Handled \in Nat /\ Handled <= N
    BY <1>1
  <2>2. ASSUME NEW k \in 1 .. Handled
        PROVE  lines'[k] = lines[k] /\ (Clears(k)' <=> Clears(k))
    <3>1. k \in 1 .. N /\ \A m \in 1 .. k - 1 : m \in 1 .. N
      BY <1>1, <2>1
    <3>2. JumpsBefore(k)' = JumpsBefore(k) /\ JumpsBefore(k) \subseteq 1 .. N
      BY <1>1, <3>1 DEF JumpsBefore
    <3> QED
      BY <1>1, <3>1, <3>2 DEF Clears
  <2>3. ASSUME NEW n \in 1 .. Handled, NEW k \in (n + 1) .. Handled PROVE k \in 1 .. Handled
    BY <2>1
  <2>4. OutlawAt(Handled)' <=> OutlawAt(Handled)
    BY <1>1, <2>2, <2>3 DEF OutlawAt
  <2> QED
    BY <1>1, <1>2, <2>4 DEF WantedHolds
<1> QED
  BY <1>1, <1>3, <1>4, <1>5, <1>6, <1>7, TellsOn DEF TravelInv

LEMMA JourneyStep ==
  ASSUME TravelInv,
         \/ StartSession \/ Undock \/ \E offence \in Offence : Clash(offence)
         \/ \E s \in Systems : Jump(s) \/ RideCarrier(s)
         \/ \E station \in Station : Dock(station)
  PROVE  TravelInv'
<1>1. at \in Whereabouts /\ carrier \in Systems
  BY DEF TravelInv, TravelTyped
<1>2. CASE StartSession
  <2>1. Travel("Location", at) /\ carrier' = carrier
    BY <1>2 DEF StartSession
  <2>2. Consistent("Location", at)
    BY <1>1 DEF Consistent, DockingTypes
  <2> QED
    BY <1>1, <2>1, <2>2, TravelStep
<1>3. CASE Undock
  <2>1. Travel("Undocked", Place(at.system, Missing)) /\ carrier' = carrier
    BY <1>3 DEF Undock
  <2>2. Consistent("Undocked", Place(at.system, Missing))
    BY <1>1 DEF Consistent, DockingTypes, Whereabouts, Place
  <2> QED
    BY <1>1, <2>1, <2>2, TravelStep
<1>4. ASSUME NEW offence \in Offence, Clash(offence) PROVE TravelInv'
  <2>1. Travel(offence, at) /\ carrier' = carrier
    BY <1>4 DEF Clash
  <2>2. Consistent(offence, at)
    BY <1>1 DEF Consistent, Offence
  <2> QED
    BY <1>1, <2>1, <2>2, TravelStep
<1>5. ASSUME NEW s \in Systems, Jump(s) PROVE TravelInv'
  <2>1. /\ Travel("FSDJump", Place(s, Missing)) /\ carrier' = carrier
        /\ at.station = Missing
    BY <1>5 DEF Jump
  <2>2. Consistent("FSDJump", Place(s, Missing))
    BY <1>1, <2>1 DEF Consistent, Whereabouts, Place, Offence
  <2> QED
    BY <1>1, <2>1, <2>2, TravelStep
<1>6. ASSUME NEW s \in Systems, RideCarrier(s) PROVE TravelInv'
  <2>1. Travel("CarrierJump", Place(s, Carrier)) /\ carrier' = s /\ at.station = Carrier
    BY <1>6 DEF RideCarrier
  <2>2. Consistent("CarrierJump", Place(s, Carrier))
    BY <1>1, <2>1 DEF Consistent, Whereabouts, Place, Station, Offence
  <2> QED
    BY <1>1, <2>1, <2>2, TravelStep
<1>7. ASSUME NEW station \in Station, Dock(station) PROVE TravelInv'
  <2>1. Travel("Docked", Place(at.system, station)) /\ carrier' = carrier
    BY <1>7 DEF Dock
  <2>2. Consistent("Docked", Place(at.system, station))
    BY <1>1, TravelAssumption DEF Consistent, Whereabouts, Place, DockingTypes
  <2> QED
    BY <1>1, <2>1, <2>2, TravelStep
<1> QED
  BY <1>2, <1>3, <1>4, <1>5, <1>6, <1>7

-----------------------------------------------------------------------------
(* Whereabouts: screens, the Docked flag and the requests.                 *)

\* What is told of the journal and of the session state, when both stay.
LEMMA NothingHandled ==
  ASSUME TravelInv, lines' = lines, waiting' = waiting, inOrder' = inOrder, at' = at,
         session' = session, jumpedTo' = jumpedTo
  PROVE  /\ SessionFormed(session)' /\ Queued' /\ JournalTells' /\ WhereaboutsHold'
         /\ JumpHolds' /\ WantedHolds'
<1>1. Handled' = Handled
  BY DEF Handled
<1>2. \A n : Started(n)' <=> Started(n)
  BY DEF Started
<1>3. \A n : OutlawAt(n)' <=> OutlawAt(n)
  BY DEF OutlawAt, Clears, JumpsBefore
<1>4. SessionFormed(session)'
  BY DEF TravelInv, TravelTyped, SessionFormed
<1>5. Queued'
  BY <1>1 DEF TravelInv, Queued
<1>6. JournalTells'
  BY <1>2 DEF TravelInv, JournalTells
<1>7. WhereaboutsHold'
  <2>1. (StationRight(Handled)' <=> StationRight(Handled)) /\ (StationAhead' <=> StationAhead)
    BY <1>1 DEF StationRight, StationAhead
  <2> QED
    BY <1>1, <1>2, <2>1 DEF TravelInv, WhereaboutsHold
<1>8. JumpHolds'
  BY <1>1 DEF TravelInv, JumpHolds
<1>9. WantedHolds'
  BY <1>1, <1>3 DEF TravelInv, WantedHolds
<1> QED
  BY <1>4, <1>5, <1>6, <1>7, <1>8, <1>9

LEMMA OpenScreenStep == ASSUME TravelInv, OpenScreen PROVE TravelInv'
<1>1. /\ screen' = at /\ at.station # Missing /\ reply' = Missing /\ at' = at
      /\ carrier' = carrier /\ lines' = lines /\ waiting' = waiting /\ flag' = flag
      /\ session' = session /\ jumpedTo' = jumpedTo /\ inOrder' = inOrder
  BY DEF OpenScreen
<1>2. /\ SessionFormed(session)' /\ Queued' /\ JournalTells' /\ WhereaboutsHold'
      /\ JumpHolds' /\ WantedHolds'
  BY <1>1, NothingHandled, Zenon
<1>3. TravelTyped'
  BY <1>1, <1>2 DEF TravelInv, TravelTyped
<1>4. ReplyHolds' /\ ScreenHolds'
  BY <1>1 DEF ReplyHolds, ScreenHolds
<1> QED
  BY <1>2, <1>3, <1>4 DEF TravelInv

LEMMA PollStatusStep == ASSUME TravelInv, PollStatus PROVE TravelInv'
<1>1. /\ screen' = screen /\ reply' = Missing /\ at' = at
      /\ carrier' = carrier /\ lines' = lines /\ waiting' = waiting
      /\ session' = session /\ jumpedTo' = jumpedTo /\ inOrder' = inOrder
  BY DEF PollStatus, galaxy
<1>2. flag' \in BOOLEAN
  <2>1. flag' = (at.station # Missing)
    BY DEF PollStatus
  <2> QED
    BY <2>1, Zenon
<1>3. /\ SessionFormed(session)' /\ Queued' /\ JournalTells' /\ WhereaboutsHold'
      /\ JumpHolds' /\ WantedHolds'
  BY <1>1, NothingHandled, Zenon
<1>4. TravelTyped'
  BY <1>1, <1>2, <1>3 DEF TravelInv, TravelTyped
<1>5. ReplyHolds' /\ ScreenHolds'
  BY <1>1 DEF TravelInv, ReplyHolds, ScreenHolds
<1> QED
  BY <1>3, <1>4, <1>5 DEF TravelInv

\* A step that changes the session state alone, and nothing that is told of it.
LEMMA SessionStep ==
  ASSUME TravelInv, NEW t, SessionFormed(t), session' = t,
         t.value["wanted"] = session.value["wanted"],
         lines' = lines, waiting' = waiting, inOrder' = inOrder, at' = at, carrier' = carrier,
         screen' = screen, jumpedTo' = jumpedTo, flag' \in BOOLEAN \cup {Missing},
         ReplyHolds', WhereaboutsHold'
  PROVE  TravelInv'
<1>1. TravelTyped'
  BY DEF TravelInv, TravelTyped, SessionFormed
<1>2. Queued' /\ JournalTells' /\ JumpHolds' /\ WantedHolds' /\ ScreenHolds'
  BY DEF TravelInv, Queued, JournalTells, JumpHolds, WantedHolds, Handled, Started, OutlawAt,
     Clears, JumpsBefore, ScreenHolds
<1> QED
  BY <1>1, <1>2 DEF TravelInv

LEMMA HandleDockedFlagStep == ASSUME TravelInv, HandleDockedFlag PROVE TravelInv'
<1>1. /\ SessionFormed(session) /\ flag \in BOOLEAN \cup {Missing} /\ WhereaboutsHold
  BY DEF TravelInv, TravelTyped
<1>2. /\ flag # Missing /\ flag' = Missing /\ reply' = Missing
      /\ at' = at /\ carrier' = carrier /\ screen' = screen /\ lines' = lines
      /\ waiting' = waiting /\ jumpedTo' = jumpedTo /\ inOrder' = inOrder
  BY DEF HandleDockedFlag, galaxy
<1>3. PICK t : t = Registers!Put(session, "docked", flag, Registers!StatusJson)
  OBVIOUS
<1>4. session' = t
  BY <1>3 DEF HandleDockedFlag
<1>5. flag \in BOOLEAN
  BY <1>1, <1>2
<1>6. /\ SessionFormed(t)
      /\ session.source["docked"] = 1 => t = session
      /\ \A g \in PlaceFields \ {"docked"} : t.value[g] = session.value[g]
  BY <1>1, <1>3, <1>5, PutByStatus, Zenon
<1>7. t.value["wanted"] = session.value["wanted"]
  BY <1>6, Names
<1>8. WhereaboutsHold'
  <2> SUFFICES ASSUME inOrder = TRUE, Started(Handled) PROVE WhereaboutsHold'
    BY <1>2 DEF WhereaboutsHold, Started, Handled
  <2>1. session' = session
    BY <1>1, <1>4, <1>6 DEF WhereaboutsHold, Registers!Journal
  <2> QED
    BY <1>1, <1>2, <2>1 DEF WhereaboutsHold, Started, Handled, StationRight, StationAhead
<1>9. ReplyHolds'
  BY <1>2 DEF ReplyHolds
<1> QED
  BY <1>2, <1>4, <1>6, <1>7, <1>8, <1>9, SessionStep

\* What a scan finds, a field may hold.
LEMMA ScanTyped ==
  ASSUME TravelTyped, NEW f \in {"docked", "supercruise", "system", "station", "systemCtx",
                                 "stationCtx"}
  PROVE  Scan(f) \in Kept(f) \cup {Missing}
<1>1. CASE LastOfPlace(f) = {}
  BY <1>1 DEF Scan
<1>2. CASE LastOfPlace(f) # {}
  <2>1. PICK n \in LastOfPlace(f) : Scan(f) = ToldOfPlace(lines[n], n, f)
    BY <1>2 DEF Scan
  <2>2. PICK e : e = lines[n]
    OBVIOUS
  <2>3. /\ n \in 1 .. MaxTravel /\ e.system \in Systems /\ e.station \in Station \cup {Missing}
    BY <2>1, <2>2, TravelAssumption, TravelKinds DEF LastOfPlace, TravelTyped
  <2>4. CASE f = "docked"
    <3>1. ToldOfPlace(e, n, f) = Arrives(e) /\ Kept(f) = BOOLEAN
      BY <2>4, Names DEF ToldOfPlace
    <3>2. Arrives(e) \in BOOLEAN
      BY Zenon DEF Arrives
    <3> QED
      BY <2>1, <2>2, <3>1, <3>2, Zenon
  <2>5. CASE f = "supercruise"
    <3>1. ToldOfPlace(e, n, f) = (e.type = "FSDJump") /\ Kept(f) = BOOLEAN
      BY <2>5, Names DEF ToldOfPlace
    <3>2. (e.type = "FSDJump") \in BOOLEAN
      BY Zenon
    <3> QED
      BY <2>1, <2>2, <3>1, <3>2, Zenon
  <2>6. CASE f = "system"
    BY <2>1, <2>2, <2>3, <2>6, Names DEF ToldOfPlace
  <2>7. CASE f = "station"
    BY <2>1, <2>2, <2>3, <2>7, Names DEF ToldOfPlace
  <2>8. CASE f = "systemCtx"
    <3>1. ToldOfPlace(e, n, f) = SystemCtx(e, n)
      BY <2>8 DEF ToldOfPlace
    <3> QED
      BY <2>1, <2>2, <2>3, <2>8, <3>1, Names DEF SystemCtx, SystemContext
  <2>9. CASE f = "stationCtx"
    <3>1. ToldOfPlace(e, n, f) \in {Missing, Place(e.system, e.station)}
      BY <2>9 DEF ToldOfPlace
    <3> QED
      BY <2>1, <2>2, <2>3, <2>9, <3>1, Names DEF Place, Whereabouts
  <2> QED
    BY <2>4, <2>5, <2>6, <2>7, <2>8, <2>9
<1> QED
  BY <1>1, <1>2

\* What is known of a place stays.
LEMMA FillSets ==
  ASSUME NEW s, SessionFormed(s), NEW f \in Places, NEW v \in Kept(f) \cup {Missing},
         NEW t, t = Fill(s, f, v)
  PROVE  /\ SessionFormed(t)
         /\ t.value[f] = IF s.value[f] = Missing THEN v ELSE s.value[f]
         /\ Same(s, t, PlaceFields \ {f}) /\ SameSource(s, t, PlaceFields \ {f})
<1>1. f \in PlaceFields
  BY DEF PlaceFields
<1>2. CASE v = Missing \/ s.value[f] # Missing
  <2>1. t = s
    BY <1>2 DEF Fill
  <2> QED
    BY <1>2, <2>1 DEF Same, SameSource
<1>3. CASE ~(v = Missing \/ s.value[f] # Missing)
  <2>1. t = PutJ(s, f, v)
    BY <1>3 DEF Fill
  <2> QED
    BY <1>1, <1>3, <2>1, PutByJournal
<1> QED
  BY <1>2, <1>3

\* What the journal has said of a flag stays.
KeptFlag(s, t, f) == s.value[f] # Missing /\ s.source[f] = 1 => t = s

LEMMA FillFlagSets ==
  ASSUME NEW s, SessionFormed(s), NEW f \in {"docked", "supercruise"},
         NEW v \in BOOLEAN \cup {Missing}, NEW t, t = FillFlag(s, f, v)
  PROVE  /\ SessionFormed(t)
         /\ Same(s, t, PlaceFields \ {f}) /\ SameSource(s, t, PlaceFields \ {f})
         /\ KeptFlag(s, t, f)
<1>1. CASE t = s
  BY <1>1 DEF Same, SameSource, KeptFlag
<1>2. CASE t # s
  <2>1. v # Missing /\ t = PutJ(s, f, v) /\ ~(s.value[f] # Missing /\ s.source[f] = 1)
    BY <1>2 DEF FillFlag, Registers!Journal
  <2>2. v \in BOOLEAN /\ f \in {"docked", "supercruise", "wanted"}
    BY <2>1
  <2>3. /\ SessionFormed(t)
        /\ Same(s, t, PlaceFields \ {f}) /\ SameSource(s, t, PlaceFields \ {f})
    BY <2>1, <2>2, FlagSets, ZenonT(30)
  <2> QED
    BY <2>1, <2>3 DEF KeptFlag
<1> QED
  BY <1>1, <1>2

\* A request fills what is missing, and overrules no journal line that was handled.
LEMMA RehydratedSets ==
  ASSUME TravelTyped, NEW s, SessionFormed(s), NEW t, t = Rehydrated(s)
  PROVE  /\ SessionFormed(t) /\ t.value["wanted"] = s.value["wanted"]
         /\ s.value["docked"] # Missing /\ s.source["docked"] = 1 =>
              t.value["docked"] = s.value["docked"] /\ t.source["docked"] = 1
         /\ \A f \in Places : s.value[f] # Missing => t.value[f] = s.value[f]
         /\ s.value["station"] = Missing => t.value["station"] = Scan("station")
         /\ t.value["docked"] = FALSE => t.value["stationCtx"] = s.value["stationCtx"]
<1>1. PICK s1 : s1 = FillFlag(s, "docked", Scan("docked"))
  OBVIOUS
<1>2. PICK s2 : s2 = FillFlag(s1, "supercruise", Scan("supercruise"))
  OBVIOUS
<1>3. PICK s3 : s3 = Fill(s2, "system", Scan("system"))
  OBVIOUS
<1>4. PICK s4 : s4 = Fill(s3, "station", Scan("station"))
  OBVIOUS
<1>5. PICK s5 : s5 = Fill(s4, "systemCtx", Scan("systemCtx"))
  OBVIOUS
<1>6. PICK s6 : s6 = Fill(s5, "stationCtx", Scan("stationCtx"))
  OBVIOUS
<1>7. t = IF s2.value["docked"] = FALSE THEN s5 ELSE s6
  BY <1>1, <1>2, <1>3, <1>4, <1>5, <1>6 DEF Rehydrated
<1>8. Scan("docked") \in BOOLEAN \cup {Missing} /\ Scan("supercruise") \in BOOLEAN \cup {Missing}
  BY ScanTyped, Names
<1>24. "docked" \in {"docked", "supercruise"} /\ "supercruise" \in {"docked", "supercruise"}
  OBVIOUS
<1>9. /\ SessionFormed(s1)
      /\ Same(s, s1, PlaceFields \ {"docked"}) /\ SameSource(s, s1, PlaceFields \ {"docked"})
      /\ KeptFlag(s, s1, "docked")
  BY <1>1, <1>8, <1>24, FillFlagSets, Zenon
<1>10. /\ SessionFormed(s2)
       /\ Same(s1, s2, PlaceFields \ {"supercruise"})
       /\ SameSource(s1, s2, PlaceFields \ {"supercruise"})
  BY <1>2, <1>8, <1>9, <1>24, FillFlagSets, Zenon
<1>11. /\ SessionFormed(s3)
       /\ s3.value["system"] = IF s2.value["system"] = Missing THEN Scan("system")
                               ELSE s2.value["system"]
       /\ Same(s2, s3, PlaceFields \ {"system"}) /\ SameSource(s2, s3, PlaceFields \ {"system"})
  BY <1>3, <1>10, FillSets, ScanTyped DEF Places
<1>12. /\ SessionFormed(s4)
       /\ s4.value["station"] = IF s3.value["station"] = Missing THEN Scan("station")
                                ELSE s3.value["station"]
       /\ Same(s3, s4, PlaceFields \ {"station"}) /\ SameSource(s3, s4, PlaceFields \ {"station"})
  BY <1>4, <1>11, FillSets, ScanTyped DEF Places
<1>13. /\ SessionFormed(s5)
       /\ s5.value["systemCtx"] = IF s4.value["systemCtx"] = Missing THEN Scan("systemCtx")
                                  ELSE s4.value["systemCtx"]
       /\ Same(s4, s5, PlaceFields \ {"systemCtx"})
       /\ SameSource(s4, s5, PlaceFields \ {"systemCtx"})
  BY <1>5, <1>12, FillSets, ScanTyped DEF Places
<1>14. /\ SessionFormed(s6)
       /\ s6.value["stationCtx"] = IF s5.value["stationCtx"] = Missing THEN Scan("stationCtx")
                                   ELSE s5.value["stationCtx"]
       /\ Same(s5, s6, PlaceFields \ {"stationCtx"})
       /\ SameSource(s5, s6, PlaceFields \ {"stationCtx"})
  BY <1>6, <1>13, FillSets, ScanTyped DEF Places
<1>15. /\ Same(s, s2, Places \cup {"wanted"}) /\ Same(s2, s5, {"docked", "wanted"})
       /\ Same(s5, s6, PlaceFields \ {"stationCtx"})
       /\ s5.source["docked"] = s2.source["docked"] /\ s6.source["docked"] = s2.source["docked"]
  <2>1. Places \cup {"wanted"} = {"system", "station", "systemCtx", "stationCtx", "wanted"}
    BY DEF Places
  <2> QED
    BY <1>9, <1>10, <1>11, <1>12, <1>13, <1>14, <2>1, Names DEF Same, SameSource
<1>16. /\ s5.value["stationCtx"] = s.value["stationCtx"]
       /\ s5.value["station"] = IF s.value["station"] = Missing THEN Scan("station")
                                ELSE s.value["station"]
       /\ s5.value["system"] = IF s.value["system"] = Missing THEN Scan("system")
                               ELSE s.value["system"]
       /\ s5.value["systemCtx"] = IF s.value["systemCtx"] = Missing THEN Scan("systemCtx")
                                  ELSE s.value["systemCtx"]
  BY <1>11, <1>12, <1>13, <1>15, Names DEF Same, Places
<1>17. /\ t.value["wanted"] = s.value["wanted"] /\ t.value["docked"] = s2.value["docked"]
       /\ t.source["docked"] = s2.source["docked"]
       /\ t.value["station"] = s5.value["station"] /\ t.value["system"] = s5.value["system"]
       /\ t.value["systemCtx"] = s5.value["systemCtx"]
  <2>1. t = s5 \/ t = s6
    BY <1>7
  <2> QED
    BY <2>1, <1>15, Names DEF Same
<1>18. t.value["stationCtx"] = IF s2.value["docked"] = FALSE \/ s.value["stationCtx"] # Missing
                               THEN s.value["stationCtx"] ELSE Scan("stationCtx")
  <2>1. CASE s2.value["docked"] = FALSE
    BY <1>7, <1>16, <2>1
  <2>2. CASE s2.value["docked"] # FALSE
    BY <1>7, <1>14, <1>16, <2>2
  <2> QED
    BY <2>1, <2>2
<1>19. ASSUME s.value["docked"] # Missing, s.source["docked"] = 1
       PROVE  s2.value["docked"] = s.value["docked"] /\ s2.source["docked"] = 1
  <2>1. s1 = s
    BY <1>9, <1>19 DEF KeptFlag
  <2> QED
    BY <1>10, <1>19, <2>1, Names DEF Same, SameSource
<1>20. SessionFormed(t)
  BY <1>7, <1>13, <1>14
<1>21. ASSUME NEW f \in Places, s.value[f] # Missing PROVE t.value[f] = s.value[f]
  BY <1>16, <1>17, <1>18, <1>21 DEF Places
<1>22. t.value["docked"] = FALSE => t.value["stationCtx"] = s.value["stationCtx"]
  BY <1>17, <1>18
<1>23. s.value["station"] = Missing => t.value["station"] = Scan("station")
  BY <1>16, <1>17
<1> QED
  BY <1>17, <1>19, <1>20, <1>21, <1>22, <1>23

\* A station that is read ahead of its handler is that of the line handled last, or of
\* one that waits.
LEMMA ScanAhead ==
  ASSUME TravelInv, inOrder = TRUE, Started(Handled), lines[Handled].station = Missing,
         Scan("station") # Missing
  PROVE  StationAhead
<1>1. /\ lines \in Seq(TravelLine) /\ Len(lines) \in Nat /\ Len(waiting) \in Nat
      /\ Handled \in Nat /\ Handled <= Len(lines) /\ JournalTells
  BY DEF TravelInv, TravelTyped, Queued, Handled
<1>2. PICK w \in LastOfPlace("station") : Scan("station") = ToldOfPlace(lines[w], w, "station")
  BY DEF Scan
<1>3. /\ w \in 1 .. Len(lines) /\ \A k \in (w + 1) .. Len(lines) : ~TellsOfPlace(lines[k], "station")
  BY <1>1, <1>2 DEF LastOfPlace
<1>4. Arrives(lines[w])
  BY <1>2 DEF ToldOfPlace
<1>5. lines[w].type \in DockingTypes /\ lines[w].station # Missing
  BY <1>1, <1>3, <1>4 DEF Arrives, DockingTypes, JournalTells
<1>6. ASSUME w <= Handled PROVE FALSE
  <2>1. PICK m \in 1 .. Handled : lines[m].type = "Location"
    BY DEF Started
  <2>2. TellsOfPlace(lines[m], "station")
    BY <2>1 DEF TellsOfPlace
  <2>3. m <= w
    BY <1>1, <1>3, <2>1, <2>2
  <2>4. Started(w)
    BY <1>3, <2>1, <2>3 DEF Started
  <2>5. ASSUME NEW k \in (w + 1) .. Handled PROVE lines[k].type \notin DockingTypes
    <3>1. ~TellsOfPlace(lines[k], "station")
      BY <1>1, <1>3, <2>5
    <3> QED
      BY <3>1 DEF TellsOfPlace, DockingTypes
  <2>6. Handled \in w .. Len(lines)
    BY <1>1, <1>3, <1>6
  <2>7. lines[Handled].station = lines[w].station
    BY <1>1, <1>3, <2>4, <2>5, <2>6 DEF JournalTells
  <2> QED
    BY <1>5, <2>7
<1>7. w \in (Handled + 1) .. Len(lines)
  BY <1>1, <1>3, <1>6
<1> QED
  BY <1>5, <1>7 DEF StationAhead

LEMMA Labels ==
  ASSUME NEW v, NEW lastKnown
  PROVE  /\ StationLabel(v, lastKnown) \in Label /\ SystemLabel(v, lastKnown) \in Label
         /\ ServicesLabel(v, lastKnown) \in Label
         /\ ScreenLabel(v) \in Label /\ OutfittingLabel(v) \in Label
<1>1. ASSUME NEW a, NEW b PROVE Labelled(a, b) \in Label
  BY DEF Labelled, Label
<1>2. \A a, b : Labelled(a, b) \in Label
  BY <1>1, Zenon
<1>3. /\ "not_loaded" \in Label /\ "market_snapshot_only" \in Label /\ "last_known" \in Label
      /\ "commander_observed" \in Label
  BY DEF Label
<1>4. StationLabel(v, lastKnown) \in Label
  BY <1>2, <1>3, Zenon DEF StationLabel
<1>5. SystemLabel(v, lastKnown) \in Label
  BY <1>2, <1>3, Zenon DEF SystemLabel
<1>6. ServicesLabel(v, lastKnown) \in Label
  BY <1>3 DEF ServicesLabel
<1>7. ScreenLabel(v) \in Label
  BY <1>2, <1>3, Zenon DEF ScreenLabel
<1>8. OutfittingLabel(v) \in Label
  BY <1>2, <1>3, Zenon DEF OutfittingLabel
<1> QED
  BY <1>4, <1>5, <1>6, <1>7, <1>8

LEMMA RequestStep == ASSUME TravelInv, NEW active \in BOOLEAN, Request(active) PROVE TravelInv'
<1>1. /\ TravelTyped /\ SessionFormed(session) /\ WhereaboutsHold
      /\ flag \in BOOLEAN \cup {Missing} /\ lines \in Seq(TravelLine) /\ Len(lines) \in Nat
      /\ Len(waiting) \in Nat /\ Queued
  BY DEF TravelInv, TravelTyped
<1>2. /\ at' = at /\ carrier' = carrier /\ screen' = screen /\ lines' = lines
      /\ waiting' = waiting /\ jumpedTo' = jumpedTo /\ inOrder' = inOrder /\ flag' = flag
  BY DEF Request, galaxy
<1>3. PICK t : t = Rehydrated(session)
  OBVIOUS
<1>4. session' = t
  BY <1>3 DEF Request
<1>5. PICK v : v = t.value
  OBVIOUS
<1>6. /\ SessionFormed(t) /\ v["wanted"] = session.value["wanted"]
      /\ session.value["docked"] # Missing /\ session.source["docked"] = 1 =>
              v["docked"] = session.value["docked"] /\ t.source["docked"] = 1
      /\ \A f \in Places : session.value[f] # Missing => v[f] = session.value[f]
      /\ session.value["station"] = Missing => v["station"] = Scan("station")
      /\ v["docked"] = FALSE => v["stationCtx"] = session.value["stationCtx"]
  BY <1>1, <1>3, <1>5, RehydratedSets
<1>7. WhereaboutsHold'
  <2> SUFFICES ASSUME inOrder = TRUE, Started(Handled) PROVE WhereaboutsHold'
    BY <1>2 DEF WhereaboutsHold, Started, Handled
  <2> DEFINE e == lines[Handled]
  <2>1. /\ session.value["system"] = e.system
        /\ e.station = Missing => session.value["docked"] = FALSE
        /\ e.station # Missing => session.value["docked"] = TRUE
        /\ session.source["docked"] = 1
        /\ session.value["systemCtx"] # Missing
        /\ session.value["systemCtx"].system = e.system
        /\ StationRight(Handled) \/ StationAhead
    BY <1>1 DEF WhereaboutsHold, Registers!Journal
  <2>2. Handled \in 1 .. Len(lines) /\ e \in TravelLine
    BY <1>1 DEF Queued, Handled, Started
  <2>3. e.system # Missing /\ {"system", "systemCtx", "station", "stationCtx"} = Places
    BY <2>2, TravelKinds DEF Places
  <2>4. session.value["docked"] # Missing
    BY <2>1, MissingAssumption
  <2>5. /\ v["system"] = e.system /\ v["systemCtx"] # Missing /\ v["systemCtx"].system = e.system
        /\ v["docked"] = session.value["docked"] /\ t.source["docked"] = 1
    BY <1>6, <2>1, <2>3, <2>4
  <2>6. StationRight(Handled)' \/ StationAhead'
    <3>1. StationAhead => StationAhead'
      BY <1>2 DEF StationAhead, Handled
    <3>2. ASSUME StationRight(Handled), e.station # Missing PROVE StationRight(Handled)'
      <4>1. /\ session.value["station"] = e.station /\ session.value["stationCtx"] # Missing
            /\ session.value["stationCtx"].station = e.station
        BY <3>2 DEF StationRight
      <4>2. v["station"] = e.station /\ v["stationCtx"] # Missing
            /\ v["stationCtx"].station = e.station
        BY <1>6, <2>3, <3>2, <4>1
      <4> QED
        BY <1>2, <1>4, <1>5, <3>2, <4>2 DEF StationRight, Handled
    <3>3. ASSUME StationRight(Handled), e.station = Missing
          PROVE  StationRight(Handled)' \/ StationAhead
      <4>1. session.value["station"] = Missing /\ session.value["stationCtx"] = Missing
        BY <3>3 DEF StationRight
      <4>2. v["stationCtx"] = Missing
        BY <1>6, <2>1, <2>5, <3>3, <4>1
      <4>3. v["station"] = Scan("station")
        BY <1>6, <4>1
      <4>4. CASE Scan("station") = Missing
        BY <1>2, <1>4, <1>5, <3>3, <4>2, <4>3, <4>4 DEF StationRight, Handled
      <4>5. CASE Scan("station") # Missing
        BY <3>3, <4>5, ScanAhead
      <4> QED
        BY <4>4, <4>5
    <3> QED
      BY <2>1, <3>1, <3>2, <3>3
  <2>7. /\ e.station = Missing => v["docked"] = FALSE
        /\ e.station # Missing => v["docked"] = TRUE
    BY <2>1, <2>5
  <2>8. Handled' = Handled /\ lines'[Handled] = e /\ session'.value = v
        /\ session'.source["docked"] = 1
    BY <1>2, <1>4, <1>5, <2>5 DEF Handled
  <2> QED
    BY <2>5, <2>6, <2>7, <2>8 DEF WhereaboutsHold, Registers!Journal
<1>8. ReplyHolds'
  <2>1. PICK lastKnown : lastKnown = LastKnown(v, active)
    OBVIOUS
  <2>2. reply' = [station |-> StationLabel(v, lastKnown), system |-> SystemLabel(v, lastKnown),
                  services |-> ServicesLabel(v, lastKnown), market |-> ScreenLabel(v),
                  outfitting |-> OutfittingLabel(v)]
    BY <1>4, <1>5, <2>1 DEF Request
  <2>3. reply' \in [station : Label, system : Label, services : Label, market : Label,
                    outfitting : Label]
    BY <2>2, Labels
  <2>4. reply'.market = ScreenLabel(v) /\ reply'.outfitting = OutfittingLabel(v)
    BY <2>2
  <2>5. ScreenLabel(session.value)' = ScreenLabel(v)
    BY <1>2, <1>4, <1>5 DEF ScreenLabel
  <2>6. OutfittingLabel(session.value)' = OutfittingLabel(v)
    BY <1>2, <1>4, <1>5 DEF OutfittingLabel
  <2> QED
    BY <2>3, <2>4, <2>5, <2>6 DEF ReplyHolds
<1> QED
  BY <1>1, <1>2, <1>4, <1>5, <1>6, <1>7, <1>8, SessionStep

-----------------------------------------------------------------------------
(* The theorems about the whereabouts.                                     *)

LEMMA TravelStart == TravelInit => TravelInv
<1> SUFFICES ASSUME TravelInit PROVE TravelInv
  OBVIOUS
<1>1. /\ carrier = PortSystem /\ screen = Missing /\ waiting = <<>> /\ flag = Missing
      /\ inOrder = TRUE /\ session = Registers!Fresh /\ jumpedTo = Missing /\ reply = Missing
  BY DEF TravelInit
<1>2. at \in Whereabouts
  BY TravelAssumption DEF TravelInit, Place, Whereabouts
<1>3. /\ lines \in Seq(TravelLine) /\ Len(lines) \in {0, 1}
      /\ \A n \in 1 .. Len(lines) : lines[n].type = "Docked" /\ lines[n].station # Missing
  <2>1. CASE lines = <<>>
    BY <2>1
  <2>2. CASE lines # <<>>
    <3>1. PICK port \in Station : lines = <<Entry("Docked", Place(PortSystem, port))>>
      BY <2>2 DEF TravelInit
    <3>2. PICK e : e = Entry("Docked", Place(PortSystem, port))
      OBVIOUS
    <3>3. e \in TravelLine /\ e.type = "Docked" /\ e.station # Missing
      BY <3>2, TravelAssumption DEF Entry, Place, TravelLine
    <3> QED
      BY <3>1, <3>2, <3>3
  <2> QED
    BY <2>1, <2>2
<1>4. SessionFormed(session) /\ session.value["wanted"] = Missing
  BY <1>1 DEF SessionFormed, Registers!Fresh, Registers!Unset, PlaceFields, Flags
<1>5. TravelTyped
  <2>1. waiting \in Seq(1 .. Len(lines)) /\ Len(lines) <= MaxTravel
    BY <1>1, <1>3, TravelAssumption
  <2>2. carrier \in Systems /\ screen \in Whereabouts \cup {Missing}
        /\ jumpedTo \in Systems \cup {Missing} /\ flag \in BOOLEAN \cup {Missing}
    BY <1>1, TravelAssumption
  <2>3. inOrder \in BOOLEAN
    BY <1>1
  <2> QED
    BY <1>2, <1>3, <1>4, <2>1, <2>2, <2>3 DEF TravelTyped
<1>6. Handled = Len(lines)
  BY <1>1, <1>3 DEF Handled
<1>7. \A n \in 1 .. Len(lines) : ~Started(n)
  BY <1>3 DEF Started
<1>8. ~Started(Len(lines))
  BY <1>3 DEF Started
<1>9. Queued /\ WhereaboutsHold
  BY <1>1, <1>3, <1>6, <1>8 DEF Queued, WhereaboutsHold
<1>10. JournalTells
  BY <1>3, <1>7, <1>8 DEF JournalTells
<1>11. JumpHolds
  BY <1>1, <1>3, <1>6 DEF JumpHolds
<1>12. WantedHolds
  <2>1. session.value["wanted"] # TRUE
    BY <1>4, MissingAssumption, Zenon
  <2>2. ~OutlawAt(Handled)
    <3>1. ASSUME NEW m \in 1 .. Handled PROVE lines[m].type \notin Offence
      BY <1>3, <1>6 DEF Offence
    <3> QED
      BY <3>1 DEF OutlawAt
  <2> QED
    BY <2>1, <2>2 DEF WantedHolds
<1>13. ReplyHolds /\ ScreenHolds
  BY <1>1 DEF ReplyHolds, ScreenHolds
<1> QED
  BY <1>5, <1>9, <1>10, <1>11, <1>12, <1>13 DEF TravelInv

LEMMA TravelOn == TravelInv /\ [TravelNext]_travelVars => TravelInv'
<1> SUFFICES ASSUME TravelInv, [TravelNext]_travelVars PROVE TravelInv'
  OBVIOUS
<1>1. CASE \/ StartSession \/ Undock \/ \E offence \in Offence : Clash(offence)
           \/ \E s \in Systems : Jump(s) \/ RideCarrier(s)
           \/ \E station \in Station : Dock(station)
  BY <1>1, JourneyStep
<1>2. CASE OpenScreen
  BY <1>2, OpenScreenStep
<1>3. CASE PollStatus
  BY <1>3, PollStatusStep
<1>4. CASE HandleDockedFlag
  BY <1>4, HandleDockedFlagStep
<1>5. CASE \E n \in DOMAIN waiting : HandleTravelLine(n)
  BY <1>5, TravelLineStep
<1>6. CASE \E active \in BOOLEAN : Request(active)
  BY <1>6, RequestStep
<1>7. CASE UNCHANGED travelVars
  <2>1. /\ screen' = screen /\ reply' = reply /\ at' = at /\ flag' = flag
        /\ carrier' = carrier /\ lines' = lines /\ waiting' = waiting
        /\ session' = session /\ jumpedTo' = jumpedTo /\ inOrder' = inOrder
    BY <1>7 DEF travelVars, galaxy
  <2>2. /\ SessionFormed(session)' /\ Queued' /\ JournalTells' /\ WhereaboutsHold'
        /\ JumpHolds' /\ WantedHolds'
    BY <2>1, NothingHandled, Zenon
  <2>3. TravelTyped'
    BY <2>1, <2>2 DEF TravelInv, TravelTyped
  <2>4. ReplyHolds' /\ ScreenHolds'
    BY <2>1 DEF TravelInv, ReplyHolds, ScreenHolds, ScreenLabel, OutfittingLabel
  <2> QED
    BY <2>2, <2>3, <2>4 DEF TravelInv
<1> QED
  BY <1>1, <1>2, <1>3, <1>4, <1>5, <1>6, <1>7 DEF TravelNext

\* handlers.py, extended_events.py, local_state_hydration.py: whatever Status.json, a
\* request and the handlers do to the session state in turn, it is that of the journal
\* line handled last, but for a station that a request has read ahead of its handler.
THEOREM TravelInductive == TravelSpec => []TravelInv
  BY TravelStart, TravelOn, PTL DEF TravelSpec

\* Every field of the whereabouts is empty or holds what it is for, and a reply is one
\* of the labels.
THEOREM TravelIsTyped == TravelSpec => []TravelTypeOK
<1>1. TravelInv => TravelTypeOK
  <2> SUFFICES ASSUME TravelInv PROVE TravelTypeOK
    OBVIOUS
  <2>1. /\ lines \in Seq(TravelLine) /\ waiting \in Seq(1 .. Len(lines))
        /\ \A f \in PlaceFields : session.value[f] \in Kept(f) \cup {Missing}
    BY DEF TravelInv, TravelTyped, SessionFormed
  <2>2. \A n \in DOMAIN waiting : waiting[n] \in DOMAIN lines
    BY <2>1
  <2>3. \A f \in Flags : session.value[f] \in BOOLEAN \cup {Missing}
    BY <2>1 DEF PlaceFields, Kept
  <2>4. /\ session.value["system"] \in Systems \cup {Missing}
        /\ session.value["station"] \in Station \cup {Missing}
        /\ session.value["stationCtx"] \in Whereabouts \cup {Missing}
        /\ session.value["systemCtx"] \in SystemContext \cup {Missing}
    BY <2>1, Names
  <2>5. reply \in {Missing} \cup [station : Label, system : Label, services : Label,
                                  market : Label, outfitting : Label]
    BY DEF TravelInv, ReplyHolds
  <2> QED
    BY <2>2, <2>3, <2>4, <2>5 DEF TravelInv, TravelTyped, TravelTypeOK
<1> QED
  BY <1>1, TravelInductive, PTL

\* Once every line of the session is handled, the state is that of the last one, and
\* that is where the commander is.
LEMMA AllHandled ==
  ASSUME TravelInv, TravelSettled
  PROVE  /\ inOrder = TRUE /\ Handled = Len(lines) /\ Len(lines) \in Nat
         /\ at \in Whereabouts
         /\ session.value["system"] = at.system /\ session.value["station"] = at.station
         /\ at.station = Missing => session.value["docked"] = FALSE
         /\ at.station # Missing => session.value["docked"] = TRUE
         /\ session.value["systemCtx"].system = at.system
         /\ IF at.station = Missing THEN session.value["stationCtx"] = Missing
            ELSE session.value["stationCtx"].station = at.station
<1>1. inOrder = TRUE /\ Handled = Len(lines) /\ Len(lines) \in Nat /\ at \in Whereabouts
  BY DEF TravelInv, TravelTyped, TravelSettled, Settled, Handled
<1>2. Started(Len(lines))
  <2>1. lines \in Seq(TravelLine)
    BY DEF TravelInv, TravelTyped
  <2> QED
    BY <2>1 DEF TravelSettled, InSession, Started
<1>3. at.system = lines[Len(lines)].system /\ at.station = lines[Len(lines)].station
  BY <1>2 DEF TravelInv, JournalTells
<1>4. ~StationAhead
  BY <1>1 DEF StationAhead
<1>5. /\ session.value["system"] = at.system
      /\ at.station = Missing => session.value["docked"] = FALSE
      /\ at.station # Missing => session.value["docked"] = TRUE
      /\ session.value["systemCtx"].system = at.system
      /\ StationRight(Len(lines))
  BY <1>1, <1>2, <1>3, <1>4 DEF TravelInv, WhereaboutsHold
<1> QED
  BY <1>1, <1>3, <1>5 DEF StationRight

\* local_context_facts.py, local_state_hydration.py: once the handlers have caught up in
\* order, the state says where the commander is, and that he is wanted exactly when a crime
\* or a bounty has followed the last jump that clears it: one the application can compare
\* with a jump before it, to another system.
THEOREM WhereaboutsAreKnown == TravelSpec => []WhereaboutsSettle
<1>1. TravelInv => WhereaboutsSettle
  <2> SUFFICES ASSUME TravelInv, TravelSettled PROVE WhereaboutsSettle
    BY DEF WhereaboutsSettle
  <2>1. session.value["docked"] = (at.station # Missing)
    <3>1. /\ at.station = Missing => session.value["docked"] = FALSE
          /\ at.station # Missing => session.value["docked"] = TRUE
      BY AllHandled, Zenon
    <3> QED
      BY <3>1, Zenon
  <2>2. /\ session.value["wanted"] = TRUE => OutlawAt(Len(lines))
        /\ OutlawAt(Len(lines)) => session.value["wanted"] = TRUE
    BY AllHandled DEF TravelInv, WantedHolds
  <2>4. OutlawAt(Len(lines)) <=>
          \E n \in DOMAIN lines : /\ lines[n].type \in Offence
                                 /\ \A k \in n + 1 .. Len(lines) : ~Clears(k)
    <3>1. lines \in Seq(TravelLine)
      BY DEF TravelInv, TravelTyped
    <3>2. DOMAIN lines = 1 .. Len(lines)
      BY <3>1
    <3> QED
      BY <3>2, Zenon DEF OutlawAt
  <2>3. /\ session.value["system"] = at.system /\ session.value["station"] = at.station
        /\ session.value["systemCtx"].system = at.system
        /\ IF at.station = Missing THEN session.value["stationCtx"] = Missing
           ELSE session.value["stationCtx"].station = at.station
    BY AllHandled
  <2> QED
    BY <2>1, <2>2, <2>3, <2>4, Zenon DEF WhereaboutsSettle
<1> QED
  BY <1>1, TravelInductive, PTL

\* local_context_facts.py: once the handlers have caught up in order, no reply calls the
\* screen of a station fresh but at that station, and where it was opened.
THEOREM ScreensAreFresh == TravelSpec => []FreshIsHere
<1>1. TravelInv => FreshIsHere
  <2> SUFFICES ASSUME TravelInv, TravelSettled, reply # Missing,
                      reply.market = "fresh" \/ reply.outfitting = "fresh"
               PROVE  screen = at
    BY DEF FreshIsHere
  <2>1. PICK v : v = session.value
    OBVIOUS
  <2>2. /\ at \in Whereabouts /\ v["system"] = at.system /\ v["station"] = at.station
        /\ at.station = Missing => v["docked"] = FALSE
    BY <2>1, AllHandled
  <2>3. ScreenLabel(v) = "fresh" \/ OutfittingLabel(v) = "fresh"
    BY <2>1 DEF TravelInv, ReplyHolds
  <2>4. v["docked"] # FALSE /\ screen # Missing
    BY <2>3 DEF ScreenLabel, OutfittingLabel, Labelled
  <2>5. /\ at.station # Missing /\ at.system # Missing
        /\ screen \in Whereabouts /\ screen.station # Missing /\ screen.system # Missing
    BY <2>2, <2>4, TravelAssumption DEF TravelInv, TravelTyped, ScreenHolds, Whereabouts
  <2>6. v["station"] # Missing /\ v["system"] # Missing
    BY <2>2, <2>5
  <2>7. ~Differ(v["station"], screen.station) /\ ~Differ(v["system"], screen.system)
    BY <2>3, <2>6 DEF ScreenLabel, OutfittingLabel, Labelled
  <2>8. at.station = screen.station /\ at.system = screen.system
    BY <2>2, <2>5, <2>7 DEF Differ
  <2> QED
    BY <2>2, <2>5, <2>8 DEF Whereabouts
<1> QED
  BY <1>1, TravelInductive, PTL

-----------------------------------------------------------------------------
(* CommanderRecord: the inductive invariant.                               *)

\* As long as nothing was overtaken, the lines that wait follow one another, the
\* journal beginning anew here and there, and its last line comes last.
InStep ==
  inOrder = TRUE =>
    /\ Len(waiting) > 0 => waiting[Len(waiting)] = Len(lines)
    /\ \A k \in 1 .. Len(waiting) - 1 : waiting[k + 1] = waiting[k] + 1 \/ waiting[k + 1] = 1

\* The line that was handled last, or 0 if the journal begins anew.
Reached == IF Len(waiting) = 0 THEN Len(lines) ELSE waiting[1] - 1

\* Which missions are active, and where they lead.
MissionMap == [Missions -> Destinations \cup {Missing}]
Held(a) == {m \in Missions : a[m] # Missing}
ListsOnce(ids, S) ==
  /\ {ids[n] : n \in DOMAIN ids} = S
  /\ \A j, k \in DOMAIN ids : ids[j] = ids[k] => j = k

\* Line e tells how the missions a became b.
Turns(a, e, b) ==
  \/ e.type = "Missions" /\ b = a /\ ListsOnce(e.arg, Held(a))
  \/ /\ e.type = "MissionAccepted" /\ a[e.arg.id] = Missing
     /\ b = [a EXCEPT ![e.arg.id] = e.arg.to]
  \/ /\ e.type = "MissionRedirected" /\ a[e.arg.id] # Missing
     /\ b = [a EXCEPT ![e.arg.id] = e.arg.to]
  \/ /\ e.type \in MissionEnd /\ a[e.arg] # Missing
     /\ b = [a EXCEPT ![e.arg] = Missing]

\* h[n] is what the missions were when the journal had n lines.
History(h) ==
  /\ h \in [0 .. Len(lines) -> MissionMap]
  /\ h[Len(lines)] = truth.active
  /\ \A n \in 1 .. Len(lines) : Turns(h[n - 1], lines[n], h[n])

\* The session is on when a mission is listed.
Occupied(r) ==
  /\ Len(r.missions) > 0 => r.session = TRUE
  /\ Len(r.missions) = 0 => r.session = FALSE

\* The list is the one of missions a.
Shows(r, a) ==
  /\ ListsOnce([n \in DOMAIN r.missions |-> r.missions[n].id], Held(a))
  /\ \A n \in DOMAIN r.missions : r.missions[n].to \in {Missing, a[r.missions[n].id]}
  /\ Occupied(r)

\* The journal's first line lists the missions, and the list kept is that of the
\* line handled last.
MissionsHold(h) ==
  story = "missions" =>
    /\ Len(lines) > 0 /\ lines[1].type = "Missions"
    /\ History(h)
    /\ inOrder = TRUE /\ Reached > 0 => Shows(rec, h[Reached])

\* Every line tells of the pledge; one that the handler ignores tells of none but the
\* last one told.
PledgeInv ==
  story = "power" =>
    /\ Len(lines) = 0 => truth.pledge = Missing /\ rec.pledge = Missing
    /\ Len(lines) > 0 => truth.pledge = lines[Len(lines)].arg
    /\ \A n \in 1 .. Len(lines) :
         /\ lines[n].type \in PowerplayEvent
         /\ lines[n].type = "PowerplayMerits" => n > 1 /\ lines[n].arg = lines[n - 1].arg
    /\ inOrder = TRUE /\ Reached > 0 => rec.pledge = lines[Reached].arg

\* Every line tells of the rank; only a promotion tells of another one than the line
\* before it.
RankInv ==
  story = "rank" =>
    /\ Len(lines) > 0 /\ lines[1].type = "Rank" /\ truth.rank = lines[Len(lines)].arg
    /\ \A n \in 1 .. Len(lines) :
         /\ lines[n].type \in {"Rank", "Progress", "Promotion"}
         /\ n > 1 /\ lines[n].type # "Promotion" => lines[n].arg = lines[n - 1].arg
    /\ repeats = 0 => Queued
    /\ repeats = 0 /\ inOrder = TRUE =>
         /\ Handled = 0 => rec.progress = Missing
         /\ Handled > 0 =>
              /\ rec.rank = lines[Handled].arg
              /\ rec.progress \in {Missing, lines[Handled].arg}

\* Every line that waits, waits once.
VoucherInv ==
  story = "rewards" =>
    /\ \A n \in 1 .. Len(lines) : lines[n].type = "RedeemVoucher"
    /\ repeats = 0 => \A j, k \in 1 .. Len(waiting) : waiting[j] = waiting[k] => j = k
-----------------------------------------------------------------------------
(* CommanderRecord: types.                                                 *)

\* Numbers that exist have a smallest one.
LEMMA Smallest ==
  ASSUME NEW S \in SUBSET Nat, S # {}
  PROVE  \E n \in S : \A k \in S : n <= k
<1>1. PICK R : R = {ss \in Nat \X Nat : ss[1] < ss[2]}
  OBVIOUS
<1>2. IsWellFoundedOn(R, Nat)
  BY <1>1, NatLessThanWellFounded DEF OpToRel
<1>3. PICK n \in S : \A k \in S : ~(<<k, n>> \in R)
  BY <1>2, WFMin
<1>4. ASSUME NEW k \in S PROVE n <= k
  <2>1. ~(k < n)
    BY <1>1, <1>3
  <2> QED
    BY <2>1
<1> QED
  BY <1>4

\* What the handler of a line finds in it.
LEMMA LineArgument ==
  ASSUME NEW e \in RecordLine
  PROVE  /\ \/ e.type \in {"Missions", "MissionAccepted", "MissionRedirected",
                           "MissionCompleted", "MissionFailed"}
            \/ e.type = "RedeemVoucher" \/ e.type \in {"Rank", "Progress", "Promotion"}
            \/ e.type \in PowerplayEvent
         /\ e.type = "Missions" => e.arg \in Seq(Missions)
         /\ e.type \in {"MissionAccepted", "MissionRedirected"} =>
              e.arg \in [id : Missions, to : Destinations]
         /\ e.type \in MissionEnd => e.arg \in Missions
         /\ e.type = "RedeemVoucher" => e.arg \in 1 .. 2
         /\ e.type \in {"Rank", "Progress", "Promotion"} => e.arg \in 1 .. Ranks
         /\ e.type \in PowerplayEvent => e.arg \in Powers \cup {Missing}
<1> USE DEF MissionEnd, PowerplayEvent
<1>1. CASE e \in [type : {"Missions"}, arg : Seq(Missions)]
  BY <1>1
<1>2. CASE e \in [type : {"MissionAccepted", "MissionRedirected"},
                  arg : [id : Missions, to : Destinations]]
  BY <1>2
<1>3. CASE e \in [type : MissionEnd, arg : Missions]
  BY <1>3
<1>4. CASE e \in [type : {"RedeemVoucher"}, arg : 1 .. 2]
  BY <1>4
<1>5. CASE e \in [type : {"Rank", "Progress", "Promotion"}, arg : 1 .. Ranks]
  BY <1>5
<1>6. CASE e \in [type : PowerplayEvent, arg : Powers \cup {Missing}]
  BY <1>6
<1> QED
  BY <1>1, <1>2, <1>3, <1>4, <1>5, <1>6 DEF RecordLine

\* SetToSeq lists a finite set, each element once.
LEMMA Enumerated ==
  ASSUME NEW S, IsFiniteSet(S)
  PROVE  SetToSeq(S) \in Seq(S) /\ ListsOnce(SetToSeq(S), S)
<1>1. /\ Cardinality(S) \in Nat
      /\ \E f \in [1 .. Cardinality(S) -> S] : IsInjective(f)
  BY FS_CardinalityType DEF ExistsBijection, Bijection, Injection
<1> DEFINE f == SetToSeq(S)
<1>2. f \in [1 .. Cardinality(S) -> S] /\ IsInjective(f)
  BY <1>1 DEF SetToSeq
<1> HIDE DEF f
<1>3. f \in Injection(1 .. Cardinality(S), S)
  BY <1>2 DEF Injection
<1>4. Cardinality(1 .. Cardinality(S)) = Cardinality(S)
  BY <1>1, FS_Interval
<1>5. f \in Surjection(1 .. Cardinality(S), S)
  BY <1>3, <1>4, FS_Injection
<1>6. \A y \in S : \E n \in 1 .. Cardinality(S) : f[n] = y
  BY <1>5 DEF Surjection
<1>7. f \in Seq(S) /\ DOMAIN f = 1 .. Cardinality(S)
  BY <1>1, <1>2
<1>8. {f[n] : n \in DOMAIN f} = S
  BY <1>2, <1>6, <1>7
<1> QED
  BY <1>2, <1>7, <1>8 DEF ListsOnce, IsInjective, f

\* The missions that are active are finitely many.
LEMMA HeldFinite ==
  ASSUME NEW a PROVE IsFiniteSet(Held(a)) /\ Held(a) \subseteq Missions
<1>1. Held(a) \in SUBSET Missions
  BY DEF Held
<1> QED
  BY <1>1, RecordAssumption, FS_Subset

\* The lines a game session begins with.
LEMMA OpeningLines ==
  ASSUME story \in Story, truth.rank \in 1 .. Ranks, truth.pledge \in Powers \cup {Missing}
  PROVE  /\ Opening \in Seq(RecordLine)
         /\ story = "missions" =>
              /\ Len(Opening) = 1 /\ Opening[1].type = "Missions"
              /\ ListsOnce(Opening[1].arg, Active)
         /\ story = "rank" =>
              /\ Len(Opening) = 2 /\ Opening[1].type = "Rank" /\ Opening[2].type = "Progress"
              /\ Opening[1].arg = truth.rank /\ Opening[2].arg = truth.rank
         /\ story = "power" =>
              \/ Len(Opening) = 0 /\ truth.pledge = Missing
              \/ /\ Len(Opening) = 1 /\ Opening[1].type = "Powerplay"
                 /\ Opening[1].arg = truth.pledge
         /\ story = "rewards" => Len(Opening) = 0
<1>1. /\ truth.rank \in 1 .. Ranks /\ truth.pledge \in Powers \cup {Missing}
      /\ story \in {"missions", "rewards", "rank", "power"}
  BY DEF Story
<1>2. CASE story = "missions"
  <2>1. PICK ids : ids = SetToSeq(Active)
    OBVIOUS
  <2>2. Active = Held(truth.active)
    BY DEF Active, Held
  <2>3. ids \in Seq(Missions) /\ ListsOnce(ids, Active)
    BY <2>1, <2>2, HeldFinite, Enumerated, SeqMonotonic
  <2>4. [type |-> "Missions", arg |-> ids] \in RecordLine
    BY <2>3 DEF RecordLine
  <2>5. Opening = <<[type |-> "Missions", arg |-> ids]>>
    BY <1>2, <2>1 DEF Opening, News
  <2> QED
    BY <1>2, <2>3, <2>4, <2>5
<1>3. CASE story = "rank"
  <2>1. Opening = <<[type |-> "Rank", arg |-> truth.rank],
                    [type |-> "Progress", arg |-> truth.rank]>>
    BY <1>3 DEF Opening, News
  <2>2. /\ [type |-> "Rank", arg |-> truth.rank] \in RecordLine
        /\ [type |-> "Progress", arg |-> truth.rank] \in RecordLine
    BY <1>1 DEF RecordLine
  <2> QED
    BY <1>3, <2>1, <2>2
<1>4. CASE story = "power"
  <2>1. CASE truth.pledge = Missing
    <3>1. Opening = <<>>
      BY <1>4, <2>1 DEF Opening
    <3> QED
      BY <1>4, <2>1, <3>1
  <2>2. CASE truth.pledge # Missing
    <3>1. Opening = <<[type |-> "Powerplay", arg |-> truth.pledge]>>
      BY <1>4, <2>2 DEF Opening, News
    <3>2. [type |-> "Powerplay", arg |-> truth.pledge] \in RecordLine
      BY <1>1 DEF RecordLine, PowerplayEvent
    <3> QED
      BY <1>4, <3>1, <3>2
  <2> QED
    BY <2>1, <2>2
<1>5. CASE story = "rewards"
  <2>1. Opening = <<>>
    BY <1>5 DEF Opening
  <2> QED
    BY <1>5, <2>1
<1> QED
  BY <1>1, <1>2, <1>3, <1>4, <1>5

\* The journal grows by some lines, and what waits grows with it.
LEMMA NewsWritten ==
  ASSUME RecordTypeOK, NEW new \in Seq(RecordLine), WriteNews(new)
  PROVE  /\ lines' \in Seq(RecordLine) /\ Len(lines) \in Nat /\ Len(new) \in Nat
         /\ Len(lines') = Len(lines) + Len(new)
         /\ \A n \in 1 .. Len(lines) : lines'[n] = lines[n]
         /\ \A n \in 1 .. Len(new) : lines'[Len(lines) + n] = new[n]
         /\ waiting' \in Seq(1 .. Len(lines')) /\ Len(waiting) \in Nat
         /\ Len(waiting') = Len(waiting) + Len(new)
         /\ \A n \in 1 .. Len(waiting) : waiting'[n] = waiting[n]
         /\ \A n \in 1 .. Len(new) : waiting'[Len(waiting) + n] = Len(lines) + n
<1>1. lines \in Seq(RecordLine) /\ waiting \in Seq(1 .. Len(lines))
  BY DEF RecordTypeOK
<1>2. /\ lines' \in Seq(RecordLine) /\ Len(lines) \in Nat /\ Len(new) \in Nat
      /\ Len(lines') = Len(lines) + Len(new)
      /\ \A n \in 1 .. Len(lines) : lines'[n] = lines[n]
      /\ \A n \in 1 .. Len(new) : lines'[Len(lines) + n] = new[n]
  BY <1>1 DEF WriteNews
<1>3. PICK more : more = [n \in 1 .. Len(new) |-> Len(lines) + n]
  OBVIOUS
<1>4. more \in Seq(1 .. Len(lines')) /\ Len(more) = Len(new)
  BY <1>2, <1>3
<1>5. waiting \in Seq(1 .. Len(lines'))
  <2>1. 1 .. Len(lines) \subseteq 1 .. Len(lines')
    BY <1>2
  <2> QED
    BY <1>1, <2>1, SeqMonotonic
<1>6. waiting' = waiting \o more
  <2>1. DOMAIN new = 1 .. Len(new)
    OBVIOUS
  <2> QED
    BY <1>3, <2>1 DEF WriteNews
<1>7. /\ waiting' \in Seq(1 .. Len(lines')) /\ Len(waiting) \in Nat
      /\ Len(waiting') = Len(waiting) + Len(new)
      /\ \A n \in 1 .. Len(waiting) : waiting'[n] = waiting[n]
      /\ \A n \in 1 .. Len(new) : waiting'[Len(waiting) + n] = more[n]
  <2>1. PICK S : S = 1 .. Len(lines')
    OBVIOUS
  <2>2. waiting \in Seq(S) /\ more \in Seq(S) /\ Len(more) = Len(new) /\ Len(new) \in Nat
    BY <1>2, <1>4, <1>5, <2>1
  <2>3. /\ waiting \o more \in Seq(S) /\ Len(waiting) \in Nat
        /\ Len(waiting \o more) = Len(waiting) + Len(new)
        /\ \A n \in 1 .. Len(waiting) : (waiting \o more)[n] = waiting[n]
        /\ \A n \in 1 .. Len(new) : (waiting \o more)[Len(waiting) + n] = more[n]
    BY <2>2
  <2> QED
    BY <1>6, <2>1, <2>3
<1> QED
  BY <1>2, <1>3, <1>7

\* The journal is delivered again.
LEMMA Repeated ==
  ASSUME RecordTypeOK, RereadAll
  PROVE  /\ waiting' \in Seq(1 .. Len(lines)) /\ Len(waiting) \in Nat /\ Len(lines) \in Nat
         /\ Len(waiting') = Len(waiting) + Len(lines)
         /\ \A n \in 1 .. Len(waiting) : waiting'[n] = waiting[n]
         /\ \A n \in 1 .. Len(lines) : waiting'[Len(waiting) + n] = n
         /\ repeats' # 0 /\ repeats' \in 0 .. MaxRereads
         /\ UNCHANGED <<story, truth, lines, rec, inOrder>>
<1>1. lines \in Seq(RecordLine) /\ waiting \in Seq(1 .. Len(lines)) /\ repeats \in 0 .. MaxRereads
  BY DEF RecordTypeOK
<1>2. PICK more : more = [n \in 1 .. Len(lines) |-> n]
  OBVIOUS
<1>3. more \in Seq(1 .. Len(lines)) /\ Len(more) = Len(lines) /\ DOMAIN lines = 1 .. Len(lines)
  BY <1>1, <1>2
<1>4. waiting' = waiting \o more
  BY <1>2, <1>3 DEF RereadAll
<1>5. /\ waiting' \in Seq(1 .. Len(lines)) /\ Len(waiting) \in Nat /\ Len(lines) \in Nat
      /\ Len(waiting') = Len(waiting) + Len(lines)
      /\ \A n \in 1 .. Len(waiting) : waiting'[n] = waiting[n]
      /\ \A n \in 1 .. Len(lines) : waiting'[Len(waiting) + n] = more[n]
  <2>1. /\ waiting \in Seq(1 .. Len(lines)) /\ more \in Seq(1 .. Len(lines))
        /\ Len(waiting) \in Nat /\ Len(lines) \in Nat /\ Len(more) = Len(lines)
    BY <1>1, <1>3
  <2>2. waiting' \in Seq(1 .. Len(lines)) /\ Len(waiting') = Len(waiting) + Len(lines)
    <3>1. PICK S : S = 1 .. Len(lines)
      OBVIOUS
    <3>2. waiting \in Seq(S) /\ more \in Seq(S)
      BY <2>1, <3>1
    <3>3. waiting \o more \in Seq(S) /\ Len(waiting \o more) = Len(waiting) + Len(more)
      BY <3>2
    <3> QED
      BY <2>1, <1>4, <3>1, <3>3
  <2>3. \A n \in 1 .. Len(waiting) : waiting'[n] = waiting[n]
    <3> TAKE n \in 1 .. Len(waiting)
    <3>1. n \in 1 .. (Len(waiting) + Len(more)) /\ n <= Len(waiting)
      BY <2>1
    <3> QED
      BY <2>1, <1>4, <3>1
  <2>4. \A n \in 1 .. Len(lines) : waiting'[Len(waiting) + n] = more[n]
    <3> TAKE n \in 1 .. Len(lines)
    <3>1. /\ Len(waiting) + n \in 1 .. (Len(waiting) + Len(more)) /\ ~(Len(waiting) + n <= Len(waiting))
          /\ Len(waiting) + n - Len(waiting) = n
      BY <2>1
    <3> QED
      BY <2>1, <1>4, <3>1
  <2> QED
    BY <2>1, <2>2, <2>3, <2>4
<1> QED
  BY <1>1, <1>2, <1>5, RecordAssumption DEF RereadAll, career

\* The lines that wait stay in step when some are added ...
LEMMA InStepGrows ==
  ASSUME InStep, NEW w, waiting \in Seq(Nat), w = waiting, waiting' \in Seq(Nat),
         NEW k \in Nat, NEW from \in Nat, Len(waiting') = Len(w) + k,
         Len(lines) \in Nat, Len(lines') \in Nat,
         \A n \in 1 .. Len(w) : waiting'[n] = w[n],
         \A n \in 1 .. k : waiting'[Len(w) + n] = from + n,
         from = 0 \/ from = Len(lines), Len(lines') = from + k, Len(lines') >= Len(lines),
         inOrder' = inOrder
  PROVE  InStep'
<1> SUFFICES ASSUME inOrder = TRUE
             PROVE  /\ Len(waiting') > 0 => waiting'[Len(waiting')] = Len(lines')
                    /\ \A n \in 1 .. Len(waiting') - 1 :
                         waiting'[n + 1] = waiting'[n] + 1 \/ waiting'[n + 1] = 1
  BY DEF InStep
<1>1. /\ Len(w) > 0 => w[Len(w)] = Len(lines)
      /\ \A n \in 1 .. Len(w) - 1 : w[n + 1] = w[n] + 1 \/ w[n + 1] = 1
  BY DEF InStep
<1>2. Len(w) \in Nat
  OBVIOUS
<1>3. ASSUME Len(waiting') > 0 PROVE waiting'[Len(waiting')] = Len(lines')
  <2>1. CASE k = 0
    <3>1. Len(waiting') = Len(w) /\ Len(w) > 0 /\ Len(lines') = Len(lines)
      BY <1>2, <1>3, <2>1
    <3> QED
      BY <1>1, <1>2, <3>1
  <2>2. CASE k > 0
    <3>1. waiting'[Len(w) + k] = from + k
      <4>1. k \in 1 .. k
        BY <2>2
      <4> QED
        BY <4>1
    <3> QED
      BY <1>2, <3>1
  <2> QED
    BY <2>1, <2>2
<1>4. ASSUME NEW n \in 1 .. Len(waiting') - 1
      PROVE  waiting'[n + 1] = waiting'[n] + 1 \/ waiting'[n + 1] = 1
  <2>1. CASE n + 1 <= Len(w)
    <3>1. n \in 1 .. Len(w) - 1 /\ n \in 1 .. Len(w) /\ n + 1 \in 1 .. Len(w)
      BY <1>2, <2>1
    <3> QED
      BY <1>1, <3>1
  <2>2. CASE n = Len(w)
    <3>1. waiting'[n] = Len(lines) /\ waiting'[n + 1] = from + 1
      BY <1>1, <1>2, <2>2
    <3> QED
      BY <3>1
  <2>3. CASE n > Len(w)
    <3>1. n - Len(w) \in 1 .. k /\ n + 1 - Len(w) \in 1 .. k
      BY <1>2, <2>3
    <3>2. /\ waiting'[Len(w) + (n - Len(w))] = from + (n - Len(w))
          /\ waiting'[Len(w) + (n + 1 - Len(w))] = from + (n + 1 - Len(w))
      BY <3>1
    <3> QED
      BY <1>2, <3>2
  <2> QED
    BY <1>2, <2>1, <2>2, <2>3
<1> QED
  BY <1>3, <1>4

\* ... and when one is handled: the next line handled last is that one, unless the
\* journal begins anew.
LEMMA InStepTaken ==
  ASSUME RecordTypeOK, InStep, NEW n \in DOMAIN waiting, TakeOut(n)
  PROVE  /\ InStep'
         /\ n \in 1 .. Len(waiting) /\ waiting[n] \in 1 .. Len(lines)
         /\ lines[waiting[n]] \in RecordLine /\ lines' = lines
         /\ waiting' \in Seq(1 .. Len(lines)) /\ inOrder' \in BOOLEAN
         /\ inOrder' = TRUE =>
              /\ inOrder = TRUE /\ n = 1
              /\ Reached = waiting[n] - 1 /\ (Reached' = waiting[n] \/ Reached' = 0)
<1>1. lines \in Seq(RecordLine) /\ waiting \in Seq(1 .. Len(lines)) /\ inOrder \in BOOLEAN
  BY DEF RecordTypeOK
<1>2. /\ n \in 1 .. Len(waiting) /\ waiting[n] \in 1 .. Len(lines)
      /\ lines[waiting[n]] \in RecordLine /\ lines' = lines /\ Len(lines) \in Nat
      /\ Len(waiting) \in Nat /\ Len(waiting') = Len(waiting) - 1
      /\ \A j \in 1 .. Len(waiting) - 1 : waiting'[j] = waiting[IF j < n THEN j ELSE j + 1]
      /\ waiting' \in Seq(1 .. Len(lines))
      /\ inOrder' \in BOOLEAN /\ (inOrder' = TRUE => inOrder = TRUE /\ n = 1)
  BY <1>1, TakenOut
<1>3. ASSUME inOrder' = TRUE
      PROVE  /\ inOrder = TRUE /\ n = 1
             /\ Reached = waiting[n] - 1 /\ (Reached' = waiting[n] \/ Reached' = 0)
             /\ Len(waiting') > 0 => waiting'[Len(waiting')] = Len(lines')
             /\ \A j \in 1 .. Len(waiting') - 1 :
                  waiting'[j + 1] = waiting'[j] + 1 \/ waiting'[j + 1] = 1
  <2>1. inOrder = TRUE /\ n = 1
    BY <1>2, <1>3
  <2>2. PICK w : w = waiting
    OBVIOUS
  <2>3. /\ Len(w) > 0 => w[Len(w)] = Len(lines)
        /\ \A j \in 1 .. Len(w) - 1 : w[j + 1] = w[j] + 1 \/ w[j + 1] = 1
    BY <2>1, <2>2 DEF InStep
  <2>4. ASSUME NEW j \in 1 .. Len(waiting') PROVE waiting'[j] = w[j + 1]
    <3>1. j \in 1 .. Len(waiting) - 1 /\ ~(j < n)
      BY <1>2, <2>1
    <3> QED
      BY <1>2, <2>2, <3>1
  <2>5. w[1] \in Nat /\ Len(w) >= 1 /\ Len(w) \in Nat /\ Len(waiting') = Len(w) - 1
        /\ \A j \in 1 .. Len(w) : w[j] \in Nat
    <3>1. w \in Seq(1 .. Len(lines))
      BY <1>1, <2>2
    <3>2. \A j \in 1 .. Len(w) : w[j] \in Nat
      BY <3>1, ElementOfSeq
    <3> QED
      BY <1>2, <2>1, <2>2, <3>2
  <2>6. Reached = w[1] - 1
    BY <2>2, <2>5 DEF Reached
  <2>7. Reached' = w[1] \/ Reached' = 0
    <3>1. CASE Len(w) = 1
      BY <1>2, <2>3, <2>5, <3>1 DEF Reached
    <3>2. CASE Len(w) > 1
      <4>1. Reached' = w[2] - 1
        BY <2>4, <2>5, <3>2 DEF Reached
      <4>2. w[2] = w[1] + 1 \/ w[2] = 1
        BY <2>3, <2>5, <3>2
      <4> QED
        BY <2>5, <4>1, <4>2
    <3> QED
      BY <2>5, <3>1, <3>2
  <2>8. ASSUME Len(waiting') > 0 PROVE waiting'[Len(waiting')] = Len(lines')
    <3>1. Len(w) - 1 \in 1 .. Len(waiting') /\ Len(w) - 1 + 1 = Len(w) /\ Len(w) > 0
      BY <2>5, <2>8
    <3>2. waiting'[Len(w) - 1] = w[Len(w)]
      BY <2>4, <3>1
    <3>3. w[Len(w)] = Len(lines) /\ lines' = lines
      BY <1>2, <2>3, <3>1
    <3> QED
      BY <2>5, <3>2, <3>3
  <2>9. ASSUME NEW j \in 1 .. Len(waiting') - 1
        PROVE  waiting'[j + 1] = waiting'[j] + 1 \/ waiting'[j + 1] = 1
    <3>1. waiting'[j + 1] = w[j + 2] /\ waiting'[j] = w[j + 1] /\ j + 1 \in 1 .. Len(w) - 1
      BY <2>4, <2>5
    <3>2. j + 1 + 1 = j + 2
      OBVIOUS
    <3> QED
      BY <2>3, <3>1, <3>2
  <2> QED
    BY <2>1, <2>2, <2>6, <2>7, <2>8, <2>9
<1>4. InStep'
  BY <1>3 DEF InStep
<1> QED
  BY <1>2, <1>3, <1>4

\* The events that leave a trace in the history.
Remembered == {"MissionCompleted", "RedeemVoucher"} \cup PowerplayEvent

\* _bounded_history touches nothing but the history, and keeps it short.
LEMMA RememberedIsBounded ==
  ASSUME NEW r \in RecordState, NEW event \in Remembered
  PROVE  /\ Remember(r, event) \in RecordState
         /\ Len(Remember(r, event).history) <= HistoryLimit
         /\ Remember(r, event).missions = r.missions /\ Remember(r, event).session = r.session
         /\ Remember(r, event).bounty = r.bounty /\ Remember(r, event).rank = r.rank
         /\ Remember(r, event).progress = r.progress /\ Remember(r, event).pledge = r.pledge
<1>1. PICK all : all = Append(r.history, event)
  OBVIOUS
<1>2. all \in Seq(Remembered) /\ Len(all) \in Nat
  BY <1>1 DEF RecordState, Remembered
<1>3. PICK from : from = IF Len(all) > HistoryLimit THEN Len(all) - HistoryLimit + 1 ELSE 1
  OBVIOUS
<1>4. /\ from \in Nat \ {0} /\ Len(all) - from + 1 <= HistoryLimit
      /\ from <= Len(all) + 1
  BY <1>2, <1>3, RecordAssumption
<1>5. PICK h : h = SubSeq(all, from, Len(all))
  OBVIOUS
<1>6. h \in Seq(Remembered) /\ Len(h) <= HistoryLimit
  <2>1. h \in Seq(Remembered) /\ Len(h) = IF from <= Len(all) THEN Len(all) - from + 1 ELSE 0
    BY <1>2, <1>4, <1>5, SubSeqProperties
  <2> QED
    BY <1>2, <1>4, <2>1, RecordAssumption
<1>7. Remember(r, event) = [r EXCEPT !.history = h]
  BY <1>1, <1>3, <1>5 DEF Remember
<1> QED
  BY <1>6, <1>7 DEF RecordState, Remembered

\* The first entry of a mission is an entry of it.
LEMMA FirstIsEntry ==
  ASSUME NEW r \in RecordState, NEW m, Entries(r, m) # {}
  PROVE  FirstEntry(r, m) \in DOMAIN r.missions /\ r.missions[FirstEntry(r, m)].id = m
<1>1. Entries(r, m) \subseteq 1 .. Len(r.missions)
  BY DEF Entries, RecordState
<1>2. \E n \in Entries(r, m) : \A k \in Entries(r, m) : n <= k
  BY <1>1, Smallest
<1>3. FirstEntry(r, m) \in Entries(r, m)
  BY <1>2 DEF FirstEntry
<1> QED
  BY <1>3 DEF Entries

\* What each recorder makes of the list of missions.
LEMMA SnapshotRecorded ==
  ASSUME NEW r \in RecordState, NEW ids \in Seq(Missions), NEW q, q = RecordMissions(r, ids)
  PROVE  /\ q \in RecordState /\ q.history = r.history
         /\ Len(q.missions) = Len(ids)
         /\ \A n \in 1 .. Len(ids) : q.missions[n] = [id |-> ids[n], to |-> Missing]
         /\ Occupied(q)
<1>1. PICK list : list = [n \in 1 .. Len(ids) |-> [id |-> ids[n], to |-> Missing]]
  OBVIOUS
<1>2. list \in Seq(MissionEntry) /\ Len(list) = Len(ids) /\ DOMAIN ids = 1 .. Len(ids)
  BY <1>1 DEF MissionEntry
<1>3. PICK b : b = (ids # <<>>)
  OBVIOUS
<1>4. q = [r EXCEPT !.missions = list, !.session = b]
  BY <1>1, <1>2, <1>3, Zenon DEF RecordMissions
<1>5. b \in BOOLEAN /\ (ids # <<>> => b = TRUE) /\ (ids = <<>> => b = FALSE)
  BY <1>3, Zenon
<1>6. (Len(ids) > 0 => ids # <<>>) /\ (Len(ids) = 0 => ids = <<>>)
  OBVIOUS
<1>7. q \in RecordState /\ q.history = r.history /\ q.missions = list /\ q.session = b
  BY <1>2, <1>4, <1>5 DEF RecordState
<1>8. Occupied(q)
  BY <1>2, <1>5, <1>6, <1>7 DEF Occupied
<1> QED
  BY <1>1, <1>2, <1>7, <1>8

LEMMA AcceptanceRecorded ==
  ASSUME NEW r \in RecordState, NEW entry \in MissionEntry, NEW q, q = RecordAccepted(r, entry)
  PROVE  /\ q \in RecordState /\ q.history = r.history
         /\ q.missions = Append(r.missions, entry) /\ Occupied(q)
<1>1. q = [r EXCEPT !.missions = Append(r.missions, entry), !.session = TRUE]
  BY DEF RecordAccepted
<1>2. Append(r.missions, entry) \in Seq(MissionEntry) /\ Len(Append(r.missions, entry)) > 0
  BY DEF RecordState
<1>3. /\ q \in RecordState /\ q.history = r.history
      /\ q.missions = Append(r.missions, entry) /\ q.session = TRUE
  BY <1>1, <1>2 DEF RecordState
<1>4. Occupied(q)
  BY <1>2, <1>3 DEF Occupied
<1> QED
  BY <1>3, <1>4

LEMMA EndRecorded ==
  ASSUME NEW r \in RecordState, NEW m, NEW q, q = RecordEnded(r, m)
  PROVE  /\ q \in RecordState /\ q.history = r.history
         /\ Entries(r, m) = {} => q = r
         /\ Entries(r, m) # {} =>
              \E n \in 1 .. Len(r.missions) :
                /\ r.missions[n].id = m /\ q.missions = RemoveAt(r.missions, n)
                /\ Occupied(q)
<1>1. CASE Entries(r, m) = {}
  BY <1>1 DEF RecordEnded
<1>2. CASE Entries(r, m) # {}
  <2>1. PICK n : n = FirstEntry(r, m)
    OBVIOUS
  <2>2. n \in 1 .. Len(r.missions) /\ r.missions[n].id = m /\ r.missions \in Seq(MissionEntry)
    BY <1>2, <2>1, FirstIsEntry DEF RecordState
  <2>3. PICK list : list = RemoveAt(r.missions, n)
    OBVIOUS
  <2>4. list \in Seq(MissionEntry) /\ Len(list) = Len(r.missions) - 1
    BY <2>2, <2>3, RemovedAt
  <2>5. PICK b : b = (Len(r.missions) > 1)
    OBVIOUS
  <2>6. /\ b \in BOOLEAN
        /\ Len(r.missions) > 1 => b = TRUE
        /\ ~(Len(r.missions) > 1) => b = FALSE
    <3>1. CASE Len(r.missions) > 1
      BY <2>5, <3>1, Zenon
    <3>2. CASE ~(Len(r.missions) > 1)
      <4>1. ~b
        BY <2>5, <3>2, Zenon
      <4>2. b \in BOOLEAN
        BY <2>5
      <4> QED
        BY <3>2, <4>1, <4>2, Zenon
    <3> QED
      BY <3>1, <3>2, Zenon
  <2>7. q = [r EXCEPT !.missions = list, !.session = b]
    BY <1>2, <2>1, <2>3, <2>5, Zenon DEF RecordEnded
  <2>8. q \in RecordState /\ q.history = r.history /\ q.missions = list /\ q.session = b
    BY <2>4, <2>6, <2>7 DEF RecordState
  <2>9. Occupied(q)
    <3>1. CASE Len(r.missions) > 1
      BY <2>4, <2>6, <2>8, <3>1 DEF Occupied
    <3>2. CASE ~(Len(r.missions) > 1)
      BY <2>2, <2>4, <2>6, <2>8, <3>2 DEF Occupied
    <3> QED
      BY <3>1, <3>2
  <2> QED
    BY <1>2, <2>2, <2>3, <2>6, <2>8, <2>9
<1> QED
  BY <1>1, <1>2

Replaced(s, n, entry) == [s EXCEPT ![n] = entry]

LEMMA RedirectionRecorded ==
  ASSUME NEW r \in RecordState, NEW entry \in MissionEntry, NEW q, q = RecordRedirected(r, entry)
  PROVE  /\ q \in RecordState /\ q.history = r.history /\ q.session = r.session
         /\ Entries(r, entry.id) # {} =>
              \E n \in 1 .. Len(r.missions) :
                r.missions[n].id = entry.id /\ q.missions = Replaced(r.missions, n, entry)
<1>1. CASE Entries(r, entry.id) = {}
  BY <1>1 DEF RecordRedirected
<1>2. CASE Entries(r, entry.id) # {}
  <2>1. PICK n : n = FirstEntry(r, entry.id)
    OBVIOUS
  <2>2. n \in 1 .. Len(r.missions) /\ r.missions[n].id = entry.id
        /\ r.missions \in Seq(MissionEntry) /\ r.missions[n] \in MissionEntry
    BY <1>2, <2>1, FirstIsEntry DEF RecordState
  <2>3. q = [r EXCEPT !.missions[n].to = entry.to]
    BY <1>2, <2>1 DEF RecordRedirected
  <2>4. [r.missions[n] EXCEPT !.to = entry.to] = entry
    BY <2>2 DEF MissionEntry
  <2>5. PICK s : s = Replaced(r.missions, n, entry)
    OBVIOUS
  <2>6. q = [r EXCEPT !.missions = s]
    BY <2>2, <2>3, <2>4, <2>5 DEF RecordState, Replaced
  <2>7. s \in Seq(MissionEntry)
    BY <2>2, <2>5 DEF Replaced
  <2>8. q \in RecordState /\ q.history = r.history /\ q.session = r.session /\ q.missions = s
    BY <2>6, <2>7 DEF RecordState
  <2> QED
    BY <2>2, <2>5, <2>8
<1> QED
  BY <1>1, <1>2

\* Which recorder a line is for.
LEMMA RecordedBy ==
  ASSUME NEW r, NEW e, NEW q, q = Recorded(r, e)
  PROVE  /\ e.type = "Missions" => q = RecordMissions(r, e.arg)
         /\ e.type = "MissionAccepted" => q = RecordAccepted(r, e.arg)
         /\ e.type = "MissionCompleted" => q = RecordEnded(Remember(r, "MissionCompleted"), e.arg)
         /\ e.type = "MissionFailed" => q = RecordEnded(r, e.arg)
         /\ e.type = "MissionRedirected" => q = RecordRedirected(r, e.arg)
         /\ e.type = "RedeemVoucher" => q = RecordVoucher(r, e.arg)
         /\ e.type = "Rank" => q = [r EXCEPT !.rank = e.arg]
         /\ e.type = "Progress" => q = [r EXCEPT !.progress = e.arg]
         /\ e.type = "Promotion" => q = RecordPromotion(r, e.arg)
         /\ e.type \in PowerplayEvent => q = RecordPower(r, e)
  BY DEF Recorded, PowerplayEvent

\* What the recorders of vouchers, rank and power change.
LEMMA OthersRecorded ==
  ASSUME NEW r \in RecordState, Len(r.history) <= HistoryLimit, NEW e \in RecordLine,
         NEW q, q = Recorded(r, e)
  PROVE  /\ e.type = "RedeemVoucher" =>
              /\ q \in RecordState /\ Len(q.history) <= HistoryLimit
              /\ r.bounty = Missing => q.bounty = e.arg
              /\ r.bounty # Missing => q.bounty = r.bounty + e.arg
         /\ e.type = "Rank" =>
              /\ q \in RecordState /\ q.history = r.history
              /\ q.rank = e.arg /\ q.progress = r.progress
         /\ e.type = "Progress" =>
              /\ q \in RecordState /\ q.history = r.history
              /\ q.rank = r.rank /\ q.progress = e.arg
         /\ e.type = "Promotion" =>
              /\ q \in RecordState /\ q.history = r.history
              /\ q.rank = e.arg /\ q.progress = Missing
         /\ e.type \in PowerplayEvent =>
              /\ q \in RecordState /\ Len(q.history) <= HistoryLimit
              /\ e.type # "PowerplayMerits" => q.pledge = e.arg
              /\ e.type = "PowerplayMerits" => q.pledge = r.pledge
<1>1. CASE e.type = "RedeemVoucher"
  <2>1. q = RecordVoucher(r, e.arg) /\ e.arg \in 1 .. 2
    BY <1>1, RecordedBy, LineArgument
  <2>2. PICK s : s = Remember(r, "RedeemVoucher")
    OBVIOUS
  <2>3. "RedeemVoucher" \in Remembered
    BY DEF Remembered
  <2>4. s \in RecordState /\ Len(s.history) <= HistoryLimit /\ s.bounty = r.bounty
    BY <2>2, <2>3, RememberedIsBounded
  <2>5. PICK total : total = IF s.bounty = Missing THEN e.arg ELSE s.bounty + e.arg
    OBVIOUS
  <2>6. total \in Nat
    BY <2>1, <2>4, <2>5 DEF RecordState
  <2>7. q = [s EXCEPT !.bounty = total]
    BY <2>1, <2>2, <2>5 DEF RecordVoucher
  <2>8. q \in RecordState /\ q.history = s.history /\ q.bounty = total
    BY <2>4, <2>6, <2>7 DEF RecordState
  <2> QED
    BY <1>1, <2>4, <2>5, <2>8 DEF PowerplayEvent
<1>2. CASE e.type \in {"Rank", "Progress", "Promotion"}
  <2>1. e.arg \in 1 .. Ranks
    BY <1>2, LineArgument
  <2>2. CASE e.type = "Rank"
    <3>1. q = [r EXCEPT !.rank = e.arg]
      BY <2>2, RecordedBy
    <3> QED
      BY <2>1, <2>2, <3>1 DEF RecordState, PowerplayEvent
  <2>3. CASE e.type = "Progress"
    <3>1. q = [r EXCEPT !.progress = e.arg]
      BY <2>3, RecordedBy
    <3> QED
      BY <2>1, <2>3, <3>1 DEF RecordState, PowerplayEvent
  <2>4. CASE e.type = "Promotion"
    <3>1. q = [r EXCEPT !.rank = e.arg, !.progress = Missing]
      BY <2>4, RecordedBy DEF RecordPromotion
    <3> QED
      BY <2>1, <2>4, <3>1 DEF RecordState, PowerplayEvent
  <2> QED
    BY <1>2, <2>2, <2>3, <2>4
<1>3. CASE e.type \in PowerplayEvent
  <2>1. q = RecordPower(r, e) /\ e.arg \in Powers \cup {Missing}
    BY <1>3, RecordedBy, LineArgument
  <2>2. PICK s : s = Remember(r, e.type)
    OBVIOUS
  <2>3. e.type \in Remembered
    BY <1>3 DEF Remembered
  <2>4. s \in RecordState /\ Len(s.history) <= HistoryLimit /\ s.pledge = r.pledge
    BY <2>2, <2>3, RememberedIsBounded
  <2>5. CASE e.type = "PowerplayMerits"
    <3>1. q = s
      BY <2>1, <2>2, <2>5 DEF RecordPower
    <3> QED
      BY <2>4, <2>5, <3>1
  <2>6. CASE e.type # "PowerplayMerits"
    <3>1. q = [s EXCEPT !.pledge = e.arg]
      BY <1>3, <2>1, <2>2, <2>6 DEF RecordPower, PowerplayEvent
    <3>2. q \in RecordState /\ q.history = s.history /\ q.pledge = e.arg
      BY <2>1, <2>4, <3>1 DEF RecordState
    <3> QED
      BY <1>3, <2>4, <2>6, <3>2 DEF PowerplayEvent
  <2> QED
    BY <2>5, <2>6
<1> QED
  BY <1>1, <1>2, <1>3

\* Every handler leaves a well-formed record.
LEMMA RecordedTyped ==
  ASSUME NEW r \in RecordState, Len(r.history) <= HistoryLimit, NEW e \in RecordLine,
         NEW q, q = Recorded(r, e)
  PROVE  q \in RecordState /\ Len(q.history) <= HistoryLimit
<1>1. CASE e.type = "Missions"
  <2>1. PICK ids \in Seq(Missions) : q = RecordMissions(r, ids)
    BY <1>1, LineArgument, RecordedBy
  <2>2. q \in RecordState /\ q.history = r.history
    BY <2>1, SnapshotRecorded
  <2> QED
    BY <2>2
<1>2. CASE e.type = "MissionAccepted"
  <2>1. e.arg \in MissionEntry /\ q = RecordAccepted(r, e.arg)
    BY <1>2, LineArgument, RecordedBy DEF MissionEntry
  <2> QED
    BY <2>1, AcceptanceRecorded
<1>3. CASE e.type = "MissionRedirected"
  <2>1. e.arg \in MissionEntry /\ q = RecordRedirected(r, e.arg)
    BY <1>3, LineArgument, RecordedBy DEF MissionEntry
  <2> QED
    BY <2>1, RedirectionRecorded
<1>4. CASE e.type = "MissionFailed"
  <2>1. PICK m : q = RecordEnded(r, m)
    BY <1>4, RecordedBy
  <2>2. q \in RecordState /\ q.history = r.history
    BY <2>1, EndRecorded
  <2> QED
    BY <2>2
<1>5. CASE e.type = "MissionCompleted"
  <2>1. PICK s : s = Remember(r, "MissionCompleted")
    OBVIOUS
  <2>2. PICK m : q = RecordEnded(s, m)
    BY <1>5, <2>1, RecordedBy
  <2>3. s \in RecordState /\ Len(s.history) <= HistoryLimit
    BY <2>1, RememberedIsBounded DEF Remembered
  <2>4. q \in RecordState /\ q.history = s.history
    BY <2>2, <2>3, EndRecorded
  <2> QED
    BY <2>3, <2>4
<1> QED
  BY <1>1, <1>2, <1>3, <1>4, <1>5, OthersRecorded, LineArgument

-----------------------------------------------------------------------------
(* CommanderRecord: type correctness.                                      *)

\* A step of the game that is not told by the opening writes one line.
LEMMA WrittenLine ==
  ASSUME NEW type, NEW arg, [type |-> type, arg |-> arg] \in RecordLine
  PROVE  <<News(type, arg)>> \in Seq(RecordLine)
  BY DEF News

LEMMA WrittenTyped ==
  ASSUME RecordTypeOK, NEW new \in Seq(RecordLine), WriteNews(new),
         truth' \in [active : [Missions -> Destinations \cup {Missing}], redeemed : Nat,
                     rank : 1 .. Ranks, pledge : Powers \cup {Missing}]
  PROVE  RecordTypeOK'
<1>1. lines' \in Seq(RecordLine) /\ waiting' \in Seq(1 .. Len(lines'))
  BY NewsWritten
<1>2. DOMAIN (lines') = 1 .. Len(lines')
  BY <1>1
<1> QED
  BY <1>1, <1>2 DEF RecordTypeOK, WriteNews

LEMMA RecordTypeInit == RecordInit => RecordTypeOK
<1> SUFFICES ASSUME RecordInit PROVE RecordTypeOK
  OBVIOUS
<1>1. /\ story \in Story
      /\ truth \in [active : [Missions -> Destinations \cup {Missing}], redeemed : {0},
                    rank : {1}, pledge : Powers \cup {Missing}]
      /\ lines = Opening /\ waiting = [n \in DOMAIN lines |-> n]
      /\ rec = [missions |-> <<>>, session |-> Missing, bounty |-> Missing, rank |-> Missing,
                progress |-> Missing, pledge |-> Missing, history |-> <<>>]
      /\ inOrder = TRUE /\ repeats = 0
  BY DEF RecordInit
<1>2. truth \in [active : [Missions -> Destinations \cup {Missing}], redeemed : Nat,
                 rank : 1 .. Ranks, pledge : Powers \cup {Missing}]
  BY <1>1, RecordAssumption
<1>3. rec \in RecordState /\ Len(rec.history) <= HistoryLimit
  BY <1>1, RecordAssumption DEF RecordState
<1>4. Opening \in Seq(RecordLine)
  BY <1>1, <1>2, OpeningLines
<1>5. waiting \in Seq(DOMAIN lines)
  BY <1>1, <1>4
<1> QED
  BY <1>1, <1>2, <1>3, <1>4, <1>5, RecordAssumption DEF RecordTypeOK

LEMMA RecordTypeStep == RecordTypeOK /\ [RecordNext]_recordVars => RecordTypeOK'
<1> SUFFICES ASSUME RecordTypeOK, [RecordNext]_recordVars PROVE RecordTypeOK'
  OBVIOUS
<1> DEFINE Truth == [active : [Missions -> Destinations \cup {Missing}], redeemed : Nat,
                     rank : 1 .. Ranks, pledge : Powers \cup {Missing}]
<1>1. truth \in Truth
  BY DEF RecordTypeOK
<1>2. CASE Relog
  <2>1. Opening \in Seq(RecordLine) /\ WriteNews(Opening) /\ truth' \in Truth
    BY <1>1, <1>2, OpeningLines DEF Relog, RecordTypeOK
  <2> QED
    BY <2>1, WrittenTyped
<1>3. ASSUME NEW m \in Missions, NEW d \in Destinations, Accept(m, d) PROVE RecordTypeOK'
  <2>1. truth' \in Truth
    BY <1>1, <1>3 DEF Accept
  <2>2. [type |-> "MissionAccepted", arg |-> [id |-> m, to |-> d]] \in RecordLine
    BY DEF RecordLine
  <2> QED
    BY <1>3, <2>1, <2>2, WrittenLine, WrittenTyped DEF Accept
<1>4. ASSUME NEW m \in Missions, NEW d \in Destinations, Redirect(m, d) PROVE RecordTypeOK'
  <2>1. truth' \in Truth
    BY <1>1, <1>4 DEF Redirect
  <2>2. [type |-> "MissionRedirected", arg |-> [id |-> m, to |-> d]] \in RecordLine
    BY DEF RecordLine
  <2> QED
    BY <1>4, <2>1, <2>2, WrittenLine, WrittenTyped DEF Redirect
<1>5. ASSUME NEW m \in Missions, NEW type \in MissionEnd, EndMission(m, type) PROVE RecordTypeOK'
  <2>1. truth' \in Truth
    BY <1>1, <1>5 DEF EndMission
  <2>2. [type |-> type, arg |-> m] \in RecordLine
    BY DEF RecordLine
  <2> QED
    BY <1>5, <2>1, <2>2, WrittenLine, WrittenTyped DEF EndMission
<1>6. ASSUME NEW amount \in 1 .. 2, Redeem(amount) PROVE RecordTypeOK'
  <2>1. truth' \in Truth
    BY <1>1, <1>6 DEF Redeem
  <2>2. [type |-> "RedeemVoucher", arg |-> amount] \in RecordLine
    BY DEF RecordLine
  <2> QED
    BY <1>6, <2>1, <2>2, WrittenLine, WrittenTyped DEF Redeem
<1>7. CASE Promote
  <2>1. truth' \in Truth /\ truth.rank + 1 \in 1 .. Ranks
    BY <1>1, <1>7, RecordAssumption DEF Promote
  <2>2. [type |-> "Promotion", arg |-> truth.rank + 1] \in RecordLine
    BY <2>1 DEF RecordLine
  <2> QED
    BY <1>7, <2>1, <2>2, WrittenLine, WrittenTyped DEF Promote
<1>8. ASSUME NEW p \in Powers \cup {Missing}, Pledge(p) PROVE RecordTypeOK'
  <2>1. truth' \in Truth
    BY <1>1, <1>8 DEF Pledge
  <2>2. PICK type : type = IF p = Missing THEN "PowerplayLeave"
                           ELSE IF truth.pledge = Missing THEN "PowerplayJoin"
                                ELSE "PowerplayDefect"
    OBVIOUS
  <2>3. [type |-> type, arg |-> p] \in RecordLine
    BY <2>2 DEF RecordLine, PowerplayEvent
  <2>4. WriteNews(<<News(type, p)>>)
    BY <1>8, <2>2 DEF Pledge
  <2> QED
    BY <2>1, <2>3, <2>4, WrittenLine, WrittenTyped
<1>9. CASE WorkForPower
  <2>1. truth' \in Truth
    BY <1>1, <1>9 DEF WorkForPower
  <2>2. [type |-> "PowerplayMerits", arg |-> truth.pledge] \in RecordLine
    BY <1>1 DEF RecordLine, PowerplayEvent
  <2> QED
    BY <1>9, <2>1, <2>2, WrittenLine, WrittenTyped DEF WorkForPower
<1>10. CASE RereadAll
  <2>1. DOMAIN (lines') = 1 .. Len(lines)
    BY <1>10, Repeated DEF RecordTypeOK
  <2> QED
    BY <1>10, <2>1, Repeated DEF RecordTypeOK
<1>11. ASSUME NEW n \in DOMAIN waiting, HandleRecordLine(n) PROVE RecordTypeOK'
  <2>1. TakeOut(n) /\ rec' = Recorded(rec, lines[waiting[n]]) /\ UNCHANGED <<story, truth, repeats>>
    BY <1>11 DEF HandleRecordLine
  <2>2. /\ lines \in Seq(RecordLine) /\ waiting \in Seq(1 .. Len(lines)) /\ inOrder \in BOOLEAN
        /\ DOMAIN lines = 1 .. Len(lines)
    BY DEF RecordTypeOK
  <2>3. /\ lines[waiting[n]] \in RecordLine /\ lines' = lines
        /\ waiting' \in Seq(1 .. Len(lines)) /\ inOrder' \in BOOLEAN
    BY <2>1, <2>2, TakenOut
  <2>4. rec' \in RecordState /\ Len(rec'.history) <= HistoryLimit
    BY <2>1, <2>3, RecordedTyped DEF RecordTypeOK
  <2> QED
    BY <2>1, <2>2, <2>3, <2>4 DEF RecordTypeOK
<1>12. CASE UNCHANGED recordVars
  BY <1>12 DEF RecordTypeOK, recordVars, career
<1> QED
  BY <1>2, <1>3, <1>4, <1>5, <1>6, <1>7, <1>8, <1>9, <1>10, <1>11, <1>12 DEF RecordNext

-----------------------------------------------------------------------------
(* CommanderRecord: the lines that wait, and the line handled last.        *)

\* Some lines are written; RereadAll and the handlers are the other steps.
LEMMA RecordSteps ==
  ASSUME RecordTypeOK, RecordNext
  PROVE  \/ \E new \in Seq(RecordLine) : WriteNews(new)
         \/ RereadAll
         \/ \E n \in DOMAIN waiting : HandleRecordLine(n)
<1>1. truth.rank \in 1 .. Ranks /\ truth.pledge \in Powers \cup {Missing}
  BY DEF RecordTypeOK
<1>2. CASE Relog
  <2>1. Opening \in Seq(RecordLine) /\ WriteNews(Opening)
    BY <1>1, <1>2, OpeningLines DEF Relog, RecordTypeOK
  <2> QED
    BY <2>1
<1>3. ASSUME NEW m \in Missions, NEW d \in Destinations, Accept(m, d) \/ Redirect(m, d)
      PROVE  \E new \in Seq(RecordLine) : WriteNews(new)
  <2>1. PICK type \in {"MissionAccepted", "MissionRedirected"} :
               WriteNews(<<News(type, [id |-> m, to |-> d])>>)
    BY <1>3 DEF Accept, Redirect
  <2>2. [type |-> type, arg |-> [id |-> m, to |-> d]] \in RecordLine
    BY DEF RecordLine
  <2> QED
    BY <2>1, <2>2, WrittenLine
<1>4. ASSUME NEW m \in Missions, NEW type \in MissionEnd, EndMission(m, type)
      PROVE  \E new \in Seq(RecordLine) : WriteNews(new)
  <2>1. [type |-> type, arg |-> m] \in RecordLine
    BY DEF RecordLine
  <2> QED
    BY <1>4, <2>1, WrittenLine DEF EndMission
<1>5. ASSUME NEW amount \in 1 .. 2, Redeem(amount)
      PROVE  \E new \in Seq(RecordLine) : WriteNews(new)
  <2>1. [type |-> "RedeemVoucher", arg |-> amount] \in RecordLine
    BY DEF RecordLine
  <2> QED
    BY <1>5, <2>1, WrittenLine DEF Redeem
<1>6. CASE Promote
  <2>1. truth.rank + 1 \in 1 .. Ranks
    BY <1>1, <1>6, RecordAssumption DEF Promote
  <2>2. [type |-> "Promotion", arg |-> truth.rank + 1] \in RecordLine
    BY <2>1 DEF RecordLine
  <2> QED
    BY <1>6, <2>2, WrittenLine DEF Promote
<1>7. ASSUME NEW p \in Powers \cup {Missing}, Pledge(p)
      PROVE  \E new \in Seq(RecordLine) : WriteNews(new)
  <2>1. PICK type \in {"PowerplayLeave", "PowerplayJoin", "PowerplayDefect"} :
               WriteNews(<<News(type, p)>>)
    BY <1>7 DEF Pledge
  <2>2. [type |-> type, arg |-> p] \in RecordLine
    BY DEF RecordLine, PowerplayEvent
  <2> QED
    BY <2>1, <2>2, WrittenLine
<1>8. CASE WorkForPower
  <2>1. [type |-> "PowerplayMerits", arg |-> truth.pledge] \in RecordLine
    BY <1>1 DEF RecordLine, PowerplayEvent
  <2> QED
    BY <1>8, <2>1, WrittenLine DEF WorkForPower
<1> QED
  BY <1>2, <1>3, <1>4, <1>5, <1>6, <1>7, <1>8 DEF RecordNext

LEMMA InStepWritten ==
  ASSUME RecordTypeOK, InStep, NEW new \in Seq(RecordLine), WriteNews(new)
  PROVE  InStep'
<1>1. PICK w : w = waiting
  OBVIOUS
<1>2. w \in Seq(Nat) /\ waiting' \in Seq(Nat) /\ inOrder' = inOrder
  <2>1. 1 .. Len(lines) \subseteq Nat /\ 1 .. Len(lines') \subseteq Nat
    OBVIOUS
  <2>2. waiting \in Seq(1 .. Len(lines)) /\ waiting' \in Seq(1 .. Len(lines'))
    BY NewsWritten DEF RecordTypeOK
  <2> QED
    BY <1>1, <2>1, <2>2, SeqMonotonic DEF WriteNews
<1>3. /\ Len(waiting') = Len(w) + Len(new) /\ Len(new) \in Nat
      /\ Len(lines) \in Nat /\ Len(lines') \in Nat /\ Len(lines') = Len(lines) + Len(new)
      /\ \A n \in 1 .. Len(w) : waiting'[n] = w[n]
      /\ \A n \in 1 .. Len(new) : waiting'[Len(w) + n] = Len(lines) + n
  BY <1>1, NewsWritten
<1>4. Len(lines') >= Len(lines)
  BY <1>3
<1> QED
  BY <1>1, <1>2, <1>3, <1>4, InStepGrows

LEMMA InStepRepeated ==
  ASSUME RecordTypeOK, InStep, RereadAll
  PROVE  InStep'
<1>1. PICK w : w = waiting
  OBVIOUS
<1>2. w \in Seq(Nat) /\ waiting' \in Seq(Nat) /\ inOrder' = inOrder
  <2>1. 1 .. Len(lines) \subseteq Nat
    OBVIOUS
  <2>2. waiting \in Seq(1 .. Len(lines)) /\ waiting' \in Seq(1 .. Len(lines)) /\ inOrder' = inOrder
    BY Repeated DEF RecordTypeOK
  <2> QED
    BY <1>1, <2>1, <2>2, SeqMonotonic
<1>3. /\ Len(waiting') = Len(w) + Len(lines)
      /\ Len(lines) \in Nat /\ Len(lines') \in Nat /\ Len(lines') = 0 + Len(lines)
      /\ Len(lines') >= Len(lines) /\ 0 \in Nat
      /\ \A n \in 1 .. Len(w) : waiting'[n] = w[n]
      /\ \A n \in 1 .. Len(lines) : waiting'[Len(w) + n] = 0 + n
  BY <1>1, Repeated
<1> QED
  BY <1>1, <1>2, <1>3, InStepGrows

LEMMA InStepStep == RecordTypeOK /\ InStep /\ [RecordNext]_recordVars => InStep'
<1> SUFFICES ASSUME RecordTypeOK, InStep, [RecordNext]_recordVars PROVE InStep'
  OBVIOUS
<1>1. ASSUME NEW n \in DOMAIN waiting, HandleRecordLine(n) PROVE InStep'
  <2>1. TakeOut(n)
    BY <1>1 DEF HandleRecordLine
  <2> QED
    BY <2>1, InStepTaken
<1>2. CASE UNCHANGED recordVars
  BY <1>2 DEF InStep, recordVars, career
<1> QED
  BY <1>1, <1>2, RecordSteps, InStepWritten, InStepRepeated

LEMMA InStepInit == RecordInit => InStep
<1> SUFFICES ASSUME RecordInit PROVE InStep
  OBVIOUS
<1>1. lines \in Seq(RecordLine) /\ waiting = [n \in DOMAIN lines |-> n]
  BY RecordTypeInit DEF RecordInit, RecordTypeOK
<1>2. Len(waiting) = Len(lines) /\ \A n \in 1 .. Len(lines) : waiting[n] = n
  BY <1>1
<1> QED
  BY <1>1, <1>2 DEF InStep

\* The line handled last is a line of the journal; writing another one does not move it.
LEMMA ReachedTyped ==
  ASSUME RecordTypeOK PROVE Reached \in 0 .. Len(lines) /\ Len(lines) \in Nat
<1>1. lines \in Seq(RecordLine) /\ waiting \in Seq(1 .. Len(lines))
  BY DEF RecordTypeOK
<1>2. CASE Len(waiting) = 0
  BY <1>1, <1>2 DEF Reached
<1>3. CASE Len(waiting) # 0
  <2>1. waiting[1] \in 1 .. Len(lines)
    BY <1>1, <1>3
  <2> QED
    BY <1>1, <1>3, <2>1 DEF Reached
<1> QED
  BY <1>2, <1>3

LEMMA ReachedWritten ==
  ASSUME RecordTypeOK, NEW new \in Seq(RecordLine), WriteNews(new)
  PROVE  Reached' = Reached
<1>1. /\ Len(waiting') = Len(waiting) + Len(new) /\ Len(new) \in Nat /\ Len(waiting) \in Nat
      /\ Len(lines) \in Nat /\ Len(lines') = Len(lines) + Len(new)
      /\ \A n \in 1 .. Len(waiting) : waiting'[n] = waiting[n]
      /\ \A n \in 1 .. Len(new) : waiting'[Len(waiting) + n] = Len(lines) + n
  BY NewsWritten
<1>2. CASE Len(waiting) > 0
  BY <1>1, <1>2 DEF Reached
<1>3. CASE Len(waiting) = 0 /\ Len(new) = 0
  BY <1>1, <1>3 DEF Reached
<1>4. CASE Len(waiting) = 0 /\ Len(new) > 0
  <2>1. waiting'[0 + 1] = Len(lines) + 1
    BY <1>1, <1>4
  <2> QED
    BY <1>1, <1>4, <2>1 DEF Reached
<1> QED
  BY <1>1, <1>2, <1>3, <1>4

LEMMA ReachedRepeated ==
  ASSUME RecordTypeOK, RereadAll
  PROVE  Reached' = Reached \/ Reached' = 0
<1>1. /\ Len(waiting') = Len(waiting) + Len(lines) /\ Len(waiting) \in Nat
      /\ Len(lines) \in Nat /\ lines' = lines
      /\ \A n \in 1 .. Len(waiting) : waiting'[n] = waiting[n]
      /\ \A n \in 1 .. Len(lines) : waiting'[Len(waiting) + n] = n
  BY Repeated
<1>2. CASE Len(waiting) > 0
  BY <1>1, <1>2 DEF Reached
<1>3. CASE Len(waiting) = 0 /\ Len(lines) = 0
  BY <1>1, <1>3 DEF Reached
<1>4. CASE Len(waiting) = 0 /\ Len(lines) > 0
  <2>1. waiting'[0 + 1] = 1
    BY <1>1, <1>4
  <2> QED
    BY <1>1, <1>4, <2>1 DEF Reached
<1> QED
  BY <1>1, <1>2, <1>3, <1>4

-----------------------------------------------------------------------------
(* CommanderRecord: the pledge.                                            *)

LEMMA LineWritten ==
  ASSUME RecordTypeOK, NEW e \in RecordLine, WriteNews(<<e>>)
  PROVE  /\ lines' \in Seq(RecordLine) /\ Len(lines) \in Nat /\ Len(lines') = Len(lines) + 1
         /\ \A n \in 1 .. Len(lines) : lines'[n] = lines[n]
         /\ lines'[Len(lines) + 1] = e
         /\ waiting' \in Seq(1 .. Len(lines')) /\ Len(waiting) \in Nat
         /\ Len(waiting') = Len(waiting) + 1
         /\ \A n \in 1 .. Len(waiting) : waiting'[n] = waiting[n]
         /\ waiting'[Len(waiting) + 1] = Len(lines) + 1
         /\ UNCHANGED <<story, rec, inOrder, repeats>>
<1>1. PICK new : new = <<e>>
  OBVIOUS
<1>2. new \in Seq(RecordLine) /\ Len(new) = 1 /\ new[1] = e /\ WriteNews(new)
  BY <1>1
<1>3. /\ lines' \in Seq(RecordLine) /\ Len(lines) \in Nat
      /\ Len(lines') = Len(lines) + Len(new)
      /\ \A n \in 1 .. Len(lines) : lines'[n] = lines[n]
      /\ \A n \in 1 .. Len(new) : lines'[Len(lines) + n] = new[n]
      /\ waiting' \in Seq(1 .. Len(lines')) /\ Len(waiting) \in Nat
      /\ Len(waiting') = Len(waiting) + Len(new)
      /\ \A n \in 1 .. Len(waiting) : waiting'[n] = waiting[n]
      /\ \A n \in 1 .. Len(new) : waiting'[Len(waiting) + n] = Len(lines) + n
  BY <1>2, NewsWritten
<1>4. 1 \in 1 .. Len(new)
  BY <1>2
<1> QED
  BY <1>2, <1>3, <1>4 DEF WriteNews

\* In the story of the pledge, the lines written tell of it.
LEMMA PowerSteps ==
  ASSUME RecordTypeOK, story = "power", RecordNext
  PROVE  \/ \E e \in RecordLine :
              /\ WriteNews(<<e>>) /\ e.type \in PowerplayEvent /\ truth'.pledge = e.arg
              /\ e.type = "PowerplayMerits" => e.arg = truth.pledge /\ truth.pledge # Missing
         \/ RereadAll
         \/ \E n \in DOMAIN waiting : HandleRecordLine(n)
<1> DEFINE Told == \E e \in RecordLine :
              /\ WriteNews(<<e>>) /\ e.type \in PowerplayEvent /\ truth'.pledge = e.arg
              /\ e.type = "PowerplayMerits" => e.arg = truth.pledge /\ truth.pledge # Missing
<1>1. /\ truth \in [active : [Missions -> Destinations \cup {Missing}], redeemed : Nat,
                    rank : 1 .. Ranks, pledge : Powers \cup {Missing}]
      /\ truth.rank \in 1 .. Ranks /\ truth.pledge \in Powers \cup {Missing} /\ story \in Story
  BY DEF RecordTypeOK
<1>2. CASE Relog
  <2>1. PICK o : o = Opening
    OBVIOUS
  <2>2. o \in Seq(RecordLine) /\ o # <<>> /\ WriteNews(o) /\ truth' = truth
    BY <1>1, <1>2, <2>1, OpeningLines DEF Relog
  <2>3. Len(o) = 0 \/ (Len(o) = 1 /\ o[1].type = "Powerplay" /\ o[1].arg = truth.pledge)
    BY <1>1, <2>1, OpeningLines
  <2>4. Len(o) = 1 /\ o[1].type = "Powerplay" /\ o[1].arg = truth.pledge /\ o = <<o[1]>>
    BY <2>2, <2>3
  <2>5. o[1] \in RecordLine /\ WriteNews(<<o[1]>>)
    BY <2>2, <2>4
  <2> QED
    BY <2>2, <2>4, <2>5 DEF PowerplayEvent
<1>3. ASSUME NEW p \in Powers \cup {Missing}, Pledge(p) PROVE Told
  <2>1. PICK type \in {"PowerplayLeave", "PowerplayJoin", "PowerplayDefect"} :
               WriteNews(<<News(type, p)>>)
    BY <1>3 DEF Pledge
  <2>2. News(type, p) \in RecordLine /\ News(type, p).type = type /\ News(type, p).arg = p
    BY DEF RecordLine, PowerplayEvent, News
  <2>3. truth'.pledge = p
    BY <1>1, <1>3 DEF Pledge
  <2> QED
    BY <2>1, <2>2, <2>3 DEF PowerplayEvent
<1>4. CASE WorkForPower
  <2>1. /\ WriteNews(<<News("PowerplayMerits", truth.pledge)>>)
        /\ truth' = truth /\ truth.pledge # Missing
    BY <1>4 DEF WorkForPower
  <2>2. /\ News("PowerplayMerits", truth.pledge) \in RecordLine
        /\ News("PowerplayMerits", truth.pledge).type = "PowerplayMerits"
        /\ News("PowerplayMerits", truth.pledge).arg = truth.pledge
    BY <1>1 DEF RecordLine, PowerplayEvent, News
  <2> QED
    BY <2>1, <2>2 DEF PowerplayEvent
<1> QED
  BY <1>2, <1>3, <1>4 DEF RecordNext, Accept, Redirect, EndMission, Redeem, Promote

LEMMA PledgeStep ==
  ASSUME RecordTypeOK, InStep, PledgeInv, [RecordNext]_recordVars
  PROVE  PledgeInv'
<1> SUFFICES ASSUME story' = "power" PROVE PledgeInv'
  BY DEF PledgeInv
<1>1. story = "power"
  BY DEF RecordNext, Relog, Accept, Redirect, EndMission, Redeem, Promote, Pledge, WorkForPower,
         RereadAll, HandleRecordLine, WriteNews, recordVars, career
<1>2. Reached \in 0 .. Len(lines) /\ Len(lines) \in Nat
  BY ReachedTyped
<1>3. /\ Len(lines) = 0 => truth.pledge = Missing /\ rec.pledge = Missing
      /\ Len(lines) > 0 => truth.pledge = lines[Len(lines)].arg
      /\ \A n \in 1 .. Len(lines) :
           /\ lines[n].type \in PowerplayEvent
           /\ lines[n].type = "PowerplayMerits" => n > 1 /\ lines[n].arg = lines[n - 1].arg
      /\ inOrder = TRUE /\ Reached > 0 => rec.pledge = lines[Reached].arg
  BY <1>1 DEF PledgeInv
<1>4. ASSUME NEW e \in RecordLine, WriteNews(<<e>>), e.type \in PowerplayEvent,
             truth'.pledge = e.arg,
             e.type = "PowerplayMerits" => e.arg = truth.pledge /\ truth.pledge # Missing
      PROVE  PledgeInv'
  <2>1. /\ Len(lines') = Len(lines) + 1 /\ lines'[Len(lines) + 1] = e
        /\ \A n \in 1 .. Len(lines) : lines'[n] = lines[n]
        /\ UNCHANGED <<rec, inOrder>>
    BY <1>4, LineWritten
  <2>2. Reached' = Reached
    <3>1. <<e>> \in Seq(RecordLine)
      OBVIOUS
    <3> QED
      BY <1>4, <3>1, ReachedWritten
  <2>3. ASSUME NEW n \in 1 .. Len(lines')
        PROVE  /\ lines'[n].type \in PowerplayEvent
               /\ lines'[n].type = "PowerplayMerits" => n > 1 /\ lines'[n].arg = lines'[n - 1].arg
    <3>1. CASE n \in 1 .. Len(lines)
      <4>1. lines[n].type = "PowerplayMerits" => n - 1 \in 1 .. Len(lines)
        BY <1>2, <1>3, <3>1
      <4> QED
        BY <1>3, <2>1, <3>1, <4>1
    <3>2. CASE n = Len(lines) + 1
      <4>1. e.type = "PowerplayMerits" => Len(lines) \in 1 .. Len(lines)
        BY <1>2, <1>3, <1>4
      <4> QED
        BY <1>2, <1>3, <1>4, <2>1, <3>2, <4>1
    <3> QED
      BY <1>2, <2>1, <3>1, <3>2
  <2>4. ASSUME inOrder' = TRUE, Reached' > 0 PROVE rec'.pledge = lines'[Reached'].arg
    BY <1>2, <1>3, <2>1, <2>2, <2>4
  <2>5. ~(Len(lines') = 0) /\ truth'.pledge = lines'[Len(lines')].arg
    BY <1>2, <1>4, <2>1
  <2> QED
    BY <2>3, <2>4, <2>5, Zenon DEF PledgeInv
<1>5. CASE RereadAll
  <2>1. UNCHANGED <<truth, lines, rec, inOrder>> /\ (Reached' = Reached \/ Reached' = 0)
    BY <1>5, Repeated, ReachedRepeated
  <2> QED
    BY <1>2, <1>3, <2>1 DEF PledgeInv
<1>6. ASSUME NEW n \in DOMAIN waiting, HandleRecordLine(n) PROVE PledgeInv'
  <2>1. TakeOut(n) /\ UNCHANGED <<story, truth, repeats>>
    BY <1>6 DEF HandleRecordLine
  <2>2. PICK k : k = waiting[n]
    OBVIOUS
  <2>3. /\ k \in 1 .. Len(lines) /\ lines[k] \in RecordLine /\ lines' = lines
        /\ inOrder' = TRUE => inOrder = TRUE /\ Reached = k - 1 /\ (Reached' = k \/ Reached' = 0)
    BY <2>1, <2>2, InStepTaken
  <2>4. rec' = Recorded(rec, lines[k])
    BY <1>6, <2>2 DEF HandleRecordLine
  <2>5. /\ lines[k].type # "PowerplayMerits" => rec'.pledge = lines[k].arg
        /\ lines[k].type = "PowerplayMerits" => rec'.pledge = rec.pledge
    <3>1. lines[k].type \in PowerplayEvent /\ rec \in RecordState /\ Len(rec.history) <= HistoryLimit
      BY <1>3, <2>3 DEF RecordTypeOK
    <3> QED
      BY <2>3, <2>4, <3>1, OthersRecorded
  <2>6. ASSUME inOrder' = TRUE, Reached' > 0 PROVE rec'.pledge = lines'[Reached'].arg
    <3>1. inOrder = TRUE /\ Reached = k - 1 /\ Reached' = k
      BY <2>3, <2>6
    <3>2. CASE lines[k].type = "PowerplayMerits"
      <4>1. k > 1 /\ lines[k].arg = lines[k - 1].arg
        BY <1>3, <2>3, <3>2
      <4> QED
        BY <1>3, <2>3, <2>5, <3>1, <3>2, <4>1
    <3> QED
      BY <2>3, <2>5, <3>1, <3>2
  <2>7. Len(lines) > 0
    BY <2>3
  <2>8. /\ ~(Len(lines') = 0) /\ truth'.pledge = lines'[Len(lines')].arg
        /\ \A j \in 1 .. Len(lines') :
             /\ lines'[j].type \in PowerplayEvent
             /\ lines'[j].type = "PowerplayMerits" => j > 1 /\ lines'[j].arg = lines'[j - 1].arg
    BY <1>2, <1>3, <2>1, <2>3, <2>7
  <2> QED
    BY <2>6, <2>8, Zenon DEF PledgeInv
<1>7. CASE UNCHANGED recordVars
  BY <1>7 DEF PledgeInv, Reached, recordVars, career
<1> QED
  BY <1>1, <1>4, <1>5, <1>6, <1>7, PowerSteps

LEMMA PledgeInit == RecordInit => PledgeInv
<1> SUFFICES ASSUME RecordInit, story = "power" PROVE PledgeInv
  BY DEF PledgeInv
<1>1. PICK o : o = Opening
  OBVIOUS
<1>2. lines = o /\ waiting = [n \in DOMAIN o |-> n] /\ rec.pledge = Missing
  BY <1>1 DEF RecordInit
<1>3. o \in Seq(RecordLine)
  BY <1>2, RecordTypeInit DEF RecordTypeOK
<1>4. \/ Len(o) = 0 /\ truth.pledge = Missing
      \/ Len(o) = 1 /\ o[1].type = "Powerplay" /\ o[1].arg = truth.pledge
  BY <1>1, RecordTypeInit, OpeningLines DEF RecordTypeOK
<1>5. Reached = 0
  <2>1. Len(waiting) = Len(o) /\ (Len(o) > 0 => waiting[1] = 1)
    BY <1>2, <1>3, <1>4
  <2> QED
    BY <1>2, <1>3, <1>4, <2>1 DEF Reached
<1> QED
  BY <1>2, <1>3, <1>4, <1>5 DEF PledgeInv, PowerplayEvent

LEMMA PledgeKept == RecordTypeOK /\ InStep /\ PledgeInv => PledgeSettles
<1> SUFFICES ASSUME RecordTypeOK, PledgeInv, story = "power", Settled
             PROVE  rec.pledge = truth.pledge
  BY DEF PledgeSettles
<1>1. Len(waiting) = 0 /\ inOrder = TRUE
  BY DEF Settled, RecordTypeOK
<1>2. Reached = Len(lines) /\ Len(lines) \in Nat
  BY <1>1 DEF Reached, RecordTypeOK
<1> QED
  BY <1>1, <1>2 DEF PledgeInv

-----------------------------------------------------------------------------
(* CommanderRecord: the rank.                                              *)

RankLine == {"Rank", "Progress", "Promotion"}

\* In the story of the rank, the lines written tell of it.
LEMMA RankSteps ==
  ASSUME RecordTypeOK, story = "rank", RecordNext
  PROVE  \/ \E new \in Seq(RecordLine) :
              /\ WriteNews(new) /\ Len(new) > 0
              /\ \A k \in 1 .. Len(new) :
                   /\ new[k].type \in RankLine /\ new[k].arg = truth'.rank
                   /\ new[k].type # "Promotion" => truth'.rank = truth.rank
         \/ RereadAll
         \/ \E n \in DOMAIN waiting : HandleRecordLine(n)
<1> DEFINE Told == \E new \in Seq(RecordLine) :
              /\ WriteNews(new) /\ Len(new) > 0
              /\ \A k \in 1 .. Len(new) :
                   /\ new[k].type \in RankLine /\ new[k].arg = truth'.rank
                   /\ new[k].type # "Promotion" => truth'.rank = truth.rank
<1>1. /\ truth \in [active : [Missions -> Destinations \cup {Missing}], redeemed : Nat,
                    rank : 1 .. Ranks, pledge : Powers \cup {Missing}]
      /\ truth.rank \in 1 .. Ranks /\ truth.pledge \in Powers \cup {Missing} /\ story \in Story
  BY DEF RecordTypeOK
<1>2. CASE Relog
  <2>1. PICK o : o = Opening
    OBVIOUS
  <2>2. o \in Seq(RecordLine) /\ WriteNews(o) /\ truth' = truth
    BY <1>1, <1>2, <2>1, OpeningLines DEF Relog
  <2>3. /\ Len(o) = 2 /\ o[1].type = "Rank" /\ o[2].type = "Progress"
        /\ o[1].arg = truth.rank /\ o[2].arg = truth.rank
    BY <1>1, <2>1, OpeningLines
  <2>4. \A k \in 1 .. Len(o) : o[k].type \in RankLine /\ o[k].arg = truth'.rank
    BY <2>2, <2>3 DEF RankLine
  <2> QED
    BY <2>2, <2>3, <2>4
<1>3. CASE Promote
  <2>1. truth.rank + 1 \in 1 .. Ranks /\ truth'.rank = truth.rank + 1
    BY <1>1, <1>3, RecordAssumption DEF Promote
  <2>2. PICK e : e = News("Promotion", truth.rank + 1)
    OBVIOUS
  <2>3. e \in RecordLine /\ e.type = "Promotion" /\ e.arg = truth.rank + 1
    BY <2>1, <2>2 DEF RecordLine, News
  <2>4. PICK new : new = <<e>>
    OBVIOUS
  <2>5. new \in Seq(RecordLine) /\ Len(new) = 1 /\ new[1] = e /\ WriteNews(new)
    BY <1>3, <2>2, <2>3, <2>4 DEF Promote
  <2>6. \A k \in 1 .. Len(new) :
          /\ new[k].type \in RankLine /\ new[k].arg = truth'.rank
          /\ new[k].type # "Promotion" => truth'.rank = truth.rank
    <3>1. \A k \in 1 .. Len(new) : new[k] = e
      BY <2>5
    <3> QED
      BY <2>1, <2>3, <3>1 DEF RankLine
  <2>7. Len(new) > 0
    BY <2>5
  <2> QED
    BY <2>5, <2>6, <2>7
<1> QED
  BY <1>2, <1>3 DEF RecordNext, Accept, Redirect, EndMission, Redeem, Pledge, WorkForPower

\* Lines that are written wait behind those that wait already.
LEMMA QueuedWritten ==
  ASSUME RecordTypeOK, Queued, NEW new \in Seq(RecordLine), WriteNews(new)
  PROVE  Queued' /\ Handled' = Handled
<1>1. /\ Len(waiting') = Len(waiting) + Len(new) /\ Len(new) \in Nat /\ Len(waiting) \in Nat
      /\ Len(lines) \in Nat /\ Len(lines') = Len(lines) + Len(new)
      /\ \A n \in 1 .. Len(waiting) : waiting'[n] = waiting[n]
      /\ \A n \in 1 .. Len(new) : waiting'[Len(waiting) + n] = Len(lines) + n
  BY NewsWritten
<1>2. Handled' = Handled
  BY <1>1 DEF Handled
<1>3. inOrder' = inOrder
  BY DEF WriteNews
<1>4. ASSUME inOrder' = TRUE
      PROVE  Handled' \in Nat /\ \A n \in 1 .. Len(waiting') : waiting'[n] = Handled' + n
  <2>1. Handled \in Nat /\ \A n \in 1 .. Len(waiting) : waiting[n] = Handled + n
    BY <1>3, <1>4 DEF Queued
  <2>2. ASSUME NEW n \in 1 .. Len(waiting') PROVE waiting'[n] = Handled + n
    <3>1. CASE n \in 1 .. Len(waiting)
      BY <1>1, <2>1, <3>1
    <3>2. CASE n \notin 1 .. Len(waiting)
      <4>1. PICK k \in 1 .. Len(new) : n = Len(waiting) + k
        <5>1. n - Len(waiting) \in 1 .. Len(new) /\ n = Len(waiting) + (n - Len(waiting))
          BY <1>1, <3>2
        <5> QED
          BY <5>1
      <4> QED
        BY <1>1, <4>1 DEF Handled
    <3> QED
      BY <3>1, <3>2
  <2> QED
    BY <1>2, <2>1, <2>2
<1> QED
  BY <1>2, <1>4 DEF Queued

LEMMA RankStep ==
  ASSUME RecordTypeOK, RankInv, [RecordNext]_recordVars
  PROVE  RankInv'
<1> SUFFICES ASSUME story' = "rank" PROVE RankInv'
  BY DEF RankInv
<1>1. story = "rank"
  BY DEF RecordNext, Relog, Accept, Redirect, EndMission, Redeem, Promote, Pledge, WorkForPower,
         RereadAll, HandleRecordLine, WriteNews, recordVars, career
<1>2. /\ Len(lines) \in Nat /\ Len(lines) > 0 /\ lines[1].type = "Rank"
      /\ truth.rank = lines[Len(lines)].arg
      /\ \A n \in 1 .. Len(lines) :
           /\ lines[n].type \in RankLine
           /\ n > 1 /\ lines[n].type # "Promotion" => lines[n].arg = lines[n - 1].arg
  <2>1. /\ Len(lines) > 0 /\ lines[1].type = "Rank" /\ truth.rank = lines[Len(lines)].arg
        /\ \A n \in 1 .. Len(lines) :
             /\ lines[n].type \in {"Rank", "Progress", "Promotion"}
             /\ n > 1 /\ lines[n].type # "Promotion" => lines[n].arg = lines[n - 1].arg
    BY <1>1, Zenon DEF RankInv
  <2>2. Len(lines) \in Nat
    BY DEF RecordTypeOK
  <2> QED
    BY <2>1, <2>2, Zenon DEF RankLine
<1>3. ASSUME repeats = 0 PROVE Queued
  BY <1>1, <1>3 DEF RankInv
<1>4. ASSUME repeats = 0, inOrder = TRUE
      PROVE  /\ Handled \in Nat
             /\ Handled = 0 => rec.progress = Missing
             /\ Handled > 0 =>
                  /\ rec.rank = lines[Handled].arg
                  /\ rec.progress \in {Missing, lines[Handled].arg}
  <2>1. Queued
    BY <1>3, <1>4
  <2>2. Handled \in Nat
    BY <1>4, <2>1 DEF Queued
  <2> QED
    BY <1>1, <1>4, <2>2 DEF RankInv
<1>5. ASSUME NEW new \in Seq(RecordLine), WriteNews(new), Len(new) > 0,
             \A k \in 1 .. Len(new) :
               /\ new[k].type \in RankLine /\ new[k].arg = truth'.rank
               /\ new[k].type # "Promotion" => truth'.rank = truth.rank
      PROVE  RankInv'
  <2>1. /\ Len(lines') = Len(lines) + Len(new) /\ Len(new) \in Nat
        /\ \A n \in 1 .. Len(lines) : lines'[n] = lines[n]
        /\ \A n \in 1 .. Len(new) : lines'[Len(lines) + n] = new[n]
    BY <1>5, NewsWritten
  <2>2. UNCHANGED <<rec, inOrder, repeats>>
    BY <1>5 DEF WriteNews
  <2>3. repeats' = 0 => Queued' /\ Handled' = Handled
    BY <1>3, <1>5, <2>2, QueuedWritten
  <2>4. lines'[Len(lines) + Len(new)] = new[Len(new)] /\ lines'[1] = lines[1]
    BY <1>2, <1>5, <2>1
  <2>5. Len(lines') > 0 /\ lines'[1].type = "Rank" /\ truth'.rank = lines'[Len(lines')].arg
    BY <1>2, <1>5, <2>1, <2>4
  <2>6. ASSUME NEW n \in 1 .. Len(lines')
        PROVE  /\ lines'[n].type \in RankLine
               /\ n > 1 /\ lines'[n].type # "Promotion" => lines'[n].arg = lines'[n - 1].arg
    <3>1. CASE n \in 1 .. Len(lines)
      <4>1. n > 1 => n - 1 \in 1 .. Len(lines)
        BY <1>2, <3>1
      <4> QED
        BY <1>2, <2>1, <3>1, <4>1
    <3>2. CASE n \notin 1 .. Len(lines)
      <4>1. PICK k \in 1 .. Len(new) : n = Len(lines) + k
        <5>1. n - Len(lines) \in 1 .. Len(new) /\ n = Len(lines) + (n - Len(lines))
          BY <1>2, <2>1, <3>2
        <5> QED
          BY <5>1
      <4>2. lines'[n] = new[k]
        BY <2>1, <4>1
      <4>3. CASE k = 1
        <5>1. n - 1 = Len(lines) /\ lines'[Len(lines)] = lines[Len(lines)]
          BY <1>2, <2>1, <4>1, <4>3
        <5> QED
          BY <1>2, <1>5, <4>2, <5>1
      <4>4. CASE k # 1
        <5>1. k - 1 \in 1 .. Len(new) /\ n - 1 = Len(lines) + (k - 1)
          BY <1>2, <2>1, <4>1, <4>4
        <5>2. lines'[n - 1] = new[k - 1]
          BY <2>1, <5>1
        <5> QED
          BY <1>5, <4>2, <5>1, <5>2
      <4> QED
        BY <4>3, <4>4
    <3> QED
      BY <3>1, <3>2
  <2>7. ASSUME repeats' = 0, inOrder' = TRUE
        PROVE  /\ Handled' = 0 => rec'.progress = Missing
               /\ Handled' > 0 =>
                    /\ rec'.rank = lines'[Handled'].arg
                    /\ rec'.progress \in {Missing, lines'[Handled'].arg}
    <3>1. repeats = 0 /\ inOrder = TRUE /\ Handled' = Handled
      BY <2>2, <2>3, <2>7
    <3>2. Handled > 0 => lines'[Handled] = lines[Handled]
      <4>1. Handled <= Len(lines)
        BY <1>2 DEF Handled, RecordTypeOK
      <4> QED
        BY <1>2, <1>4, <2>1, <3>1, <4>1
    <3> QED
      BY <1>4, <2>2, <3>1, <3>2
  <2> QED
    BY <2>3, <2>5, <2>6, <2>7, Zenon DEF RankInv, RankLine
<1>6. CASE RereadAll
  <2>1. UNCHANGED <<truth, lines>> /\ repeats' # 0
    BY <1>6, Repeated
  <2> QED
    BY <1>2, <2>1 DEF RankInv, RankLine
<1>7. ASSUME NEW n \in DOMAIN waiting, HandleRecordLine(n) PROVE RankInv'
  <2>1. TakeOut(n) /\ UNCHANGED <<story, truth, repeats>>
    BY <1>7 DEF HandleRecordLine
  <2>2. PICK k : k = waiting[n]
    OBVIOUS
  <2>3. lines \in Seq(RecordLine) /\ waiting \in Seq(1 .. Len(lines)) /\ inOrder \in BOOLEAN
    BY DEF RecordTypeOK
  <2>4. /\ k \in 1 .. Len(lines) /\ lines[k] \in RecordLine /\ lines' = lines
        /\ inOrder' = TRUE => inOrder = TRUE
        /\ Queued => Queued'
        /\ (Queued /\ inOrder' = TRUE) => k = Handled + 1 /\ Handled' = Handled + 1
    BY <2>1, <2>2, <2>3, TakenOut
  <2>5. rec' = Recorded(rec, lines[k])
    BY <1>7, <2>2 DEF HandleRecordLine
  <2>6. ASSUME repeats' = 0, inOrder' = TRUE
        PROVE  /\ ~(Handled' = 0)
               /\ rec'.rank = lines'[Handled'].arg
               /\ rec'.progress \in {Missing, lines'[Handled'].arg}
    <3>1. repeats = 0 /\ inOrder = TRUE
      BY <2>1, <2>4, <2>6
    <3>2. k = Handled + 1 /\ Handled' = k
      BY <1>3, <2>4, <2>6, <3>1
    <3>3. /\ Handled \in Nat
          /\ Handled = 0 => rec.progress = Missing
          /\ Handled > 0 =>
               /\ rec.rank = lines[Handled].arg
               /\ rec.progress \in {Missing, lines[Handled].arg}
      BY <1>4, <3>1
    <3>4. /\ lines[k].type = "Rank" => rec'.rank = lines[k].arg /\ rec'.progress = rec.progress
          /\ lines[k].type = "Progress" => rec'.rank = rec.rank /\ rec'.progress = lines[k].arg
          /\ lines[k].type = "Promotion" => rec'.rank = lines[k].arg /\ rec'.progress = Missing
      <4>1. rec \in RecordState /\ Len(rec.history) <= HistoryLimit
        BY DEF RecordTypeOK
      <4> QED
        BY <2>4, <2>5, <4>1, OthersRecorded
    <3>5. lines[k].type # "Promotion" /\ k > 1 => k - 1 = Handled /\ lines[k].arg = lines[Handled].arg
      BY <1>2, <2>4, <3>2, <3>3
    <3>6. CASE lines[k].type = "Rank"
      <4>1. rec'.progress \in {Missing, lines[k].arg}
        <5>1. CASE k = 1
          BY <3>2, <3>3, <3>4, <3>6, <5>1
        <5>2. CASE k > 1
          BY <3>2, <3>3, <3>4, <3>5, <3>6, <5>2
        <5> QED
          BY <2>4, <5>1, <5>2
      <4> QED
        BY <2>4, <3>2, <3>3, <3>4, <3>6, <4>1
    <3>7. CASE lines[k].type = "Progress"
      <4>1. k > 1
        BY <1>2, <2>4, <3>7
      <4> QED
        BY <2>4, <3>2, <3>3, <3>4, <3>5, <3>7, <4>1
    <3>8. CASE lines[k].type = "Promotion"
      BY <2>4, <3>2, <3>3, <3>4, <3>8
    <3>9. lines[k].type \in RankLine
      BY <1>2, <2>4
    <3> QED
      BY <3>6, <3>7, <3>8, <3>9 DEF RankLine
  <2>7. repeats' = 0 => Queued'
    BY <1>3, <2>1, <2>4
  <2>8. /\ Len(lines') > 0 /\ lines'[1].type = "Rank" /\ truth'.rank = lines'[Len(lines')].arg
        /\ \A j \in 1 .. Len(lines') :
             /\ lines'[j].type \in RankLine
             /\ j > 1 /\ lines'[j].type # "Promotion" => lines'[j].arg = lines'[j - 1].arg
    BY <1>2, <2>1, <2>4
  <2> QED
    BY <2>6, <2>7, <2>8, Zenon DEF RankInv, RankLine
<1>8. CASE UNCHANGED recordVars
  BY <1>8 DEF RankInv, Handled, Queued, recordVars, career
<1> QED
  BY <1>1, <1>5, <1>6, <1>7, <1>8, RankSteps

LEMMA RankInit == RecordInit => RankInv
<1> SUFFICES ASSUME RecordInit, story = "rank" PROVE RankInv
  BY DEF RankInv
<1>1. PICK o : o = Opening
  OBVIOUS
<1>2. /\ lines = o /\ waiting = [n \in DOMAIN o |-> n] /\ rec.progress = Missing
  BY <1>1 DEF RecordInit
<1>3. o \in Seq(RecordLine)
  BY <1>2, RecordTypeInit DEF RecordTypeOK
<1>4. /\ Len(o) = 2 /\ o[1].type = "Rank" /\ o[2].type = "Progress"
      /\ o[1].arg = truth.rank /\ o[2].arg = truth.rank
  BY <1>1, RecordTypeInit, OpeningLines DEF RecordTypeOK
<1>5. Len(waiting) = 2 /\ \A n \in 1 .. 2 : waiting[n] = n
  BY <1>2, <1>3, <1>4
<1>6. Handled = 0 /\ Queued
  BY <1>2, <1>4, <1>5 DEF Handled, Queued
<1> QED
  BY <1>2, <1>4, <1>6 DEF RankInv

LEMMA RankKept == RecordTypeOK /\ RankInv => ProgressOfRank
<1> SUFFICES ASSUME RecordTypeOK, RankInv, story = "rank", inOrder = TRUE, repeats = 0
             PROVE  rec.progress \in {Missing, rec.rank}
  BY DEF ProgressOfRank
<1>1. Queued
  BY DEF RankInv
<1>2. Handled \in Nat
  BY <1>1 DEF Queued
<1> QED
  BY <1>2 DEF RankInv

-----------------------------------------------------------------------------
(* CommanderRecord: the vouchers.                                          *)

Voucher(k, amount) == {k} \X (1 .. amount)

LEMMA VoucherCounted ==
  ASSUME NEW U, IsFiniteSet(U), NEW k, NEW amount \in 1 .. 2, \A c : <<k, c>> \notin U
  PROVE  /\ IsFiniteSet(U \cup Voucher(k, amount))
         /\ Cardinality(U \cup Voucher(k, amount)) = Cardinality(U) + amount
<1> DEFINE one == U \cup {<<k, 1>>}
<1>1. IsFiniteSet(one) /\ Cardinality(one) = Cardinality(U) + 1
  BY FS_AddElement
<1>2. CASE amount = 1
  <2>1. U \cup Voucher(k, amount) = one
    BY <1>2 DEF Voucher
  <2> QED
    BY <1>1, <1>2, <2>1
<1>3. CASE amount = 2
  <2>1. U \cup Voucher(k, amount) = one \cup {<<k, 2>>}
    BY <1>3 DEF Voucher
  <2>2. <<k, 2>> \notin one
    OBVIOUS
  <2>3. /\ IsFiniteSet(one \cup {<<k, 2>>})
        /\ Cardinality(one \cup {<<k, 2>>}) = Cardinality(one) + 1
    BY <1>1, <2>2, FS_AddElement
  <2>4. Cardinality(U) \in Nat
    BY FS_CardinalityType
  <2> HIDE DEF one
  <2>5. Cardinality(one \cup {<<k, 2>>}) = Cardinality(U) + 2
    BY <1>1, <2>3, <2>4
  <2> QED
    BY <1>3, <2>1, <2>3, <2>5
<1> QED
  BY <1>2, <1>3

\* What is under way, credit by credit.
LEMMA UnderwayIs ==
  ASSUME NEW x
  PROVE  x \in Underway <=>
           \E k \in DOMAIN waiting : x \in Voucher(waiting[k], lines[waiting[k]].arg)
  BY DEF Underway, Voucher

LEMMA UnderwayFinite ==
  ASSUME RecordTypeOK, VoucherInv, story = "rewards"
  PROVE  /\ IsFiniteSet(Underway) /\ Cardinality(Underway) \in Nat
         /\ \A n \in 1 .. Len(lines) : lines[n].arg \in 1 .. 2
<1>1. /\ lines \in Seq(RecordLine) /\ waiting \in Seq(1 .. Len(lines)) /\ Len(lines) \in Nat
      /\ DOMAIN waiting = 1 .. Len(waiting)
  BY DEF RecordTypeOK
<1>2. ASSUME NEW n \in 1 .. Len(lines) PROVE lines[n].arg \in 1 .. 2
  BY <1>1, LineArgument DEF VoucherInv
<1>3. Underway \subseteq (1 .. Len(lines)) \X (1 .. 2)
  <2> SUFFICES ASSUME NEW x \in Underway PROVE x \in (1 .. Len(lines)) \X (1 .. 2)
    OBVIOUS
  <2>1. PICK k \in 1 .. Len(waiting) : x \in Voucher(waiting[k], lines[waiting[k]].arg)
    BY <1>1, UnderwayIs
  <2>2. waiting[k] \in 1 .. Len(lines) /\ lines[waiting[k]].arg \in 1 .. 2
    BY <1>1, <1>2
  <2>3. 1 .. lines[waiting[k]].arg \subseteq 1 .. 2
    BY <2>2
  <2> QED
    BY <2>1, <2>2, <2>3 DEF Voucher
<1>4. IsFiniteSet((1 .. Len(lines)) \X (1 .. 2))
  <2>1. IsFiniteSet(1 .. Len(lines))
    <3>1. 1 \in Int /\ Len(lines) \in Int
      BY <1>1
    <3> QED
      BY <3>1, FS_Interval
  <2>2. IsFiniteSet(1 .. 2)
    <3>1. 1 \in Int /\ 2 \in Int
      OBVIOUS
    <3> QED
      BY <3>1, FS_Interval
  <2> QED
    BY <2>1, <2>2, FS_Product
<1>5. IsFiniteSet(Underway)
  BY <1>3, <1>4, FS_Subset
<1> QED
  BY <1>2, <1>5, FS_CardinalityType

\* In the story of the vouchers, the lines written tell of them.
LEMMA VoucherSteps ==
  ASSUME RecordTypeOK, story = "rewards", RecordNext
  PROVE  \/ \E e \in RecordLine :
              /\ WriteNews(<<e>>) /\ e.type = "RedeemVoucher" /\ e.arg \in 1 .. 2
              /\ truth'.redeemed = truth.redeemed + e.arg
         \/ RereadAll
         \/ \E n \in DOMAIN waiting : HandleRecordLine(n)
<1>1. /\ truth \in [active : [Missions -> Destinations \cup {Missing}], redeemed : Nat,
                    rank : 1 .. Ranks, pledge : Powers \cup {Missing}]
      /\ truth.rank \in 1 .. Ranks /\ truth.pledge \in Powers \cup {Missing} /\ story \in Story
  BY DEF RecordTypeOK
<1>2. ~Relog
  <2>1. Opening \in Seq(RecordLine) /\ Len(Opening) = 0
    BY <1>1, OpeningLines
  <2>2. Opening = <<>>
    BY <2>1
  <2> QED
    BY <2>2 DEF Relog
<1>3. ASSUME NEW amount \in 1 .. 2, Redeem(amount)
      PROVE  \E e \in RecordLine :
               /\ WriteNews(<<e>>) /\ e.type = "RedeemVoucher" /\ e.arg \in 1 .. 2
               /\ truth'.redeemed = truth.redeemed + e.arg
  <2>1. PICK e : e = News("RedeemVoucher", amount)
    OBVIOUS
  <2>2. e \in RecordLine /\ e.type = "RedeemVoucher" /\ e.arg = amount
    BY <2>1 DEF RecordLine, News
  <2>3. truth'.redeemed = truth.redeemed + amount
    BY <1>1, <1>3 DEF Redeem
  <2>4. WriteNews(<<e>>)
    BY <1>3, <2>1 DEF Redeem
  <2> QED
    BY <2>2, <2>3, <2>4
<1> QED
  BY <1>2, <1>3 DEF RecordNext, Accept, Redirect, EndMission, Promote, Pledge, WorkForPower

Total(bounty) == IF bounty = Missing THEN 0 ELSE bounty

LEMMA VoucherStep ==
  ASSUME RecordTypeOK, VoucherInv, VouchersConserved, [RecordNext]_recordVars
  PROVE  VoucherInv' /\ VouchersConserved'
<1> SUFFICES ASSUME story' = "rewards" PROVE VoucherInv' /\ VouchersConserved'
  BY DEF VoucherInv, VouchersConserved
<1>1. story = "rewards"
  BY DEF RecordNext, Relog, Accept, Redirect, EndMission, Redeem, Promote, Pledge, WorkForPower,
         RereadAll, HandleRecordLine, WriteNews, recordVars, career
<1>2. /\ lines \in Seq(RecordLine) /\ waiting \in Seq(1 .. Len(lines)) /\ Len(lines) \in Nat
      /\ Len(waiting) \in Nat /\ inOrder \in BOOLEAN /\ rec \in RecordState
      /\ truth.redeemed \in Nat /\ Len(rec.history) <= HistoryLimit
      /\ DOMAIN waiting = 1 .. Len(waiting)
      /\ \A k \in 1 .. Len(waiting) : waiting[k] \in 1 .. Len(lines)
  BY DEF RecordTypeOK
<1>3. /\ IsFiniteSet(Underway) /\ Cardinality(Underway) \in Nat
      /\ \A n \in 1 .. Len(lines) : lines[n].arg \in 1 .. 2
  BY <1>1, UnderwayFinite
<1>4. \A n \in 1 .. Len(lines) : lines[n].type = "RedeemVoucher"
  BY <1>1 DEF VoucherInv
<1>5. ASSUME repeats = 0
      PROVE  /\ \A j, k \in 1 .. Len(waiting) : waiting[j] = waiting[k] => j = k
             /\ Total(rec.bounty) + Cardinality(Underway) = truth.redeemed
  BY <1>1, <1>5 DEF VoucherInv, VouchersConserved, Total
<1>6. Total(rec.bounty) \in Nat
  BY <1>2 DEF Total, RecordState
<1>7. ASSUME NEW e \in RecordLine, WriteNews(<<e>>), e.type = "RedeemVoucher", e.arg \in 1 .. 2,
             truth'.redeemed = truth.redeemed + e.arg
      PROVE  VoucherInv' /\ VouchersConserved'
  <2>1. /\ lines' \in Seq(RecordLine) /\ Len(lines') = Len(lines) + 1
        /\ \A n \in 1 .. Len(lines) : lines'[n] = lines[n]
        /\ lines'[Len(lines) + 1] = e
        /\ waiting' \in Seq(1 .. Len(lines')) /\ Len(waiting') = Len(waiting) + 1
        /\ \A n \in 1 .. Len(waiting) : waiting'[n] = waiting[n]
        /\ waiting'[Len(waiting) + 1] = Len(lines) + 1
        /\ UNCHANGED <<story, rec, inOrder, repeats>>
    BY <1>7, LineWritten
  <2>2. \A n \in 1 .. Len(lines') : lines'[n].type = "RedeemVoucher"
    <3>1. ASSUME NEW n \in 1 .. Len(lines') PROVE lines'[n].type = "RedeemVoucher"
      <4>1. CASE n \in 1 .. Len(lines)
        BY <1>4, <2>1, <4>1
      <4>2. CASE n = Len(lines) + 1
        BY <1>7, <2>1, <4>2
      <4> QED
        BY <1>2, <2>1, <4>1, <4>2
    <3> QED
      BY <3>1
  <2>3. ASSUME repeats' = 0, NEW j \in 1 .. Len(waiting'), NEW k \in 1 .. Len(waiting'),
               waiting'[j] = waiting'[k]
        PROVE  j = k
    <3>1. \A i \in 1 .. Len(waiting) : waiting'[i] = waiting[i] /\ waiting'[i] < Len(lines) + 1
      BY <1>2, <2>1
    <3>2. repeats = 0
      BY <2>1, <2>3
    <3>3. \A a, b \in 1 .. Len(waiting) : waiting[a] = waiting[b] => a = b
      BY <1>5, <3>2
    <3>4. j \in 1 .. Len(waiting) \/ j = Len(waiting) + 1
      BY <1>2, <2>1
    <3>5. k \in 1 .. Len(waiting) \/ k = Len(waiting) + 1
      BY <1>2, <2>1
    <3>6. CASE j \in 1 .. Len(waiting) /\ k \in 1 .. Len(waiting)
      BY <2>3, <3>1, <3>3, <3>6
    <3>7. CASE j \in 1 .. Len(waiting) /\ k = Len(waiting) + 1
      BY <1>2, <2>1, <2>3, <3>1, <3>7
    <3>8. CASE j = Len(waiting) + 1 /\ k \in 1 .. Len(waiting)
      BY <1>2, <2>1, <2>3, <3>1, <3>8
    <3> QED
      BY <3>4, <3>5, <3>6, <3>7, <3>8
  <2>4. VoucherInv'
    BY <2>2, <2>3, Zenon DEF VoucherInv
  <2>5. PICK last : last = Len(lines) + 1
    OBVIOUS
  <2>6. \A c : <<last, c>> \notin Underway
    <3> SUFFICES ASSUME NEW c, <<last, c>> \in Underway PROVE FALSE
      OBVIOUS
    <3>1. PICK k \in 1 .. Len(waiting) :
                 <<last, c>> \in Voucher(waiting[k], lines[waiting[k]].arg)
      BY <1>2, UnderwayIs
    <3> QED
      BY <1>2, <2>5, <3>1 DEF Voucher
  <2>7. Underway' = Underway \cup Voucher(last, e.arg)
    <3>1. ASSUME NEW x
          PROVE  x \in Underway' <=>
                   \E k \in DOMAIN (waiting') : x \in Voucher(waiting'[k], lines'[waiting'[k]].arg)
      BY DEF Underway, Voucher
    <3>2. DOMAIN (waiting') = 1 .. Len(waiting) + 1
      BY <2>1
    <3>3. ASSUME NEW k \in 1 .. Len(waiting) + 1, NEW x,
                 x \in Voucher(waiting'[k], lines'[waiting'[k]].arg)
          PROVE  x \in Underway \cup Voucher(last, e.arg)
      <4>1. CASE k \in 1 .. Len(waiting)
        <5>1. waiting'[k] = waiting[k] /\ lines'[waiting[k]] = lines[waiting[k]]
          BY <1>2, <2>1, <4>1
        <5> QED
          BY <1>2, <3>3, <4>1, <5>1, UnderwayIs
      <4>2. CASE k = Len(waiting) + 1
        BY <2>1, <2>5, <3>3, <4>2
      <4> QED
        BY <1>2, <4>1, <4>2
    <3>4. ASSUME NEW x \in Underway
          PROVE  \E k \in 1 .. Len(waiting) + 1 : x \in Voucher(waiting'[k], lines'[waiting'[k]].arg)
      <4>1. PICK k \in 1 .. Len(waiting) : x \in Voucher(waiting[k], lines[waiting[k]].arg)
        BY <1>2, <3>4, UnderwayIs
      <4>2. waiting'[k] = waiting[k] /\ lines'[waiting[k]] = lines[waiting[k]]
        BY <1>2, <2>1
      <4>3. k \in 1 .. Len(waiting) + 1
        BY <1>2
      <4> QED
        BY <4>1, <4>2, <4>3
    <3>5. ASSUME NEW x \in Voucher(last, e.arg)
          PROVE  \E k \in 1 .. Len(waiting) + 1 : x \in Voucher(waiting'[k], lines'[waiting'[k]].arg)
      <4>1. Len(waiting) + 1 \in 1 .. Len(waiting) + 1
        BY <1>2
      <4> QED
        BY <2>1, <2>5, <4>1
    <3> QED
      BY <3>1, <3>2, <3>3, <3>4, <3>5
  <2>8. Cardinality(Underway') = Cardinality(Underway) + e.arg
    BY <1>3, <1>7, <2>6, <2>7, VoucherCounted
  <2>9. repeats' = 0 => Total(rec.bounty) + Cardinality(Underway') = truth'.redeemed
    BY <1>2, <1>3, <1>5, <1>6, <1>7, <2>1, <2>8
  <2> QED
    BY <2>1, <2>4, <2>9 DEF VouchersConserved, Total
<1>8. CASE RereadAll
  <2>1. UNCHANGED lines /\ repeats' # 0
    BY <1>8, Repeated
  <2> QED
    BY <1>4, <2>1 DEF VoucherInv, VouchersConserved
<1>9. ASSUME NEW n \in DOMAIN waiting, HandleRecordLine(n)
      PROVE  VoucherInv' /\ VouchersConserved'
  <2>1. TakeOut(n) /\ UNCHANGED <<story, truth, repeats>>
    BY <1>9 DEF HandleRecordLine
  <2>2. PICK i : i = waiting[n]
    OBVIOUS
  <2>3. /\ n \in 1 .. Len(waiting) /\ i \in 1 .. Len(lines) /\ lines[i] \in RecordLine
        /\ lines' = lines /\ Len(waiting') = Len(waiting) - 1
        /\ \A j \in 1 .. Len(waiting) - 1 : waiting'[j] = waiting[IF j < n THEN j ELSE j + 1]
        /\ waiting' \in Seq(1 .. Len(lines))
    BY <1>2, <2>1, <2>2, TakenOut
  <2>4. ASSUME NEW j \in 1 .. Len(waiting) - 1
         PROVE  \E k \in 1 .. Len(waiting) :
                  waiting'[j] = waiting[k] /\ k # n /\ (IF j < n THEN k = j ELSE k = j + 1)
    <3>1. CASE j < n
      <4>3. n \in Int /\ n \in 1 .. Len(waiting)
        BY <2>3
      <4>1. j \in 1 .. Len(waiting) /\ j # n
        BY <1>2, <3>1, <4>3
      <4>2. waiting'[j] = waiting[j]
        BY <2>3, <3>1, Zenon
      <4> QED
        BY <3>1, <4>1, <4>2
    <3>2. CASE ~(j < n)
      <4>1. j + 1 \in 1 .. Len(waiting) /\ j + 1 # n
        BY <1>2, <2>3, <3>2
      <4>2. waiting'[j] = waiting[j + 1]
        BY <2>3, <3>2, Zenon
      <4> QED
        BY <3>2, <4>1, <4>2
    <3> QED
      BY <3>1, <3>2
  <2>5. rec' = Recorded(rec, lines[i])
    BY <1>9, <2>2 DEF HandleRecordLine
  <2>6. PICK amount \in 1 .. 2 : amount = lines[i].arg
    BY <1>3, <2>3
  <2>7. /\ rec' \in RecordState
        /\ rec.bounty = Missing => rec'.bounty = amount
        /\ rec.bounty # Missing => rec'.bounty = rec.bounty + amount
    <3>1. rec \in RecordState /\ Len(rec.history) <= HistoryLimit
      BY <1>2
    <3>2. lines[i] \in RecordLine /\ lines[i].type = "RedeemVoucher"
      BY <1>4, <2>3
    <3>3. PICK e, q : e = lines[i] /\ q = Recorded(rec, e)
      OBVIOUS
    <3>4. e \in RecordLine /\ e.type = "RedeemVoucher" /\ e.arg = amount /\ rec' = q
      BY <2>5, <2>6, <3>2, <3>3
    <3>5. /\ q \in RecordState
          /\ rec.bounty = Missing => q.bounty = e.arg
          /\ rec.bounty # Missing => q.bounty = rec.bounty + e.arg
      BY <3>1, <3>3, <3>4, OthersRecorded
    <3> QED
      BY <3>4, <3>5
  <2>8. Total(rec'.bounty) = Total(rec.bounty) + amount
    <3>1. Missing \notin Nat
      BY RecordAssumption
    <3> QED
      BY <1>2, <2>7, <3>1 DEF Total, RecordState
  <2>9. ASSUME repeats' = 0, NEW j \in 1 .. Len(waiting'), NEW k \in 1 .. Len(waiting'),
               waiting'[j] = waiting'[k]
        PROVE  j = k
    <3>1. repeats = 0
      BY <2>1, <2>9
    <3>2. j \in 1 .. Len(waiting) - 1 /\ k \in 1 .. Len(waiting) - 1
      BY <2>3
    <3>3. PICK a \in 1 .. Len(waiting) :
            waiting'[j] = waiting[a] /\ (IF j < n THEN a = j ELSE a = j + 1)
      BY <2>4, <3>2
    <3>4. PICK b \in 1 .. Len(waiting) :
            waiting'[k] = waiting[b] /\ (IF k < n THEN b = k ELSE b = k + 1)
      BY <2>4, <3>2
    <3>5. a = b
      BY <1>5, <2>9, <3>1, <3>3, <3>4
    <3>6. j \in Int /\ k \in Int /\ n \in Int
      BY <2>3, <3>2
    <3>7. CASE j < n /\ k < n
      BY <3>3, <3>4, <3>5, <3>7
    <3>8. CASE j < n /\ ~(k < n)
      BY <3>3, <3>4, <3>5, <3>6, <3>8
    <3>9. CASE ~(j < n) /\ k < n
      BY <3>3, <3>4, <3>5, <3>6, <3>9
    <3>10. CASE ~(j < n) /\ ~(k < n)
      BY <3>3, <3>4, <3>5, <3>6, <3>10
    <3> QED
      BY <3>7, <3>8, <3>9, <3>10
  <2>10. VoucherInv'
    BY <1>4, <2>3, <2>9, Zenon DEF VoucherInv
  <2>11. ASSUME repeats = 0
         PROVE  Total(rec'.bounty) + Cardinality(Underway') = truth'.redeemed
    <3>1. \A j, k \in 1 .. Len(waiting) : waiting[j] = waiting[k] => j = k
      BY <1>5, <2>11
    <3>2. ASSUME NEW x
          PROVE  x \in Underway' <=>
                   \E k \in 1 .. Len(waiting) - 1 : x \in Voucher(waiting'[k], lines[waiting'[k]].arg)
      <4>1. x \in Underway' <=>
              \E k \in DOMAIN (waiting') : x \in Voucher(waiting'[k], lines'[waiting'[k]].arg)
        BY DEF Underway, Voucher
      <4>2. DOMAIN (waiting') = 1 .. Len(waiting) - 1
        BY <2>3
      <4> QED
        BY <2>3, <4>1, <4>2
    <3>3. Underway = Underway' \cup Voucher(i, amount)
      <4>1. ASSUME NEW x \in Underway PROVE x \in Underway' \cup Voucher(i, amount)
        <5>1. PICK k \in 1 .. Len(waiting) : x \in Voucher(waiting[k], lines[waiting[k]].arg)
          BY <1>2, <4>1, UnderwayIs
        <5>2. CASE k = n
          BY <2>2, <2>6, <5>1, <5>2
        <5>3. CASE k # n
          <6>1. PICK j \in 1 .. Len(waiting) - 1 : k = IF j < n THEN j ELSE j + 1
            <7>1. CASE k < n
              BY <1>2, <2>3, <7>1
            <7>2. CASE k > n
              <8>1. k - 1 \in 1 .. Len(waiting) - 1 /\ k = IF k - 1 < n THEN k - 1 ELSE (k - 1) + 1
                BY <1>2, <2>3, <7>2
              <8> QED
                BY <8>1
            <7> QED
              BY <2>3, <5>3, <7>1, <7>2
          <6>2. waiting'[j] = waiting[k]
            BY <2>3, <6>1
          <6> QED
            BY <3>2, <5>1, <6>2
        <5> QED
          BY <5>2, <5>3
      <4>2. ASSUME NEW x \in Underway' PROVE x \in Underway
        <5>1. PICK k \in 1 .. Len(waiting) - 1 : x \in Voucher(waiting'[k], lines[waiting'[k]].arg)
          BY <3>2, <4>2
        <5>2. PICK j \in 1 .. Len(waiting) : waiting'[k] = waiting[j]
          BY <2>4
        <5> QED
          BY <1>2, <5>1, <5>2, UnderwayIs
      <4>3. ASSUME NEW x \in Voucher(i, amount) PROVE x \in Underway
        BY <1>2, <2>2, <2>3, <2>6, <4>3, UnderwayIs
      <4> QED
        BY <4>1, <4>2, <4>3
    <3>4. \A c : <<i, c>> \notin Underway'
      <4> SUFFICES ASSUME NEW c, <<i, c>> \in Underway' PROVE FALSE
        OBVIOUS
      <4>1. PICK k \in 1 .. Len(waiting) - 1 :
                   <<i, c>> \in Voucher(waiting'[k], lines[waiting'[k]].arg)
        BY <3>2
      <4>2. waiting'[k] = i
        BY <4>1 DEF Voucher
      <4>3. PICK j \in 1 .. Len(waiting) : waiting'[k] = waiting[j] /\ j # n
        BY <2>4
      <4> QED
        BY <2>2, <2>3, <3>1, <4>2, <4>3
    <3>5. IsFiniteSet(Underway') /\ Cardinality(Underway') \in Nat
      <4>1. Underway' \subseteq Underway
        BY <3>3
      <4> QED
        BY <1>3, <4>1, FS_Subset, FS_CardinalityType
    <3>6. Cardinality(Underway) = Cardinality(Underway') + amount
      BY <3>3, <3>4, <3>5, VoucherCounted
    <3>7. Total(rec.bounty) + Cardinality(Underway) = truth.redeemed /\ truth' = truth
      BY <1>5, <2>1, <2>11
    <3> QED
      BY <1>6, <2>8, <3>5, <3>6, <3>7
  <2> QED
    BY <2>1, <2>10, <2>11 DEF VouchersConserved, Total
<1>10. CASE UNCHANGED recordVars
  <2>1. UNCHANGED <<story, truth, rec, waiting, lines, repeats>>
    BY <1>10 DEF recordVars, career
  <2>2. Underway' = Underway
    BY <2>1 DEF Underway
  <2> QED
    BY <2>1, <2>2 DEF VoucherInv, VouchersConserved
<1> QED
  BY <1>1, <1>7, <1>8, <1>9, <1>10, VoucherSteps

LEMMA VoucherInit == RecordInit => VoucherInv /\ VouchersConserved
<1> SUFFICES ASSUME RecordInit, story = "rewards" PROVE VoucherInv /\ VouchersConserved
  BY DEF VoucherInv, VouchersConserved
<1>1. /\ lines = Opening /\ waiting = [n \in DOMAIN lines |-> n]
      /\ rec.bounty = Missing /\ truth.redeemed = 0
  BY DEF RecordInit
<1>2. lines \in Seq(RecordLine) /\ Len(lines) = 0
  BY <1>1, RecordTypeInit, OpeningLines DEF RecordTypeOK
<1>3. DOMAIN waiting = {} /\ Len(waiting) = 0
  BY <1>1, <1>2
<1>4. Underway = {}
  BY <1>3 DEF Underway
<1>5. Cardinality(Underway) = 0
  BY <1>4, FS_EmptySet
<1> QED
  BY <1>1, <1>2, <1>3, <1>5 DEF VoucherInv, VouchersConserved

-----------------------------------------------------------------------------
(* CommanderRecord: the missions.                                          *)

\* The list is the one of missions a, entry by entry.
Matches(s, a) ==
  /\ \A n \in 1 .. Len(s) : s[n].id \in Held(a) /\ s[n].to \in {Missing, a[s[n].id]}
  /\ \A m \in Held(a) : \E n \in 1 .. Len(s) : s[n].id = m
  /\ \A j, k \in 1 .. Len(s) : s[j].id = s[k].id => j = k

LEMMA ShowsIs ==
  ASSUME NEW r \in RecordState, NEW a
  PROVE  Shows(r, a) <=> Matches(r.missions, a) /\ Occupied(r)
<1> DEFINE s == r.missions
           ids == [n \in DOMAIN s |-> s[n].id]
<1>1. s \in Seq(MissionEntry) /\ DOMAIN s = 1 .. Len(s)
  BY DEF RecordState
<1>2. DOMAIN ids = 1 .. Len(s) /\ \A n \in 1 .. Len(s) : ids[n] = s[n].id
  BY <1>1
<1>3. {ids[n] : n \in DOMAIN ids} = {s[n].id : n \in 1 .. Len(s)}
  BY <1>2
<1>4. (\A j, k \in DOMAIN ids : ids[j] = ids[k] => j = k)
        <=> (\A j, k \in 1 .. Len(s) : s[j].id = s[k].id => j = k)
  BY <1>2
<1>5. ({s[n].id : n \in 1 .. Len(s)} = Held(a))
        <=> /\ \A n \in 1 .. Len(s) : s[n].id \in Held(a)
            /\ \A m \in Held(a) : \E n \in 1 .. Len(s) : s[n].id = m
  OBVIOUS
<1>6. ListsOnce(ids, Held(a)) <=>
        /\ \A n \in 1 .. Len(s) : s[n].id \in Held(a)
        /\ \A m \in Held(a) : \E n \in 1 .. Len(s) : s[n].id = m
        /\ \A j, k \in 1 .. Len(s) : s[j].id = s[k].id => j = k
  <2> HIDE DEF ids, s
  <2> QED
    BY <1>3, <1>4, <1>5 DEF ListsOnce
<1>7. Shows(r, a) <=>
        /\ ListsOnce(ids, Held(a))
        /\ \A n \in 1 .. Len(s) : s[n].to \in {Missing, a[s[n].id]}
        /\ Occupied(r)
  BY <1>1 DEF Shows
<1> HIDE DEF ids, s
<1>8. Matches(s, a) <=>
        /\ ListsOnce(ids, Held(a))
        /\ \A n \in 1 .. Len(s) : s[n].to \in {Missing, a[s[n].id]}
  BY <1>6 DEF Matches
<1>9. Shows(r, a) <=> Matches(s, a) /\ Occupied(r)
  BY <1>7, <1>8
<1> QED
  BY <1>9 DEF s

LEMMA SnapshotShows ==
  ASSUME NEW r \in RecordState, NEW ids \in Seq(Missions), NEW a, ListsOnce(ids, Held(a)),
         NEW q, q = RecordMissions(r, ids)
  PROVE  Shows(q, a)
<1>1. /\ q \in RecordState /\ Len(q.missions) = Len(ids) /\ Occupied(q)
      /\ \A n \in 1 .. Len(ids) : q.missions[n] = [id |-> ids[n], to |-> Missing]
  BY SnapshotRecorded
<1>2. PICK s : s = q.missions
  OBVIOUS
<1>3. ASSUME NEW n \in 1 .. Len(ids) PROVE s[n].id = ids[n] /\ s[n].to = Missing
  <2>1. s[n] = [id |-> ids[n], to |-> Missing]
    BY <1>1, <1>2
  <2> QED
    BY <2>1
<1>4. /\ DOMAIN ids = 1 .. Len(ids) /\ {ids[n] : n \in DOMAIN ids} = Held(a)
      /\ \A j, k \in DOMAIN ids : ids[j] = ids[k] => j = k
  BY DEF ListsOnce
<1>5. Matches(s, a)
  <2>1. Len(s) = Len(ids)
    BY <1>1, <1>2
  <2>2. \A n \in 1 .. Len(s) : s[n].id \in Held(a) /\ s[n].to \in {Missing, a[s[n].id]}
    BY <1>3, <1>4, <2>1
  <2>3. \A m \in Held(a) : \E n \in 1 .. Len(s) : s[n].id = m
    BY <1>3, <1>4, <2>1
  <2>4. \A j, k \in 1 .. Len(s) : s[j].id = s[k].id => j = k
    BY <1>3, <1>4, <2>1
  <2> QED
    BY <2>2, <2>3, <2>4 DEF Matches
<1> QED
  BY <1>1, <1>2, <1>5, ShowsIs

LEMMA AcceptanceMatches ==
  ASSUME NEW s \in Seq(MissionEntry), NEW a \in MissionMap, Matches(s, a),
         NEW entry \in [id : Missions, to : Destinations], a[entry.id] = Missing,
         NEW b, b = [a EXCEPT ![entry.id] = entry.to]
  PROVE  Matches(Append(s, entry), b)
<1>1. entry \in MissionEntry /\ entry.id \in Missions /\ entry.to # Missing
  BY RecordAssumption DEF MissionEntry
<1>2. PICK t : t = Append(s, entry)
  OBVIOUS
<1>3. /\ Len(s) \in Nat /\ Len(t) = Len(s) + 1 /\ t[Len(s) + 1] = entry
      /\ \A n \in 1 .. Len(s) : t[n] = s[n]
  BY <1>1, <1>2
<1>4. /\ b[entry.id] = entry.to
      /\ \A m \in Missions : m # entry.id => b[m] = a[m]
  BY <1>1 DEF MissionMap
<1>5. Held(b) = Held(a) \cup {entry.id} /\ entry.id \notin Held(a)
  BY <1>1, <1>4 DEF Held
<1>6. /\ \A n \in 1 .. Len(s) : s[n].id \in Held(a) /\ s[n].to \in {Missing, a[s[n].id]}
      /\ \A m \in Held(a) : \E n \in 1 .. Len(s) : s[n].id = m
      /\ \A j, k \in 1 .. Len(s) : s[j].id = s[k].id => j = k
  BY DEF Matches
<1>7. \A n \in 1 .. Len(s) : s[n].id # entry.id /\ b[s[n].id] = a[s[n].id]
  BY <1>4, <1>5, <1>6 DEF Held
<1>8. ASSUME NEW n \in 1 .. Len(t)
      PROVE  t[n].id \in Held(b) /\ t[n].to \in {Missing, b[t[n].id]}
  <2>1. CASE n \in 1 .. Len(s)
    BY <1>3, <1>5, <1>6, <1>7, <2>1
  <2>2. CASE n = Len(s) + 1
    BY <1>3, <1>4, <1>5, <2>2
  <2> QED
    BY <1>3, <2>1, <2>2
<1>9. ASSUME NEW m \in Held(b) PROVE \E n \in 1 .. Len(t) : t[n].id = m
  <2>1. CASE m = entry.id
    <3>1. Len(s) + 1 \in 1 .. Len(t)
      BY <1>3
    <3> QED
      BY <1>3, <2>1, <3>1
  <2>2. CASE m \in Held(a)
    <3>1. PICK n \in 1 .. Len(s) : s[n].id = m
      BY <1>6, <2>2
    <3>2. n \in 1 .. Len(t) /\ t[n] = s[n]
      BY <1>3
    <3> QED
      BY <3>1, <3>2
  <2> QED
    BY <1>5, <2>1, <2>2
<1>10. ASSUME NEW j \in 1 .. Len(t), NEW k \in 1 .. Len(t), t[j].id = t[k].id PROVE j = k
  <2>1. \A n \in 1 .. Len(t) : n \in 1 .. Len(s) \/ n = Len(s) + 1
    BY <1>3
  <2>2. CASE j \in 1 .. Len(s) /\ k \in 1 .. Len(s)
    BY <1>3, <1>6, <1>10, <2>2
  <2>3. CASE j \in 1 .. Len(s) /\ k = Len(s) + 1
    BY <1>3, <1>7, <1>10, <2>3
  <2>4. CASE j = Len(s) + 1 /\ k \in 1 .. Len(s)
    BY <1>3, <1>7, <1>10, <2>4
  <2> QED
    BY <2>1, <2>2, <2>3, <2>4
<1>11. Matches(t, b)
  BY <1>8, <1>9, <1>10 DEF Matches
<1> QED
  BY <1>2, <1>11

LEMMA EndMatches ==
  ASSUME NEW s \in Seq(MissionEntry), NEW a \in MissionMap, Matches(s, a),
         NEW i \in 1 .. Len(s), NEW b, b = [a EXCEPT ![s[i].id] = Missing]
  PROVE  Matches(RemoveAt(s, i), b)
<1>1. PICK m : m = s[i].id
  OBVIOUS
<1>2. /\ \A n \in 1 .. Len(s) : s[n].id \in Held(a) /\ s[n].to \in {Missing, a[s[n].id]}
      /\ \A x \in Held(a) : \E n \in 1 .. Len(s) : s[n].id = x
      /\ \A j, k \in 1 .. Len(s) : s[j].id = s[k].id => j = k
  BY DEF Matches
<1>3. m \in Missions
  BY <1>1, <1>2 DEF Held
<1>4. b[m] = Missing /\ \A x \in Missions : x # m => b[x] = a[x]
  BY <1>1, <1>3 DEF MissionMap
<1>5. Held(b) = Held(a) \ {m}
  BY <1>4 DEF Held
<1>6. PICK t : t = RemoveAt(s, i)
  OBVIOUS
<1>7. /\ t \in Seq(MissionEntry) /\ Len(t) = Len(s) - 1 /\ Len(s) \in Nat
      /\ \A j \in 1 .. Len(s) - 1 : t[j] = s[IF j < i THEN j ELSE j + 1]
  <2>1. /\ RemoveAt(s, i) \in Seq(MissionEntry) /\ Len(RemoveAt(s, i)) = Len(s) - 1
        /\ \A j \in 1 .. Len(s) - 1 : RemoveAt(s, i)[j] = s[IF j < i THEN j ELSE j + 1]
    BY RemovedAt
  <2>2. Len(s) \in Nat
    OBVIOUS
  <2> QED
    BY <1>6, <2>1, <2>2, Zenon
<1>8. ASSUME NEW j \in 1 .. Len(t)
      PROVE  \E k \in 1 .. Len(s) :
               t[j] = s[k] /\ k # i /\ (IF j < i THEN k = j ELSE k = j + 1)
  <2>1. j \in 1 .. Len(s) - 1 /\ j \in Int /\ i \in Int
    BY <1>7
  <2>2. CASE j < i
    <3>1. j \in 1 .. Len(s) /\ j # i
      BY <2>1, <2>2
    <3>2. t[j] = s[j]
      BY <1>7, <2>1, <2>2, Zenon
    <3> QED
      BY <2>2, <3>1, <3>2
  <2>3. CASE ~(j < i)
    <3>1. j + 1 \in 1 .. Len(s) /\ j + 1 # i
      BY <1>7, <2>1, <2>3
    <3>2. t[j] = s[j + 1]
      BY <1>7, <2>1, <2>3, Zenon
    <3> QED
      BY <2>3, <3>1, <3>2
  <2> QED
    BY <2>2, <2>3
<1>9. \A n \in 1 .. Len(s) : n # i => s[n].id # m /\ b[s[n].id] = a[s[n].id]
  BY <1>1, <1>2, <1>4 DEF Held
<1>10. ASSUME NEW n \in 1 .. Len(t)
       PROVE  t[n].id \in Held(b) /\ t[n].to \in {Missing, b[t[n].id]}
  <2>1. PICK k \in 1 .. Len(s) : t[n] = s[k] /\ k # i
    BY <1>8
  <2>2. s[k].id \in Held(a) /\ s[k].to \in {Missing, a[s[k].id]}
    BY <1>2, Zenon
  <2>3. s[k].id # m /\ b[s[k].id] = a[s[k].id]
    BY <1>9, <2>1, Zenon
  <2>4. s[k].id \in Held(b)
    BY <1>5, <2>2, <2>3, Zenon
  <2> QED
    BY <2>1, <2>2, <2>3, <2>4, Zenon
<1>11. ASSUME NEW x \in Held(b) PROVE \E n \in 1 .. Len(t) : t[n].id = x
  <2>1. PICK k \in 1 .. Len(s) : s[k].id = x
    BY <1>2, <1>5
  <2>2. k # i
    BY <1>1, <1>5, <2>1
  <2>3. CASE k < i
    <3>1. k \in 1 .. Len(s) - 1
      BY <1>7, <2>3
    <3>2. t[k] = s[k]
      BY <1>7, <2>3, <3>1, Zenon
    <3> QED
      BY <1>7, <2>1, <3>1, <3>2
  <2>4. CASE k > i
    <3>1. k - 1 \in 1 .. Len(s) - 1 /\ ~(k - 1 < i) /\ (k - 1) + 1 = k
      BY <1>7, <2>4
    <3>2. t[k - 1] = s[(k - 1) + 1]
      BY <1>7, <3>1, Zenon
    <3> QED
      BY <1>7, <2>1, <3>1, <3>2
  <2> QED
    BY <2>2, <2>3, <2>4
<1>12. ASSUME NEW j \in 1 .. Len(t), NEW k \in 1 .. Len(t), t[j].id = t[k].id PROVE j = k
  <2>1. PICK x \in 1 .. Len(s) : t[j] = s[x] /\ (IF j < i THEN x = j ELSE x = j + 1)
    BY <1>8
  <2>2. PICK y \in 1 .. Len(s) : t[k] = s[y] /\ (IF k < i THEN y = k ELSE y = k + 1)
    BY <1>8
  <2>3. x = y
    BY <1>2, <1>12, <2>1, <2>2
  <2> QED
    BY <1>7, <2>1, <2>2, <2>3
<1>13. Matches(t, b)
  BY <1>10, <1>11, <1>12 DEF Matches
<1> QED
  BY <1>6, <1>13

LEMMA RedirectionMatches ==
  ASSUME NEW s \in Seq(MissionEntry), NEW a \in MissionMap, Matches(s, a),
         NEW entry \in [id : Missions, to : Destinations], a[entry.id] # Missing,
         NEW i \in 1 .. Len(s), s[i].id = entry.id,
         NEW b, b = [a EXCEPT ![entry.id] = entry.to]
  PROVE  Matches(Replaced(s, i, entry), b)
<1>1. entry \in MissionEntry /\ entry.id \in Missions /\ entry.to # Missing
  BY RecordAssumption DEF MissionEntry
<1>2. PICK t : t = Replaced(s, i, entry)
  OBVIOUS
<1>3. /\ Len(t) = Len(s) /\ t[i] = entry
      /\ \A n \in 1 .. Len(s) : n # i => t[n] = s[n]
  BY <1>2 DEF Replaced
<1>4. b[entry.id] = entry.to /\ \A m \in Missions : m # entry.id => b[m] = a[m]
  BY <1>1 DEF MissionMap
<1>5. Held(b) = Held(a)
  BY <1>1, <1>4 DEF Held
<1>6. /\ \A n \in 1 .. Len(s) : s[n].id \in Held(a) /\ s[n].to \in {Missing, a[s[n].id]}
      /\ \A m \in Held(a) : \E n \in 1 .. Len(s) : s[n].id = m
      /\ \A j, k \in 1 .. Len(s) : s[j].id = s[k].id => j = k
  BY DEF Matches
<1>7. \A n \in 1 .. Len(s) : t[n].id = s[n].id
  BY <1>3
<1>8. ASSUME NEW n \in 1 .. Len(t)
      PROVE  t[n].id \in Held(b) /\ t[n].to \in {Missing, b[t[n].id]}
  <2>1. CASE n = i
    BY <1>1, <1>3, <1>4, <1>5, <1>6, <2>1
  <2>2. CASE n # i
    <3>1. t[n] = s[n] /\ s[n].id # entry.id /\ s[n].id \in Missions
      BY <1>3, <1>6, <2>2 DEF Held
    <3> QED
      BY <1>3, <1>4, <1>5, <1>6, <3>1
  <2> QED
    BY <2>1, <2>2
<1>9. \A m \in Held(b) : \E n \in 1 .. Len(t) : t[n].id = m
  BY <1>3, <1>5, <1>6, <1>7
<1>10. \A j, k \in 1 .. Len(t) : t[j].id = t[k].id => j = k
  BY <1>3, <1>6, <1>7
<1>11. Matches(t, b)
  BY <1>8, <1>9, <1>10 DEF Matches
<1> QED
  BY <1>2, <1>11

LEMMA RedirectionShows ==
  ASSUME NEW r \in RecordState, NEW a \in MissionMap, Shows(r, a),
         NEW arg \in [id : Missions, to : Destinations], a[arg.id] # Missing,
         NEW b, b = [a EXCEPT ![arg.id] = arg.to], NEW q, q = RecordRedirected(r, arg)
  PROVE  Shows(q, b)
<1>1. arg \in MissionEntry
  BY DEF MissionEntry
<1>2. r.missions \in Seq(MissionEntry) /\ Matches(r.missions, a) /\ Occupied(r)
  BY ShowsIs DEF RecordState
<1>3. Entries(r, arg.id) # {}
  <2>1. arg.id \in Held(a)
    BY DEF Held
  <2>2. \E n \in 1 .. Len(r.missions) : r.missions[n].id = arg.id
    BY <1>2, <2>1 DEF Matches
  <2> QED
    BY <1>2, <2>2 DEF Entries
<1>4. q \in RecordState /\ q.session = r.session
  BY <1>1, RedirectionRecorded
<1>5. Entries(r, arg.id) # {} =>
        \E n \in 1 .. Len(r.missions) :
          r.missions[n].id = arg.id /\ q.missions = Replaced(r.missions, n, arg)
  BY <1>1, RedirectionRecorded
<1>6. PICK n \in 1 .. Len(r.missions) :
         r.missions[n].id = arg.id /\ q.missions = Replaced(r.missions, n, arg)
  BY <1>3, <1>5
<1>7. Matches(q.missions, b)
  BY <1>2, <1>6, RedirectionMatches
<1>8. Len(q.missions) = Len(r.missions)
  BY <1>2, <1>6 DEF Replaced
<1>9. Occupied(q)
  BY <1>2, <1>4, <1>8, Zenon DEF Occupied
<1> QED
  BY <1>4, <1>7, <1>9, ShowsIs

\* The handler of a line that tells how missions a became b turns the list of a into
\* the one of b; a Missions event needs no list to start from.
LEMMA Turned ==
  ASSUME NEW r \in RecordState, Len(r.history) <= HistoryLimit, NEW e \in RecordLine,
         NEW q, q = Recorded(r, e), NEW a \in MissionMap, NEW b, Turns(a, e, b),
         e.type = "Missions" \/ Shows(r, a)
  PROVE  Shows(q, b)
<1>1. PICK s : s = r.missions
  OBVIOUS
<1>2. s \in Seq(MissionEntry) /\ q \in RecordState
  BY <1>1, RecordedTyped DEF RecordState
<1>3. CASE e.type = "Missions"
  <2>1. q = RecordMissions(r, e.arg) /\ e.arg \in Seq(Missions)
    BY <1>3, RecordedBy, LineArgument
  <2>2. b = a /\ ListsOnce(e.arg, Held(a))
    BY <1>3 DEF Turns, MissionEnd
  <2> QED
    BY <2>1, <2>2, SnapshotShows
<1>4. ASSUME Shows(r, a) PROVE Matches(s, a) /\ Occupied(r)
  BY <1>1, <1>4, ShowsIs
<1>5. CASE e.type = "MissionAccepted"
  <2>1. q = RecordAccepted(r, e.arg) /\ e.arg \in [id : Missions, to : Destinations]
    BY <1>5, RecordedBy, LineArgument
  <2>2. a[e.arg.id] = Missing /\ b = [a EXCEPT ![e.arg.id] = e.arg.to]
    BY <1>5 DEF Turns, MissionEnd
  <2>3. e.arg \in MissionEntry
    BY <2>1 DEF MissionEntry
  <2>4. q.missions = Append(s, e.arg) /\ Occupied(q)
    BY <1>1, <2>1, <2>3, AcceptanceRecorded
  <2>5. Matches(q.missions, b)
    BY <1>2, <1>4, <1>5, <2>1, <2>2, <2>4, AcceptanceMatches
  <2> QED
    BY <1>2, <2>4, <2>5, ShowsIs
<1>6. CASE e.type = "MissionRedirected"
  <2>1. PICK arg : arg = e.arg
    OBVIOUS
  <2>2. q = RecordRedirected(r, arg) /\ arg \in [id : Missions, to : Destinations]
    BY <1>6, <2>1, RecordedBy, LineArgument
  <2>3. a[arg.id] # Missing /\ b = [a EXCEPT ![arg.id] = arg.to]
    BY <1>6, <2>1 DEF Turns, MissionEnd
  <2>4. Shows(r, a)
    BY <1>6
  <2> QED
    BY <2>2, <2>3, <2>4, RedirectionShows
<1>7. CASE e.type \in MissionEnd
  <2>1. PICK p : p = IF e.type = "MissionCompleted" THEN Remember(r, "MissionCompleted") ELSE r
    OBVIOUS
  <2>2. p \in RecordState /\ p.missions = s /\ p.session = r.session
    <3>1. "MissionCompleted" \in Remembered
      BY DEF Remembered
    <3> QED
      BY <1>1, <2>1, <3>1, RememberedIsBounded
  <2>3. q = RecordEnded(p, e.arg) /\ e.arg \in Missions
    <3>1. e.arg \in Missions
      BY <1>7, LineArgument
    <3>2. CASE e.type = "MissionCompleted"
      BY <2>1, <3>1, <3>2, RecordedBy
    <3>3. CASE e.type = "MissionFailed"
      BY <2>1, <3>1, <3>3, RecordedBy
    <3> QED
      BY <1>7, <3>2, <3>3 DEF MissionEnd
  <2>4. a[e.arg] # Missing /\ b = [a EXCEPT ![e.arg] = Missing]
    BY <1>7 DEF Turns, MissionEnd
  <2>5. Matches(s, a)
    BY <1>4, <1>7 DEF MissionEnd
  <2>6. Entries(p, e.arg) # {}
    <3>1. e.arg \in Held(a)
      BY <2>3, <2>4 DEF Held
    <3>2. \E n \in 1 .. Len(s) : s[n].id = e.arg
      BY <2>5, <3>1 DEF Matches
    <3> QED
      BY <1>2, <2>2, <3>2 DEF Entries
  <2>7. PICK n \in 1 .. Len(s) :
          s[n].id = e.arg /\ q.missions = RemoveAt(s, n) /\ Occupied(q)
    BY <2>2, <2>3, <2>6, EndRecorded
  <2>8. Matches(q.missions, b)
    BY <1>2, <2>4, <2>5, <2>7, EndMatches
  <2> QED
    BY <1>2, <2>7, <2>8, ShowsIs
<1> QED
  BY <1>3, <1>5, <1>6, <1>7 DEF Turns

-----------------------------------------------------------------------------
(* CommanderRecord: the list of missions settles.                          *)

MissionsInv == \E h : MissionsHold(h)

\* In the story of the missions, each line written tells how they changed.
LEMMA MissionSteps ==
  ASSUME RecordTypeOK, story = "missions", RecordNext
  PROVE  \/ \E e \in RecordLine :
              /\ WriteNews(<<e>>) /\ Turns(truth.active, e, truth'.active)
              /\ truth'.active \in MissionMap
         \/ RereadAll
         \/ \E n \in DOMAIN waiting : HandleRecordLine(n)
<1> DEFINE Told == \E e \in RecordLine :
              /\ WriteNews(<<e>>) /\ Turns(truth.active, e, truth'.active)
              /\ truth'.active \in MissionMap
<1>1. /\ truth \in [active : MissionMap, redeemed : Nat,
                    rank : 1 .. Ranks, pledge : Powers \cup {Missing}]
      /\ truth.rank \in 1 .. Ranks /\ truth.pledge \in Powers \cup {Missing}
      /\ story \in Story /\ truth.active \in MissionMap
  BY DEF RecordTypeOK, MissionMap
<1>2. CASE Relog
  <2>1. PICK o : o = Opening
    OBVIOUS
  <2>2. o \in Seq(RecordLine) /\ WriteNews(o) /\ truth' = truth
    BY <1>1, <1>2, <2>1, OpeningLines DEF Relog
  <2>3. Len(o) = 1 /\ o[1].type = "Missions" /\ ListsOnce(o[1].arg, Active)
    BY <1>1, <2>1, OpeningLines
  <2>4. o[1] \in RecordLine /\ o = <<o[1]>>
    <3>1. o \in Seq(RecordLine) /\ Len(o) = 1
      BY <2>2, <2>3
    <3>2. o[1] \in RecordLine
      BY <3>1
    <3>3. o = <<o[1]>>
      BY <3>1
    <3> QED
      BY <3>2, <3>3
  <2>5. Turns(truth.active, o[1], truth.active)
    BY <2>3 DEF Turns, Held, Active
  <2> QED
    BY <1>1, <2>2, <2>4, <2>5
<1>3. ASSUME NEW m \in Missions, NEW d \in Destinations, Accept(m, d) PROVE Told
  <2>1. PICK arg : arg = [id |-> m, to |-> d]
    OBVIOUS
  <2>2. PICK e : e = News("MissionAccepted", arg)
    OBVIOUS
  <2>3. e \in RecordLine /\ e.type = "MissionAccepted" /\ e.arg = arg
    BY <2>1, <2>2 DEF RecordLine, News
  <2>4. truth'.active = [truth.active EXCEPT ![m] = d] /\ truth.active[m] = Missing
    BY <1>1, <1>3 DEF Accept
  <2>5. WriteNews(<<e>>)
    BY <1>3, <2>1, <2>2 DEF Accept
  <2>6. truth'.active \in MissionMap
    BY <1>1, <2>4 DEF MissionMap
  <2>7. arg.id = m /\ arg.to = d
    BY <2>1
  <2>8. Turns(truth.active, e, truth'.active)
    BY <2>3, <2>4, <2>7 DEF Turns
  <2> QED
    BY <2>3, <2>5, <2>6, <2>8
<1>4. ASSUME NEW m \in Missions, NEW d \in Destinations, Redirect(m, d) PROVE Told
  <2>1. PICK arg : arg = [id |-> m, to |-> d]
    OBVIOUS
  <2>2. PICK e : e = News("MissionRedirected", arg)
    OBVIOUS
  <2>3. e \in RecordLine /\ e.type = "MissionRedirected" /\ e.arg = arg
    BY <2>1, <2>2 DEF RecordLine, News
  <2>4. truth'.active = [truth.active EXCEPT ![m] = d] /\ truth.active[m] # Missing
    BY <1>1, <1>4 DEF Redirect
  <2>5. WriteNews(<<e>>)
    BY <1>4, <2>1, <2>2 DEF Redirect
  <2>6. truth'.active \in MissionMap
    BY <1>1, <2>4 DEF MissionMap
  <2>7. arg.id = m /\ arg.to = d
    BY <2>1
  <2>8. Turns(truth.active, e, truth'.active)
    BY <2>3, <2>4, <2>7 DEF Turns
  <2> QED
    BY <2>3, <2>5, <2>6, <2>8
<1>5. ASSUME NEW m \in Missions, NEW type \in MissionEnd, EndMission(m, type) PROVE Told
  <2>1. PICK e : e = News(type, m)
    OBVIOUS
  <2>2. e \in RecordLine /\ e.type = type /\ e.arg = m
    BY <2>1 DEF RecordLine, News
  <2>3. truth'.active = [truth.active EXCEPT ![m] = Missing] /\ truth.active[m] # Missing
    BY <1>1, <1>5 DEF EndMission
  <2>4. WriteNews(<<e>>)
    BY <1>5, <2>1 DEF EndMission
  <2>5. truth'.active \in MissionMap
    BY <1>1, <2>3 DEF MissionMap
  <2>6. Turns(truth.active, e, truth'.active)
    BY <2>2, <2>3 DEF Turns
  <2> QED
    BY <2>2, <2>4, <2>5, <2>6
<1> QED
  BY <1>2, <1>3, <1>4, <1>5 DEF RecordNext, Redeem, Promote, Pledge, WorkForPower

LEMMA MissionsInit == RecordInit => MissionsInv
<1> SUFFICES ASSUME RecordInit PROVE MissionsInv
  OBVIOUS
<1>1. CASE story # "missions"
  BY <1>1 DEF MissionsInv, MissionsHold
<1>2. CASE story = "missions"
  <2>1. PICK o : o = Opening
    OBVIOUS
  <2>2. lines = o /\ waiting = [n \in DOMAIN o |-> n]
    BY <2>1 DEF RecordInit
  <2>3. /\ truth \in [active : MissionMap, redeemed : Nat,
                      rank : 1 .. Ranks, pledge : Powers \cup {Missing}]
        /\ o \in Seq(RecordLine)
    BY <2>2, RecordTypeInit DEF RecordTypeOK, MissionMap
  <2>4. Len(o) = 1 /\ o[1].type = "Missions" /\ ListsOnce(o[1].arg, Active)
    BY <1>2, <2>1, <2>3, OpeningLines DEF Story
  <2>5. PICK a : a = truth.active
    OBVIOUS
  <2>6. a \in MissionMap /\ Turns(a, o[1], a)
    BY <2>3, <2>4, <2>5 DEF Turns, Held, Active
  <2>7. PICK h : h = [n \in 0 .. 1 |-> a]
    OBVIOUS
  <2>8. h \in [0 .. 1 -> MissionMap] /\ h[0] = a /\ h[1] = a
    BY <2>6, <2>7
  <2>9. Reached = 0
    <3>1. Len(waiting) = 1 /\ waiting[1] = 1
      BY <2>2, <2>3, <2>4
    <3> QED
      BY <3>1 DEF Reached
  <2>10. History(h)
    <3>1. Len(lines) = 1
      BY <2>2, <2>4
    <3>2. ASSUME NEW n \in 1 .. 1 PROVE Turns(h[n - 1], lines[n], h[n])
      <4>1. n = 1 /\ n - 1 = 0
        OBVIOUS
      <4> QED
        BY <2>2, <2>6, <2>8, <4>1
    <3> QED
      BY <2>5, <2>8, <3>1, <3>2 DEF History
  <2>11. MissionsHold(h)
    BY <2>2, <2>4, <2>9, <2>10 DEF MissionsHold
  <2> QED
    BY <2>11 DEF MissionsInv
<1> QED
  BY <1>1, <1>2

LEMMA MissionsWritten ==
  ASSUME RecordTypeOK, story = "missions", NEW h, MissionsHold(h), NEW e \in RecordLine,
         WriteNews(<<e>>), Turns(truth.active, e, truth'.active), truth'.active \in MissionMap
  PROVE  MissionsInv'
<1>1. /\ Len(lines) \in Nat /\ Len(lines') = Len(lines) + 1
      /\ \A n \in 1 .. Len(lines) : lines'[n] = lines[n]
      /\ lines'[Len(lines) + 1] = e
      /\ UNCHANGED <<story, rec, inOrder>>
  BY LineWritten
<1>2. Reached' = Reached /\ Reached \in 0 .. Len(lines)
  <2>1. <<e>> \in Seq(RecordLine)
    OBVIOUS
  <2> QED
    BY <2>1, ReachedTyped, ReachedWritten
<1>3. /\ Len(lines) > 0 /\ lines[1].type = "Missions"
      /\ h \in [0 .. Len(lines) -> MissionMap] /\ h[Len(lines)] = truth.active
      /\ \A n \in 1 .. Len(lines) : Turns(h[n - 1], lines[n], h[n])
  BY DEF MissionsHold, History
<1>4. inOrder = TRUE /\ Reached > 0 => Shows(rec, h[Reached])
  BY DEF MissionsHold
<1>5. PICK last : last = Len(lines) + 1
  OBVIOUS
<1>6. PICK b : b = truth'.active
  OBVIOUS
<1>7. PICK g : g = [n \in 0 .. last |-> IF n = last THEN b ELSE h[n]]
  OBVIOUS
<1>8. /\ g \in [0 .. last -> MissionMap] /\ g[last] = b
      /\ \A n \in 0 .. Len(lines) : g[n] = h[n]
  <2>1. ASSUME NEW n \in 0 .. last PROVE (IF n = last THEN b ELSE h[n]) \in MissionMap
    <3>1. CASE n = last
      BY <1>6, <3>1
    <3>2. CASE n # last
      <4>1. n \in 0 .. Len(lines)
        BY <1>1, <1>5, <3>2
      <4> QED
        BY <1>3, <3>2, <4>1
    <3> QED
      BY <3>1, <3>2
  <2>2. last \in 0 .. last /\ \A n \in 0 .. Len(lines) : n \in 0 .. last /\ n # last
    BY <1>1, <1>5
  <2>3. \A n \in 0 .. last : g[n] = IF n = last THEN b ELSE h[n]
    BY <1>7
  <2>4. \A n \in 0 .. Len(lines) : g[n] = h[n]
    BY <2>2, <2>3
  <2>5. g \in [0 .. last -> MissionMap]
    BY <1>7, <2>1
  <2>6. g[last] = b
    BY <2>2, <2>3
  <2> QED
    BY <2>4, <2>5, <2>6
<1>9. ASSUME NEW n \in 1 .. last PROVE Turns(g[n - 1], lines'[n], g[n])
  <2>1. CASE n = last
    <3>1. g[n - 1] = truth.active
      <4>1. n - 1 = Len(lines) /\ Len(lines) \in 0 .. Len(lines)
        BY <1>1, <1>5, <2>1
      <4> QED
        BY <1>3, <1>8, <4>1
    <3> QED
      BY <1>1, <1>5, <1>6, <1>8, <2>1, <3>1
  <2>2. CASE n # last
    <3>1. n \in 1 .. Len(lines) /\ n \in 0 .. Len(lines) /\ n - 1 \in 0 .. Len(lines)
      BY <1>1, <1>5, <2>2
    <3> QED
      BY <1>1, <1>3, <1>8, <3>1
  <2> QED
    BY <2>1, <2>2
<1>10. Len(lines') = last
  BY <1>1, <1>5
<1>11. History(g)'
  BY <1>6, <1>8, <1>9, <1>10 DEF History
<1>12. inOrder' = TRUE /\ Reached' > 0 => Shows(rec', g[Reached'])
  <2>1. g[Reached] = h[Reached]
    BY <1>2, <1>8
  <2> QED
    BY <1>1, <1>2, <1>4, <2>1
<1>13. Len(lines') > 0 /\ lines'[1].type = "Missions"
  BY <1>1, <1>3
<1>14. MissionsHold(g)'
  <2>1. Shows(rec', g[Reached']) => Shows(rec, g[Reached])'
    OBVIOUS
  <2> QED
    BY <1>11, <1>12, <1>13, <2>1, Zenon DEF MissionsHold
<1> QED
  BY <1>14 DEF MissionsInv

LEMMA MissionsStep ==
  ASSUME RecordTypeOK, InStep, MissionsInv, [RecordNext]_recordVars
  PROVE  MissionsInv'
<1>1. PICK h : MissionsHold(h)
  BY DEF MissionsInv
<1>2. CASE story' # "missions"
  BY <1>2 DEF MissionsInv, MissionsHold
<1>3. CASE story' = "missions"
  <2>1. story = "missions"
    BY <1>3 DEF RecordNext, Relog, Accept, Redirect, EndMission, Redeem, Promote, Pledge,
                WorkForPower, RereadAll, HandleRecordLine, WriteNews, recordVars, career
  <2>2. /\ Len(lines) > 0 /\ lines[1].type = "Missions" /\ History(h)
        /\ inOrder = TRUE /\ Reached > 0 => Shows(rec, h[Reached])
    BY <1>1, <2>1 DEF MissionsHold
  <2>3. CASE RereadAll
    <3>1. UNCHANGED <<truth, lines, rec, inOrder>> /\ (Reached' = Reached \/ Reached' = 0)
      BY <2>3, Repeated, ReachedRepeated
    <3>2. History(h)'
      BY <2>2, <3>1 DEF History
    <3>3. MissionsHold(h)'
      BY <2>2, <3>1, <3>2 DEF MissionsHold
    <3> QED
      BY <3>3 DEF MissionsInv
  <2>4. ASSUME NEW n \in DOMAIN waiting, HandleRecordLine(n) PROVE MissionsInv'
    <3>1. TakeOut(n) /\ UNCHANGED <<story, truth, repeats>>
      BY <2>4 DEF HandleRecordLine
    <3>2. PICK k : k = waiting[n]
      OBVIOUS
    <3>3. /\ k \in 1 .. Len(lines) /\ lines[k] \in RecordLine /\ lines' = lines
          /\ inOrder' = TRUE =>
               inOrder = TRUE /\ Reached = k - 1 /\ (Reached' = k \/ Reached' = 0)
      BY <3>1, <3>2, InStepTaken
    <3>4. rec' = Recorded(rec, lines[k])
      BY <2>4, <3>2 DEF HandleRecordLine
    <3>5. /\ h \in [0 .. Len(lines) -> MissionMap] /\ Turns(h[k - 1], lines[k], h[k])
          /\ k - 1 \in 0 .. Len(lines)
      BY <2>2, <3>3 DEF History
    <3>6. rec \in RecordState /\ Len(rec.history) <= HistoryLimit
      BY DEF RecordTypeOK
    <3>7. ASSUME inOrder' = TRUE, Reached' > 0 PROVE Shows(rec', h[Reached'])
      <4>1. Reached = k - 1 /\ Reached' = k /\ inOrder = TRUE
        BY <3>3, <3>7
      <4>2. lines[k].type = "Missions" \/ Shows(rec, h[k - 1])
        <5>1. CASE k = 1
          BY <2>2, <5>1
        <5>2. CASE k > 1
          <6>1. Reached > 0
            BY <3>3, <4>1, <5>2
          <6>2. Shows(rec, h[Reached])
            BY <2>2, <4>1, <6>1, Zenon
          <6> QED
            BY <4>1, <6>2
        <5> QED
          BY <3>3, <5>1, <5>2
      <4>3. h[k - 1] \in MissionMap
        BY <3>5
      <4> QED
        BY <3>3, <3>4, <3>5, <3>6, <4>1, <4>2, <4>3, Turned
    <3>8. History(h)' /\ Len(lines') > 0 /\ lines'[1].type = "Missions"
      BY <2>2, <3>1, <3>3 DEF History
    <3>9. MissionsHold(h)'
      BY <3>7, <3>8, Zenon DEF MissionsHold
    <3> QED
      BY <3>9 DEF MissionsInv
  <2>5. CASE UNCHANGED recordVars
    <3>1. UNCHANGED <<story, truth, rec, waiting, lines, inOrder>>
      BY <2>5 DEF recordVars, career
    <3>2. MissionsHold(h)'
      BY <1>1, <3>1 DEF MissionsHold, History, Reached
    <3> QED
      BY <3>2 DEF MissionsInv
  <2> QED
    BY <1>1, <2>1, <2>3, <2>4, <2>5, MissionSteps, MissionsWritten
<1> QED
  BY <1>2, <1>3

\* A list that shows missions a is as long as they are many.
LEMMA ShowsRight ==
  ASSUME NEW r \in RecordState, NEW a, Shows(r, a)
  PROVE  /\ {r.missions[n].id : n \in DOMAIN r.missions} = Held(a)
         /\ Len(r.missions) = Cardinality(Held(a))
         /\ \A n \in DOMAIN r.missions : r.missions[n].to \in {Missing, a[r.missions[n].id]}
         /\ r.session = (Held(a) # {})
<1> DEFINE s == r.missions
<1>1. s \in Seq(MissionEntry) /\ DOMAIN s = 1 .. Len(s) /\ Len(s) \in Nat
  BY DEF RecordState
<1>2. Matches(s, a) /\ Occupied(r)
  BY ShowsIs
<1> HIDE DEF s
<1>3. /\ \A n \in 1 .. Len(s) : s[n].id \in Held(a) /\ s[n].to \in {Missing, a[s[n].id]}
      /\ \A m \in Held(a) : \E n \in 1 .. Len(s) : s[n].id = m
      /\ \A j, k \in 1 .. Len(s) : s[j].id = s[k].id => j = k
  BY <1>2 DEF Matches
<1>4. {s[n].id : n \in DOMAIN s} = Held(a)
  BY <1>1, <1>3
<1>5. Len(s) = Cardinality(Held(a))
  <2> DEFINE f == [n \in 1 .. Len(s) |-> s[n].id]
  <2>1. f \in [1 .. Len(s) -> Held(a)] /\ \A n \in 1 .. Len(s) : f[n] = s[n].id
    BY <1>3
  <2> HIDE DEF f
  <2>2. /\ \A j, k \in 1 .. Len(s) : f[j] = f[k] => j = k
        /\ \A m \in Held(a) : \E n \in 1 .. Len(s) : f[n] = m
    BY <1>3, <2>1
  <2>3. f \in Bijection(1 .. Len(s), Held(a))
    BY <2>1, <2>2 DEF Bijection, Injection, Surjection, IsInjective
  <2>4. ExistsBijection(1 .. Len(s), Held(a))
    BY <2>3 DEF ExistsBijection
  <2> QED
    BY <1>1, <2>4, FS_CountingElements
<1>6. (Held(a) # {}) \in BOOLEAN
  OBVIOUS
<1>7. r.session = (Held(a) # {})
  <2>1. CASE Len(s) > 0
    <3>1. r.session = TRUE
      BY <1>2, <2>1, Zenon DEF Occupied, s
    <3>2. Held(a) # {}
      <4>1. 1 \in 1 .. Len(s)
        BY <1>1, <2>1
      <4> QED
        BY <1>3, <4>1
    <3> QED
      BY <1>6, <3>1, <3>2, Zenon
  <2>2. CASE Len(s) = 0
    <3>1. r.session = FALSE
      BY <1>2, <2>2, Zenon DEF Occupied, s
    <3>2. ~(Held(a) # {})
      BY <1>3, <2>2
    <3> QED
      BY <1>6, <3>1, <3>2, Zenon
  <2> QED
    BY <1>1, <2>1, <2>2
<1> QED
  BY <1>1, <1>3, <1>4, <1>5, <1>7, Zenon DEF s

LEMMA MissionsKept == RecordTypeOK /\ MissionsInv => MissionsSettle
<1> SUFFICES ASSUME RecordTypeOK, MissionsInv, story = "missions", Settled PROVE MissionsRight
  BY DEF MissionsSettle
<1>1. PICK h : MissionsHold(h)
  BY DEF MissionsInv
<1>2. waiting = <<>> /\ inOrder = TRUE
  BY DEF Settled, RecordTypeOK
<1>3. Reached = Len(lines)
  BY <1>2 DEF Reached
<1>4. Len(lines) > 0 /\ h[Len(lines)] = truth.active
  BY <1>1 DEF MissionsHold, History
<1>5. Shows(rec, truth.active)
  BY <1>1, <1>2, <1>3, <1>4 DEF MissionsHold
<1>6. rec \in RecordState /\ Held(truth.active) = Active
  BY DEF RecordTypeOK, Held, Active
<1> QED
  BY <1>5, <1>6, ShowsRight, Zenon DEF MissionsRight

LEMMA HealStep ==
  ASSUME RecordTypeOK, MissionsInv, [RecordNext]_recordVars, story = "missions",
         waiting # <<>>, waiting' = <<>>,
         Last(waiting) = Len(lines), Last(lines).type = "Missions"
  PROVE  MissionsRight'
<1>1. PICK h : MissionsHold(h)
  BY DEF MissionsInv
<1>2. /\ lines \in Seq(RecordLine) /\ waiting \in Seq(1 .. Len(lines)) /\ inOrder \in BOOLEAN
      /\ Len(waiting) \in Nat /\ Len(waiting) > 0 /\ Len(waiting') = 0
  BY DEF RecordTypeOK
<1>3. ASSUME NEW new \in Seq(RecordLine), WriteNews(new) PROVE FALSE
  BY <1>2, <1>3, NewsWritten
<1>4. ~RereadAll
  BY <1>2, Repeated
<1>5. PICK n \in DOMAIN waiting : HandleRecordLine(n)
  BY <1>3, <1>4, RecordSteps DEF recordVars
<1>6. TakeOut(n) /\ rec' = Recorded(rec, lines[waiting[n]]) /\ truth' = truth
  BY <1>5 DEF HandleRecordLine
<1>7. Len(waiting) = 1 /\ n = 1
  <2>1. n \in 1 .. Len(waiting) /\ Len(waiting') = Len(waiting) - 1
    BY <1>2, <1>6, TakenOut
  <2> QED
    BY <1>2, <2>1
<1>8. PICK k : k = Len(lines)
  OBVIOUS
<1>9. waiting[n] = k /\ k \in 1 .. Len(lines) /\ lines[k].type = "Missions"
  <2>1. waiting[1] \in 1 .. Len(lines) /\ waiting[1] = Len(lines)
    BY <1>2, <1>7 DEF Last
  <2> QED
    BY <1>7, <1>8, <2>1 DEF Last
<1>10. /\ h \in [0 .. k -> MissionMap] /\ Turns(h[k - 1], lines[k], h[k]) /\ h[k] = truth.active
       /\ k - 1 \in 0 .. k
  BY <1>1, <1>8, <1>9 DEF MissionsHold, History
<1>11. Shows(rec', truth.active)
  <2>1. rec \in RecordState /\ Len(rec.history) <= HistoryLimit /\ lines[k] \in RecordLine
    BY <1>2, <1>9 DEF RecordTypeOK
  <2>2. h[k - 1] \in MissionMap
    BY <1>10
  <2> QED
    BY <1>6, <1>9, <1>10, <2>1, <2>2, Turned
<1>12. rec' \in RecordState
  BY RecordTypeStep DEF RecordTypeOK
<1>13. Held(truth.active) = Active'
  BY <1>6 DEF Held, Active
<1> QED
  BY <1>6, <1>11, <1>12, <1>13, ShowsRight, Zenon DEF MissionsRight

-----------------------------------------------------------------------------
(* CommanderRecord: the theorems.                                          *)

RecordInv ==
  /\ RecordTypeOK /\ InStep
  /\ MissionsInv /\ PledgeInv /\ RankInv /\ VoucherInv /\ VouchersConserved

\* combat_session.py and core/handlers.py: the inductive invariant of the commander's
\* record.
THEOREM RecordInductive == RecordSpec => []RecordInv
<1>1. RecordInit => RecordInv
  BY RecordTypeInit, InStepInit, MissionsInit, PledgeInit, RankInit, VoucherInit DEF RecordInv
<1>2. RecordInv /\ [RecordNext]_recordVars => RecordInv'
  BY RecordTypeStep, InStepStep, MissionsStep, PledgeStep, RankStep, VoucherStep DEF RecordInv
<1> QED
  BY <1>1, <1>2, PTL DEF RecordSpec

\* Whatever the journal says, and however often it is read again, the session state
\* holds values of the types its fields promise, and the history stays bounded.
THEOREM RecordIsTyped == RecordSpec => []RecordTypeOK
<1>1. RecordInv => RecordTypeOK
  BY DEF RecordInv
<1> QED
  BY <1>1, RecordInductive, PTL

\* combat_session.py: the missions and the pledge shown settle on the commander's, progress
\* is shown of the rank shown, and no voucher is lost or counted twice.
THEOREM RecordIsRight == RecordSpec => []RecordSettles
<1>1. RecordInv => RecordSettles
  BY MissionsKept, PledgeKept, RankKept DEF RecordInv, RecordSettles
<1> QED
  BY <1>1, RecordInductive, PTL

\* combat_session.py: whatever was overtaken or handled twice before, a Missions event that is
\* handled last leaves the right list.
THEOREM ListHeals == RecordSpec => SnapshotHeals
<1>1. RecordInv /\ [RecordNext]_recordVars =>
        [(/\ story = "missions" /\ waiting # <<>> /\ waiting' = <<>>
          /\ Last(waiting) = Len(lines) /\ Last(lines).type = "Missions") =>
            MissionsRight']_recordVars
  BY HealStep DEF RecordInv
<1> QED
  BY <1>1, RecordInductive, PTL DEF RecordSpec, SnapshotHeals

-----------------------------------------------------------------------------
(* MCSession drives the parts side by side: a behaviour of it is one of    *)
(* the part it is about.                                                   *)

LEMMA AboutContext ==
  SessionSpec /\ part = "context" => TravelSpec /\ [](part = "context")
<1>1. SessionInit /\ part = "context" => TravelInit
  BY DEF SessionInit
<1>2. part = "context" /\ [SessionNext]_sessionVars => [TravelNext]_travelVars
  <2>1. part = "context" /\ SessionNext => TravelNext
    BY DEF SessionNext
  <2>2. UNCHANGED sessionVars => UNCHANGED travelVars
    BY DEF sessionVars, shared, onlyCtx, vars, travelVars, galaxy
  <2> QED
    BY <2>1, <2>2
<1>3. part = "context" /\ [SessionNext]_sessionVars => (part = "context")'
  BY DEF SessionNext, sessionVars
<1> QED
  BY <1>1, <1>2, <1>3, PTL DEF SessionSpec, TravelSpec

LEMMA AboutRecord ==
  SessionSpec /\ part = "record" => RecordSpec /\ [](part = "record")
<1>1. SessionInit /\ part = "record" => RecordInit
  BY DEF SessionInit
<1>2. part = "record" /\ [SessionNext]_sessionVars => [RecordNext]_recordVars
  <2>1. part = "record" /\ SessionNext => RecordNext
    BY DEF SessionNext
  <2>2. UNCHANGED sessionVars => UNCHANGED recordVars
    BY DEF sessionVars, shared, onlyRec, vars, recordVars, career
  <2> QED
    BY <2>1, <2>2
<1>3. part = "record" /\ [SessionNext]_sessionVars => (part = "record")'
  BY DEF SessionNext, sessionVars
<1> QED
  BY <1>1, <1>2, <1>3, PTL DEF SessionSpec, RecordSpec

LEMMA AboutInterdiction ==
  SessionSpec /\ part = "interdiction" => CombatSpec /\ [](part = "interdiction")
<1>1. SessionInit /\ part = "interdiction" => CombatInit
  BY DEF SessionInit
<1>2. part = "interdiction" /\ [SessionNext]_sessionVars => [CombatNext]_combatVars
  <2>1. part = "interdiction" /\ SessionNext => CombatNext
    BY DEF SessionNext
  <2>2. UNCHANGED sessionVars => UNCHANGED combatVars
    BY DEF sessionVars, shared, onlyPvp, vars, combatVars, scene, workflow, database, observed
  <2> QED
    BY <2>1, <2>2
<1>3. part = "interdiction" /\ [SessionNext]_sessionVars => (part = "interdiction")'
  BY DEF SessionNext, sessionVars
<1> QED
  BY <1>1, <1>2, <1>3, PTL DEF SessionSpec, CombatSpec

LEMMA AboutShip ==
  SessionSpec /\ part = "ship" => ShipSpec /\ [](part = "ship")
<1>1. SessionInit /\ part = "ship" => ShipInit
  BY DEF SessionInit
<1>2. part = "ship" /\ [SessionNext]_sessionVars => [ShipNext]_shipVars
  <2>1. part = "ship" /\ SessionNext => ShipNext
    BY DEF SessionNext
  <2>2. UNCHANGED sessionVars => UNCHANGED shipVars
    BY DEF sessionVars, shared, onlyVessel, vars, shipVars, hangar
  <2> QED
    BY <2>1, <2>2
<1>3. part = "ship" /\ [SessionNext]_sessionVars => (part = "ship")'
  BY DEF SessionNext, sessionVars
<1> QED
  BY <1>1, <1>2, <1>3, PTL DEF SessionSpec, ShipSpec

LEMMA AboutAlerts ==
  SessionSpec /\ part = "alerts" => Spec /\ [](part = "alerts")
<1>1. SessionInit /\ part = "alerts" => Init
  BY DEF SessionInit
<1>2. part = "alerts" /\ [SessionNext]_sessionVars => [Next]_vars
  <2>1. part = "alerts" /\ SessionNext => Next
    BY DEF SessionNext
  <2>2. UNCHANGED sessionVars => UNCHANGED vars
    BY DEF sessionVars, vars
  <2> QED
    BY <2>1, <2>2
<1>3. part = "alerts" /\ [SessionNext]_sessionVars => (part = "alerts")'
  BY DEF SessionNext, sessionVars
<1> QED
  BY <1>1, <1>2, <1>3, PTL DEF SessionSpec, Spec

\* The run Session checks the parts together and loses nothing by it: whatever part a
\* behaviour is about, it is a behaviour of that part's own specification.
THEOREM PartsApart ==
  SessionSpec => /\ part = "context" => TravelSpec
                 /\ part = "record" => RecordSpec
                 /\ part = "interdiction" => CombatSpec
                 /\ part = "ship" => ShipSpec
                 /\ part = "alerts" => Spec
  BY AboutContext, AboutRecord, AboutInterdiction, AboutShip, AboutAlerts, PTL

\* Type correctness of every part, in whichever part a behaviour takes.
THEOREM EveryPartTyped == SessionSpec => []Typed
<1>1. SessionInit => \/ part = "context" \/ part = "record" \/ part = "interdiction"
                     \/ part = "ship" \/ part = "alerts"
  BY DEF SessionInit
<1>2. part = "context" /\ TravelTypeOK => Typed
  BY DEF Typed
<1>3. part = "record" /\ RecordTypeOK => Typed
  BY DEF Typed
<1>4. part = "interdiction" /\ CombatTypeOK => Typed
  BY DEF Typed
<1>5. part = "ship" /\ ShipTypeOK => Typed
  BY DEF Typed
<1>6. part = "alerts" /\ TypeOK => Typed
  BY DEF Typed
<1> QED
  BY <1>1, <1>2, <1>3, <1>4, <1>5, <1>6, AboutContext, AboutRecord, AboutInterdiction, AboutShip,
     AboutAlerts, TravelIsTyped, RecordIsTyped, CombatTyped, ShipIsTyped, TypeCorrect, PTL
     DEF SessionSpec
=============================================================================
