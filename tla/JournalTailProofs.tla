-------------------------- MODULE JournalTailProofs --------------------------
(***************************************************************************)
(* Theorems about JournalTail, for any set of journals, any length of the  *)
(* files and any interleaving of the loop, watchdog's thread and the game. *)
(***************************************************************************)
EXTENDS JournalTail, TLAPS

-----------------------------------------------------------------------------
(* The inductive invariant.                                                *)

\* How the watcher's phase, its current journal and the handler's fields hang
\* together.
Attachment ==
  /\ hCurrent <= current
  /\ posOf <= current
  /\ current = None => paused
  /\ ~paused => hCurrent = current
  /\ phase \in {"new", "catchup", "setTarget", "clearPause"} => paused
  /\ phase = "new" => current = None
  /\ phase = "catchup" => target \in Journals /\ current < target
  /\ phase = "setTarget" => target \in Journals /\ target = current
  /\ phase = "clearPause" => target \in Journals /\ target = current /\ hCurrent = current

\* A callback works on a journal the handler was pointed at, and until some
\* callback strays the cursor it reads from belongs to that journal.
Callback ==
  /\ tStage \in {"idle", "dead"} => tFile = None
  /\ tStage \in {"open", "read", "post"} => tFile \in Journals /\ tFile <= hCurrent
  /\ ~strayed /\ tStage \in {"open", "read"} => posOf = tFile
  /\ ~strayed /\ tStage = "read" => tFrom = hPos
  /\ ~strayed /\ tStage = "post" /\ posOf = tFile => 2 * tLast <= hPos

\* While tailing is live or about to be, the cursor is one of the current journal.
Cursor ==
  ~strayed /\ (~paused \/ phase \in {"setTarget", "clearPause"}) => posOf = current

\* Nothing of a journal that was not attached yet was dispatched.
Untouched ==
  \A j \in Journals, k \in Line :
    (phase \notin {"stopping", "stopped", "off"} /\ j > current /\ Undisturbed(j)
       /\ ~(phase = "catchup" /\ target = j))
      => handed[j][k] = 0

\* Nothing ahead of a cursor, or still in a batch, was dispatched.
Ahead ==
  \A j \in Journals, k \in Line :
    Undisturbed(j) =>
      /\ phase = "catchup" /\ target = j /\ 2 * k > catchPos => handed[j][k] = 0
      /\ posOf = j /\ 2 * k > hPos => handed[j][k] = 0
      /\ tStage = "post" /\ tFile = j /\ tNext <= tLast /\ k >= tNext => handed[j][k] = 0

\* A line behind a cursor was dispatched, waits in the batch, or is split; the
\* line a cursor stands inside of is split.
Behind ==
  \A j \in Journals, k \in Line :
    Undisturbed(j) =>
      /\ phase = "catchup" /\ target = j /\ 2 * k <= catchPos =>
           handed[j][k] > 0 \/ <<j, k>> \in split
      /\ phase = "catchup" /\ target = j /\ 2 * k - 1 = catchPos => <<j, k>> \in split
      /\ posOf = j /\ 2 * k <= hPos =>
           \/ handed[j][k] > 0 \/ <<j, k>> \in split
           \/ tStage = "post" /\ tFile = j /\ k \in tNext .. tLast
      /\ posOf = j /\ 2 * k - 1 = hPos => <<j, k>> \in split

IInv ==
  /\ TypeOK /\ Attachment /\ Callback /\ Cursor
  /\ Untouched /\ Ahead /\ Behind /\ AtMostOnce

-----------------------------------------------------------------------------
(* Facts about half lines.                                                 *)

\* A line counted by LinesUpTo lies before the position, and FirstLineFrom
\* returns a line that lies after it.
LEMMA HalfLines ==
  ASSUME NEW p \in Nat
  PROVE  /\ LinesUpTo(p) \in Nat /\ 2 * LinesUpTo(p) <= p
         /\ \A k \in Nat : 2 * k <= p => k <= LinesUpTo(p)
         /\ FirstLineFrom(p) \in Nat \ {0} /\ 2 * FirstLineFrom(p) > p
         /\ \A k \in Nat : 2 * k > p /\ 2 * k - 1 # p => k >= FirstLineFrom(p)
         /\ p % 2 = 0 => 2 * (LinesUpTo(p) + 1) = p + 2
  BY DEF LinesUpTo, FirstLineFrom

\* A line handed over keeps the table of hand-overs well typed.
LEMMA HandType ==
  ASSUME handed \in [Journals -> [Line -> 0 .. Often]],
         NEW j \in Journals, NEW k \in Line, Hand(j, k)
  PROVE  /\ handed' \in [Journals -> [Line -> 0 .. Often]]
         /\ handed'[j][k] > 0 /\ (handed[j][k] = 0 => handed'[j][k] = 1)
         /\ \A i \in Journals, m \in Line :
              i # j \/ m # k => handed'[i][m] = handed[i][m]
  BY DEF Hand, Often

LEMMA ConstantFacts ==
  /\ \A j \in Journals : j \in Nat /\ j > 0
  /\ MaxLines \in Nat
  BY JournalsAssumption, MaxLinesAssumption

\* The values that locals and cursors are reset to are well typed.
LEMMA Zeros ==
  /\ 0 \in Position
  /\ 1 \in 1 .. (MaxLines + 1)
  /\ 0 \in 0 .. MaxLines
  BY ConstantFacts DEF Position

-----------------------------------------------------------------------------
(* Type correctness.                                                       *)

LEMMA TypeInit == Init => TypeOK
<1> SUFFICES ASSUME Init PROVE TypeOK
  OBVIOUS
<1> USE ConstantFacts DEF Init, Position, Line, None, Often
<1>1. dir \subseteq Journals /\ notices \subseteq Journals /\ failed \subseteq Journals
      /\ unheard \subseteq Journals
  OBVIOUS
<1>2. len \in [Journals -> Position] /\ handed \in [Journals -> [Line -> 0 .. Often]]
  OBVIOUS
<1>3. phase \in Phases /\ tStage \in Stages
  BY DEF Phases, Stages
<1>4. catchPos \in Position /\ hPos \in Position /\ tFrom \in Position
      /\ tNext \in 1 .. (MaxLines + 1) /\ tLast \in 0 .. MaxLines
  OBVIOUS
<1>5. split \subseteq Journals \X Line
  OBVIOUS
<1>6. paused \in BOOLEAN /\ observing \in BOOLEAN /\ strayed \in BOOLEAN
  OBVIOUS
<1> QED
  BY <1>1, <1>2, <1>3, <1>4, <1>5, <1>6 DEF TypeOK
LEMMA TypeStep ==
  ASSUME TypeOK, Attachment, Callback, [Next]_vars
  PROVE  TypeOK'
<1> USE DEF TypeOK
<1>1. ASSUME NEW j \in Journals, SurfaceJournal(j) PROVE TypeOK'
  BY <1>1 DEF SurfaceJournal, files, watcher, handler, thread, observed
<1>2. ASSUME NEW j \in Journals, RemoveJournal(j) PROVE TypeOK'
  BY <1>2 DEF RemoveJournal, files, watcher, handler, thread, observed
<1>3. ASSUME NEW j \in Journals, GameWrites(j) PROVE TypeOK'
  BY ConstantFacts, <1>3 DEF GameWrites, files, watcher, handler, thread, observed, Position
<1>4. CASE StartWithoutDirectory
  BY <1>4 DEF StartWithoutDirectory, files, watcher, handler, thread, observed, Phases
<1>5. CASE StartIdle
  BY <1>5 DEF StartIdle, files, watcher, handler, thread, observed, Phases
<1>6. ASSUME NEW j \in Journals, StartWithJournal(j) PROVE TypeOK'
  BY Zeros, <1>6
     DEF StartWithJournal, Newest, files, watcher, handler, thread, observed, Phases
<1>7. ASSUME NEW j \in Journals, CheckForRollover(j) PROVE TypeOK'
  BY Zeros, <1>7
     DEF CheckForRollover, IsNewer, PausedForAttach, Newest, files, watcher, handler,
         thread, observed, Phases
<1>8. CASE CatchupLine
  <2>0. target \in Journals /\ catchPos \in Nat /\ catchPos % 2 = 0
        /\ catchPos + 2 <= len[target] /\ len[target] \in Nat /\ len[target] <= 2 * MaxLines
    BY <1>8, ConstantFacts DEF CatchupLine, Attachment, Position
  <2>1. LinesUpTo(catchPos) + 1 \in Line /\ catchPos + 2 \in Position
    <3>1. LinesUpTo(catchPos) \in Nat /\ 2 * (LinesUpTo(catchPos) + 1) = catchPos + 2
      BY <2>0, HalfLines
    <3>2. catchPos + 2 \in Position
      BY <2>0, ConstantFacts DEF Position
    <3>3. \A n \in Nat : 2 * (n + 1) <= 2 * MaxLines => n + 1 \in Line
      BY ConstantFacts DEF Line
    <3> QED
      BY <2>0, <3>1, <3>2, <3>3, ConstantFacts
  <2>2. handed' \in [Journals -> [Line -> 0 .. Often]]
    BY <1>8, <2>1, HandType DEF CatchupLine, Attachment
  <2> QED
    BY <1>8, <2>1, <2>2 DEF CatchupLine, files, watcher, handler, thread, observed
<1>9. CASE CatchupFragment
  <2>1. catchPos + 1 \in Position
    BY <1>9, ConstantFacts DEF CatchupFragment, Attachment, Position
  <2>2. split' \subseteq Journals \X Line
    BY <1>9 DEF CatchupFragment, Attachment, FragmentAt
  <2> QED
    BY <1>9, <2>1, <2>2 DEF CatchupFragment, files, watcher, handler, thread, observed
<1>10. CASE CatchupDone
  BY <1>10
     DEF CatchupDone, SetPosition, Attachment, files, watcher, handler, thread, observed,
         Phases
<1>11. CASE SetTarget
  BY <1>11 DEF SetTarget, files, watcher, handler, thread, observed, Phases
<1>12. CASE ClearPause
  BY Zeros, <1>12 DEF ClearPause, files, watcher, handler, thread, observed, Phases
<1>13. CASE StartObserver
  BY <1>13 DEF StartObserver, files, watcher, handler, thread, observed, Phases
<1>14. CASE JoinObserver
  BY <1>14 DEF JoinObserver, files, watcher, handler, thread, observed, Phases
<1>15. ASSUME NEW j \in Journals, OnModified(j) PROVE TypeOK'
  BY <1>15 DEF OnModified, files, watcher, handler, thread, observed, Stages
<1>16. ASSUME NEW j \in Journals, IgnoreModified(j) PROVE TypeOK'
  BY <1>16 DEF IgnoreModified, files, watcher, handler, thread, observed
<1>17. CASE OpenAndSeek
  BY <1>17 DEF OpenAndSeek, files, watcher, handler, thread, observed, Stages
<1>18. CASE OpenFails \/ ReadFails
  BY Zeros, <1>18
     DEF Callback, OpenFails, ReadFails, ReadError, ThreadTo, files, watcher, handler, thread,
         observed, Stages
<1>19. CASE ReadLines
  <2>1. tFile \in Journals /\ len[tFile] \in Position
    BY <1>19 DEF ReadLines, Callback
  <2>2. hPos' \in Position
    BY <1>19, <2>1 DEF ReadLines
  <2>3. tNext' \in 1 .. (MaxLines + 1) /\ tLast' \in 0 .. MaxLines
    BY <1>19, <2>1, ConstantFacts DEF ReadLines, Position, FirstLineFrom, LinesUpTo
  <2>4. split' \subseteq Journals \X Line
    BY <1>19, <2>1 DEF ReadLines, FragmentAt
  <2>5. tStage' \in Stages
    BY <1>19 DEF ReadLines, Stages
  <2> QED
    BY <1>19, <2>1, <2>2, <2>3, <2>4, <2>5
       DEF ReadLines, files, watcher, handler, thread, observed
<1>20. CASE PostLine
  <2>1. tFile \in Journals /\ tNext \in Line /\ tNext + 1 \in 1 .. (MaxLines + 1)
    BY <1>20, ConstantFacts DEF PostLine, Callback, Line
  <2>2. handed' \in [Journals -> [Line -> 0 .. Often]]
    BY <1>20, <2>1, HandType DEF PostLine
  <2> QED
    BY <1>20, <2>1, <2>2 DEF PostLine, files, watcher, handler, thread, observed
<1>21. CASE Return
  BY Zeros, <1>21 DEF Return, ThreadTo, files, watcher, handler, thread, observed, Stages
<1>22. CASE CatchupFails
  BY <1>22, Zeros
     DEF CatchupFails, SetPosition, Attachment, files, watcher, handler, thread, observed,
         Phases
<1>23. CASE CatchupRaises
  BY <1>23, Zeros
     DEF CatchupRaises, Attachment, files, watcher, handler, thread, observed, Phases
<1>24. CASE ReadRaises
  BY Zeros, <1>24
     DEF ReadRaises, ThreadTo, files, watcher, handler, thread, observed, Stages
<1>25. CASE Stop
  BY Zeros, <1>25 DEF Stop, files, watcher, handler, thread, observed, Phases
<1>26. CASE UNCHANGED vars
  BY <1>26 DEF vars, files, watcher, handler, thread, observed
<1> QED
  BY <1>1, <1>2, <1>3, <1>4, <1>5, <1>6, <1>7, <1>8, <1>9, <1>10, <1>11, <1>12, <1>13,
     <1>14, <1>15, <1>16, <1>17, <1>18, <1>19, <1>20, <1>21, <1>22, <1>23, <1>24, <1>25,
     <1>26
     DEF Next, Environment, WatcherStep, ThreadStep, Fault

LEMMA AttachmentStep ==
  ASSUME TypeOK, Attachment, Callback, [Next]_vars
  PROVE  Attachment'
<1> USE DEF TypeOK, Attachment, Callback, None
<1>1. ASSUME NEW j \in Journals, SurfaceJournal(j) PROVE Attachment'
  BY ConstantFacts, <1>1 DEF SurfaceJournal, files, watcher, handler, thread, observed
<1>2. ASSUME NEW j \in Journals, RemoveJournal(j) PROVE Attachment'
  BY ConstantFacts, <1>2 DEF RemoveJournal, files, watcher, handler, thread, observed
<1>3. ASSUME NEW j \in Journals, GameWrites(j) PROVE Attachment'
  BY ConstantFacts, <1>3 DEF GameWrites, files, watcher, handler, thread, observed
<1>4. CASE StartWithoutDirectory
  BY ConstantFacts, <1>4
     DEF StartWithoutDirectory, files, watcher, handler, thread, observed
<1>5. CASE StartIdle
  BY ConstantFacts, <1>5 DEF StartIdle, files, watcher, handler, thread, observed
<1>6. ASSUME NEW j \in Journals, StartWithJournal(j) PROVE Attachment'
  BY ConstantFacts, <1>6
     DEF StartWithJournal, Newest, files, watcher, handler, thread, observed
<1>7. ASSUME NEW j \in Journals, CheckForRollover(j) PROVE Attachment'
  BY ConstantFacts, <1>7
     DEF CheckForRollover, IsNewer, PausedForAttach, Newest, files, watcher, handler,
         thread, observed
<1>8. CASE CatchupLine
  BY ConstantFacts, <1>8 DEF CatchupLine, files, watcher, handler, thread, observed
<1>9. CASE CatchupFragment
  BY ConstantFacts, <1>9 DEF CatchupFragment, files, watcher, handler, thread, observed
<1>10. CASE CatchupDone
  BY ConstantFacts, <1>10
     DEF CatchupDone, SetPosition, files, watcher, handler, thread, observed
<1>11. CASE SetTarget
  BY ConstantFacts, <1>11 DEF SetTarget, files, watcher, handler, thread, observed
<1>12. CASE ClearPause
  BY ConstantFacts, <1>12 DEF ClearPause, files, watcher, handler, thread, observed
<1>13. CASE StartObserver
  BY ConstantFacts, <1>13 DEF StartObserver, files, watcher, handler, thread, observed
<1>14. CASE JoinObserver
  BY ConstantFacts, <1>14 DEF JoinObserver, files, watcher, handler, thread, observed
<1>15. ASSUME NEW j \in Journals, OnModified(j) PROVE Attachment'
  BY ConstantFacts, <1>15 DEF OnModified, files, watcher, handler, thread, observed
<1>16. ASSUME NEW j \in Journals, IgnoreModified(j) PROVE Attachment'
  BY ConstantFacts, <1>16 DEF IgnoreModified, files, watcher, handler, thread, observed
<1>17. CASE OpenAndSeek
  BY ConstantFacts, <1>17 DEF OpenAndSeek, files, watcher, handler, thread, observed
<1>18. CASE OpenFails \/ ReadFails
  BY ConstantFacts, <1>18
     DEF OpenFails, ReadFails, ReadError, ThreadTo, files, watcher, handler, thread,
         observed
<1>19. CASE ReadLines
  BY ConstantFacts, <1>19 DEF ReadLines, files, watcher, handler, thread, observed
<1>20. CASE PostLine
  BY ConstantFacts, <1>20 DEF PostLine, files, watcher, handler, thread, observed
<1>21. CASE Return
  BY ConstantFacts, <1>21 DEF Return, ThreadTo, files, watcher, handler, thread, observed
<1>22. CASE CatchupFails
  BY ConstantFacts, <1>22
     DEF CatchupFails, SetPosition, files, watcher, handler, thread, observed
<1>23. CASE CatchupRaises
  BY ConstantFacts, <1>23
     DEF CatchupRaises, files, watcher, handler, thread, observed
<1>24. CASE ReadRaises
  BY ConstantFacts, <1>24
     DEF ReadRaises, ThreadTo, files, watcher, handler, thread, observed
<1>25. CASE Stop
  BY ConstantFacts, <1>25 DEF Stop, files, watcher, handler, thread, observed
<1>26. CASE UNCHANGED vars
  BY <1>26 DEF vars, files, watcher, handler, thread, observed
<1> QED
  BY <1>1, <1>2, <1>3, <1>4, <1>5, <1>6, <1>7, <1>8, <1>9, <1>10, <1>11, <1>12, <1>13,
     <1>14, <1>15, <1>16, <1>17, <1>18, <1>19, <1>20, <1>21, <1>22, <1>23, <1>24, <1>25,
     <1>26
     DEF Next, Environment, WatcherStep, ThreadStep, Fault

LEMMA CallbackStep ==
  ASSUME TypeOK, Attachment, Callback, Cursor, [Next]_vars
  PROVE  Callback'
<1> USE DEF TypeOK, Attachment, Callback, Cursor, None
<1>1. ASSUME NEW j \in Journals, SurfaceJournal(j) PROVE Callback'
  BY ConstantFacts, <1>1 DEF SurfaceJournal, files, watcher, handler, thread, observed
<1>2. ASSUME NEW j \in Journals, RemoveJournal(j) PROVE Callback'
  BY ConstantFacts, <1>2 DEF RemoveJournal, files, watcher, handler, thread, observed
<1>3. ASSUME NEW j \in Journals, GameWrites(j) PROVE Callback'
  BY ConstantFacts, <1>3 DEF GameWrites, files, watcher, handler, thread, observed
<1>4. CASE StartWithoutDirectory
  BY ConstantFacts, <1>4
     DEF StartWithoutDirectory, files, watcher, handler, thread, observed
<1>5. CASE StartIdle
  BY ConstantFacts, <1>5 DEF StartIdle, files, watcher, handler, thread, observed
<1>6. ASSUME NEW j \in Journals, StartWithJournal(j) PROVE Callback'
  BY ConstantFacts, <1>6
     DEF StartWithJournal, Newest, files, watcher, handler, thread, observed
<1>7. ASSUME NEW j \in Journals, CheckForRollover(j) PROVE Callback'
  BY ConstantFacts, <1>7
     DEF CheckForRollover, IsNewer, PausedForAttach, Newest, files, watcher, handler,
         thread, observed
<1>8. CASE CatchupLine
  BY ConstantFacts, <1>8 DEF CatchupLine, files, watcher, handler, thread, observed
<1>9. CASE CatchupFragment
  BY ConstantFacts, <1>9 DEF CatchupFragment, files, watcher, handler, thread, observed
<1>10. CASE CatchupDone
  <2>1. ~strayed' => ~strayed /\ tStage \notin {"open", "read"}
    BY <1>10 DEF CatchupDone, SetPosition
  <2>2. tStage = "post" => tFile # target
    BY <1>10, ConstantFacts DEF CatchupDone
  <2> QED
    BY <1>10, <2>1, <2>2
       DEF CatchupDone, SetPosition, files, watcher, handler, thread, observed
<1>11. CASE SetTarget
  BY ConstantFacts, <1>11 DEF SetTarget, files, watcher, handler, thread, observed
<1>12. CASE ClearPause
  BY ConstantFacts, <1>12 DEF ClearPause, files, watcher, handler, thread, observed
<1>13. CASE StartObserver
  BY ConstantFacts, <1>13 DEF StartObserver, files, watcher, handler, thread, observed
<1>14. CASE JoinObserver
  BY ConstantFacts, <1>14 DEF JoinObserver, files, watcher, handler, thread, observed
<1>15. ASSUME NEW j \in Journals, OnModified(j) PROVE Callback'
  BY ConstantFacts, <1>15 DEF OnModified, files, watcher, handler, thread, observed
<1>16. ASSUME NEW j \in Journals, IgnoreModified(j) PROVE Callback'
  BY ConstantFacts, <1>16 DEF IgnoreModified, files, watcher, handler, thread, observed
<1>17. CASE OpenAndSeek
  BY ConstantFacts, <1>17 DEF OpenAndSeek, files, watcher, handler, thread, observed
<1>18. CASE OpenFails \/ ReadFails
  BY ConstantFacts, <1>18
     DEF OpenFails, ReadFails, ReadError, ThreadTo, files, watcher, handler, thread,
         observed
<1>19. CASE ReadLines
  <2>1. tFile \in Journals /\ len[tFile] \in Nat /\ tFrom \in Nat
    BY <1>19, ConstantFacts DEF ReadLines, Position
  <2>2. 2 * LinesUpTo(len[tFile]) <= len[tFile]
    BY <2>1, HalfLines
  <2>3. 2 * tLast' <= hPos'
    BY <1>19, <2>1, <2>2 DEF ReadLines
  <2> QED
    BY <1>19, <2>1, <2>3 DEF ReadLines, files, watcher, handler, thread, observed
<1>20. CASE PostLine
  BY ConstantFacts, <1>20 DEF PostLine, files, watcher, handler, thread, observed
<1>21. CASE Return
  BY ConstantFacts, <1>21 DEF Return, ThreadTo, files, watcher, handler, thread, observed
<1>22. CASE CatchupFails
  <2>1. ~strayed' => ~strayed /\ tStage \notin {"open", "read"}
    BY <1>22 DEF CatchupFails, SetPosition
  <2>2. tStage = "post" => tFile # target
    BY <1>22, ConstantFacts DEF CatchupFails
  <2> QED
    BY <1>22, <2>1, <2>2
       DEF CatchupFails, SetPosition, files, watcher, handler, thread, observed
<1>23. CASE CatchupRaises
  BY ConstantFacts, <1>23
     DEF CatchupRaises, files, watcher, handler, thread, observed
<1>24. CASE ReadRaises
  BY ConstantFacts, <1>24
     DEF ReadRaises, ThreadTo, files, watcher, handler, thread, observed
<1>25. CASE Stop
  BY ConstantFacts, <1>25 DEF Stop, files, watcher, handler, thread, observed
<1>26. CASE UNCHANGED vars
  BY <1>26 DEF vars, files, watcher, handler, thread, observed
<1> QED
  BY <1>1, <1>2, <1>3, <1>4, <1>5, <1>6, <1>7, <1>8, <1>9, <1>10, <1>11, <1>12, <1>13,
     <1>14, <1>15, <1>16, <1>17, <1>18, <1>19, <1>20, <1>21, <1>22, <1>23, <1>24, <1>25,
     <1>26
     DEF Next, Environment, WatcherStep, ThreadStep, Fault

LEMMA CursorStep ==
  ASSUME TypeOK, Attachment, Callback, Cursor, [Next]_vars
  PROVE  Cursor'
<1> USE DEF TypeOK, Attachment, Callback, Cursor, None
<1>1. ASSUME NEW j \in Journals, SurfaceJournal(j) PROVE Cursor'
  BY ConstantFacts, <1>1 DEF SurfaceJournal, files, watcher, handler, thread, observed
<1>2. ASSUME NEW j \in Journals, RemoveJournal(j) PROVE Cursor'
  BY ConstantFacts, <1>2 DEF RemoveJournal, files, watcher, handler, thread, observed
<1>3. ASSUME NEW j \in Journals, GameWrites(j) PROVE Cursor'
  BY ConstantFacts, <1>3 DEF GameWrites, files, watcher, handler, thread, observed
<1>4. CASE StartWithoutDirectory
  BY ConstantFacts, <1>4
     DEF StartWithoutDirectory, files, watcher, handler, thread, observed
<1>5. CASE StartIdle
  BY ConstantFacts, <1>5 DEF StartIdle, files, watcher, handler, thread, observed
<1>6. ASSUME NEW j \in Journals, StartWithJournal(j) PROVE Cursor'
  BY ConstantFacts, <1>6
     DEF StartWithJournal, Newest, files, watcher, handler, thread, observed
<1>7. ASSUME NEW j \in Journals, CheckForRollover(j) PROVE Cursor'
  BY ConstantFacts, <1>7
     DEF CheckForRollover, IsNewer, PausedForAttach, Newest, files, watcher, handler,
         thread, observed
<1>8. CASE CatchupLine
  BY ConstantFacts, <1>8 DEF CatchupLine, files, watcher, handler, thread, observed
<1>9. CASE CatchupFragment
  BY ConstantFacts, <1>9 DEF CatchupFragment, files, watcher, handler, thread, observed
<1>10. CASE CatchupDone
  BY ConstantFacts, <1>10
     DEF CatchupDone, SetPosition, files, watcher, handler, thread, observed
<1>11. CASE SetTarget
  BY ConstantFacts, <1>11 DEF SetTarget, files, watcher, handler, thread, observed
<1>12. CASE ClearPause
  BY ConstantFacts, <1>12 DEF ClearPause, files, watcher, handler, thread, observed
<1>13. CASE StartObserver
  BY ConstantFacts, <1>13 DEF StartObserver, files, watcher, handler, thread, observed
<1>14. CASE JoinObserver
  BY ConstantFacts, <1>14 DEF JoinObserver, files, watcher, handler, thread, observed
<1>15. ASSUME NEW j \in Journals, OnModified(j) PROVE Cursor'
  BY ConstantFacts, <1>15 DEF OnModified, files, watcher, handler, thread, observed
<1>16. ASSUME NEW j \in Journals, IgnoreModified(j) PROVE Cursor'
  BY ConstantFacts, <1>16 DEF IgnoreModified, files, watcher, handler, thread, observed
<1>17. CASE OpenAndSeek
  BY ConstantFacts, <1>17 DEF OpenAndSeek, files, watcher, handler, thread, observed
<1>18. CASE OpenFails \/ ReadFails
  BY ConstantFacts, <1>18
     DEF OpenFails, ReadFails, ReadError, ThreadTo, files, watcher, handler, thread,
         observed
<1>19. CASE ReadLines
  BY ConstantFacts, <1>19 DEF ReadLines, files, watcher, handler, thread, observed
<1>20. CASE PostLine
  BY ConstantFacts, <1>20 DEF PostLine, files, watcher, handler, thread, observed
<1>21. CASE Return
  BY ConstantFacts, <1>21 DEF Return, ThreadTo, files, watcher, handler, thread, observed
<1>22. CASE CatchupFails
  BY ConstantFacts, <1>22
     DEF CatchupFails, SetPosition, files, watcher, handler, thread, observed
<1>23. CASE CatchupRaises
  BY ConstantFacts, <1>23
     DEF CatchupRaises, files, watcher, handler, thread, observed
<1>24. CASE ReadRaises
  BY ConstantFacts, <1>24
     DEF ReadRaises, ThreadTo, files, watcher, handler, thread, observed
<1>25. CASE Stop
  BY ConstantFacts, <1>25 DEF Stop, files, watcher, handler, thread, observed
<1>26. CASE UNCHANGED vars
  BY <1>26 DEF vars, files, watcher, handler, thread, observed
<1> QED
  BY <1>1, <1>2, <1>3, <1>4, <1>5, <1>6, <1>7, <1>8, <1>9, <1>10, <1>11, <1>12, <1>13,
     <1>14, <1>15, <1>16, <1>17, <1>18, <1>19, <1>20, <1>21, <1>22, <1>23, <1>24, <1>25,
     <1>26
     DEF Next, Environment, WatcherStep, ThreadStep, Fault

\* The line a catch-up step hands over: the one that starts at catchPos.
LEMMA CatchupHands ==
  ASSUME TypeOK, Attachment, CatchupLine
  PROVE  \E k \in Line :
           /\ 2 * k = catchPos + 2
           /\ target \in Journals /\ catchPos \in Nat /\ Hand(target, k)
           /\ handed'[target][k] > 0 /\ (handed[target][k] = 0 => handed'[target][k] = 1)
           /\ \A i \in Journals, m \in Line :
                i # target \/ m # k => handed'[i][m] = handed[i][m]
<1> DEFINE n == LinesUpTo(catchPos) + 1
<1>1. target \in Journals /\ catchPos \in Nat /\ catchPos % 2 = 0
      /\ catchPos + 2 <= len[target] /\ len[target] \in Nat /\ len[target] <= 2 * MaxLines
  BY ConstantFacts DEF CatchupLine, Attachment, TypeOK, Position
<1>2. LinesUpTo(catchPos) \in Nat /\ 2 * n = catchPos + 2
  BY <1>1, HalfLines
<1>3. \A i \in Nat : 2 * (i + 1) <= 2 * MaxLines => i + 1 \in Line
  BY ConstantFacts DEF Line
<1>4. n \in Line
  BY <1>1, <1>2, <1>3, ConstantFacts
<1>5. /\ handed'[target][n] > 0 /\ (handed[target][n] = 0 => handed'[target][n] = 1)
      /\ \A i \in Journals, m \in Line :
           i # target \/ m # n => handed'[i][m] = handed[i][m]
  BY <1>1, <1>4, HandType DEF CatchupLine, TypeOK
<1>6. Hand(target, n)
  BY DEF CatchupLine
<1> QED
  BY <1>1, <1>2, <1>4, <1>5, <1>6

\* The line the callback bridges: the first of its batch.
LEMMA PostHands ==
  ASSUME TypeOK, Callback, PostLine
  PROVE  /\ tFile \in Journals /\ tNext \in Line /\ tLast \in Int
         /\ handed'[tFile][tNext] > 0 /\ (handed[tFile][tNext] = 0 => handed'[tFile][tNext] = 1)
         /\ \A i \in Journals, m \in Line :
              i # tFile \/ m # tNext => handed'[i][m] = handed[i][m]
<1>1. tFile \in Journals /\ tNext \in Line /\ tLast \in Int
  BY ConstantFacts DEF PostLine, Callback, TypeOK, Line
<1> QED
  BY <1>1, HandType DEF PostLine, TypeOK

LEMMA UntouchedStep ==
  ASSUME TypeOK, Attachment, Callback, Cursor, Untouched, Ahead, [Next]_vars
  PROVE  Untouched'
<1> USE DEF TypeOK, Attachment, Callback, Untouched, Undisturbed, None
<1>1. ASSUME NEW j \in Journals, SurfaceJournal(j) PROVE Untouched'
  BY ConstantFacts, <1>1 DEF SurfaceJournal, files, watcher, handler, thread, observed
<1>2. ASSUME NEW j \in Journals, RemoveJournal(j) PROVE Untouched'
  BY ConstantFacts, <1>2 DEF RemoveJournal, files, watcher, handler, thread, observed
<1>3. ASSUME NEW j \in Journals, GameWrites(j) PROVE Untouched'
  BY ConstantFacts, <1>3 DEF GameWrites, files, watcher, handler, thread, observed
<1>4. CASE StartWithoutDirectory
  BY ConstantFacts, <1>4
     DEF StartWithoutDirectory, files, watcher, handler, thread, observed
<1>5. CASE StartIdle
  BY ConstantFacts, <1>5 DEF StartIdle, files, watcher, handler, thread, observed
<1>6. ASSUME NEW j \in Journals, StartWithJournal(j) PROVE Untouched'
  BY ConstantFacts, <1>6
     DEF StartWithJournal, Newest, files, watcher, handler, thread, observed
<1>7. ASSUME NEW j \in Journals, CheckForRollover(j) PROVE Untouched'
  BY ConstantFacts, <1>7
     DEF CheckForRollover, IsNewer, PausedForAttach, Newest, files, watcher, handler,
         thread, observed
<1>8. CASE CatchupLine
  <2>1. PICK k \in Line :
          /\ 2 * k = catchPos + 2
          /\ target \in Journals /\ catchPos \in Nat
          /\ handed'[target][k] > 0 /\ (handed[target][k] = 0 => handed'[target][k] = 1)
          /\ \A i \in Journals, m \in Line :
               i # target \/ m # k => handed'[i][m] = handed[i][m]
    BY <1>8, CatchupHands
  <2> QED
    BY <1>8, <2>1, ConstantFacts DEF CatchupLine, files, watcher, handler, thread, observed
<1>9. CASE CatchupFragment
  BY ConstantFacts, <1>9 DEF CatchupFragment, files, watcher, handler, thread, observed
<1>10. CASE CatchupDone
  BY ConstantFacts, <1>10
     DEF CatchupDone, SetPosition, files, watcher, handler, thread, observed
<1>11. CASE SetTarget
  BY ConstantFacts, <1>11 DEF SetTarget, files, watcher, handler, thread, observed
<1>12. CASE ClearPause
  BY ConstantFacts, <1>12 DEF ClearPause, files, watcher, handler, thread, observed
<1>13. CASE StartObserver
  BY ConstantFacts, <1>13 DEF StartObserver, files, watcher, handler, thread, observed
<1>14. CASE JoinObserver
  BY ConstantFacts, <1>14 DEF JoinObserver, files, watcher, handler, thread, observed
<1>15. ASSUME NEW j \in Journals, OnModified(j) PROVE Untouched'
  BY ConstantFacts, <1>15 DEF OnModified, files, watcher, handler, thread, observed
<1>16. ASSUME NEW j \in Journals, IgnoreModified(j) PROVE Untouched'
  BY ConstantFacts, <1>16 DEF IgnoreModified, files, watcher, handler, thread, observed
<1>17. CASE OpenAndSeek
  BY ConstantFacts, <1>17 DEF OpenAndSeek, files, watcher, handler, thread, observed
<1>18. CASE OpenFails \/ ReadFails
  BY ConstantFacts, <1>18
     DEF OpenFails, ReadFails, ReadError, ThreadTo, files, watcher, handler, thread,
         observed
<1>19. CASE ReadLines
  BY ConstantFacts, <1>19 DEF ReadLines, files, watcher, handler, thread, observed
<1>20. CASE PostLine
  <2>1. tFile \in Journals /\ tFile <= current
    BY <1>20, ConstantFacts DEF PostLine
  <2>2. \A j \in Journals, k \in Line : j > current => handed'[j][k] = handed[j][k]
    BY <1>20, <2>1, PostHands, ConstantFacts
  <2> QED
    BY <1>20, <2>2 DEF PostLine, watcher, observed
<1>21. CASE Return
  BY ConstantFacts, <1>21 DEF Return, ThreadTo, files, watcher, handler, thread, observed
<1>22. CASE CatchupFails
  BY ConstantFacts, <1>22
     DEF CatchupFails, SetPosition, files, watcher, handler, thread, observed
<1>23. CASE CatchupRaises
  BY ConstantFacts, <1>23
     DEF CatchupRaises, files, watcher, handler, thread, observed
<1>24. CASE ReadRaises
  BY ConstantFacts, <1>24
     DEF ReadRaises, ThreadTo, files, watcher, handler, thread, observed
<1>25. CASE Stop
  BY ConstantFacts, <1>25 DEF Stop, files, watcher, handler, thread, observed
<1>26. CASE UNCHANGED vars
  BY <1>26 DEF vars, files, watcher, handler, thread, observed
<1> QED
  BY <1>1, <1>2, <1>3, <1>4, <1>5, <1>6, <1>7, <1>8, <1>9, <1>10, <1>11, <1>12, <1>13,
     <1>14, <1>15, <1>16, <1>17, <1>18, <1>19, <1>20, <1>21, <1>22, <1>23, <1>24, <1>25,
     <1>26
     DEF Next, Environment, WatcherStep, ThreadStep, Fault

LEMMA AheadStep ==
  ASSUME TypeOK, Attachment, Callback, Cursor, Untouched, Ahead, [Next]_vars
  PROVE  Ahead'
<1> USE DEF TypeOK, Attachment, Callback, Cursor, Untouched, Ahead, Undisturbed, None
<1>1. ASSUME NEW j \in Journals, SurfaceJournal(j) PROVE Ahead'
  BY ConstantFacts, <1>1 DEF SurfaceJournal, files, watcher, handler, thread, observed
<1>2. ASSUME NEW j \in Journals, RemoveJournal(j) PROVE Ahead'
  BY ConstantFacts, <1>2 DEF RemoveJournal, files, watcher, handler, thread, observed
<1>3. ASSUME NEW j \in Journals, GameWrites(j) PROVE Ahead'
  BY ConstantFacts, <1>3 DEF GameWrites, files, watcher, handler, thread, observed
<1>4. CASE StartWithoutDirectory
  BY ConstantFacts, <1>4
     DEF StartWithoutDirectory, files, watcher, handler, thread, observed
<1>5. CASE StartIdle
  BY ConstantFacts, <1>5 DEF StartIdle, files, watcher, handler, thread, observed
<1>6. ASSUME NEW j \in Journals, StartWithJournal(j) PROVE Ahead'
  BY ConstantFacts, <1>6
     DEF StartWithJournal, Newest, files, watcher, handler, thread, observed
<1>7. ASSUME NEW j \in Journals, CheckForRollover(j) PROVE Ahead'
  BY ConstantFacts, <1>7
     DEF CheckForRollover, IsNewer, PausedForAttach, Newest, files, watcher, handler,
         thread, observed
<1>8. CASE CatchupLine
  <2>1. PICK k \in Line :
          /\ 2 * k = catchPos + 2
          /\ target \in Journals /\ catchPos \in Nat
          /\ handed'[target][k] > 0 /\ (handed[target][k] = 0 => handed'[target][k] = 1)
          /\ \A i \in Journals, m \in Line :
               i # target \/ m # k => handed'[i][m] = handed[i][m]
    BY <1>8, CatchupHands
  <2>2. posOf # target /\ (tStage = "post" => tFile # target)
    BY <1>8, <2>1, ConstantFacts DEF CatchupLine
  <2>3. \A m \in Line : 2 * m > catchPos + 2 => m # k /\ 2 * m > catchPos
    BY <2>1, ConstantFacts DEF Line
  <2> QED
    BY <1>8, <2>1, <2>2, <2>3 DEF CatchupLine, files, watcher, handler, thread, observed
<1>9. CASE CatchupFragment
  <2>1. \A m \in Line : 2 * m > catchPos + 1 => 2 * m > catchPos
    BY ConstantFacts DEF Line, Position
  <2> QED
    BY <1>9, <2>1 DEF CatchupFragment, files, watcher, handler, thread, observed
<1>10. CASE CatchupDone
  BY ConstantFacts, <1>10
     DEF CatchupDone, SetPosition, files, watcher, handler, thread, observed
<1>11. CASE SetTarget
  BY ConstantFacts, <1>11 DEF SetTarget, files, watcher, handler, thread, observed
<1>12. CASE ClearPause
  BY ConstantFacts, <1>12 DEF ClearPause, files, watcher, handler, thread, observed
<1>13. CASE StartObserver
  BY ConstantFacts, <1>13 DEF StartObserver, files, watcher, handler, thread, observed
<1>14. CASE JoinObserver
  BY ConstantFacts, <1>14 DEF JoinObserver, files, watcher, handler, thread, observed
<1>15. ASSUME NEW j \in Journals, OnModified(j) PROVE Ahead'
  BY ConstantFacts, <1>15 DEF OnModified, files, watcher, handler, thread, observed
<1>16. ASSUME NEW j \in Journals, IgnoreModified(j) PROVE Ahead'
  BY ConstantFacts, <1>16 DEF IgnoreModified, files, watcher, handler, thread, observed
<1>17. CASE OpenAndSeek
  BY ConstantFacts, <1>17 DEF OpenAndSeek, files, watcher, handler, thread, observed
<1>18. CASE OpenFails \/ ReadFails
  BY ConstantFacts, <1>18
     DEF OpenFails, ReadFails, ReadError, ThreadTo, files, watcher, handler, thread,
         observed
<1>19. CASE ReadLines
  <2>1. tFile \in Journals /\ len[tFile] \in Nat /\ tFrom \in Nat /\ hPos' \in Nat /\ hPos \in Nat
    BY <1>19, ConstantFacts DEF ReadLines, Position
  <2>2. hPos' >= tFrom
    BY <1>19, <2>1 DEF ReadLines
  <2>3. \A m \in Line : tNext' <= tLast' /\ m >= tNext' => 2 * m > tFrom
    <3> SUFFICES ASSUME NEW m \in Line, tNext' <= tLast', m >= tNext' PROVE 2 * m > tFrom
      OBVIOUS
    <3>1. m \in Nat /\ m >= 1
      BY ConstantFacts DEF Line
    <3>2. tNext' = FirstLineFrom(tFrom)
      BY <1>19, <3>1 DEF ReadLines
    <3>3. FirstLineFrom(tFrom) \in Nat /\ 2 * FirstLineFrom(tFrom) > tFrom
      BY <2>1, HalfLines
    <3> QED
      BY <2>1, <3>1, <3>2, <3>3
  <2>4. ASSUME ~strayed PROVE posOf = tFile /\ tFrom = hPos
    BY <1>19, <2>4 DEF ReadLines
  <2>5. \A m \in Line : 2 * m > hPos' => 2 * m > tFrom
    BY <2>1, <2>2, ConstantFacts DEF Line
  <2> QED
    BY <1>19, <2>1, <2>3, <2>4, <2>5
       DEF ReadLines, files, watcher, handler, thread, observed
<1>20. CASE PostLine
  <2>1. tFile \in Journals /\ (phase = "catchup" => tFile # target)
    BY <1>20, ConstantFacts DEF PostLine
  <2>2. ~strayed /\ posOf = tFile => 2 * tNext <= hPos
    BY <1>20, ConstantFacts DEF PostLine, Position
  <2>3. \A m \in Line : 2 * m > hPos /\ 2 * tNext <= hPos => m # tNext
    BY <1>20, ConstantFacts DEF Line, Position
  <2>4. \A m \in Line : m >= tNext + 1 => m # tNext /\ m >= tNext
    BY ConstantFacts DEF Line
  <2> QED
    BY <1>20, <2>1, <2>2, <2>3, <2>4, PostHands
       DEF PostLine, files, watcher, handler, thread, observed
<1>21. CASE Return
  BY ConstantFacts, <1>21 DEF Return, ThreadTo, files, watcher, handler, thread, observed
<1>22. CASE CatchupFails
  BY ConstantFacts, <1>22
     DEF CatchupFails, SetPosition, files, watcher, handler, thread, observed
<1>23. CASE CatchupRaises
  BY ConstantFacts, <1>23
     DEF CatchupRaises, files, watcher, handler, thread, observed
<1>24. CASE ReadRaises
  BY ConstantFacts, <1>24
     DEF ReadRaises, ThreadTo, files, watcher, handler, thread, observed
<1>25. CASE Stop
  BY ConstantFacts, <1>25 DEF Stop, files, watcher, handler, thread, observed
<1>26. CASE UNCHANGED vars
  BY <1>26 DEF vars, files, watcher, handler, thread, observed
<1> QED
  BY <1>1, <1>2, <1>3, <1>4, <1>5, <1>6, <1>7, <1>8, <1>9, <1>10, <1>11, <1>12, <1>13,
     <1>14, <1>15, <1>16, <1>17, <1>18, <1>19, <1>20, <1>21, <1>22, <1>23, <1>24, <1>25,
     <1>26
     DEF Next, Environment, WatcherStep, ThreadStep, Fault

LEMMA AtMostOnceStep ==
  ASSUME TypeOK, Attachment, Callback, Cursor, Untouched, Ahead, AtMostOnce, [Next]_vars
  PROVE  AtMostOnce'
<1> USE DEF TypeOK, Attachment, Callback, Ahead, AtMostOnce, Undisturbed, None
<1>1. ASSUME NEW j \in Journals, SurfaceJournal(j) PROVE AtMostOnce'
  BY ConstantFacts, <1>1 DEF SurfaceJournal, files, watcher, handler, thread, observed
<1>2. ASSUME NEW j \in Journals, RemoveJournal(j) PROVE AtMostOnce'
  BY ConstantFacts, <1>2 DEF RemoveJournal, files, watcher, handler, thread, observed
<1>3. ASSUME NEW j \in Journals, GameWrites(j) PROVE AtMostOnce'
  BY ConstantFacts, <1>3 DEF GameWrites, files, watcher, handler, thread, observed
<1>4. CASE StartWithoutDirectory
  BY ConstantFacts, <1>4
     DEF StartWithoutDirectory, files, watcher, handler, thread, observed
<1>5. CASE StartIdle
  BY ConstantFacts, <1>5 DEF StartIdle, files, watcher, handler, thread, observed
<1>6. ASSUME NEW j \in Journals, StartWithJournal(j) PROVE AtMostOnce'
  BY ConstantFacts, <1>6
     DEF StartWithJournal, Newest, files, watcher, handler, thread, observed
<1>7. ASSUME NEW j \in Journals, CheckForRollover(j) PROVE AtMostOnce'
  BY ConstantFacts, <1>7
     DEF CheckForRollover, IsNewer, PausedForAttach, Newest, files, watcher, handler,
         thread, observed
<1>8. CASE CatchupLine
  <2>1. PICK k \in Line :
          /\ 2 * k = catchPos + 2
          /\ target \in Journals /\ catchPos \in Nat
          /\ handed'[target][k] > 0 /\ (handed[target][k] = 0 => handed'[target][k] = 1)
          /\ \A i \in Journals, m \in Line :
               i # target \/ m # k => handed'[i][m] = handed[i][m]
    BY <1>8, CatchupHands
  <2>2. 2 * k > catchPos
    BY <2>1, ConstantFacts DEF Line
  <2> QED
    BY <1>8, <2>1, <2>2 DEF CatchupLine, files, watcher, handler, thread, observed
<1>9. CASE CatchupFragment
  BY ConstantFacts, <1>9 DEF CatchupFragment, files, watcher, handler, thread, observed
<1>10. CASE CatchupDone
  BY ConstantFacts, <1>10
     DEF CatchupDone, SetPosition, files, watcher, handler, thread, observed
<1>11. CASE SetTarget
  BY ConstantFacts, <1>11 DEF SetTarget, files, watcher, handler, thread, observed
<1>12. CASE ClearPause
  BY ConstantFacts, <1>12 DEF ClearPause, files, watcher, handler, thread, observed
<1>13. CASE StartObserver
  BY ConstantFacts, <1>13 DEF StartObserver, files, watcher, handler, thread, observed
<1>14. CASE JoinObserver
  BY ConstantFacts, <1>14 DEF JoinObserver, files, watcher, handler, thread, observed
<1>15. ASSUME NEW j \in Journals, OnModified(j) PROVE AtMostOnce'
  BY ConstantFacts, <1>15 DEF OnModified, files, watcher, handler, thread, observed
<1>16. ASSUME NEW j \in Journals, IgnoreModified(j) PROVE AtMostOnce'
  BY ConstantFacts, <1>16 DEF IgnoreModified, files, watcher, handler, thread, observed
<1>17. CASE OpenAndSeek
  BY ConstantFacts, <1>17 DEF OpenAndSeek, files, watcher, handler, thread, observed
<1>18. CASE OpenFails \/ ReadFails
  BY ConstantFacts, <1>18
     DEF OpenFails, ReadFails, ReadError, ThreadTo, files, watcher, handler, thread,
         observed
<1>19. CASE ReadLines
  BY ConstantFacts, <1>19 DEF ReadLines, files, watcher, handler, thread, observed
<1>20. CASE PostLine
  <2>1. tNext >= tNext /\ tNext <= tLast
    BY <1>20, ConstantFacts DEF PostLine
  <2> QED
    BY <1>20, <2>1, PostHands DEF PostLine, files, watcher, handler, thread, observed
<1>21. CASE Return
  BY ConstantFacts, <1>21 DEF Return, ThreadTo, files, watcher, handler, thread, observed
<1>22. CASE CatchupFails
  BY ConstantFacts, <1>22
     DEF CatchupFails, SetPosition, files, watcher, handler, thread, observed
<1>23. CASE CatchupRaises
  BY ConstantFacts, <1>23
     DEF CatchupRaises, files, watcher, handler, thread, observed
<1>24. CASE ReadRaises
  BY ConstantFacts, <1>24
     DEF ReadRaises, ThreadTo, files, watcher, handler, thread, observed
<1>25. CASE Stop
  BY ConstantFacts, <1>25 DEF Stop, files, watcher, handler, thread, observed
<1>26. CASE UNCHANGED vars
  BY <1>26 DEF vars, files, watcher, handler, thread, observed
<1> QED
  BY <1>1, <1>2, <1>3, <1>4, <1>5, <1>6, <1>7, <1>8, <1>9, <1>10, <1>11, <1>12, <1>13,
     <1>14, <1>15, <1>16, <1>17, <1>18, <1>19, <1>20, <1>21, <1>22, <1>23, <1>24, <1>25,
     <1>26
     DEF Next, Environment, WatcherStep, ThreadStep, Fault

LEMMA BehindStep ==
  ASSUME TypeOK, Attachment, Callback, Cursor, Untouched, Ahead, Behind, [Next]_vars
  PROVE  Behind'
<1> USE DEF TypeOK, Attachment, Callback, Cursor, Behind, Undisturbed, None
<1>1. ASSUME NEW j \in Journals, SurfaceJournal(j) PROVE Behind'
  BY ConstantFacts, <1>1 DEF SurfaceJournal, files, watcher, handler, thread, observed
<1>2. ASSUME NEW j \in Journals, RemoveJournal(j) PROVE Behind'
  BY ConstantFacts, <1>2 DEF RemoveJournal, files, watcher, handler, thread, observed
<1>3. ASSUME NEW j \in Journals, GameWrites(j) PROVE Behind'
  BY ConstantFacts, <1>3 DEF GameWrites, files, watcher, handler, thread, observed
<1>4. CASE StartWithoutDirectory
  BY ConstantFacts, <1>4
     DEF StartWithoutDirectory, files, watcher, handler, thread, observed
<1>5. CASE StartIdle
  BY ConstantFacts, <1>5 DEF StartIdle, files, watcher, handler, thread, observed
<1>6. ASSUME NEW j \in Journals, StartWithJournal(j) PROVE Behind'
  <2>1. \A m \in Line : ~(2 * m <= 0) /\ 2 * m - 1 # 0
    BY ConstantFacts DEF Line
  <2> QED
    BY <1>6, <2>1 DEF StartWithJournal, Newest, files, watcher, handler, thread, observed
<1>7. ASSUME NEW j \in Journals, CheckForRollover(j) PROVE Behind'
  <2>1. \A m \in Line : ~(2 * m <= 0) /\ 2 * m - 1 # 0
    BY ConstantFacts DEF Line
  <2> QED
    BY <1>7, <2>1
       DEF CheckForRollover, IsNewer, PausedForAttach, Newest, files, watcher, handler,
           thread, observed
<1>8. CASE CatchupLine
  <2>1. PICK k \in Line :
          /\ 2 * k = catchPos + 2
          /\ target \in Journals /\ catchPos \in Nat
          /\ handed'[target][k] > 0 /\ (handed[target][k] = 0 => handed'[target][k] = 1)
          /\ \A i \in Journals, m \in Line :
               i # target \/ m # k => handed'[i][m] = handed[i][m]
    BY <1>8, CatchupHands
  <2>2. posOf # target /\ (tStage = "post" => tFile # target)
    BY <1>8, <2>1, ConstantFacts DEF CatchupLine
  <2>3. \A m \in Line : 2 * m <= catchPos + 2 /\ m # k => 2 * m <= catchPos
    BY <2>1, ConstantFacts DEF Line
  <2>4. \A m \in Line : 2 * m - 1 # catchPos + 2
    <3>1. k \in Int /\ \A m \in Line : m \in Int
      BY ConstantFacts DEF Line
    <3>2. \A m \in Int : 2 * m - 1 # 2 * k
      BY <3>1
    <3> QED
      BY <2>1, <3>1, <3>2
  <2>5. handed[target][k] \in Nat
    BY <2>1
  <2> QED
    BY <1>8, <2>1, <2>2, <2>3, <2>4, <2>5
       DEF CatchupLine, files, watcher, handler, thread, observed
<1>9. CASE CatchupFragment
  <2>1. target \in Journals /\ catchPos \in Nat
    BY <1>9, ConstantFacts DEF CatchupFragment, Position
  <2>2. \A m \in Line : 2 * m <= catchPos + 1 => 2 * m <= catchPos \/ 2 * m - 1 = catchPos
    BY <2>1, ConstantFacts DEF Line
  <2>3. \A m \in Line : 2 * m - 1 = catchPos + 1 => <<target, m>> \in split'
    BY <1>9, <2>1 DEF CatchupFragment, FragmentAt
  <2>4. split \subseteq split'
    BY <1>9 DEF CatchupFragment
  <2> QED
    BY <1>9, <2>1, <2>2, <2>3, <2>4
       DEF CatchupFragment, files, watcher, handler, thread, observed
<1>10. CASE CatchupDone
  BY ConstantFacts, <1>10
     DEF CatchupDone, SetPosition, files, watcher, handler, thread, observed
<1>11. CASE SetTarget
  BY ConstantFacts, <1>11 DEF SetTarget, files, watcher, handler, thread, observed
<1>12. CASE ClearPause
  BY ConstantFacts, <1>12 DEF ClearPause, files, watcher, handler, thread, observed
<1>13. CASE StartObserver
  BY ConstantFacts, <1>13 DEF StartObserver, files, watcher, handler, thread, observed
<1>14. CASE JoinObserver
  BY ConstantFacts, <1>14 DEF JoinObserver, files, watcher, handler, thread, observed
<1>15. ASSUME NEW j \in Journals, OnModified(j) PROVE Behind'
  BY ConstantFacts, <1>15 DEF OnModified, files, watcher, handler, thread, observed
<1>16. ASSUME NEW j \in Journals, IgnoreModified(j) PROVE Behind'
  BY ConstantFacts, <1>16 DEF IgnoreModified, files, watcher, handler, thread, observed
<1>17. CASE OpenAndSeek
  BY ConstantFacts, <1>17 DEF OpenAndSeek, files, watcher, handler, thread, observed
<1>18. CASE OpenFails \/ ReadFails
  BY ConstantFacts, <1>18
     DEF OpenFails, ReadFails, ReadError, ThreadTo, files, watcher, handler, thread,
         observed
<1>19. CASE ReadLines
  <2>1. tFile \in Journals /\ len[tFile] \in Nat /\ tFrom \in Nat /\ hPos \in Nat
    BY <1>19, ConstantFacts DEF ReadLines, Position
  <2>2. split \subseteq split' /\ posOf' = tFile /\ handed' = handed
    BY <1>19 DEF ReadLines
  <2>3. \A m \in Line : 2 * m <= hPos' /\ ~(2 * m <= tFrom) /\ 2 * m - 1 # tFrom
                          => m \in tNext' .. tLast'
    <3> SUFFICES ASSUME NEW m \in Line, 2 * m <= hPos', ~(2 * m <= tFrom), 2 * m - 1 # tFrom
                 PROVE  m \in tNext' .. tLast'
      OBVIOUS
    <3>1. m \in Nat
      BY ConstantFacts DEF Line
    <3>6. hPos' = (IF tFrom > len[tFile] THEN tFrom ELSE len[tFile])
      BY <1>19 DEF ReadLines
    <3> HIDE DEF TypeOK, Attachment, Callback, Cursor, Behind, Undisturbed
    <3>2. tFrom < len[tFile] /\ 2 * m <= len[tFile]
      BY <2>1, <3>1, <3>6
    <3>3. tNext' = FirstLineFrom(tFrom) /\ tLast' = LinesUpTo(len[tFile])
      BY <1>19, <2>1, <3>2 DEF ReadLines
    <3>4. LinesUpTo(len[tFile]) \in Nat /\ m <= LinesUpTo(len[tFile])
      BY <2>1, <3>1, <3>2, HalfLines
    <3>5. FirstLineFrom(tFrom) \in Nat /\ m >= FirstLineFrom(tFrom)
      <4>1. 2 * m > tFrom
        BY <2>1, <3>1
      <4> QED
        BY <2>1, <3>1, <4>1, HalfLines
    <3> QED
      BY <3>1, <3>3, <3>4, <3>5
  <2>4. \A m \in Line : 2 * m - 1 = hPos' => 2 * m - 1 = tFrom \/ <<tFile, m>> \in split'
    <3> SUFFICES ASSUME NEW m \in Line, 2 * m - 1 = hPos', 2 * m - 1 # tFrom
                 PROVE  <<tFile, m>> \in split'
      OBVIOUS
    <3>0. hPos' = (IF tFrom > len[tFile] THEN tFrom ELSE len[tFile]) /\ m \in Nat
      BY <1>19, ConstantFacts DEF ReadLines, Line
    <3> HIDE DEF TypeOK, Attachment, Callback, Cursor, Behind, Undisturbed
    <3>1. tFrom < len[tFile] /\ 2 * m - 1 = len[tFile]
      BY <2>1, <3>0
    <3>2. <<tFile, m>> \in FragmentAt(tFile, tFrom, len[tFile])
      BY <3>1 DEF FragmentAt
    <3> QED
      BY <1>19, <3>2 DEF ReadLines
  <2>5. ASSUME ~strayed PROVE posOf = tFile /\ tFrom = hPos
    BY <1>19, <2>5 DEF ReadLines
  <2>6. phase = "catchup" => target # tFile
    BY <1>19, <2>1, ConstantFacts DEF ReadLines
  <2> QED
    BY <1>19, <2>1, <2>2, <2>3, <2>4, <2>5, <2>6
       DEF ReadLines, files, watcher, handler, thread, observed
<1>20. CASE PostLine
  <2>1. tFile \in Journals /\ (phase = "catchup" => tFile # target)
    BY <1>20, ConstantFacts DEF PostLine
  <2>2. \A m \in Line : m \in tNext .. tLast => m = tNext \/ m \in (tNext + 1) .. tLast
    BY ConstantFacts DEF Line
  <2>3. handed[tFile][tNext] \in Nat
    BY <2>1, <1>20, PostHands
  <2> QED
    BY <1>20, <2>1, <2>2, <2>3, PostHands
       DEF PostLine, files, watcher, handler, thread, observed
<1>21. CASE Return
  BY ConstantFacts, <1>21 DEF Return, ThreadTo, files, watcher, handler, thread, observed
<1>22. CASE CatchupFails
  BY ConstantFacts, <1>22
     DEF CatchupFails, SetPosition, files, watcher, handler, thread, observed
<1>23. CASE CatchupRaises
  BY ConstantFacts, <1>23
     DEF CatchupRaises, files, watcher, handler, thread, observed
<1>24. CASE ReadRaises
  BY ConstantFacts, <1>24
     DEF ReadRaises, ThreadTo, files, watcher, handler, thread, observed
<1>25. CASE Stop
  BY ConstantFacts, <1>25 DEF Stop, files, watcher, handler, thread, observed
<1>26. CASE UNCHANGED vars
  BY <1>26 DEF vars, files, watcher, handler, thread, observed
<1> QED
  BY <1>1, <1>2, <1>3, <1>4, <1>5, <1>6, <1>7, <1>8, <1>9, <1>10, <1>11, <1>12, <1>13,
     <1>14, <1>15, <1>16, <1>17, <1>18, <1>19, <1>20, <1>21, <1>22, <1>23, <1>24, <1>25,
     <1>26
     DEF Next, Environment, WatcherStep, ThreadStep, Fault

-----------------------------------------------------------------------------
(* Theorems.                                                               *)

LEMMA IInvInit == Init => IInv
<1> SUFFICES ASSUME Init PROVE IInv
  OBVIOUS
<1>1. TypeOK
  BY TypeInit
<1>2. Attachment /\ Callback /\ Cursor
  BY ConstantFacts DEF Init, Attachment, Callback, Cursor, None
<1>3. \A j \in Journals, k \in Line : handed[j][k] = 0
  BY DEF Init
<1>4. Untouched /\ Ahead /\ AtMostOnce
  BY <1>3 DEF Untouched, Ahead, AtMostOnce
<1>5. Behind
  BY ConstantFacts DEF Init, Behind, None
<1> QED
  BY <1>1, <1>2, <1>4, <1>5 DEF IInv

LEMMA IInvStep == IInv /\ [Next]_vars => IInv'
<1> SUFFICES ASSUME IInv, [Next]_vars PROVE IInv'
  OBVIOUS
<1> USE DEF IInv
<1>1. TypeOK'
  BY TypeStep
<1>2. Attachment' /\ Callback' /\ Cursor'
  BY AttachmentStep, CallbackStep, CursorStep
<1>3. Untouched' /\ Ahead' /\ Behind' /\ AtMostOnce'
  BY UntouchedStep, AheadStep, BehindStep, AtMostOnceStep
<1> QED
  BY <1>1, <1>2, <1>3

\* The strengthened invariant holds of the specification.
THEOREM Inductive == Spec => []IInv
  BY IInvInit, IInvStep, PTL DEF Spec

\* Every variable keeps its type, whatever the journals and their lengths are.
THEOREM TypeCorrect == Spec => []TypeOK
<1>1. IInv => TypeOK
  BY DEF IInv
<1> QED
  BY <1>1, Inductive, PTL

\* The hand-over from catch-up to live tailing dispatches no line twice.
THEOREM DispatchedAtMostOnce == Spec => []AtMostOnce
<1>1. IInv => AtMostOnce
  BY DEF IInv
<1> QED
  BY <1>1, Inductive, PTL

\* The live cursor is a position of the journal being tailed.
THEOREM LiveCursor == Spec => []CursorOfTarget
<1>1. IInv => CursorOfTarget
  BY DEF IInv, Cursor, Attachment, CursorOfTarget
<1> QED
  BY <1>1, Inductive, PTL

\* The live tailer leaves no complete line behind.
THEOREM NoHoles == Spec => []NoLineSkipped
<1>1. IInv => NoLineSkipped
  <2> SUFFICES ASSUME IInv, NEW k \in Line, ~paused, Undisturbed(hCurrent), 2 * k <= hPos,
                      ~(\/ handed[hCurrent][k] > 0
                        \/ tStage = "post" /\ tFile = hCurrent /\ k \in tNext .. tLast)
               PROVE  <<hCurrent, k>> \in split
    BY DEF NoLineSkipped
  <2>1. posOf = hCurrent /\ hCurrent \in Journals
    BY DEF IInv, Cursor, Attachment, TypeOK, Undisturbed
  <2> QED
    BY <2>1 DEF IInv, Behind
<1> QED
  BY <1>1, Inductive, PTL

\* Only the catch-up read and the callback hand lines over.
LEMMA OnlyTwoHand ==
  ASSUME Next PROVE CatchupLine \/ PostLine \/ UNCHANGED handed
  BY DEF Next, Environment, WatcherStep, ThreadStep, Fault, Stop, CatchupFails,
     CatchupRaises,
     ReadRaises, ThreadTo, SurfaceJournal, RemoveJournal, GameWrites, StartWithoutDirectory,
     StartIdle, StartWithJournal, CheckForRollover, CatchupFragment, CatchupDone, SetTarget,
     ClearPause, StartObserver, JoinObserver, OnModified, IgnoreModified, OpenAndSeek,
     OpenFails, ReadFails, ReadError, ReadLines, Return

\* A disturbed journal stays disturbed.
LEMMA StrayedGrows ==
  ASSUME Next, NEW j \in Journals, Undisturbed(j)' PROVE Undisturbed(j)
<1>1. failed \subseteq failed'
  BY DEF Next, Environment, WatcherStep, ThreadStep, Fault, Stop, CatchupFails,
     CatchupRaises, ReadRaises, ThreadTo, SurfaceJournal, RemoveJournal, GameWrites,
     StartWithoutDirectory, StartIdle, StartWithJournal, CheckForRollover, CatchupLine,
     CatchupFragment, CatchupDone, SetTarget, ClearPause, StartObserver, JoinObserver,
     OnModified, IgnoreModified, OpenAndSeek, OpenFails, ReadFails, ReadError, ReadLines, PostLine, Return,
     observed
<1>2. CASE CatchupDone \/ CatchupFails
  BY <1>1, <1>2 DEF CatchupDone, CatchupFails, SetPosition, Undisturbed
<1>3. CASE UNCHANGED strayed
  BY <1>1, <1>3 DEF Undisturbed
<1> QED
  BY <1>2, <1>3 DEF Next, Environment, WatcherStep, ThreadStep, Fault, Stop,
     CatchupRaises, ReadRaises, ThreadTo, SurfaceJournal, RemoveJournal, GameWrites,
     StartWithoutDirectory, StartIdle, StartWithJournal, CheckForRollover, CatchupLine,
     CatchupFragment, SetTarget, ClearPause, StartObserver, JoinObserver, OnModified,
     IgnoreModified, OpenAndSeek, OpenFails, ReadFails, ReadError, ReadLines, PostLine, Return, observed

\* Lines of one journal reach the dispatcher in file order.
THEOREM FileOrder == Spec => InOrder
<1> DEFINE A == \A j \in Journals, k \in Line :
                  Undisturbed(j)' /\ handed'[j][k] > handed[j][k] =>
                    \A m \in Line : m > k => handed[j][m] = 0
<1>1. IInv /\ [Next]_vars => [A]_vars
  <2> SUFFICES ASSUME IInv, Next PROVE A
    OBVIOUS
  <2> SUFFICES ASSUME NEW j \in Journals, NEW k \in Line, NEW m \in Line, m > k,
                      Undisturbed(j)', handed'[j][k] > handed[j][k]
               PROVE  handed[j][m] = 0
    OBVIOUS
  <2> USE DEF IInv
  <2>1. Undisturbed(j) /\ handed[j][k] \in Nat
    BY StrayedGrows DEF Undisturbed, TypeOK
  <2>2. k \in Nat /\ m \in Nat
    BY ConstantFacts DEF Line
  <2>3. CASE CatchupLine
    <3>1. PICK n \in Line :
            /\ 2 * n = catchPos + 2
            /\ target \in Journals /\ catchPos \in Nat
            /\ handed'[target][n] > 0 /\ (handed[target][n] = 0 => handed'[target][n] = 1)
            /\ \A i \in Journals, l \in Line :
                 i # target \/ l # n => handed'[i][l] = handed[i][l]
      BY <2>3, CatchupHands
    <3>2. j = target /\ k = n
      BY <2>1, <3>1
    <3>3. phase = "catchup" /\ 2 * m > catchPos
      BY <2>2, <2>3, <3>1, <3>2 DEF CatchupLine
    <3> QED
      BY <2>1, <3>2, <3>3 DEF Ahead
  <2>4. CASE PostLine
    <3>1. j = tFile /\ k = tNext
      BY <2>1, <2>4, PostHands
    <3>2. tStage = "post" /\ tNext <= tLast /\ m >= tNext
      BY <2>2, <2>4, <3>1 DEF PostLine
    <3> QED
      BY <2>1, <3>1, <3>2 DEF Ahead
  <2>5. CASE UNCHANGED handed
    BY <2>1, <2>5
  <2> QED
    BY <2>3, <2>4, <2>5, OnlyTwoHand
<1> QED
  BY <1>1, Inductive, PTL DEF Spec, InOrder

\* The watcher never returns to an older journal.
THEOREM NoRollBack == Spec => NeverRollBack
<1> DEFINE A == current' >= current /\ hCurrent' >= hCurrent
<1>1. IInv /\ [Next]_vars => [A]_vars
  <2> SUFFICES ASSUME IInv, Next PROVE A
    OBVIOUS
  <2>1. current \in Int /\ hCurrent \in Int
    BY ConstantFacts DEF IInv, TypeOK, None
  <2>2. CASE CatchupDone \/ CatchupFails
    BY <2>1, <2>2, ConstantFacts
       DEF IInv, Attachment, CatchupDone, CatchupFails, SetPosition, handler
  <2>3. CASE SetTarget
    BY <2>1, <2>3, ConstantFacts DEF IInv, Attachment, SetTarget
  <2>4. CASE UNCHANGED <<current, hCurrent>>
    BY <2>1, <2>4
  <2> QED
    BY <2>2, <2>3, <2>4
       DEF Next, Environment, WatcherStep, ThreadStep, Fault, Stop, CatchupRaises,
       ReadRaises, ThreadTo, SurfaceJournal, RemoveJournal, GameWrites,
       StartWithoutDirectory, StartIdle, StartWithJournal, CheckForRollover, CatchupLine,
       CatchupFragment, ClearPause, StartObserver, JoinObserver, OnModified,
       IgnoreModified, OpenAndSeek, OpenFails, ReadFails, ReadError, ReadLines, PostLine, Return, watcher, handler
<1> QED
  BY <1>1, Inductive, PTL DEF Spec, NeverRollBack
-----------------------------------------------------------------------------
(* After stop().                                                           *)

\* Once stop() has told the observer to end, no callback can begin; once it has
\* joined the observer's thread, none is in progress either.
Stopped ==
  /\ phase \in {"stopping", "stopped"} => ~observing
  /\ phase = "stopped" => tStage \in {"idle", "dead"}

LEMMA StoppedStep == Stopped /\ [Next]_vars => Stopped'
<1> SUFFICES ASSUME Stopped, [Next]_vars PROVE Stopped'
  OBVIOUS
<1>1. CASE Environment
  BY <1>1 DEF Stopped, Environment, SurfaceJournal, RemoveJournal, GameWrites, watcher, thread
<1>2. CASE WatcherStep
  BY <1>2 DEF Stopped, WatcherStep, StartWithoutDirectory, StartIdle, StartWithJournal,
     CheckForRollover, CatchupLine, CatchupFragment, CatchupDone, SetPosition, SetTarget,
     ClearPause, StartObserver, JoinObserver, thread
<1>3. CASE ThreadStep
  BY <1>3 DEF Stopped, ThreadStep, OnModified, IgnoreModified, OpenAndSeek, OpenFails,
     ReadError, ThreadTo, ReadLines, PostLine, Return, watcher, thread
<1>4. CASE Fault
  BY <1>4 DEF Stopped, Fault, CatchupFails, SetPosition, CatchupRaises, ReadFails, ReadError,
     ReadRaises, ThreadTo, watcher, thread
<1>5. CASE Stop
  BY <1>5 DEF Stopped, Stop
<1>6. CASE UNCHANGED vars
  BY <1>6 DEF Stopped, vars, watcher, thread
<1> QED
  BY <1>1, <1>2, <1>3, <1>4, <1>5, <1>6 DEF Next

\* Nothing reaches the dispatcher, and no cursor moves, once stop() has returned.
THEOREM StopIsFinal == Spec => QuietAfterStop
<1>1. Init => Stopped
  BY DEF Init, Stopped
<1>2. Stopped /\ [Next]_vars => [phase = "stopped" => UNCHANGED <<handed, hPos>>]_vars
  BY DEF Stopped, Next, Environment, SurfaceJournal, RemoveJournal, GameWrites, WatcherStep,
     StartWithoutDirectory, StartIdle, StartWithJournal, CheckForRollover, CatchupLine,
     CatchupFragment, CatchupDone, SetPosition, SetTarget, ClearPause, StartObserver,
     JoinObserver, ThreadStep, OnModified, IgnoreModified, OpenAndSeek, OpenFails,
     ReadFails, ReadError, ThreadTo,
     ReadLines, PostLine, Return, Fault, CatchupFails, CatchupRaises, ReadRaises, Stop,
     handler
<1> QED
  BY <1>1, <1>2, StoppedStep, PTL DEF Spec, QuietAfterStop

-----------------------------------------------------------------------------
(* JournalTail implements JournalFeed.                                     *)

\* Steps that leave the feed alone: outside a catch-up, or not touching it.
LEMMA FeedVarsUnchanged ==
  ASSUME UNCHANGED <<current, tFile, handed, strayed, failed>>,
         \/ UNCHANGED <<phase, target>>
         \/ phase # "catchup" /\ phase' # "catchup"
  PROVE  UNCHANGED Feed!feedVars
  BY DEF Feed!feedVars

\* A line handed over while nothing else of the feed changes is a delivery.
LEMMA HandDelivers ==
  ASSUME NEW j \in Journals, NEW k \in Line, Hand(j, k),
         Undisturbed(j) => \A m \in Line : m >= k => handed[j][m] = 0,
         handed[j][k] # Often, UNCHANGED <<current, phase, target, tFile, strayed, failed>>
  PROVE  Feed!Deliver(j, k)
<1>1. Feed!FeedLine = Line
  BY DEF Feed!FeedLine, Line
<1>2. j \in (IF strayed THEN Journals ELSE failed) \/ \A m \in Line : m >= k => handed[j][m] = 0
  BY DEF Undisturbed
<1> QED
  BY <1>1, <1>2 DEF Feed!Deliver, Hand

\* A line handed over once too often changes no count.
LEMMA Saturated ==
  ASSUME TypeOK, NEW j \in Journals, NEW k \in Line, Hand(j, k), handed[j][k] = Often
  PROVE  handed' = handed
<1>1. handed \in [Journals -> [Line -> 0 .. Often]]
  BY DEF TypeOK
<1>2. handed' = [handed EXCEPT ![j][k] = handed[j][k]]
  BY DEF Hand
<1> QED
  BY <1>1, <1>2

LEMMA FeedStep ==
  ASSUME IInv, Next
  PROVE  [Feed!FeedNext]_Feed!feedVars
<1> USE DEF IInv
<1>0. Feed!Nothing = 0 /\ Feed!FeedLine = Line
  BY DEF Feed!Nothing, Feed!FeedLine, Line
<1>1. ASSUME NEW j \in Journals, StartWithJournal(j) \/ CheckForRollover(j)
      PROVE  Feed!FeedNext
  <2>1. phase \in {"new", "poll"} /\ j > current
    BY <1>1, ConstantFacts
       DEF StartWithJournal, CheckForRollover, IsNewer, Attachment, None
  <2>2. Feed!BeginCatchUp(j)
    BY <1>0, <1>1, <2>1
       DEF StartWithJournal, CheckForRollover, Feed!BeginCatchUp, None, observed, handler,
           thread
  <2> QED
    BY <2>2 DEF Feed!FeedNext
<1>2. ASSUME CatchupLine PROVE [Feed!FeedNext]_Feed!feedVars
  <2>1. PICK k \in Line : 2 * k = catchPos + 2 /\ target \in Journals /\ catchPos \in Nat
                          /\ Hand(target, k)
    BY <1>2, CatchupHands
  <2>2. \A m \in Line : m >= k => 2 * m > catchPos
    BY <2>1, ConstantFacts DEF Line
  <2>3. phase = "catchup" /\ UNCHANGED <<current, phase, target, tFile, strayed, failed>>
    BY <1>2 DEF CatchupLine, observed, thread
  <2>4. Undisturbed(target) => \A m \in Line : m >= k => handed[target][m] = 0
    BY <2>1, <2>2, <2>3 DEF Ahead
  <2>5. CASE handed[target][k] = Often
    BY <2>1, <2>3, <2>5, Saturated, FeedVarsUnchanged
  <2>6. CASE handed[target][k] # Often
    <3>1. Feed!CatchUpDeliver(target, k)
      BY <2>1, <2>3, <2>4, <2>6, HandDelivers DEF Feed!CatchUpDeliver
    <3> QED
      BY <1>0, <2>1, <3>1 DEF Feed!FeedNext
  <2> QED
    BY <2>5, <2>6
<1>3. ASSUME PostLine PROVE [Feed!FeedNext]_Feed!feedVars
  <2>1. tFile \in Journals /\ tNext \in Line /\ Hand(tFile, tNext)
    BY <1>3, PostHands DEF PostLine
  <2>2. UNCHANGED <<current, phase, target, tFile, strayed, failed>>
    BY <1>3 DEF PostLine, watcher, observed
  <2>3. Undisturbed(tFile) => \A m \in Line : m >= tNext => handed[tFile][m] = 0
    BY <1>3, <2>1 DEF Ahead, PostLine
  <2>4. CASE handed[tFile][tNext] = Often
    BY <2>1, <2>2, <2>4, Saturated, FeedVarsUnchanged
  <2>5. CASE handed[tFile][tNext] # Often
    <3>1. Feed!LiveDeliver(tFile, tNext)
      BY <2>1, <2>2, <2>3, <2>5, HandDelivers DEF Feed!LiveDeliver
    <3> QED
      BY <1>0, <2>1, <3>1 DEF Feed!FeedNext
  <2> QED
    BY <2>4, <2>5
<1>4. ASSUME CatchupDone \/ CatchupFails PROVE Feed!FeedNext
  <2>1. phase = "catchup" /\ phase' = "setTarget" /\ current' = target
        /\ UNCHANGED <<tFile, handed>>
    BY <1>4 DEF CatchupDone, CatchupFails, SetPosition, thread
  <2>2. target \in Journals
    BY <2>1 DEF Attachment
  <2>3. failed \subseteq failed' /\ failed' \subseteq Journals /\ (strayed => strayed')
    BY <1>4, <2>2 DEF CatchupDone, CatchupFails, SetPosition, TypeOK
  <2>4. Feed!Adopt
    BY <1>0, <2>1, <2>2, <2>3, ConstantFacts DEF Feed!Adopt, TypeOK, None
  <2> QED
    BY <2>4 DEF Feed!FeedNext
<1>5. ASSUME CatchupRaises PROVE Feed!FeedNext
  <2>1. phase = "catchup" /\ phase' # "catchup"
        /\ UNCHANGED <<current, tFile, handed, strayed>> /\ failed' = failed \cup {target}
    BY <1>5 DEF CatchupRaises, thread
  <2>2. target \in Journals
    BY <2>1 DEF Attachment
  <2>3. Feed!AbandonCatchUp
    BY <1>0, <2>1, <2>2, ConstantFacts DEF Feed!AbandonCatchUp, None
  <2> QED
    BY <2>3 DEF Feed!FeedNext
<1>6. ASSUME Stop PROVE [Feed!FeedNext]_Feed!feedVars
  <2>1. phase' # "catchup" /\ UNCHANGED <<current, tFile, handed, strayed, failed>>
    BY <1>6 DEF Stop, observed, thread
  <2>2. CASE phase # "catchup"
    BY <2>1, <2>2, FeedVarsUnchanged
  <2>3. CASE phase = "catchup"
    <3>1. target \in Journals
      BY <2>3 DEF Attachment
    <3>2. Feed!AbandonCatchUp
      BY <1>0, <2>1, <2>3, <3>1, ConstantFacts DEF Feed!AbandonCatchUp, None
    <3> QED
      BY <3>2 DEF Feed!FeedNext
  <2> QED
    BY <2>2, <2>3
<1>7. ASSUME StartWithoutDirectory \/ StartIdle \/ SetTarget \/ ClearPause \/ StartObserver
               \/ JoinObserver
      PROVE  UNCHANGED Feed!feedVars
  <2>1. UNCHANGED <<current, tFile, handed, strayed, failed>>
    BY <1>7 DEF StartWithoutDirectory, StartIdle, SetTarget, ClearPause, StartObserver,
       JoinObserver, observed, thread
  <2>2. phase # "catchup" /\ phase' # "catchup"
    BY <1>7 DEF StartWithoutDirectory, StartIdle, SetTarget, ClearPause, StartObserver,
       JoinObserver
  <2> QED
    BY <2>1, <2>2, FeedVarsUnchanged
<1>8. ASSUME \/ Environment \/ CatchupFragment
             \/ \E j \in Journals : IgnoreModified(j)
             \/ OpenAndSeek \/ ReadLines
      PROVE  UNCHANGED Feed!feedVars
  <2>1. UNCHANGED <<current, tFile, handed, strayed, failed>> /\ UNCHANGED <<phase, target>>
    BY <1>8 DEF Environment, SurfaceJournal, RemoveJournal, GameWrites, CatchupFragment,
       IgnoreModified, OpenAndSeek, ReadLines, watcher, observed, thread
  <2> QED
    BY <2>1, FeedVarsUnchanged
<1>9. ASSUME NEW j \in Journals, OnModified(j) PROVE Feed!FeedNext
  <2>1. tFile = None /\ tFile' = current /\ current \in Journals
    BY <1>9 DEF OnModified, Callback, Attachment
  <2>2. UNCHANGED <<current, phase, target, handed, strayed, failed>>
    BY <1>9 DEF OnModified, watcher, observed
  <2>4. phase # "catchup" /\ phase' # "catchup"
    BY <1>9, <2>2 DEF OnModified, Attachment
  <2>5. current # 0
    BY <2>1, ConstantFacts
  <2> HIDE DEF IInv
  <2>3. Feed!BeginBatch
    BY <1>0, <2>1, <2>2, <2>4, <2>5 DEF Feed!BeginBatch, None
  <2> QED
    BY <2>3 DEF Feed!FeedNext
<1>10. ASSUME Return \/ OpenFails \/ ReadFails \/ ReadRaises PROVE Feed!FeedNext
  <2>1. tFile \in Journals /\ tFile' = None
    BY <1>10 DEF Return, OpenFails, ReadFails, ReadError, ReadRaises, ThreadTo, Callback
  <2>2. UNCHANGED <<current, phase, target, handed, strayed, failed>>
    BY <1>10 DEF Return, OpenFails, ReadFails, ReadError, ReadRaises, ThreadTo, watcher
  <2>3. Feed!EndBatch
    BY <1>0, <2>1, <2>2, ConstantFacts DEF Feed!EndBatch, None
  <2> QED
    BY <2>3 DEF Feed!FeedNext
<1> QED
  BY <1>1, <1>2, <1>3, <1>4, <1>5, <1>6, <1>7, <1>8, <1>9, <1>10
     DEF Next, Environment, WatcherStep, ThreadStep, Fault

\* Whatever the journals, the watcher and its handler implement the abstract feed.
THEOREM Refinement == Spec => ImplementsFeed
<1>1. Init => Feed!FeedInit
  BY DEF Init, Feed!FeedInit, Feed!Nothing, Feed!FeedLine, Line, None
<1>2. IInv /\ [Next]_vars => [Feed!FeedNext]_Feed!feedVars
  <2> SUFFICES ASSUME IInv, [Next]_vars PROVE [Feed!FeedNext]_Feed!feedVars
    OBVIOUS
  <2>1. CASE Next
    BY <2>1, FeedStep
  <2>2. CASE UNCHANGED vars
    BY <2>2, FeedVarsUnchanged DEF vars, watcher, observed, thread
  <2> QED
    BY <2>1, <2>2
<1> QED
  BY <1>1, <1>2, Inductive, PTL DEF Spec, ImplementsFeed, Feed!FeedSpec
=============================================================================
