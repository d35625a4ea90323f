---------------------------- MODULE JournalTail ----------------------------
(***************************************************************************)
(* Live tailing of the Elite Dangerous journal files:                      *)
(* omnicovas/core/journal_watcher.py.                                      *)
(*                                                                         *)
(* Three parties interleave here.  The game appends to journal files.  The *)
(* JournalWatcher coroutine runs on the asyncio loop: it reads a journal   *)
(* from its first line (catch-up), points the handler at it (retarget) and *)
(* then looks for a newer file every few seconds.  JournalEventHandler     *)
(* runs on watchdog's own thread and reads whatever was appended to the    *)
(* journal it is pointed at.  The two threads share the handler's fields   *)
(* _current_journal, _file_position and _paused without a lock.            *)
(*                                                                         *)
(* A journal is a positive number, larger meaning a newer file name        *)
(* (timestamp, part).  A file is a count of half lines: 2*k halves are k   *)
(* complete lines, an odd count ends in a fragment of a line that the game *)
(* is still writing.  A file position counts half lines too.  A fragment   *)
(* (or the remainder of one) is not valid JSON: the catch-up read and the  *)
(* dispatcher both skip it.                                                *)
(***************************************************************************)
EXTENDS Integers

CONSTANTS
  Journals,   \* the journal files that may appear, numbered by age
  MaxLines    \* bound: the number of lines of each journal

ASSUME JournalsAssumption == Journals \subseteq (Nat \ {0})
ASSUME MaxLinesAssumption == MaxLines \in Nat

None == 0     \* Python's None where a journal path is expected
Often == 2    \* bound: twice or more
Line == 1 .. MaxLines
Position == 0 .. 2 * MaxLines

VARIABLES
  dir,        \* the journal files present in the journal directory
  len,        \* len[j]: the half lines in file j
  phase,      \* where the JournalWatcher coroutine is
  current,    \* JournalWatcher._current_journal
  target,     \* the journal being attached
  catchPos,   \* how far the catch-up read of target has come
  hCurrent,   \* JournalEventHandler._current_journal
  hPos,       \* JournalEventHandler._file_position
  paused,     \* JournalEventHandler._paused
  observing,  \* the watchdog observer is running
  notices,    \* journals with a modification event queued for the thread
  tStage,     \* the step on_modified has reached on watchdog's thread
  tFile,      \* modified_path
  tFrom,      \* the position the open file was moved to
  tNext,      \* the next line of new_lines to be bridged to the loop
  tLast,      \* the last line of new_lines
  handed,     \* handed[j][k]: line k of j was given to dispatch_fn never (0),
              \* once (1) or Often
  \* The variables below only observe the system: the code has none of them.
  posOf,      \* the journal that hPos is a position of
  strayed,    \* a callback on the old journal was still open at a retarget
  failed,     \* journals whose catch-up read ended in an exception
  unheard,    \* journals whose last modification an OSError made the handler drop
  split       \* lines some read took the first fragment of

files == <<dir, len>>
watcher == <<phase, current, target, catchPos>>
handler == <<hCurrent, hPos, paused, posOf>>
thread == <<tStage, tFile, tFrom, tNext, tLast>>
observed == <<strayed, failed, unheard, split>>
vars == <<files, watcher, handler, observing, notices, thread, handed, observed>>

Phases == {"new", "off", "catchup", "setTarget", "clearPause", "startObserver",
           "poll", "stopping", "stopped"}
Stages == {"idle", "open", "read", "post", "dead"}

TypeOK ==
  /\ dir \subseteq Journals
  /\ len \in [Journals -> Position]
  /\ phase \in Phases
  /\ current \in Journals \cup {None}
  /\ target \in Journals \cup {None}
  /\ catchPos \in Position
  /\ hCurrent \in Journals \cup {None}
  /\ hPos \in Position
  /\ paused \in BOOLEAN
  /\ observing \in BOOLEAN
  /\ notices \subseteq Journals
  /\ tStage \in Stages
  /\ tFile \in Journals \cup {None}
  /\ tFrom \in Position
  /\ tNext \in 1 .. (MaxLines + 1)
  /\ tLast \in 0 .. MaxLines
  /\ handed \in [Journals -> [Line -> 0 .. Often]]
  /\ posOf \in Journals \cup {None}
  /\ strayed \in BOOLEAN
  /\ failed \subseteq Journals
  /\ unheard \subseteq Journals
  /\ split \subseteq Journals \X Line

Init ==
  /\ dir \in SUBSET Journals
  /\ len = [j \in Journals |-> 0]
  /\ phase = "new"
  /\ current = None /\ target = None /\ catchPos = 0
  /\ hCurrent = None /\ hPos = 0 /\ paused = TRUE /\ posOf = None
  /\ observing = FALSE /\ notices = {}
  /\ tStage = "idle" /\ tFile = None /\ tFrom = 0 /\ tNext = 1 /\ tLast = 0
  /\ handed = [j \in Journals |-> [k \in Line |-> 0]]
  /\ strayed = FALSE /\ failed = {} /\ unheard = {} /\ split = {}

-----------------------------------------------------------------------------
(* Reading half lines.                                                     *)

\* A read that ends at position p and began at position q took the first
\* fragment of these lines and left the rest of them for a later read.
FragmentAt(j, q, p) == {<<j, k>> : k \in {i \in Line : q < p /\ 2 * i - 1 = p}}

\* Mutant: the line at the cursor is taken for one that was read before.
FirstLineFromMissesOne(p) == (p \div 2) + 2

\* The first line that starts at or after position p.
FirstLineFrom(p) == IF p % 2 = 0 THEN (p \div 2) + 1 ELSE ((p + 1) \div 2) + 1

\* Mutant: fragments are counted as lines.
LinesUpToCountsFragments(p) == p

\* The complete lines in the first p half lines of a file.
LinesUpTo(p) == p \div 2

\* Line k of journal j is given to dispatch_fn.
Hand(j, k) == handed' = [handed EXCEPT ![j][k] = IF @ = Often THEN @ ELSE @ + 1]

-----------------------------------------------------------------------------
(* The game and the user change the directory and its files.               *)

\* The game creates a journal, or one that was moved away is put back.
SurfaceJournal(j) ==
  /\ j \notin dir
  /\ dir' = dir \cup {j}
  /\ UNCHANGED <<len, watcher, handler, observing, notices, thread, handed, observed>>

\* A journal is moved away.
RemoveJournal(j) ==
  /\ j \in dir
  /\ dir' = dir \ {j}
  /\ UNCHANGED <<len, watcher, handler, observing, notices, thread, handed, observed>>

\* The game appends half a line; the observer, if it runs, queues an event.
GameWrites(j) ==
  /\ j \in dir
  /\ len[j] < 2 * MaxLines
  /\ len' = [len EXCEPT ![j] = @ + 1]
  /\ notices' = IF observing THEN notices \cup {j} ELSE notices
  /\ unheard' = IF observing THEN unheard \ {j} ELSE unheard
  /\ UNCHANGED <<dir, watcher, handler, observing, thread, handed, strayed, failed,
                 split>>

-----------------------------------------------------------------------------
(* The JournalWatcher coroutine.                                           *)

\* _find_current_journal: the newest journal by file name.
Newest(j) == j \in dir /\ \A i \in dir : i <= j

\* start() logs an error and gives up for good if the directory is missing.
StartWithoutDirectory ==
  /\ phase = "new"
  /\ dir = {}
  /\ phase' = "off"
  /\ UNCHANGED <<files, current, target, catchPos, handler, observing, notices,
                 thread, handed, observed>>

\* start() with no journal yet: observe the directory and poll.
StartIdle ==
  /\ phase = "new"
  /\ dir = {}
  /\ phase' = "poll"
  /\ observing' = TRUE
  /\ UNCHANGED <<files, current, target, catchPos, handler, notices, thread,
                 handed, observed>>

\* start() with a journal: catch it up before the observer runs.
StartWithJournal(j) ==
  /\ phase = "new"
  /\ Newest(j)
  /\ phase' = "catchup"
  /\ target' = j
  /\ catchPos' = 0
  /\ UNCHANGED <<files, current, handler, observing, notices, thread, handed, observed>>

\* Mutant: any other file is rolled over to.
IsNewerOrOther(candidate, cur) == candidate # cur

\* Mutant: only a watcher without a journal looks for one.
IsNewerThanNone(candidate, cur) == cur = None

\* _is_newer on file names; every journal is newer than none.
IsNewer(candidate, cur) == candidate > cur

\* Mutant: the rollover forgets pause().
PausedForAttachNot == paused

\* A rollover pauses the handler; before the first attachment it is paused anyway.
PausedForAttach == IF current = None THEN paused ELSE TRUE

\* _check_for_rollover finds a newer journal (or the first one) and starts to
\* attach it; tailing of the old one is paused meanwhile.
CheckForRollover(j) ==
  /\ phase = "poll"
  /\ Newest(j)
  /\ IsNewer(j, current)
  /\ phase' = "catchup"
  /\ target' = j
  /\ catchPos' = 0
  /\ paused' = PausedForAttach
  /\ UNCHANGED <<files, current, hCurrent, hPos, posOf, observing, notices, thread,
                 handed, observed>>

\* _catchup_read: a complete line is dispatched.
CatchupLine ==
  /\ phase = "catchup"
  /\ catchPos % 2 = 0
  /\ catchPos + 2 <= len[target]
  /\ Hand(target, LinesUpTo(catchPos) + 1)
  /\ catchPos' = catchPos + 2
  /\ UNCHANGED <<files, phase, current, target, handler, observing, notices, thread,
                 observed>>

\* _catchup_read: the fragment at the end of the file, or the remainder of one
\* that was skipped before, is malformed JSON and is skipped.
CatchupFragment ==
  /\ phase = "catchup"
  /\ catchPos < len[target]
  /\ catchPos % 2 = 1 \/ catchPos + 1 = len[target]
  /\ catchPos' = catchPos + 1
  /\ split' = split \cup FragmentAt(target, catchPos, catchPos + 1)
  /\ UNCHANGED <<files, phase, current, target, handler, observing, notices, thread,
                 handed, strayed, failed, unheard>>

\* _attach_journal after the catch-up read returned pos: first _current_journal,
\* then the first assignment of retarget().
SetPosition(pos) ==
  /\ phase' = "setTarget"
  /\ current' = target
  /\ hPos' = pos
  /\ posOf' = target
  /\ strayed' = (strayed \/ tStage \in {"open", "read"})

\* Mutant: the position reached is not returned.
CatchupDoneAtZero ==
  /\ phase = "catchup"
  /\ catchPos = len[target]
  /\ SetPosition(0)
  /\ UNCHANGED <<files, target, catchPos, hCurrent, paused, observing, notices,
                 thread, handed, failed, unheard, split>>

\* The catch-up read reaches the end of the file.
CatchupDone ==
  /\ phase = "catchup"
  /\ catchPos = len[target]
  /\ SetPosition(catchPos)
  /\ UNCHANGED <<files, target, catchPos, hCurrent, paused, observing, notices,
                 thread, handed, failed, unheard, split>>

\* The catch-up read ends in an OSError: it still returns position 0.
CatchupFails ==
  /\ phase = "catchup"
  /\ SetPosition(0)
  /\ failed' = failed \cup {target}
  /\ UNCHANGED <<files, target, catchPos, hCurrent, paused, observing, notices,
                 thread, handed, unheard, split>>

\* The catch-up read ends in a UnicodeDecodeError: somewhere in the rest of the
\* file is a byte that is not UTF-8, or the file stops inside a character.  Out of
\* start() the exception ends the application; the poll loop logs it and reads the
\* same journal from its first line again at every poll, with the same outcome for
\* as long as the byte is there.
CatchupRaises ==
  /\ phase = "catchup"
  /\ catchPos < len[target]
  /\ phase' = IF observing THEN "poll" ELSE "off"
  /\ failed' = failed \cup {target}
  /\ target' = None /\ catchPos' = 0
  /\ UNCHANGED <<files, current, handler, observing, notices, thread, handed, strayed,
                 unheard, split>>

\* retarget(): the second assignment.
SetTarget ==
  /\ phase = "setTarget"
  /\ phase' = "clearPause"
  /\ hCurrent' = target
  /\ UNCHANGED <<files, current, target, catchPos, hPos, paused, posOf, observing,
                 notices, thread, handed, observed>>

\* retarget(): the last assignment.
ClearPause ==
  /\ phase = "clearPause"
  /\ phase' = IF observing THEN "poll" ELSE "startObserver"
  /\ paused' = FALSE
  /\ target' = None /\ catchPos' = 0
  /\ UNCHANGED <<files, current, hCurrent, hPos, posOf, observing, notices, thread,
                 handed, observed>>

\* start(): the observer is started and the poll loop is created.
StartObserver ==
  /\ phase = "startObserver"
  /\ phase' = "poll"
  /\ observing' = TRUE
  /\ UNCHANGED <<files, current, target, catchPos, handler, notices, thread, handed,
                 observed>>

\* stop(): the poll task is cancelled where it waits, possibly in the middle of a
\* catch-up, and the observer is told to stop.
Stop ==
  /\ observing
  /\ phase \in {"poll", "catchup"}
  /\ phase' = "stopping"
  /\ observing' = FALSE
  /\ notices' = {}
  /\ target' = None /\ catchPos' = 0
  /\ UNCHANGED <<files, current, handler, thread, handed, observed>>

\* Mutant: stop() does not join the observer.
JoinObserverNot ==
  /\ phase = "stopping"
  /\ phase' = "stopped"
  /\ UNCHANGED <<files, current, target, catchPos, handler, observing, notices,
                 thread, handed, observed>>

\* stop(): join() returns once the callback in progress has ended,
\* or at once if an exception ended the thread.
JoinObserver ==
  /\ phase = "stopping"
  /\ tStage \in {"idle", "dead"}
  /\ phase' = "stopped"
  /\ UNCHANGED <<files, current, target, catchPos, handler, observing, notices,
                 thread, handed, observed>>

-----------------------------------------------------------------------------
(* JournalEventHandler.on_modified on watchdog's thread.                   *)

\* The event is for the journal the handler is pointed at.
OnModified(j) ==
  /\ observing
  /\ tStage = "idle"
  /\ j \in notices
  /\ notices' = notices \ {j}
  /\ ~paused
  /\ hCurrent = j
  /\ tStage' = "open"
  /\ tFile' = j
  /\ UNCHANGED <<files, watcher, handler, observing, tFrom, tNext, tLast, handed,
                 observed>>

\* The event is dropped: the handler is paused, unattached or elsewhere.
IgnoreModified(j) ==
  /\ observing
  /\ tStage = "idle"
  /\ j \in notices
  /\ notices' = notices \ {j}
  /\ paused \/ hCurrent = None \/ hCurrent # j
  /\ UNCHANGED <<files, watcher, handler, observing, thread, handed, observed>>

\* open() and seek(self._file_position).
OpenAndSeek ==
  /\ tStage = "open"
  /\ tFile \in dir
  /\ tStage' = "read"
  /\ tFrom' = hPos
  /\ UNCHANGED <<files, watcher, handler, observing, notices, tFile, tNext, tLast,
                 handed, observed>>

\* The callback ends: its local variables are gone.
ThreadTo(stage) ==
  /\ tStage' = stage
  /\ tFile' = None /\ tFrom' = 0 /\ tNext' = 1 /\ tLast' = 0
  /\ UNCHANGED <<files, watcher, handler, observing, notices, handed, strayed, failed,
                 split>>

\* An OSError of open() or readlines() is logged and the callback ends: the cursor
\* stays and so do the lines, until the file is modified again.
ReadError ==
  /\ ThreadTo("idle")
  /\ unheard' = unheard \cup ({tFile} \ notices)

\* open() fails: the file is gone.
OpenFails ==
  /\ tStage = "open"
  /\ tFile \notin dir
  /\ ReadError

\* open() or readlines() fails, whether the file is there or not: a sharing
\* violation, a permission, a device.
ReadFails ==
  /\ tStage \in {"open", "read"}
  /\ ReadError

\* The bytes after the cursor are not UTF-8, or stop inside a character: readlines()
\* raises UnicodeDecodeError, which on_modified does not catch, and the exception
\* ends watchdog's thread.
ReadRaises ==
  /\ tStage = "read"
  /\ tFrom < len[tFile]
  /\ ThreadTo("dead")
  /\ UNCHANGED unheard

\* readlines() and self._file_position = tell(): after a seek past the end
\* nothing is read and tell() is where seek() went.
ReadLines ==
  LET end == IF tFrom > len[tFile] THEN tFrom ELSE len[tFile] IN
  /\ tStage = "read"
  /\ hPos' = end
  /\ posOf' = tFile
  /\ tNext' = IF tFrom >= len[tFile] THEN 1 ELSE FirstLineFrom(tFrom)
  /\ tLast' = IF tFrom >= len[tFile] THEN 0 ELSE LinesUpTo(len[tFile])
  /\ split' = split \cup FragmentAt(tFile, tFrom, len[tFile])
  /\ tStage' = "post"
  /\ UNCHANGED <<files, watcher, hCurrent, paused, observing, notices, tFile, tFrom,
                 handed, strayed, failed, unheard>>

\* Mutant: the lines read are bridged last line first.
PostLineBackwards ==
  /\ tStage = "post"
  /\ tNext <= tLast
  /\ Hand(tFile, tLast)
  /\ tLast' = tLast - 1
  /\ UNCHANGED <<files, watcher, handler, observing, notices, tStage, tFile, tFrom,
                 tNext, observed>>

\* call_soon_threadsafe bridges one complete line to the loop.
PostLine ==
  /\ tStage = "post"
  /\ tNext <= tLast
  /\ Hand(tFile, tNext)
  /\ tNext' = tNext + 1
  /\ UNCHANGED <<files, watcher, handler, observing, notices, tStage, tFile, tFrom,
                 tLast, observed>>

\* The callback returns.
Return ==
  /\ tStage = "post"
  /\ tNext > tLast
  /\ ThreadTo("idle")
  /\ UNCHANGED unheard

-----------------------------------------------------------------------------
Environment ==
  \E j \in Journals : SurfaceJournal(j) \/ RemoveJournal(j) \/ GameWrites(j)

WatcherStep ==
  \/ StartWithoutDirectory \/ StartIdle
  \/ \E j \in Journals : StartWithJournal(j) \/ CheckForRollover(j)
  \/ CatchupLine \/ CatchupFragment \/ CatchupDone
  \/ SetTarget \/ ClearPause \/ StartObserver
  \/ JoinObserver

ThreadStep ==
  \/ \E j \in Journals : OnModified(j) \/ IgnoreModified(j)
  \/ OpenAndSeek \/ OpenFails \/ ReadLines \/ PostLine \/ Return

Fault == CatchupFails \/ CatchupRaises \/ ReadFails \/ ReadRaises

Next == Environment \/ WatcherStep \/ ThreadStep \/ Fault \/ Stop

\* The loop and the thread go on as long as they have something to do; nothing
\* obliges the game to write, a read to fail or the application to stop.
Fairness == WF_vars(WatcherStep) /\ WF_vars(ThreadStep)

Spec == Init /\ [][Next]_vars
FairSpec == Spec /\ Fairness

-----------------------------------------------------------------------------
(* Properties.                                                             *)

\* No callback straddled a retarget and j's catch-up did not fail: what the
\* code relies on to read every line of j once.
Undisturbed(j) == ~strayed /\ j \notin failed

\* A journal line is given to the dispatcher at most once: the hand-over from
\* the catch-up read to the live tailer repeats nothing.
AtMostOnce ==
  \A j \in Journals, k \in Line : Undisturbed(j) => handed[j][k] <= 1

\* The lines of one journal reach the dispatcher in file order.
InOrder ==
  [][\A j \in Journals, k \in Line :
       Undisturbed(j)' /\ handed'[j][k] > handed[j][k] =>
         \A m \in Line : m > k => handed[j][m] = 0]_vars

\* The live tailer leaves no hole: a complete line before the handler's cursor
\* was dispatched, is about to be, or was read in two pieces.
NoLineSkipped ==
  \A k \in Line :
    (~paused /\ Undisturbed(hCurrent) /\ 2 * k <= hPos) =>
      \/ handed[hCurrent][k] > 0
      \/ tStage = "post" /\ tFile = hCurrent /\ k \in tNext .. tLast
      \/ <<hCurrent, k>> \in split

\* While tailing is live the cursor is a position of the journal tailed.
CursorOfTarget == ~paused /\ ~strayed => posOf = hCurrent

\* The watcher never goes back to an older journal, even when the newest file
\* disappears from the directory ("Never roll back").
NeverRollBack == [][current' >= current /\ hCurrent' >= hCurrent]_vars

\* Once stop() has returned, nothing more is given to the dispatcher.
QuietAfterStop == [][phase = "stopped" => UNCHANGED <<handed, hPos>>]_vars

\* A modification event that the live handler receives delivers every complete
\* line of the file, unless the line was split, the handler moves on or stops, the
\* file disappears, or an error of the read made the handler drop the event and no
\* modification has followed; a later one makes up for it.
NoticeDelivers ==
  \A j \in Journals, k \in Line :
    (j \in notices /\ hCurrent = j /\ ~paused /\ 2 * k <= len[j]) ~>
      (\/ handed[j][k] > 0 \/ <<j, k>> \in split \/ j \notin dir
       \/ strayed \/ paused \/ ~observing \/ tStage = "dead" \/ j \in unheard)

\* A newer journal that stays in the directory of a running watcher is attached,
\* whatever OSErrors its catch-up meets; only a file that cannot be decoded at every
\* poll, it or a newer one, keeps it out for ever.
NewerJournalAdopted ==
  \A j \in Journals :
    <>[](j \in dir /\ phase \notin {"off", "stopping", "stopped"}) =>
      <>(current >= j) \/ []<><<CatchupRaises /\ target >= j>>_vars

-----------------------------------------------------------------------------
(* The abstract feed this module implements.                               *)

Feed == INSTANCE JournalFeed WITH
  adopted <- current,
  catching <- IF phase = "catchup" THEN target ELSE None,
  reading <- tFile,
  delivered <- handed,
  disturbed <- IF strayed THEN Journals ELSE failed

\* The dispatcher sees a feed that adopts journals from older to newer, catches
\* each up before it tails it, and keeps file order within a journal.
ImplementsFeed == Feed!FeedSpec
=============================================================================
