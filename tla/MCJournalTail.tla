--------------------------- MODULE MCJournalTail ---------------------------
(***************************************************************************)
(* JournalTail on a small directory, and what a doc string of              *)
(* journal_watcher.py claims without the conditions of JournalTail's own   *)
(* properties.                                                             *)
(***************************************************************************)
EXTENDS JournalTail

\* retarget(): "the watchdog thread never observes the new journal with the old
\* file position".
NeverOldPosition == ~paused => posOf = hCurrent
=============================================================================
