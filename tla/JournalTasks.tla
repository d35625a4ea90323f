---------------------------- MODULE JournalTasks ----------------------------
(***************************************************************************)
(* The journal and the tasks of core/dispatcher.py: every line becomes a   *)
(* task, recorders and other handlers run before its own, and so it may be *)
(* overtaken by a later line.                                              *)
(***************************************************************************)
EXTENDS Integers, Sequences, SequencesExt

VARIABLES
  lines,    \* the journal
  waiting,  \* lines whose handlers have not run, oldest first
  \* The variable below only observes the system.
  inOrder   \* no handler has overtaken another's

Enter(line) ==
  /\ lines' = Append(lines, line)
  /\ waiting' = Append(waiting, Len(lines) + 1)
  /\ UNCHANGED inOrder

\* The handler of the n-th task runs.
TakeOut(n) ==
  /\ waiting' = RemoveAt(waiting, n)
  /\ inOrder' = (inOrder /\ n = 1)
  /\ UNCHANGED lines

Settled == waiting = <<>> /\ inOrder
=============================================================================
