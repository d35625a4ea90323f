---------------------------- MODULE JournalFeed ----------------------------
(***************************************************************************)
(* What the journal watcher promises the event dispatcher, without files,  *)
(* positions or threads: journals are adopted from older to newer, each is *)
(* first caught up and only then tailed, and the lines of one journal are  *)
(* delivered in file order, each at most once, unless the journal has been *)
(* disturbed.  JournalTail implements this specification (omnicovas/core/  *)
(* journal_watcher.py); EventPipeline consumes it.                         *)
(***************************************************************************)
EXTENDS Integers

CONSTANTS Journals, MaxLines

Nothing == 0              \* no journal
FeedLine == 1 .. MaxLines

VARIABLES
  adopted,    \* the journal whose live tailing was started last
  catching,   \* the journal being caught up
  reading,    \* the journal the live tailer has read a batch of lines of
  delivered,  \* delivered[j][k]: times line k of journal j was delivered
  disturbed   \* journals whose lines may be repeated or delivered out of order

feedVars == <<adopted, catching, reading, delivered, disturbed>>

FeedTypeOK ==
  /\ adopted \in Journals \cup {Nothing}
  /\ catching \in Journals \cup {Nothing}
  /\ reading \in Journals \cup {Nothing}
  /\ delivered \in [Journals -> [FeedLine -> Nat]]
  /\ disturbed \subseteq Journals

FeedInit ==
  /\ adopted = Nothing
  /\ catching = Nothing
  /\ reading = Nothing
  /\ delivered = [j \in Journals |-> [k \in FeedLine |-> 0]]
  /\ disturbed = {}

\* Line k of j is delivered; nothing at or after it was, unless j is disturbed.
Deliver(j, k) ==
  /\ j \in disturbed \/ \A m \in FeedLine : m >= k => delivered[j][m] = 0
  /\ delivered' = [delivered EXCEPT ![j][k] = @ + 1]
  /\ UNCHANGED <<adopted, catching, reading, disturbed>>

\* Mutant: any other journal is adopted, older ones too.
BeginCatchUpOther(j) ==
  /\ catching = Nothing
  /\ j # adopted
  /\ catching' = j
  /\ UNCHANGED <<adopted, reading, delivered, disturbed>>

\* The catch-up read of a journal newer than the adopted one begins.
BeginCatchUp(j) ==
  /\ catching = Nothing
  /\ j > adopted
  /\ catching' = j
  /\ UNCHANGED <<adopted, reading, delivered, disturbed>>

CatchUpDeliver(j, k) == catching = j /\ Deliver(j, k)

\* The catch-up is complete: the journal is tailed from now on.  The hand-over
\* may disturb any journal.
Adopt ==
  /\ catching # Nothing
  /\ adopted' = catching
  /\ catching' = Nothing
  /\ disturbed' \in {d \in SUBSET Journals : disturbed \subseteq d}
  /\ UNCHANGED <<reading, delivered>>

\* The catch-up is given up: it failed, which disturbs its journal, or the
\* watcher was stopped.
AbandonCatchUp ==
  /\ catching # Nothing
  /\ catching' = Nothing
  /\ disturbed' \in {disturbed, disturbed \cup {catching}}
  /\ UNCHANGED <<adopted, reading, delivered>>

\* The live tailer begins to read what was appended to the journal it tails, unless
\* a catch-up has paused it.  Once begun, it goes on with the batch when a newer
\* journal is caught up and adopted meanwhile.
BeginBatch ==
  /\ reading = Nothing
  /\ catching = Nothing
  /\ adopted # Nothing
  /\ reading' = adopted
  /\ UNCHANGED <<adopted, catching, delivered, disturbed>>

LiveDeliver(j, k) == j = reading /\ Deliver(j, k)

\* The batch is handed over, or could not be read.
EndBatch ==
  /\ reading # Nothing
  /\ reading' = Nothing
  /\ UNCHANGED <<adopted, catching, delivered, disturbed>>

FeedNext ==
  \/ \E j \in Journals : BeginCatchUp(j)
  \/ \E j \in Journals, k \in FeedLine : CatchUpDeliver(j, k) \/ LiveDeliver(j, k)
  \/ Adopt
  \/ AbandonCatchUp
  \/ BeginBatch
  \/ EndBatch

FeedSpec == FeedInit /\ [][FeedNext]_feedVars
=============================================================================
