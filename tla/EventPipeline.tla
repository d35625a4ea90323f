--------------------------- MODULE EventPipeline ---------------------------
(***************************************************************************)
(* From journal line to handlers: omnicovas/core/dispatcher.py, the two    *)
(* raw recorders main.py registers (EventRecorder.record_event of          *)
(* omnicovas/db/recorder.py and ApiBridge.push_event) and the shutdown     *)
(* sequence of main.py, fed by the promise of the journal watcher          *)
(* (JournalFeed).                                                          *)
(*                                                                         *)
(* The catch-up read awaits dispatch() line by line.  The live tailer      *)
(* queues one loop callback per line and each becomes a task of its own.   *)
(* A dispatch suspends twice, while the database commits and while the     *)
(* WebSocket clients are written to; in between other tasks run.  The      *)
(* handlers themselves do not suspend: their effect on the ship state is   *)
(* one step.  The feed is taken undisturbed, so each line is one event.    *)
(***************************************************************************)
EXTENDS JournalFeed, Sequences, SequencesExt

CONSTANT DbMayFail   \* a database commit may raise

ASSUME DbMayFailAssumption == DbMayFail \in BOOLEAN
ASSUME FeedAssumption == Journals \subseteq (Nat \ {0}) /\ MaxLines \in Nat

Event == Journals \X FeedLine
NoEvent == <<0, 0>>

VARIABLES
  queue,      \* loop callbacks that will start a dispatch task
  stage,      \* stage[e]: how far the dispatch of e has come
  awaiting,   \* the event whose dispatch the catch-up read awaits
  session,    \* EventRecorder._current_session_id: open, closing or closed
  running,    \* the watcher runs, was stopped, or the process has exited
  rows,       \* the events recorded in the database
  ring,       \* ApiBridge._activity_log: events in the order they were appended
  applied,    \* the events whose handlers have run, in that order
  \* The variables below only observe the system.
  unsaved,    \* the events whose commit raised
  caught,     \* the events the catch-up read dispatched
  overlapped  \* an event of an older journal was under way during a catch-up

pipe == <<queue, stage, awaiting, session, running, rows, ring, applied>>
vars == <<feedVars, pipe, unsaved, caught, overlapped>>

Stages == {"none", "queued", "recording", "pushing", "done", "cancelled"}

TypeOK ==
  /\ FeedTypeOK
  /\ queue \in Seq(Event)
  /\ stage \in [Event -> Stages]
  /\ awaiting \in Event \cup {NoEvent}
  /\ session \in {"open", "closing", "closed"}
  /\ running \in {"yes", "stopped", "exited"}
  /\ rows \subseteq Event
  /\ ring \in Seq(Event)
  /\ applied \in Seq(Event)
  /\ unsaved \subseteq Event
  /\ caught \subseteq Event
  /\ overlapped \in BOOLEAN

Init ==
  /\ FeedInit
  /\ queue = <<>>
  /\ stage = [e \in Event |-> "none"]
  /\ awaiting = NoEvent
  /\ session = "open"     \* main.py starts the session before the watcher
  /\ running = "yes"
  /\ rows = {}
  /\ ring = <<>>
  /\ applied = <<>>
  /\ unsaved = {}
  /\ caught = {}
  /\ overlapped = FALSE

InFlight(e) == stage[e] \in {"queued", "recording", "pushing"}

-----------------------------------------------------------------------------
(* The feed hands a line over.                                             *)

\* Mutant: end_session() clears the id before its commit completes.
BegunWhileOpen(e) ==
  IF session # "open"
    THEN stage' = [stage EXCEPT ![e] = "pushing"] /\ ring' = Append(ring, e)
    ELSE stage' = [stage EXCEPT ![e] = "recording"] /\ UNCHANGED ring

\* dispatch() parses the event and calls the recorder, which drops the event
\* if no session is open; the ring buffer is next.
Begun(e) ==
  IF session = "closed"
    THEN /\ stage' = [stage EXCEPT ![e] = "pushing"]
         /\ ring' = Append(ring, e)
    ELSE /\ stage' = [stage EXCEPT ![e] = "recording"]
         /\ UNCHANGED ring

\* Mutant: the catch-up read makes a task of each line, like the live tailer.
CatchUpDetached(j, k) ==
  /\ running = "yes"
  /\ CatchUpDeliver(j, k)
  /\ Begun(<<j, k>>)
  /\ caught' = caught \cup {<<j, k>>}
  /\ UNCHANGED <<queue, awaiting, session, running, rows, applied, unsaved, overlapped>>

\* The catch-up read awaits dispatch() for its next line.
CatchUp(j, k) ==
  /\ running = "yes"
  /\ awaiting = NoEvent
  /\ CatchUpDeliver(j, k)
  /\ Begun(<<j, k>>)
  /\ awaiting' = <<j, k>>
  /\ caught' = caught \cup {<<j, k>>}
  /\ UNCHANGED <<queue, session, running, rows, applied, unsaved, overlapped>>

\* on_modified begins to read what was appended to the journal that is tailed.
OnModified ==
  /\ running = "yes"
  /\ BeginBatch
  /\ UNCHANGED <<pipe, unsaved, caught, overlapped>>

\* on_modified returns.
Return ==
  /\ running = "yes"
  /\ EndBatch
  /\ UNCHANGED <<pipe, unsaved, caught, overlapped>>

\* on_modified bridges a line: call_soon_threadsafe queues a callback.
Bridge(j, k) ==
  /\ running = "yes"
  /\ LiveDeliver(j, k)
  /\ queue' = Append(queue, <<j, k>>)
  /\ stage' = [stage EXCEPT ![<<j, k>>] = "queued"]
  /\ overlapped' = (overlapped \/ catching # Nothing \/ j < adopted)
  /\ UNCHANGED <<awaiting, session, running, rows, ring, applied, unsaved, caught>>

\* A catch-up begins while events, or a callback that will bridge some, may still be
\* under way.
StartCatchUp(j) ==
  /\ running = "yes"
  /\ BeginCatchUp(j)
  /\ overlapped' = (overlapped \/ reading # Nothing \/ \E e \in Event : InFlight(e))
  /\ UNCHANGED <<pipe, unsaved, caught>>

\* The catch-up is over once its last dispatch has returned.
FinishCatchUp ==
  /\ running = "yes"
  /\ awaiting = NoEvent
  /\ Adopt
  /\ UNCHANGED disturbed
  /\ UNCHANGED <<pipe, unsaved, caught, overlapped>>

-----------------------------------------------------------------------------
(* Dispatch tasks.                                                         *)

\* The oldest callback runs: its task starts and dispatch() begins.
StartTask ==
  /\ running # "exited"
  /\ queue # <<>>
  /\ queue' = Tail(queue)
  /\ Begun(Head(queue))
  /\ UNCHANGED <<feedVars, awaiting, session, running, rows, applied, unsaved, caught, overlapped>>

\* The recorder returns; push_event appends to the ring and writes to clients.
Push(e) ==
  /\ stage' = [stage EXCEPT ![e] = "pushing"]
  /\ ring' = Append(ring, e)

\* Mutant: the row is numbered by the line after the event.
CommitNextLine(e) ==
  /\ running # "exited"
  /\ stage[e] = "recording"
  /\ rows' = rows \cup {<<e[1], e[2] + 1>>}
  /\ Push(e)
  /\ UNCHANGED <<feedVars, queue, awaiting, session, running, applied, unsaved, caught, overlapped>>

\* record_event: the commit completes.
Commit(e) ==
  /\ running # "exited"
  /\ stage[e] = "recording"
  /\ rows' = rows \cup {e}
  /\ Push(e)
  /\ UNCHANGED <<feedVars, queue, awaiting, session, running, applied, unsaved, caught, overlapped>>

\* Mutant: the exception of a recorder ends the dispatch.
CommitFailsUncaught(e) ==
  /\ DbMayFail
  /\ running # "exited"
  /\ stage[e] = "recording"
  /\ stage' = [stage EXCEPT ![e] = "cancelled"]
  /\ awaiting' = IF awaiting = e THEN NoEvent ELSE awaiting
  /\ UNCHANGED <<feedVars, queue, session, running, rows, ring, applied, unsaved, caught,
                 overlapped>>

\* record_event raises; dispatch() logs it and goes on with the next recorder.
CommitFails(e) ==
  /\ DbMayFail
  /\ running # "exited"
  /\ stage[e] = "recording"
  /\ Push(e)
  /\ unsaved' = unsaved \cup {e}
  /\ UNCHANGED <<feedVars, queue, awaiting, session, running, rows, applied, caught,
                 overlapped>>

\* Mutant: the handlers run without waiting for the recorders.
ApplyEarly(e) ==
  /\ running # "exited"
  /\ stage[e] \in {"recording", "pushing"}
  /\ stage' = [stage EXCEPT ![e] = "done"]
  /\ applied' = Append(applied, e)
  /\ awaiting' = IF awaiting = e THEN NoEvent ELSE awaiting
  /\ UNCHANGED <<feedVars, queue, session, running, rows, ring, unsaved, caught, overlapped>>

\* All recorders are done: the type handlers run, and dispatch() returns.
Apply(e) ==
  /\ running # "exited"
  /\ stage[e] = "pushing"
  /\ stage' = [stage EXCEPT ![e] = "done"]
  /\ applied' = Append(applied, e)
  /\ awaiting' = IF awaiting = e THEN NoEvent ELSE awaiting
  /\ UNCHANGED <<feedVars, queue, session, running, rows, ring, unsaved, caught, overlapped>>

-----------------------------------------------------------------------------
(* Shutdown: main.py's finally block.                                      *)

\* journal_watcher.stop(): a catch-up under way is cancelled inside the
\* dispatch it awaits, and the callback of watchdog's thread is joined.
StopWatcher ==
  /\ running = "yes"
  /\ reading = Nothing
  /\ running' = "stopped"
  /\ catching' = Nothing
  /\ stage' = [e \in Event |-> IF e = awaiting THEN "cancelled" ELSE stage[e]]
  /\ awaiting' = NoEvent
  /\ UNCHANGED <<adopted, reading, delivered, disturbed>>
  /\ UNCHANGED <<queue, session, rows, ring, applied, unsaved, caught, overlapped>>

\* recorder.end_session(): the end time is committed, then the id is cleared.
BeginEndSession ==
  /\ running = "stopped"
  /\ session = "open"
  /\ session' = "closing"
  /\ UNCHANGED <<feedVars, queue, stage, awaiting, running, rows, ring, applied, unsaved, caught,
                 overlapped>>

EndSession ==
  /\ running = "stopped"
  /\ session = "closing"
  /\ session' = "closed"
  /\ UNCHANGED <<feedVars, queue, stage, awaiting, running, rows, ring, applied, unsaved, caught,
                 overlapped>>

\* asyncio.run() cancels every task that is left.
Exit ==
  /\ session = "closed"
  /\ running = "stopped"
  /\ running' = "exited"
  /\ queue' = <<>>
  /\ stage' = [e \in Event |-> IF InFlight(e) THEN "cancelled" ELSE stage[e]]
  /\ UNCHANGED <<feedVars, awaiting, session, rows, ring, applied, unsaved, caught, overlapped>>

-----------------------------------------------------------------------------
TaskStep == StartTask \/ \E e \in Event : Commit(e) \/ Apply(e)

Next ==
  \/ \E j \in Journals : StartCatchUp(j)
  \/ \E j \in Journals, k \in FeedLine : CatchUp(j, k) \/ Bridge(j, k)
  \/ FinishCatchUp \/ OnModified \/ Return
  \/ TaskStep
  \/ \E e \in Event : CommitFails(e)
  \/ StopWatcher \/ BeginEndSession \/ EndSession \/ Exit

\* The loop runs every callback and every task that is ready to run.
Fairness ==
  /\ WF_vars(StartTask)
  /\ \A e \in Event : WF_vars(Commit(e) \/ CommitFails(e)) /\ WF_vars(Apply(e))

Spec == Init /\ [][Next]_vars
FairSpec == Spec /\ Fairness

-----------------------------------------------------------------------------
(* Properties.                                                             *)

Before(s, d, e) == \E m, n \in DOMAIN s : m < n /\ s[m] = d /\ s[n] = e

\* Every event takes effect at most once, and only after the ring buffer (and so
\* the recorder before it) has seen it.
AppliedOnceAfterRecorders ==
  /\ \A m, n \in DOMAIN applied : applied[m] = applied[n] => m = n
  /\ \A n \in DOMAIN applied : applied[n] \in ToSet(ring)

\* Until end_session() has returned, whatever took effect is in the database
\* or its commit failed: the audit trail has no other hole, even while it closes.
AuditTrailComplete ==
  session # "closed" => ToSet(applied) \subseteq rows \cup unsaved

\* The catch-up read replays a journal in file order: suspension points let no
\* later line overtake an earlier one, and no live line of the journal overtakes it.
ReplayInOrder ==
  \A d, e \in Event :
    (d[1] = e[1] /\ d[2] > e[2] /\ e \in caught) => ~Before(applied, d, e)

\* After a rollover the older journal has no effect on top of the newer one,
\* provided nothing of it was under way when the catch-up began or after.
NewerStateKept ==
  ~overlapped =>
    \A d, e \in Event : d[1] > e[1] => ~Before(applied, d, e)

\* Every line handed to the dispatcher takes effect in the end, unless the
\* application is shut down.
EveryEventApplied ==
  \A e \in Event : InFlight(e) ~> (stage[e] = "done" \/ running # "yes")
=============================================================================
