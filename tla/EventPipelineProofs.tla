------------------------ MODULE EventPipelineProofs ------------------------
(***************************************************************************)
(* What holds of the event pipeline for all journals and any number of     *)
(* lines, whether commits may fail or not.                                 *)
(*                                                                         *)
(* The safety properties say what has been applied; a step can only be     *)
(* told to keep them by how far every dispatch has come.  IInv relates the *)
(* stages to the queue, the awaited dispatch, the ring, the rows and the   *)
(* feed.                                                                   *)
(***************************************************************************)
EXTENDS EventPipeline, TLAPS

Late == {"pushing", "done"}
Over == {"done", "cancelled"}
InRing(e) == \E n \in DOMAIN ring : ring[n] = e

\* A line that the feed has not delivered has not begun, no journal is disturbed, and the
\* live tailer reads the adopted journal or an older one.
Fresh ==
  /\ disturbed = {}
  /\ reading <= adopted
  /\ \A e \in Event : delivered[e[1]][e[2]] = 0 => stage[e] = "none"

\* Only a newer journal is caught up.
Adoption == catching # Nothing => catching > adopted

\* A queued callback is one event's, and of no other callback.
Queued ==
  /\ \A n \in DOMAIN queue : stage[queue[n]] = "queued"
  /\ \A m, n \in DOMAIN queue : queue[m] = queue[n] => m = n

\* The awaited dispatch is under way, and of the journal that is caught up.
Awaited ==
  awaiting # NoEvent =>
    /\ stage[awaiting] \in {"recording", "pushing"}
    /\ running = "yes"
    /\ awaiting[1] = catching

\* What was applied is done, and was applied once.
Applied ==
  /\ \A n \in DOMAIN applied : stage[applied[n]] = "done"
  /\ \A m, n \in DOMAIN applied : applied[m] = applied[n] => m = n

\* Past the recorders, an event is in the ring and, unless the session was closed before,
\* in the database or known to have failed.
Recorded ==
  \A e \in Event : stage[e] \in Late =>
    /\ InRing(e)
    /\ session # "closed" => e \in rows \cup unsaved

\* A replayed line is over before a later line of its journal begins.
Replayed ==
  /\ \A e \in caught : stage[e] \in Over \/ awaiting = e
  /\ \A d \in Event, e \in caught :
       (d[1] = e[1] /\ d[2] > e[2] /\ stage[d] # "none") => stage[e] \in Over

\* While the watcher runs, what has begun is of the adopted journal, of an older one, or
\* of the one that is caught up.
Attached ==
  running = "yes" =>
    \A e \in Event : stage[e] # "none" => e[1] <= adopted \/ e[1] = catching

\* As long as no two journals have overlapped, only the newest is under way.
Alone ==
  ~overlapped =>
    /\ \A e \in Event :
         InFlight(e) => IF catching # Nothing THEN e = awaiting ELSE e[1] = adopted
    /\ \A d, e \in Event : d[1] > e[1] /\ stage[d] # "none" => ~InFlight(e)

IInv ==
  /\ TypeOK
  /\ Fresh
  /\ Adoption
  /\ Queued
  /\ Awaited
  /\ Applied
  /\ Recorded
  /\ Replayed
  /\ Attached
  /\ Alone

-----------------------------------------------------------------------------
(* What the steps are made of.                                             *)

\* An event is a line of a journal, and None is no event.
LEMMA Events ==
  /\ \A e \in Event : /\ e[1] \in Journals /\ e[1] \in Nat \ {0}
                      /\ e[2] \in FeedLine /\ e[2] \in Nat
  /\ \A j \in Journals, k \in FeedLine : <<j, k>> \in Event
  /\ NoEvent \notin Event
<1>1. Journals \subseteq Nat \ {0} /\ FeedLine \subseteq Nat
  BY FeedAssumption DEF FeedLine
<1>2. \A e \in Event : e[1] \in Journals /\ e[2] \in FeedLine
  BY DEF Event
<1>3. \A j \in Journals, k \in FeedLine : <<j, k>> \in Event
  BY DEF Event
<1>4. NoEvent \notin Event
  BY <1>1, <1>2 DEF NoEvent
<1> QED
  BY <1>1, <1>2, <1>3, <1>4

\* What the sequences, sets and references of the state refer to are events.
LEMMA Members ==
  ASSUME TypeOK
  PROVE  /\ \A n \in DOMAIN queue : queue[n] \in Event
         /\ \A n \in DOMAIN applied : applied[n] \in Event
         /\ awaiting # NoEvent => awaiting \in Event /\ awaiting[1] \in Journals /\ awaiting[1] # 0
         /\ caught \subseteq Event
         /\ adopted \in Nat /\ catching \in Nat
<1>1. queue \in Seq(Event) /\ applied \in Seq(Event)
  BY DEF TypeOK
<1>2. awaiting # NoEvent => awaiting \in Event
  BY DEF TypeOK
<1>3. /\ caught \subseteq Event
      /\ adopted \in Journals \cup {0} /\ catching \in Journals \cup {0}
  BY DEF TypeOK, FeedTypeOK, Nothing
<1>4. adopted \in Nat /\ catching \in Nat
  BY <1>3, FeedAssumption
<1> QED
  BY <1>1, <1>2, <1>3, <1>4, Events

\* What Append does to a sequence.
LEMMA Appended ==
  ASSUME NEW S, NEW s \in Seq(S), NEW x \in S
  PROVE  /\ Append(s, x) \in Seq(S)
         /\ DOMAIN Append(s, x) = DOMAIN s \cup {Len(s) + 1}
         /\ Len(s) + 1 \notin DOMAIN s
         /\ \A n \in DOMAIN s : Append(s, x)[n] = s[n]
         /\ Append(s, x)[Len(s) + 1] = x
OBVIOUS

\* What Head and Tail take from a sequence.
LEMMA Taken ==
  ASSUME NEW S, NEW s \in Seq(S), s # <<>>
  PROVE  /\ Tail(s) \in Seq(S)
         /\ 1 \in DOMAIN s /\ Head(s) = s[1] /\ Head(s) \in S
         /\ \A n \in DOMAIN Tail(s) :
              /\ n \in Nat /\ n + 1 \in DOMAIN s /\ n + 1 # 1 /\ Tail(s)[n] = s[n + 1]
OBVIOUS

\* The feed delivers a line that has not begun, nor has any after it.
LEMMA Delivery ==
  ASSUME TypeOK, Fresh, NEW j \in Journals, NEW k \in FeedLine, Deliver(j, k)
  PROVE  /\ <<j, k>> \in Event /\ stage[<<j, k>>] = "none"
         /\ \A e \in Event : (e[1] = j /\ e[2] >= k) => stage[e] = "none"
         /\ \A e \in Event :
              delivered'[e[1]][e[2]] = 0 => e # <<j, k>> /\ delivered[e[1]][e[2]] = 0
         /\ delivered' \in [Journals -> [FeedLine -> Nat]]
         /\ UNCHANGED <<adopted, catching, reading, disturbed>>
<1>1. /\ <<j, k>> \in Event
      /\ \A e \in Event : e[1] \in Journals /\ e[2] \in FeedLine /\ e[2] \in Nat
      /\ k \in Nat
  BY Events
<1>2. /\ \A m \in FeedLine : m >= k => delivered[j][m] = 0
      /\ delivered' = [delivered EXCEPT ![j][k] = @ + 1]
      /\ UNCHANGED <<adopted, catching, reading, disturbed>>
  BY DEF Deliver, Fresh
<1>3. delivered \in [Journals -> [FeedLine -> Nat]]
  BY DEF TypeOK, FeedTypeOK
<1>4. \A e \in Event : (e[1] = j /\ e[2] >= k) => stage[e] = "none"
  BY <1>1, <1>2 DEF Fresh
<1>5. stage[<<j, k>>] = "none"
  BY <1>1, <1>4
<1>6. delivered'[j][k] # 0
  BY <1>2, <1>3
<1>7. ASSUME NEW e \in Event, delivered'[e[1]][e[2]] = 0
      PROVE  e # <<j, k>> /\ delivered[e[1]][e[2]] = 0
  BY <1>1, <1>2, <1>3, <1>6, <1>7
<1>8. delivered' \in [Journals -> [FeedLine -> Nat]]
  BY <1>2, <1>3
<1> QED
  BY <1>1, <1>2, <1>4, <1>5, <1>7, <1>8

\* An append to the ring keeps what it holds.
LEMMA RingGrows ==
  ASSUME TypeOK, NEW e \in Event, ring' = Append(ring, e)
  PROVE  /\ ring' \in Seq(Event) /\ InRing(e)'
         /\ \A x \in Event : InRing(x) => InRing(x)'
BY Appended DEF TypeOK, InRing

\* One dispatch goes on, the others stay where they are.
LEMMA Moved ==
  ASSUME TypeOK, NEW e \in Event, NEW s \in Stages, stage' = [stage EXCEPT ![e] = s]
  PROVE  /\ stage' \in [Event -> Stages]
         /\ stage'[e] = s
         /\ \A x \in Event \ {e} : stage'[x] = stage[x]
BY DEF TypeOK

\* A dispatch begins at the first recorder, or after it when the session is closed.
LEMMA Beginning ==
  ASSUME TypeOK, NEW e \in Event, Begun(e)
  PROVE  /\ stage' \in [Event -> Stages]
         /\ stage'[e] \in {"recording", "pushing"}
         /\ \A x \in Event \ {e} : stage'[x] = stage[x]
         /\ ring' \in Seq(Event)
         /\ \A x \in Event : InRing(x) => InRing(x)'
         /\ stage'[e] = "pushing" => session = "closed" /\ InRing(e)'
<1>1. CASE session = "closed"
  <2>1. stage' = [stage EXCEPT ![e] = "pushing"] /\ ring' = Append(ring, e)
    BY <1>1 DEF Begun
  <2>2. "pushing" \in Stages
    BY DEF Stages
  <2> HIDE DEF Begun
  <2> QED
    BY <1>1, <2>1, <2>2, RingGrows, Moved
<1>2. CASE session # "closed"
  <2>1. stage' = [stage EXCEPT ![e] = "recording"] /\ ring' = ring
    BY <1>2 DEF Begun
  <2>2. "recording" \in Stages
    BY DEF Stages
  <2>3. ring' \in Seq(Event) /\ \A x \in Event : InRing(x) => InRing(x)'
    BY <2>1 DEF TypeOK, InRing
  <2> QED
    BY <2>1, <2>2, <2>3, Moved
<1> QED
  BY <1>1, <1>2

\* The recorder has returned.
LEMMA Pushing ==
  ASSUME TypeOK, NEW e \in Event, Push(e)
  PROVE  /\ stage' \in [Event -> Stages]
         /\ stage'[e] = "pushing"
         /\ \A x \in Event \ {e} : stage'[x] = stage[x]
         /\ ring' \in Seq(Event) /\ InRing(e)'
         /\ \A x \in Event : InRing(x) => InRing(x)'
BY RingGrows, Moved DEF Push, Stages

\* The handlers have run.
LEMMA Applying ==
  ASSUME TypeOK, NEW e \in Event, Apply(e)
  PROVE  /\ stage[e] = "pushing" /\ stage'[e] = "done"
         /\ stage' \in [Event -> Stages]
         /\ \A x \in Event \ {e} : stage'[x] = stage[x]
         /\ applied' \in Seq(Event)
         /\ DOMAIN applied' = DOMAIN applied \cup {Len(applied) + 1}
         /\ Len(applied) + 1 \notin DOMAIN applied
         /\ \A n \in DOMAIN applied : applied'[n] = applied[n] /\ applied[n] \in Event
         /\ applied'[Len(applied) + 1] = e
<1>1. /\ applied \in Seq(Event) /\ applied' = Append(applied, e)
      /\ stage' = [stage EXCEPT ![e] = "done"] /\ stage[e] = "pushing"
      /\ "done" \in Stages
  BY DEF TypeOK, Apply, Stages
<1>2. \A n \in DOMAIN applied : applied[n] \in Event
  BY <1>1
<1> HIDE DEF Apply
<1>3. /\ stage' \in [Event -> Stages] /\ stage'[e] = "done"
      /\ \A x \in Event \ {e} : stage'[x] = stage[x]
  BY <1>1, Moved
<1> QED
  BY <1>1, <1>2, <1>3, Appended

\* The dispatch of e begins no line but a new one of its journal.
NewLine(e) ==
  /\ stage[e] = "none"
  /\ \A x \in Event : (x[1] = e[1] /\ x[2] >= e[2]) => stage[x] = "none"
  /\ \A x \in Event : delivered'[x[1]][x[2]] = 0 => x # e /\ delivered[x[1]][x[2]] = 0
  /\ delivered' \in [Journals -> [FeedLine -> Nat]]
  /\ stage' \in [Event -> Stages]
  /\ \A x \in Event \ {e} : stage'[x] = stage[x]
  /\ UNCHANGED <<adopted, catching, reading, disturbed, session, running, rows, applied, unsaved>>

\* e is queued by the live tailer.
Queues(e) ==
  /\ NewLine(e)
  /\ e[1] <= adopted
  /\ running = "yes"
  /\ stage'[e] = "queued"
  /\ queue' \in Seq(Event)
  /\ DOMAIN queue' = DOMAIN queue \cup {Len(queue) + 1}
  /\ Len(queue) + 1 \notin DOMAIN queue
  /\ \A n \in DOMAIN queue : queue'[n] = queue[n]
  /\ queue'[Len(queue) + 1] = e
  /\ overlapped' = (overlapped \/ catching # Nothing \/ e[1] < adopted)
  /\ UNCHANGED <<awaiting, ring, caught>>

\* e is dispatched and awaited by the catch-up read.
Replays(e) ==
  /\ NewLine(e)
  /\ e[1] = catching /\ catching # Nothing
  /\ running = "yes"
  /\ stage'[e] \in {"recording", "pushing"}
  /\ ring' \in Seq(Event)
  /\ \A x \in Event : InRing(x) => InRing(x)'
  /\ stage'[e] = "pushing" => session = "closed" /\ InRing(e)'
  /\ awaiting = NoEvent /\ awaiting' = e
  /\ caught' = caught \cup {e}
  /\ UNCHANGED <<queue, overlapped>>

\* The live tailer queues a line of the adopted journal or an older one.
LEMMA Queueing ==
  ASSUME TypeOK, Fresh, NEW j \in Journals, NEW k \in FeedLine, Bridge(j, k)
  PROVE  \E e \in Event : Queues(e)
<1> DEFINE e == <<j, k>>
<1>1. e \in Event /\ e[1] = j /\ e[2] = k
  BY Events
<1>2. /\ queue \in Seq(Event) /\ queue' = Append(queue, e)
      /\ stage' = [stage EXCEPT ![e] = "queued"]
      /\ "queued" \in Stages
      /\ j <= adopted /\ Deliver(j, k)
      /\ overlapped' = (overlapped \/ catching # Nothing \/ j < adopted)
  BY DEF TypeOK, Fresh, Bridge, LiveDeliver, Stages
<1>3. /\ stage[e] = "none"
      /\ \A x \in Event : (x[1] = j /\ x[2] >= k) => stage[x] = "none"
      /\ \A x \in Event :
           delivered'[x[1]][x[2]] = 0 => x # e /\ delivered[x[1]][x[2]] = 0
      /\ delivered' \in [Journals -> [FeedLine -> Nat]]
  BY <1>2, Delivery
<1> HIDE DEF e
<1>4. /\ stage' \in [Event -> Stages] /\ stage'[e] = "queued"
      /\ \A x \in Event \ {e} : stage'[x] = stage[x]
  BY <1>1, <1>2, Moved
<1>5. /\ queue' \in Seq(Event)
      /\ DOMAIN queue' = DOMAIN queue \cup {Len(queue) + 1}
      /\ Len(queue) + 1 \notin DOMAIN queue
      /\ \A n \in DOMAIN queue : queue'[n] = queue[n]
      /\ queue'[Len(queue) + 1] = e
  BY <1>1, <1>2, Appended
<1>6. /\ running = "yes"
      /\ UNCHANGED <<adopted, catching, reading, disturbed, session, running, rows, applied, unsaved>>
      /\ UNCHANGED <<awaiting, ring, caught>>
  BY DEF Bridge, LiveDeliver, Deliver
<1> QED
  BY <1>1, <1>2, <1>3, <1>4, <1>6 DEF Queues, NewLine

\* The catch-up read dispatches the next line of its journal and awaits it.
LEMMA CatchingUp ==
  ASSUME TypeOK, Fresh, NEW j \in Journals, NEW k \in FeedLine, CatchUp(j, k)
  PROVE  \E e \in Event : Replays(e)
<1> DEFINE e == <<j, k>>
<1>1. e \in Event /\ e[1] = j /\ e[2] = k /\ j # Nothing
  BY Events DEF Nothing
<1>2. /\ catching = j /\ Deliver(j, k) /\ Begun(e)
      /\ awaiting = NoEvent /\ awaiting' = e
      /\ caught' = caught \cup {e}
  BY DEF CatchUp, CatchUpDeliver
<1>3. /\ stage[e] = "none"
      /\ \A x \in Event : (x[1] = j /\ x[2] >= k) => stage[x] = "none"
      /\ \A x \in Event :
           delivered'[x[1]][x[2]] = 0 => x # e /\ delivered[x[1]][x[2]] = 0
      /\ delivered' \in [Journals -> [FeedLine -> Nat]]
  BY <1>2, Delivery
<1>4. /\ running = "yes"
      /\ UNCHANGED <<adopted, catching, reading, disturbed, session, running, rows, applied, unsaved>>
      /\ UNCHANGED <<queue, overlapped>>
  BY DEF CatchUp, CatchUpDeliver, Deliver
<1> HIDE DEF e
<1>5. /\ stage' \in [Event -> Stages] /\ stage'[e] \in {"recording", "pushing"}
      /\ \A x \in Event \ {e} : stage'[x] = stage[x]
      /\ ring' \in Seq(Event)
      /\ \A x \in Event : InRing(x) => InRing(x)'
      /\ stage'[e] = "pushing" => session = "closed" /\ InRing(e)'
  BY <1>1, <1>2, Beginning
<1> QED
  BY <1>1, <1>2, <1>3, <1>4, <1>5 DEF Replays, NewLine

\* Stopping the watcher cancels the awaited dispatch.
LEMMA Stopping ==
  ASSUME TypeOK, StopWatcher
  PROVE  /\ stage' \in [Event -> Stages]
         /\ awaiting # NoEvent => stage'[awaiting] = "cancelled"
         /\ \A x \in Event :
              \/ stage'[x] = stage[x]
              \/ awaiting # NoEvent /\ x = awaiting /\ stage'[x] = "cancelled"
<1>1. stage' = [x \in Event |-> IF x = awaiting THEN "cancelled" ELSE stage[x]]
  BY DEF StopWatcher
<1>2. stage \in [Event -> Stages] /\ "cancelled" \in Stages
  BY DEF TypeOK, Stages
<1>3. \A x \in Event : x # NoEvent
  BY Events
<1>4. awaiting # NoEvent => awaiting \in Event
  BY Members
<1> QED
  BY <1>1, <1>2, <1>3, <1>4

\* The exit cancels what is left.
LEMMA Exiting ==
  ASSUME TypeOK, Exit
  PROVE  /\ stage' \in [Event -> Stages]
         /\ \A x \in Event :
              IF InFlight(x) THEN stage'[x] = "cancelled" ELSE stage'[x] = stage[x]
BY DEF TypeOK, Exit, InFlight, Stages

\* A callback that is taken is of an event that is queued, and of no callback left.
LEMMA Starting ==
  ASSUME TypeOK, Queued, StartTask
  PROVE  /\ Head(queue) \in Event /\ stage[Head(queue)] = "queued" /\ Begun(Head(queue))
         /\ queue' \in Seq(Event)
         /\ \A n \in DOMAIN queue' : stage[queue'[n]] = "queued" /\ queue'[n] # Head(queue)
         /\ \A m, n \in DOMAIN queue' : queue'[m] = queue'[n] => m = n
<1>1. queue \in Seq(Event) /\ queue # <<>> /\ queue' = Tail(queue)
  BY DEF TypeOK, StartTask
<1> HIDE DEF StartTask
<1>2. /\ Tail(queue) \in Seq(Event)
      /\ 1 \in DOMAIN queue /\ Head(queue) = queue[1] /\ Head(queue) \in Event
      /\ \A n \in DOMAIN Tail(queue) :
           /\ n \in Nat /\ n + 1 \in DOMAIN queue /\ n + 1 # 1
           /\ Tail(queue)[n] = queue[n + 1]
  BY <1>1, Taken
<1>3. \A n \in DOMAIN queue' : stage[queue'[n]] = "queued" /\ queue'[n] # Head(queue)
  BY <1>1 DEF Queued
<1>4. ASSUME NEW m \in DOMAIN queue', NEW n \in DOMAIN queue', queue'[m] = queue'[n]
      PROVE  m = n
  <2>1. m + 1 = n + 1
    BY <1>1, <1>4 DEF Queued
  <2> QED
    BY <1>1, <1>2, <2>1
<1> QED
  BY <1>2 DEF Queued, StartTask

\* e leaves the queue: its task begins.
Starts(e) ==
  /\ stage[e] = "queued" /\ stage'[e] \in {"recording", "pushing"}
  /\ stage' \in [Event -> Stages]
  /\ \A x \in Event \ {e} : stage'[x] = stage[x]
  /\ queue' \in Seq(Event)
  /\ \A n \in DOMAIN queue' : stage[queue'[n]] = "queued" /\ queue'[n] # e
  /\ \A m, n \in DOMAIN queue' : queue'[m] = queue'[n] => m = n
  /\ ring' \in Seq(Event)
  /\ \A x \in Event : InRing(x) => InRing(x)'
  /\ stage'[e] = "pushing" => session = "closed" /\ InRing(e)'
  /\ delivered' = delivered /\ disturbed' = disturbed
  /\ adopted' = adopted /\ catching' = catching /\ reading' = reading
  /\ UNCHANGED <<awaiting, session, running, rows, applied, unsaved, caught, overlapped>>

\* The callback at the head of the queue begins.
LEMMA StartingTask ==
  ASSUME TypeOK, Queued, StartTask
  PROVE  \E e \in Event : Starts(e)
<1>1. PICK e : e = Head(queue)
  OBVIOUS
<1>2. /\ e \in Event /\ stage[e] = "queued" /\ Begun(e)
      /\ queue' \in Seq(Event)
      /\ \A n \in DOMAIN queue' : stage[queue'[n]] = "queued" /\ queue'[n] # e
      /\ \A m, n \in DOMAIN queue' : queue'[m] = queue'[n] => m = n
  BY <1>1, Starting
<1>3. /\ stage' \in [Event -> Stages]
      /\ stage'[e] \in {"recording", "pushing"}
      /\ \A x \in Event \ {e} : stage'[x] = stage[x]
      /\ ring' \in Seq(Event)
      /\ \A x \in Event : InRing(x) => InRing(x)'
      /\ stage'[e] = "pushing" => session = "closed" /\ InRing(e)'
  BY <1>2, Beginning
<1>4. /\ delivered' = delivered /\ disturbed' = disturbed
      /\ adopted' = adopted /\ catching' = catching /\ reading' = reading
      /\ UNCHANGED <<awaiting, session, running, rows, applied, unsaved, caught, overlapped>>
  BY DEF StartTask, feedVars
<1>5. Starts(e)
  BY <1>2, <1>3, <1>4, Zenon DEF Starts
<1> QED
  BY <1>2, <1>5

-----------------------------------------------------------------------------
(* Every step keeps every part of the invariant.                           *)

\* Every step keeps to the types.
LEMMA TypeOKKept ==
  ASSUME TypeOK, Fresh, Queued, [Next]_vars
  PROVE  TypeOK'
<1>1. ASSUME NEW j \in Journals, StartCatchUp(j) PROVE TypeOK'
  BY <1>1 DEF StartCatchUp, BeginCatchUp, pipe, TypeOK, FeedTypeOK
<1>2. ASSUME NEW j \in Journals, NEW k \in FeedLine, CatchUp(j, k) PROVE TypeOK'
  <2>1. PICK e \in Event : Replays(e)
    BY <1>2, CatchingUp
  <2> QED
    BY <2>1 DEF Replays, NewLine, TypeOK, FeedTypeOK
<1>3. ASSUME NEW j \in Journals, NEW k \in FeedLine, Bridge(j, k) PROVE TypeOK'
  <2>1. PICK e \in Event : Queues(e)
    BY <1>3, Queueing
  <2> QED
    BY <2>1 DEF Queues, NewLine, TypeOK, FeedTypeOK
<1>4. ASSUME FinishCatchUp PROVE TypeOK'
  BY <1>4 DEF FinishCatchUp, Adopt, pipe, TypeOK, FeedTypeOK
<1>5. ASSUME StartTask PROVE TypeOK'
  BY <1>5, Beginning DEF StartTask, feedVars, TypeOK, FeedTypeOK
<1>6. ASSUME NEW e \in Event, Commit(e) PROVE TypeOK'
  BY <1>6, Pushing DEF Commit, feedVars, TypeOK, FeedTypeOK
<1>7. ASSUME NEW e \in Event, CommitFails(e) PROVE TypeOK'
  BY <1>7, Pushing DEF CommitFails, feedVars, TypeOK, FeedTypeOK
<1>8. ASSUME NEW e \in Event, Apply(e) PROVE TypeOK'
  BY <1>8, Applying DEF Apply, feedVars, TypeOK, FeedTypeOK
<1>9. ASSUME StopWatcher PROVE TypeOK'
  BY <1>9, Stopping DEF StopWatcher, TypeOK, FeedTypeOK
<1>10. ASSUME BeginEndSession PROVE TypeOK'
  BY <1>10 DEF BeginEndSession, feedVars, TypeOK, FeedTypeOK
<1>11. ASSUME EndSession PROVE TypeOK'
  BY <1>11 DEF EndSession, feedVars, TypeOK, FeedTypeOK
<1>12. ASSUME Exit PROVE TypeOK'
  BY <1>12, Exiting DEF Exit, feedVars, TypeOK, FeedTypeOK
<1>13. CASE OnModified \/ Return \/ UNCHANGED vars
  BY <1>13 DEF OnModified, Return, BeginBatch, EndBatch, vars, pipe, feedVars,
     TypeOK, FeedTypeOK
<1> QED
  BY <1>1, <1>2, <1>3, <1>4, <1>5, <1>6, <1>7, <1>8, <1>9, <1>10, <1>11, <1>12, <1>13
     DEF Next, TaskStep

\* Journals and the absence of one are natural numbers.
LEMMA ReadingType ==
  ASSUME TypeOK PROVE reading \in Nat /\ adopted \in Nat /\ catching \in Nat
BY FeedAssumption DEF TypeOK, FeedTypeOK, Nothing

\* Only a delivered line begins.
LEMMA FreshKept ==
  ASSUME TypeOK, Fresh, Adoption, Queued, Awaited, [Next]_vars
  PROVE  Fresh'
<1>1. ASSUME NEW j \in Journals, StartCatchUp(j) PROVE Fresh'
  BY <1>1 DEF StartCatchUp, BeginCatchUp, pipe, Fresh
<1>2. ASSUME NEW j \in Journals, NEW k \in FeedLine, CatchUp(j, k) PROVE Fresh'
  <2>1. PICK e \in Event : Replays(e)
    BY <1>2, CatchingUp
  <2> QED
    BY <2>1 DEF Replays, NewLine, Fresh
<1>3. ASSUME NEW j \in Journals, NEW k \in FeedLine, Bridge(j, k) PROVE Fresh'
  <2>1. PICK e \in Event : Queues(e)
    BY <1>3, Queueing
  <2> QED
    BY <2>1, Members DEF Queues, NewLine, Fresh, InFlight, Awaited
<1>4. ASSUME FinishCatchUp PROVE Fresh'
  BY <1>4, ReadingType DEF FinishCatchUp, Adopt, pipe, Adoption, Fresh
<1>5. ASSUME StartTask PROVE Fresh'
  <2>1. PICK e \in Event : Starts(e)
    BY <1>5, StartingTask
  <2> QED
    BY <2>1 DEF Starts, Fresh
<1>6. ASSUME NEW e \in Event, Commit(e) PROVE Fresh'
  BY <1>6, Pushing DEF Commit, feedVars, Fresh
<1>7. ASSUME NEW e \in Event, CommitFails(e) PROVE Fresh'
  BY <1>7, Pushing DEF CommitFails, feedVars, Fresh
<1>8. ASSUME NEW e \in Event, Apply(e) PROVE Fresh'
  BY <1>8 DEF Apply, feedVars, Fresh
<1>9. ASSUME StopWatcher PROVE Fresh'
  BY <1>9, Stopping DEF StopWatcher, Fresh, Awaited
<1>10. ASSUME BeginEndSession PROVE Fresh'
  BY <1>10 DEF BeginEndSession, feedVars, Fresh
<1>11. ASSUME EndSession PROVE Fresh'
  BY <1>11 DEF EndSession, feedVars, Fresh
<1>12. ASSUME Exit PROVE Fresh'
  BY <1>12 DEF Exit, feedVars, Fresh, InFlight
<1>13. CASE OnModified \/ Return \/ UNCHANGED vars
  BY <1>13, ReadingType
     DEF OnModified, Return, BeginBatch, EndBatch, vars, pipe, feedVars, Fresh, Nothing
<1> QED
  BY <1>1, <1>2, <1>3, <1>4, <1>5, <1>6, <1>7, <1>8, <1>9, <1>10, <1>11, <1>12, <1>13
     DEF Next, TaskStep

\* Journals are adopted from older to newer.
LEMMA AdoptionKept ==
  ASSUME TypeOK, Fresh, Queued, Adoption, [Next]_vars
  PROVE  Adoption'
<1>1. ASSUME NEW j \in Journals, StartCatchUp(j) PROVE Adoption'
  BY <1>1 DEF StartCatchUp, BeginCatchUp, Adoption
<1>2. ASSUME NEW j \in Journals, NEW k \in FeedLine, CatchUp(j, k) PROVE Adoption'
  <2>1. PICK e \in Event : Replays(e)
    BY <1>2, CatchingUp
  <2> QED
    BY <2>1 DEF Replays, NewLine, Adoption
<1>3. ASSUME NEW j \in Journals, NEW k \in FeedLine, Bridge(j, k) PROVE Adoption'
  <2>1. PICK e \in Event : Queues(e)
    BY <1>3, Queueing
  <2> QED
    BY <2>1 DEF Queues, NewLine, Adoption
<1>4. ASSUME FinishCatchUp PROVE Adoption'
  BY <1>4 DEF FinishCatchUp, Adopt, Adoption
<1>5. ASSUME StartTask PROVE Adoption'
  BY <1>5 DEF StartTask, feedVars, Adoption
<1>6. ASSUME NEW e \in Event, Commit(e) PROVE Adoption'
  BY <1>6 DEF Commit, feedVars, Adoption
<1>7. ASSUME NEW e \in Event, CommitFails(e) PROVE Adoption'
  BY <1>7 DEF CommitFails, feedVars, Adoption
<1>8. ASSUME NEW e \in Event, Apply(e) PROVE Adoption'
  BY <1>8 DEF Apply, feedVars, Adoption
<1>9. ASSUME StopWatcher PROVE Adoption'
  BY <1>9 DEF StopWatcher, Adoption
<1>10. ASSUME BeginEndSession PROVE Adoption'
  BY <1>10 DEF BeginEndSession, feedVars, Adoption
<1>11. ASSUME EndSession PROVE Adoption'
  BY <1>11 DEF EndSession, feedVars, Adoption
<1>12. ASSUME Exit PROVE Adoption'
  BY <1>12 DEF Exit, feedVars, Adoption
<1>13. CASE OnModified \/ Return \/ UNCHANGED vars
  BY <1>13 DEF OnModified, Return, BeginBatch, EndBatch, vars, feedVars, Adoption
<1> QED
  BY <1>1, <1>2, <1>3, <1>4, <1>5, <1>6, <1>7, <1>8, <1>9, <1>10, <1>11, <1>12, <1>13
     DEF Next, TaskStep

\* A callback stays until its task starts.
LEMMA QueuedKept ==
  ASSUME TypeOK, Fresh, Queued, Awaited, [Next]_vars
  PROVE  Queued'
<1>1. ASSUME NEW j \in Journals, StartCatchUp(j) PROVE Queued'
  BY <1>1 DEF StartCatchUp, pipe, Queued
<1>2. ASSUME NEW j \in Journals, NEW k \in FeedLine, CatchUp(j, k) PROVE Queued'
  <2>1. PICK e \in Event : Replays(e)
    BY <1>2, CatchingUp
  <2> QED
    BY <2>1, Members DEF Replays, NewLine, Queued
<1>3. ASSUME NEW j \in Journals, NEW k \in FeedLine, Bridge(j, k) PROVE Queued'
  <2>1. PICK e \in Event : Queues(e)
    BY <1>3, Queueing
  <2> QED
    <3>1. PICK n : n = Len(queue) + 1
      OBVIOUS
    <3>2. /\ stage[e] = "none" /\ stage'[e] = "queued"
          /\ \A x \in Event \ {e} : stage'[x] = stage[x]
      BY <2>1 DEF Queues, NewLine
    <3>3. /\ DOMAIN (queue') = DOMAIN queue \cup {n} /\ n \notin DOMAIN queue
          /\ \A m \in DOMAIN queue : queue'[m] = queue[m]
          /\ queue'[n] = e
      BY <2>1, <3>1 DEF Queues
    <3>4. \A m \in DOMAIN queue : queue[m] \in Event /\ stage[queue[m]] = "queued"
      BY Members DEF Queued
    <3>5. \A m \in DOMAIN queue : queue[m] # e
      BY <3>2, <3>4
    <3>6. \A m \in DOMAIN (queue') : stage'[queue'[m]] = "queued"
      BY <3>2, <3>3, <3>4, <3>5
    <3>7. \A l, m \in DOMAIN (queue') : queue'[l] = queue'[m] => l = m
      BY <3>3, <3>5 DEF Queued
    <3> QED
      BY <3>6, <3>7 DEF Queued
<1>4. ASSUME FinishCatchUp PROVE Queued'
  BY <1>4 DEF FinishCatchUp, pipe, Queued
<1>5. ASSUME StartTask PROVE Queued'
  <2>1. PICK e \in Event : Starts(e)
    BY <1>5, StartingTask
  <2> QED
    BY <2>1 DEF Starts, Queued
<1>6. ASSUME NEW e \in Event, Commit(e) PROVE Queued'
  BY <1>6, Pushing, Members DEF Commit, Queued
<1>7. ASSUME NEW e \in Event, CommitFails(e) PROVE Queued'
  BY <1>7, Pushing, Members DEF CommitFails, Queued
<1>8. ASSUME NEW e \in Event, Apply(e) PROVE Queued'
  BY <1>8 DEF Apply, Queued
<1>9. ASSUME StopWatcher PROVE Queued'
  BY <1>9, Stopping, Members DEF StopWatcher, Queued, Awaited
<1>10. ASSUME BeginEndSession PROVE Queued'
  BY <1>10 DEF BeginEndSession, Queued
<1>11. ASSUME EndSession PROVE Queued'
  BY <1>11 DEF EndSession, Queued
<1>12. ASSUME Exit PROVE Queued'
  BY <1>12 DEF Exit, Queued
<1>13. CASE OnModified \/ Return \/ UNCHANGED vars
  BY <1>13 DEF OnModified, Return, BeginBatch, EndBatch, vars, pipe, Queued
<1> QED
  BY <1>1, <1>2, <1>3, <1>4, <1>5, <1>6, <1>7, <1>8, <1>9, <1>10, <1>11, <1>12, <1>13
     DEF Next, TaskStep

\* The catch-up read goes on when the awaited dispatch has returned.
LEMMA AwaitedKept ==
  ASSUME TypeOK, Fresh, Queued, Awaited, [Next]_vars
  PROVE  Awaited'
<1>1. ASSUME NEW j \in Journals, StartCatchUp(j) PROVE Awaited'
  BY <1>1, Members DEF StartCatchUp, BeginCatchUp, pipe, Awaited, Nothing
<1>2. ASSUME NEW j \in Journals, NEW k \in FeedLine, CatchUp(j, k) PROVE Awaited'
  <2>1. PICK e \in Event : Replays(e)
    BY <1>2, CatchingUp
  <2> QED
    BY <2>1 DEF Replays, NewLine, Awaited
<1>3. ASSUME NEW j \in Journals, NEW k \in FeedLine, Bridge(j, k) PROVE Awaited'
  <2>1. PICK e \in Event : Queues(e)
    BY <1>3, Queueing
  <2> QED
    BY <2>1, Members DEF Queues, NewLine, Awaited
<1>4. ASSUME FinishCatchUp PROVE Awaited'
  BY <1>4 DEF FinishCatchUp, pipe, Awaited
<1>5. ASSUME StartTask PROVE Awaited'
  <2>1. PICK e \in Event : Starts(e)
    BY <1>5, StartingTask
  <2> QED
    BY <2>1, Members DEF Starts, Awaited
<1>6. ASSUME NEW e \in Event, Commit(e) PROVE Awaited'
  BY <1>6, Pushing, Members DEF Commit, feedVars, Awaited
<1>7. ASSUME NEW e \in Event, CommitFails(e) PROVE Awaited'
  BY <1>7, Pushing, Members DEF CommitFails, feedVars, Awaited
<1>8. ASSUME NEW e \in Event, Apply(e) PROVE Awaited'
  BY <1>8 DEF Apply, feedVars, Awaited
<1>9. ASSUME StopWatcher PROVE Awaited'
  BY <1>9 DEF StopWatcher, Awaited
<1>10. ASSUME BeginEndSession PROVE Awaited'
  BY <1>10 DEF BeginEndSession, Awaited
<1>11. ASSUME EndSession PROVE Awaited'
  BY <1>11 DEF EndSession, Awaited
<1>12. ASSUME Exit PROVE Awaited'
  BY <1>12 DEF Exit, Awaited
<1>13. CASE OnModified \/ Return \/ UNCHANGED vars
  BY <1>13 DEF OnModified, Return, BeginBatch, EndBatch, vars, pipe, feedVars, Awaited
<1> QED
  BY <1>1, <1>2, <1>3, <1>4, <1>5, <1>6, <1>7, <1>8, <1>9, <1>10, <1>11, <1>12, <1>13
     DEF Next, TaskStep

\* What is done is not done again.
LEMMA AppliedKept ==
  ASSUME TypeOK, Fresh, Queued, Awaited, Applied, [Next]_vars
  PROVE  Applied'
<1>1. ASSUME NEW j \in Journals, StartCatchUp(j) PROVE Applied'
  BY <1>1 DEF StartCatchUp, pipe, Applied
<1>2. ASSUME NEW j \in Journals, NEW k \in FeedLine, CatchUp(j, k) PROVE Applied'
  <2>1. PICK e \in Event : Replays(e)
    BY <1>2, CatchingUp
  <2> QED
    BY <2>1, Members DEF Replays, NewLine, Applied
<1>3. ASSUME NEW j \in Journals, NEW k \in FeedLine, Bridge(j, k) PROVE Applied'
  <2>1. PICK e \in Event : Queues(e)
    BY <1>3, Queueing
  <2> QED
    <3>1. /\ stage[e] = "none" /\ applied' = applied
          /\ \A x \in Event \ {e} : stage'[x] = stage[x]
      BY <2>1 DEF Queues, NewLine
    <3>2. \A n \in DOMAIN applied : applied[n] \in Event /\ stage[applied[n]] = "done"
      BY Members DEF Applied
    <3>3. \A n \in DOMAIN applied : stage'[applied[n]] = "done"
      BY <3>1, <3>2
    <3> QED
      BY <3>1, <3>3 DEF Applied
<1>4. ASSUME FinishCatchUp PROVE Applied'
  BY <1>4 DEF FinishCatchUp, pipe, Applied
<1>5. ASSUME StartTask PROVE Applied'
  <2>1. PICK e \in Event : Starts(e)
    BY <1>5, StartingTask
  <2>2. \A n \in DOMAIN applied : applied[n] \in Event \ {e}
    BY <2>1, Members DEF Starts, Applied
  <2>3. /\ applied' = applied
        /\ \A x \in Event \ {e} : stage'[x] = stage[x]
    BY <2>1 DEF Starts
  <2>4. \A n \in DOMAIN applied : stage'[applied[n]] = "done"
    BY <2>2, <2>3 DEF Applied
  <2> QED
    BY <2>3, <2>4 DEF Applied
<1>6. ASSUME NEW e \in Event, Commit(e) PROVE Applied'
  BY <1>6, Pushing, Members DEF Commit, Applied
<1>7. ASSUME NEW e \in Event, CommitFails(e) PROVE Applied'
  BY <1>7, Pushing, Members DEF CommitFails, Applied
<1>8. ASSUME NEW e \in Event, Apply(e) PROVE Applied'
  BY <1>8, Applying DEF Applied
<1>9. ASSUME StopWatcher PROVE Applied'
  BY <1>9, Stopping, Members DEF StopWatcher, Applied, Awaited
<1>10. ASSUME BeginEndSession PROVE Applied'
  BY <1>10 DEF BeginEndSession, Applied
<1>11. ASSUME EndSession PROVE Applied'
  BY <1>11 DEF EndSession, Applied
<1>12. ASSUME Exit PROVE Applied'
  BY <1>12, Members DEF Exit, Applied, InFlight
<1>13. CASE OnModified \/ Return \/ UNCHANGED vars
  BY <1>13 DEF OnModified, Return, BeginBatch, EndBatch, vars, pipe, Applied
<1> QED
  BY <1>1, <1>2, <1>3, <1>4, <1>5, <1>6, <1>7, <1>8, <1>9, <1>10, <1>11, <1>12, <1>13
     DEF Next, TaskStep

\* The recorders come before the handlers.
LEMMA RecordedKept ==
  ASSUME TypeOK, Fresh, Queued, Recorded, [Next]_vars
  PROVE  Recorded'
<1>1. ASSUME NEW j \in Journals, StartCatchUp(j) PROVE Recorded'
  BY <1>1 DEF StartCatchUp, pipe, Recorded, InRing
<1>2. ASSUME NEW j \in Journals, NEW k \in FeedLine, CatchUp(j, k) PROVE Recorded'
  <2>1. PICK e \in Event : Replays(e)
    BY <1>2, CatchingUp
  <2> QED
    BY <2>1 DEF Replays, NewLine, Recorded, Late
<1>3. ASSUME NEW j \in Journals, NEW k \in FeedLine, Bridge(j, k) PROVE Recorded'
  <2>1. PICK e \in Event : Queues(e)
    BY <1>3, Queueing
  <2> QED
    BY <2>1, Members DEF Queues, NewLine, Recorded, Late, InFlight, InRing
<1>4. ASSUME FinishCatchUp PROVE Recorded'
  BY <1>4 DEF FinishCatchUp, pipe, Recorded, InRing
<1>5. ASSUME StartTask PROVE Recorded'
  <2>1. PICK e \in Event : Starts(e)
    BY <1>5, StartingTask
  <2> QED
    BY <2>1 DEF Starts, Recorded, Late
<1>6. ASSUME NEW e \in Event, Commit(e) PROVE Recorded'
  BY <1>6, Pushing DEF Commit, Recorded
<1>7. ASSUME NEW e \in Event, CommitFails(e) PROVE Recorded'
  BY <1>7, Pushing DEF CommitFails, Recorded
<1>8. ASSUME NEW e \in Event, Apply(e) PROVE Recorded'
  BY <1>8 DEF Apply, Recorded, Late, InRing
<1>9. ASSUME StopWatcher PROVE Recorded'
  BY <1>9 DEF StopWatcher, Recorded, Late, InRing
<1>10. ASSUME BeginEndSession PROVE Recorded'
  BY <1>10 DEF BeginEndSession, Recorded, InRing
<1>11. ASSUME EndSession PROVE Recorded'
  BY <1>11 DEF EndSession, Recorded, InRing
<1>12. ASSUME Exit PROVE Recorded'
  BY <1>12 DEF Exit, Recorded, Late, InRing
<1>13. CASE OnModified \/ Return \/ UNCHANGED vars
  BY <1>13 DEF OnModified, Return, BeginBatch, EndBatch, vars, pipe, Recorded, InRing
<1> QED
  BY <1>1, <1>2, <1>3, <1>4, <1>5, <1>6, <1>7, <1>8, <1>9, <1>10, <1>11, <1>12, <1>13
     DEF Next, TaskStep

\* The replay keeps the order of the file: a replayed line is awaited before the next one,
\* and a journal that is caught up is newer than the one that is tailed.
LEMMA ReplayedKept ==
  ASSUME TypeOK, Fresh, Queued, Adoption, Awaited, Replayed, [Next]_vars
  PROVE  Replayed'
<1>1. ASSUME NEW j \in Journals, StartCatchUp(j) PROVE Replayed'
  BY <1>1 DEF StartCatchUp, pipe, Replayed
<1>2. ASSUME NEW j \in Journals, NEW k \in FeedLine, CatchUp(j, k) PROVE Replayed'
  <2>1. PICK e \in Event : Replays(e)
    BY <1>2, CatchingUp
  <2>2. \A x \in caught : x \in Event /\ x # NoEvent /\ stage[x] \in Over /\ x # e
    BY <2>1, Members, Events DEF Replayed, Replays, NewLine, Over
  <2>3. \A x \in caught' : stage'[x] \in Over \/ awaiting' = x
    BY <2>1, <2>2 DEF Replays, NewLine
  <2>4. ASSUME NEW d \in Event, NEW x \in caught',
               d[1] = x[1], d[2] > x[2], stage'[d] # "none"
        PROVE  stage'[x] \in Over
    <3>1. CASE x = e
      <4>1. stage[d] = "none" /\ d # e
        BY <2>1, <2>4, <3>1, Events DEF Replays, NewLine
      <4> QED
        BY <2>1, <2>4, <4>1 DEF Replays, NewLine
    <3>2. CASE x # e
      BY <2>1, <2>2, <3>2 DEF Replays, NewLine
    <3> QED
      BY <3>1, <3>2
  <2> QED
    BY <2>3, <2>4 DEF Replayed
<1>3. ASSUME NEW j \in Journals, NEW k \in FeedLine, Bridge(j, k) PROVE Replayed'
  <2>1. PICK e \in Event : Queues(e)
    BY <1>3, Queueing
  <2>2. \A x \in caught : x \in Event /\ (stage[x] \in Over \/ awaiting = x)
    BY Members DEF Replayed
  <2>3. \A x \in caught : x # e /\ stage'[x] = stage[x]
    <3>1. stage[e] = "none" /\ \A x \in Event \ {e} : stage'[x] = stage[x]
      BY <2>1 DEF Queues, NewLine
    <3>2. e # awaiting
      BY <3>1, Events DEF Awaited
    <3> QED
      BY <2>2, <3>1, <3>2 DEF Over
  <2>4. \A x \in caught' : stage'[x] \in Over \/ awaiting' = x
    BY <2>1, <2>2, <2>3 DEF Queues
  <2>5. ASSUME NEW d \in Event, NEW x \in caught,
               d[1] = x[1], d[2] > x[2], stage'[d] # "none"
        PROVE  stage'[x] \in Over
    <3>1. CASE d = e
      <4>1. awaiting # x
        <5>1. SUFFICES ASSUME awaiting = x PROVE FALSE
          OBVIOUS
        <5>2. x[1] = catching /\ catching # Nothing
          BY <5>1, Events, Members DEF Awaited, Nothing
        <5>3. x[1] <= adopted /\ x[1] \in Nat
          BY <2>1, <2>5, <3>1, Events DEF Queues
        <5> QED
          BY <5>2, <5>3, Members DEF Adoption
      <4> QED
        BY <2>2, <2>3, <4>1
    <3>2. CASE d # e
      <4>1. stage[d] # "none"
        BY <2>1, <2>5, <3>2 DEF Queues, NewLine
      <4>2. stage[x] \in Over
        BY <2>5, <4>1 DEF Replayed
      <4> QED
        BY <2>3, <4>2
    <3> QED
      BY <3>1, <3>2
  <2> QED
    BY <2>1, <2>4, <2>5 DEF Replayed, Queues
<1>4. ASSUME FinishCatchUp PROVE Replayed'
  BY <1>4 DEF FinishCatchUp, pipe, Replayed
<1>5. ASSUME StartTask PROVE Replayed'
  <2>1. PICK e \in Event : Starts(e)
    BY <1>5, StartingTask
  <2>2. /\ caught' = caught /\ awaiting' = awaiting
        /\ \A x \in Event \ {e} : stage'[x] = stage[x]
        /\ stage[e] = "queued"
    BY <2>1 DEF Starts
  <2>3. \A x \in caught : x \in Event /\ x # e
    BY <2>2, Members, Events DEF Replayed, Awaited, Over
  <2>4. \A x \in caught : stage'[x] = stage[x]
    BY <2>2, <2>3
  <2>5. \A d \in Event : stage'[d] # "none" => stage[d] # "none"
    BY <2>2
  <2>6. \A x \in caught' : stage'[x] \in Over \/ awaiting' = x
    BY <2>2, <2>4 DEF Replayed
  <2>7. \A d \in Event, x \in caught' :
          (d[1] = x[1] /\ d[2] > x[2] /\ stage'[d] # "none") => stage'[x] \in Over
    BY <2>2, <2>4, <2>5 DEF Replayed
  <2> QED
    BY <2>6, <2>7 DEF Replayed
<1>6. ASSUME NEW e \in Event, Commit(e) PROVE Replayed'
  BY <1>6, Pushing, Members DEF Commit, Replayed, Over
<1>7. ASSUME NEW e \in Event, CommitFails(e) PROVE Replayed'
  BY <1>7, Pushing, Members DEF CommitFails, Replayed, Over
<1>8. ASSUME NEW e \in Event, Apply(e) PROVE Replayed'
  <2>1. caught' = caught /\ awaiting' = IF awaiting = e THEN NoEvent ELSE awaiting
    BY <1>8 DEF Apply
  <2>2. /\ stage[e] = "pushing" /\ stage'[e] = "done"
        /\ \A x \in Event \ {e} : stage'[x] = stage[x]
    BY <1>8, Applying
  <2>3. \A x \in caught : x \in Event /\ (stage[x] \in Over \/ awaiting = x)
    BY Members DEF Replayed
  <2> QED
    BY <2>1, <2>2, <2>3 DEF Replayed, Over
<1>9. ASSUME StopWatcher PROVE Replayed'
  BY <1>9, Members DEF StopWatcher, Replayed, Over
<1>10. ASSUME BeginEndSession PROVE Replayed'
  BY <1>10 DEF BeginEndSession, Replayed
<1>11. ASSUME EndSession PROVE Replayed'
  BY <1>11 DEF EndSession, Replayed
<1>12. ASSUME Exit PROVE Replayed'
  BY <1>12, Members DEF Exit, Replayed, Over, InFlight
<1>13. CASE OnModified \/ Return \/ UNCHANGED vars
  BY <1>13 DEF OnModified, Return, BeginBatch, EndBatch, vars, pipe, Replayed
<1> QED
  BY <1>1, <1>2, <1>3, <1>4, <1>5, <1>6, <1>7, <1>8, <1>9, <1>10, <1>11, <1>12, <1>13
     DEF Next, TaskStep

\* Nothing begins of a journal that is not adopted or caught up.
LEMMA AttachedKept ==
  ASSUME TypeOK, Fresh, Queued, Adoption, Attached, [Next]_vars
  PROVE  Attached'
<1>1. ASSUME NEW j \in Journals, StartCatchUp(j) PROVE Attached'
  BY <1>1, Events DEF StartCatchUp, BeginCatchUp, pipe, Attached, Nothing
<1>2. ASSUME NEW j \in Journals, NEW k \in FeedLine, CatchUp(j, k) PROVE Attached'
  <2>1. PICK e \in Event : Replays(e)
    BY <1>2, CatchingUp
  <2> QED
    BY <2>1 DEF Replays, NewLine, Attached
<1>3. ASSUME NEW j \in Journals, NEW k \in FeedLine, Bridge(j, k) PROVE Attached'
  <2>1. PICK e \in Event : Queues(e)
    BY <1>3, Queueing
  <2> QED
    BY <2>1 DEF Queues, NewLine, Attached
<1>4. ASSUME FinishCatchUp PROVE Attached'
  <2>1. /\ catching > adopted /\ adopted' = catching
        /\ UNCHANGED <<stage, running>>
    BY <1>4 DEF FinishCatchUp, Adopt, pipe, Adoption
  <2> QED
    BY <2>1, Members, Events DEF Attached
<1>5. ASSUME StartTask PROVE Attached'
  <2>1. PICK e \in Event : Starts(e)
    BY <1>5, StartingTask
  <2> QED
    BY <2>1 DEF Starts, Attached
<1>6. ASSUME NEW e \in Event, Commit(e) PROVE Attached'
  BY <1>6, Pushing DEF Commit, feedVars, Attached
<1>7. ASSUME NEW e \in Event, CommitFails(e) PROVE Attached'
  BY <1>7, Pushing DEF CommitFails, feedVars, Attached
<1>8. ASSUME NEW e \in Event, Apply(e) PROVE Attached'
  BY <1>8 DEF Apply, feedVars, Attached
<1>9. ASSUME StopWatcher PROVE Attached'
  BY <1>9 DEF StopWatcher, Attached
<1>10. ASSUME BeginEndSession PROVE Attached'
  BY <1>10 DEF BeginEndSession, Attached
<1>11. ASSUME EndSession PROVE Attached'
  BY <1>11 DEF EndSession, Attached
<1>12. ASSUME Exit PROVE Attached'
  BY <1>12 DEF Exit, Attached
<1>13. CASE OnModified \/ Return \/ UNCHANGED vars
  BY <1>13 DEF OnModified, Return, BeginBatch, EndBatch, vars, pipe, feedVars, Attached
<1> QED
  BY <1>1, <1>2, <1>3, <1>4, <1>5, <1>6, <1>7, <1>8, <1>9, <1>10, <1>11, <1>12, <1>13
     DEF Next, TaskStep

\* Two journals that are under way have overlapped.
LEMMA AloneKept ==
  ASSUME TypeOK, Fresh, Queued, Adoption, Awaited, Attached, Alone, [Next]_vars
  PROVE  Alone'
<1>1. ASSUME NEW j \in Journals, StartCatchUp(j) PROVE Alone'
  BY <1>1 DEF StartCatchUp, pipe, Alone, InFlight
<1>2. ASSUME NEW j \in Journals, NEW k \in FeedLine, CatchUp(j, k) PROVE Alone'
  <2>1. PICK e \in Event : Replays(e)
    BY <1>2, CatchingUp
  <2>2. /\ e[1] = catching /\ catching # Nothing /\ running = "yes"
        /\ awaiting = NoEvent /\ awaiting' = e
        /\ UNCHANGED <<overlapped, catching, adopted>>
        /\ \A x \in Event \ {e} : stage'[x] = stage[x]
    BY <2>1 DEF Replays, NewLine
  <2>3. ~overlapped => \A x \in Event \ {e} : ~InFlight(x) /\ ~InFlight(x)'
    BY <2>2, Events DEF Alone, InFlight
  <2>4. ASSUME NEW d \in Event, d[1] > e[1], stage[d] # "none" PROVE FALSE
    <3>1. d[1] <= adopted \/ d[1] = catching
      BY <2>2, <2>4 DEF Attached
    <3> QED
      BY <2>2, <2>4, <3>1, Members, Events DEF Adoption
  <2>5. ASSUME NEW d \in Event, d[1] > e[1], stage'[d] # "none" PROVE FALSE
    BY <2>2, <2>4, <2>5, Events
  <2> QED
    BY <2>2, <2>3, <2>5 DEF Alone
<1>3. ASSUME NEW j \in Journals, NEW k \in FeedLine, Bridge(j, k) PROVE Alone'
  <2>1. PICK e \in Event : Queues(e)
    BY <1>3, Queueing
  <2>2. /\ e[1] <= adopted /\ running = "yes"
        /\ overlapped' = (overlapped \/ catching # Nothing \/ e[1] < adopted)
        /\ UNCHANGED <<catching, adopted, awaiting>>
        /\ \A x \in Event \ {e} : stage'[x] = stage[x]
    BY <2>1 DEF Queues, NewLine
  <2>3. SUFFICES ASSUME ~overlapped, catching = Nothing, ~(e[1] < adopted)
                 PROVE  Alone'
    BY <2>2 DEF Alone
  <2>4. e[1] = adopted
    BY <2>2, <2>3, Members, Events
  <2>5. \A x \in Event \ {e} : InFlight(x)' => x[1] = adopted
    BY <2>2, <2>3 DEF Alone, InFlight
  <2>6. ASSUME NEW d \in Event, NEW x \in Event, d[1] > x[1], stage'[d] # "none", InFlight(x)'
        PROVE  FALSE
    <3>1. x[1] = adopted
      BY <2>4, <2>5, <2>6
    <3>2. d # e
      BY <2>4, <2>6, <3>1, Events
    <3>3. d[1] <= adopted \/ d[1] = 0
      BY <2>2, <2>3, <2>6 DEF Attached, Nothing
    <3> QED
      BY <2>6, <3>1, <3>3, Members, Events
  <2> QED
    BY <2>2, <2>4, <2>5, <2>6 DEF Alone
<1>4. ASSUME FinishCatchUp PROVE Alone'
  <2>1. /\ catching # Nothing /\ awaiting = NoEvent /\ UNCHANGED <<stage, overlapped>>
    BY <1>4 DEF FinishCatchUp, Adopt, pipe
  <2>2. ASSUME ~overlapped, NEW x \in Event PROVE ~InFlight(x)'
    <3>1. x # awaiting
      BY <2>1, Events
    <3>2. ~InFlight(x)
      BY <2>1, <2>2, <3>1 DEF Alone
    <3> QED
      BY <2>1, <3>2 DEF InFlight
  <2> QED
    BY <2>1, <2>2 DEF Alone
<1>5. ASSUME StartTask PROVE Alone'
  <2>1. PICK e \in Event : Starts(e)
    BY <1>5, StartingTask
  <2>2. /\ \A x \in Event : InFlight(x)' => InFlight(x)
        /\ \A x \in Event : stage'[x] # "none" => stage[x] # "none"
        /\ UNCHANGED <<overlapped, catching, awaiting, adopted>>
    BY <2>1 DEF Starts, InFlight
  <2> QED
    BY <2>2 DEF Alone
<1>6. ASSUME NEW e \in Event, Commit(e) PROVE Alone'
  BY <1>6, Pushing DEF Commit, feedVars, Alone, InFlight
<1>7. ASSUME NEW e \in Event, CommitFails(e) PROVE Alone'
  BY <1>7, Pushing DEF CommitFails, feedVars, Alone, InFlight
<1>8. ASSUME NEW e \in Event, Apply(e) PROVE Alone'
  <2>1. /\ UNCHANGED <<overlapped, catching, adopted>>
        /\ awaiting' = IF awaiting = e THEN NoEvent ELSE awaiting
    BY <1>8 DEF Apply, feedVars
  <2>2. /\ stage[e] = "pushing" /\ stage'[e] = "done"
        /\ \A x \in Event \ {e} : stage'[x] = stage[x]
    BY <1>8, Applying
  <2>3. \A x \in Event : InFlight(x)' => InFlight(x) /\ x # e
    BY <2>2 DEF InFlight
  <2>4. \A x \in Event : stage'[x] # "none" => stage[x] # "none"
    BY <2>2
  <2> QED
    BY <2>1, <2>3, <2>4 DEF Alone
<1>9. ASSUME StopWatcher PROVE Alone'
  BY <1>9, Stopping DEF StopWatcher, Alone, Awaited, InFlight
<1>10. ASSUME BeginEndSession PROVE Alone'
  BY <1>10 DEF BeginEndSession, feedVars, Alone, InFlight
<1>11. ASSUME EndSession PROVE Alone'
  BY <1>11 DEF EndSession, feedVars, Alone, InFlight
<1>12. ASSUME Exit PROVE Alone'
  BY <1>12, Exiting DEF Alone, InFlight
<1>13. CASE OnModified \/ Return \/ UNCHANGED vars
  BY <1>13 DEF OnModified, Return, BeginBatch, EndBatch, vars, pipe, feedVars,
     Alone, InFlight
<1> QED
  BY <1>1, <1>2, <1>3, <1>4, <1>5, <1>6, <1>7, <1>8, <1>9, <1>10, <1>11, <1>12, <1>13
     DEF Next, TaskStep

-----------------------------------------------------------------------------
(* The invariant.                                                          *)

LEMMA InitIInv == Init => IInv
<1> SUFFICES ASSUME Init PROVE IInv
  OBVIOUS
<1>1. TypeOK
  <2>1. FeedTypeOK
    BY DEF Init, FeedInit, FeedTypeOK
  <2>2. stage \in [Event -> Stages]
    BY DEF Init, Stages
  <2>3. queue \in Seq(Event) /\ ring \in Seq(Event) /\ applied \in Seq(Event)
    BY DEF Init
  <2> QED
    BY <2>1, <2>2, <2>3 DEF Init, TypeOK
<1>2. Fresh /\ Adoption
  BY DEF Init, FeedInit, Fresh, Adoption, Nothing
<1>3. Queued /\ Applied
  BY DEF Init, Queued, Applied
<1>4. Awaited /\ Recorded /\ Replayed
  BY DEF Init, Awaited, Recorded, Replayed, Late
<1>5. Attached /\ Alone
  BY DEF Init, Attached, Alone, InFlight
<1> QED
  BY <1>1, <1>2, <1>3, <1>4, <1>5 DEF IInv

\* The stages of all dispatches fit the queue, the awaited dispatch, the ring, the rows
\* and the feed at all times.
THEOREM Inductive == Spec => []IInv
<1>1. IInv /\ [Next]_vars => IInv'
  BY TypeOKKept, FreshKept, AdoptionKept, QueuedKept, AwaitedKept, AppliedKept,
     RecordedKept,
     ReplayedKept, AttachedKept, AloneKept DEF IInv
<1> QED
  BY InitIInv, <1>1, PTL DEF Spec

\* Every variable stays within its type, for all journals and any number of lines.
THEOREM TypeCorrect == Spec => []TypeOK
<1>1. IInv => TypeOK
  BY DEF IInv
<1> QED
  BY Inductive, <1>1, PTL

\* dispatch() runs the handlers of an event once, and after the recorders.
THEOREM RecordersFirst == Spec => []AppliedOnceAfterRecorders
<1>1. IInv => AppliedOnceAfterRecorders
  <2> SUFFICES ASSUME IInv PROVE AppliedOnceAfterRecorders
    OBVIOUS
  <2>1. \A n \in DOMAIN applied : applied[n] \in Event /\ stage[applied[n]] \in Late
    BY Members DEF IInv, Applied, Late
  <2>2. \A n \in DOMAIN applied : InRing(applied[n])
    BY <2>1 DEF IInv, Recorded
  <2>3. \A n \in DOMAIN applied : applied[n] \in ToSet(ring)
    BY <2>2 DEF InRing, ToSet
  <2> QED
    BY <2>3 DEF AppliedOnceAfterRecorders, IInv, Applied
<1> QED
  BY Inductive, <1>1, PTL

\* record_event() has committed, or failed to commit, whatever took effect before
\* end_session() has cleared the session.
THEOREM AuditTrail == Spec => []AuditTrailComplete
<1>1. IInv => AuditTrailComplete
  <2> SUFFICES ASSUME IInv, session # "closed" PROVE ToSet(applied) \subseteq rows \cup unsaved
    BY DEF AuditTrailComplete
  <2>1. \A n \in DOMAIN applied : applied[n] \in Event /\ stage[applied[n]] \in Late
    BY Members DEF IInv, Applied, Late
  <2>2. \A n \in DOMAIN applied : applied[n] \in rows \cup unsaved
    BY <2>1 DEF IInv, Recorded
  <2> QED
    BY <2>2 DEF ToSet
<1> QED
  BY Inductive, <1>1, PTL

-----------------------------------------------------------------------------
(* What was applied before what.                                           *)

\* A step applies one event or none; only a line that has not begun is replayed; and
\* journals that have overlapped stay so.
LEMMA Grows ==
  ASSUME TypeOK, Fresh, [Next]_vars
  PROVE  /\ applied' = applied \/ \E e \in Event : Apply(e)
         /\ \A x \in caught' : x \in caught \/ (stage[x] = "none" /\ applied' = applied)
         /\ overlapped => overlapped'
<1>1. ASSUME NEW j \in Journals, NEW k \in FeedLine, CatchUp(j, k)
      PROVE  /\ applied' = applied /\ overlapped' = overlapped
             /\ \A x \in caught' : x \in caught \/ stage[x] = "none"
  <2>1. PICK e \in Event : Replays(e)
    BY <1>1, CatchingUp
  <2> QED
    BY <2>1 DEF Replays, NewLine
<1>2. ASSUME NEW j \in Journals, NEW k \in FeedLine, Bridge(j, k)
      PROVE  /\ applied' = applied /\ caught' = caught
             /\ overlapped => overlapped'
  BY <1>2 DEF Bridge
<1>3. ASSUME \E j \in Journals : StartCatchUp(j)
      PROVE  /\ applied' = applied /\ caught' = caught
             /\ overlapped => overlapped'
  BY <1>3 DEF StartCatchUp, pipe
<1>4. ASSUME NEW e \in Event, Apply(e) PROVE caught' = caught /\ overlapped' = overlapped
  BY <1>4 DEF Apply
<1>5. ASSUME \/ FinishCatchUp \/ StartTask \/ StopWatcher \/ BeginEndSession \/ EndSession \/ Exit
             \/ \E e \in Event : Commit(e) \/ CommitFails(e)
             \/ OnModified \/ Return \/ UNCHANGED vars
      PROVE  UNCHANGED <<applied, caught, overlapped>>
  BY <1>5 DEF FinishCatchUp, StartTask, StopWatcher, BeginEndSession, EndSession, Exit,
         Commit,
     CommitFails, OnModified, Return, vars, pipe
<1> QED
  BY <1>1, <1>2, <1>3, <1>4, <1>5 DEF Next, TaskStep

\* What Apply puts behind what was applied before it.
LEMMA NewBefore ==
  ASSUME TypeOK, Applied, NEW e \in Event, Apply(e),
         NEW d \in Event, NEW x \in Event, Before(applied, d, x)'
  PROVE  Before(applied, d, x) \/ (x = e /\ stage[d] = "done")
<1>1. PICK m \in DOMAIN applied', n \in DOMAIN applied' :
        m < n /\ applied'[m] = d /\ applied'[n] = x
  BY DEF Before
<1>2. DOMAIN applied = 1 .. Len(applied) /\ Len(applied) \in Nat
  BY DEF TypeOK
<1>3. m \in DOMAIN applied
  BY <1>1, <1>2, Applying
<1>4. applied[m] = d /\ stage[d] = "done"
  BY <1>1, <1>3, Applying DEF Applied
<1>5. CASE n \in DOMAIN applied
  BY <1>4, Applying DEF Before
<1>6. CASE n = Len(applied) + 1
  BY <1>1, <1>4, <1>6, Applying
<1> QED
  BY <1>1, <1>5, <1>6, Applying

\* The catch-up read applies the lines of a journal in the order of its file.
THEOREM ReplayOrder == Spec => []ReplayInOrder
<1>1. Init => ReplayInOrder
  BY DEF Init, ReplayInOrder, Before
<1>2. IInv /\ ReplayInOrder /\ [Next]_vars => ReplayInOrder'
  <2> SUFFICES ASSUME IInv, ReplayInOrder, [Next]_vars,
                      NEW d \in Event, NEW x \in Event,
                      d[1] = x[1], d[2] > x[2], x \in caught', Before(applied, d, x)'
               PROVE  FALSE
    BY DEF ReplayInOrder
  <2>1. CASE applied' = applied
    <3>1. Before(applied, d, x)
      BY <2>1
    <3>2. stage[x] = "done"
      BY <3>1 DEF Before, IInv, Applied
    <3>3. x \in caught
      BY <3>2, Grows DEF IInv
    <3> QED
      BY <3>1, <3>3 DEF ReplayInOrder
  <2>2. ASSUME NEW e \in Event, Apply(e) PROVE FALSE
    <3>1. x \in caught
      BY <2>2 DEF Apply
    <3>2. ~Before(applied, d, x)
      BY <3>1 DEF ReplayInOrder
    <3>3. x = e /\ stage[d] = "done"
      BY <2>2, <3>2, NewBefore DEF IInv
    <3>4. stage[x] \in Over
      BY <3>1, <3>3 DEF IInv, Replayed
    <3> QED
      BY <2>2, <3>3, <3>4, Applying DEF IInv, Over
  <2> QED
    BY <2>1, <2>2, Grows DEF IInv
<1> QED
  BY Inductive, <1>1, <1>2, PTL DEF Spec

\* _perform_rollover: when nothing of an older journal was under way as a newer one began
\* to be caught up, or after, nothing of the older one acts on top of the newer.
THEOREM NewerState == Spec => []NewerStateKept
<1>1. Init => NewerStateKept
  BY DEF Init, NewerStateKept, Before
<1>2. IInv /\ NewerStateKept /\ [Next]_vars => NewerStateKept'
  <2> SUFFICES ASSUME IInv, NewerStateKept, [Next]_vars, ~overlapped',
                      NEW d \in Event, NEW x \in Event, d[1] > x[1], Before(applied, d, x)'
               PROVE  FALSE
    BY DEF NewerStateKept
  <2>1. ~overlapped
    BY Grows DEF IInv
  <2>2. ~Before(applied, d, x)
    BY <2>1 DEF NewerStateKept
  <2>3. CASE applied' = applied
    BY <2>2, <2>3
  <2>4. ASSUME NEW e \in Event, Apply(e) PROVE FALSE
    <3>1. x = e /\ stage[d] = "done"
      BY <2>2, <2>4, NewBefore DEF IInv
    <3>2. ~InFlight(x)
      BY <2>1, <3>1 DEF IInv, Alone
    <3> QED
      BY <2>4, <3>1, <3>2, Applying DEF IInv, InFlight
  <2> QED
    BY <2>3, <2>4, Grows DEF IInv
<1> QED
  BY Inductive, <1>1, <1>2, PTL DEF Spec
=============================================================================
