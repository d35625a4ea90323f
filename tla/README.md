# OmniCOVAS in TLA+

OmniCOVAS is a companion for Elite Dangerous. A Python core (the sidecar) watches
what the game writes (journal files and `Status.json`), keeps a picture of the
commander, the ship and the place, keeps records the commander makes, and tells a
desktop shell (Tauri, Rust) and its web views about it. This directory holds TLA+
models of the parts where the order of things matters, the TLC runs that check them,
and TLAPS proofs about all of them. Every definition is translated from the code under
`src/`; `PROJECT.json` names the lines of each.

1. [The system](#1-the-system)
2. [Modules](#2-modules)
3. [Runs](#3-runs)
4. [Fairness](#4-fairness)
5. [Proofs](#5-proofs)
6. [Findings](#6-findings)
7. [Only model-checked, and not modelled](#7-only-model-checked-and-not-modelled)
8. [What is left](#8-what-is-left)

To check a run: `tlc -workers 2 -config Session.cfg MCSession.tla`; to check the
proofs: `tlapm EventPipelineProofs.tla`.

## 1. The system

Everything in the core runs on one asyncio loop, except watchdog's observer thread and
the web server's start. Handlers of the loop interleave only where they await. The
shell is a process of its own, with threads. The pieces, in the order data flows
through them:

```
 game ──appends──> journal files ──> JournalWatcher (loop) ────┐
        │               │      └───> JournalEventHandler ──────┤  call_soon_threadsafe,
        │               │              (watchdog's thread)     │  one task per line
        │               └── scan of whole journals by          │
        │                   local_state_hydration ───┐         v
        └─rewrites─> Status.json ──> StatusReader ───│──> EventDispatcher
                                                     │         │ 1. recorders: database, ring
                                                     │         │ 2. handlers
                                                     v         v
   HTTP API <──reads── StateManager (one value and one source per field)
      │                              │ publish
      │ commits                      v
      v                         Broadcaster ──task──> ApiBridge.push_event ─> ring buffer
  session database: goals,                                             └─> WebSocket clients
  campaigns, circuits, notes,                                                    │
  bookmarks, encounters                                                          v
                                                       shell.js <── Tauri shell (lib.rs):
                                                                    starts or adopts the core
```

### Journal watcher (`core/journal_watcher.py`)

*State.* The coroutine's current journal; the watchdog handler's current journal, file
position and pause flag, shared by two threads without a lock; the observer.
*Operations.* `start`, the catch-up read, `retarget` (three assignments in order), the
rollover poll, `stop`; `on_modified` on watchdog's thread.
*Interaction.* The catch-up read awaits the dispatcher for every line; the thread hands
each line to the loop with `call_soon_threadsafe`.
*Hard.* A callback that is open while the loop retargets the handler; a line the game
has written half; read errors, in the middle of a catch-up or in a callback; a file that
cannot be decoded; a journal that disappears; a stop in the middle of a callback.
*Correct when.* Every line of a journal reaches the dispatcher once and in order, the
cursor is always a position in the journal tailed, the watcher never goes back to an
older journal, and nothing follows `stop`.

### Dispatcher, recorders, shutdown (`core/dispatcher.py`, `db/recorder.py`, `core/main.py`)

*State.* Tasks at their suspension points, the recorder's session id, the database rows,
the ring buffer of recent events.
*Operations.* `dispatch` (parse, await the recorders one by one, run the type's
handlers, swallow their exceptions), `record_event`, `push_event`, `end_session`, the
`finally` block of `main`.
*Hard.* A live line is a task of its own, so two lines may overtake each other while
they wait for the database; the session is closed while tasks remain; a commit may fail.
*Correct when.* Recorders come before handlers, the audit trail has no hole, the replay
of a journal keeps its order, an older journal does not act after a newer one, and every
line handed over takes effect.

### Session state (`core/state_manager.py`)

*State.* One value and one source for each of some hundred fields.
*Operations.* `update_field`, with a source priority (journal, Status.json, CAPI, EDDN,
inferred) and an exemption for live fields; `reset`; snapshots.
*Hard.* Sources report in any order; Status.json may lose a field while the game
rewrites the file.
*Correct when.* Readers see the last report of the best source, and what is known is not
erased by silence.

### Status reader and ship alerts (`core/status_reader.py`, `core/handlers.py`, `features/hull_triggers.py`, `fuel.py`, `heat_management.py`, parts of `ship_state.py` and `extended_events.py`)

*State.* The reader's last timestamp and last state; the previous hull and heat values
the handlers keep in closures; hull, fuel, heat and shields in the session state.
*Operations.* Poll, skip an equal timestamp, dispatch `Status` and its sub-events one
after the other; the handlers of HullDamage, Loadout, ShipyardSwap, ShipDestroyed,
FSDJump, FuelScoop, RefuelAll, RefuelPartial, ShieldsDown, ShieldsUp, HeatWarning,
HeatDamage.
*Hard.* Two writers of the same quantity, each of which compares with its own idea of
the previous value; handlers that overtake each other; relative amounts.
*Correct when.* An alert is raised when its threshold is crossed, not on a first reading
and not again without recovery, and what is shown settles on the truth.

### Where the commander is (`features/local_context_facts.py`, `local_state_hydration.py`, travel handlers)

*State.* System, station and the docked, supercruise and wanted flags; a context of the
system and one of the station; the snapshots of market and outfitting screens.
*Operations.* The handlers of the travel lines, the Docked flag of Status.json, the
repair pass of a request (`hydrate_local_state`), which reads the journal files itself,
and the labels of freshness a request puts on what it shows.
*Hard.* The repair pass runs ahead of handlers whose tasks still wait and remembers
earlier sessions; a carrier moves under its station; the files of the screens stay on
disk.
*Correct when.* Once the handlers have caught up the state says where the commander is,
and a snapshot is called fresh only where it was taken.

### The commander's record (`features/combat_session.py`, Powerplay and BGS recorders)

*State.* Active missions, voucher totals, combat rank and its progress, the pledge and
its history. *Operations.* One recorder per line type. *Hard.* Lines are overtaken or, after
a failed catch-up, handled again; each adds to what the others have built. *Correct
when.* The lists and totals are the game's once the lines are handled in order, and a
full `Missions` event puts right whatever went wrong.

### Interdiction, critical response, encounters (`features/combat_state.py`, `core/handlers.py`, `api/week13.py`, `features/pvp_encounter.py`)

*State.* The combat state, the guard that keeps one proposal per interdiction, the
pending confirmations; the table of encounters. *Operations.* The flag of Status.json, the
lines that end an interdiction, boundaries, answers; find-or-insert of an encounter, and
the commander's edits. *Hard.* Begin and end arrive on different paths; a check and an
insert are separated by awaits, crashes and restarts. *Correct when.* The guard follows
the interdiction shown, and an encounter is in the table once.

### Ship identity (`features/ship_state.py`, `loadout.py`, `cargo.py`, `rebuy.py`, destruction in `extended_events.py`)

*State.* The fields that describe one ship. *Operations.* LoadGame, Loadout,
ShipyardSwap, ShipDestroyed, Cargo, and the repair of empty fields by hydration. *Hard.*
What belongs to the old ship stays until Loadout, and longer where Loadout leaves it out.
*Correct when.* What the journal has told of the ship is what the fields say, and no field
says what an older line did.

### Records of the commander (`features/engineering.py`, `campaign.py`, `campaign_drafter.py`, `campaign_circuits.py`, `squadrons.py`, `navigation_bookmarks.py`, `api/*`, `core/confirmation_gate.py`)

*State.* Rows of the session database; the in-memory lists of a squadron with their
pending proposals; the activity log. *Operations.* The end points: get a row, change it,
commit, read it back, log. *Hard.* Calls interleave whenever they wait for the database,
a commit writes what was read before, a commit may fail, a key may be used again.
*Correct when.* The log and the rows tell the same story, what is archived stays so, and
nothing enters without its confirmation.

### Broadcaster, activity log, bridge (`core/broadcaster.py`, `core/api_bridge.py`)

*State.* Subscribers; the ring buffer; the connected WebSocket clients. *Operations.*
`publish` makes a task per subscriber and does not suspend; `push_event` appends and
writes to every client; a client is registered, then sent the initial state, and reads
the log by a request. *Hard.* A client that dies or stalls while it is written to; events
between registration and the reading of the log. *Correct when.* A dead client does not
keep others from an event, and a page that connects misses none.

### Desktop shell (`src-tauri/src/lib.rs`, `ui/components/shell.js`)

*State.* The child handle under a mutex, the bridge's address, the core's log, the
processes; the page's search for the bridge. *Operations.* Spawn, or adopt a running core
from the log; a thread that reads the ready line, one that watches for the exit; stop
when the window closes. *Hard.* A thread that acts on a child it has looked at before; a
core that ends at any time; an application that dies and leaves its core; a ready event
nobody listens for. *Correct when.* A closed application leaves no core of its own, a
known core is adopted instead of started twice, and the page gets connected.

The rest (source routing, monitor, snapshots, vault, schema, providers, knowledge base)
is listed with the reason it is left out in `PROJECT.json` and in
[section 7](#7-only-model-checked-and-not-modelled).

## 2. Modules

| module | models | role |
| --- | --- | --- |
| `JournalFeed` | what the watcher promises | abstract specification, and the environment of `EventPipeline` |
| `JournalTail` | `journal_watcher.py` | detailed specification, implements `JournalFeed` |
| `JournalTailProofs` | | theorems about `JournalTail` |
| `EventPipeline` | `dispatcher.py`, `recorder.py`, `push_event`, shutdown of `main.py` | composes dispatcher, recorders and shutdown with the feed |
| `EventPipelineProofs` | | theorems about `EventPipeline` |
| `TelemetryState` | `StateManager.update_field` as an operator | used by `StateManager`, `ShipAlerts`, `LocalContext` |
| `FieldRegisters` | what Law 7 promises readers | abstract specification |
| `StateManager` | `state_manager.py` | detailed specification, implements `FieldRegisters` |
| `StateManagerProofs` | | theorems about `StateManager` |
| `ShipAlerts` | status reader, hull, fuel, heat and shield handlers | composes game, reader, tasks and session state |
| `ShipAlertsProofs` | | theorems about `ShipAlerts` |
| `JournalTasks` | a line of the journal and the task it becomes | base of the four below, which the journal drives |
| `LocalContext` | `local_context_facts.py`, `local_state_hydration.py`, travel handlers | places, repair pass, freshness |
| `Interdiction` | `combat_state.py`, proposals, `pvp_encounter.py` | combat state, guard, answers, encounters |
| `ShipIdentity` | `ship_state.py`, `loadout.py`, `cargo.py`, `rebuy.py` | which ship, and what is known of it |
| `CommanderRecord` | `combat_session.py`, Powerplay and BGS recorders | missions, vouchers, rank, pledge |
| `SessionProofs` | | theorems about the four above and about `MCSession` |
| `NoValue` | Python's None | used by those four and `ShipAlerts` |
| `MCSession` | | those four and `ShipAlerts` on small instances |
| `RecordCalls` | the database and the log as the end points use them | base of the next five |
| `Engineering`, `Campaigns`, `Circuits`, `Squadrons`, `NavigationLibrary` | the records and their end points | one module per group of end points |
| `Records` | the session database and its activity log | composes the five: one database, one log, calls of any of them in any order |
| `RecordsProofs` | | theorems about `Records` |
| `MCRecords` | | `Records` on small instances |
| `Sidecar` | `lib.rs`, `shell.js`, the ends of `main()` | several applications, their threads, cores and pages |
| `SidecarProofs` | | theorems about `Sidecar` |
| `LiveBridge` | `broadcaster.py`, `api_bridge.py` | broadcast, ring, clients |
| `LiveBridgeProofs` | | theorems about `LiveBridge` |
| `MCDesktop` | | the two above on small instances |
| `MCJournalTail`, `MCEventPipeline`, `MCStateManager`, `MCShipAlerts` | | instances, and claims quoted from the code |

**JournalTail.** A journal is a number ordered like its file name. A file is a count of
*half lines*, so that a read can find a line the game has written only in part; a
fragment is not valid JSON and both readers skip it. `phase` is the point the coroutine
has reached, `tStage` the point `on_modified` has reached on watchdog's thread: every
access to a shared field is a step of its own (`SetPosition` and `SetTarget` and
`ClearPause` are the three assignments of `retarget`; `OpenAndSeek`, `ReadLines`,
`PostLine` those of `on_modified`). `SetPosition` is a conjunct of `CatchupDone`: what
the coroutine does between the end of the file and that assignment touches nothing the
other thread reads. The error paths are `CatchupFails` (an OSError of
the catch-up: the read returns position 0), `CatchupRaises` (a byte that is not UTF-8: the
exception reaches the poll loop or `start`, at every poll again), `ReadFails` (an OSError
of the callback, the file being there: the event is dropped) and `ReadRaises` (an
exception that kills watchdog's thread); nothing bounds them, and `handed` only tells
never, once and more often apart. Five variables only observe: `posOf`, `strayed`,
`failed`, `unheard`, `split`. They name the conditions under which the code does *not*
keep its promise (a callback straddles a retarget, a catch-up read fails, the last
modification was dropped) and the line torn by a read, and the properties are stated about
all other journals: `NoticeDelivers` makes no promise of a journal whose last modification
was dropped until there is another one, and `NewerJournalAdopted` none where the newer
file cannot be decoded again and again.

**JournalFeed.** The feed delivers lines of a catch-up, and of a batch: `BeginBatch` takes
the journal that is adopted, when no catch-up is under way, and `LiveDeliver` hands over
lines of that journal until `EndBatch`, though a newer one may have been adopted meanwhile.
`reading` maps to the journal of the open callback (`tFile`).

**EventPipeline.** `stage[e]` is how far the dispatch of event `e` has come: queued as a
loop callback, awaiting the database, awaiting the clients, done. `CatchUp` awaits;
`Bridge` queues, between `OnModified` and `Return`. `StopWatcher` cancels the catch-up inside the dispatch it awaits,
`BeginEndSession`/`EndSession` are the two halves of `end_session` around its commit,
`Exit` cancels what is left. The handlers do not suspend, so `Apply` is one step.
`unsaved`, `caught` and `overlapped` observe.

**StateManager.** `Put` is `update_field`: the exemption of the live fields, the
priority check, the Law 5 guard, in the code's order. `latest` observes the last report
of each rank. A report of Status.json on a live field has the journal's rank, for that
is what the exemption amounts to.

**ShipAlerts.** The ship in the game has a level of hull, fuel and heat (the intervals
between the thresholds of the code) and shields; `flight` says which of them change in a
behaviour. The game writes journal events, which become tasks, and Status.json, which
the reader polls. `HandleTask` takes any task: tasks overtake each other in the
recorders. `st` is the session state over six fields, with `TelemetryState!Put` for
every write, so the source priority is in force. Every handler is an action named for
it. `alerts` is what the last step published, `armed` the alerts whose quantity was
shown beyond its threshold since.

**LocalContext, CommanderRecord, Interdiction, ShipIdentity.** Each has a truth (what
the game knows: `at` and `carrier`, `truth`, `pulled`, `flown` and `hold`), a journal
`lines`, the tasks whose handlers have not run (`waiting`), and the fields of the session
state the component owns. One action lets the game go on and write a line; handling a line is one
step, and any of the waiting lines may be next: `Enter` and `TakeOut` of `JournalTasks`.
Most properties say what holds once
everything has been handled and nothing has overtaken anything (`inOrder`): the order is
what `EventPipeline` is about, and overtaken lines do leave other states. In
`LocalContext` the journal begins with lines of earlier sessions, `flag` is the Docked
flag of a Status event under way, and a request runs the whole repair pass (scan, then
only the fields found empty) and answers with the labels. The scan of the code applies
every line to what it has found so far; a line overwrites, so that `Scan` and `Scanned`
take, for each field, the last line that tells of it. In `CommanderRecord` a behaviour tells one of
four stories, and the journal may be read again from its start, which is what a failed
catch-up does: all its lines wait once more. In `Interdiction` the find-or-insert of an encounter is two steps with
failures and the end of the process in between, and the restart empties what is in
memory but not `rows`. In `ShipIdentity` a field holds the ship and fit it describes, so
that a field of an old ship can be told from one of the new. A line of the journal may
leave fields out (`omits`), and the handlers write none of these; `told` is the fields the
lines have told as they still are, and `ShipSettles` says that these are right, and that
every other one is empty or what the last line that had it said. What the commander is
wanted for in `LocalContext` is a crime or a `Bounty` line (the code takes the payment of
a bounty for one), and `Clears` is a jump that clears it by the code's own rule.

**RecordCalls and the modules on it.** `call[c]` is where a call of the API has come:
waiting in its get, its commit or its read-back. A commit writes the columns the handler
changed, to the row that has the key by then, or fails (`Fails`), and what was logged
before it stays logged. Each module translates each end point into a choice of these
steps: which row is got, what is refused, what is changed, which entries are logged
before and after the commit. `Campaigns` adds the gate and the provider, whose answer
takes as long as it likes; `Squadrons` the lists in memory, whose handlers never wait;
`NavigationLibrary` the keys SQLite uses again. `Records` puts the five on one database:
any call may be of any part, and what is proved is proved of the whole.

**Sidecar.** Several instances of the application with a main thread each, and the
reader and monitor threads; what they share are the processes (`core`) and the core's
log (`readyLog`). Every critical section on the mutex is a step (`MonitorLooks` and
`MonitorClears` are the two of the monitor), and a stop that has taken the child keeps
the lock while it waits for it. A core may end, and an application may die, at any
point. The executable is packed with `--onefile`
(`scripts/package/build_tauri_sidecar.ps1`), so what the shell has at hand is a bootloader
with the core below it. `KillTree` is a taskkill of both; `KillChild`, where taskkill has
failed, ends the bootloader and leaves the core: `orphans` observes these, and they are
what `CoresOwned` exempts. The log names them, and the next instance adopts them. `page`
follows shell.js: waiting for the event, asking with a timeout, connecting, connecting
again.

**LiveBridge.** `push[n]` is the broadcast of event `n`: the clients still to serve and
those whose write has failed. `conn` is what becomes of a client: it opens, stalls,
vanishes. A stalled client suspends every broadcast that reaches it; other broadcasts go
on. What a client reads of the ring are entries (`Entry`: time, type and summary), and of
events that say the same there is one, as `_merge_and_dedupe` has it; `NothingMissed` is
stated up to that. A page that reads the log cannot tell two such events from one.

**MCSession, MCRecords, MCDesktop** put several components into one run. The parts share
no variable of the program, so that composing them would only multiply their states: one
behaviour is about one `part`, chosen by `Init`, and the variables of the other parts
are constant in it. `MCSession` extends `ShipAlerts`, `Interdiction`, `ShipIdentity`,
`LocalContext` and `CommanderRecord`, `MCDesktop` extends `Sidecar` and `LiveBridge`, and
`MCRecords` extends `Records`: their properties are checked as they stand. In `MCSession`,
the journal (`lines`, `waiting`, `inOrder`) and `rereads` serve whichever part is running;
that nothing is lost by this is the theorem `PartsApart`.

## 3. Runs

| run | bounds | asks |
| --- | --- | --- |
| `tail_safety` | 2 journals, 2 lines each | are lines delivered in order, once, without holes, never from an older journal, never after stop? |
| `tail_live` | 2 journals, 1 line | are lines and newer journals reached in the end? does the watcher implement the feed? |
| `tail_retarget_race` | 2 journals, 2 lines | finding 1 |
| `pipeline` | 2 journals, 2 lines, failing commits | recorders before handlers, complete audit trail, ordered replay, newer state kept, every event applied? |
| `pipeline_rollover` | 2 journals, 1 line | finding 2 |
| `state_safety` | a live and an ordinary field, 1 value and None, 5 sources | is the best source shown, is nothing erased, is one value per field enough to implement a register per rank? |
| `alerts_live` | 3 fuel levels, both shield states, 2 in flight | do the fuel and the shields shown settle on the ship's, although a refuel may be counted twice and a sub-event come late? |
| `alerts_hull_crossing` | 3 hull levels, 1 in flight | finding 3 |
| `session` | see below | do place, record, combat state and ship settle on the truth, is nothing stale called fresh, no voucher lost, no encounter doubled, no alert unfounded and no heat missed? |
| `session_encounter_again` | as `session` | finding 4 |
| `records` | 2 or 3 calls, 1 or 2 earlier rows | do log and rows agree, does what is archived stay so (but for a stale transition), is nothing kept that was not confirmed? |
| `desktop` | 2 applications, 2 cores, 1 page; 3 events, 2 of them alike, 2 clients, a ring of 2 | does a closed application leave no core unless taskkill fails, is a known one adopted, is the page connected, does no client miss an event? |

*Why the bounds are enough.* A rollover needs two journals; a third adds no new pair.
Two lines are the least for order and for holes, and a torn line makes three cursor
positions per line. In the pipeline, two journals of two lines give every pair of tasks
of one journal and of two journals at every pair of suspension points; the proofs do
away with these bounds. For the state, what is decided for a field depends on that field
alone; the two fields are one of each kind, and one value beside None tells reports
apart. For the alerts, two events in flight are the least for one to overtake another;
the levels are the intervals that the code's comparisons distinguish, so more levels
would behave like one of these (below 0.25 t of fuel matters only to the FuelLow
sub-event, which is logged and does nothing else).

In `session`: two systems, a station and a carrier, and four lines of journal (earlier
session, arrival, departure, arrival again); two missions, destinations and powers,
three ranks, three to five lines for each story and one re-reading; three lines, or two
that are read twice with one edit, for the encounters; two ships with two fits and three
lines, which may leave out the name, the values, or the type and the hull. A line that is overtaken, a line handled twice, and a scan that has seen more
than the handlers need two lines; a third lets something follow.

In `records`, two calls are the least for one to change what another has read. The
parts with small calls (circuits, squadrons, library) get three, which lets one delete
or archive between the get and the commit of the other two; the engineering and campaign
calls are longer, and two of them already give every pair of end points at every pair of
steps. The calls are alike, and the run is symmetric in them: nothing compares them, and
no property has a temporal operator beyond one step.

In `desktop`, two applications may run at once, one after the other, or be the same one
started again; two cores are one to adopt and one to start; one page is followed, for
pages do not share anything. Three events through a ring of two make it forget one.

Deadlock is not checked: the game may stop writing, journals and calls are bounded, and
applications may stop.

## 4. Fairness

`JournalTail`: weak fairness of the coroutine and of watchdog's thread, each as a whole.
The asyncio loop runs whatever is ready and the thread takes every queued event. Nothing
is assumed of the game, of read errors or of `stop`: any read may fail, any number of
times, and the two liveness properties say what becomes of a line or a journal then.

`EventPipeline`: weak fairness of starting the oldest callback (`call_soon` is first in,
first out), and, per event, of the end of its commit (well or badly) and of its
handlers. SQLite's commit and a client's send return or raise.

`ShipAlerts`: weak fairness of the poll loop and of the tasks, as above, and an
assumption about the game: a flying ship rewrites `Status.json` again and again, with a
new timestamp and all its fields. The settling properties depend on it, since the reader
skips a file with the timestamp it has seen. `FuelSettles` also asks that the journal has
fallen quiet.

`Sidecar`: weak fairness of the page's timers and calls only. Threads, processes and the
commander may stop anywhere; `PageConnects` asks for a page of an application that
knows a bridge.

`LiveBridge`: weak fairness of beginning a broadcast; strong fairness of a broadcast's
next write, because a peer that stalls again and again disables it again and again while
what was written waits in the connection's buffer and goes out whenever the peer reads;
weak fairness of a stalled peer reading again or vanishing, since the server's pings
close a connection that does not answer.

The other modules have no liveness property and state no fairness.

## 5. Proofs

**JournalTail, for every set of journals and every number of lines.** The invariant that
is checked, "a line is given to the dispatcher at most once", is not inductive: nothing
in it keeps a cursor from lying before a line that was delivered. `IInv` in
`JournalTailProofs` adds

- `Attachment`: how phase, current journal, handler's journal and pause flag hang
  together (live tailing means the handler is on the current journal);
- `Callback`: an open callback (there is a `tFile` only while one is open) works on a journal not newer than the handler's, from a
  position of that journal, and its batch ends at or before the cursor;
- `Cursor`: the cursor is one of the current journal whenever tailing is live or about
  to be;
- `Untouched`: nothing of a journal not yet attached was dispatched;
- `Ahead`: nothing ahead of a cursor, nor in the rest of a batch, was dispatched;
- `Behind`: a line behind a cursor was dispatched, waits in the batch, or is split.

`Inductive` proves `Spec => []IInv`; from it follow `TypeCorrect`,
`DispatchedAtMostOnce`, `LiveCursor`, `NoHoles`, and, with two lemmas on who hands lines
over and on what observers may only grow, `FileOrder` and `NoRollBack`. `StopIsFinal` has
an invariant of its own (`Stopped`): a coroutine that has stopped has joined watchdog's
thread, so that no callback is open that could still hand a line over. `Refinement`
proves `Spec => ImplementsFeed`: initial states map to initial states and every step to
a step of the feed or a stutter. `EventPipeline` is built on that feed, so its results
are about a watcher that has been proved to behave so.

**EventPipeline, for every set of journals and every number of lines, whether commits
fail or not.** What has been applied says nothing of what is under way, so none of the
four safety properties is inductive. `IInv` in `EventPipelineProofs` says how far every
dispatch may have come:

- `Fresh`: a line the feed has not delivered has not begun, and an open batch is of no
  newer journal than the adopted one (this is where the promise of the watcher comes in);
- `Adoption`: only a newer journal is caught up;
- `Queued`, `Awaited`, `Applied`: the queue holds queued events, each once; the awaited
  dispatch is at a recorder; what was applied is done, and was applied once;
- `Recorded`: past the recorders, an event is in the ring and, until the session is
  closed, in the database or known to have failed;
- `Replayed`: a replayed line is over or awaited, and over before a later line of its
  journal begins;
- `Attached`: what has begun is of the adopted journal or an older one, or of the one
  that is caught up;
- `Alone`: as long as no two journals have overlapped, only the newest is under way.

A lemma per conjunct shows that every action keeps it (`TypeOKKept` … `AloneKept`);
`Inductive` puts them together. `TypeCorrect`, `RecordersFirst` and `AuditTrail` follow
from `IInv` alone. `ReplayOrder` and `NewerState` are about the order of what was
applied, and are proved by an induction of their own on top: only `Apply` puts something
behind what is there (`NewBefore`), and `Replayed` and `Alone` say that it may not be
put there too late.

**StateManager, for every set of fields and values.** `IInv` adds to the type invariant
`Owned(f)`: the source of a field has the best rank that has reported and its value is
that rank's last report. Without it the step "a worse report is refused" could not be
told from "the best report is lost". `PriorityEnforced`, `NothingErased` and
`Refinement` follow.

**ShipAlerts, for all flights and any number of events in flight.** Three things remember
a quantity: the session state, the closures of the hull and heat handlers, and, in the
property, the armed alerts. `IInv` in `ShipAlertsProofs` says how they agree:

- `Sound`: what a field shows is a value of that field, with a source of known rank;
- `Reading`: a waiting event is of a Status.json that was read;
- `HeatShown`: only Status.json sets the heat, and the closure remembers what it has set;
- `Grounded`: an alert is armed if the reading its handler compares with lies beyond the
  threshold. For the hull that is the closure's last HullDamage, for the fuel the state.

`OnlyFounded` and `RiseAnnounced` follow from it step by step. `Updated` is the lemma on
`update_field` they rest on: what a report of the journal, and one of Status.json on the
heat, leaves.

**Sidecar, for any number of applications and cores.** That a closed application leaves
no core of its own behind depends on who has the child at every moment. `IInv` in
`SidecarProofs` adds to the shapes of the values

- `Custody`: the core an application has started is, unless it has ended, in the mutex
  while the window is open and in the hands of the stop while the application is closing;
  the monitor only believes it ended when it has; a closed application has none that lives
  but one that taskkill has failed to end, and such a one stays known until it ends;
- `Logged`: a ready line in the log names a core that has bound its port, or had;
- `Tried`: of the lines that were found, those already tried lead to no listening core, and
  none of them can come to listen again.

`CoresInHand` proves both parts of `CoresOwned` from it. `Tried` needs `Logged`: only
because a line is written after the port is bound can a core that was tried not begin to
listen afterwards.

**LiveBridge, for any number of clients and events.** `NothingMissed` is about a client
that has read the log; nothing in it says what happens before. `IInv` in
`LiveBridgeProofs` adds `Latest` (the ring holds the last events begun, in order, as many
as its capacity), `Registered` (whoever reads or may read again is in `clients`; only what
is lost is counted dead), `Unheard` (nothing is known of a client before it connects) and
`Informed`, which extends the property to clients that do not read at the moment.
`NoneMissed` assumes only that the capacity of the ring is a natural number.

**Records, for any number of calls, keys and rows of earlier sessions.** Fifty end points
may each be at a different point of a different row. `LogMatchesRows` says of a row that
its making is in the log, and of an entry of a deletion that the row is gone; it says
nothing of a call that has read the row and not yet written it, and so it is not inductive: a
commit under way could bring back what is gone. `RecordsInv` in `RecordsProofs` adds

- `RowsWhole`: every row has the type of its table, lies where such rows lie, has its
  parent, and the log tells of its making, or the call that made it is about to;
- `OnePlace`: no two bookmarks or routes have one name, though numbers are used again;
- `GoneIsGone`: what is said to be gone is in no table, and nobody can make it again;
- `CallsWait`: what a waiting call holds (the row it saw, the row it wants, the entries
  it will log) is something that may be committed now, whatever has happened since its get;
- `ListsConfirmed`: the lists in memory are what the log says was confirmed, and each
  confirmation is the end of one call.

Every handler is shown to be `Lawful`, which is a statement about that call only: it
leaves its call waiting for nothing but what `CallsWait` allows, and neither touches a
row nor logs a deletion. `LawfulKeeps` says once that a lawful step keeps the invariant.
What commits, failing commits, read-backs and insertions do is shown once, for all
handlers (`CommitKeeps`, `CommitFailsKeeps`, `EndsKeeps`, `InsertKeeps`), and only the
handlers that work in memory (the squadron's lists) are shown separately. `EveryRowTyped`,
`LogTellsOfRows` and `NothingUnconfirmed` follow from the invariant; `ArchiveIsKept` is
the action property, which needs that a commit writes only the columns its handler
changed (`Written`, `Archivable`). For a campaign it speaks of the stamp and of the state,
by which `campaign.py` decides what is archived; the commit of a transition that had read
the state before another call archived the campaign (`Overdue`) does take it out of the
archive, and nothing else is shown to.

**Interdiction, for every journal, every number of restarts and re-readings, and every
order of handlers.** `CombatInv` in `SessionProofs` adds to the types

- `Edges`: at most one rise of the flag more than the journal has lines waits to be
  handled;
- `InTurn`: as long as nothing was overtaken and nothing read again, what waits is the
  end of the journal; an interdiction that is shown and over has its end among it; and if
  the line handled last was a boundary, the combat state is clear;
- `Apart`: as long as no line was handled twice at once and nothing edited, no two rows,
  no two writers, and no row and writer about to insert, are of one line.

`GuardFollowsInterdiction` needs no more than itself. `CombatSettles` is `InTurn` where
nothing waits. `EncounterIsOnce` is the part of `Apart` on rows; a restart empties
`writers` and keeps `rows`, and the writers of the next reading find those rows, which is
why `Apart` must speak of a writer that has looked and not yet inserted.

**ShipIdentity, for every journal, all ships and all fits, and whatever lines leave out.**
`ShipSettles` speaks of a state in which nothing waits; nothing in it says what a handled
line may still meet. `ShipInv` in `SessionProofs` adds to the types

- `ToldHolds`: for each field that is told there is a line that tells it right, no later
  line writes it otherwise (`Harmless`), and if that line was handled in its turn, the
  field is right;
- `LatestHolds`: a field is empty or says what some line has told, and of the lines handled
  since, none tells of it.

Each handler writes what its line has (`WritesOf`, `Writes`), and a request overwrites
nothing, whatever its scan has found of lines that wait or of ships long sold. That
`ShipyardSwap` leaves the old ship's figures, and `Loadout` those it does not name, is why
nothing more can be said of a field that was not told. The property does not promise the
new ship's figures then: a `Loadout` without `ModulesValue`, which `rebuy.py` knows of,
leaves the sum of the ship before.

**LocalContext, for every journal, any number of systems, and every order of handlers,
Status events and requests.** The session state lags behind the journal, and a request
reads ahead of it. `TravelInv` ties both to the line that was handled last (`Handled`, as
long as nothing was overtaken):

- `JournalTells`: of the journal alone: the last line is where the commander is, and from
  a line that tells of the station to the next, the station is the same;
- `WhereaboutsHold`: system, its context and the Docked flag are those of the line handled
  last, and the journal is the flag's source, so that Status.json cannot overrule it; so
  is the station, *or a line that tells of one waits*;
- `JumpHolds`, `WantedHolds`: the jump handled last is the one the next is compared with,
  and the wanted flag is up exactly when a crime or a bounty was handled that no clearing
  jump has followed;
- `ReplyHolds`, `ScreenHolds`: a reply is labelled after the state it left.

The second half of `WhereaboutsHold` is where the proof is: a scan may fill an empty
station with one whose `Docked` line waits. `ScanAhead` shows that a scan finds no other:
were the last line that tells of a station among those handled, the line
handled last would name it too, by `JournalTells`. One lemma per handler (`LocationSets`,
`FSDJumpSets`, …) says what it leaves, and `TravelStep` does all six journal lines at once.
`WhereaboutsAreKnown` and `ScreensAreFresh` follow where nothing waits.

**CommanderRecord, for every journal, any number of missions, destinations, powers, ranks
and re-readings.** The properties compare what is kept with the game as it is *now*; what
a handler leaves depends on the game as it was when its line was written. `RecordInv` in
`SessionProofs` therefore goes through the journal:

- `InStep`: as long as nothing was overtaken, the lines that wait follow one another, the
  journal beginning anew here and there, and its last line comes last. `Reached` is then
  the line handled last, or 0 where the journal begins anew;
- `MissionsInv`: there is a *history* of the missions, one map for every line, such that
  each line tells how one map became the next (`Turns`), the last map is the game's, and
  the list kept shows the map of the line handled last. The journal's first line is a full
  `Missions` event, and so nothing is asked of the list where `Reached` is 0;
- `PledgeInv`, `RankInv`: the same of the pledge and of the rank, which the lines themselves
  name, so that no history is needed;
- `VoucherInv`, with `VouchersConserved`: a line that waits, waits once.

`Turned` is the step all of this rests on: if line *e* turns missions *a* into *b*, its
handler turns the list of *a* into the list of *b*, and a `Missions` event does so from any
list at all. It gives `MissionsSettle` and, alone, `ListHeals`. `RecordIsRight` puts the
four stories together. The credits under way are counted as the elements of a set
(`Underway`), for a set has a cardinality the provers can reason about, where a sum along
the waiting lines would have to be computed by recursion. `FirstEntry` is the least of a
set of numbers; that there is one (`Smallest`) is shown with the library's
well-foundedness of the natural numbers.

**MCSession.** A behaviour of `SessionSpec` about a part is a behaviour of that part's own
specification (`PartsApart`, from one lemma per part: its initial states are the part's,
and its steps are the part's or leave the part alone). The theorems about the parts hold
of the composition, and `EveryPartTyped` draws the conclusion for their types.

*Assumptions.* `JournalsAssumption` and `FeedAssumption` (journals are positive numbers,
for 0 stands for None, and lines are counted), `MaxLinesAssumption`,
`DbMayFailAssumption`, `FlightsAssumption` and `MaxInFlightAssumption` (a ship has the
levels there are), `FieldsAssumption` (the live fields are fields), `MissingAssumption`
(None is not a value), `ScriptsAssumption` and `RingAssumption` (bounds are numbers); and for
the records `KeysAssumption`, `ImportsAssumption` and `LibraryAssumption` (keys of
different kinds differ, and there are keys for what imports insert), `TablesAssumption`
(tables have different names, and no row is None) and `EarlierAssumption` (earlier
sessions left every row in its table, stops in their circuits, drafts with their
sources); and for ship, whereabouts and record `ShipAssumption`, `TravelAssumption` and
`RecordAssumption` (bounds are positive numbers, None is no ship, fit, amount, system,
station, context, destination or power, and there are finitely many missions). The runs
evaluate them. The observer variables are read by no
guard.

## 6. Findings

1. **`on_modified` and `retarget` race** (`tail_retarget_race`). `on_modified` looks at
   the pause flag once; a callback that is open on the old journal while the loop
   catches up the new one stores the old file's position over the new cursor. The doc
   string of `retarget` says the thread "never observes the new journal with the old file
   position". `AtMostOnce`, `NoLineSkipped` and `CursorOfTarget` hold when that does not
   happen, and are proved under that condition.
2. **An older journal can act after the newer one** (`pipeline_rollover`). Lines that are
   bridged already, or whose dispatch is suspended in a recorder, run their handlers
   during or after the catch-up of the newer journal, although `_perform_rollover` says
   they cannot. `NewerStateKept` shows, and `NewerState` proves, that this is the only
   way.
3. **A fall of the hull can go unannounced** (`alerts_hull_crossing`). The handler
   compares with the last HullDamage and not with the hull shown: after a repair that
   only Loadout reported, a fall below 25% raises nothing.
4. **An edited encounter is inserted again** (`session_encounter_again`). The check
   before an insert looks for a row with the journal's provenance, and an edit of the
   commander replaces the provenance: after a restart the journal is read again and the
   encounter is there twice, although the code says it checks "before creating".
   `EncounterOnce` holds as long as nothing was edited.

## 7. Only model-checked, and not modelled

*Only model-checked.* All liveness (`NoticeDelivers`, `NewerJournalAdopted`,
`EveryEventApplied`, `FuelSettles`, `ShieldSettles`, `PageConnects`, `ClientsServed`):
liveness under fairness is beyond the provers. Every other property of a passing run is
proved.

*Abstracted.* File names are numbers (the fallback on modification times for names that
cannot be parsed is left out). Payloads are levels, names and small sets; texts and the
limits of lists are abstracted to what the branches tell apart. Timestamps appear as "new"
or "as before", or as a position in the journal. One snapshot file stands for those of
market, outfitting and shipyard. `EventPipeline` feeds the dispatcher from the journal
alone; `ShipAlerts` and `LocalContext` show the interplay with Status.json.

*Left out of modelled components.* The rolling heat trend, pips and module-damage
announcements, the fuel reservoir, missing Status.json files; settings, privacy and
onboarding end points of `week13.py`; manual encounters and notes on them; the contents
of markets; `create_route_activation_proposal`, which nothing calls; `StateManager.reset`
is modelled although the program never calls it. Of the shell: the development branch
of `run()`, the check for a core that was started before (one instance launches once), a
failing `try_wait`, a bootloader that is ended by hand before its core, a port that another program has taken meanwhile, the overlay's window
and its banners. The core logs a line every five seconds, so that its ready line leaves
the 500 lines that are searched within the hour; `Launch` leaves open how many are found.

*Not modelled.* Source routing, cache and queue are skeletons at this commit: nothing
constructs them and no call leaves the process. The resource monitor and the latency
budget measure and log. Intel and exploration snapshots, the event home matrix and pillar
snapshots are pure projections; dataset shells have no effects; vault, schema, AI
providers, knowledge base and logging have no state that interacts.

*Behaviours met on the way, for which there is no run of their own.* A catch-up
read that fails midway is repeated from the start, so its lines are dispatched twice and
vouchers are counted twice; an OSError in a callback drops the event, and its lines wait
for the next write; a newer journal with a byte that is not UTF-8 is read from its start at
every poll, in vain, and keeps later lines out; a line torn by a read is lost; a line written between the end
of the catch-up and the start of the observer waits for the next write; tasks bridged
before `stop` act after `end_session` and are missing from the audit trail; one rise of
the heat is announced by the Status handler and by its sub-event; of two handoffs of one
plan that overlap one is lost (no property says otherwise); the key of a deleted bookmark is used again, and a call
that was under way then changes another bookmark (nor of this); an interdiction that is overtaken by its end is
proposed, and its proposal stays, for `InterdictionSettles` only speaks of what came in
order; two overlapping imports may both insert their source row; a transition that has
read its state before another call archived the campaign brings it back, stamped as
archived, though the table of transitions calls archived terminal; a first jump, and one
back to where the last one led, do not clear what the commander is wanted for, though
`event_types.py` says that a jump to a different system does; a `Loadout` that leaves
fields out leaves the ship before in them; where taskkill fails, the core outlives the
application; two events that say the same are one entry of the log a page reads.

## 8. What is left

- An abstract specification of a record (created, archived, gone) which the five modules
  on `RecordCalls` would implement where they do.
- The overlay's queue of banners and its second socket, beside shell.js.
- PipsChanged and module-damage announcements, on top of `ShipIdentity`.
