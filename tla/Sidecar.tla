------------------------------ MODULE Sidecar ------------------------------
(***************************************************************************)
(* The desktop shell and its core process: src-tauri/src/lib.rs (launch,   *)
(* adoption, reader, exit monitor, stop), the ends of main() that the      *)
(* shell sees (omnicovas/core/main.py), and how the page finds and keeps   *)
(* its connection (ui/components/shell.js).                                *)
(*                                                                         *)
(* An application instance has a main thread, a reader and a monitor       *)
(* thread, and a page.  It may be closed, or end without warning, and be   *)
(* started again; what instances share are the processes and the core's    *)
(* log.  A core stands for its port as well: two cores have two ports.     *)
(* Of the build, the packaged branch of run() is modelled, on Windows: the *)
(* executable is packed with --onefile, and what the shell starts, watches *)
(* and kills is a bootloader, whose child process is the core.  That a     *)
(* bootloader ends before its core is left out, but for what stop does.    *)
(***************************************************************************)
EXTENDS Integers, Sequences

CONSTANTS Apps,    \* instances of the application
          Cores,   \* processes that may be started: bounds the launches
          Paged,   \* the instances whose page is followed
          None

VARIABLES
  app,      \* the main thread of an instance
  seen,     \* the ready lines it has found in the core's log
  left,     \* how many of them are still to be tried, the newest first
  mine,     \* the process it has started, at the other end of its pipes
  child,    \* SIDECAR_CHILD
  taken,    \* the child that stop has taken and waits for, holding the lock
  monitor,  \* "none"; "watching"; "exited", between its two critical sections
  reader,   \* "none"; "reading"; "told", a line to read; "stored", the event to emit
  info,     \* BRIDGE_INFO
  core,     \* the life of a core's process
  orphans,  \* observer: cores that run on because taskkill has failed to end them
  readyLog, \* omnicovas.log: the cores that were ready, in order
  page      \* shell.js: where boot() or its socket is, and the bridge found

shellVars == <<app, seen, left, mine, child, taken, monitor, reader, info>>
coreVars == <<core, orphans, readyLog>>
vars == <<shellVars, coreVars, page>>

Running(s) == app[s] \notin {"off", "closed"}
Alive(k) == k # None /\ core[k] \in {"starting", "listening", "announced"}
Listening(k) == k # None /\ core[k] \in {"listening", "announced"}
Unloaded == [at |-> "none", bridge |-> None]

Init ==
  /\ app = [s \in Apps |-> "off"]
  /\ seen = [s \in Apps |-> <<>>]
  /\ left = [s \in Apps |-> 0]
  /\ mine = [s \in Apps |-> None]
  /\ child = [s \in Apps |-> None]
  /\ taken = [s \in Apps |-> None]
  /\ monitor = [s \in Apps |-> "none"]
  /\ reader = [s \in Apps |-> "none"]
  /\ info = [s \in Apps |-> None]
  /\ core = [k \in Cores |-> "unused"]
  /\ orphans = {}
  /\ readyLog = <<>>
  /\ page = [s \in Apps |-> Unloaded]

-----------------------------------------------------------------------------
(* Setup, on the main thread.                                              *)

\* launch_packaged_sidecar: nothing is owned yet, and the log is read once.  Of its ready
\* lines those among the last 500 lines count; how much else was logged is left open.
Launch(s) ==
  /\ ~Running(s)
  /\ app' = [app EXCEPT ![s] = "scanning"]
  /\ \E oldest \in 1 .. Len(readyLog) + 1 :
       /\ seen' = [seen EXCEPT ![s] = SubSeq(readyLog, oldest, Len(readyLog))]
       /\ left' = [left EXCEPT ![s] = Len(readyLog) + 1 - oldest]
  /\ mine' = [mine EXCEPT ![s] = None]
  /\ UNCHANGED <<info, child, taken, monitor, reader, coreVars, page>>

\* Mutant: only the newest line is tried.
TryLineNewest(s) ==
  /\ app[s] = "scanning" /\ left[s] > 0
  /\ IF Listening(seen[s][left[s]])
       THEN /\ info' = [info EXCEPT ![s] = seen[s][left[s]]]
            /\ app' = [app EXCEPT ![s] = "adopted"]
            /\ seen' = [seen EXCEPT ![s] = <<>>]
            /\ left' = [left EXCEPT ![s] = 0]
       ELSE /\ left' = [left EXCEPT ![s] = 0]
            /\ UNCHANGED <<app, info, seen>>
  /\ UNCHANGED <<mine, child, taken, monitor, reader, coreVars, page>>

\* adopt_existing_bridge_from_log: one connection is tried per ready line.
TryLine(s) ==
  /\ app[s] = "scanning" /\ left[s] > 0
  /\ IF Listening(seen[s][left[s]])
       THEN /\ info' = [info EXCEPT ![s] = seen[s][left[s]]]
            /\ app' = [app EXCEPT ![s] = "adopted"]
            /\ seen' = [seen EXCEPT ![s] = <<>>]
            /\ left' = [left EXCEPT ![s] = 0]
       ELSE /\ left' = [left EXCEPT ![s] = @ - 1]
            /\ UNCHANGED <<app, info, seen>>
  /\ UNCHANGED <<mine, child, taken, monitor, reader, coreVars, page>>

\* spawn_explicit_packaged_sidecar, and the threads that read the child's pipes, which
\* the core inherits.
Spawn(s) ==
  /\ app[s] = "scanning" /\ left[s] = 0
  /\ \E k \in Cores :
       /\ core[k] = "unused"
       /\ core' = [core EXCEPT ![k] = "starting"]
       /\ mine' = [mine EXCEPT ![s] = k]
  /\ app' = [app EXCEPT ![s] = "spawned"]
  /\ seen' = [seen EXCEPT ![s] = <<>>]
  /\ reader' = [reader EXCEPT ![s] = "reading"]
  /\ UNCHANGED <<left, child, taken, monitor, info, orphans, readyLog, page>>

\* What ends with the process of an instance.
Ends(s) ==
  /\ app' = [app EXCEPT ![s] = "closed"]
  /\ seen' = [seen EXCEPT ![s] = <<>>]
  /\ left' = [left EXCEPT ![s] = 0]
  /\ info' = [info EXCEPT ![s] = None]
  /\ child' = [child EXCEPT ![s] = None]
  /\ taken' = [taken EXCEPT ![s] = None]
  /\ monitor' = [monitor EXCEPT ![s] = "none"]
  /\ reader' = [reader EXCEPT ![s] = "none"]
  /\ page' = [page EXCEPT ![s] = Unloaded]
  /\ UNCHANGED readyLog

\* There is no executable: setup fails, and so does run().
SetupFails(s) ==
  /\ app[s] = "scanning" /\ left[s] = 0
  /\ Ends(s)
  /\ UNCHANGED <<mine, core, orphans>>

\* store_packaged_sidecar_child: the child is owned, and its end watched for.
StoreChild(s) ==
  /\ app[s] = "spawned"
  /\ child' = [child EXCEPT ![s] = mine[s]]
  /\ monitor' = [monitor EXCEPT ![s] = "watching"]
  /\ app' = [app EXCEPT ![s] = "open"]
  /\ UNCHANGED <<seen, left, mine, taken, reader, info, coreVars, page>>

\* The page hears of a bridge while it waits for the event.
Heard(s) == IF page[s].at = "waiting" THEN [at |-> "found", bridge |-> info[s]] ELSE page[s]

\* record_bridge_ready after an adoption: the event, after the store.
EmitAdopted(s) ==
  /\ app[s] = "adopted"
  /\ page' = [page EXCEPT ![s] = Heard(s)]
  /\ app' = [app EXCEPT ![s] = "open"]
  /\ UNCHANGED <<seen, left, mine, child, taken, monitor, reader, info, coreVars>>

-----------------------------------------------------------------------------
(* The other threads.                                                      *)

\* record_bridge_ready on the reader's thread: the bridge is stored ...
ReadReady(s) ==
  /\ reader[s] = "told" /\ Running(s)
  /\ info' = [info EXCEPT ![s] = mine[s]]
  /\ reader' = [reader EXCEPT ![s] = "stored"]
  /\ UNCHANGED <<app, seen, left, mine, child, taken, monitor, coreVars, page>>

\* ... and then the event emitted.
EmitReady(s) ==
  /\ reader[s] = "stored" /\ Running(s)
  /\ page' = [page EXCEPT ![s] = Heard(s)]
  /\ reader' = [reader EXCEPT ![s] = "none"]
  /\ UNCHANGED <<app, seen, left, mine, child, taken, monitor, info, coreVars>>

\* Stop keeps the lock of the child while it waits.
Unlocked(s) == Running(s) /\ app[s] # "stopping"

\* spawn_sidecar_exit_monitor: the child has ended, some time after its core, or there is
\* none any more.  That try_wait fails for a child that runs is left out.
MonitorLooks(s) ==
  /\ monitor[s] = "watching" /\ Unlocked(s)
  /\ child[s] = None \/ ~Alive(child[s])
  /\ monitor' = [monitor EXCEPT ![s] = IF child[s] = None THEN "none" ELSE "exited"]
  /\ UNCHANGED <<app, seen, left, mine, child, taken, reader, info, coreVars, page>>

\* The handle is cleared under a second lock.
MonitorClears(s) ==
  /\ monitor[s] = "exited" /\ Unlocked(s)
  /\ child' = [child EXCEPT ![s] = None]
  /\ monitor' = [monitor EXCEPT ![s] = "none"]
  /\ UNCHANGED <<app, seen, left, mine, taken, reader, info, coreVars, page>>

-----------------------------------------------------------------------------
(* The end of an instance.                                                 *)

\* CloseRequested on the main window: stop takes the child, if one is owned.
CloseWindow(s) ==
  /\ app[s] = "open"
  /\ app' = [app EXCEPT ![s] = "stopping"]
  /\ taken' = [taken EXCEPT ![s] = child[s]]
  /\ child' = [child EXCEPT ![s] = None]
  /\ UNCHANGED <<seen, left, mine, monitor, reader, info, coreVars, page>>

\* taskkill /T ends the bootloader and, below it, the core.
KillTree(k) == core' = [core EXCEPT ![k] = "dead"] /\ UNCHANGED orphans

\* taskkill has failed: child.kill() ends the bootloader, and its core goes on.
KillChild(k) == orphans' = orphans \cup {k} /\ UNCHANGED core

\* Mutant: the child is killed, without its tree.
StopChildAlone(s) ==
  /\ app[s] = "stopping"
  /\ UNCHANGED <<mine, core, orphans>>
  /\ Ends(s)

\* The process tree is killed, or else the child alone; then the application exits.
StopChild(s) ==
  /\ app[s] = "stopping"
  /\ IF Alive(taken[s]) THEN KillTree(taken[s]) \/ KillChild(taken[s])
     ELSE UNCHANGED <<core, orphans>>
  /\ UNCHANGED mine
  /\ Ends(s)

\* The application ends without a close request; its core is left to itself.
Crash(s) ==
  /\ Running(s)
  /\ Ends(s)
  /\ mine' = [mine EXCEPT ![s] = None]
  /\ UNCHANGED <<core, orphans>>

-----------------------------------------------------------------------------
(* The core: the end of main().                                            *)

\* ApiBridge.start: the server is bound, and the log says so.
Bind(k) ==
  /\ core[k] = "starting"
  /\ core' = [core EXCEPT ![k] = "listening"]
  /\ readyLog' = Append(readyLog, k)
  /\ UNCHANGED <<shellVars, orphans, page>>

\* The ready message is printed; a pipe that nobody reads ends the process.
Announce(k) ==
  /\ core[k] = "listening"
  /\ LET readers == {s \in Apps : Running(s) /\ mine[s] = k} IN
       /\ core' = [core EXCEPT ![k] = IF readers = {} THEN "dead" ELSE "announced"]
       /\ reader' = [s \in Apps |-> IF s \in readers THEN "told" ELSE reader[s]]
  /\ UNCHANGED <<app, seen, left, mine, child, taken, monitor, info, orphans, readyLog, page>>

\* The bridge is not ready in time and main() returns; or the process ends otherwise.
Die(k) ==
  /\ Alive(k)
  /\ core' = [core EXCEPT ![k] = "dead"]
  /\ orphans' = orphans \ {k}
  /\ UNCHANGED <<shellVars, readyLog, page>>

-----------------------------------------------------------------------------
(* The page: boot(), discover() and openWebSocket() of shell.js.           *)

PageGoes(s, from, to, bridge) ==
  /\ Running(s) /\ page[s].at = from
  /\ page' = [page EXCEPT ![s] = [at |-> to, bridge |-> bridge]]
  /\ UNCHANGED <<shellVars, coreVars>>

\* boot() listens for the event ...
Load(s) == s \in Paged /\ PageGoes(s, "none", "waiting", None)

\* ... and after a while asks for the bridge instead.
StopWaiting(s) == PageGoes(s, "waiting", "polling", None)

\* Mutant: an answer of the command is not taken for one.
AskInVain(s) == info[s] # None /\ PageGoes(s, "polling", "waiting", None)

\* get_bridge_info has an answer.
Ask(s) == info[s] # None /\ PageGoes(s, "polling", "found", info[s])

\* The attempts are used up, and the probe of some round ports finds nothing: "Core not
\* found", and boot() is tried again.
GiveUp(s) == info[s] = None /\ PageGoes(s, "polling", "none", None)

\* fetchState has returned: the socket is opened, at once or after a delay ...
Connect(s) ==
  /\ Listening(page[s].bridge)
  /\ \E at \in {"found", "backoff"} : PageGoes(s, at, "connected", page[s].bridge)

\* ... or closed, and is tried again after a longer delay.
Disconnect(s) ==
  /\ ~Listening(page[s].bridge)
  /\ \E at \in {"found", "connected"} : PageGoes(s, at, "backoff", page[s].bridge)

-----------------------------------------------------------------------------

MainThread(s) == Launch(s) \/ TryLine(s) \/ Spawn(s) \/ SetupFails(s) \/ StoreChild(s)
                   \/ EmitAdopted(s) \/ CloseWindow(s) \/ StopChild(s) \/ Crash(s)
Threads(s) == ReadReady(s) \/ EmitReady(s) \/ MonitorLooks(s) \/ MonitorClears(s)
Page(s) == Load(s) \/ StopWaiting(s) \/ Ask(s) \/ GiveUp(s) \/ Connect(s) \/ Disconnect(s)
Process(k) == Bind(k) \/ Announce(k) \/ Die(k)

Next ==
  \/ \E s \in Apps : MainThread(s) \/ Threads(s) \/ Page(s)
  \/ \E k \in Cores : Process(k)

Spec == Init /\ [][Next]_vars

\* The page's timers and calls go on.  Nothing is asked of the threads, the processes
\* or the commander.
Fair == \A s \in Paged : WF_vars(Page(s))
FairSpec == Spec /\ Fair

-----------------------------------------------------------------------------
(* Properties.                                                             *)

\* lib.rs: an instance that was closed leaves no core of its own behind, whatever the
\* monitor was about to do and whenever the core ended, but one that was left alone
\* because taskkill had failed.
OwnedCoresEnd == \A s \in Apps : app[s] = "closed" => ~Alive(mine[s]) \/ mine[s] \in orphans

\* lib.rs: a core is only started when none whose ready line was among the last ones of
\* the log is there to be adopted.
KnownCoreAdopted ==
  \A s \in Apps : app[s] = "scanning" /\ left[s] = 0 =>
    \A i \in DOMAIN seen[s] : ~Listening(seen[s][i])

\* lib.rs: what an instance has started ends with it, unless taskkill fails, and what was
\* left behind, and is seen in the log, is adopted before another is started.  Of a core
\* that is not bound yet, or was too long ago, nothing is known, and a second is started.
CoresOwned == OwnedCoresEnd /\ KnownCoreAdopted

\* shell.js: whenever the application knows a bridge, its page gets connected to it,
\* however the page's loading, the event and the answers of the command fall.
PageConnects ==
  \A s \in Paged :
    (app[s] = "open" /\ Listening(info[s])) ~>
      (\/ page[s] = [at |-> "connected", bridge |-> info[s]]
       \/ ~Listening(info[s]) \/ app[s] # "open")
=============================================================================
