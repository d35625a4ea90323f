---------------------------- MODULE SidecarProofs ----------------------------
(***************************************************************************)
(* What becomes of the cores, for any number of applications and cores:    *)
(* a closed application leaves none of its own, unless taskkill has        *)
(* failed, and a core that the log knew of is adopted.                     *)
(*                                                                         *)
(* That nothing is left behind when an application has closed depends on   *)
(* who holds its core before: Custody says it for every point the main     *)
(* thread and the monitor may have reached.                                *)
(***************************************************************************)
EXTENDS Sidecar, TLAPS

\* The values of what the proofs are about.
Shapes ==
  /\ app \in [Apps -> {"off", "scanning", "adopted", "spawned", "open", "stopping", "closed"}]
  /\ mine \in [Apps -> Cores \cup {None}]
  /\ child \in [Apps -> Cores \cup {None}]
  /\ taken \in [Apps -> Cores \cup {None}]
  /\ monitor \in [Apps -> {"none", "watching", "exited"}]
  /\ seen \in [Apps -> Seq(Cores)]
  /\ left \in [Apps -> Nat]
  /\ core \in [Cores -> {"unused", "starting", "listening", "announced", "dead"}]
  /\ orphans \subseteq Cores
  /\ readyLog \in Seq(Cores)

\* The core an application has started is in its child handle, taken by the stop, or has
\* ended; the monitor clears the handle of a core that has ended, and only while the
\* window is open.
Custody(s) ==
  /\ mine[s] # None => core[mine[s]] # "unused"
  /\ child[s] \in {None, mine[s]}
  /\ monitor[s] # "none" => app[s] \in {"open", "stopping"}
  /\ monitor[s] = "exited" => ~Alive(mine[s])
  /\ app[s] \in {"off", "scanning", "adopted"} => mine[s] = None
  /\ app[s] \in {"off", "scanning", "adopted", "spawned", "closed"} => child[s] = None
  /\ app[s] = "open" => child[s] = mine[s] \/ ~Alive(mine[s])
  /\ app[s] = "stopping" => taken[s] = mine[s] \/ ~Alive(mine[s])
  /\ app[s] = "closed" => ~Alive(mine[s]) \/ mine[s] \in orphans

Bound(k) == core[k] \in {"listening", "announced", "dead"}

\* The cores an application has found in the log were bound, and the lines it has tried
\* led nowhere.
Tried(s) ==
  /\ \A i \in DOMAIN seen[s] : Bound(seen[s][i])
  /\ app[s] = "scanning" =>
       \A i \in DOMAIN seen[s] : i > left[s] => ~Listening(seen[s][i])

\* What the log tells of was bound.
Logged == \A i \in DOMAIN readyLog : Bound(readyLog[i])

IInv ==
  /\ Shapes
  /\ \A s \in Apps : Custody(s)
  /\ Logged
  /\ \A s \in Apps : Tried(s)

-----------------------------------------------------------------------------

\* Every step keeps to these values.
LEMMA ShapesKept ==
  ASSUME Shapes, [Next]_vars
  PROVE  Shapes'
<1>1. ASSUME NEW s \in Apps, Launch(s) PROVE Shapes'
  BY <1>1 DEF Launch, coreVars, Shapes
<1>2. ASSUME NEW s \in Apps, TryLine(s) PROVE Shapes'
  <2>1. /\ UNCHANGED <<mine, child, taken, monitor, core, orphans, readyLog>>
        /\ app' = [app EXCEPT ![s] = "adopted"] \/ app' = app
        /\ seen' = [seen EXCEPT ![s] = <<>>] \/ seen' = seen
        /\ left' = [left EXCEPT ![s] = 0] \/ left' = [left EXCEPT ![s] = @ - 1]
        /\ left[s] > 0
    BY <1>2 DEF TryLine, coreVars
  <2>2. left \in [Apps -> Nat] /\ left[s] - 1 \in Nat
    BY <2>1 DEF Shapes
  <2>3. left' \in [Apps -> Nat]
    BY <2>1, <2>2
  <2>4. seen' \in [Apps -> Seq(Cores)]
    <3>1. seen \in [Apps -> Seq(Cores)] /\ <<>> \in Seq(Cores)
      BY DEF Shapes
    <3> QED
      BY <2>1, <3>1
  <2>5. app' \in [Apps -> {"off", "scanning", "adopted", "spawned", "open", "stopping", "closed"}]
    BY <2>1 DEF Shapes
  <2> QED
    BY <2>1, <2>3, <2>4, <2>5 DEF Shapes
<1>3. ASSUME NEW s \in Apps, Spawn(s) PROVE Shapes'
  BY <1>3 DEF Spawn, Shapes
<1>4. ASSUME NEW s \in Apps, SetupFails(s) PROVE Shapes'
  BY <1>4 DEF SetupFails, Ends, Shapes
<1>5. ASSUME NEW s \in Apps, StoreChild(s) PROVE Shapes'
  BY <1>5 DEF StoreChild, coreVars, Shapes
<1>6. ASSUME NEW s \in Apps, EmitAdopted(s) PROVE Shapes'
  BY <1>6 DEF EmitAdopted, coreVars, Shapes
<1>7. ASSUME NEW s \in Apps, CloseWindow(s) PROVE Shapes'
  BY <1>7 DEF CloseWindow, coreVars, Shapes
<1>8. ASSUME NEW s \in Apps, StopChild(s) PROVE Shapes'
  <2>1. /\ app' \in [Apps -> {"off", "scanning", "adopted", "spawned", "open", "stopping", "closed"}]
        /\ UNCHANGED <<mine, readyLog>>
        /\ child' \in [Apps -> Cores \cup {None}] /\ taken' \in [Apps -> Cores \cup {None}]
        /\ monitor' \in [Apps -> {"none", "watching", "exited"}]
        /\ seen' \in [Apps -> Seq(Cores)] /\ left' \in [Apps -> Nat]
    BY <1>8 DEF StopChild, Ends, Shapes
  <2>2. UNCHANGED <<core, orphans>> \/ (taken[s] # None /\ (KillTree(taken[s]) \/ KillChild(taken[s])))
    BY <1>8 DEF StopChild, Alive
  <2>3. taken[s] \in Cores \cup {None}
    BY DEF Shapes
  <2>4. core' \in [Cores -> {"unused", "starting", "listening", "announced", "dead"}]
    BY <2>2 DEF KillTree, KillChild, Shapes
  <2>5. orphans' \subseteq Cores
    BY <2>2, <2>3 DEF KillTree, KillChild, Shapes
  <2> QED
    BY <2>1, <2>4, <2>5 DEF Shapes
<1>9. ASSUME NEW s \in Apps, Crash(s) PROVE Shapes'
  BY <1>9 DEF Crash, Ends, Shapes
<1>10. ASSUME NEW s \in Apps, ReadReady(s) PROVE Shapes'
  BY <1>10 DEF ReadReady, coreVars, Shapes
<1>11. ASSUME NEW s \in Apps, EmitReady(s) PROVE Shapes'
  BY <1>11 DEF EmitReady, coreVars, Shapes
<1>12. ASSUME NEW s \in Apps, MonitorLooks(s) PROVE Shapes'
  BY <1>12 DEF MonitorLooks, coreVars, Shapes
<1>13. ASSUME NEW s \in Apps, MonitorClears(s) PROVE Shapes'
  BY <1>13 DEF MonitorClears, coreVars, Shapes
<1>14. ASSUME NEW k \in Cores, Bind(k) PROVE Shapes'
  BY <1>14 DEF Bind, shellVars, Shapes
<1>15. ASSUME NEW k \in Cores, Announce(k) PROVE Shapes'
  BY <1>15 DEF Announce, Shapes
<1>16. ASSUME NEW k \in Cores, Die(k) PROVE Shapes'
  BY <1>16 DEF Die, shellVars, Shapes
<1>17. ASSUME NEW s \in Apps, Page(s) PROVE Shapes'
  BY <1>17 DEF Page, Load, StopWaiting, Ask, GiveUp, Connect, Disconnect, PageGoes,
         shellVars, coreVars, Shapes
<1>18. CASE UNCHANGED vars
  BY <1>18 DEF vars, shellVars, coreVars, Shapes
<1> QED
  BY <1>1, <1>2, <1>3, <1>4, <1>5, <1>6, <1>7, <1>8, <1>9, <1>10, <1>11, <1>12, <1>13,
     <1>14, <1>15, <1>16, <1>17, <1>18
     DEF Next, MainThread, Threads, Process

\* A core is started once, and once it has ended it never runs again.
LEMMA CoresEnd ==
  ASSUME Shapes, NEW x \in Cores, [Next]_vars
  PROVE  /\ core[x] # "unused" => core'[x] # "unused" /\ (Alive(x)' => Alive(x))
         /\ Bound(x) => Bound(x)' /\ (Listening(x)' => Listening(x))
         /\ x \in orphans /\ Alive(x)' => x \in orphans'
<1> DEFINE Onward == /\ core[x] # "unused" => core'[x] # "unused" /\ (Alive(x)' => Alive(x))
                     /\ Bound(x) => Bound(x)' /\ (Listening(x)' => Listening(x))
                     /\ x \in orphans /\ Alive(x)' => x \in orphans'
<1>1. ASSUME NEW s \in Apps, Launch(s) PROVE Onward
  BY <1>1 DEF Launch, coreVars, Alive, Listening, Bound
<1>2. ASSUME NEW s \in Apps, TryLine(s) PROVE Onward
  BY <1>2 DEF TryLine, coreVars, Alive, Listening, Bound
<1>3. ASSUME NEW s \in Apps, Spawn(s) PROVE Onward
  BY <1>3 DEF Spawn, Alive, Listening, Bound
<1>4. ASSUME NEW s \in Apps, SetupFails(s) PROVE Onward
  BY <1>4 DEF SetupFails, Alive, Listening, Bound
<1>5. ASSUME NEW s \in Apps, StoreChild(s) PROVE Onward
  BY <1>5 DEF StoreChild, coreVars, Alive, Listening, Bound
<1>6. ASSUME NEW s \in Apps, EmitAdopted(s) PROVE Onward
  BY <1>6 DEF EmitAdopted, coreVars, Alive, Listening, Bound
<1>7. ASSUME NEW s \in Apps, CloseWindow(s) PROVE Onward
  BY <1>7 DEF CloseWindow, coreVars, Alive, Listening, Bound
<1>8. ASSUME NEW s \in Apps, StopChild(s) PROVE Onward
  <2>1. \/ UNCHANGED <<core, orphans>>
        \/ core' = [core EXCEPT ![taken[s]] = "dead"] /\ orphans' = orphans
        \/ core' = core /\ orphans' = orphans \cup {taken[s]}
    BY <1>8 DEF StopChild, KillTree, KillChild
  <2>2. core'[x] = core[x] \/ core'[x] = "dead"
    BY <2>1 DEF Shapes
  <2>3. x \in orphans => x \in orphans'
    BY <2>1
  <2> QED
    BY <2>2, <2>3 DEF Alive, Listening, Bound
<1>9. ASSUME NEW s \in Apps, Crash(s) PROVE Onward
  BY <1>9 DEF Crash, Alive, Listening, Bound
<1>10. ASSUME NEW s \in Apps, ReadReady(s) PROVE Onward
  BY <1>10 DEF ReadReady, coreVars, Alive, Listening, Bound
<1>11. ASSUME NEW s \in Apps, EmitReady(s) PROVE Onward
  BY <1>11 DEF EmitReady, coreVars, Alive, Listening, Bound
<1>12. ASSUME NEW s \in Apps, MonitorLooks(s) PROVE Onward
  BY <1>12 DEF MonitorLooks, coreVars, Alive, Listening, Bound
<1>13. ASSUME NEW s \in Apps, MonitorClears(s) PROVE Onward
  BY <1>13 DEF MonitorClears, coreVars, Alive, Listening, Bound
<1>14. ASSUME NEW k \in Cores, Bind(k) PROVE Onward
  BY <1>14 DEF Bind, Alive, Listening, Bound
<1>15. ASSUME NEW k \in Cores, Announce(k) PROVE Onward
  BY <1>15 DEF Announce, Alive, Listening, Bound
<1>16. ASSUME NEW k \in Cores, Die(k) PROVE Onward
  <2>1. /\ core' = [core EXCEPT ![k] = "dead"] /\ orphans' = orphans \ {k}
    BY <1>16 DEF Die
  <2>2. CASE x = k
    BY <2>1, <2>2 DEF Shapes, Alive, Listening, Bound
  <2>3. CASE x # k
    BY <2>1, <2>3 DEF Shapes, Alive, Listening, Bound
  <2> QED
    BY <2>2, <2>3
<1>17. ASSUME NEW s \in Apps, Page(s) PROVE Onward
  BY <1>17 DEF Page, Load, StopWaiting, Ask, GiveUp, Connect, Disconnect, PageGoes,
         coreVars, Alive, Listening, Bound
<1>18. CASE UNCHANGED vars
  BY <1>18 DEF vars, coreVars, Alive, Listening, Bound
<1> QED
  BY <1>1, <1>2, <1>3, <1>4, <1>5, <1>6, <1>7, <1>8, <1>9, <1>10, <1>11, <1>12, <1>13,
     <1>14, <1>15, <1>16, <1>17, <1>18
     DEF Next, MainThread, Threads, Process

\* Every step hands the core on.
LEMMA CustodyKept ==
  ASSUME Shapes, \A s \in Apps : Custody(s), NEW t \in Apps, [Next]_vars
  PROVE  Custody(t)'
<1>0. ASSUME NEW x \in Cores, core[x] # "unused"
      PROVE  /\ core'[x] # "unused" /\ (Alive(x)' => Alive(x))
             /\ x \in orphans /\ Alive(x)' => x \in orphans'
  BY <1>0, CoresEnd
<1>1. ASSUME NEW s \in Apps, Launch(s) PROVE Custody(t)'
  BY <1>1, <1>0 DEF Launch, Running, Shapes, Custody, Alive
<1>2. ASSUME NEW s \in Apps, TryLine(s) PROVE Custody(t)'
  BY <1>2, <1>0 DEF TryLine, Shapes, Custody, Alive
<1>3. ASSUME NEW s \in Apps, Spawn(s) PROVE Custody(t)'
  BY <1>3 DEF Spawn, Shapes, Custody, Alive
<1>4. ASSUME NEW s \in Apps, SetupFails(s) PROVE Custody(t)'
  BY <1>4 DEF SetupFails, Ends, Custody, Alive
<1>5. ASSUME NEW s \in Apps, StoreChild(s) PROVE Custody(t)'
  BY <1>5, <1>0 DEF StoreChild, Shapes, Custody, Alive
<1>6. ASSUME NEW s \in Apps, EmitAdopted(s) PROVE Custody(t)'
  BY <1>6, <1>0 DEF EmitAdopted, Shapes, Custody, Alive
<1>7. ASSUME NEW s \in Apps, CloseWindow(s) PROVE Custody(t)'
  BY <1>7, <1>0 DEF CloseWindow, Shapes, Custody, Alive
<1>8. ASSUME NEW s \in Apps, StopChild(s) PROVE Custody(t)'
  BY <1>8 DEF StopChild, KillTree, KillChild, Ends, Shapes, Custody, Alive
<1>9. ASSUME NEW s \in Apps, Crash(s) PROVE Custody(t)'
  BY <1>9 DEF Crash, Ends, Shapes, Custody, Alive
<1>10. ASSUME NEW s \in Apps, ReadReady(s) PROVE Custody(t)'
  BY <1>10, <1>0 DEF ReadReady, Shapes, Custody, Alive
<1>11. ASSUME NEW s \in Apps, EmitReady(s) PROVE Custody(t)'
  BY <1>11, <1>0 DEF EmitReady, Shapes, Custody, Alive
<1>12. ASSUME NEW s \in Apps, MonitorLooks(s) PROVE Custody(t)'
  BY <1>12, <1>0 DEF MonitorLooks, Shapes, Custody, Alive
<1>13. ASSUME NEW s \in Apps, MonitorClears(s) PROVE Custody(t)'
  BY <1>13, <1>0 DEF MonitorClears, Shapes, Custody, Alive
<1>14. ASSUME NEW k \in Cores, Bind(k) PROVE Custody(t)'
  BY <1>14 DEF Bind, shellVars, Custody, Alive
<1>15. ASSUME NEW k \in Cores, Announce(k) PROVE Custody(t)'
  BY <1>15 DEF Announce, Custody, Alive
<1>16. ASSUME NEW k \in Cores, Die(k) PROVE Custody(t)'
  <2>1. UNCHANGED shellVars
    BY <1>16 DEF Die
  <2>2. mine[t] \in Cores \cup {None}
    BY DEF Shapes
  <2> QED
    BY <2>1, <2>2, <1>0 DEF shellVars, Custody, Alive
<1>17. ASSUME NEW s \in Apps, Page(s) PROVE Custody(t)'
  BY <1>17, <1>0 DEF Page, Load, StopWaiting, Ask, GiveUp, Connect, Disconnect, PageGoes,
         shellVars, Shapes, Custody, Alive
<1>18. CASE UNCHANGED vars
  BY <1>18, <1>0 DEF vars, shellVars, Shapes, Custody, Alive
<1> QED
  BY <1>1, <1>2, <1>3, <1>4, <1>5, <1>6, <1>7, <1>8, <1>9, <1>10, <1>11, <1>12, <1>13,
     <1>14, <1>15, <1>16, <1>17, <1>18
     DEF Next, MainThread, Threads, Process

\* The log only tells of cores that were bound.
LEMMA LogKept ==
  ASSUME Shapes, Logged, [Next]_vars
  PROVE  Logged'
<1>0. \A i \in DOMAIN readyLog : core'[readyLog[i]] \in {"listening", "announced", "dead"}
  <2>1. \A i \in DOMAIN readyLog : readyLog[i] \in Cores
    BY DEF Shapes
  <2> QED
    BY <2>1, CoresEnd DEF Bound, Logged
<1>1. ASSUME NEW s \in Apps, Launch(s) PROVE Logged'
  BY <1>1 DEF Launch, coreVars, Logged, Bound
<1>2. ASSUME NEW s \in Apps, TryLine(s) PROVE Logged'
  BY <1>2 DEF TryLine, coreVars, Logged, Bound
<1>3. ASSUME NEW s \in Apps, Spawn(s) PROVE Logged'
  BY <1>3 DEF Spawn, Logged, Bound
<1>4. ASSUME NEW s \in Apps, SetupFails(s) PROVE Logged'
  BY <1>4 DEF SetupFails, Ends, Logged, Bound
<1>5. ASSUME NEW s \in Apps, StoreChild(s) PROVE Logged'
  BY <1>5 DEF StoreChild, coreVars, Logged, Bound
<1>6. ASSUME NEW s \in Apps, EmitAdopted(s) PROVE Logged'
  BY <1>6 DEF EmitAdopted, coreVars, Logged, Bound
<1>7. ASSUME NEW s \in Apps, CloseWindow(s) PROVE Logged'
  BY <1>7 DEF CloseWindow, coreVars, Logged, Bound
<1>8. ASSUME NEW s \in Apps, StopChild(s) PROVE Logged'
  BY <1>8, <1>0 DEF StopChild, KillTree, KillChild, Ends, Logged, Bound
<1>9. ASSUME NEW s \in Apps, Crash(s) PROVE Logged'
  BY <1>9 DEF Crash, Ends, Logged, Bound
<1>10. ASSUME NEW s \in Apps, ReadReady(s) PROVE Logged'
  BY <1>10 DEF ReadReady, coreVars, Logged, Bound
<1>11. ASSUME NEW s \in Apps, EmitReady(s) PROVE Logged'
  BY <1>11 DEF EmitReady, coreVars, Logged, Bound
<1>12. ASSUME NEW s \in Apps, MonitorLooks(s) PROVE Logged'
  BY <1>12 DEF MonitorLooks, coreVars, Logged, Bound
<1>13. ASSUME NEW s \in Apps, MonitorClears(s) PROVE Logged'
  BY <1>13 DEF MonitorClears, coreVars, Logged, Bound
<1>14. ASSUME NEW k \in Cores, Bind(k) PROVE Logged'
  <2>1. readyLog \in Seq(Cores) /\ readyLog' = Append(readyLog, k)
    BY <1>14 DEF Bind, Shapes
  <2>2. core'[k] = "listening"
    BY <1>14 DEF Bind, Shapes
  <2>3. \A i \in DOMAIN readyLog' :
          readyLog'[i] = k \/ (i \in DOMAIN readyLog /\ readyLog'[i] = readyLog[i])
    BY <2>1
  <2> QED
    BY <1>0, <2>2, <2>3 DEF Logged, Bound
<1>15. ASSUME NEW k \in Cores, Announce(k) PROVE Logged'
  BY <1>15 DEF Announce, Logged, Bound
<1>16. ASSUME NEW k \in Cores, Die(k) PROVE Logged'
  BY <1>16 DEF Die, Logged, Bound
<1>17. ASSUME NEW s \in Apps, Page(s) PROVE Logged'
  BY <1>17 DEF Page, Load, StopWaiting, Ask, GiveUp, Connect, Disconnect, PageGoes,
         coreVars, Logged, Bound
<1>18. CASE UNCHANGED vars
  BY <1>18 DEF vars, coreVars, Logged, Bound
<1> QED
  BY <1>1, <1>2, <1>3, <1>4, <1>5, <1>6, <1>7, <1>8, <1>9, <1>10, <1>11, <1>12, <1>13,
     <1>14, <1>15, <1>16, <1>17, <1>18
     DEF Next, MainThread, Threads, Process

\* What was tried leads nowhere ever after.
LEMMA TriedKept ==
  ASSUME Shapes, Logged, \A s \in Apps : Tried(s), NEW t \in Apps, [Next]_vars
  PROVE  Tried(t)'
<1>0. \A i \in DOMAIN seen[t] :
        /\ core'[seen[t][i]] \in {"listening", "announced", "dead"}
        /\ (seen[t][i] # None /\ core'[seen[t][i]] \in {"listening", "announced"}) =>
             Listening(seen[t][i])
  <2>1. \A i \in DOMAIN seen[t] : seen[t][i] \in Cores /\ Bound(seen[t][i])
    BY DEF Shapes, Tried
  <2>2. ASSUME NEW x \in Cores, Bound(x)
        PROVE  /\ core'[x] \in {"listening", "announced", "dead"}
               /\ (x # None /\ core'[x] \in {"listening", "announced"}) => Listening(x)
    BY <2>2, CoresEnd DEF Bound, Listening
  <2> QED
    BY <2>1, <2>2
<1>1. ASSUME NEW s \in Apps, Launch(s) PROVE Tried(t)'
  <2>1. CASE t = s
    <3>1. PICK oldest \in 1 .. Len(readyLog) + 1 :
            /\ seen'[t] = SubSeq(readyLog, oldest, Len(readyLog))
            /\ left'[t] = Len(readyLog) + 1 - oldest
      BY <1>1, <2>1 DEF Launch, Shapes
    <3>2. readyLog \in Seq(Cores) /\ core' = core
      BY <1>1 DEF Launch, coreVars, Shapes
    <3>3. /\ \A i \in DOMAIN seen'[t] : i \in 1 .. left'[t]
          /\ \A i \in DOMAIN seen'[t] :
               i + oldest - 1 \in DOMAIN readyLog /\ seen'[t][i] = readyLog[i + oldest - 1]
      BY <3>1, <3>2
    <3>4. \A i \in DOMAIN seen'[t] : core'[seen'[t][i]] \in {"listening", "announced", "dead"}
      BY <3>2, <3>3 DEF Logged, Bound
    <3>5. \A i \in DOMAIN seen'[t] : ~(i > left'[t])
      BY <3>1, <3>3
    <3> QED
      BY <3>4, <3>5 DEF Tried, Bound
  <2>2. CASE t # s
    BY <1>1, <1>0, <2>2 DEF Launch, Tried, Bound, Listening
  <2> QED
    BY <2>1, <2>2
<1>2. ASSUME NEW s \in Apps, TryLine(s) PROVE Tried(t)'
  <2>1. core' = core
    BY <1>2 DEF TryLine, coreVars
  <2>2. CASE t = s
    <3>1. app[t] = "scanning" /\ left[t] > 0 /\ left[t] \in Nat
      BY <1>2, <2>2 DEF TryLine, Shapes
    <3>2. CASE Listening(seen[t][left[t]])
      <4>1. app'[t] = "adopted" /\ seen'[t] = <<>>
        BY <1>2, <2>2, <3>2 DEF TryLine, Shapes
      <4> QED
        BY <4>1 DEF Tried
    <3>3. CASE ~Listening(seen[t][left[t]])
      <4>1. left'[t] = left[t] - 1 /\ seen' = seen
        BY <1>2, <2>2, <3>3 DEF TryLine, Shapes
      <4>2. \A i \in DOMAIN seen[t] : i \in Nat
        BY DEF Shapes
      <4>3. \A i \in DOMAIN seen[t] : i > left'[t] => ~Listening(seen[t][i])
        BY <3>1, <3>3, <4>1, <4>2 DEF Tried
      <4> QED
        BY <2>1, <4>1, <4>3 DEF Tried, Bound, Listening
    <3> QED
      BY <3>2, <3>3
  <2>3. CASE t # s
    <3>1. app'[t] = app[t] /\ left'[t] = left[t] /\ seen'[t] = seen[t]
      BY <1>2, <2>3 DEF TryLine, Shapes
    <3> QED
      BY <2>1, <3>1 DEF Tried, Bound, Listening
  <2> QED
    BY <2>2, <2>3
<1>3. ASSUME NEW s \in Apps, Spawn(s) PROVE Tried(t)'
  BY <1>3 DEF Spawn, Tried, Bound, Listening
<1>4. ASSUME NEW s \in Apps, SetupFails(s) PROVE Tried(t)'
  BY <1>4 DEF SetupFails, Ends, Tried, Bound, Listening
<1>5. ASSUME NEW s \in Apps, StoreChild(s) PROVE Tried(t)'
  BY <1>5, <1>0 DEF StoreChild, Tried, Bound, Listening
<1>6. ASSUME NEW s \in Apps, EmitAdopted(s) PROVE Tried(t)'
  BY <1>6, <1>0 DEF EmitAdopted, Tried, Bound, Listening
<1>7. ASSUME NEW s \in Apps, CloseWindow(s) PROVE Tried(t)'
  BY <1>7, <1>0 DEF CloseWindow, Tried, Bound, Listening
<1>8. ASSUME NEW s \in Apps, StopChild(s) PROVE Tried(t)'
  BY <1>8 DEF StopChild, KillTree, KillChild, Ends, Shapes, Tried, Bound, Listening
<1>9. ASSUME NEW s \in Apps, Crash(s) PROVE Tried(t)'
  BY <1>9 DEF Crash, Ends, Shapes, Tried, Bound, Listening
<1>10. ASSUME NEW s \in Apps, ReadReady(s) PROVE Tried(t)'
  BY <1>10, <1>0 DEF ReadReady, Tried, Bound, Listening
<1>11. ASSUME NEW s \in Apps, EmitReady(s) PROVE Tried(t)'
  BY <1>11, <1>0 DEF EmitReady, Tried, Bound, Listening
<1>12. ASSUME NEW s \in Apps, MonitorLooks(s) PROVE Tried(t)'
  BY <1>12, <1>0 DEF MonitorLooks, Tried, Bound, Listening
<1>13. ASSUME NEW s \in Apps, MonitorClears(s) PROVE Tried(t)'
  BY <1>13, <1>0 DEF MonitorClears, Tried, Bound, Listening
<1>14. ASSUME NEW k \in Cores, Bind(k) PROVE Tried(t)'
  BY <1>14 DEF Bind, shellVars, Tried, Bound, Listening
<1>15. ASSUME NEW k \in Cores, Announce(k) PROVE Tried(t)'
  BY <1>15 DEF Announce, Tried, Bound, Listening
<1>16. ASSUME NEW k \in Cores, Die(k) PROVE Tried(t)'
  BY <1>16 DEF Die, shellVars, Tried, Bound, Listening
<1>17. ASSUME NEW s \in Apps, Page(s) PROVE Tried(t)'
  BY <1>17, <1>0 DEF Page, Load, StopWaiting, Ask, GiveUp, Connect, Disconnect, PageGoes,
         shellVars, Tried, Bound, Listening
<1>18. CASE UNCHANGED vars
  BY <1>18, <1>0 DEF vars, shellVars, Tried, Bound, Listening
<1> QED
  BY <1>1, <1>2, <1>3, <1>4, <1>5, <1>6, <1>7, <1>8, <1>9, <1>10, <1>11, <1>12, <1>13,
     <1>14, <1>15, <1>16, <1>17, <1>18
     DEF Next, MainThread, Threads, Process

-----------------------------------------------------------------------------

LEMMA InitIInv == Init => IInv
BY DEF Init, IInv, Shapes, Custody, Tried, Logged, Alive

\* Who has which core in hand, and what the log and the search of it know of the cores.
THEOREM Inductive == Spec => []IInv
<1>1. IInv /\ [Next]_vars => IInv'
  <2> SUFFICES ASSUME IInv, [Next]_vars PROVE IInv'
    OBVIOUS
  <2>1. Shapes'
    BY ShapesKept DEF IInv
  <2>2. \A t \in Apps : Custody(t)'
    BY CustodyKept DEF IInv
  <2>3. Logged'
    BY LogKept DEF IInv
  <2>4. \A t \in Apps : Tried(t)'
    BY TriedKept DEF IInv
  <2> QED
    BY <2>1, <2>2, <2>3, <2>4 DEF IInv
<1> QED
  BY InitIInv, <1>1, PTL DEF Spec

\* lib.rs: a closed application leaves no core of its own behind, whichever thread found
\* what when, unless taskkill has failed; and no core is started while one that was among
\* the last lines of the log listens.
THEOREM CoresInHand == Spec => []CoresOwned
<1>1. IInv => CoresOwned
  <2> SUFFICES ASSUME IInv PROVE CoresOwned
    OBVIOUS
  <2>1. OwnedCoresEnd
    BY DEF IInv, Custody, OwnedCoresEnd
  <2>2. ASSUME NEW s \in Apps, app[s] = "scanning", left[s] = 0, NEW i \in DOMAIN seen[s]
        PROVE  ~Listening(seen[s][i])
    <3>1. seen[s] \in Seq(Cores)
      BY DEF IInv, Shapes
    <3>2. i > left[s]
      BY <2>2, <3>1
    <3> QED
      BY <2>2, <3>2 DEF IInv, Tried
  <2> QED
    BY <2>1, <2>2 DEF CoresOwned, KnownCoreAdopted
<1> QED
  BY Inductive, <1>1, PTL
=============================================================================
