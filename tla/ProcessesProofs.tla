--------------------------- MODULE ProcessesProofs ---------------------------
(***************************************************************************)
(* Proofs about the processes, for every plugin configuration, every file  *)
(* and command line, every number of faults and of commands.               *)
(*                                                                         *)
(*   CleanExit, ErrorIsReported   AgentInv for the agent, ServerInv for    *)
(*                                the server                               *)
(*   FilesMatch                   FetchInv                                 *)
(***************************************************************************)
EXTENDS Processes, TLAPS

(***************************************************************************)
(* Tombs.                                                                  *)
(***************************************************************************)
\* A tomb whose goroutines are among G, and which is dead only when they have all returned.
IsTomb(t, G) ==
  /\ t \in [reason: {"alive", "nil", "error"}, live: SUBSET G, dead: BOOLEAN]
  /\ t.dead => t.live = {}

\* A tomb none of whose goroutines has been started.
Unused(t) == t.live = {} /\ ~t.dead

\* NewTomb is a tomb that is not used.
LEMMA NewTombs ==
  ASSUME NEW G
  PROVE  /\ IsTomb(NewTomb, G) /\ Unused(NewTomb)
         /\ IsTomb(NewTomb, G) /\ Unused(NewTomb)
BY Zenon DEF IsTomb, Unused, NewTomb

\* Go adds a goroutine to a tomb that is not dead.
LEMMA Goes ==
  ASSUME NEW G, NEW t, IsTomb(t, G), NEW g \in G, ~t.dead
  PROVE  /\ IsTomb(Go(t, g), G)
         /\ Go(t, g).reason = t.reason
         /\ Go(t, g).live = t.live \cup {g}
         /\ ~Go(t, g).dead
BY Zenon DEF IsTomb, Go

\* Kill(nil) leaves the goroutines, and an error.
LEMMA Kills ==
  ASSUME NEW G, NEW t, IsTomb(t, G)
  PROVE  /\ IsTomb(Kill(t, "nil"), G)
         /\ Kill(t, "nil").reason = IF t.reason = "error" THEN "error" ELSE "nil"
         /\ Kill(t, "nil").live = t.live
         /\ Kill(t, "nil").dead = t.dead
BY Zenon DEF IsTomb, Kill

\* A goroutine that returns leaves the tomb, whose reason becomes its error if it has one.
LEMMA Returns ==
  ASSUME NEW G, NEW t, IsTomb(t, G), NEW g \in t.live, NEW r \in {"alive", "nil", "error"}
  PROVE  /\ IsTomb(Returned(t, g, r), G)
         /\ t.reason = "error" \/ r = "error" <=> Returned(t, g, r).reason = "error"
         /\ Returned(t, g, r).live = t.live \ {g}
BY ZenonT(60) DEF IsTomb, Returned, Kill, Dying

(***************************************************************************)
(* The profiler.                                                           *)
(***************************************************************************)
\* Temporary files of the profiles that are collected exist only while the profiler runs, and
\* it runs only while the goroutine stopProfiling waits for it.
ProfInv ==
  /\ prof \in Profilers
  /\ prof.state # "runs" => prof.temp \cap prof.dumpers = {}
  /\ prof.state \in {"starts", "runs"} => "profiling" \in tomb.live

\* What the profiler does itself keeps this.
LEMMA ProfSteps ==
  ASSUME ProfInv, tomb' = tomb,
         \/ prof' \in Prepared(prof) /\ prof.state = "starts"
         \/ prof' \in Dumped(prof) /\ prof.state = "runs"
         \/ prof' = Released(prof) /\ prof.state = "runs"
         \/ prof' = [prof EXCEPT !.killed = TRUE]
  PROVE  ProfInv'
<1>1. CASE prof' \in Prepared(prof) /\ prof.state = "starts"
  <2>1. PICK r \in Prepares(prof) :
          prof' = [prof EXCEPT !.state = IF r.ok = {} THEN "ended" ELSE "runs",
                               !.dumpers = r.ok, !.temp = r.temp]
    BY Zenon, <1>1 DEF Prepared
  <2>2. r.ok \subseteq Dumpers /\ r.temp \subseteq Collected
    BY DEF ProfInv, Profilers, Prepares
  <2>. QED
    BY Zenon, <1>1, <2>1, <2>2 DEF ProfInv, Profilers
<1>2. CASE prof' \in Dumped(prof) /\ prof.state = "runs"
  BY Zenon, <1>2 DEF ProfInv, Profilers, Dumped
<1>3. CASE prof' = Released(prof) /\ prof.state = "runs"
  BY Zenon, <1>3 DEF ProfInv, Profilers, Released
<1>4. CASE prof' = [prof EXCEPT !.killed = TRUE]
  BY Zenon, <1>4 DEF ProfInv, Profilers
<1>. QED
  BY Zenon, <1>1, <1>2, <1>3, <1>4

(***************************************************************************)
(* The agent.                                                              *)
(***************************************************************************)
Starting == {"parse", "new", "plugins", "attest", "manager", "spawn"}
Stopping == {"wait", "stopManager", "waitManager", "stopCatalog"}

\* Where the agent's goroutines are.
AgentTypes ==
  /\ main \in Starting \cup Stopping \cup {"return", "exit0", "exit1"}
  /\ result \in {"nil", "error"}
  /\ starter \in {"no", "start", "publish", "wait", "returned"}
  /\ "up" \in DOMAIN catalog
  /\ IsTomb(tomb, AgentGoroutines)
  /\ IsTomb(manager, {"run"} \cup Loops)
  /\ IsTomb(endpoints, {"start", "serve"})

\* How far run is: it is live until it returns, it has spawned the others before it waits, and
\* it returns nil only after all of shutdown.
AgentRunInv ==
  /\ main \in {"parse", "new"} => Unused(tomb)
  /\ main \in (Starting \cup Stopping) \ {"parse", "new"} => "run" \in tomb.live
  /\ main \in Starting => starter = "no"
  /\ main \in Starting \ {"spawn"} => Unused(manager)
  /\ main \in Stopping => starter # "no"
  /\ main \in Starting \cup Stopping => result = "nil"
  /\ (main = "return" /\ result = "nil") => catalog.up = {} /\ starter # "no"
  /\ (main = "return" /\ result = "error" /\ "run" \notin tomb.live) => tomb.reason = "error"

\* What each goroutine of the tomb stands for: as long as the manager and the endpoints live,
\* so does the one that waits for them, and it passes an error of the endpoints on.
AgentWaitInv ==
  /\ starter \in {"no", "start"} => Unused(endpoints)
  /\ starter \in {"start", "publish", "wait"} => "startEndpoints" \in tomb.live
  /\ starter # "no" => "supervise" \in tomb.live \/ manager.dead
  /\ starter = "returned" => tomb.reason = "error" \/ (endpoints.dead /\ endpoints.reason # "error")

AgentEnd ==
  main = "exit0" => /\ manager.dead /\ endpoints.dead /\ catalog.up = {}
                    /\ prof.temp \cap prof.dumpers = {} /\ endpoints.reason # "error"

AgentInv == AgentTypes /\ ProfInv /\ AgentRunInv /\ AgentWaitInv /\ AgentEnd

\* AgentInv holds when the agent starts.
LEMMA AgentBegins == AgentInit => AgentInv
BY NewTombs DEF AgentInit, AgentInv, AgentTypes, ProfInv, AgentRunInv, AgentWaitInv, AgentEnd,
                NoProfiler, Profilers, NewCatalog, Starting, Stopping

rest == <<main, result, starter, catalog>>

\* A step that leaves run and the tombs alone keeps AgentInv, as long as it keeps ProfInv.
LEMMA AgentSame ==
  ASSUME AgentInv, UNCHANGED <<rest, tomb, manager, endpoints>>, ProfInv',
         prof' = prof \/ main # "exit0"
  PROVE  AgentInv'
<1>1. AgentTypes'
  BY Zenon DEF AgentInv, AgentTypes, rest
<1>2. AgentRunInv'
  BY Zenon DEF AgentInv, AgentRunInv, rest
<1>3. AgentWaitInv' /\ AgentEnd'
  BY Zenon DEF AgentInv, AgentWaitInv, AgentEnd, rest
<1>. QED
  BY Zenon, <1>1, <1>2, <1>3 DEF AgentInv

\* A goroutine of the tomb returns, or the tomb is killed: run has returned only if it was
\* about to, and the others only if what they wait for is dead.
LEMMA AgentTomb ==
  ASSUME AgentInv, ~AgentExited, UNCHANGED <<rest, prof, manager, endpoints>>,
         IsTomb(tomb, AgentGoroutines)', main # "parse",
         main = "new" => Unused(tomb)',
         tomb.reason = "error" => tomb'.reason = "error",
         NEW g, tomb'.live = tomb.live \ {g},
         g = "run" => main = "return" /\ (result = "error" => tomb'.reason = "error"),
         g = "supervise" => manager.dead,
         g = "profiling" => prof.state \notin {"starts", "runs"},
         g # "startEndpoints"
  PROVE  AgentInv'
<1>1. AgentTypes' /\ ProfInv'
  BY Zenon DEF AgentInv, AgentTypes, ProfInv, rest
<1>2. AgentRunInv'
  BY Zenon DEF AgentInv, AgentTypes, AgentRunInv, rest, Starting, Stopping
<1>3. AgentWaitInv' /\ AgentEnd'
  BY Zenon DEF AgentInv, AgentTypes, AgentWaitInv, AgentEnd, rest
<1>. QED
  BY Zenon, <1>1, <1>2, <1>3 DEF AgentInv

\* The manager goes on: it is not dead yet.
LEMMA AgentManager ==
  ASSUME AgentInv, UNCHANGED <<rest, prof, tomb, endpoints>>, ~manager.dead, ~Unused(manager),
         IsTomb(manager, {"run"} \cup Loops)'
  PROVE  AgentInv'
<1>1. AgentTypes' /\ ProfInv' /\ AgentRunInv'
  BY DEF AgentInv, AgentTypes, ProfInv, AgentRunInv, rest
<1>2. AgentWaitInv' /\ AgentEnd'
  BY Zenon DEF AgentInv, AgentTypes, AgentWaitInv, AgentEnd, rest
<1>. QED
  BY Zenon, <1>1, <1>2 DEF AgentInv

\* The endpoints go on: they are not dead yet.
LEMMA AgentEndpoints ==
  ASSUME AgentInv, UNCHANGED <<rest, prof, tomb, manager>>, ~endpoints.dead, ~Unused(endpoints),
         IsTomb(endpoints, {"start", "serve"})'
  PROVE  AgentInv'
<1>1. AgentTypes' /\ ProfInv' /\ AgentRunInv'
  BY DEF AgentInv, AgentTypes, ProfInv, AgentRunInv, rest
<1>2. AgentWaitInv' /\ AgentEnd'
  BY Zenon DEF AgentInv, AgentTypes, AgentWaitInv, AgentEnd, rest
<1>. QED
  BY Zenon, <1>1, <1>2 DEF AgentInv

\* A catalog that Run leaves behind has its field up.
LEMMA CatalogRuns ==
  ASSUME NEW c, "up" \in DOMAIN c, NEW plugins, NEW K, NEW r \in RunResults(c, plugins, K)
  PROVE  "up" \in DOMAIN r.catalog
<1>1. CASE c.started
  BY <1>1 DEF RunResults
<1>2. CASE ~c.started /\ ~Parsed(plugins)
  BY <1>2 DEF RunResults
<1>3. CASE ~c.started /\ Parsed(plugins) /\ NotStarted(plugins) # {}
  <2>1. PICK u : r = [catalog |-> [c EXCEPT !.started = TRUE, !.up = u], ok |-> FALSE]
    BY Zenon, <1>3 DEF RunResults
  <2>2. "up" \in DOMAIN [c EXCEPT !.started = TRUE, !.up = u]
    BY Zenon
  <2>. QED
    BY Zenon, <2>1, <2>2
<1>4. CASE ~c.started /\ Parsed(plugins) /\ NotStarted(plugins) = {}
  BY <1>4 DEF RunResults
<1>. QED
  BY Zenon, <1>1, <1>2, <1>3, <1>4

\* Stop leaves no plugin process.
LEMMA CatalogStops ==
  ASSUME NEW c, "up" \in DOMAIN c
  PROVE  "up" \in DOMAIN Stopped(c) /\ Stopped(c).up = {}
BY Zenon DEF Stopped

\* The steps of run up to the one that spawns the other goroutines.
LEMMA AgentStarts ==
  ASSUME AgentInv, ~AgentExited,
         \/ AgentConfigure \/ AgentRun \/ StartPlugins \/ Attest
         \/ StartManager \/ AgentSpawn
  PROVE  AgentInv'
<1>. USE DEF AgentInv, managerVars, endpointsVars
<1>1. CASE AgentConfigure
  BY Zenon, <1>1
     DEF AgentConfigure, AgentTypes, ProfInv, AgentRunInv, AgentWaitInv, AgentEnd, Starting, Stopping
<1>2. CASE AgentRun
  <2>1. main = "new" /\ main' = "plugins" /\ IsTomb(tomb, AgentGoroutines) /\ ~tomb.dead /\ tomb.live = {}
    BY Zenon, <1>2 DEF AgentRun, AgentTypes, AgentRunInv, Unused
  <2>2. IsTomb(tomb', AgentGoroutines) /\ "run" \in tomb'.live
    BY <1>2, <2>1, Goes DEF AgentRun, AgentGoroutines
  <2>3. ProfInv'
    <3>1. CASE prof' = prof
      BY Zenon, <2>1, <3>1 DEF ProfInv
    <3>2. CASE prof' = Started(Profiles) /\ tomb' = Go(Go(tomb, "run"), "profiling")
      BY <2>1, <3>2, Goes DEF ProfInv, Started, Profilers, AgentGoroutines
    <3>. QED
      BY Zenon, <1>2, <3>1, <3>2 DEF AgentRun
  <2>. QED
    BY Zenon, <1>2, <2>1, <2>2, <2>3
       DEF AgentRun, AgentTypes, AgentRunInv, AgentWaitInv, AgentEnd, Starting, Stopping
<1>3. CASE StartPlugins
  <2>1. "up" \in DOMAIN catalog'
    BY Zenon, <1>3, CatalogRuns DEF StartPlugins, AgentTypes
  <2>. QED
    BY Zenon, <1>3, <2>1 DEF StartPlugins, AgentTypes, ProfInv, AgentRunInv, AgentWaitInv, AgentEnd,
                             Starting, Stopping
<1>4. CASE Attest
  BY Zenon, <1>4 DEF Attest, AgentTypes, ProfInv, AgentRunInv, AgentWaitInv, AgentEnd, Starting, Stopping
<1>5. CASE StartManager
  <2>1. main = "manager" /\ IsTomb(manager, {"run"} \cup Loops) /\ ~manager.dead
    BY Zenon, <1>5 DEF StartManager, AgentTypes, AgentRunInv, Starting, Unused
  <2>2. IsTomb(manager', {"run"} \cup Loops)
    BY <1>5, <2>1, Goes DEF StartManager
  <2>. QED
    BY Zenon, <1>5, <2>1, <2>2
       DEF StartManager, AgentTypes, ProfInv, AgentRunInv, AgentWaitInv, AgentEnd, Starting, Stopping
<1>6. CASE AgentSpawn
  <2>1. main = "spawn" /\ IsTomb(tomb, AgentGoroutines) /\ "run" \in tomb.live /\ ~tomb.dead
    BY Zenon, <1>6 DEF AgentSpawn, AgentTypes, AgentRunInv, Starting, IsTomb
  <2>2. /\ IsTomb(tomb', AgentGoroutines)
        /\ tomb'.live = tomb.live \cup {"startEndpoints", "supervise"}
    BY <1>6, <2>1, Goes DEF AgentSpawn, AgentGoroutines
  <2>. QED
    BY Zenon, <1>6, <2>1, <2>2
       DEF AgentSpawn, AgentTypes, ProfInv, AgentRunInv, AgentWaitInv, AgentEnd, Starting, Stopping
<1>. QED
  BY Zenon, <1>1, <1>2, <1>3, <1>4, <1>5, <1>6

\* The steps of run from shutdown to the end of the process.
LEMMA AgentStops ==
  ASSUME AgentInv, ~AgentExited,
         \/ AgentStopEndpoints \/ StopManager \/ WaitManager \/ AgentStopCatalog
         \/ AgentReturn \/ AgentExit
  PROVE  AgentInv'
<1>. USE DEF AgentInv, managerVars, endpointsVars
<1>1. CASE AgentStopEndpoints
  <2>1. /\ IsTomb(endpoints', {"start", "serve"})
        /\ endpoints'.live = endpoints.live /\ endpoints'.dead = endpoints.dead
        /\ endpoints'.reason = "error" => endpoints.reason = "error"
    BY Zenon, <1>1, Kills DEF AgentStopEndpoints, AgentTypes
  <2>. QED
    BY Zenon, <1>1, <2>1 DEF AgentStopEndpoints, AgentTypes, ProfInv, AgentRunInv, AgentWaitInv, AgentEnd,
                             Starting, Stopping, Unused
<1>2. CASE StopManager
  <2>1. /\ IsTomb(manager', {"run"} \cup Loops)
        /\ manager'.dead = manager.dead
    BY Zenon, <1>2, Kills DEF StopManager, AgentTypes
  <2>. QED
    BY Zenon, <1>2, <2>1 DEF StopManager, AgentTypes, ProfInv, AgentRunInv, AgentWaitInv, AgentEnd,
                             Starting, Stopping
<1>3. CASE WaitManager
  BY Zenon, <1>3
     DEF WaitManager, AgentTypes, ProfInv, AgentRunInv, AgentWaitInv, AgentEnd, Starting, Stopping
<1>4. CASE AgentStopCatalog
  <2>1. "up" \in DOMAIN catalog' /\ catalog'.up = {}
    BY Zenon, <1>4, CatalogStops DEF AgentStopCatalog, AgentTypes
  <2>. QED
    BY Zenon, <1>4, <2>1 DEF AgentStopCatalog, AgentTypes, ProfInv, AgentRunInv, AgentWaitInv, AgentEnd,
                             Starting, Stopping
<1>5. CASE AgentReturn
  <2>1. /\ IsTomb(tomb, AgentGoroutines) /\ "run" \in tomb.live /\ main = "return"
        /\ result \in {"nil", "error"}
    BY Zenon, <1>5 DEF AgentReturn, AgentTypes
  <2>2. /\ IsTomb(tomb', AgentGoroutines) /\ tomb'.live = tomb.live \ {"run"}
        /\ tomb.reason = "error" \/ result = "error" <=> tomb'.reason = "error"
    BY <1>5, <2>1, Returns DEF AgentReturn
  <2>. QED
    BY Zenon, <1>5, <2>1, <2>2, AgentTomb DEF AgentReturn, rest
<1>6. CASE AgentExit
  <2>1. main = "return" /\ tomb.live = {}
    BY Zenon, <1>6 DEF AgentExit, AgentTypes, IsTomb
  <2>2. tomb.reason = "nil" => /\ manager.dead /\ endpoints.dead /\ catalog.up = {}
                               /\ prof.temp \cap prof.dumpers = {} /\ endpoints.reason # "error"
    BY Zenon, <2>1 DEF AgentTypes, ProfInv, AgentRunInv, AgentWaitInv
  <2>. QED
    BY Zenon, <1>6, <2>1, <2>2 DEF AgentExit, AgentTypes, ProfInv, AgentRunInv, AgentWaitInv, AgentEnd,
                                   Starting, Stopping
<1>. QED
  BY Zenon, <1>1, <1>2, <1>3, <1>4, <1>5, <1>6

\* The other goroutines of the tomb.
LEMMA AgentWaiters ==
  ASSUME AgentInv, ~AgentExited,
         \/ AgentSignal \/ AgentStopProfiling \/ Supervise
         \/ StartEndpoints \/ PublishEndpoints \/ WaitEndpoints
  PROVE  AgentInv'
<1>. USE DEF AgentInv, managerVars, endpointsVars
<1>0. IsTomb(tomb, AgentGoroutines) /\ IsTomb(endpoints, {"start", "serve"})
  BY Zenon DEF AgentTypes
<1>1. CASE AgentSignal
  <2>1. /\ IsTomb(tomb', AgentGoroutines) /\ tomb'.live = tomb.live \ {"none"}
        /\ tomb.reason = "error" => tomb'.reason = "error"
        /\ Unused(tomb) => Unused(tomb)'
    BY <1>0, <1>1, Kills DEF AgentSignal, Unused, IsTomb, AgentGoroutines
  <2>. QED
    BY Zenon, <1>1, <2>1, AgentTomb DEF AgentSignal, rest, AgentRunInv
<1>2. CASE AgentStopProfiling
  <2>1. /\ IsTomb(tomb', AgentGoroutines) /\ tomb'.live = tomb.live \ {"profiling"}
        /\ tomb.reason = "error" => tomb'.reason = "error"
    BY <1>0, <1>2, Returns DEF AgentStopProfiling
  <2>. QED
    BY Zenon, <1>2, <2>1, AgentTomb DEF AgentStopProfiling, rest, AgentRunInv, Unused
<1>3. CASE Supervise
  <2>1. manager.reason \in {"alive", "nil", "error"}
    BY Zenon DEF AgentTypes, IsTomb
  <2>2. /\ IsTomb(tomb', AgentGoroutines) /\ tomb'.live = tomb.live \ {"supervise"}
        /\ tomb.reason = "error" => tomb'.reason = "error"
    BY <1>0, <1>3, <2>1, Returns DEF Supervise
  <2>. QED
    BY Zenon, <1>3, <2>2, AgentTomb DEF Supervise, rest, AgentRunInv, Unused
<1>4. CASE StartEndpoints /\ starter' = "publish"
  <2>1. starter = "start" /\ ~endpoints.dead /\ main \notin Starting
    BY Zenon, <1>4 DEF StartEndpoints, AgentRunInv, AgentWaitInv, Unused
  <2>2. IsTomb(endpoints', {"start", "serve"}) /\ tomb' = tomb
    BY <1>0, <1>4, <2>1, Goes DEF StartEndpoints
  <2>. QED
    BY Zenon, <1>4, <2>1, <2>2
       DEF StartEndpoints, AgentTypes, ProfInv, AgentRunInv, AgentWaitInv, AgentEnd
<1>5. CASE StartEndpoints /\ starter' = "returned"
  <2>1. starter = "start" /\ "startEndpoints" \in tomb.live /\ main \notin Starting
    BY Zenon, <1>5 DEF StartEndpoints, AgentRunInv, AgentWaitInv
  <2>2. /\ IsTomb(tomb', AgentGoroutines) /\ tomb'.live = tomb.live \ {"startEndpoints"}
        /\ tomb'.reason = "error" /\ endpoints' = endpoints
    BY <1>0, <1>5, <2>1, Returns DEF StartEndpoints
  <2>. QED
    BY Zenon, <1>5, <2>1, <2>2
       DEF StartEndpoints, AgentTypes, ProfInv, AgentRunInv, AgentWaitInv, AgentEnd, Starting
<1>6. CASE PublishEndpoints
  BY Zenon, <1>6 DEF PublishEndpoints, AgentTypes, ProfInv, AgentRunInv, AgentWaitInv, AgentEnd
<1>7. CASE WaitEndpoints
  <2>1. /\ starter = "wait" /\ "startEndpoints" \in tomb.live /\ main \notin Starting
        /\ endpoints.reason \in {"alive", "nil", "error"}
    BY Zenon, <1>0, <1>7 DEF WaitEndpoints, AgentRunInv, AgentWaitInv, IsTomb
  <2>2. /\ IsTomb(tomb', AgentGoroutines) /\ tomb'.live = tomb.live \ {"startEndpoints"}
        /\ tomb.reason = "error" \/ endpoints.reason = "error" <=> tomb'.reason = "error"
    BY <1>0, <1>7, <2>1, Returns DEF WaitEndpoints
  <2>3. AgentTypes' /\ ProfInv'
    BY Zenon, <1>7, <2>2 DEF WaitEndpoints, AgentTypes, ProfInv
  <2>4. AgentRunInv'
    BY Zenon, <1>7, <2>1, <2>2 DEF WaitEndpoints, AgentTypes, AgentRunInv, Starting, Stopping
  <2>5. AgentWaitInv' /\ AgentEnd'
    BY Zenon, <1>7, <2>1, <2>2 DEF WaitEndpoints, AgentWaitInv, AgentEnd, AgentExited
  <2>. QED
    BY Zenon, <2>3, <2>4, <2>5
<1>. QED
  BY Zenon, <1>1, <1>2, <1>3, <1>4, <1>5, <1>6, <1>7 DEF StartEndpoints

\* The profiler, the manager and the endpoints.
LEMMA AgentParts ==
  ASSUME AgentInv, ~AgentExited,
         \/ AgentPrepareProfiler \/ AgentDumpProfiles \/ AgentReleaseProfiler \/ AgentKillProfiler
         \/ ManagerRun \/ ManagerStopped \/ \E g \in Loops : LoopStops(g)
         \/ Listen \/ StopServer \/ AgentServe \/ AgentServeFails \/ ServeReturns
  PROVE  AgentInv'
<1>. USE DEF managerVars, endpointsVars
<1>0. IsTomb(manager, {"run"} \cup Loops) /\ IsTomb(endpoints, {"start", "serve"})
  BY Zenon DEF AgentInv, AgentTypes
<1>1. CASE \/ AgentPrepareProfiler \/ AgentDumpProfiles \/ AgentReleaseProfiler \/ AgentKillProfiler
  <2>1. ProfInv'
    BY Zenon, <1>1, ProfSteps DEF AgentInv, AgentPrepareProfiler, AgentDumpProfiles, AgentReleaseProfiler,
                                  AgentKillProfiler, agentOthers
  <2>2. UNCHANGED <<main, result, starter, catalog, tomb, manager, endpoints>>
    BY Zenon, <1>1 DEF AgentPrepareProfiler, AgentDumpProfiles, AgentReleaseProfiler, AgentKillProfiler,
                       agentOthers
  <2>3. main # "exit0"
    BY Zenon DEF AgentExited
  <2>. QED
    BY Zenon, <2>1, <2>2, <2>3, AgentSame DEF rest
<1>2. CASE ManagerRun
  <2>1. "run" \in manager.live /\ ~manager.dead /\ ~Unused(manager)
    BY Zenon, <1>0, <1>2 DEF ManagerRun, IsTomb, Unused
  <2> DEFINE both == Go(Go(manager, "synchronizer"), "rotator")
  <2>2. IsTomb(both, {"run"} \cup Loops) /\ "run" \in both.live
    BY <1>0, <2>1, Goes DEF Loops
  <2>3. IsTomb(manager', {"run"} \cup Loops)
    BY Zenon, <1>2, <2>2, Returns DEF ManagerRun
  <2>. QED
    BY Zenon, <1>2, <2>1, <2>3, AgentManager DEF ManagerRun, rest
<1>3. CASE \E g \in Loops : LoopStops(g)
  <2>1. PICK g \in Loops : LoopStops(g)
    BY Zenon, <1>3
  <2>2. g \in manager.live /\ ~manager.dead /\ ~Unused(manager)
    BY Zenon, <1>0, <2>1 DEF LoopStops, IsTomb, Unused
  <2>3. IsTomb(manager', {"run"} \cup Loops)
    BY Zenon, <1>0, <2>1, <2>2, Returns DEF LoopStops
  <2>. QED
    BY Zenon, <2>1, <2>2, <2>3, AgentManager DEF LoopStops, rest
<1>4. CASE ManagerStopped \/ AgentServe
  <2>1. UNCHANGED <<rest, prof, tomb, manager, endpoints>>
    BY Zenon, <1>4 DEF ManagerStopped, AgentServe, rest
  <2>2. ProfInv'
    BY Zenon, <2>1 DEF AgentInv, ProfInv
  <2>. QED
    BY Zenon, <2>1, <2>2, AgentSame
<1>5. CASE Listen
  <2>1. ~endpoints.dead /\ ~Unused(endpoints)
    BY Zenon, <1>0, <1>5 DEF Listen, IsTomb, Unused
  <2>2. IsTomb(endpoints', {"start", "serve"})
    BY Zenon, <1>0, <1>5, <2>1, Goes DEF Listen
  <2>. QED
    BY Zenon, <1>5, <2>1, <2>2, AgentEndpoints DEF Listen, rest
<1>6. CASE StopServer \/ AgentServeFails \/ ServeReturns
  <2>1. PICK g \in endpoints.live, r \in {"nil", "error"} : endpoints' = Returned(endpoints, g, r)
    BY Zenon, <1>6 DEF StopServer, AgentServeFails, ServeReturns
  <2>2. IsTomb(endpoints', {"start", "serve"})
    BY Zenon, <1>0, <2>1, Returns
  <2>3. ~endpoints.dead /\ ~Unused(endpoints)
    BY Zenon, <1>0, <2>1 DEF IsTomb, Unused
  <2>. QED
    BY Zenon, <1>6, <2>2, <2>3, AgentEndpoints DEF StopServer, AgentServeFails, ServeReturns, rest
<1>. QED
  BY Zenon, <1>1, <1>2, <1>3, <1>4, <1>5, <1>6

\* Every step of the agent keeps AgentInv.
LEMMA AgentStep == AgentInv /\ AgentNext => AgentInv'
BY Zenon, AgentStarts, AgentStops, AgentWaiters, AgentParts DEF AgentNext, AgentSteps

(***************************************************************************)
(* The server.                                                             *)
(***************************************************************************)
ServerStarting == {"parse", "new", "plugins", "ca", "svid", "spawn"}
ServerStopping == {"wait", "stopSVID", "stopCA", "stopCatalog"}

\* Where the server's goroutines are.
ServerTypes ==
  /\ main \in ServerStarting \cup ServerStopping \cup {"return", "exit0", "exit1", "panic"}
  /\ result \in {"nil", "error"}
  /\ starter \in {"no", "create", "wait", "returned"}
  /\ "up" \in DOMAIN catalog
  /\ IsTomb(tomb, ServerGoroutines)
  /\ IsTomb(ca, CAParts)
  /\ HasEndpoints <=> starter \in {"wait", "returned"}
  /\ HasEndpoints => IsTomb(endpoints, Parts)

\* How far run is.  An error of the CA manager or of the SVID rotator also leads to shutdown,
\* before the others are spawned.
ServerRunInv ==
  /\ main \in {"parse", "new"} => Unused(tomb)
  /\ main \in (ServerStarting \cup ServerStopping) \ {"parse", "new"} => "run" \in tomb.live
  /\ main \in ServerStarting => starter = "no" /\ result = "nil"
  /\ main \in {"parse", "new", "plugins", "ca"} => Unused(ca)
  /\ (main \in ServerStopping /\ result = "nil") => starter # "no"
  /\ (main = "return" /\ result = "nil") => catalog.up = {} /\ starter # "no"
  /\ (main = "return" /\ result = "error" /\ "run" \notin tomb.live) => tomb.reason = "error"

\* What each goroutine of the tomb stands for.
ServerWaitInv ==
  /\ starter \in {"create", "wait"} => "startEndpoints" \in tomb.live
  /\ starter # "no" => "caWait" \in tomb.live \/ ca.dead
  /\ "listen" \in tomb.live => starter \in {"wait", "returned"}
  /\ starter \in {"wait", "returned"} =>
       \/ "listen" \in tomb.live
       \/ endpoints.dead /\ (endpoints.reason = "error" => tomb.reason = "error")

ServerEnd ==
  main = "exit0" => /\ ca.dead /\ HasEndpoints /\ endpoints.dead /\ catalog.up = {}
                    /\ prof.temp \cap prof.dumpers = {} /\ endpoints.reason # "error"

ServerInv == ServerTypes /\ ProfInv /\ ServerRunInv /\ ServerWaitInv /\ ServerEnd

\* ServerInv holds when the server starts.
LEMMA ServerBegins == ServerInit => ServerInv
<1>. SUFFICES ASSUME ServerInit PROVE ServerInv
  BY Zenon
<1>1. ServerTypes
  BY Zenon, NewTombs DEF ServerInit, ServerTypes, HasEndpoints, NewCatalog, ServerStarting
<1>2. ProfInv
  BY Zenon DEF ServerInit, ProfInv, NoProfiler, Profilers
<1>3. ServerRunInv /\ ServerWaitInv /\ ServerEnd
  BY Zenon, NewTombs
     DEF ServerInit, ServerRunInv, ServerWaitInv, ServerEnd, ServerStarting, ServerStopping, Unused
<1>. QED
  BY Zenon, <1>1, <1>2, <1>3 DEF ServerInv

\* A step that leaves run and the tombs alone keeps ServerInv, as long as it keeps ProfInv.
LEMMA ServerSame ==
  ASSUME ServerInv, UNCHANGED <<rest, tomb, ca, endpoints>>, ProfInv',
         prof' = prof \/ main # "exit0"
  PROVE  ServerInv'
<1>1. ServerTypes'
  BY Zenon DEF ServerInv, ServerTypes, rest, HasEndpoints
<1>2. ServerRunInv'
  BY Zenon DEF ServerInv, ServerRunInv, rest
<1>3. ServerWaitInv' /\ ServerEnd'
  BY Zenon DEF ServerInv, ServerWaitInv, ServerEnd, rest, HasEndpoints
<1>. QED
  BY Zenon, <1>1, <1>2, <1>3 DEF ServerInv

\* The CA manager goes on: it is not dead yet.
LEMMA ServerCA ==
  ASSUME ServerInv, UNCHANGED <<rest, prof, tomb, endpoints>>, ~ca.dead, ~Unused(ca),
         IsTomb(ca, CAParts)'
  PROVE  ServerInv'
<1>1. ServerTypes' /\ ProfInv'
  BY Zenon DEF ServerInv, ServerTypes, ProfInv, rest, HasEndpoints
<1>2. ServerRunInv'
  BY Zenon DEF ServerInv, ServerRunInv, rest
<1>3. ServerWaitInv' /\ ServerEnd'
  BY Zenon DEF ServerInv, ServerWaitInv, ServerEnd, rest, HasEndpoints
<1>. QED
  BY Zenon, <1>1, <1>2, <1>3 DEF ServerInv

\* A goroutine of the tomb returns, or the tomb is killed.
LEMMA ServerTomb ==
  ASSUME ServerInv, ~ServerExited, UNCHANGED <<rest, prof, ca, endpoints>>,
         IsTomb(tomb, ServerGoroutines)', main \notin {"parse", "new"},
         tomb.reason = "error" => tomb'.reason = "error",
         NEW g, tomb'.live = tomb.live \ {g},
         g = "run" => main = "return" /\ (result = "error" => tomb'.reason = "error"),
         g = "caWait" => ca.dead,
         g = "listen" => endpoints.dead /\ (endpoints.reason = "error" => tomb'.reason = "error"),
         g = "profiling" => prof.state \notin {"starts", "runs"},
         g # "startEndpoints"
  PROVE  ServerInv'
<1>1. ServerTypes' /\ ProfInv'
  BY Zenon DEF ServerInv, ServerTypes, ProfInv, rest, HasEndpoints
<1>2. ServerRunInv'
  BY Zenon DEF ServerInv, ServerTypes, ServerRunInv, rest, ServerStarting, ServerStopping
<1>3. ServerWaitInv'
  BY Zenon DEF ServerInv, ServerTypes, ServerWaitInv, rest
<1>4. ServerEnd'
  BY Zenon DEF ServerEnd, rest, ServerExited
<1>. QED
  BY Zenon, <1>1, <1>2, <1>3, <1>4 DEF ServerInv

\* The endpoints go on: they are not dead yet.
LEMMA ServerEndpoints ==
  ASSUME ServerInv, UNCHANGED <<rest, prof, tomb, ca>>, HasEndpoints, ~endpoints.dead,
         IsTomb(endpoints, Parts)'
  PROVE  ServerInv'
<1>1. HasEndpoints'
  <2>1. "live" \in DOMAIN endpoints'
    BY Zenon DEF IsTomb
  <2>. QED
    BY <2>1 DEF HasEndpoints, NoEndpoints
<1>2. ServerTypes' /\ ProfInv' /\ ServerRunInv'
  BY Zenon, <1>1 DEF ServerInv, ServerTypes, ProfInv, ServerRunInv, rest
<1>3. ServerWaitInv' /\ ServerEnd'
  BY Zenon DEF ServerInv, ServerTypes, ServerWaitInv, ServerEnd, rest
<1>. QED
  BY Zenon, <1>2, <1>3 DEF ServerInv

\* The steps of run up to the one that spawns the other goroutines.
LEMMA ServerStarts ==
  ASSUME ServerInv, ~ServerExited,
         \/ ServerConfigure \/ ServerRun \/ InitPlugins \/ StartCAManager
         \/ StartSVIDRotator \/ ServerSpawn
  PROVE  ServerInv'
<1>. USE DEF ServerInv, HasEndpoints
<1>1. CASE ServerConfigure
  BY Zenon, <1>1 DEF ServerConfigure, ServerTypes, ProfInv, ServerRunInv, ServerWaitInv, ServerEnd,
                     ServerStarting, ServerStopping
<1>2. CASE ServerRun
  <2>1. /\ main = "new" /\ main' = "plugins" /\ IsTomb(tomb, ServerGoroutines) /\ ~tomb.dead
        /\ tomb.live = {}
    BY Zenon, <1>2 DEF ServerRun, ServerTypes, ServerRunInv, Unused
  <2>2. IsTomb(tomb', ServerGoroutines) /\ "run" \in tomb'.live /\ "listen" \notin tomb'.live
    BY <1>2, <2>1, Goes DEF ServerRun, ServerGoroutines
  <2>3. ProfInv'
    <3>1. CASE prof' = prof
      BY Zenon, <2>1, <3>1 DEF ProfInv
    <3>2. CASE prof' = Started(Profiles) /\ tomb' = Go(Go(tomb, "run"), "profiling")
      <4>1. "profiling" \in tomb'.live
        BY <2>1, <3>2, Goes DEF ServerGoroutines
      <4>2. prof' = Started(Profiles)
        BY Zenon, <3>2
      <4>. QED
        BY Zenon, <4>1, <4>2 DEF ProfInv, Started, Profilers
    <3>. QED
      BY Zenon, <1>2, <3>1, <3>2 DEF ServerRun
  <2>. QED
    BY Zenon, <1>2, <2>1, <2>2, <2>3 DEF ServerRun, ServerTypes, ServerRunInv, ServerWaitInv, ServerEnd,
                                         ServerStarting, ServerStopping
<1>3. CASE InitPlugins
  <2>1. "up" \in DOMAIN catalog'
    BY Zenon, <1>3, CatalogRuns DEF InitPlugins, ServerTypes
  <2>. QED
    BY Zenon, <1>3, <2>1 DEF InitPlugins, ServerTypes, ProfInv, ServerRunInv, ServerWaitInv, ServerEnd,
                             ServerStarting, ServerStopping
<1>4. CASE StartCAManager
  <2>1. main = "ca" /\ IsTomb(ca, CAParts) /\ ~ca.dead
    BY Zenon, <1>4 DEF StartCAManager, ServerTypes, ServerRunInv, Unused
  <2>2. IsTomb(ca', CAParts)
    BY Zenon, <1>4, <2>1, Goes DEF StartCAManager, CAParts
  <2>. QED
    BY Zenon, <1>4, <2>1, <2>2 DEF StartCAManager, ServerTypes, ProfInv, ServerRunInv, ServerWaitInv,
                                   ServerEnd, ServerStarting, ServerStopping
<1>5. CASE StartSVIDRotator
  BY Zenon, <1>5 DEF StartSVIDRotator, ServerTypes, ProfInv, ServerRunInv, ServerWaitInv, ServerEnd,
                     ServerStarting, ServerStopping
<1>6. CASE ServerSpawn
  <2>1. main = "spawn" /\ IsTomb(tomb, ServerGoroutines) /\ "run" \in tomb.live /\ ~tomb.dead
    BY Zenon, <1>6 DEF ServerSpawn, ServerTypes, ServerRunInv, ServerStarting, IsTomb
  <2>2. /\ IsTomb(tomb', ServerGoroutines)
        /\ tomb'.live = tomb.live \cup {"caWait", "startEndpoints"}
    BY <1>6, <2>1, Goes DEF ServerSpawn, ServerGoroutines
  <2>. QED
    BY Zenon, <1>6, <2>1, <2>2
       DEF ServerSpawn, ServerTypes, ProfInv, ServerRunInv, ServerWaitInv, ServerEnd,
           ServerStarting, ServerStopping
<1>. QED
  BY Zenon, <1>1, <1>2, <1>3, <1>4, <1>5, <1>6

\* The steps of run from shutdown to the end of the process.
LEMMA ServerStops ==
  ASSUME ServerInv, ~ServerExited,
         \/ ServerStopEndpoints \/ StopSVID \/ StopCA \/ ServerStopCatalog
         \/ ServerReturn \/ ServerExit
  PROVE  ServerInv'
<1>. USE DEF ServerInv
<1>1. CASE ServerStopEndpoints
  <2>1. CASE HasEndpoints
    <3>1. /\ IsTomb(endpoints', Parts) /\ endpoints'.dead = endpoints.dead
          /\ endpoints'.reason = "error" => endpoints.reason = "error"
      BY Zenon, <1>1, <2>1, Kills DEF ServerStopEndpoints, ServerTypes
    <3>2. HasEndpoints'
      BY <3>1 DEF HasEndpoints, NoEndpoints, IsTomb
    <3>. QED
      BY Zenon, <1>1, <2>1, <3>1, <3>2
         DEF ServerStopEndpoints, ServerTypes, ProfInv, ServerRunInv, ServerWaitInv,
             ServerEnd, ServerStarting, ServerStopping
  <2>2. CASE ~HasEndpoints
    BY Zenon, <1>1, <2>2
       DEF ServerStopEndpoints, ServerTypes, ProfInv, ServerRunInv, ServerWaitInv, ServerEnd,
           ServerStarting, ServerStopping, HasEndpoints
  <2>. QED
    BY Zenon, <2>1, <2>2
<1>2. CASE StopSVID
  BY Zenon, <1>2 DEF StopSVID, ServerTypes, ProfInv, ServerRunInv, ServerWaitInv, ServerEnd,
                     ServerStarting, ServerStopping, HasEndpoints
<1>3. CASE StopCA
  <2>1. IsTomb(ca', CAParts) /\ ca'.dead = ca.dead
    BY Zenon, <1>3, Kills DEF StopCA, ServerTypes
  <2>. QED
    BY Zenon, <1>3, <2>1 DEF StopCA, ServerTypes, ProfInv, ServerRunInv, ServerWaitInv, ServerEnd,
                             ServerStarting, ServerStopping, HasEndpoints
<1>4. CASE ServerStopCatalog
  <2>1. "up" \in DOMAIN catalog' /\ catalog'.up = {}
    BY Zenon, <1>4, CatalogStops DEF ServerStopCatalog, ServerTypes
  <2>. QED
    BY Zenon, <1>4, <2>1
       DEF ServerStopCatalog, ServerTypes, ProfInv, ServerRunInv, ServerWaitInv, ServerEnd,
           ServerStarting, ServerStopping, HasEndpoints
<1>5. CASE ServerReturn
  <2>1. /\ IsTomb(tomb, ServerGoroutines) /\ "run" \in tomb.live /\ main = "return"
        /\ result \in {"nil", "error"}
    BY Zenon, <1>5 DEF ServerReturn, ServerTypes
  <2>2. /\ IsTomb(tomb', ServerGoroutines) /\ tomb'.live = tomb.live \ {"run"}
        /\ tomb.reason = "error" \/ result = "error" <=> tomb'.reason = "error"
    BY <1>5, <2>1, Returns DEF ServerReturn
  <2>. QED
    BY Zenon, <1>5, <2>1, <2>2, ServerTomb DEF ServerReturn, rest
<1>6. CASE ServerExit
  <2>1. main = "return" /\ tomb.live = {}
    BY Zenon, <1>6 DEF ServerExit, ServerTypes, IsTomb
  <2>2. tomb.reason = "nil" => /\ ca.dead /\ HasEndpoints /\ endpoints.dead /\ catalog.up = {}
                               /\ prof.temp \cap prof.dumpers = {} /\ endpoints.reason # "error"
    BY Zenon, <2>1 DEF ServerTypes, ProfInv, ServerRunInv, ServerWaitInv
  <2>. QED
    BY Zenon, <1>6, <2>1, <2>2
       DEF ServerExit, ServerTypes, ProfInv, ServerRunInv, ServerWaitInv, ServerEnd,
           ServerStarting, ServerStopping, HasEndpoints
<1>. QED
  BY Zenon, <1>1, <1>2, <1>3, <1>4, <1>5, <1>6

\* The other goroutines of the tomb.
LEMMA ServerWaiters ==
  ASSUME ServerInv, ~ServerExited,
         \/ ServerSignal \/ ServerStopProfiling \/ CAWait
         \/ CreateEndpoints \/ ShutdownEndpoints \/ Listened
  PROVE  ServerInv'
<1>. USE DEF ServerInv
<1>0. IsTomb(tomb, ServerGoroutines)
  BY Zenon DEF ServerTypes
<1>1. CASE ServerSignal /\ main = "new"
  BY Zenon, <1>1 DEF ServerSignal, ServerTypes, ProfInv, ServerRunInv, ServerWaitInv, ServerEnd,
                     ServerStarting, ServerStopping, HasEndpoints
<1>2. CASE ServerSignal /\ main # "new"
  <2>1. /\ IsTomb(tomb', ServerGoroutines) /\ tomb'.live = tomb.live \ {"none"}
        /\ tomb.reason = "error" => tomb'.reason = "error"
    BY <1>0, <1>2, Kills DEF ServerSignal, IsTomb, ServerGoroutines
  <2>. QED
    BY Zenon, <1>2, <2>1, ServerTomb DEF ServerSignal, rest
<1>3. CASE ServerStopProfiling
  <2>1. /\ IsTomb(tomb', ServerGoroutines) /\ tomb'.live = tomb.live \ {"profiling"}
        /\ tomb.reason = "error" => tomb'.reason = "error"
    BY <1>0, <1>3, Returns DEF ServerStopProfiling
  <2>. QED
    BY Zenon, <1>3, <2>1, ServerTomb DEF ServerStopProfiling, rest, ServerRunInv, Unused
<1>4. CASE CAWait
  <2>1. ca.reason \in {"alive", "nil", "error"}
    BY Zenon DEF ServerTypes, IsTomb
  <2>2. /\ IsTomb(tomb', ServerGoroutines) /\ tomb'.live = tomb.live \ {"caWait"}
        /\ tomb.reason = "error" => tomb'.reason = "error"
    BY <1>0, <1>4, <2>1, Returns DEF CAWait
  <2>. QED
    BY Zenon, <1>4, <2>2, ServerTomb DEF CAWait, rest, ServerRunInv, Unused
<1>5. CASE CreateEndpoints
  <2>1. starter = "create" /\ ~tomb.dead /\ main \notin ServerStarting
    BY Zenon, <1>0, <1>5 DEF CreateEndpoints, ServerRunInv, ServerWaitInv, IsTomb
  <2>2. IsTomb(tomb', ServerGoroutines) /\ tomb'.live = tomb.live \cup {"listen"} /\ tomb'.reason = tomb.reason
    BY <1>0, <1>5, <2>1, Goes DEF CreateEndpoints, ServerGoroutines
  <2>3. IsTomb(endpoints', Parts)
    BY Zenon, <1>5, NewTombs, Goes DEF CreateEndpoints, Parts, Unused
  <2>4. HasEndpoints'
    BY <2>3 DEF HasEndpoints, NoEndpoints, IsTomb
  <2>. QED
    BY Zenon, <1>5, <2>1, <2>2, <2>3, <2>4
       DEF CreateEndpoints, ServerTypes, ProfInv, ServerRunInv, ServerWaitInv, ServerEnd,
           ServerStarting, ServerExited
<1>6. CASE ShutdownEndpoints
  <2>1. /\ starter = "wait" /\ "startEndpoints" \in tomb.live /\ main \notin ServerStarting
        /\ IsTomb(endpoints, Parts)
    BY Zenon, <1>6 DEF ShutdownEndpoints, ServerTypes, ServerRunInv, ServerWaitInv
  <2>2. /\ IsTomb(tomb', ServerGoroutines) /\ tomb'.live = tomb.live \ {"startEndpoints"}
        /\ tomb.reason = "error" <=> tomb'.reason = "error"
    BY <1>0, <1>6, <2>1, Returns DEF ShutdownEndpoints
  <2>3. /\ IsTomb(endpoints', Parts) /\ endpoints'.dead = endpoints.dead
        /\ endpoints'.reason = "error" => endpoints.reason = "error"
    BY Zenon, <1>6, <2>1, Kills DEF ShutdownEndpoints
  <2>4. HasEndpoints'
    BY <2>3 DEF HasEndpoints, NoEndpoints, IsTomb
  <2>. QED
    BY Zenon, <1>6, <2>1, <2>2, <2>3, <2>4
       DEF ShutdownEndpoints, ServerTypes, ProfInv, ServerRunInv, ServerWaitInv, ServerEnd,
           ServerStarting, ServerExited
<1>7. CASE Listened
  <2>1. endpoints.reason \in {"alive", "nil", "error"}
    BY Zenon, <1>7 DEF Listened, ServerTypes, ServerWaitInv, IsTomb
  <2>2. /\ IsTomb(tomb', ServerGoroutines) /\ tomb'.live = tomb.live \ {"listen"}
        /\ tomb.reason = "error" \/ endpoints.reason = "error" <=> tomb'.reason = "error"
    BY <1>0, <1>7, <2>1, Returns DEF Listened
  <2>3. main \notin {"parse", "new"}
    BY Zenon, <1>7 DEF Listened, ServerRunInv, Unused
  <2>. QED
    BY Zenon, <1>7, <2>2, <2>3, ServerTomb DEF Listened, rest
<1>. QED
  BY Zenon, <1>1, <1>2, <1>3, <1>4, <1>5, <1>6, <1>7

\* The profiler, the CA manager, the SVID rotator and the endpoints.
LEMMA ServerParts ==
  ASSUME ServerInv, ~ServerExited,
         \/ ServerPrepareProfiler \/ ServerDumpProfiles \/ ServerReleaseProfiler \/ ServerKillProfiler
         \/ RotatorStops \/ UsePlugin \/ \E g \in CAParts : CAStops(g)
         \/ ListenAndServe \/ ObserverStops
         \/ \E s \in Servers : ServerServe(s) \/ ServerServeFails(s) \/ ServeStops(s)
  PROVE  ServerInv'
<1>. USE DEF HasEndpoints
<1>1. CASE \/ ServerPrepareProfiler \/ ServerDumpProfiles \/ ServerReleaseProfiler \/ ServerKillProfiler
  <2>1. ProfInv'
    BY Zenon, <1>1, ProfSteps
       DEF ServerInv, ServerPrepareProfiler, ServerDumpProfiles, ServerReleaseProfiler,
           ServerKillProfiler, serverOthers
  <2>2. UNCHANGED <<main, result, starter, catalog, tomb, ca, endpoints>>
    BY Zenon, <1>1
       DEF ServerPrepareProfiler, ServerDumpProfiles, ServerReleaseProfiler, ServerKillProfiler,
           serverOthers
  <2>3. main # "exit0"
    BY Zenon DEF ServerExited
  <2>. QED
    BY Zenon, <2>1, <2>2, <2>3, ServerSame DEF rest
<1>2. CASE RotatorStops \/ \E s \in Servers : ServerServe(s)
  <2>1. UNCHANGED <<rest, prof, tomb, ca, endpoints>>
    BY Zenon, <1>2 DEF RotatorStops, ServerServe, rest
  <2>2. ProfInv'
    BY Zenon, <2>1 DEF ServerInv, ProfInv
  <2>. QED
    BY Zenon, <2>1, <2>2, ServerSame
<1>3. CASE UsePlugin
  BY Zenon, <1>3 DEF UsePlugin, ServerInv, ServerTypes, ProfInv, ServerRunInv, ServerWaitInv, ServerEnd,
                     ServerStarting, ServerStopping
<1>4. CASE \E g \in CAParts : CAStops(g)
  <2>1. PICK g \in CAParts : CAStops(g)
    BY Zenon, <1>4
  <2>2. IsTomb(ca, CAParts) /\ g \in ca.live /\ ~ca.dead /\ ~Unused(ca)
    BY Zenon, <2>1 DEF CAStops, ServerInv, ServerTypes, IsTomb, Unused
  <2>3. IsTomb(ca', CAParts)
    BY Zenon, <2>1, <2>2, Returns DEF CAStops
  <2>. QED
    BY Zenon, <2>1, <2>2, <2>3, ServerCA DEF CAStops, rest
<1>5. ASSUME NEW g, NEW t, NEW r \in {"nil", "error"}, InEndpoints(g), IsTomb(t, Parts),
             g \in t.live, endpoints' = Returned(t, g, r), UNCHANGED <<rest, prof, tomb, ca>>
      PROVE  ServerInv'
  <2>1. ~endpoints.dead
    BY Zenon, <1>5 DEF InEndpoints, ServerInv, ServerTypes, IsTomb
  <2>2. IsTomb(endpoints', Parts)
    BY Zenon, <1>5, Returns
  <2>. QED
    BY Zenon, <1>5, <2>1, <2>2, ServerEndpoints DEF InEndpoints
<1>6. ASSUME NEW g, InEndpoints(g)
      PROVE  IsTomb(endpoints, Parts) /\ g \in endpoints.live /\ ~endpoints.dead
  BY Zenon, <1>6 DEF InEndpoints, ServerInv, ServerTypes, IsTomb
<1>7. CASE ListenAndServe
  <2> DEFINE all == Go(Go(Go(endpoints, "grpc"), "http"), "observer")
  <2>1. IsTomb(endpoints, Parts) /\ "listenAndServe" \in endpoints.live /\ ~endpoints.dead
    BY Zenon, <1>6, <1>7 DEF ListenAndServe
  <2>2. IsTomb(all, Parts) /\ "listenAndServe" \in all.live
    BY <2>1, Goes DEF Parts, Servers
  <2>. HIDE DEF all
  <2>3. CASE endpoints' = Returned(all, "listenAndServe", "nil")
    BY Zenon, <1>5, <1>7, <2>2, <2>3 DEF ListenAndServe, rest
  <2>4. CASE endpoints' = Returned(endpoints, "listenAndServe", "error")
    BY Zenon, <1>5, <1>7, <2>1, <2>4 DEF ListenAndServe, rest
  <2>. QED
    BY Zenon, <1>7, <2>3, <2>4 DEF ListenAndServe, all
<1>8. CASE ObserverStops
  BY Zenon, <1>5, <1>6, <1>8 DEF ObserverStops, rest
<1>9. CASE \E s \in Servers : ServerServeFails(s) \/ ServeStops(s)
  BY Zenon, <1>5, <1>6, <1>9 DEF ServerServeFails, ServeStops, rest
<1>. QED
  BY Zenon, <1>1, <1>2, <1>3, <1>4, <1>7, <1>8, <1>9

\* Every step of the server keeps ServerInv.
LEMMA ServerStep == ServerInv /\ ServerNext => ServerInv'
BY Zenon, ServerStarts, ServerStops, ServerWaiters, ServerParts DEF ServerNext, ServerSteps

(***************************************************************************)
(* api fetch.                                                              *)
(***************************************************************************)
Contents == [1 .. 3 -> Versions \cup {Absent, Old, Torn}]

\* A command: what it has before it has an answer, and what it has when it writes.
IsCommand(c) ==
  /\ c \in [at: {"idle", "asks", "writes", "ended"}, resp: Responses \cup {NoResponse},
            next: 0 .. 3 * MaxSVIDs, code: {0, 1}, alone: BOOLEAN]
  /\ c.at \in {"idle", "asks"} => c.alone /\ c.next = 0 /\ c.resp = NoResponse
  /\ c.at = "writes" => c.resp \in Responses

Writing(f) == fetches[f].at = "writes"

\* Commands have overlapped, or a write has failed.
Spoils(c) == ~c.alone \/ (c.code # 0 /\ c.resp # NoResponse)
Spoiled   == \E f \in Fetches : Spoils(fetches[f])

\* The k-th file of the i-th SVID comes before the next that f writes.
Done(f, i, k) == 3 * i + k - 1 < fetches[f].next

\* Nobody writes: the files of an SVID are of one response.
Whole == \A i \in Indices, k \in 1..3 : files[i][k] = files[i][1]

\* f writes: what is done is of its response, and what is not done is of one response.
Partly(f) ==
  \A i \in Indices, k \in 1..3 :
    /\ Done(f, i, k) => files[i][k] = fetches[f].resp.version
    /\ \A l \in 1..3 : ~Done(f, i, k) /\ ~Done(f, i, l) => files[i][k] = files[i][l]

FetchTypes ==
  /\ files \in [Indices -> Contents]
  /\ fetches = [f \in Fetches |-> fetches[f]]
  /\ \A f \in Fetches : IsCommand(fetches[f])

FetchInv ==
  /\ FetchTypes
  /\ ~Spoiled => /\ \A f, g \in Fetches : Writing(f) /\ Writing(g) => f = g
                 /\ (\A f \in Fetches : ~Writing(f)) => Whole
                 /\ \A f \in Fetches : Writing(f) => Partly(f)

\* A response has at least one SVID, which NoResponse has not.
LEMMA IsResponse ==
  ASSUME NEW r \in Responses
  PROVE  r # NoResponse /\ r.svids \in 1..MaxSVIDs /\ r.version \in Versions
BY ProcessAssumption DEF Responses, NoResponse

\* FetchInv holds when the commands start.
LEMMA FetchBegins == FetchInit => FetchInv
<1>. SUFFICES ASSUME FetchInit PROVE FetchInv
  BY Zenon
<1>1. PICK n \in 0..MaxSVIDs :
        files = [i \in Indices |-> [k \in 1 .. 3 |-> IF i < n THEN Old ELSE Absent]]
  BY Zenon DEF FetchInit
<1>2. files \in [Indices -> Contents]
  BY Zenon, <1>1 DEF Contents
<1>3. Whole
  BY <1>1 DEF Whole
<1>4. fetches = [f \in Fetches |-> fetches[f]] /\ \A f \in Fetches : fetches[f] = Idle
  BY Zenon DEF FetchInit
<1>5. IsCommand(Idle) /\ Idle.at = "idle"
  BY ProcessAssumption DEF Idle, IsCommand
<1>6. FetchTypes
  BY Zenon, <1>2, <1>4, <1>5 DEF FetchTypes
<1>. QED
  BY Zenon, <1>3, <1>4, <1>5, <1>6 DEF FetchInv, Writing

\* One command changes, and the files do not: it has not begun to write, or it ends.
LEMMA FetchOne ==
  ASSUME FetchInv, NEW f \in Fetches, files' = files, NEW c, fetches' = [fetches EXCEPT ![f] = c],
         IsCommand(c), c.at # "writes", Spoils(fetches[f]) => Spoils(c), Writing(f) /\ ~Spoiled => Whole
  PROVE  FetchInv'
<1>1. /\ \A g \in Fetches : fetches'[g] = IF g = f THEN c ELSE fetches[g]
      /\ fetches' = [g \in Fetches |-> fetches'[g]]
  BY Zenon DEF FetchInv, FetchTypes
<1>2. FetchTypes'
  BY Zenon, <1>1 DEF FetchInv, FetchTypes
<1>3. Spoiled => Spoiled'
  BY Zenon, <1>1 DEF Spoiled
<1>4. \A g \in Fetches : Writing(g)' <=> Writing(g) /\ g # f
  BY Zenon, <1>1 DEF Writing
<1>5. ASSUME NEW g \in Fetches, Writing(g)', Partly(g) PROVE Partly(g)'
  <2>1. fetches'[g] = fetches[g]
    BY Zenon, <1>1, <1>4, <1>5
  <2>2. \A i, k : Done(g, i, k)' <=> Done(g, i, k)
    BY Zenon, <2>1 DEF Done
  <2>. QED
    BY <1>5, <2>1, <2>2 DEF Partly
<1>6. Whole => Whole'
  BY Zenon DEF Whole
<1>. QED
  BY Zenon, <1>2, <1>3, <1>4, <1>5, <1>6 DEF FetchInv

\* The steps that write nothing.
LEMMA FetchQuiet ==
  ASSUME FetchInv, NEW f \in Fetches, RunFetch(f) \/ FetchFails(f) \/ WriteEnds(f)
  PROVE  FetchInv'
<1>0. IsCommand(fetches[f]) /\ fetches = [g \in Fetches |-> fetches[g]]
  BY Zenon DEF FetchInv, FetchTypes
<1>1. CASE RunFetch(f)
  <2> DEFINE c == [fetches[f] EXCEPT !.at = "asks"]
  <2>1. fetches[f].at = "idle" /\ files' = files /\ fetches' = [fetches EXCEPT ![f] = c]
    BY Zenon, <1>0, <1>1 DEF RunFetch
  <2>2. IsCommand(c) /\ c.at # "writes" /\ (Spoils(fetches[f]) => Spoils(c))
    BY Zenon, <1>0, <2>1 DEF IsCommand, Spoils
  <2>. QED
    BY Zenon, <2>1, <2>2, FetchOne DEF Writing
<1>2. CASE FetchFails(f)
  <2> DEFINE c == [fetches[f] EXCEPT !.at = "ended", !.code = 1]
  <2>1. fetches[f].at = "asks" /\ files' = files /\ fetches' = [fetches EXCEPT ![f] = c]
    BY Zenon, <1>0, <1>2 DEF FetchFails
  <2>2. IsCommand(c) /\ c.at # "writes" /\ (Spoils(fetches[f]) => Spoils(c))
    BY Zenon, <1>0, <2>1 DEF IsCommand, Spoils
  <2>. QED
    BY Zenon, <2>1, <2>2, FetchOne DEF Writing
<1>3. CASE WriteEnds(f)
  <2> DEFINE c == [fetches[f] EXCEPT !.at = "ended"]
             n == fetches[f].resp.svids
  <2>1. Writing(f) /\ fetches[f].next = 3 * n /\ files' = files /\ fetches' = [fetches EXCEPT ![f] = c]
    BY Zenon, <1>0, <1>3 DEF WriteEnds, Writing
  <2>2. IsCommand(c) /\ c.at # "writes" /\ (Spoils(fetches[f]) => Spoils(c))
    BY Zenon, <1>0, <2>1 DEF IsCommand, Spoils
  <2>3. n \in Nat
    BY <1>0, <2>1, IsResponse, ProcessAssumption DEF IsCommand, Writing
  <2>4. ASSUME ~Spoiled PROVE Whole
    <3>1. Partly(f)
      BY Zenon, <2>1, <2>4 DEF FetchInv
    <3>2. ASSUME NEW i \in Indices, NEW k \in 1..3 PROVE Done(f, i, k) <=> Done(f, i, 1)
      <4>1. i \in Nat
        BY ProcessAssumption DEF Indices
      <4>. HIDE DEF n
      <4>2. 3 * i + k - 1 < 3 * n <=> 3 * i + 1 - 1 < 3 * n
        BY <2>3, <4>1
      <4>. QED
        BY Zenon, <2>1, <4>2 DEF Done
    <3>3. 1 \in 1..3
      OBVIOUS
    <3>. QED
      BY <3>1, <3>2, <3>3 DEF Whole, Partly
  <2>. QED
    BY Zenon, <2>1, <2>2, <2>4, FetchOne
<1>. QED
  BY Zenon, <1>1, <1>2, <1>3

\* A response arrives.
LEMMA FetchArrives ==
  ASSUME FetchInv, NEW f \in Fetches, Fetch(f)
  PROVE  FetchInv'
<1> DEFINE others == {g \in Fetches \ {f} : fetches[g].at = "writes"}
           one(r, write) == [fetches[f] EXCEPT !.at = IF write THEN "writes" ELSE "ended",
                                               !.resp = IF write THEN r ELSE NoResponse,
                                               !.alone = ~write \/ others = {}]
           other(g, write) == [fetches[g] EXCEPT !.alone = @ /\ ~write]
<1>0. FetchTypes /\ IsCommand(fetches[f])
  BY Zenon DEF FetchInv, FetchTypes
<1>1. PICK r \in Responses, write \in BOOLEAN :
        fetches' = [g \in Fetches |-> CASE g = f -> one(r, write)
                                       [] g \in others -> other(g, write)
                                       [] OTHER -> fetches[g]]
  BY Zenon DEF Fetch
<1>2. files' = files /\ fetches[f].at = "asks" /\ fetches[f].alone /\ fetches[f].next = 0
  BY Zenon, <1>0 DEF Fetch, IsCommand
<1>3. /\ fetches'[f] = one(r, write)
      /\ \A g \in others : fetches'[g] = other(g, write)
      /\ \A g \in Fetches : g # f /\ g \notin others => fetches'[g] = fetches[g]
      /\ fetches' = [g \in Fetches |-> fetches'[g]]
  BY Zenon, <1>1
<1>. HIDE DEF others
<1>4. CASE write /\ others # {}
  <2>1. IsCommand(one(r, write)) /\ Spoils(one(r, write))
    BY ZenonT(60), <1>0, <1>2, <1>4 DEF IsCommand, Spoils
  <2>2. \A g \in others : IsCommand(other(g, write))
    <3>. SUFFICES ASSUME NEW g \in others PROVE IsCommand(other(g, write))
      BY Zenon
    <3>1. IsCommand(fetches[g]) /\ fetches[g].at = "writes"
      BY Zenon, <1>0 DEF FetchTypes, others
    <3>. QED
      BY Zenon, <1>4, <3>1 DEF IsCommand
  <2>. HIDE DEF one, other
  <2>3. FetchTypes'
    BY Zenon, <1>0, <1>2, <1>3, <2>1, <2>2 DEF FetchTypes
  <2>4. Spoiled'
    BY Zenon, <1>3, <2>1 DEF Spoiled
  <2>. QED
    BY Zenon, <2>3, <2>4 DEF FetchInv
<1>5. CASE write /\ others = {}
  <2>1. /\ IsCommand(one(r, write)) /\ ~Spoils(fetches[f])
        /\ one(r, write).next = 0 /\ one(r, write).at = "writes"
    BY ZenonT(60), <1>0, <1>2, <1>5 DEF IsCommand, Spoils
  <2>. HIDE DEF one, other
  <2>2. \A g \in Fetches : g # f => fetches'[g] = fetches[g]
    BY Zenon, <1>3, <1>5
  <2>3. FetchTypes'
    BY Zenon, <1>0, <1>2, <1>3, <2>1, <2>2 DEF FetchTypes
  <2>4. Spoiled => Spoiled'
    BY Zenon, <2>1, <2>2 DEF Spoiled
  <2>5. \A g \in Fetches : ~Writing(g) /\ (Writing(g)' => g = f)
    BY Zenon, <1>2, <1>5, <2>2 DEF Writing, others
  <2>6. \A i \in Indices, k \in 1..3 : ~Done(f, i, k)'
    BY <1>3, <2>1, ProcessAssumption DEF Done, Indices
  <2>7. Whole => Partly(f)'
    <3>1. 1 \in 1..3
      OBVIOUS
    <3>. QED
      BY <1>2, <2>6, <3>1 DEF Whole, Partly
  <2>8. Writing(f)'
    BY Zenon, <1>3, <2>1 DEF Writing
  <2>. QED
    BY Zenon, <2>3, <2>4, <2>5, <2>7, <2>8 DEF FetchInv
<1>6. CASE ~write
  <2>1. /\ IsCommand(one(r, write)) /\ one(r, write).at # "writes" /\ ~Spoils(fetches[f])
    BY ZenonT(60), <1>0, <1>2, <1>6 DEF IsCommand, Spoils
  <2>2. \A g \in others : other(g, write) = fetches[g]
    <3>. SUFFICES ASSUME NEW g \in others PROVE other(g, write) = fetches[g]
      BY Zenon
    <3>1. IsCommand(fetches[g])
      BY Zenon, <1>0 DEF FetchTypes, others
    <3>2. (fetches[g].alone /\ ~write) = fetches[g].alone
      BY Zenon, <1>6, <3>1 DEF IsCommand
    <3>. QED
      BY Zenon, <3>1, <3>2 DEF IsCommand
  <2>. HIDE DEF one, other
  <2>3. fetches' = [fetches EXCEPT ![f] = one(r, write)]
    BY Zenon, <1>0, <1>3, <2>2 DEF FetchTypes
  <2>. QED
    BY Zenon, <1>2, <2>1, <2>3, FetchOne DEF Writing
<1>. QED
  BY Zenon, <1>4, <1>5, <1>6

\* A file is written, or its write fails.
LEMMA FetchWrites ==
  ASSUME FetchInv, NEW f \in Fetches, WriteFile(f)
  PROVE  FetchInv'
<1> DEFINE n == fetches[f].next
           row == n \div 3
           col == (n % 3) + 1
           v == fetches[f].resp.version
<1>0. FetchTypes /\ IsCommand(fetches[f]) /\ Writing(f)
  BY Zenon DEF FetchInv, FetchTypes, WriteFile, Writing
<1>1. /\ fetches[f].resp \in Responses /\ v \in Versions /\ fetches[f].resp # NoResponse
      /\ n \in Nat /\ n < 3 * fetches[f].resp.svids /\ fetches[f].resp.svids \in 1..MaxSVIDs
  <2>1. n < 3 * fetches[f].resp.svids
    BY Zenon DEF WriteFile
  <2>2. n \in 0 .. 3 * MaxSVIDs /\ fetches[f].resp \in Responses
    BY Zenon, <1>0 DEF IsCommand, Writing
  <2>3. n \in Nat
    BY <2>2, ProcessAssumption
  <2>. QED
    BY Zenon, <2>1, <2>2, <2>3, IsResponse
<1>2. n = 3 * row + col - 1 /\ col \in 1..3 /\ row \in Indices
  <2>1. n = 3 * (n \div 3) + (n % 3) /\ n % 3 \in 0..2 /\ n \div 3 \in Nat
    BY <1>1
  <2>2. MaxSVIDs \in Nat
    BY Zenon, ProcessAssumption
  <2>3. n = 3 * row + col - 1 /\ col \in 1..3 /\ row \in Nat
    BY <1>1, <2>1
  <2>. HIDE DEF n, row, col
  <2>4. row \in 0 .. MaxSVIDs - 1
    BY <1>1, <2>2, <2>3
  <2>. QED
    BY Zenon, <2>3, <2>4 DEF Indices
<1>. HIDE DEF n, row, col, v
<1>3. CASE /\ files' = [files EXCEPT ![row][col] = v]
           /\ fetches' = [fetches EXCEPT ![f].next = n + 1]
  <2> DEFINE c == [fetches[f] EXCEPT !.next = n + 1]
  <2>1. n + 1 \in 0 .. 3 * MaxSVIDs
    BY <1>1, ProcessAssumption
  <2>2. IsCommand(c) /\ (Spoils(fetches[f]) => Spoils(c))
    BY Zenon, <1>0, <1>1, <2>1 DEF IsCommand, Spoils, Writing
  <2>3. c.at = "writes" /\ c.next = n + 1 /\ c.resp.version = v
    BY Zenon, <1>0 DEF IsCommand, Writing, v
  <2>4. \A g \in Fetches : fetches'[g] = IF g = f THEN c ELSE fetches[g]
    BY Zenon, <1>0, <1>3 DEF FetchTypes
  <2>5. fetches' = [g \in Fetches |-> fetches'[g]]
    BY Zenon, <1>0, <1>3 DEF FetchTypes
  <2>. HIDE DEF c
  <2>6. files' \in [Indices -> Contents]
    BY Zenon, <1>0, <1>1, <1>2, <1>3 DEF FetchTypes, Contents
  <2>7. FetchTypes'
    BY Zenon, <1>0, <2>2, <2>4, <2>5, <2>6 DEF FetchTypes
  <2>8. Spoiled => Spoiled'
    BY Zenon, <2>2, <2>4 DEF Spoiled
  <2>9. \A g \in Fetches : Writing(g)' <=> Writing(g)
    BY Zenon, <1>0, <2>3, <2>4 DEF Writing
  <2>10. ASSUME NEW i \in Indices, NEW k \in 1..3
         PROVE  /\ files'[i][k] = IF i = row /\ k = col THEN v ELSE files[i][k]
                /\ Done(f, i, k)' <=> Done(f, i, k) \/ (i = row /\ k = col)
    <3>1. files'[i][k] = IF i = row /\ k = col THEN v ELSE files[i][k]
      BY Zenon, <1>0, <1>2, <1>3 DEF FetchTypes, Contents
    <3>2. i \in Nat /\ row \in Nat
      BY <1>2, ProcessAssumption DEF Indices
    <3>3. 3 * i + k - 1 < n + 1 <=> 3 * i + k - 1 < n \/ (i = row /\ k = col)
      BY <1>1, <1>2, <3>2
    <3>4. fetches'[f].next = n + 1 /\ fetches[f].next = n
      BY Zenon, <2>3, <2>4 DEF n
    <3>. QED
      BY Zenon, <3>1, <3>3, <3>4 DEF Done
  <2>11. Partly(f) => Partly(f)'
    <3>1. fetches'[f].resp.version = v /\ fetches[f].resp.version = v
      BY Zenon, <2>3, <2>4 DEF v
    <3>. QED
      BY <2>10, <3>1 DEF Partly
  <2>. QED
    BY Zenon, <1>0, <2>7, <2>8, <2>9, <2>11 DEF FetchInv
<1>4. CASE /\ files' = [files EXCEPT ![row][col] = Torn] \/ files' = files
           /\ fetches' = [fetches EXCEPT ![f].at = "ended", ![f].code = 1]
  <2> DEFINE c == [fetches[f] EXCEPT !.at = "ended", !.code = 1]
  <2>1. IsCommand(c) /\ c.code = 1 /\ c.resp = fetches[f].resp
    BY Zenon, <1>0, <1>1 DEF IsCommand
  <2>2. \A g \in Fetches : fetches'[g] = IF g = f THEN c ELSE fetches[g]
    BY Zenon, <1>0, <1>4 DEF FetchTypes
  <2>3. fetches' = [g \in Fetches |-> fetches'[g]]
    BY Zenon, <1>0, <1>4 DEF FetchTypes
  <2>. HIDE DEF c
  <2>4. files' \in [Indices -> Contents]
    BY SMTT(60), <1>0, <1>2, <1>4 DEF FetchTypes, Contents
  <2>5. FetchTypes' /\ Spoiled'
    BY <1>0, <1>1, <2>1, <2>2, <2>3, <2>4 DEF FetchTypes, Spoiled, Spoils
  <2>. QED
    BY Zenon, <2>5 DEF FetchInv
<1>. QED
  BY Zenon, <1>3, <1>4 DEF WriteFile, n, row, col, v

\* Every step of the commands keeps FetchInv.
LEMMA FetchStep == FetchInv /\ FetchNext => FetchInv'
BY Zenon, FetchQuiet, FetchArrives, FetchWrites DEF FetchNext

\* FetchInv implies what the property says.
LEMMA FetchMatch == FetchInv => FetchedFilesMatch
BY Zenon DEF FetchInv, FetchedFilesMatch, Spoiled, Spoils, Writing, Whole

(***************************************************************************)
(* The theorems.                                                           *)
(***************************************************************************)
Inv ==
  /\ process \in {"agent", "server", "fetch"}
  /\ IsAgent => AgentInv
  /\ IsServer => ServerInv
  /\ IsFetch => FetchInv

\* Every process keeps its invariant.
LEMMA Invariant == Spec => []Inv
<1>1. Init => Inv
  BY Zenon, AgentBegins, ServerBegins, FetchBegins
     DEF Init, Inv, IsAgent, IsServer, IsFetch
<1>2. Inv /\ [Next]_vars => Inv'
  <2>. SUFFICES ASSUME Inv, [Next]_vars PROVE Inv'
    BY Zenon
  <2>1. CASE Next /\ process = "agent"
    BY Zenon, <2>1, AgentStep DEF Next, Inv, IsAgent, IsServer, IsFetch
  <2>2. CASE Next /\ process = "server"
    BY Zenon, <2>2, ServerStep DEF Next, Inv, IsAgent, IsServer, IsFetch
  <2>3. CASE Next /\ process = "fetch"
    BY Zenon, <2>3, FetchStep DEF Next, Inv, IsAgent, IsServer, IsFetch
  <2>4. CASE UNCHANGED vars
    <3>1. UNCHANGED <<process, settings, config, main, result, tomb, prof, catalog, starter, endpoints,
                      manager, ca, files, fetches>>
      BY Zenon, <2>4 DEF vars, shared, agents, serversVars, fvars
    <3>2. ProfInv => ProfInv'
      BY Zenon, <3>1 DEF ProfInv
    <3>3. (AgentInv => AgentInv') /\ (ServerInv => ServerInv')
      BY Zenon, <3>1, <3>2, AgentSame, ServerSame DEF rest, AgentInv, ServerInv
    <3>4. FetchInv => FetchInv'
      BY <3>1 DEF FetchInv, FetchTypes, Spoiled, Writing, Whole, Partly, Done
    <3>. QED
      BY Zenon, <3>1, <3>2, <3>3, <3>4 DEF Inv, IsAgent, IsServer, IsFetch
  <2>. QED
    BY Zenon, <2>1, <2>2, <2>3, <2>4 DEF Inv
<1>. QED
  BY <1>1, <1>2, PTL DEF Spec

\* An agent or a server that ends with code 0 has ended all that it started, with every set of
\* plugins, wherever a signal or an error interrupts it (pkg/agent/agent.go, pkg/server/server.go).
THEOREM ExitsAreClean == Spec => []CleanExit
<1>1. Inv => CleanExit
  BY Zenon DEF Inv, CleanExit, AgentInv, AgentEnd, ServerInv, ServerEnd, AgentCleanExit, ServerCleanExit
<1>. QED
  BY <1>1, Invariant, PTL

\* An error of the endpoints' servers is never lost among the goroutines that return nil: the
\* process ends with code 1.
THEOREM ErrorsAreReported == Spec => []ErrorIsReported
<1>1. Inv => ErrorIsReported
  BY Zenon DEF Inv, ErrorIsReported, AgentInv, AgentEnd, ServerInv, ServerEnd,
               AgentErrorIsReported, AgentExited, ServerErrorIsReported
<1>. QED
  BY <1>1, Invariant, PTL

\* The files that any number of api fetch commands leave behind belong together, SVID by SVID,
\* unless two commands wrote at the same time or a write failed.
THEOREM FilesBelongTogether == Spec => []FilesMatch
<1>1. Inv => FilesMatch
  BY Zenon, FetchMatch DEF Inv, FilesMatch
<1>. QED
  BY <1>1, Invariant, PTL
====
