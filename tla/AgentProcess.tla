---------------------------- MODULE AgentProcess ----------------------------
(***************************************************************************)
(* The process of the SPIRE agent: cmd/spire-agent/cli/run, pkg/agent, and *)
(* the goroutines of its cache manager and of its endpoints.               *)
(*                                                                         *)
(* Modelled is who starts, kills and waits for whom, and the fields        *)
(* Manager and Endpoints that the goroutines share.  What attestation and  *)
(* synchronize do is in AgentSync; here they succeed or fail.              *)
(***************************************************************************)
EXTENDS DaemonProcess

CONSTANTS
  AgentKinds,     \* the kinds of plugin the agent needs
  AgentSettings,  \* the files and flags to start with
  AgentConfigs    \* the plugin configurations to start with

VARIABLES
  hasManager, \* a.Manager is not nil
  manager,    \* the tomb of the manager
  running,    \* the manager's flag
  published,  \* a.Endpoints is not nil
  server      \* the gRPC server: "no", "listen", "serve", "stopped", "early" (stopped before it served)

AgentGoroutines == {"run", "startEndpoints", "supervise", "profiling"}
Loops           == {"synchronizer", "rotator"}

\* The state of the process has its type.
AgentTypeOK ==
  /\ settings = Used \/ {settings.file, settings.flags} \subseteq Sources(AgentOptions)
  /\ config \in AgentConfigs
  /\ main \in {"parse", "new", "plugins", "attest", "manager", "spawn", "wait", "stopManager",
               "waitManager", "stopCatalog", "return", "exit0", "exit1"}
  /\ result \in {"nil", "error"}
  /\ tomb \in Tombs(AgentGoroutines)
  /\ prof \in Profilers
  /\ catalog.up \subseteq config
  /\ catalog.lists \in [AgentKinds -> Nat]
  /\ hasManager \in BOOLEAN
  /\ manager \in Tombs({"run"} \cup Loops)
  /\ running \in BOOLEAN
  /\ starter \in {"no", "start", "publish", "wait", "returned"}
  /\ published \in BOOLEAN
  /\ endpoints \in Tombs({"start", "serve"})
  /\ server \in {"no", "listen", "serve", "stopped", "early"}
  /\ faults \in Nat

AgentInit ==
  /\ settings \in AgentSettings /\ config \in AgentConfigs
  /\ main = "parse" /\ result = "nil"
  /\ tomb = NewTomb /\ prof = NoProfiler
  /\ catalog = NewCatalog(AgentKinds)
  /\ hasManager = FALSE /\ manager = NewTomb /\ running = FALSE
  /\ starter = "no" /\ published = FALSE
  /\ endpoints = NewTomb /\ server = "no"

AgentExited == main \in {"exit0", "exit1"}

managerVars   == <<hasManager, manager, running>>
endpointsVars == <<starter, published, endpoints, server>>

(***************************************************************************)
(* Run and run.                                                            *)
(***************************************************************************)
\* The run command: parseFile may fail, mergeConfigs may too.  Run prints the error of mergeConfigs,
\* and that of validateConfig, and goes on with what there is.
AgentConfigure ==
  LET merged == MergeConfigs(settings.file, settings.flags, AgentOptions) IN
  /\ main = "parse"
  /\ \/ main' = "new"
     \/ main' = "exit1"
  /\ settings' = [file |-> settings.file, flags |-> settings.flags, merged |-> merged]
  /\ UNCHANGED <<config, result, tomb, prof, catalog, managerVars, endpointsVars, faults>>

\* Run starts run, which begins with setupProfiling.
AgentRun ==
  /\ main = "new"
  /\ main' = "plugins"
  /\ IF settings.merged.config["profiling"] = "default"
       THEN tomb' = Go(tomb, "run") /\ UNCHANGED prof
       ELSE tomb' = Go(Go(tomb, "run"), "profiling") /\ prof' = Started(Profiles)
  /\ settings' = Used
  /\ UNCHANGED <<config, result, catalog, managerVars, endpointsVars, faults>>

\* A signal: Shutdown.
AgentSignal ==
  /\ main # "parse" /\ ~Dying(tomb)
  /\ tomb' = Kill(tomb, "nil")
  /\ UNCHANGED <<settings, config, main, result, prof, catalog, managerVars, endpointsVars, faults>>

\* startPlugins.
StartPlugins ==
  /\ main = "plugins"
  /\ \E r \in RunResults(catalog, config, AgentKinds) :
       /\ catalog' = r.catalog
       /\ main' = IF r.ok THEN "attest" ELSE "return"
       /\ result' = IF r.ok THEN result ELSE "error"
  /\ UNCHANGED <<settings, config, tomb, prof, managerVars, endpointsVars, faults>>

\* attest.  Nothing looks at the tomb before it is over.
Attest ==
  /\ main = "attest"
  /\ \/ main' = "manager" /\ UNCHANGED <<result, faults>>
     \/ Fault /\ main' = "return" /\ result' = "error"
  /\ UNCHANGED <<settings, config, tomb, prof, catalog, managerVars, endpointsVars>>

\* startManager: the first synchronize fails, or the manager's run is started.
StartManager ==
  /\ main = "manager"
  /\ hasManager' = TRUE
  /\ \/ /\ manager' = Go(manager, "run")
        /\ main' = "spawn" /\ UNCHANGED <<result, faults>>
     \/ /\ Fault
        /\ main' = "return" /\ result' = "error" /\ UNCHANGED manager
  /\ UNCHANGED <<settings, config, tomb, prof, catalog, running, endpointsVars>>

AgentSpawn ==
  /\ main = "spawn"
  /\ tomb' = Go(Go(tomb, "startEndpoints"), "supervise")
  /\ starter' = "start"
  /\ main' = "wait"
  /\ UNCHANGED <<settings, config, result, prof, catalog, managerVars, published, endpoints, server, faults>>

\* shutdown, step by step: the endpoints, if startEndpoints has published them, ...
AgentStopEndpoints ==
  /\ main = "wait" /\ Dying(tomb)
  /\ endpoints' = IF published THEN Kill(endpoints, "nil") ELSE endpoints
  /\ main' = "stopManager"
  /\ UNCHANGED <<settings, config, result, tomb, prof, catalog, managerVars, starter, published, server, faults>>

\* ... Manager.Shutdown, which waits for the manager if it is running, ...
StopManager ==
  /\ main = "stopManager"
  /\ manager' = IF hasManager THEN Kill(manager, "nil") ELSE manager
  /\ main' = IF hasManager THEN "waitManager" ELSE "stopCatalog"
  /\ UNCHANGED <<settings, config, result, tomb, prof, catalog, hasManager, running, endpointsVars, faults>>

WaitManager ==
  /\ main = "waitManager" /\ (running => manager.dead)
  /\ main' = "stopCatalog"
  /\ UNCHANGED <<settings, config, result, tomb, prof, catalog, managerVars, endpointsVars, faults>>

\* ... and Catalog.Stop.
AgentStopCatalog ==
  /\ main = "stopCatalog"
  /\ catalog' = Stopped(catalog)
  /\ main' = "return"
  /\ UNCHANGED <<settings, config, result, tomb, prof, managerVars, endpointsVars, faults>>

\* Mutant: run drops the error that it stopped at.
AgentReturnDropsError ==
  /\ main = "return" /\ "run" \in tomb.live
  /\ tomb' = Returned(tomb, "run", "nil")
  /\ UNCHANGED <<settings, config, main, result, prof, catalog, managerVars, endpointsVars, faults>>

\* run returns.
AgentReturn ==
  /\ main = "return" /\ "run" \in tomb.live
  /\ tomb' = Returned(tomb, "run", result)
  /\ UNCHANGED <<settings, config, main, result, prof, catalog, managerVars, endpointsVars, faults>>

\* Run returns when all goroutines of the tomb have; the process ends.
AgentExit ==
  /\ main = "return" /\ tomb.dead
  /\ main' = IF tomb.reason = "nil" THEN "exit0" ELSE "exit1"
  /\ UNCHANGED <<settings, config, result, tomb, prof, catalog, managerVars, endpointsVars, faults>>

(***************************************************************************)
(* The other goroutines of the tomb.                                       *)
(***************************************************************************)
agentOthers == <<settings, config, main, result, tomb, catalog, managerVars, endpointsVars, faults>>

\* The profiler's goroutine, when profiling is enabled: it prepares its dumpers, ...
AgentPrepareProfiler ==
  /\ prof.state = "starts"
  /\ prof' \in Prepared(prof)
  /\ UNCHANGED agentOthers

\* ... dumps them at a tick, ...
AgentDumpProfiles ==
  /\ prof.state = "runs"
  /\ prof' \in Dumped(prof)
  /\ UNCHANGED agentOthers

\* ... and releases them once it is killed.
AgentReleaseProfiler ==
  /\ prof.state = "runs" /\ prof.killed
  /\ prof' = Released(prof)
  /\ UNCHANGED agentOthers

\* stopProfiling: profiling.Stop kills the profiler and waits for it.
AgentKillProfiler ==
  /\ "profiling" \in tomb.live /\ Dying(tomb) /\ ~prof.killed
  /\ prof' = [prof EXCEPT !.killed = TRUE]
  /\ UNCHANGED agentOthers

\* stopProfiling returns once the profiler has stopped.
AgentStopProfiling ==
  /\ "profiling" \in tomb.live /\ prof.killed /\ prof.state = "ended"
  /\ tomb' = Returned(tomb, "profiling", "nil")
  /\ UNCHANGED <<settings, config, main, result, prof, catalog, managerVars, endpointsVars, faults>>

\* superviseManager returns when the manager is dead, and clears a.Manager.
Supervise ==
  /\ "supervise" \in tomb.live /\ manager.dead
  /\ hasManager' = FALSE
  /\ tomb' = Returned(tomb, "supervise", manager.reason)
  /\ UNCHANGED <<settings, config, main, result, prof, catalog, manager, running, endpointsVars, faults>>

\* startEndpoints: Start binds the socket and starts the goroutine start, ...
StartEndpoints ==
  /\ starter = "start"
  /\ \/ /\ endpoints' = Go(endpoints, "start")
        /\ starter' = "publish" /\ UNCHANGED <<tomb, faults>>
     \/ /\ Fault
        /\ tomb' = Returned(tomb, "startEndpoints", "error")
        /\ starter' = "returned" /\ UNCHANGED endpoints
  /\ UNCHANGED <<settings, config, main, result, prof, catalog, managerVars, published, server>>

\* ... then the endpoints are stored in a.Endpoints, ...
PublishEndpoints ==
  /\ starter = "publish"
  /\ published' = TRUE /\ starter' = "wait"
  /\ UNCHANGED <<settings, config, main, result, tomb, prof, catalog, managerVars, endpoints, server, faults>>

\* Mutant: startEndpoints drops the error of Wait.
WaitEndpointsDropsError ==
  /\ starter = "wait" /\ endpoints.dead
  /\ tomb' = Returned(tomb, "startEndpoints", "nil")
  /\ starter' = "returned"
  /\ UNCHANGED <<settings, config, main, result, prof, catalog, managerVars, published, endpoints, server, faults>>

\* ... and waited for.
WaitEndpoints ==
  /\ starter = "wait" /\ endpoints.dead
  /\ tomb' = Returned(tomb, "startEndpoints", endpoints.reason)
  /\ starter' = "returned"
  /\ UNCHANGED <<settings, config, main, result, prof, catalog, managerVars, published, endpoints, server, faults>>

(***************************************************************************)
(* The manager and the endpoints.                                          *)
(***************************************************************************)
\* manager.run.
ManagerRun ==
  /\ "run" \in manager.live
  /\ running' = TRUE
  /\ manager' = Returned(Go(Go(manager, "synchronizer"), "rotator"), "run", "nil")
  /\ UNCHANGED <<settings, config, main, result, tomb, prof, catalog, hasManager, endpointsVars, faults>>

\* synchronizer and rotator only return when the manager is dying.
LoopStops(g) ==
  /\ g \in manager.live /\ Dying(manager)
  /\ manager' = Returned(manager, g, "nil")
  /\ UNCHANGED <<settings, config, main, result, tomb, prof, catalog, hasManager, running, endpointsVars, faults>>

\* The goroutine of manager.Start that waits for the manager.
ManagerStopped ==
  /\ manager.dead /\ running
  /\ running' = FALSE
  /\ UNCHANGED <<settings, config, main, result, tomb, prof, catalog, hasManager, manager, endpointsVars, faults>>

\* endpoints.start starts startGRPCServer, ...
Listen ==
  /\ "start" \in endpoints.live /\ server = "no"
  /\ endpoints' = Go(endpoints, "serve") /\ server' = "listen"
  /\ UNCHANGED <<settings, config, main, result, tomb, prof, catalog, managerVars, starter, published, faults>>

\* ... waits for the tomb to die, stops the gRPC server, and returns.
StopServer ==
  /\ "start" \in endpoints.live /\ server # "no" /\ Dying(endpoints)
  /\ endpoints' = Returned(endpoints, "start", "nil")
  /\ server' = IF server = "listen" THEN "early" ELSE "stopped"
  /\ UNCHANGED <<settings, config, main, result, tomb, prof, catalog, managerVars, starter, published, faults>>

\* startGRPCServer: Serve, ...
AgentServe ==
  /\ "serve" \in endpoints.live /\ server = "listen"
  /\ server' = "serve"
  /\ UNCHANGED <<settings, config, main, result, tomb, prof, catalog, managerVars, starter, published,
                 endpoints, faults>>

\* ... which returns an error by itself, ...
AgentServeFails ==
  /\ "serve" \in endpoints.live /\ server = "serve" /\ Fault
  /\ endpoints' = Returned(endpoints, "serve", "error")
  /\ UNCHANGED <<settings, config, main, result, tomb, prof, catalog, managerVars, starter, published, server>>

\* ... nil after Stop, or an error if Stop came before Serve.
ServeReturns ==
  /\ "serve" \in endpoints.live /\ server \in {"stopped", "early"}
  /\ endpoints' = Returned(endpoints, "serve", IF server = "early" THEN "error" ELSE "nil")
  /\ UNCHANGED <<settings, config, main, result, tomb, prof, catalog, managerVars, starter, published, server,
                 faults>>

\* A goroutine goes on.
AgentSteps ==
  /\ ~AgentExited
  /\ \/ AgentConfigure \/ AgentRun \/ StartPlugins \/ Attest \/ StartManager \/ AgentSpawn
     \/ AgentStopEndpoints \/ StopManager \/ WaitManager \/ AgentStopCatalog \/ AgentReturn \/ AgentExit
     \/ AgentPrepareProfiler \/ AgentReleaseProfiler \/ AgentKillProfiler
     \/ AgentStopProfiling \/ Supervise \/ StartEndpoints \/ PublishEndpoints \/ WaitEndpoints
     \/ ManagerRun \/ ManagerStopped \/ Listen \/ StopServer \/ AgentServe \/ ServeReturns
     \/ \E g \in Loops : LoopStops(g)

AgentNext == AgentSteps \/ (~AgentExited /\ (AgentSignal \/ AgentDumpProfiles \/ AgentServeFails))

(***************************************************************************)
(* Properties.                                                             *)
(***************************************************************************)
\* An agent that ends with code 0 has ended everything it started: the manager and the
\* endpoints are dead, no plugin process is left behind, and no
\* temporary file of a profile that was being collected.
AgentCleanExit ==
  main = "exit0" => manager.dead /\ endpoints.dead /\ catalog.up = {}
                    /\ prof.temp \cap prof.dumpers = {}

\* An error of the gRPC server ends the agent with code 1, although everything else that ends
\* in its course returns nil.
AgentErrorIsReported == (AgentExited /\ endpoints.reason = "error") => main = "exit1"

\* Once the endpoints are published, whatever makes the tomb die ends the process.  (A signal
\* that comes earlier finds a.Endpoints nil: startEndpoints then waits for endpoints that
\* nobody shuts down.)
StopsOncePublished == [](published /\ ~Dying(tomb) => [](Dying(tomb) => <>AgentExited))

\* An error before that ends the process too.
FailedStartEnds == result = "error" ~> AgentExited
====
