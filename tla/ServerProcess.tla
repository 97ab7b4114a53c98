---------------------------- MODULE ServerProcess ----------------------------
(***************************************************************************)
(* The process of the SPIRE server: cmd/spire-server/cli/run, pkg/server,  *)
(* and the goroutines of its endpoints, CA manager and SVID rotator.       *)
(*                                                                         *)
(* Modelled is who starts, kills and waits for whom.  What the goroutines  *)
(* do between their ticks is in CAManager and ServerSVID; here a goroutine *)
(* that does not wait may use a plugin at any time.                        *)
(***************************************************************************)
EXTENDS DaemonProcess

CONSTANTS
  ServerKinds,     \* the kinds of plugin the server needs
  ServerSettings,  \* the files and flags to start with
  ServerConfigs    \* the plugin configurations to start with

VARIABLES
  ca,         \* the tomb of s.caManager
  rotator,    \* the goroutine of s.svid: "no", "runs", "stop" (its channel is closed), "ended"
  servers     \* where startGRPCServer and startHTTPServer are

ServerGoroutines == {"run", "caWait", "startEndpoints", "listen", "profiling"}
CAParts          == {"caRotator", "pruner"}
Servers          == {"grpc", "http"}
Parts            == {"listenAndServe", "observer"} \cup Servers

\* s.endpoints is nil until startEndpoints makes the endpoints.
NoEndpoints  == [none |-> TRUE]
HasEndpoints == endpoints # NoEndpoints

\* The state of the process has its type.
ServerTypeOK ==
  /\ settings = Used \/ {settings.file, settings.flags} \subseteq Sources(ServerOptions)
  /\ config \in ServerConfigs
  /\ main \in {"parse", "new", "plugins", "ca", "svid", "spawn", "wait", "stopSVID", "stopCA",
               "stopCatalog", "return", "exit0", "exit1", "panic"}
  /\ result \in {"nil", "error"}
  /\ tomb \in Tombs(ServerGoroutines)
  /\ prof \in Profilers
  /\ catalog.up \subseteq config
  /\ catalog.lists \in [ServerKinds -> Nat]
  /\ ca \in Tombs(CAParts)
  /\ rotator \in {"no", "runs", "stop", "ended"}
  /\ starter \in {"no", "create", "wait", "returned"}
  /\ HasEndpoints => endpoints \in Tombs(Parts)
  /\ servers \in [Servers -> {"no", "bind", "serve", "ended"}]
  /\ faults \in Nat

ServerInit ==
  /\ settings \in ServerSettings /\ config \in ServerConfigs
  /\ main = "parse" /\ result = "nil"
  /\ tomb = NewTomb /\ prof = NoProfiler
  /\ catalog = NewCatalog(ServerKinds)
  /\ ca = NewTomb
  /\ rotator = "no" /\ starter = "no"
  /\ endpoints = NoEndpoints
  /\ servers = [s \in Servers |-> "no"]

ServerExited == main \in {"exit0", "exit1", "panic"}

(***************************************************************************)
(* Run and run.                                                            *)
(***************************************************************************)
\* The run command: parseFile may fail, mergeConfigs may too.  The error of validateConfig is
\* printed only.
ServerConfigure ==
  LET merged == MergeConfigs(settings.file, settings.flags, ServerOptions) IN
  /\ main = "parse"
  /\ \/ main' = IF merged.ok THEN "new" ELSE "exit1"
     \/ main' = "exit1"
  /\ settings' = [file |-> settings.file, flags |-> settings.flags, merged |-> merged]
  /\ UNCHANGED <<config, result, tomb, prof, catalog, ca, rotator, starter, endpoints, servers, faults>>

\* Run makes the tomb and starts run, which begins with setupProfiling: with profiling
\* enabled, stopProfiling waits for the tomb to die.
ServerRun ==
  /\ main = "new"
  /\ main' = "plugins"
  /\ IF settings.merged.config["profiling"] = "default"
       THEN tomb' = Go(tomb, "run") /\ UNCHANGED prof
       ELSE tomb' = Go(Go(tomb, "run"), "profiling") /\ prof' = Started(Profiles)
  /\ settings' = Used
  /\ UNCHANGED <<config, result, catalog, ca, rotator, starter, endpoints, servers, faults>>

\* A signal: Shutdown.  Before Run has made the tomb, s.t is nil and the process panics.
ServerSignal ==
  /\ main # "parse" /\ ~Dying(tomb)
  /\ IF main = "new" THEN main' = "panic" /\ UNCHANGED tomb
                     ELSE tomb' = Kill(tomb, "nil") /\ UNCHANGED main
  /\ UNCHANGED <<settings, config, result, prof, catalog, ca, rotator, starter, endpoints, servers, faults>>

\* initPlugins: after an error run returns at once.
InitPlugins ==
  /\ main = "plugins"
  /\ \E r \in RunResults(catalog, config, ServerKinds) :
       /\ catalog' = r.catalog
       /\ main' = IF r.ok THEN "ca" ELSE "return"
       /\ result' = IF r.ok THEN result ELSE "error"
  /\ UNCHANGED <<settings, config, tomb, prof, ca, rotator, starter, endpoints, servers, faults>>

\* startCAManager: after an error run shuts down what there is.
StartCAManager ==
  /\ main = "ca"
  /\ \/ /\ ca' = Go(Go(ca, "caRotator"), "pruner")
        /\ main' = "svid" /\ UNCHANGED <<result, faults>>
     \/ /\ Fault
        /\ main' = "stopCA" /\ result' = "error" /\ UNCHANGED ca
  /\ UNCHANGED <<settings, config, tomb, prof, catalog, rotator, starter, endpoints, servers>>

\* startSVIDRotator.
StartSVIDRotator ==
  /\ main = "svid"
  /\ \/ rotator' = "runs" /\ main' = "spawn" /\ UNCHANGED <<result, faults>>
     \/ Fault /\ main' = "stopSVID" /\ result' = "error" /\ UNCHANGED rotator
  /\ UNCHANGED <<settings, config, tomb, prof, catalog, ca, starter, endpoints, servers>>

ServerSpawn ==
  /\ main = "spawn"
  /\ tomb' = Go(Go(tomb, "caWait"), "startEndpoints")
  /\ starter' = "create"
  /\ main' = "wait"
  /\ UNCHANGED <<settings, config, result, prof, catalog, ca, rotator, endpoints, servers, faults>>

\* shutdown, step by step: s.endpoints.Shutdown, if there are endpoints already, ...
ServerStopEndpoints ==
  /\ main = "wait" /\ Dying(tomb)
  /\ endpoints' = IF HasEndpoints THEN Kill(endpoints, "nil") ELSE endpoints
  /\ main' = "stopSVID"
  /\ UNCHANGED <<settings, config, result, tomb, prof, catalog, ca, rotator, starter, servers, faults>>

\* ... s.svid.Stop, which closes the rotator's channel, ...
StopSVID ==
  /\ main = "stopSVID"
  /\ rotator' = IF rotator = "runs" THEN "stop" ELSE rotator
  /\ main' = "stopCA"
  /\ UNCHANGED <<settings, config, result, tomb, prof, catalog, ca, starter, endpoints, servers, faults>>

\* ... s.caManager.Shutdown, ...
StopCA ==
  /\ main = "stopCA"
  /\ ca' = Kill(ca, "nil")
  /\ main' = "stopCatalog"
  /\ UNCHANGED <<settings, config, result, tomb, prof, catalog, rotator, starter, endpoints, servers, faults>>

\* ... and s.Catalog.Stop.
ServerStopCatalog ==
  /\ main = "stopCatalog"
  /\ catalog' = Stopped(catalog)
  /\ main' = "return"
  /\ UNCHANGED <<settings, config, result, tomb, prof, ca, rotator, starter, endpoints, servers, faults>>

\* run returns.
ServerReturn ==
  /\ main = "return" /\ "run" \in tomb.live
  /\ tomb' = Returned(tomb, "run", result)
  /\ UNCHANGED <<settings, config, main, result, prof, catalog, ca, rotator, starter, endpoints, servers, faults>>

\* Run returns when all goroutines of the tomb have; the process ends.
ServerExit ==
  /\ main = "return" /\ tomb.dead
  /\ main' = IF tomb.reason = "nil" THEN "exit0" ELSE "exit1"
  /\ UNCHANGED <<settings, config, result, tomb, prof, catalog, ca, rotator, starter, endpoints, servers, faults>>

(***************************************************************************)
(* The other goroutines of the tomb.                                       *)
(***************************************************************************)
serverOthers == <<settings, config, main, result, tomb, catalog, ca, rotator, starter, endpoints, servers, faults>>

\* The profiler's goroutine, when profiling is enabled: it prepares its dumpers, ...
ServerPrepareProfiler ==
  /\ prof.state = "starts"
  /\ prof' \in Prepared(prof)
  /\ UNCHANGED serverOthers

\* ... dumps them at a tick, ...
ServerDumpProfiles ==
  /\ prof.state = "runs"
  /\ prof' \in Dumped(prof)
  /\ UNCHANGED serverOthers

\* ... and releases them once it is killed.
ServerReleaseProfiler ==
  /\ prof.state = "runs" /\ prof.killed
  /\ prof' = Released(prof)
  /\ UNCHANGED serverOthers

\* stopProfiling: profiling.Stop kills the profiler and waits for it.
ServerKillProfiler ==
  /\ "profiling" \in tomb.live /\ Dying(tomb) /\ ~prof.killed
  /\ prof' = [prof EXCEPT !.killed = TRUE]
  /\ UNCHANGED serverOthers

\* Mutant: stopProfiling does not wait for the profiler.
StopProfilingAtOnce ==
  /\ "profiling" \in tomb.live /\ prof.killed
  /\ tomb' = Returned(tomb, "profiling", "nil")
  /\ UNCHANGED <<settings, config, main, result, prof, catalog, ca, rotator, starter, endpoints, servers, faults>>

\* stopProfiling returns once the profiler has stopped.
ServerStopProfiling ==
  /\ "profiling" \in tomb.live /\ prof.killed /\ prof.state = "ended"
  /\ tomb' = Returned(tomb, "profiling", "nil")
  /\ UNCHANGED <<settings, config, main, result, prof, catalog, ca, rotator, starter, endpoints, servers, faults>>

\* caManager.Wait.
CAWait ==
  /\ "caWait" \in tomb.live /\ ca.dead
  /\ tomb' = Returned(tomb, "caWait", ca.reason)
  /\ UNCHANGED <<settings, config, main, result, prof, catalog, ca, rotator, starter, endpoints, servers, faults>>

\* startEndpoints: the endpoints are made, and ListenAndServe starts listenAndServe.
CreateEndpoints ==
  /\ starter = "create"
  /\ endpoints' = Go(NewTomb, "listenAndServe")
  /\ tomb' = Go(tomb, "listen")
  /\ starter' = "wait"
  /\ UNCHANGED <<settings, config, main, result, prof, catalog, ca, rotator, servers, faults>>

\* When the tomb is dying, startEndpoints shuts the endpoints down as well.
ShutdownEndpoints ==
  /\ starter = "wait" /\ Dying(tomb)
  /\ endpoints' = Kill(endpoints, "nil")
  /\ tomb' = Returned(tomb, "startEndpoints", "nil")
  /\ starter' = "returned"
  /\ UNCHANGED <<settings, config, main, result, prof, catalog, ca, rotator, servers, faults>>

\* ListenAndServe returns what the endpoints died of.
Listened ==
  /\ "listen" \in tomb.live /\ endpoints.dead
  /\ tomb' = Returned(tomb, "listen", endpoints.reason)
  /\ UNCHANGED <<settings, config, main, result, prof, catalog, ca, rotator, starter, endpoints, servers, faults>>

(***************************************************************************)
(* The endpoints.                                                          *)
(***************************************************************************)
InEndpoints(g) == HasEndpoints /\ g \in endpoints.live

\* listenAndServe registers the APIs and starts both servers and startSVIDObserver.
ListenAndServe ==
  /\ InEndpoints("listenAndServe")
  /\ \/ /\ endpoints' =
             Returned(Go(Go(Go(endpoints, "grpc"), "http"), "observer"), "listenAndServe", "nil")
        /\ servers' = [s \in Servers |-> "bind"]
        /\ UNCHANGED faults
     \/ /\ Fault
        /\ endpoints' = Returned(endpoints, "listenAndServe", "error")
        /\ UNCHANGED servers
  /\ UNCHANGED <<settings, config, main, result, tomb, prof, catalog, ca, rotator, starter>>

\* startGRPCServer and startHTTPServer: the address is bound and served, ...
ServerServe(s) ==
  /\ InEndpoints(s) /\ servers[s] = "bind"
  /\ servers' = [servers EXCEPT ![s] = "serve"]
  /\ UNCHANGED <<settings, config, main, result, tomb, prof, catalog, ca, rotator, starter, endpoints, faults>>

\* ... an error of net.Listen or of Serve is returned, ...
ServerServeFails(s) ==
  /\ InEndpoints(s) /\ Fault
  /\ servers' = [servers EXCEPT ![s] = "ended"]
  /\ endpoints' = Returned(endpoints, s, "error")
  /\ UNCHANGED <<settings, config, main, result, tomb, prof, catalog, ca, rotator, starter>>

\* ... and a dying tomb stops the server, whose error is then dropped.
ServeStops(s) ==
  /\ InEndpoints(s) /\ servers[s] = "serve" /\ Dying(endpoints)
  /\ servers' = [servers EXCEPT ![s] = "ended"]
  /\ endpoints' = Returned(endpoints, s, "nil")
  /\ UNCHANGED <<settings, config, main, result, tomb, prof, catalog, ca, rotator, starter, faults>>

\* startSVIDObserver returns.
ObserverStops ==
  /\ InEndpoints("observer") /\ Dying(endpoints)
  /\ endpoints' = Returned(endpoints, "observer", "nil")
  /\ UNCHANGED <<settings, config, main, result, tomb, prof, catalog, ca, rotator, starter, servers, faults>>

(***************************************************************************)
(* The CA manager, the SVID rotator, and who uses plugins.                 *)
(***************************************************************************)
\* startCARotator and startPruner return.
CAStops(g) ==
  /\ g \in ca.live /\ Dying(ca)
  /\ ca' = Returned(ca, g, "nil")
  /\ UNCHANGED <<settings, config, main, result, tomb, prof, catalog, rotator, starter, endpoints, servers, faults>>

\* The rotator's run returns.
RotatorStops ==
  /\ rotator = "stop"
  /\ rotator' = "ended"
  /\ UNCHANGED <<settings, config, main, result, tomb, prof, catalog, ca, starter, endpoints, servers, faults>>

\* The goroutines that are in a tick or in a handshake, and may index a list of plugins: each
\* select can take the tick although the tomb is dying.
UsesPlugins ==
  \/ ca.live # {}
  \/ rotator \in {"runs", "stop"}
  \/ servers["grpc"] = "serve"

\* A use of CAs()[0] or DataStores()[0] of a catalog that was stopped panics.
UsePlugin ==
  /\ UsesPlugins
  /\ \E k \in ServerKinds : ~HasPlugin(catalog, k)
  /\ main' = "panic"
  /\ UNCHANGED <<settings, config, result, tomb, prof, catalog, ca, rotator, starter, endpoints, servers, faults>>

\* A goroutine goes on.
ServerSteps ==
  /\ ~ServerExited
  /\ \/ ServerConfigure \/ ServerRun \/ InitPlugins \/ StartCAManager \/ StartSVIDRotator \/ ServerSpawn
     \/ ServerStopEndpoints \/ StopSVID \/ StopCA \/ ServerStopCatalog \/ ServerReturn \/ ServerExit
     \/ ServerPrepareProfiler \/ ServerReleaseProfiler \/ ServerKillProfiler
     \/ ServerStopProfiling \/ CAWait \/ CreateEndpoints \/ ShutdownEndpoints \/ Listened
     \/ ListenAndServe \/ ObserverStops \/ RotatorStops
     \/ \E s \in Servers : ServerServe(s) \/ ServeStops(s)
     \/ \E g \in CAParts : CAStops(g)

ServerNext ==
  \/ ServerSteps
  \/ ~ServerExited /\ (ServerSignal \/ ServerDumpProfiles \/ UsePlugin \/ \E s \in Servers : ServerServeFails(s))

(***************************************************************************)
(* Properties.                                                             *)
(***************************************************************************)
\* A server that ends with code 0 has ended everything that Run waits for: the CA manager and
\* the endpoints are dead, no plugin process is left behind, and no
\* temporary file of a profile that was being collected.
ServerCleanExit ==
  main = "exit0" => ca.dead /\ HasEndpoints /\ endpoints.dead /\ catalog.up = {}
                    /\ prof.temp \cap prof.dumpers = {}

\* An error of one of the endpoints ends the server with code 1, although everything else that
\* ends in its course returns nil.
ServerErrorIsReported ==
  (main \in {"exit0", "exit1"} /\ HasEndpoints /\ endpoints.reason = "error") => main = "exit1"

\* Whenever the tomb dies, the process ends: startEndpoints shuts the endpoints down even if
\* shutdown came too early for them.
AlwaysStops == Dying(tomb) ~> ServerExited
====
