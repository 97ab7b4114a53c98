------------------------ MODULE DaemonProcess ------------------------
(***************************************************************************)
(* What the processes of the agent and of the server have in common: a     *)
(* configuration, a goroutine run in a tomb, a profiler, a plugin catalog, *)
(* and endpoints that a goroutine startEndpoints starts.                   *)
(***************************************************************************)
EXTENDS Tomb, Catalog, Profiler, Configuration

CONSTANT
  Profiles   \* the names of the profiles to collect, if profiling is enabled

VARIABLES
  settings,   \* the file and the flags, and what they are merged to; unused once Run starts
  config,     \* Config.PluginConfigs
  main,       \* where Run, and its goroutine run, are
  result,     \* what run will return
  tomb,       \* a.t, s.t
  prof,       \* the profiler
  catalog,    \* a.Catalog, s.Catalog
  starter,    \* where startEndpoints is
  endpoints,  \* the tomb of the endpoints
  faults      \* how many errors may still occur

Used == [used |-> TRUE]

Fault == faults > 0 /\ faults' = faults - 1

\* Files and flags were merged, and the process goes on with what came out: it obeys the flags.
FlagsAreObeyed ==
  "merged" \in DOMAIN settings /\ main # "exit1" => Obeys(settings.merged.config, settings.flags)
====
