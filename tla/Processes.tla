------------------------------ MODULE Processes ------------------------------
(***************************************************************************)
(* The process of the agent, the process of the server, or processes of    *)
(* "api fetch": each behaviour is one of one of the three.                 *)
(***************************************************************************)
EXTENDS AgentProcess, ServerProcess, FetchCLI

CONSTANT MaxFaults   \* bound: the errors that occur

VARIABLE process     \* which process it is: "agent", "server" or "fetch"

shared      == <<settings, config, main, result, tomb, prof, catalog, starter, endpoints, faults>>
agents      == <<hasManager, manager, running, published, server>>
serversVars == <<ca, rotator, servers>>
vars        == <<process, shared, agents, serversVars, fvars>>

\* Files and command lines give every option a value.
ASSUME ProcessAssumption ==
  /\ AgentSettings \subseteq [file: Sources(AgentOptions), flags: Sources(AgentOptions)]
  /\ ServerSettings \subseteq [file: Sources(ServerOptions), flags: Sources(ServerOptions)]
  /\ {MaxFaults, MaxSVIDs} \subseteq Nat

\* The variables of the other processes stay as they are; their values do not matter.
NoAgent  == hasManager = FALSE /\ manager = 0 /\ running = FALSE /\ published = FALSE /\ server = 0
NoServer == ca = 0 /\ rotator = 0 /\ servers = 0
NoFetch  == files = 0 /\ fetches = [f \in Fetches |-> Idle]
Neither  == /\ settings = 0 /\ config = 0 /\ main = "none" /\ result = "nil" /\ tomb = NewTomb
            /\ prof = 0 /\ catalog = 0 /\ starter = 0 /\ endpoints = 0

Init ==
  /\ faults = MaxFaults
  /\ \/ process = "agent" /\ AgentInit /\ NoServer /\ NoFetch
     \/ process = "server" /\ ServerInit /\ NoAgent /\ NoFetch
     \/ process = "fetch" /\ FetchInit /\ NoAgent /\ NoServer /\ Neither

Next ==
  /\ UNCHANGED process
  /\ \/ process = "agent" /\ AgentNext /\ UNCHANGED <<serversVars, fvars>>
     \/ process = "server" /\ ServerNext /\ UNCHANGED <<agents, fvars>>
     \/ process = "fetch" /\ FetchNext /\ UNCHANGED <<shared, agents, serversVars>>

\* Goroutines run.  Whether a signal comes, a call fails or a plugin is used is not up to them.
Fairness ==
  /\ WF_vars(process = "agent" /\ AgentSteps /\ UNCHANGED <<process, serversVars, fvars>>)
  /\ WF_vars(process = "server" /\ ServerSteps /\ UNCHANGED <<process, agents, fvars>>)

Spec == Init /\ [][Next]_vars /\ Fairness

IsAgent  == process = "agent"
IsServer == process = "server"
IsFetch  == process = "fetch"

\* The state of the process has its type.
TypeOK == (IsAgent => AgentTypeOK) /\ (IsServer => ServerTypeOK) /\ (IsFetch => FetchTypeOK)

\* "the command line configurations takes precedence" (doc/spire_agent.md, doc/spire_server.md):
\* a process that goes on has every option that the command line gives as it gives it.
CommandLineWins == IsAgent \/ IsServer => FlagsAreObeyed

\* A process that ends with code 0 has ended all that it started.
CleanExit == (IsAgent => AgentCleanExit) /\ (IsServer => ServerCleanExit)

\* An error of a server inside the process is what the process ends with.
ErrorIsReported == (IsAgent => AgentErrorIsReported) /\ (IsServer => ServerErrorIsReported)

\* What api fetch wrote under one number is of one response.
FilesMatch == IsFetch => FetchedFilesMatch

\* A process ends: the agent when it fails to start, and once it serves workloads whenever its
\* tomb dies; the server whenever its tomb dies.
AlwaysEnds ==
  /\ IsAgent => FailedStartEnds /\ StopsOncePublished
  /\ IsServer => AlwaysStops
====
