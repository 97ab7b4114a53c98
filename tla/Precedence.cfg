SPECIFICATION Spec
CONSTANTS
  AgentKinds <- MCAgentKinds
  AgentConfigs <- MCAgentConfigs
  ServerKinds <- MCServerKinds
  ServerConfigs <- MCServerConfigs
  AgentSettings <- MCAgentSettings
  ServerSettings <- MCServerSettings
  Profiles <- MCProfiles
  MaxFaults = 2
  Fetches = {f1, f2}
  Versions = {"v1", "v2"}
  MaxSVIDs = 2
INVARIANT CommandLineWins
CHECK_DEADLOCK FALSE
