SPECIFICATION LiveSpec
CONSTANTS
  Entries <- MCEntries
  Base = "agent"
  ServerID = "server"
  Ids <- MCIds
  IdOf <- MCIdOf
  ParentOf <- MCParentOf
  Resolved <- MCResolved
  Aliases <- MCAliases
  Registered0 <- MCRegistered0
  Life = 1
  MaxTime = 2
  MaxSerial = 3
  MaxBundle = 1
  MaxBoots = 2
  MaxEvents = 1
INVARIANTS
  KeyIsOfSVID
CHECK_DEADLOCK FALSE
