SPECIFICATION Spec
CONSTANTS
  Entries <- TwinEntries
  Base = "agent"
  ServerID = "server"
  Ids <- TwinIds
  IdOf <- TwinIdOf
  ParentOf <- TwinParentOf
  Resolved = {}
  Aliases = {}
  Registered0 <- TwinRegistered0
  Life = 1
  MaxTime = 2
  MaxSerial = 3
  MaxBundle = 0
  MaxBoots = 1
  MaxEvents = 1
INVARIANTS
  OwnKey
CHECK_DEADLOCK FALSE
