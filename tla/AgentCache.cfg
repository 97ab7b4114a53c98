\* Two concurrent writers against a stream; no symmetry, for the temporal properties.
CONSTANTS
  a = a
  NoThread = NoThread
  Writers = {w1, w2}
  Streams = {s1}
  Entries = {e1}
  Selectors = {a, b}
  EntrySel <- MCEntrySel
  MaxWrites = 3
SPECIFICATION FairSpec
INVARIANTS
  NoMissedUpdate
  NeverReadsDrainedChannel
PROPERTIES
  UpdatesMoveForward
  StreamsCatchUp
  FinishedIsReclaimed
CHECK_DEADLOCK FALSE
