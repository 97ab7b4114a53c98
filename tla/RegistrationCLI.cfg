CONSTANTS
  i1 = i1
  i2 = i2
  s1 = s1
  s2 = s2
  t1 = t1
  None = None
  BadFlag = BadFlag
  Malformed = Malformed
  Tokens = {t1}
  Ids = {i1, i2}
  ValidIds = {i1}
  EntryIds = {e1, e2}
  Selectors = {s1, s2}
  Domains = {d1}
  Certs = {r1}
  Calls = {c1, c2, c3}
  Ttls = {0, 1}
  Expiries = {0, 1}
  Serials = {1, 2}
  MaxList = 2
  Files <- MCFiles
  Queries <- MCQueries
  AgentId <- MCAgentId
  AgentSelector <- MCAgentSelector
SPECIFICATION MCSpec
SYMMETRY Symmetric
INVARIANTS ExistingEntryIsRefused CreatedInOrder ShowIsExact MatchingIsSuperset SelectorListIsExact
PROPERTY DeletedStaysDeleted
CONSTRAINT MCOneTable
CHECK_DEADLOCK FALSE
