CONSTANTS
  t1 = t1
  a1 = a1
  a2 = a2
  a3 = a3
  s1 = s1
  Tokens = {t1}
  Ids = {a1, a2, a3, w1}
  Agents = {a1, a2, a3}
  EntryIds = {e1}
  Selectors = {s1}
  Domains = {d1}
  TrustDomain = d1
  Certs = {}
  AgentOf <- MCAgentOf
  Resolved <- MCResolved
  Calls = {c1, c2}
  MaxTime = 2
  MaxSerial = 3
  MaxFailures = 2
SYMMETRY MCSymmetry
CONSTRAINT MCBound
SPECIFICATION Spec
INVARIANTS TypeOK TokenIsSingleUse HeldSerialIsStored SignsOnlyRegistered
