SPECIFICATION Spec
CONSTANTS
  Selectors = {s1, s2, s3}
  Sids = {u1, u2}
  w1 = w1
  w2 = w2
  q1 = q1
  q2 = q2
  Pids = {w1, w2}
  Pods = {q1, q2}
  Nowhere = Nowhere
  PodOf <- MCPodOf
  Uid <- MCUid
  Gid <- MCGid
  Account <- MCAccount
  Space <- MCSpace
  MaxPollAttempts = 3
  MaxFaults = 1
  Instances = {n1, n2}
  Calls = {c1, c2}
  MaxSkew = 0
  SkipBlockDevice = FALSE
  MaxTime = 1
  Values <- MCValues
  NoIdentity = NoIdentity
  Configs <- MCConfigs
  MaxBackoff = 2
  MaxEvents = 4
INVARIANTS
  GetFindsAllConcerned
  SetAlgebra
  AttestedSelectors
  DocumentIsUsedOnce
  NoUpdateIsLost
PROPERTIES
  AttestReturns
  DeliversLatest
  LatestArrives
  StopEnds
CONSTRAINT MCOneWorkload
CHECK_DEADLOCK FALSE
