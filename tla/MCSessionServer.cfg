CONSTANTS
  s1 = s1
  s2 = s2
  j1 = j1
  Sessions = {s1, s2}
  Jobs = {j1}
  Clients = {c1, c2}
  SessionMax = 1
  JobsMax = 1
  Ttl = 0
  MaxScan = 1
  ShardOf <- OneShard
  NoSession = NoSession
  NoJob = NoJob
SPECIFICATION FairSpec
INVARIANTS
  OvershootBounded
  PermitsConserved
PROPERTIES
  RemovalIsSound
  AbandonedExpire
  PermitsComeBack
  ImplementsJobLife
