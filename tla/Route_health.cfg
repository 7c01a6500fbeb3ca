\* Two requests on one worker: both dial lane a, one can fall back to lane b.
SPECIFICATION FairSpec
CONSTANTS
  NULL = NULL
  r1 = r1
  r2 = r2
  a = a
  b = b
  A = A
  B = B
  Requests = {r1, r2}
  Keys = {a, b}
  Lanes = {A, B}
  Lane <- MCLane
  Route <- MCRoute
  Outcomes <- MCOutcomes
  Stated = {0}
  Threshold = 2
  OpenTime = 1
  ThrottleTime = 1
  RetryMin = 1
  RetryMax = 1
  PlanMax = 1
  LaneFailures = 1
  LaneWindow = 1
  HeaderTimeouts = 1
  HeaderWindow = 1
  Cooldown = 1
  MaxTotal = 3
  MaxSame = 2
  Redials = 1
INVARIANTS ProbeOwned
PROPERTIES LadderForward CircuitRecovers LaneRecovers
