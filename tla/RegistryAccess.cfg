\* One workflow, two containers that are replaced at any time, a token that
\* lives for one tick of two.
SPECIFICATION Spec
CONSTANTS
  Containers = {c1, c2}
  Seekers = {w}
  Apps <- MCApps
  Requests <- MCRequests
  Host <- MCHost
  TTL = 1
  MaxTime = 2
INVARIANTS
  NotFoundMeansNoneRan
  TokenOpensItsRepository
  AdmittedBeforeAll
