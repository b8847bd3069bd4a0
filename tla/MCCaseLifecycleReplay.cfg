SPECIFICATION Spec
CONSTANTS
  h1 = h1
  h2 = h2
  v1 = v1
  v2 = v2
  k1 = k1
  k2 = k2
  k3 = k3
  NoCall = NoCall
  Handlers <- MCHandlers
  Calls <- MCRegistry
  Registry <- MCRegistry
  Reviewers <- MCReviewer
  RunIds <- MCRunIds3
  Proposals <- MCGatedPlan
  MaxDeliveries = 1
  MaxCrashes = 0
  MaxAborts = 0
  PromptCommit = FALSE
CHECK_DEADLOCK FALSE
SYMMETRY Symmetry
INVARIANT StopsOnFirstFailedTool
