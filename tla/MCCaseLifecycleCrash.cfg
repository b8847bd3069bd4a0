SPECIFICATION Spec
CONSTANTS
  h1 = h1
  h2 = h2
  v1 = v1
  v2 = v2
  k1 = k1
  k2 = k2
  k3 = k3
  NoCall = NoCall
  Handlers <- MCHandlers
  Calls <- MCCalls
  Registry <- MCRegistry
  Reviewers <- MCReviewer
  RunIds <- MCRunIds2
  Proposals <- MCProposals
  MaxDeliveries = 2
  MaxCrashes = 1
  MaxAborts = 1
  PromptCommit = FALSE
CHECK_DEADLOCK FALSE
SYMMETRY Symmetry
INVARIANTS
  ProcessingIsOwned
  SettledInPlanOrder
  ResolvedMeansSettled
PROPERTIES
  PlanIsExecutedAsApproved
