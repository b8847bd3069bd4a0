SPECIFICATION MCSpec
CONSTANTS
  m1 = m1
  m2 = m2
  a1 = a1
  a2 = a2
  b1 = b1
  e1 = e1
  e2 = e2
  p1 = p1
  p2 = p2
  p3 = p3
  r1 = r1
  NoRun = NoRun
  NoPost = NoPost
  Merchants <- MCMerchants
  Corrections <- MCCorrections
  MerchantOf <- MCMerchantOf
  Limit = 2
  Exporters <- MCExporters
  Posts <- MCPosts
  RunOf <- MCRunOf
  MaxCrashes = 1
CHECK_DEADLOCK FALSE
INVARIANTS
  TypeOK
  ExportedOnce
  MarkedIsExported
  AnswersNameOneReview
PROPERTIES
  QueuedAreExported
