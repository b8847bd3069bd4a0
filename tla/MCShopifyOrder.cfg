SPECIFICATION MCSpec
CONSTANTS
  c1 = c1
  c2 = c2
  k1 = k1
  k2 = k2
  l1 = l1
  l2 = l2
  l3 = l3
  o1 = o1
  v1 = v1
  v2 = v2
  v3 = v3
  t1 = t1
  t2 = t2
  NoKey = NoKey
  NoId = NoId
  NoNumber = NoNumber
  Callers <- MCCallers
  Keys <- MCKeys
  MaxAborts = 1
  LineIds <- MCLineIds
  Variants <- MCVariants
  Titles <- MCTitles
  BaseLines <- MCBaseLines
  CalculatedIds <- MCCalculatedIds
  Requests <- MCRequests
CHECK_DEADLOCK FALSE
SYMMETRY Symmetry
INVARIANTS
  TypeOK
  AdditionsAreNotRepeated
PROPERTIES
  EditsAreWhole
  ExactRequestsAreMet
