SPECIFICATION Spec
CONSTANTS
  None = None
  Word = Word
  Yes = Yes
  One = One
  Now = 100
  CaseFacts <- MCFacts
  Inputs    <- MCInputs
  RunIds    <- MCRunIds
INVARIANTS
  ShippedOrdersAreNotEdited
CHECK_DEADLOCK FALSE
