SPECIFICATION Spec
CONSTANTS
  None = None
  Word = Word
  Yes = Yes
  One = One
  Now = 100
  CaseFacts <- MCFacts
  Inputs    <- MCInputs
  RunIds    <- MCRunIds
INVARIANTS
  TypeOK
  PlansAreExecutable
  WritesAreApproved
  EditsAreHeldThenConfirmed
  ClassifiedSignalsAreActedOn
PROPERTIES
  ImplementsThread
CHECK_DEADLOCK FALSE
