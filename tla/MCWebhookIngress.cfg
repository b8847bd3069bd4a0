SPECIFICATION FairSpec
CONSTANTS
  e1 = e1
  e2 = e2
  m1 = m1
  m2 = m2
  m3 = m3
  Events <- MCEvents
  Merchants <- MCMerchants
  Mapped <- MCMapped
  MaxDeliveries = 3
  MaxAborts = 2
  MaxLateAborts = 1
CHECK_DEADLOCK FALSE
INVARIANTS
  TypeOK
  OneRunPerEvent
  AcknowledgedIsRecorded
PROPERTIES
  RequestsEnd
