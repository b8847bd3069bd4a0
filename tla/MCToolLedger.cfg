SPECIFICATION FairSpec
CONSTANTS
  c1 = c1
  c2 = c2
  c3 = c3
  k1 = k1
  k2 = k2
  NoKey = NoKey
  Callers <- MCCallers
  Keys <- MCKeys
  MaxAborts = 2
INVARIANTS
  TypeOK
  OneHolderPerKey
  EffectsAccounted
  AtMostOnceUnlessRolledBack
  LedgerTellsTheTruth
  RepliesAgreeWithLedger
PROPERTIES
  ImplementsPromise
  EveryCallAnswered
