SPECIFICATION Spec
CONSTANTS
  c1 = c1
  c2 = c2
  c3 = c3
  k1 = k1
  k2 = k2
  NoKey = NoKey
  Callers <- MCCallers
  Keys <- MCKeys
  MaxAborts = 1
SYMMETRY Symmetry
INVARIANT EffectAtMostOnce
