SPECIFICATION Spec
CHECK_DEADLOCK FALSE
CONSTANTS
  g1 = g1
  g2 = g2
  g3 = g3
  Goroutines <- MCGoroutines
  Nobody = Nobody
  MaxCalls <- MCMaxCalls
  MaxSpins = 1
INVARIANTS
  TypeOK
  MutualExclusion
  NeverThrows
  NoLostWakeup
  IndInv
PROPERTIES
  ImplementsExclusion
  LocksReturn
