CONSTANTS
  Profile = {pa, pb, pc}
  CapBytes = 2
  MaxAlloc = 3
  MaxBuffers = 4
  MaxEpoch = 2
SPECIFICATION Spec
CHECK_DEADLOCK FALSE
SYMMETRY Symmetry
INVARIANTS
  BudgetExact
  BuffersOfThisEpoch
  BoundedBypass
