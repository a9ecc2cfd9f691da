\* A pool of six blocks, given back in every order; ends when a check fails.
SPECIFICATION Spec
CONSTANT N = 6
INVARIANTS
  TypeOK
  NextFreeIsFree
  HoldsOneLess
PROPERTY FailsOnlyWhenFull
CHECK_DEADLOCK FALSE
