\* Seven elements through a queue of three blocks, destroyed at any time; the
\* system stops after that.
SPECIFICATION LoggerSpec
CONSTANTS
  Size = 3
  MaxItems = 7
INVARIANTS
  TypeOK
  ReaderHoldsNextItem
  CountNeverZeroAtRead
  EmptyMeansHandled
  AllLoggedWhenClosed
PROPERTIES
  EveryItemHandled
  DestructorReturns
CHECK_DEADLOCK FALSE
