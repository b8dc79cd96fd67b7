SPECIFICATION FairSpec
CONSTANTS
  Items = 4
  Counts <- OneOrFour
  MaxPending = 3
  MaxLong = 4
CHECK_DEADLOCK FALSE
INVARIANTS
  TypeOK
  CreditConserved
  ItemsCovered
  BacklogBounded
  CompleteMeansAll
PROPERTIES
  NothingAfterTerminal
  SubscriberTold
