SPECIFICATION Spec
CONSTANTS
  First = 1
  Limit = 2
  MaxId = 8
  Backlog = 2
INVARIANTS RoutedRight SubscriptionsAgree
PROPERTY ImplementsBackoff
CHECK_DEADLOCK FALSE
