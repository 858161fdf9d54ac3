SPECIFICATION Spec
CONSTANTS
  Producer = {p1, p2}
  Handler = handler
  Capacity = 2
  TagRange = 5
  MaxPush = 2
INVARIANTS
  EveryNodeHasOneOwner
PROPERTY
  ImplementsRequestQueue
CHECK_DEADLOCK FALSE
