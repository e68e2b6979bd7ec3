SPECIFICATION Spec
CONSTANTS
  Orders = {o1, o2, o3}
INVARIANTS ChildFollowsParent
PROPERTIES FinalStays
CHECK_DEADLOCK FALSE
