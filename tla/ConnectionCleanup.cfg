\* A ping that fails beside the clean-up of its connection.
SPECIFICATION Spec
CONSTANTS
  Interval = 1
  Timeout = 2
  Messages <- MCFewMessages
  Handoffs = {0}
  Deadlines <- MCLateDeadline
INVARIANTS
  CleanupIsNoPingFailure
