\* Shorter intervals and fewer kinds of messages for the temporal properties.
SPECIFICATION FairSpec
CONSTANTS
  Interval = 1
  Timeout = 2
  Messages <- MCFewMessages
  Handoffs = {0}
  Deadlines <- MCLateDeadline
PROPERTIES
  KeepsSession
  ServerIsGivenUpOn
