SPECIFICATION Spec
CONSTANTS
  Interval = 2
  Timeout = 4
  Messages <- MCMessages
  Handoffs <- MCHandoffs
  Deadlines <- MCDeadlines
INVARIANTS
  ServerWait
  KeepalivePaced
  OutcomeIsItsCause
PROPERTIES
  NoDeliveryAfterInterruption
