SPECIFICATION CallerSpec
CONSTANTS
  Signals = {traces, metrics}
  MaxInstances = 2
  MaxObservers = 1
INVARIANTS ReservationCoversLife CleanShutdown StartTellsTruth
PROPERTY PromptShutdown
