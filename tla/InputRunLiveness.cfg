\* A smaller instance for the temporal properties: one reconnect.
SPECIFICATION FairSpec
CONSTANTS
  MaxAttempts = 1
  MaxBatches = 2
  MaxConsumerFailures = 1
  Horizon = 2
  SnapshotSizes <- MCSnapshotSizes
  RetryAfters <- MCRetryAfters
PROPERTIES
  ShutdownCompletes
  KeepsRetrying
  KeepsPromise
