\* Three reconnects: an outage closes and another opens, a hint is outlived by two
\* failures, and failed setups and silent connections lengthen the backoff.
SPECIFICATION Spec
CONSTANTS
  MaxAttempts = 3
  MaxBatches = 3
  MaxConsumerFailures = 1
  Horizon = 2
  SnapshotSizes <- MCSnapshotSizes
  RetryAfters <- MCRetryAfters
INVARIANTS
  SocketAccounting
  StatusMatchesState
  OutageAccounting
  EvidenceIsCurrent
  HintIsLatest
  StopIsFinal
PROPERTIES
  NoAttemptAfterCancel
  NoEarlyAttempt
  BackoffNeverShortensInSilence
