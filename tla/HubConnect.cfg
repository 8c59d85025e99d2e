\* A Duration has room for 47 seconds and a half; the stream is two messages of the
\* largest handshake or hub record with what follows it.
SPECIFICATION ConnectSpec
CONSTANTS
  MaxInt64 = 95
  Second = 2
  Clocks <- MCClocks
  Responses <- MCResponses
  Bodies <- MCBodies
  MaxHandshake = 2
  MaxRecord = 3
  MaxMessage = 5
  MaxBytes = 10
INVARIANTS
  NothingLeaks
  AffinityFollows
  RecordsAreTheStream
  RecordsKeepLimits
PROPERTIES
  HintIsExact
  VerdictIsTheServers
  SetupEnds
