SPECIFICATION FairSpec
CONSTANTS
  Signals = {traces}
  MaxInstances = 2
  MaxObservers = 1
PROPERTY KeepsReservation
