SPECIFICATION FairSpec
CONSTANTS
  Hosts = {traces, metrics, logs}
  Reporter = reporter
  Free = free
  MaxEvents = 3
PROPERTY KeepsFeed
