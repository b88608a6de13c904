CONSTANTS
  Streams <- MCStreams
  Clicks <- MCClicks
  None = None
  Failed = Failed
  Capacity = 1
  MaxAttempts = 2
  MaxRestarts = 1

SPECIFICATION FeedSpec

PROPERTIES
  FeedConverges
  VerdictIsOfTheClick
