\* The administrator against a watchdog tick, step by step, and what the watchdog owes
\* while the readings stay on one side of its thresholds.
SPECIFICATION FairSpec
CONSTANTS
  Readings <- AllReadings
  DiskThrottlePct = 5
  QueueThrottle = 4
  LoadThrottle = 4
  LoadPause = 3
  LoadGo = 1
  EnabledByConfig = TRUE
PROPERTIES
  OverridesOnlyUnseenOrders
  ReleasedWhenCalm
  ThrottledUnderOverload
