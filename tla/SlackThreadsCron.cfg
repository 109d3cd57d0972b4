\* A scheduled job that is mirrored runs twice; nothing fails.
SPECIFICATION Spec
CONSTANTS
  MaxRuns = 2
  MaxMessages = 2
  Mentions = {}
  MaxBacklog = 2
  MaxFaults = 0
PROPERTY
  ThreadKeepsSession
CHECK_DEADLOCK FALSE
