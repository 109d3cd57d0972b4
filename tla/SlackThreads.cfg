\* Two runs, of messages or of the schedule, two messages, the second a mention, and
\* one fault.
SPECIFICATION FairSpec
CONSTANTS
  MaxRuns = 2
  MaxMessages = 2
  Mentions = {2}
  MaxBacklog = 1
  MaxFaults = 1
INVARIANTS
  AnswersSound
  ResumedInPlace
  LinkedRunsRouted
PROPERTY
  EventsHandled
CHECK_DEADLOCK FALSE
