CONSTANTS
  Blocking    = {r1}
  Polling     = {p1}
  Nonblocking = {n1}
  Writers     = {w1, w2}
  Signals     = TRUE
  CopyFaults  = TRUE
SPECIFICATION FairSpec
INVARIANTS
  TypeOK
  NoLostWakeup
  NoLostMessage
  ConditionMeansMessage
PROPERTIES
  AnnouncedIsTaken
  PollReports
