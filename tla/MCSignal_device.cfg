CONSTANTS
  Readers    = {r1, r2}
  Writers    = {w1, w2}
  CopyFaults = TRUE
SPECIFICATION FairSpec
INVARIANTS
  TypeOK
  NoStrandedData
  ClosedMeansUnsubscribed
PROPERTY
  AnnouncedIsTaken
