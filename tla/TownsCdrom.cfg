SPECIFICATION FairSpec
CONSTANTS
  SectorBytes = 3
  TrackStart <- Disc
  AdrControl <- Adr
  Jobs <- AllJobs
  MaxJobs = 3
INVARIANTS
  DeliversInOrder
  TransferInBounds
  InterruptAnnounces
  TocIsComplete
PROPERTY
  AnswerIsHeld
  JobEnds
\* The guest may have sent all its commands.
CHECK_DEADLOCK FALSE
