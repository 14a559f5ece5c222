CONSTANTS
  Messages = {m}
  Headless = {}
  Sweeper = sweeper
  Purgers = {page}
  Days = 1
  MaxDay = 2
  Moves = {"restore", "archive", "label"}
  Faults = {"crash", "drop", "busy", "unlink", "renumber"}
  MaxFaults = 2
  None = None
SPECIFICATION FairSpec
INVARIANT TypeOK
INVARIANT CopyRemembered
INVARIANT FilesFollow
PROPERTY DueIsPurged
PROPERTY CopyGoes
INVARIANT DeletedMeansGone
INVARIANT OnlyOursDeleted
