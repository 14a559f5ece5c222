CONSTANTS
  MaxUid = 4
  Poison = {2}
  FetchChunk = 2
  MaxAttempts = 2
  BackfillCount = 2
  StartupLimit = 1
  Faults = {"crash", "drop", "store", "triage"}
  MaxFaults = 2
  Unset = Unset
SPECIFICATION FairSpec
INVARIANT TypeOK
INVARIANT NothingSkipped
INVARIANT OnlyPoisonSkipped
INVARIANT UntriagedIsKnown
INVARIANT RefreshNeverHangs
PROPERTY MailArrives
