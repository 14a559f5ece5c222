CONSTANTS
  Actors = {loop, sweep, bridge}
  Server = {loop, sweep}
  Shared = {loop}
  MaxHashes = 3
  Faults = {"crash", "fail", "alter", "drop", "cycle"}
  MaxFaults = 2
  None = None
SPECIFICATION FairSpec
INVARIANT TypeOK
INVARIANT ChainIntact
INVARIANT ReturnedIsOnFile
PROPERTY AppendsEnd
PROPERTY BreakReported
