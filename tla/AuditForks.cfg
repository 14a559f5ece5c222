CONSTANTS
  Actors = {loop, worker, bridge}
  Server = {loop, worker}
  Shared = {loop, worker}
  MaxHashes = 2
  Faults = {}
  MaxFaults = 0
  None = None
SPECIFICATION Spec
INVARIANT ChainIntact
