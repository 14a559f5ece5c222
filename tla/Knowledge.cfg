SPECIFICATION HSpec
CONSTANTS
  Managed = {h, f}
  Uploads = {u}
  Concise = {h}
  Sites <- MCSites
  SiteOf <- MCSiteOf
  Handlers = {click}
  Commands = {}
  MaxVersion = 2
  IngestBound = 1
  HandBound = 3
  FaultBound = 2
  Disturbances = 3
  None = None
INVARIANT TypeOK
INVARIANT OneTextServed
INVARIANT NothingCrowdedOut
PROPERTY ManagedSettles
CHECK_DEADLOCK FALSE
