SPECIFICATION Spec
CONSTANTS
  box = box
  user = user
  Mailboxes = {box}
  Users = {user}
  UserOf <- MCUserOf
  Clicks = {click}
  Commands = {cmd}
  Paths = {path}
  HandBound = 2
  AtOnce = 1
  FaultBound = 1
  None = None
INVARIANT OlderSaveNeverWins
INVARIANT AllOrNothing
INVARIANT ResetOnce
PROPERTY CallersNeverWedge
CHECK_DEADLOCK FALSE
