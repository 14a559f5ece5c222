CONSTANTS
  Messages = {m}
  Headless = {}
  Sweeper = sweeper
  Purgers = {}
  Days = 1
  MaxDay = 1
  Moves = {"restore"}
  Faults = {}
  MaxFaults = 0
  None = None
SPECIFICATION Spec
PROPERTY NotDestroyedEarly
