CONSTANTS
  Replies = {r}
  Manuals = {}
  Bodies = {x}
  Clean = {x}
  Blank = blank
  Tabs = {t}
  Pages = {}
  Procs = {p}
  Auths = {}
  Sends = {s1}
  RateLimit = 1
  Faults = {}
  None = None
SPECIFICATION HSpec
SYMMETRY Symmetry
PROPERTY SentIsFinal
