CONSTANTS
  Replies = {}
  Manuals = {m}
  Bodies = {x, y}
  Clean = {x}
  Blank = blank
  Tabs = {}
  Pages = {g}
  Procs = {p}
  Auths = {k1}
  Sends = {s1, s2}
  RateLimit = 1
  Faults = {"crash", "db", "busy", "late"}
  None = None
SPECIFICATION HSpec
INVARIANT RowTellsTruth
INVARIANT TokenSpentOnce
