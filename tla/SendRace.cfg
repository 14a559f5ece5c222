CONSTANTS
  Replies = {r}
  Manuals = {}
  Bodies = {x, bad}
  Clean = {x}
  Blank = blank
  Tabs = {t}
  Pages = {}
  Procs = {p}
  Auths = {k1}
  Sends = {s1, s2}
  RateLimit = 1
  Faults = {"crash", "busy", "late"}
  None = None
SPECIFICATION HSpec
INVARIANT TypeOK
INVARIANT SentDraftWasTransmitted
INVARIANT NothingWithheldGoesOut
INVARIANT BlockedTextNeverLeaves
INVARIANT EverySendRecorded
PROPERTY LedgerSpec
PROPERTY SendsSettle
PROPERTY ApprovedIsTransient
