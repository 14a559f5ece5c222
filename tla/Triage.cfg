SPECIFICATION FairSpec
CONSTANTS
  Messages = {m1}
  Senders = {s1}
  DomainOf <- MCDomainOf
  Mails <- MCMails
  Texts <- MCTexts
  Domains <- MCDomains
  PiiTypes = {"PHONE_NUMBER"}
  Detectors <- MCDetectors
  Configs <- MCConfigs
  Verdicts = {"CONTENT", "SPAM"}
  Agents = {a1}
  MaxClassifyAttempts = 2
  QueueBound = 1
  FaultBound = 1
  HandBound = 1
  None = None
INVARIANT TypeOK
PROPERTY WithheldStaysWithheld
PROPERTY HumanDraftsStand
PROPERTY DeferredSettles
CHECK_DEADLOCK FALSE
