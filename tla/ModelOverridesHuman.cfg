\* A human's label given while the model is asked is overwritten.
SPECIFICATION Spec
CONSTANTS
  Messages = {m1}
  Senders = {s1}
  DomainOf <- MCDomainOf
  Mails <- MCMails
  Texts <- MCTexts
  Domains <- MCDomains
  PiiTypes = {"PHONE_NUMBER"}
  Detectors <- MCDetectors
  Configs <- MCConfigs
  Verdicts = {"CONTENT", "SPAM"}
  Agents = {}
  MaxClassifyAttempts = 2
  QueueBound = 1
  FaultBound = 1
  HandBound = 1
  None = None
PROPERTY HumanVerdictStands
CHECK_DEADLOCK FALSE
