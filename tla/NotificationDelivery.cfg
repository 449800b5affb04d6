\* Two notifications that can be bundled, or one e-mailed and pushed; one process.
CONSTANTS
  n1 = n1
  n2 = n2
  n3 = n3
  p1 = p1
  p2 = p2
  e1 = e1
  Endpoints = {e1}
  Recipient <- MCRecipient
  Delay <- MCDelay
  Steps = 1
  claimLease = 2
  Margin = 1
  TTL = 2
  RetryAfter = 0
  Quiet = 1
  MaxFailures = 1
  Notes = {n1, n2, n3}
  Mailed = {n3}
  People = {p1}
  MaxDevices = 1
  Callers = {c1}
  FoundRows = TRUE
  MaxFaults = 0
  Reqs = {c1}
  IdKeys = {"k1"}
  Asks <- MCAsks
  Budget <- MCBudget
  Window = 1
  KeepFor = 1
  LastInstant = 2
  Pruners = {c1}
  RuleSets <- MCRuleSets
  Selections = {{}, {"b"}}
  Tables = {"t"}
  BatchSize = 1
  MaxClock = 2
  MaxRows = 0
SPECIFICATION DeliverySpec
PROPERTY DeliveriesKept
