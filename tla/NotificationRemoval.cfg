\* Two people at one browser.
CONSTANTS
  n1 = n1
  n2 = n2
  n3 = n3
  p1 = p1
  p2 = p2
  e1 = e1
  Endpoints = {e1}
  Recipient <- MCRecipient
  Delay <- MCDelay
  Steps = 1
  claimLease = 2
  Margin = 1
  TTL = 2
  RetryAfter = 2
  Quiet = 1
  MaxFailures = 1
  Notes = {n1}
  Mailed = {}
  People = {p1, p2}
  MaxDevices = 2
  Callers = {c1, c2}
  FoundRows = FALSE
  MaxFaults = 0
  Reqs = {c1, c2}
  IdKeys = {"k1"}
  Asks <- MCAsks
  Budget <- MCBudget
  Window = 1
  KeepFor = 1
  LastInstant = 2
  Pruners = {c1, c2}
  RuleSets <- MCRuleSets
  Selections = {{}, {"b"}}
  Tables = {"t"}
  BatchSize = 1
  MaxClock = 2
  MaxRows = 2
SPECIFICATION RemovalSpec
PROPERTIES OthersLeftAlone
