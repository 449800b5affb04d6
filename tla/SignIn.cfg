\* Two requests, people and passwords, one fault; two accounts and four administrative requests.
CONSTANTS
  Nobody = Nobody
  People = {p1, p2}
  Passwords = {a, b}
  After = 2
  For = 1
  Limit = 2
  Window = 1
  TTL = 1
  EmbedTTL = 1
  MaxFaults = 1
  Requests = {r1, r2}
  AccountIds <- MCAccountIds
  Forms <- MCForms
  OwnForms <- MCOwnForms
  Locales = {"hr", "en"}
  AdminRequests = {r1, r2}
  TooWide = {"wide"}
  InReach <- MCInReach
  Extended = TRUE
  MaxAdminOps = 4
SYMMETRY Symmetry
SPECIFICATION PeopleSpec
INVARIANTS SessionsHold AccountsTold
PROPERTIES LockKept
