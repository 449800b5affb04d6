CONSTANTS
  None = None
  Addresses = {a1, a2}
  After = 2
  For = 1
  TTL = 1
  Attempts = 2
  Cooldown = 1
  PerHour = 2
  Hour = 2
  MaxNow = 2
  MaxFaults = 1
  Requests = {r1, r2, r3}
SYMMETRY Symmetry
SPECIFICATION Spec
INVARIANT AddressChanged
CHECK_DEADLOCK FALSE
