\* A service comes and goes, the process ends between two calls, none is disturbed.
SPECIFICATION Spec
CONSTANTS
  a = a
  b = b
  e1 = e1
  e2 = e2
  None = None
  Names = {a}
  Endpoints = {e1}
  Ports = {80}
  Protocols = {"tcp"}
  ValidModes = {"tcp"}
  Algorithms = {"roundrobin"}
  Checks = {"enabled"}
  Modes = {"mesh"}
  Bypassed = {}
  MaxFaults = 0
INVARIANTS LegacyCleaned
