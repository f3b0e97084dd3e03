\* Restarts that toggle the health check and the mode, no disturbed call.
SPECIFICATION Spec
CONSTANTS
  a = a
  b = b
  e1 = e1
  e2 = e2
  None = None
  Names = {a, b}
  Endpoints = {e1}
  Ports = {80, 443}
  Protocols = {"tcp", "udp"}
  ValidModes = {"tcp"}
  Algorithms = {"roundrobin"}
  Checks = {"enabled", "none"}
  Modes = {"of", "mesh"}
  Bypassed = {a}
  MaxFaults = 0
INVARIANTS NoDanglingFrontend TwoPassesConverge
