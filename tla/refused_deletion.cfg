\* The deletion of a server is refused once.
SPECIFICATION Spec
CONSTANTS
  a = a
  b = b
  e1 = e1
  e2 = e2
  None = None
  Names = {a}
  Endpoints = {e1}
  Ports = {80}
  Protocols = {"tcp"}
  ValidModes = {"tcp"}
  Algorithms = {"roundrobin"}
  Checks = {"enabled"}
  Modes = {"mesh"}
  Bypassed = {}
  MaxFaults = 1
PROPERTIES FailedDeletionQueued
