\* Two services that share every step of a pass, two disturbed calls per pass.
SPECIFICATION Spec
CONSTANTS
  a = a
  b = b
  e1 = e1
  e2 = e2
  None = None
  Names = {a, b}
  Endpoints = {e1, e2}
  Ports = {80}
  Protocols = {"tcp", "udp"}
  ValidModes = {"tcp"}
  Algorithms = {"roundrobin"}
  Checks = {"enabled"}
  Modes = {"mesh"}
  Bypassed = {}
  MaxFaults = 2
SYMMETRY Symmetry
INVARIANTS TypeOK LiveServiceSurvives OnePassConverges LegacyRemoved
PROPERTIES NoLiveServerRemoved ImplementsPassView
