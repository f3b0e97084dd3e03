\* Two services of one port, which may change its protocol, number and address.
SPECIFICATION Spec
CONSTANTS
  s1 = s1
  s2 = s2
  None = None
  ServiceNames = {s1, s2}
  PortNames = {"dns"}
  Protocols = {"TCP", "UDP"}
  Numbers = {53, 5353}
  IPs = {"10.0.0.1", "10.0.0.2"}
SYMMETRY Symmetry
INVARIANTS TypeOK PendingIsDifference
PROPERTIES ImplementsServiceView
