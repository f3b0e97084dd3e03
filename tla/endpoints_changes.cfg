\* A service with a UDP and a TCP port, objects of up to two subsets.
SPECIFICATION Spec
CONSTANTS
  dns = dns
  i1 = i1
  i2 = i2
  None = None
  Services = {dns}
  Keys = {"dns/UDP", "dns/TCP"}
  UDPKeys = {"dns/UDP"}
  Numbers = {53}
  IPs = {i1, i2}
  Places = {"remote"}
  Times = {"t"}
  MaxSubsets = 2
SYMMETRY Symmetry
INVARIANTS TypeOK PendingLeadsToLatest TimesHaveChanges
PROPERTIES ImplementsEndpointsCopy
