\* One service port of one service, two slices and two addresses.
SPECIFICATION Spec
CONSTANTS
  web = web
  n1 = n1
  n2 = n2
  i1 = i1
  i2 = i2
  None = None
  Services = {web}
  SliceNames = {n1, n2}
  Keys = {"http"}
  Numbers = {8080, 9090}
  IPs = {i1, i2}
  Places = {"remote", "local"}
SYMMETRY Symmetry
INVARIANTS TypeOK PendingIsLatest
PROPERTIES ImplementsEndpointsView ImplementsTrackerView
