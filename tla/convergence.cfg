\* One service and its slice, which may change, come and go at any time.
SPECIFICATION FairSpec
CONSTANTS
  web = web
  s = s
  p = p
  Half = Half
  None = None
  Names = {web}
  UseSlices = TRUE
  ServiceObjects = {s}
  EndpointObjects = {p}
INVARIANTS TypeOK DivergenceIsDue QuietIsCurrent
PROPERTIES EventuallyConverged PassesAreSerial
