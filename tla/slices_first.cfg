\* The slices sync before the services.
SPECIFICATION Spec
CONSTANTS
  a = a
  b = b
  Names = {a, b}
  UseSlices = TRUE
INVARIANTS SyncedMeansInitialized
