\* Endpoints are watched; all goroutines, two objects of each kind.
SPECIFICATION FairSpec
CONSTANTS
  a = a
  b = b
  Names = {a, b}
  UseSlices = FALSE
INVARIANTS TypeOK NoLostChange NoPassBeforeSync SyncedMeansInitialized
PROPERTIES ChangesTaken
