\* What the comments of config.go say of the synced handlers.
SPECIFICATION Spec
CONSTANTS
  a = a
  b = b
  Names = {a, b}
  UseSlices = TRUE
INVARIANTS NoPartialProgramming
