SPECIFICATION Spec
CONSTANTS
  Slow = TRUE
  Overlap = FALSE
  MayFail = {"insmod", "rmmod"}
INVARIANTS
  TypeOK LoadedMeansUp
PROPERTY
  LoadReturnsUp
