SPECIFICATION Spec
CONSTANTS
  Slow = FALSE
  Overlap = TRUE
  MayFail = {}
PROPERTY
  LoadReturnsUp
