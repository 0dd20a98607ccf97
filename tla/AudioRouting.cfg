SPECIFICATION Spec
CONSTANTS
  FmIsAnalog = FALSE
  HeadsetMask <- Lite
  FilterFlags <- NoFilters
  r1 = r1
  c1 = c1
  Player = player
  Recorders = {r1}
  Controllers = {c1}
  NoThread = nobody
  OutRoutes <- OnlySco
  InRoutes <- MicOnly
  ModeValues <- OnlyCall
  KeySets <- FmStrings
  DriversMayFail = FALSE
INVARIANTS
  CacheCoherent RouteFollowsState
