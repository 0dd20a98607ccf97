SPECIFICATION FairSpec
CONSTANTS
  FmIsAnalog = FALSE
  HeadsetMask <- Lite
  FilterFlags <- NoFilters
  r1 = r1
  c1 = c1
  Player = player
  Recorders = {}
  Controllers = {c1}
  NoThread = nobody
  OutRoutes <- OnlySco
  InRoutes <- NoInput
  ModeValues <- OnlyCall
  KeySets <- FmOn
  DriversMayFail = TRUE
INVARIANTS
  TypeOK CacheCoherent
PROPERTY
  RoutesAtomically CallsReturn
