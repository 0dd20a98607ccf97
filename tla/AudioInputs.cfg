SPECIFICATION FairInputs
CONSTANTS
  FmIsAnalog = FALSE
  HeadsetMask <- Lite
  FilterFlags <- NoFilters
  r1 = r1
  r2 = r2
  Player = player
  Recorders = {r1, r2}
  Controllers = {}
  NoThread = nobody
  OutRoutes <- SpeakerOrSco
  InRoutes <- MicOrCall
  ModeValues <- NoModes
  KeySets <- NoKeys
  DriversMayFail = TRUE
  Address <- TwoAddresses
INVARIANTS
  InputsTypeOK ListedAreAllocated NothingLeaks
PROPERTY
  PolicyReturns
