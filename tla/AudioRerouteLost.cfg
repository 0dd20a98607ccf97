SPECIFICATION Spec
CONSTANTS
  FmIsAnalog = FALSE
  HeadsetMask <- Lite
  FilterFlags <- NoFilters
  r1 = r1
  c1 = c1
  Player = player
  Recorders = {}
  Controllers = {c1}
  NoThread = nobody
  OutRoutes <- SpeakerOrSco
  InRoutes <- NoInput
  ModeValues <- CallModes
  KeySets <- FmKeys
  DriversMayFail = FALSE
INVARIANT
  MutesFollowState
