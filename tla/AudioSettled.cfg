SPECIFICATION Spec
CONSTANTS
  FmIsAnalog = FALSE
  HeadsetMask <- Lite
  FilterFlags <- CsvFilters
  r1 = r1
  c1 = c1
  Player = player
  Recorders = {}
  Controllers = {c1}
  NoThread = nobody
  OutRoutes <- ThreeOutputs
  InRoutes <- NoInput
  ModeValues <- NoModes
  KeySets <- QuietKeys
  DriversMayFail = FALSE
INVARIANTS
  MutesFollowState PinsFollowDevice OnlyWriteIsOvertaken
