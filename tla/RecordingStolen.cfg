SPECIFICATION SpecInputs
CONSTANTS
  FmIsAnalog = FALSE
  HeadsetMask <- Lite
  FilterFlags <- NoFilters
  r1 = r1
  r2 = r2
  Player = player
  Recorders = {r1, r2}
  Controllers = {}
  NoThread = nobody
  OutRoutes <- NoRoutes
  InRoutes <- HeadsetMic
  ModeValues <- NoModes
  KeySets <- NoKeys
  DriversMayFail = FALSE
  Address <- TwoAddresses
INVARIANT
  RecordingKeepsRoute
