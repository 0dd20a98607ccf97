SPECIFICATION Spec
CONSTANTS
  FmIsAnalog = FALSE
  HeadsetMask <- Lite
  FilterFlags <- NoFilters
  PhoneStates = {"NORMAL", "RINGTONE", "IN_CALL"}
  Pluggable = {"WIRED_HEADSET", "SCO_HEADSET", "A2DP"}
  VoiceIndices = {1, 5}
  FmVolumes = {0, 41}
  TtyModes = {"OFF", "FULL"}
  Playing = {"MEDIA", "SONIFICATION"}
  MaxCommands = 1
INVARIANTS
  PolicyTypeOK CallHasDevice CallFollowsPolicy
