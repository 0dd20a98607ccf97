--------------------------- MODULE MCAudioInputs ----------------------------
(***************************************************************************)
(* A small instance of AudioInputs: the mixer thread and two streams.      *)
(***************************************************************************)
EXTENDS AudioInputs, TLC

CONSTANTS r1, r2

Lite == {"EQ", "RX_IIR"}
NoFilters == [d \in PostProcDevice |-> {}]
SpeakerOrSco == {{"SPEAKER"}, {"SCO"}}
MicOrCall == {"BUILTIN_MIC", "VOICE_CALL"}
HeadsetMic == {"WIRED_HEADSET"}
NoRoutes == {}
NoModes == {}
NoKeys == {}
TwoAddresses == r1 :> 1 @@ r2 :> 2
=============================================================================
