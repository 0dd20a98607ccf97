-------------------------- MODULE MCAudioHardware ---------------------------
(***************************************************************************)
(* Small instances of AudioHardware: the mixer thread, at most one record  *)
(* thread and one binder thread (AudioFlinger serialises the calls on the  *)
(* hardware object with mHardwareLock).                                    *)
(***************************************************************************)
EXTENDS AudioHardware

CONSTANTS r1, c1

Lite == {"EQ", "RX_IIR"}               \* the default of the headset property

\* A table in which the three devices differ, and one that switches nothing on.
CsvFilters == [SPEAKER |-> {"MBADRC", "ADRC", "EQ"}, HANDSET |-> {"EQ"},
               HEADSET |-> {"ADRC", "RX_IIR"}]
NoFilters == [d \in PostProcDevice |-> {}]

SpeakerOrSco == {{"SPEAKER"}, {"SCO"}}
OnlySco == {{"SCO"}}
ThreeOutputs == {{"SPEAKER"}, {"WIRED_HEADPHONE"}, {"SCO"}}

MicOnly == {"BUILTIN_MIC", "none"}
NoInput == {}

CallModes == {"NORMAL", "IN_CALL"}
OnlyCall == {"IN_CALL"}
NoModes == {}

FmKeys == {{"fm_on"}, {"fm_off"}}
FmStrings == {{"bt_name", "fm_on"}, {"fm_off"}}
FmOn == {{"fm_on"}}
NoKeys == {}
QuietKeys == FmKeys \cup {{"bt_name"}, {"dualmic"}, {"tty_mode", "fm_off"}}
=============================================================================
