----------------------------- MODULE SndRouting -----------------------------
(***************************************************************************)
(* The decisions of libaudio/AudioHardware.cpp that depend on no thread:   *)
(* which sound device doRouting() selects, which post-processing features  *)
(* it asks for, which of them msm72xx_enable_postproc() switches on, and   *)
(* which mutes doAudioRouteOrMute() sends with a device.                   *)
(*                                                                         *)
(* An output route is the set of the AudioSystem::DEVICE_OUT_* bits that   *)
(* are set in mOutput->mDevices; an input route is the one DEVICE_IN_* bit *)
(* of a stream ("none" is 0).  COMBO_DEVICE_SUPPORTED is #undef'd and      *)
(* HAVE_FM_RADIO defined, as in the build.  All endpoints are resolved.    *)
(***************************************************************************)
EXTENDS FiniteSets

CONSTANTS
  FmIsAnalog,     \* mFmIsAnalog, from hw.fm.isAnalog
  HeadsetMask,    \* what persist.sys.headset-postproc asks for
  FilterFlags     \* the filters AudioFilter.csv configures, per device

Feature == {"ADRC", "EQ", "RX_IIR", "MBADRC"}
PostProcDevice == {"SPEAKER", "HANDSET", "HEADSET"}

ASSUME RoutingConstants ==
  /\ FmIsAnalog \in BOOLEAN
  /\ HeadsetMask \subseteq Feature
  /\ FilterFlags \in [PostProcDevice -> SUBSET Feature]

OutputBit == {"EARPIECE", "SPEAKER", "WIRED_HEADSET", "WIRED_HEADPHONE",
              "SCO", "SCO_HEADSET", "SCO_CARKIT"}
InputBit == {"BUILTIN_MIC", "WIRED_HEADSET", "SCO_HEADSET", "VOICE_CALL"}
Mode == {"NORMAL", "RINGTONE", "IN_CALL", "IN_COMMUNICATION"}
TtyMode == {"OFF", "VCO", "HCO", "FULL"}

FmDevice == {"FM_HEADSET", "FM_SPEAKER", "FM_ANALOG_HEADSET", "FM_ANALOG_SPEAKER"}
DualMicDevice == {"IN_S_SADC_OUT_HANDSET", "IN_S_SADC_OUT_SPEAKER_PHONE"}
SndDevice == PostProcDevice \cup FmDevice \cup DualMicDevice \cup
             {"BT", "CARKIT", "TTY_HEADSET", "TTY_VCO", "TTY_HCO"}

NoDevice == "none"        \* -1: no current device, the next route is forced

Route(dev, mask) == [dev |-> dev, mask |-> mask]
RouteType == [dev : SndDevice, mask : SUBSET Feature]

Wired(out) == out \cap {"WIRED_HEADSET", "WIRED_HEADPHONE"} # {}

-----------------------------------------------------------------------------
(* doRouting(): the selection, in the order of its tests.                  *)

FmRoute(out) ==
  Route(CASE Wired(out) /\ FmIsAnalog    -> "FM_ANALOG_HEADSET"
          [] Wired(out) /\ ~FmIsAnalog   -> "FM_HEADSET"
          [] ~Wired(out) /\ FmIsAnalog   -> "FM_ANALOG_SPEAKER"
          [] ~Wired(out) /\ ~FmIsAnalog  -> "FM_SPEAKER",
        {"EQ", "RX_IIR"})

TtyRoute(tty) ==
  Route(CASE tty = "FULL" -> "TTY_HEADSET"
          [] tty = "VCO"  -> "TTY_VCO"
          [] tty = "HCO"  -> "TTY_HCO", {})

OutputRoute(out, fm, tty, mode) ==
  IF fm THEN FmRoute(out)
  ELSE IF tty # "OFF" /\ mode = "IN_CALL" /\ "WIRED_HEADSET" \in out
       THEN TtyRoute(tty)
  ELSE IF out \cap {"SCO", "SCO_HEADSET"} # {} THEN Route("BT", {})
  ELSE IF "SCO_CARKIT" \in out THEN Route("CARKIT", {})
  ELSE IF Wired(out) THEN Route("HEADSET", HeadsetMask)
  ELSE IF "SPEAKER" \in out THEN Route("SPEAKER", Feature)
  ELSE Route("HANDSET", Feature)

\* A recording routes to its own input device, whatever the output says.
InputRoute(in, out) ==
  IF in = "SCO_HEADSET" THEN Route("BT", {})
  ELSE IF in = "WIRED_HEADSET" THEN Route("HEADSET", HeadsetMask)
  ELSE IF "SPEAKER" \in out THEN Route("SPEAKER", Feature)
  ELSE Route("HANDSET", {})

\* In a call with the second microphone on, two endpoints are replaced.
DualMicRoute(route, dualMic, mode) ==
  IF dualMic /\ mode = "IN_CALL"
  THEN [route EXCEPT !.dev =
          CASE @ = "HANDSET" -> "IN_S_SADC_OUT_HANDSET"
            [] @ = "SPEAKER" -> "IN_S_SADC_OUT_SPEAKER_PHONE"
            [] OTHER         -> @]
  ELSE route

-----------------------------------------------------------------------------
(* msm72xx_enable_postproc(): MBADRC and ADRC are never on together.       *)

EnableMask(dev, mask) ==
  LET usable == mask \cap FilterFlags[dev]
  IN  IF "MBADRC" \in usable THEN usable \ {"ADRC"} ELSE usable

-----------------------------------------------------------------------------
(* doAudioRouteOrMute(): the mutes that go with a device.                  *)

\* AudioHardwareBase::isInCall()
IsInCall(mode) == mode \in {"IN_CALL", "IN_COMMUNICATION"}

EarMute(dev, mode, micSelected, fm) ==
  ~fm /\ ~IsInCall(mode) /\ ~(dev = "HANDSET" /\ micSelected)

MicMute(micMute, fm) == ~fm /\ micMute
=============================================================================
