----------------------------- MODULE AudioPolicy -----------------------------
(***************************************************************************)
(* libaudio/AudioPolicyManager.cpp, and what its decisions become in the   *)
(* hardware: the device of each strategy, the voice and FM volumes, and    *)
(* the command thread that hands both to AudioHardware while other threads *)
(* change the mode and the TTY mode of AudioHardware directly.             *)
(*                                                                         *)
(* The base class that calls the two overridden functions is not in this   *)
(* tree.  Of it is assumed: it evaluates all strategies after each change, *)
(* in an order of its own; routes the hardware output when its device      *)
(* changes, and at both ends of a call even if it does not; applies the    *)
(* volumes of all streams after each route it asks for, and when the use   *)
(* forced for communication changes; and keeps A2DP from the hardware      *)
(* output.  Commands are executed in the order in which they were queued.  *)
(* The streams of the two volumes are never muted.                         *)
(***************************************************************************)
EXTENDS Naturals, Sequences, SndRouting

CONSTANTS
  PhoneStates,    \* phone states the telephony layer goes through
  Pluggable,      \* devices that come and go
  VoiceIndices,   \* indices of the VOICE_CALL stream
  FmVolumes,      \* FM volumes, in per cent after logToLinear()
  TtyModes,
  Playing,        \* strategies that may drive the hardware output
  MaxCommands     \* the policy waits while so many commands are queued

A2dp == {"A2DP", "A2DP_HEADPHONES", "A2DP_SPEAKER"}
Device == OutputBit \cup A2dp \cup {"AUX_DIGITAL", "FM"}
BuiltIn == {"EARPIECE", "SPEAKER"}
Strategy == {"MEDIA", "PHONE", "SONIFICATION", "MEDIA_SONIFICATION", "DTMF"}
ForComm == {"NONE", "SPEAKER", "BT_SCO"}
ForMedia == {"NONE", "SPEAKER"}
IndexMax == 5                    \* of VOICE_CALL

ASSUME PolicyAssumption ==
  /\ PhoneStates \subseteq Mode /\ "NORMAL" \in PhoneStates
  /\ Pluggable \subseteq Device \ BuiltIn
  /\ VoiceIndices \subseteq 0..IndexMax /\ VoiceIndices # {}
  /\ FmVolumes \subseteq 0..100 /\ FmVolumes # {}
  /\ TtyModes \subseteq TtyMode
  /\ Playing \subseteq Strategy
  /\ MaxCommands \in Nat

VARIABLES
  policy,               \* phone state, forced uses, available devices
  mDeviceForStrategy,
  playing,              \* the strategy that drives the hardware output
  mDevice,              \* the device the hardware output was given
  index,                \* the volumes the user chose
  commands,             \* the queue of the command thread
  mMode, mTtyMode,      \* AudioHardware: as in module AudioHardware
  mDevices, mCurSndDevice,
  sndDevice,            \* SND_DEVICE_CURRENT of the driver
  vol,                  \* setVoiceVolume()'s level, before it has the lock
  sent                  \* the last SND_SET_VOLUME, of the voice or of FM

hal == <<mMode, mTtyMode, mDevices, mCurSndDevice, sndDevice, vol, sent>>
vars == <<policy, mDeviceForStrategy, playing, mDevice, index, commands, hal>>

PolicyState == [mPhoneState : PhoneStates, comm : ForComm, media : ForMedia,
                available : SUBSET Device]

RouteTo(device) == [do |-> "route", arg |-> device]
Voice(level) == [do |-> "voice", arg |-> level]
Fm(volume) == [do |-> "fm", arg |-> volume]

Command == [do : {"route"}, arg : SUBSET Device] \cup [do : {"voice"}, arg : 0..IndexMax]
           \cup [do : {"fm"}, arg : 0..100]

CurrentDevice == SndDevice \cup {NoDevice}

\* A level, and the current device that was looked at for it.
Level == [level : Nat, saw : CurrentDevice]
NoLevel == [level |-> 0, saw |-> NoDevice]        \* a voice level is not 0

\* Both volumes are the same request to the driver: for the device it is on,
\* in the place of the one before.
Sent == [by : {"voice", "fm", "none"}, dev : CurrentDevice, level : Nat, saw : CurrentDevice]
Sending(by, level) == [by |-> by, dev |-> sndDevice, level |-> level.level, saw |-> level.saw]

PolicyTypeOK ==
  /\ policy \in PolicyState
  /\ mDeviceForStrategy \in [Strategy -> SUBSET Device]
  /\ playing \in Strategy \cup {"none"}
  /\ mDevice \in SUBSET (Device \ A2dp)
  /\ index \in [voice : VoiceIndices, fm : FmVolumes]
  /\ commands \in Seq(Command)
  /\ mMode \in PhoneStates /\ mTtyMode \in TtyMode
  /\ mDevices \in SUBSET OutputBit
  /\ mCurSndDevice \in CurrentDevice /\ sndDevice \in CurrentDevice
  /\ vol \in Level
  /\ sent \in Sent

-----------------------------------------------------------------------------
(* getDeviceForStrategy(), not from the cache.                             *)

When(condition, devices) == IF condition THEN devices ELSE <<>>

InCall(p) == p.mPhoneState = "IN_CALL"

\* The first device of an order of priority that is available, or none.
First(p, order) ==
  {order[i] : i \in {k \in 1..Len(order) : /\ order[k] \in p.available
                                           /\ \A j \in 1..(k-1) : order[j] \notin p.available}}

\* Mutant: A2DP is tried in a call as well.
PhoneWithA2dp(p, strategy) ==
  LET carkit == When(~InCall(p) \/ strategy # "DTMF", <<"SCO_CARKIT">>)
  IN  First(p,
        IF p.comm = "SPEAKER"
        THEN carkit \o <<"A2DP_SPEAKER", "SPEAKER">>
        ELSE When(p.comm = "BT_SCO", carkit \o <<"SCO_HEADSET", "SCO">>)
             \o <<"WIRED_HEADPHONE", "WIRED_HEADSET", "A2DP", "A2DP_HEADPHONES">>
             \o When(p.mPhoneState = "RINGTONE", <<"SPEAKER">>) \o <<"EARPIECE">>)

\* PHONE, and DTMF in a call: first what is forced, then by priority.
Phone(p, strategy) ==
  LET carkit == When(~InCall(p) \/ strategy # "DTMF", <<"SCO_CARKIT">>)
  IN  First(p,
        IF p.comm = "SPEAKER"
        THEN carkit \o When(~InCall(p), <<"A2DP_SPEAKER">>) \o <<"SPEAKER">>
        ELSE When(p.comm = "BT_SCO", carkit \o <<"SCO_HEADSET", "SCO">>)
             \o <<"WIRED_HEADPHONE", "WIRED_HEADSET">>
             \o When(~InCall(p), <<"A2DP", "A2DP_HEADPHONES">>)
             \o When(p.mPhoneState = "RINGTONE", <<"SPEAKER">>) \o <<"EARPIECE">>)

\* AudioSystem::isA2dpDevice(): one bit, and of A2DP.
IsA2dpDevice(device) == \E d \in A2dp : device = {d}

\* MEDIA, given the cached device of PHONE: in a call only where it does not
\* change the route.  (mA2dpOutput is open when an A2DP device is available.)
Media(p, phone) ==
  LET device ==
        First(p, When(p.media = "SPEAKER", <<"SPEAKER">>)
                 \o <<"AUX_DIGITAL", "A2DP", "A2DP_HEADPHONES", "A2DP_SPEAKER",
                      "WIRED_HEADPHONE", "WIRED_HEADSET", "SPEAKER", "EARPIECE">>)
        \cup (p.available \cap {"FM"})
  IN  IF InCall(p) /\ ~IsA2dpDevice(device) /\ device # phone THEN {} ELSE device

getDeviceForStrategy(p, strategy, phone) ==
  CASE strategy = "PHONE"              -> Phone(p, "PHONE")
    [] strategy = "DTMF" /\ InCall(p)  -> Phone(p, "DTMF")
    [] strategy \in {"SONIFICATION", "MEDIA_SONIFICATION"} /\ InCall(p)
                                       -> Phone(p, "PHONE")
    [] strategy = "SONIFICATION" /\ ~InCall(p) -> First(p, <<"SPEAKER">>)
    [] OTHER                           -> Media(p, phone)

-----------------------------------------------------------------------------
(* checkAndSetVolume(), and the base class that calls it.                  *)

\* Mutant: the two voice streams are not told apart.
SetBothVolumes(p, stream, idx) ==
  CASE stream = "VOICE_CALL"    -> <<Voice(idx.voice)>>
    [] stream = "BLUETOOTH_SCO" -> <<Voice(IndexMax)>>
    [] stream = "FM"            -> <<Fm(idx.fm)>>

\* Mutant: the maximum under SCO is one too high.
ScoBeyondMaximum(p, stream, idx) ==
  CASE stream = "VOICE_CALL"    -> When(p.comm # "BT_SCO", <<Voice(idx.voice)>>)
    [] stream = "BLUETOOTH_SCO" -> When(p.comm = "BT_SCO", <<Voice(IndexMax + 1)>>)
    [] stream = "FM"            -> <<Fm(idx.fm)>>

\* The volume of a call is the user's, except with SCO, where the headset has
\* its own and gets the maximum.  (The gains of the software mixer are left out.)
checkAndSetVolume(p, stream, idx) ==
  CASE stream = "VOICE_CALL"    -> When(p.comm # "BT_SCO", <<Voice(idx.voice)>>)
    [] stream = "BLUETOOTH_SCO" -> When(p.comm = "BT_SCO", <<Voice(IndexMax)>>)
    [] stream = "FM"            -> <<Fm(idx.fm)>>

applyStreamVolumes(p) ==
  checkAndSetVolume(p, "VOICE_CALL", index) \o checkAndSetVolume(p, "BLUETOOTH_SCO", index)
  \o checkAndSetVolume(p, "FM", index)

\* The device the hardware output should have, {} for no change.
getNewDevice(p, strategy) ==
  IF InCall(p) THEN Phone(p, "PHONE")
  ELSE IF strategy = "none" THEN {}
  ELSE getDeviceForStrategy(p, strategy, {})

setOutputDevice(p, device, force, volumes) ==
  LET wanted == IF device \ A2dp = {} /\ force THEN mDevice ELSE device \ A2dp
      routes == wanted # {} /\ (force \/ wanted # mDevice)
  IN  /\ mDevice' = IF routes THEN wanted ELSE mDevice
      /\ commands' = commands \o When(routes, <<RouteTo(wanted)>>)
                     \o When(routes \/ volumes, applyStreamVolumes(p))

updateDeviceForStrategy(p) ==
  \E phone \in {mDeviceForStrategy["PHONE"], Phone(p, "PHONE")} :
    mDeviceForStrategy' = [s \in Strategy |-> getDeviceForStrategy(p, s, phone)]

\* The policy changed to p.
Changed(p, force, volumes) ==
  /\ policy' = p
  /\ updateDeviceForStrategy(p)
  /\ setOutputDevice(p, getNewDevice(p, playing), force, volumes)

-----------------------------------------------------------------------------

\* The output is opened on the speaker.
Init ==
  /\ policy = [mPhoneState |-> "NORMAL", comm |-> "NONE", media |-> "NONE",
               available |-> BuiltIn]
  /\ mDeviceForStrategy = [s \in Strategy |-> getDeviceForStrategy(policy, s, {})]
  /\ playing = "none"
  /\ mDevice = {"SPEAKER"}
  /\ index \in [voice : VoiceIndices, fm : FmVolumes]
  /\ commands = <<RouteTo({"SPEAKER"})>> \o applyStreamVolumes(policy)
  /\ mMode = "NORMAL" /\ mTtyMode = "OFF"
  /\ mDevices = {"SPEAKER"} /\ mCurSndDevice = NoDevice /\ sndDevice = NoDevice
  /\ vol = NoLevel
  /\ sent = [by |-> "none", dev |-> NoDevice, level |-> 0, saw |-> NoDevice]

Ready == Len(commands) <= MaxCommands

\* AudioPolicyService: setMode() of the hardware first, which forgets the
\* current device ...
SetMode ==
  /\ mMode = policy.mPhoneState
  /\ \E state \in PhoneStates \ {mMode} : mMode' = state
  /\ mCurSndDevice' = NoDevice
  /\ UNCHANGED <<policy, mDeviceForStrategy, playing, mDevice, index, commands,
                 mTtyMode, mDevices, sndDevice, vol, sent>>

\* ... then setPhoneState() of the policy.
SetPhoneState ==
  /\ Ready /\ mMode # policy.mPhoneState
  /\ Changed([policy EXCEPT !.mPhoneState = mMode],
             "IN_CALL" \in {mMode, policy.mPhoneState}, FALSE)
  /\ UNCHANGED <<playing, index, hal>>

SetForceUse ==
  /\ Ready
  /\ \/ \E use \in ForComm \ {policy.comm} : Changed([policy EXCEPT !.comm = use], FALSE, TRUE)
     \/ \E use \in ForMedia \ {policy.media} : Changed([policy EXCEPT !.media = use], FALSE, FALSE)
  /\ UNCHANGED <<playing, index, hal>>

SetDeviceConnectionState ==
  /\ Ready
  /\ \E d \in Pluggable :
       Changed([policy EXCEPT !.available = IF d \in @ THEN @ \ {d} ELSE @ \cup {d}],
               FALSE, FALSE)
  /\ UNCHANGED <<playing, index, hal>>

StartOutput ==
  /\ Ready /\ playing = "none"
  /\ playing' \in Playing
  /\ setOutputDevice(policy, getNewDevice(policy, playing'), FALSE, FALSE)
  /\ UNCHANGED <<policy, mDeviceForStrategy, index, hal>>

StopOutput ==
  /\ playing # "none"
  /\ playing' = "none"
  /\ UNCHANGED <<policy, mDeviceForStrategy, mDevice, index, commands, hal>>

SetStreamVolumeIndex ==
  /\ Ready
  /\ \/ \E v \in VoiceIndices \ {index.voice} :
          /\ index' = [index EXCEPT !.voice = v]
          /\ commands' = commands \o checkAndSetVolume(policy, "VOICE_CALL", index')
     \/ \E v \in FmVolumes \ {index.fm} :
          /\ index' = [index EXCEPT !.fm = v]
          /\ commands' = commands \o checkAndSetVolume(policy, "FM", index')
  /\ UNCHANGED <<policy, mDeviceForStrategy, playing, mDevice, hal>>

-----------------------------------------------------------------------------
(* AudioHardware, as far as routes and volumes go.                         *)

\* doRouting() with the second microphone and FM off.
DoRouting ==
  LET dev == OutputRoute(mDevices', FALSE, mTtyMode', mMode).dev
  IN  mCurSndDevice' = dev /\ sndDevice' = dev

\* In a call a new TTY mode is routed at once, outside it with the next route.
SetTtyMode ==
  /\ \E tty \in TtyModes \ {mTtyMode} : mTtyMode' = tty
  /\ UNCHANGED mDevices
  /\ IF mMode = "IN_CALL" THEN DoRouting ELSE UNCHANGED <<mCurSndDevice, sndDevice>>
  /\ UNCHANGED <<policy, mDeviceForStrategy, playing, mDevice, index, commands, mMode,
                 vol, sent>>

Executing(kind) ==
  /\ commands # <<>> /\ Head(commands).do = kind
  /\ commands' = Tail(commands)
  /\ UNCHANGED <<policy, mDeviceForStrategy, playing, mDevice, index, mMode, mTtyMode>>

\* setParameters() of the output stream.
ExecuteRoute ==
  /\ Executing("route")
  /\ mDevices' = Head(commands).arg \cap OutputBit
  /\ DoRouting
  /\ UNCHANGED <<vol, sent>>

TtyOwnsVolume(dev) == dev \in {"TTY_HEADSET", "TTY_VCO"}

\* lrint(v * 5.0) + 1, for v a number of fifths: 1..6.
VoiceLevel(v) == v + 1

\* setVoiceVolume() looks at the current device before it has the lock ...
VoiceLevelChosen ==
  /\ vol = NoLevel
  /\ commands # <<>> /\ Head(commands).do = "voice"
  /\ vol' = [saw |-> mCurSndDevice,
             level |-> IF TtyOwnsVolume(mCurSndDevice) THEN 1 ELSE VoiceLevel(Head(commands).arg)]
  /\ UNCHANGED <<policy, mDeviceForStrategy, playing, mDevice, index, commands,
                 mMode, mTtyMode, mDevices, mCurSndDevice, sndDevice, sent>>

\* ... and sends the level for the device the driver is on then.
setVoiceVolume ==
  /\ vol # NoLevel
  /\ Executing("voice")
  /\ sent' = Sending("voice", vol)
  /\ vol' = NoLevel
  /\ UNCHANGED <<mDevices, mCurSndDevice, sndDevice>>

\* In steps of 20 per cent, rounded up.
FmLevel(volume) == (volume + 19) \div 20

setFmVolume ==
  /\ Executing("fm")
  /\ sent' = Sending("fm", [level |-> FmLevel(Head(commands).arg), saw |-> NoDevice])
  /\ UNCHANGED <<mDevices, mCurSndDevice, sndDevice, vol>>

Next == \/ SetMode \/ SetPhoneState \/ SetForceUse \/ SetDeviceConnectionState
        \/ StartOutput \/ StopOutput \/ SetStreamVolumeIndex \/ SetTtyMode
        \/ ExecuteRoute \/ VoiceLevelChosen \/ setVoiceVolume \/ setFmVolume

Spec == Init /\ [][Next]_vars

-----------------------------------------------------------------------------
(* Properties.                                                             *)

Settled == commands = <<>> /\ mMode = policy.mPhoneState

\* A call always has a device: whatever is plugged, forced or playing, the
\* output is on one available device, never on A2DP.
CallHasDevice ==
  InCall(policy) => \E d \in policy.available \ A2dp : mDevice = {d}

\* What the policy decides arrives, through changes of device, forced use, mode
\* and TTY mode.  When the commands are done, the sound driver is on a device of
\* the output's route, for the TTY mode of the last route; and the last volume
\* went to such a device.  It is FM's, or the call's: then the level is 1 if
\* such a device with a TTY was seen for it, and else the user's, or the
\* maximum under SCO.  FM's is the user's in steps of 20 per cent, rounded up.
WantedLevel == IF policy.comm = "BT_SCO" THEN 6 ELSE index.voice + 1

CallFollowsPolicy ==
  (Settled /\ InCall(policy)) =>
    LET Reached(dev) == \E tty \in TtyMode : dev = OutputRoute(mDevice, FALSE, tty, "IN_CALL").dev
    IN  /\ Reached(sndDevice) /\ Reached(sent.dev)
        /\ \/ sent.by = "fm" /\ 20 * sent.level \in index.fm .. index.fm + 19
           \/ /\ sent.by = "voice" /\ Reached(sent.saw)
              /\ sent.level = IF TtyOwnsVolume(sent.saw) THEN 1 ELSE WantedLevel

\* "Force voice volume to max for bluetooth SCO": in a call on a SCO headset
\* the driver is left at the maximum.  The code does not keep this: the volume of
\* FM comes after it and replaces it.
ScoCallAtMaximum ==
  (Settled /\ InCall(policy) /\ policy.comm = "BT_SCO" /\ mDevice = {"SCO_HEADSET"})
    => sent.level = 6

\* "Do not play media stream if in call and the requested device would change
\* the hardware output routing".  The code does not keep this: MEDIA is compared
\* with the cached device of PHONE, which may be the one before.
MediaLeavesCallAlone ==
  LET media == mDeviceForStrategy["MEDIA"]
  IN  InCall(policy) =>
        media = {} \/ IsA2dpDevice(media) \/ media = mDeviceForStrategy["PHONE"]
=============================================================================
