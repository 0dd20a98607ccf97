--------------------------- MODULE AudioHardware ----------------------------
(***************************************************************************)
(* libaudio/AudioHardware.cpp: the threads of the media server that share  *)
(* the one AudioHardware object, and the sound device, post-processing and *)
(* pins they drive.                                                        *)
(*                                                                         *)
(*   Player       the mixer thread, owner of the output stream: write(),   *)
(*                standby() and the stream's setParameters()               *)
(*   Recorders    the record threads, one input stream each: read(),       *)
(*                standby() and the stream's setParameters()               *)
(*   Controllers  binder threads: setMode(), setMicMute(), setParameters() *)
(*                                                                         *)
(* doRouting() and setMicMute() hold mLock; everything else, clearCurDevice*)
(* and the post-processing calls of the streams included, runs without it. *)
(* A thread's pc names the point it has reached inside a call, "idle"      *)
(* between calls.  A step reaches from one access of shared state to the   *)
(* next, except that doAudioRouteOrMute() is one step, as is a call of     *)
(* msm72xx_enable_preproc().                                               *)
(***************************************************************************)
EXTENDS Naturals, SndRouting

CONSTANTS
  Player, Recorders, Controllers, NoThread,
  OutRoutes,      \* output routes the policy manager may ask for
  InRoutes,       \* input routes it may ask for
  ModeValues,     \* phone modes setMode() is called with
  KeySets,        \* the keys of one setParameters() string
  DriversMayFail  \* may opens and ioctls of the drivers fail?

Key == {"bt_name", "dualmic", "tty_mode", "fm_on", "fm_off"}

ASSUME ThreadAssumption ==
  /\ Player \notin Recorders \cup Controllers
  /\ Recorders \cap Controllers = {}
  /\ NoThread \notin {Player} \cup Recorders \cup Controllers

ASSUME InputAssumption ==
  /\ OutRoutes \subseteq SUBSET OutputBit
  /\ InRoutes \subseteq InputBit \cup {"none"}
  /\ ModeValues \subseteq Mode
  /\ KeySets \subseteq SUBSET Key
  /\ DriversMayFail \in BOOLEAN

Threads == {Player} \cup Recorders \cup Controllers

VARIABLES
  mLock,                \* holder of AudioHardware::mLock, or NoThread
  mMode, mMicMute, mTtyMode, mDualMicEnabled, mBuiltinMicSelected,
  mFmRadioEnabled, mFmPrev,
  fmSession,            \* fmfd >= 0: the audmgr session of /dev/msm_fm
  mCurSndDevice,
  playback_in_progress, post_proc_feature_mask,
  pp,                   \* per thread: locals of msm72xx_enable_postproc()
  overtaken,            \* history: the features write() works out are out of date
  mDevices,             \* output stream: the routed DEVICE_OUT bits
  mStandby, mStartCount,\* output stream; mFd >= 0 exactly when ~mStandby
  inDevices, inState, inFd,   \* the same of each recorder's input stream
  dsp,                  \* what the SND driver was last told to do
  audpp, audpre,        \* features on in the two processing blocks
  pins,                 \* which side of the BT/FM pins is active
  pc, caller, want, todo,     \* per thread: point in the call, and locals
  routeStatus           \* status of the last route doRouting() sent

mics   == <<mMicMute, mBuiltinMicSelected>>
proc   == <<playback_in_progress, post_proc_feature_mask, audpp, pp, overtaken>>
flags  == <<mMode, mTtyMode, mDualMicEnabled, mFmRadioEnabled, fmSession>>
output == <<mDevices, mStandby, mStartCount>>
input  == <<inDevices, inState, inFd, audpre>>
locals == <<caller, want, todo>>
routed == <<mFmPrev, dsp, pins, routeStatus>>
vars == <<mLock, mCurSndDevice, pc, mics, proc, flags, output, input, locals, routed>>

-----------------------------------------------------------------------------
(* Points of a call.  A thread at a CallPoint is about to enter doRouting; *)
(* Resume says where it continues.                                         *)

CallPoint == {"out_params", "out_route", "rec_route", "in_params",
              "stb_route", "sp_name", "sp_dualmic", "sp_final"}

Resume == [out_params |-> "out_route",     out_route  |-> "idle",
           rec_route  |-> "rec_start",     in_params  |-> "idle",
           stb_route  |-> "idle",          sp_name    |-> "params",
           sp_dualmic |-> "params",        sp_final   |-> "idle"]

LockedPoint == {"dr_compare", "dr_off", "pp_off", "dr_save", "dr_mask", "dr_on", "pp_on"}

\* Calls of msm72xx_enable_postproc(): two of doRouting(), under its lock, two
\* of write() and one of standby().
PostProcPoint == {"pp_off", "pp_on", "wr_on", "wr_off", "stb_off"}

Point == CallPoint \cup LockedPoint \cup PostProcPoint \cup
         {"idle", "write", "stb_close", "rec_start", "in_standby",
          "mode_clear", "params"}

NoRoute == Route("HANDSET", {})     \* what the local holds between calls

\* How far msm72xx_enable_postproc() has got, the device it has read, and the
\* features it is going to switch on.
PostProcType == [read : {"nothing", "device", "mask"},
                 dev : PostProcDevice \cup {NoDevice}, features : SUBSET Feature]

NotRead == [read |-> "nothing", dev |-> NoDevice, features |-> {}]

MicsType == mMicMute \in BOOLEAN /\ mBuiltinMicSelected \in BOOLEAN

ProcType == /\ playback_in_progress \in BOOLEAN
            /\ post_proc_feature_mask \in SUBSET Feature
            /\ audpp \in SUBSET Feature
            /\ pp \in [Threads -> PostProcType]
            /\ overtaken \in BOOLEAN

FlagsType == /\ mMode \in Mode /\ mTtyMode \in TtyMode
             /\ mDualMicEnabled \in BOOLEAN
             /\ mFmRadioEnabled \in BOOLEAN /\ fmSession \in BOOLEAN

OutputType == /\ mDevices \in SUBSET OutputBit
              /\ mStandby \in BOOLEAN /\ mStartCount \in 0..2

InputType == /\ inDevices \in [Recorders -> InputBit \cup {"none"}]
             /\ inState \in [Recorders -> {"CLOSED", "OPENED", "STARTED"}]
             /\ inFd \in [Recorders -> BOOLEAN]
             /\ audpre \in BOOLEAN

LocalsType == /\ caller \in [Threads -> CallPoint]
              /\ want \in [Threads -> RouteType]
              /\ todo \in [Controllers -> SUBSET Key]

DspType == [dev : SndDevice \cup {NoDevice}, ear : BOOLEAN, mic : BOOLEAN]

RoutedType == /\ mFmPrev \in BOOLEAN
              /\ dsp \in DspType
              /\ pins \in {"FM", "BTSCO", "MIXED"}
              /\ routeStatus \in {"ok", "eio"}

TypeOK ==
  /\ mLock \in Threads \cup {NoThread}
  /\ mCurSndDevice \in SndDevice \cup {NoDevice}
  /\ pc \in [Threads -> Point]
  /\ MicsType /\ ProcType /\ FlagsType /\ OutputType
  /\ InputType /\ LocalsType /\ RoutedType

\* AudioHardware() and openOutputStream(): the policy manager opens the
\* output on the speaker; no device is current until the first route.
Init ==
  /\ mLock = NoThread
  /\ mMode = "NORMAL" /\ mTtyMode = "OFF"
  /\ mMicMute = TRUE /\ mDualMicEnabled = FALSE
  /\ mBuiltinMicSelected = FALSE
  /\ mFmRadioEnabled = FALSE /\ mFmPrev = FALSE /\ fmSession = FALSE
  /\ mCurSndDevice = NoDevice
  /\ playback_in_progress = FALSE /\ post_proc_feature_mask = Feature
  /\ mDevices = {"SPEAKER"} /\ mStandby = TRUE /\ mStartCount = 0
  /\ inDevices = [r \in Recorders |-> "none"]
  /\ inState = [r \in Recorders |-> "CLOSED"]
  /\ inFd = [r \in Recorders |-> FALSE]
  /\ dsp = [dev |-> NoDevice, ear |-> TRUE, mic |-> TRUE]
  /\ audpp = {} /\ audpre = FALSE
  /\ pp = [t \in Threads |-> NotRead] /\ overtaken = FALSE
  /\ pins = "BTSCO"
  /\ pc = [t \in Threads |-> "idle"]
  /\ caller = [t \in Threads |-> "sp_final"]
  /\ want = [t \in Threads |-> NoRoute]
  /\ todo = [c \in Controllers |-> {}]
  /\ routeStatus = "ok"

At(t, point) == pc[t] = point
Goto(t, point) == pc' = [pc EXCEPT ![t] = point]

-----------------------------------------------------------------------------
(* do_route_audio_rpc(): with the mic unmuted the device is first set with *)
(* the mic muted, so a failure may come before or after that first ioctl.  *)
(* "same" stands for SND_DEVICE_CURRENT, which moves no audio and needs    *)
(* one ioctl only.                                                         *)

Outcome(s, d) == [status |-> s, dsp |-> d]

RpcOutcomes(dev, ear, mic) ==
  LET target == IF dev = "same" THEN dsp.dev ELSE dev
      sent(m) == [dev |-> target, ear |-> ear, mic |-> m]
      mutedFirst == dev # "same" /\ ~mic
  IN  {Outcome("ok", sent(mic))} \cup
      {o \in {Outcome("eio", dsp)} : DriversMayFail} \cup
      {o \in {Outcome("eio", sent(TRUE))} : DriversMayFail /\ mutedFirst}

\* The registers of both sides are written one by one up to the first that
\* fails, and no caller looks at the result.
PinsAfter(side) ==
  {side} \cup {p \in {pins, "MIXED"} : DriversMayFail /\ pins # side}

\* Mutant: the pins are never given back.
PinSwitchToFmOnly(dev) ==
  IF mFmRadioEnabled /\ dev \in FmDevice /\ dev # mCurSndDevice THEN PinsAfter("FM")
  ELSE {pins}

\* run_btfm_pin_switch(): to FM after the RPC when the device is a new FM
\* device, back to BT when an FM device is left for another one.
PinSwitch(dev) ==
  IF mFmRadioEnabled /\ dev \in FmDevice /\ dev # mCurSndDevice THEN PinsAfter("FM")
  ELSE IF ~mFmRadioEnabled /\ mCurSndDevice \in FmDevice /\ dev \notin FmDevice
       THEN PinsAfter("BTSCO")
  ELSE {pins}

\* Mutant: the mutes are computed from the FM state of the previous route.
StaleRouteOutcomes(dev, mic) ==
  RpcOutcomes(dev, EarMute(dev, mMode, mBuiltinMicSelected, mFmPrev),
              MicMute(mic, mFmPrev))

\* doAudioRouteOrMute(dev), up to and including its RPC, for a caller that
\* holds mLock and sees `mic` in mMicMute.
RouteOutcomes(dev, mic) ==
  RpcOutcomes(dev, EarMute(dev, mMode, mBuiltinMicSelected, mFmRadioEnabled),
              MicMute(mic, mFmRadioEnabled))

-----------------------------------------------------------------------------
(* msm72xx_enable_preproc(): a failure leaves the processing block as it   *)
(* was, and no caller looks at the result.                                 *)

PreProcOutcomes(state) == {state} \cup {old \in {audpre} : DriversMayFail}

-----------------------------------------------------------------------------
(* doRouting(input), from the lock to the return.                          *)

\* The stream passed as `input`, if this call passes one.
CallsWithInput(t) == At(t, "rec_route") \/ At(t, "in_params")

SelectedRoute(t) ==
  LET base ==
        IF CallsWithInput(t) /\ inDevices[t] # "none"
        THEN InputRoute(inDevices[t], mDevices)
        ELSE OutputRoute(mDevices, mFmRadioEnabled, mTtyMode, mMode)
  IN  DualMicRoute(base, mDualMicEnabled, mMode)

\* Mutant: doRouting() without its Autolock.
ForgetLock(t) == UNCHANGED mLock

TakeLock(t) == mLock' = t

\* A recording of the call itself returns before anything is selected.
Select(t) ==
  /\ pc[t] \in CallPoint /\ mLock = NoThread
  /\ mBuiltinMicSelected' = IF CallsWithInput(t)
                            THEN inDevices[t] = "BUILTIN_MIC"
                            ELSE mBuiltinMicSelected
  /\ IF CallsWithInput(t) /\ inDevices[t] = "VOICE_CALL"
     THEN /\ Goto(t, Resume[pc[t]])
          /\ UNCHANGED <<mLock, caller, want>>
     ELSE /\ TakeLock(t)
          /\ caller' = [caller EXCEPT ![t] = pc[t]]
          /\ want' = [want EXCEPT ![t] = SelectedRoute(t)]
          /\ Goto(t, "dr_compare")
  /\ UNCHANGED <<mCurSndDevice, mMicMute, todo, proc, flags, output, input,
                 routed>>

\* Mutant: returns with the lock held.
ReturnLocked(t) ==
  /\ Goto(t, Resume[caller[t]])
  /\ caller' = [caller EXCEPT ![t] = "sp_final"]
  /\ want' = [want EXCEPT ![t] = NoRoute]
  /\ UNCHANGED <<mLock, todo>>

\* Unlocks and returns; the locals die.
Return(t) ==
  /\ mLock' = NoThread
  /\ Goto(t, Resume[caller[t]])
  /\ caller' = [caller EXCEPT ![t] = "sp_final"]
  /\ want' = [want EXCEPT ![t] = NoRoute]
  /\ UNCHANGED todo

RouteIsNew(t) == want[t].dev # mCurSndDevice \/ mFmRadioEnabled # mFmPrev

Skip(t) ==
  /\ At(t, "dr_compare") /\ ~RouteIsNew(t)
  /\ Return(t)
  /\ UNCHANGED <<mCurSndDevice, mics, proc, flags, output, input, routed>>

SendRoute(t) ==
  /\ At(t, "dr_compare") /\ RouteIsNew(t)
  /\ mFmPrev' = mFmRadioEnabled
  /\ pins' \in PinSwitch(want[t].dev)
  /\ \E outcome \in RouteOutcomes(want[t].dev, mMicMute) :
       dsp' = outcome.dsp /\ routeStatus' = outcome.status
  /\ Goto(t, "dr_off")
  /\ UNCHANGED <<mLock, mCurSndDevice, mics, proc, flags, output, input,
                 locals>>

\* "disable post proc first for previous session": the current device is
\* still the previous one.
DisableOld(t) ==
  /\ At(t, "dr_off")
  /\ Goto(t, IF playback_in_progress THEN "pp_off" ELSE "dr_save")
  /\ UNCHANGED <<mLock, mCurSndDevice, mics, proc, flags, output, input,
                 locals, routed>>

\* The device is saved whether or not the RPC succeeded.
SaveDevice(t) ==
  /\ At(t, "dr_save")
  /\ mCurSndDevice' = want[t].dev
  /\ overtaken' = (overtaken \/ (At(Player, "wr_on") /\ pp[Player].read # "nothing"))
  /\ Goto(t, "dr_mask")
  /\ UNCHANGED <<mLock, playback_in_progress, post_proc_feature_mask, audpp,
                 pp, mics, flags, output, input, locals, routed>>

SaveMask(t) ==
  /\ At(t, "dr_mask")
  /\ post_proc_feature_mask' = want[t].mask
  /\ overtaken' = (overtaken \/ (At(Player, "wr_on") /\ pp[Player].read = "mask"))
  /\ Goto(t, "dr_on")
  /\ UNCHANGED <<mLock, mCurSndDevice, playback_in_progress, audpp, pp, mics,
                 flags, output, input, locals, routed>>

\* Mutant: the new device's features are never enabled.
ForgetNew(t) ==
  /\ At(t, "dr_on")
  /\ Return(t)
  /\ UNCHANGED <<mCurSndDevice, mics, proc, flags, output, input, routed>>

EnableNew(t) ==
  /\ At(t, "dr_on")
  /\ IF playback_in_progress
     THEN Goto(t, "pp_on") /\ UNCHANGED <<mLock, locals>>
     ELSE Return(t)
  /\ UNCHANGED <<mCurSndDevice, mics, proc, flags, output, input, routed>>

DoRouting(t) ==
  \/ Select(t) \/ Skip(t) \/ SendRoute(t) \/ DisableOld(t)
  \/ SaveDevice(t) \/ SaveMask(t) \/ EnableNew(t)

-----------------------------------------------------------------------------
(* msm72xx_enable_postproc(state), at a PostProcPoint, with the lock or    *)
(* without it.  The tests of the current device make no call in between,   *)
(* nor do those of the feature mask, and the build reads each of the two   *)
(* once; the open() of the control device and the ioctls that hand over    *)
(* the filters lie between the two reads and the final AUDIO_ENABLE_AUDPP. *)

Enabling(t) == At(t, "pp_on") \/ At(t, "wr_on")

PostProcReturn(t) ==
  IF At(t, "pp_on") THEN Return(t)
  ELSE /\ Goto(t, CASE At(t, "pp_off")  -> "dr_save"
                   [] At(t, "stb_off") -> "stb_close"
                   [] OTHER            -> "idle")
       /\ UNCHANGED <<mLock, locals>>

\* No filters are known for another device, and none is a device too.
PostProcGiveUp(t) ==
  /\ pc[t] \in PostProcPoint /\ pp[t].read = "nothing"
  /\ mCurSndDevice \notin PostProcDevice \/ DriversMayFail
  /\ PostProcReturn(t)
  /\ UNCHANGED <<mCurSndDevice, mics, proc, flags, output, input, routed>>

PostProcReadDevice(t) ==
  /\ pc[t] \in PostProcPoint /\ pp[t].read = "nothing"
  /\ mCurSndDevice \in PostProcDevice
  /\ pp' = [pp EXCEPT ![t] = [NotRead EXCEPT !.read = "device", !.dev = mCurSndDevice]]
  /\ overtaken' = (overtaken /\ ~At(t, "wr_on"))
  /\ UNCHANGED <<mLock, mCurSndDevice, pc, playback_in_progress,
                 post_proc_feature_mask, audpp, mics, flags, output, input,
                 locals, routed>>

PostProcReadMask(t) ==
  /\ Enabling(t) /\ pp[t].read = "device"
  /\ pp' = [pp EXCEPT ![t].read = "mask",
                      ![t].features = EnableMask(pp[t].dev, post_proc_feature_mask)]
  /\ UNCHANGED <<mLock, mCurSndDevice, pc, playback_in_progress,
                 post_proc_feature_mask, audpp, overtaken, mics, flags, output,
                 input, locals, routed>>

\* The ioctl; a failure of this one or of an earlier one changes nothing.
PostProcSwitch(t) ==
  /\ pc[t] \in PostProcPoint
  /\ pp[t].read = IF Enabling(t) THEN "mask" ELSE "device"
  /\ audpp' \in {pp[t].features} \cup {old \in {audpp} : DriversMayFail}
  /\ overtaken' = (overtaken /\ (t = Player \/ At(Player, "wr_on")))
  /\ pp' = [pp EXCEPT ![t] = NotRead]
  /\ PostProcReturn(t)
  /\ UNCHANGED <<mCurSndDevice, playback_in_progress, post_proc_feature_mask,
                 mics, flags, output, input, routed>>

EnablePostProc(t) ==
  PostProcGiveUp(t) \/ PostProcReadDevice(t) \/ PostProcReadMask(t) \/ PostProcSwitch(t)

-----------------------------------------------------------------------------
(* The output stream.                                                      *)

\* Mutant: counts down without looking at the count.
AlwaysFilling == TRUE

\* A write() of a stream that plays changes nothing.
Filling == mStandby \/ mStartCount > 0

\* AUDIO_HW_NUM_OUT_BUF: "fill 2 buffers before AUDIO_START"
BuffersToStart == 2

\* write(): opens and configures the driver when in standby, queues the
\* buffer, and starts the DSP once two buffers are queued.  An open or a
\* configuration that fails leaves no trace; a ::write() that fails returns
\* with the driver open and the count as it was.
WriteFill ==
  /\ At(Player, "idle") /\ Filling
  /\ LET queued == IF mStandby THEN BuffersToStart ELSE mStartCount
     IN  \/ /\ mStartCount' = queued - 1
            /\ Goto(Player, IF queued = 1 THEN "write" ELSE "idle")
         \/ /\ DriversMayFail
            /\ mStartCount' = queued
            /\ UNCHANGED pc
  /\ mStandby' = FALSE
  /\ UNCHANGED <<mLock, mCurSndDevice, mDevices, mics, proc, flags, input,
                 locals, routed>>

\* The flag, and then msm72xx_enable_postproc() without the lock.
WriteStart ==
  /\ At(Player, "write")
  /\ \/ /\ playback_in_progress' = TRUE
        /\ Goto(Player, "wr_on")
        /\ UNCHANGED mStandby
     \/ /\ DriversMayFail               \* AUDIO_START failed
        /\ playback_in_progress' = FALSE
        /\ mStandby' = TRUE
        /\ Goto(Player, "wr_off")
  /\ UNCHANGED <<mLock, mCurSndDevice, post_proc_feature_mask, audpp, pp,
                 overtaken, mDevices, mStartCount, mics, flags, input, locals,
                 routed>>

\* standby(): post-processing off first, then the flag and the driver.
OutStandby ==
  /\ At(Player, "idle") /\ ~mStandby
  /\ Goto(Player, "stb_off")
  /\ UNCHANGED <<mLock, mCurSndDevice, mics, proc, flags, output, input,
                 locals, routed>>

OutStandbyClose ==
  /\ At(Player, "stb_close")
  /\ playback_in_progress' = FALSE
  /\ mStandby' = TRUE
  /\ Goto(Player, "idle")
  /\ UNCHANGED <<mLock, mCurSndDevice, post_proc_feature_mask, audpp, pp,
                 overtaken, mDevices, mStartCount, mics, flags, input, locals,
                 routed>>

\* setParameters("routing=..."): the hardware's setParameters() is handed the
\* same string and routes; then the stream routes once more.
OutSetRouting ==
  /\ At(Player, "idle")
  /\ mDevices' \in OutRoutes
  /\ Goto(Player, "out_params")
  /\ UNCHANGED <<mLock, mCurSndDevice, mStandby, mStartCount, mics, proc,
                 flags, input, locals, routed>>

Play == WriteFill \/ WriteStart \/ OutStandby \/ OutStandbyClose \/ OutSetRouting
        \/ EnablePostProc(Player) \/ DoRouting(Player)

-----------------------------------------------------------------------------
(* An input stream.                                                        *)

\* read() on a closed stream: set(), all of it under mLock.  A sample rate
\* without a pre-processing entry is refused after mState is OPENED, with
\* the driver closed again.
ReadOpen(r) ==
  /\ At(r, "idle") /\ inState[r] = "CLOSED" /\ mLock = NoThread
  /\ inState' = [inState EXCEPT ![r] = "OPENED"]
  /\ \E ok \in {TRUE, ~DriversMayFail} : inFd' = [inFd EXCEPT ![r] = ok]
  /\ UNCHANGED <<mLock, mCurSndDevice, pc, inDevices, audpre, mics, proc,
                 flags, output, locals, routed>>

\* read() on an opened stream: "force routing to input device".
ReadForceRoute(r) ==
  /\ At(r, "idle") /\ inState[r] = "OPENED"
  /\ inState' = [inState EXCEPT ![r] = "STARTED"]
  /\ mCurSndDevice' = NoDevice
  /\ Goto(r, "rec_route")
  /\ UNCHANGED <<mLock, inDevices, inFd, audpre, mics, proc, flags, output,
                 locals, routed>>

ReadStart(r) ==
  /\ At(r, "rec_start")
  /\ \/ /\ inFd[r]
        /\ audpre' \in PreProcOutcomes(TRUE)
        /\ Goto(r, "idle")
     \/ /\ DriversMayFail                \* AUDIO_START failed
        /\ Goto(r, "in_standby")
        /\ UNCHANGED audpre
  /\ UNCHANGED <<mLock, mCurSndDevice, inDevices, inState, inFd, mics, proc,
                 flags, output, locals, routed>>

\* standby(): closes the driver, then restores the output routing.
InStandby(r) ==
  /\ At(r, "idle") \/ At(r, "in_standby")
  /\ audpre' \in IF inState[r] = "CLOSED" THEN {audpre} ELSE PreProcOutcomes(FALSE)
  /\ inState' = [inState EXCEPT ![r] = "CLOSED"]
  /\ inFd' = [inFd EXCEPT ![r] = FALSE]
  /\ mCurSndDevice' = NoDevice
  /\ Goto(r, "stb_route")
  /\ UNCHANGED <<mLock, inDevices, mics, proc, flags, output, locals, routed>>

\* setParameters("routing=...") of one device; a combination is refused.
InSetRouting(r) ==
  /\ At(r, "idle")
  /\ \E d \in InRoutes : inDevices' = [inDevices EXCEPT ![r] = d]
  /\ Goto(r, "in_params")
  /\ UNCHANGED <<mLock, mCurSndDevice, inState, inFd, audpre, mics, proc,
                 flags, output, locals, routed>>

Record(r) == ReadOpen(r) \/ ReadForceRoute(r) \/ ReadStart(r) \/ InStandby(r)
             \/ InSetRouting(r) \/ DoRouting(r) \/ EnablePostProc(r)

-----------------------------------------------------------------------------
(* Calls on the hardware object.                                           *)

\* setMode(): the base class refuses the mode it already has; then, without
\* the lock, clearCurDevice().
SetMode(c) ==
  /\ At(c, "idle")
  /\ mMode' \in ModeValues \ {mMode}
  /\ Goto(c, "mode_clear")
  /\ UNCHANGED <<mLock, mCurSndDevice, mTtyMode, mDualMicEnabled,
                 mFmRadioEnabled, fmSession, mics, proc, output, input,
                 locals, routed>>

ModeClear(c) ==
  /\ At(c, "mode_clear")
  /\ mCurSndDevice' = NoDevice
  /\ Goto(c, "idle")
  /\ UNCHANGED <<mLock, mics, proc, flags, output, input, locals, routed>>

\* setMicMute(): under the lock; a change is sent to the current device.
SetMicMute(c) ==
  /\ At(c, "idle") /\ mLock = NoThread
  /\ mMicMute' = ~mMicMute
  /\ mFmPrev' = mFmRadioEnabled
  /\ pins' \in PinSwitch("same")
  /\ \E outcome \in RouteOutcomes("same", ~mMicMute) : dsp' = outcome.dsp
  /\ UNCHANGED <<mLock, mCurSndDevice, pc, mBuiltinMicSelected, routeStatus,
                 proc, flags, output, input, locals>>

\* setParameters(): the keys of the string are handled in this order, and
\* `todo` holds those that are left.
SetParameters(c) ==
  /\ At(c, "idle")
  /\ \E keys \in KeySets : todo' = [todo EXCEPT ![c] = keys]
  /\ Goto(c, "params")
  /\ UNCHANGED <<mLock, mCurSndDevice, caller, want, mics, proc, flags,
                 output, input, routed>>

Handle(c, key, before) ==
  /\ At(c, "params") /\ key \in todo[c] /\ todo[c] \cap before = {}
  /\ todo' = [todo EXCEPT ![c] = @ \ {key}]

\* A Bluetooth headset that is not in the acoustic database.
SetBtName(c) ==
  /\ Handle(c, "bt_name", {})
  /\ Goto(c, "sp_name")
  /\ UNCHANGED flags

SetDualMic(c) ==
  /\ Handle(c, "dualmic", {"bt_name"})
  /\ mDualMicEnabled' \in BOOLEAN
  /\ Goto(c, "sp_dualmic")
  /\ UNCHANGED <<mMode, mTtyMode, mFmRadioEnabled, fmSession>>

\* Outside a call the TTY mode is stored and the rest of the string dropped.
SetTtyMode(c) ==
  /\ Handle(c, "tty_mode", {"bt_name", "dualmic"})
  /\ mTtyMode' \in TtyMode
  /\ Goto(c, IF mMode = "IN_CALL" THEN "params" ELSE "idle")
  /\ UNCHANGED <<mMode, mDualMicEnabled, mFmRadioEnabled, fmSession>>

\* setFmOnOff(true): the session may fail to open, the flag is set anyway.
SetFmOn(c) ==
  /\ Handle(c, "fm_on", {"bt_name", "dualmic", "tty_mode"})
  /\ mFmRadioEnabled' = TRUE
  /\ fmSession' \in {TRUE} \cup {s \in {fmSession} : DriversMayFail}
  /\ Goto(c, "params")
  /\ UNCHANGED <<mMode, mTtyMode, mDualMicEnabled>>

SetFmOff(c) ==
  /\ Handle(c, "fm_off", {"bt_name", "dualmic", "tty_mode", "fm_on"})
  /\ mFmRadioEnabled' = FALSE
  /\ fmSession' = FALSE
  /\ Goto(c, "params")
  /\ UNCHANGED <<mMode, mTtyMode, mDualMicEnabled>>

\* Mutant: the last doRouting() of setParameters() is forgotten.
NoRouteAtEnd(c) ==
  /\ At(c, "params") /\ todo[c] = {}
  /\ Goto(c, "idle")
  /\ UNCHANGED <<todo, flags>>

RouteAtEnd(c) ==
  /\ At(c, "params") /\ todo[c] = {}
  /\ Goto(c, "sp_final")
  /\ UNCHANGED <<todo, flags>>

HandleKeys(c) ==
  /\ \/ SetBtName(c) \/ SetDualMic(c) \/ SetTtyMode(c)
     \/ SetFmOn(c) \/ SetFmOff(c) \/ RouteAtEnd(c)
  /\ UNCHANGED <<mLock, mCurSndDevice, caller, want, mics, proc, output,
                 input, routed>>

Control(c) == SetMode(c) \/ ModeClear(c) \/ SetMicMute(c) \/ SetParameters(c)
              \/ HandleKeys(c) \/ DoRouting(c) \/ EnablePostProc(c)

-----------------------------------------------------------------------------

Next == Play \/ (\E r \in Recorders : Record(r)) \/ (\E c \in Controllers : Control(c))

Spec == Init /\ [][Next]_vars

ThreadStep(t) == \/ t = Player /\ Play
                 \/ t \in Recorders /\ Record(t)
                 \/ t \in Controllers /\ Control(t)

\* A thread inside a call runs on; a mutex that is released again and again is
\* granted at some time to each thread that waits for it.  Nobody has to call.
Fairness == \A t \in Threads : /\ WF_vars(~At(t, "idle") /\ ThreadStep(t))
                               /\ SF_vars(Select(t))

FairSpec == Spec /\ Fairness

-----------------------------------------------------------------------------
(* Properties.                                                             *)

\* No thread is inside a call.
AllIdle == \A t \in Threads : At(t, "idle")

\* mCurSndDevice caches what the driver was told: whenever no doRouting() is
\* between its RPC and its save, the current device, if there is one, is the
\* device the DSP routes to - unless the last route's RPC failed, for
\* doRouting() saves the device regardless.  clearCurDevice() runs at any time
\* and without the lock, and may only empty the cache, never falsify it.
CacheCoherent ==
  (/\ mCurSndDevice # NoDevice
   /\ routeStatus = "ok"
   /\ \A t \in Threads : pc[t] \notin {"dr_off", "pp_off", "dr_save"})
  => dsp.dev = mCurSndDevice

\* From the RPC to the save, the device that doRouting() is about to save is as
\* good as known.
MidRoute == {t \in Threads : pc[t] \in {"dr_off", "pp_off", "dr_save"}}

KnownDevice ==
  IF MidRoute = {} THEN mCurSndDevice ELSE want[CHOOSE t \in MidRoute : TRUE].dev

Cache == INSTANCE RouteCache
           WITH Device <- SndDevice, told <- dsp.dev, known <- KnownDevice,
                sound <- (routeStatus = "ok")

\* doRouting() behaves as if it told the driver and remembered the device in one
\* step, although its RPC and its save are apart and the current device is
\* cleared in between without the lock: every step of every thread is a route,
\* a failed route, a clearing of the memory or nothing at all.
RoutesAtomically == Cache!Spec

\* The device the output stream and the flags call for.
WantedOutput ==
  DualMicRoute(OutputRoute(mDevices, mFmRadioEnabled, mTtyMode, mMode),
               mDualMicEnabled, mMode).dev

\* Concurrent route requests converge: mDevices and the flags are written
\* without the lock, by several threads, yet once every call has returned and
\* no recording is left, the current device (if not cleared) is the one they
\* call for - no request is overtaken by a doRouting() that read older values.
RouteFollowsState ==
  (/\ AllIdle /\ mCurSndDevice # NoDevice
   /\ \A r \in Recorders : inState[r] = "CLOSED" /\ inDevices[r] = "none")
  => mCurSndDevice = WantedOutput

\* setMode() clears the current device to "make sure that doAudioRouteOrMute()
\* is called by doRouting() even if the new device selected is the same": once
\* every call has returned and a device is current, the mutes in force at the
\* DSP are those of the present mode, FM state and mic mute.
MutesFollowState ==
  (AllIdle /\ mCurSndDevice # NoDevice /\ routeStatus = "ok")
  => /\ dsp.ear = EarMute(mCurSndDevice, mMode, mBuiltinMicSelected, mFmRadioEnabled)
     /\ dsp.mic = MicMute(mMicMute, mFmRadioEnabled)

\* "Exactly one side is active": the shared BT/FM pins belong to FM exactly while
\* an FM device is current.
PinsFollowDevice ==
  (AllIdle /\ mCurSndDevice # NoDevice)
  => (pins = "FM" <=> mCurSndDevice \in FmDevice)

\* "Enable post proc for new device": while the output plays, the features on in
\* the DSP are those of the current device and mask.  The code does not keep this
\* where a route overtakes write().
ProcessingMatchesDevice ==
  (AllIdle /\ playback_in_progress /\ mCurSndDevice \in PostProcDevice)
  => audpp = EnableMask(mCurSndDevice, post_proc_feature_mask)

\* The one way to lose the features of the current device is a write() that
\* starts the playback and is overtaken: a route saves another device or mask
\* after write() has read it and before its ioctl, without the lock.  Every other
\* order of starts, stops, routes and clearings leaves the right features on.
OnlyWriteIsOvertaken == ~overtaken => ProcessingMatchesDevice

\* Every call returns: no path of doRouting() keeps mLock, and no two threads
\* wait for each other.
CallsReturn == \A t \in Threads : ~At(t, "idle") ~> At(t, "idle")
=============================================================================
