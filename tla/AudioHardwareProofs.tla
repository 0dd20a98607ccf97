------------------------ MODULE AudioHardwareProofs -------------------------
(***************************************************************************)
(* Proofs about AudioHardware for every set of threads, every set of       *)
(* routes, modes and keys, every filter table and any number of driver     *)
(* failures.                                                               *)
(*                                                                         *)
(* The invariant is the conjunction of three parts: the types; the lock    *)
(* discipline, that mLock names the one thread inside a locked section;    *)
(* and the coherence of mCurSndDevice, which needs to know in addition what*)
(* the driver was told while a doRouting() is between its RPC and its save.*)
(***************************************************************************)
EXTENDS AudioHardware, TLAPS

\* The mutex admits one thread, and the holder is where its pc says.
LockInv == \A t \in Threads : mLock = t <=> pc[t] \in LockedPoint

\* The only step that falsifies the cache is followed by the one that repairs
\* it: in between, the driver already has the device that will be saved.
Unsaved == {"dr_off", "pp_off", "dr_save"}

PendingInv ==
  \A t \in Threads :
    (pc[t] \in Unsaved /\ routeStatus = "ok") => dsp.dev = want[t].dev

CoherentInv == PendingInv /\ CacheCoherent

IInv == TypeOK /\ LockInv /\ CoherentInv

\* At most one thread is between the lock and the return of doRouting().
OneRouter ==
  \A t, u \in Threads :
    (pc[t] \in LockedPoint /\ pc[u] \in LockedPoint) => t = u

-----------------------------------------------------------------------------
(* What the routing operators return.                                      *)

\* An output route is a route, whatever the outputs and flags are.
LEMMA OutputRouteType ==
  ASSUME NEW out, NEW fm \in BOOLEAN, NEW tty \in TtyMode, NEW mode
  PROVE  OutputRoute(out, fm, tty, mode) \in RouteType
BY RoutingConstants
DEF OutputRoute, FmRoute, TtyRoute, Wired, Route, RouteType, SndDevice,
    PostProcDevice, FmDevice, DualMicDevice, Feature, TtyMode

\* So is the route of a recording.
LEMMA InputRouteType ==
  ASSUME NEW in, NEW out
  PROVE  InputRoute(in, out) \in RouteType
BY RoutingConstants
DEF InputRoute, Route, RouteType, SndDevice, PostProcDevice, Feature

\* The second microphone replaces a device by a device.
LEMMA DualMicRouteType ==
  ASSUME NEW route \in RouteType, NEW dualMic, NEW mode
  PROVE  DualMicRoute(route, dualMic, mode) \in RouteType
BY DEF DualMicRoute, RouteType, SndDevice, DualMicDevice

\* A thread about to route selects a route.
LEMMA SelectedRouteType ==
  ASSUME TypeOK, NEW t \in Threads
  PROVE  SelectedRoute(t) \in RouteType
<1>1. mFmRadioEnabled \in BOOLEAN /\ mTtyMode \in TtyMode
  BY DEF TypeOK, FlagsType
<1>2. OutputRoute(mDevices, mFmRadioEnabled, mTtyMode, mMode) \in RouteType
  BY <1>1, OutputRouteType
<1>3. InputRoute(inDevices[t], mDevices) \in RouteType
  BY InputRouteType
<1>. QED
  BY <1>2, <1>3, DualMicRouteType DEF SelectedRoute

\* msm72xx_enable_postproc() asks for a set of features.
LEMMA EnableMaskType ==
  ASSUME NEW dev, NEW mask \in SUBSET Feature
  PROVE  EnableMask(dev, mask) \in SUBSET Feature
BY DEF EnableMask

\* The pins stay on one side, change to the other, or end up between the two.
LEMMA PinSwitchType ==
  ASSUME TypeOK, NEW dev
  PROVE  PinSwitch(dev) \subseteq {"FM", "BTSCO", "MIXED"}
BY DEF TypeOK, RoutedType, PinSwitch, PinsAfter

\* What one RPC can leave at the driver: a mute is a Boolean, and the device
\* is the one asked for, or the one before when the RPC failed early.
LEMMA RpcOutcome ==
  ASSUME TypeOK, NEW dev \in SndDevice \cup {"same"},
         NEW ear \in BOOLEAN, NEW mic \in BOOLEAN,
         NEW o \in RpcOutcomes(dev, ear, mic)
  PROVE  /\ o.dsp \in DspType
         /\ o.status \in {"ok", "eio"}
         /\ dev = "same" => o.dsp.dev = dsp.dev
         /\ dev # "same" /\ o.status = "ok" => o.dsp.dev = dev
         /\ dev # "same" => o.dsp.dev \in {dsp.dev, dev}
<1>. DEFINE target == IF dev = "same" THEN dsp.dev ELSE dev
            sent(m) == [dev |-> target, ear |-> ear, mic |-> m]
<1>1. \/ o = [status |-> "ok", dsp |-> sent(mic)]
      \/ o = [status |-> "eio", dsp |-> dsp]
      \/ o = [status |-> "eio", dsp |-> sent(TRUE)] /\ dev # "same"
  BY DEF RpcOutcomes, Outcome
<1>2. dsp \in DspType
  BY DEF TypeOK, RoutedType
<1>3. target \in SndDevice \cup {NoDevice}
  BY <1>2 DEF DspType
<1>4. ASSUME NEW m \in BOOLEAN
      PROVE  sent(m) \in DspType
  BY <1>3 DEF DspType
<1>5. CASE o = [status |-> "ok", dsp |-> sent(mic)]
  BY <1>4, <1>5
<1>6. CASE o = [status |-> "eio", dsp |-> dsp]
  BY <1>2, <1>6
<1>7. CASE o = [status |-> "eio", dsp |-> sent(TRUE)] /\ dev # "same"
  BY <1>4, <1>7
<1>. QED
  BY <1>1, <1>5, <1>6, <1>7

\* The mutes of a route are Booleans.
LEMMA RouteOutcome ==
  ASSUME TypeOK, NEW dev \in SndDevice \cup {"same"}, NEW mic \in BOOLEAN,
         NEW o \in RouteOutcomes(dev, mic)
  PROVE  /\ o.dsp \in DspType
         /\ o.status \in {"ok", "eio"}
         /\ dev = "same" => o.dsp.dev = dsp.dev
         /\ dev # "same" /\ o.status = "ok" => o.dsp.dev = dev
         /\ dev # "same" => o.dsp.dev \in {dsp.dev, dev}
<1>1. EarMute(dev, mMode, mBuiltinMicSelected, mFmRadioEnabled) \in BOOLEAN
  BY DEF EarMute, IsInCall
<1>2. MicMute(mic, mFmRadioEnabled) \in BOOLEAN
  BY DEF MicMute
<1>. QED
  BY <1>1, <1>2, RpcOutcome DEF RouteOutcomes
-----------------------------------------------------------------------------
(* Types.                                                                  *)

\* What a step leaves alone keeps its type.
LEMMA FrameType ==
  ASSUME TypeOK
  PROVE  /\ UNCHANGED mics => MicsType'
         /\ UNCHANGED proc => ProcType'
         /\ UNCHANGED flags => FlagsType'
         /\ UNCHANGED output => OutputType'
         /\ UNCHANGED input => InputType'
         /\ UNCHANGED locals => LocalsType'
         /\ UNCHANGED routed => RoutedType'
<1>1. UNCHANGED mics => MicsType'
  BY DEF TypeOK, mics, MicsType
<1>2. UNCHANGED proc => ProcType'
  BY DEF TypeOK, proc, ProcType
<1>3. UNCHANGED flags => FlagsType'
  BY DEF TypeOK, flags, FlagsType
<1>4. UNCHANGED output => OutputType'
  BY DEF TypeOK, output, OutputType
<1>5. UNCHANGED input => InputType'
  BY DEF TypeOK, input, InputType
<1>6. UNCHANGED locals => LocalsType'
  BY DEF TypeOK, locals, LocalsType
<1>7. UNCHANGED routed => RoutedType'
  BY DEF TypeOK, routed, RoutedType
<1>. QED
  BY <1>1, <1>2, <1>3, <1>4, <1>5, <1>6, <1>7

\* A step from one point of a call to another.
LEMMA GotoType ==
  ASSUME TypeOK, NEW t \in Threads, NEW point \in Point, Goto(t, point)
  PROVE  pc' \in [Threads -> Point]
BY DEF TypeOK, Goto

\* Returning from doRouting().
LEMMA ReturnType ==
  ASSUME TypeOK, NEW t \in Threads, Return(t)
  PROVE  mLock' = NoThread /\ pc' \in [Threads -> Point] /\ LocalsType'
<1>1. NoRoute \in RouteType
  BY DEF NoRoute, Route, RouteType, SndDevice, PostProcDevice
<1>2. \A p \in CallPoint : Resume[p] \in Point
  BY DEF CallPoint, Resume, Point
<1>3. caller[t] \in CallPoint
  BY DEF TypeOK, LocalsType
<1>4. Goto(t, Resume[caller[t]])
  BY DEF Return
<1>5. pc' \in [Threads -> Point]
  BY <1>2, <1>3, <1>4, GotoType
<1>6. LocalsType'
  BY <1>1 DEF Return, TypeOK, LocalsType, CallPoint
<1>. QED
  BY <1>5, <1>6 DEF Return

\* What a step of msm72xx_enable_postproc() leaves alone, and where it goes on.
LEMMA PostProcStep ==
  ASSUME NEW t \in Threads, EnablePostProc(t)
  PROVE  /\ UNCHANGED <<mCurSndDevice, playback_in_progress, post_proc_feature_mask,
                        mics, flags, output, input, routed, todo>>
         /\ pc[t] \in PostProcPoint
         /\ \/ UNCHANGED <<pc, mLock, locals>>
            \/ /\ pc[t] = "pp_on"
               /\ Return(t)
            \/ /\ \/ pc[t] = "pp_off" /\ Goto(t, "dr_save")
                  \/ pc[t] = "stb_off" /\ Goto(t, "stb_close")
                  \/ pc[t] \in {"wr_on", "wr_off"} /\ Goto(t, "idle")
               /\ UNCHANGED <<mLock, locals>>
<1>1. CASE PostProcGiveUp(t) \/ PostProcSwitch(t)
  <2>1. PostProcReturn(t) /\ pc[t] \in PostProcPoint
    BY <1>1 DEF PostProcGiveUp, PostProcSwitch
  <2>2. UNCHANGED <<mCurSndDevice, playback_in_progress, post_proc_feature_mask,
                    mics, flags, output, input, routed>>
    BY <1>1 DEF PostProcGiveUp, PostProcSwitch, proc
  <2> QED BY <2>1, <2>2 DEF PostProcReturn, PostProcPoint, At, Return, locals
<1>2. CASE PostProcReadDevice(t) \/ PostProcReadMask(t)
  BY <1>2 DEF PostProcReadDevice, PostProcReadMask, Enabling, At, PostProcPoint, locals
<1> QED BY <1>1, <1>2 DEF EnablePostProc

\* msm72xx_enable_postproc() keeps the types.
LEMMA PostProcStepType ==
  ASSUME TypeOK, NEW t \in Threads, EnablePostProc(t)
  PROVE  TypeOK'
<1>1. /\ audpp \in SUBSET Feature /\ post_proc_feature_mask \in SUBSET Feature
      /\ playback_in_progress \in BOOLEAN /\ overtaken \in BOOLEAN
      /\ pp \in [Threads -> PostProcType]
  BY DEF TypeOK, ProcType
<1>2. ASSUME PostProcReturn(t)
      PROVE  /\ mLock' \in Threads \cup {NoThread} /\ pc' \in [Threads -> Point]
             /\ LocalsType'
  <2>1. CASE At(t, "pp_on")
    BY <1>2, <2>1, ReturnType DEF PostProcReturn
  <2>2. CASE ~At(t, "pp_on")
    <3>1. \E point \in Point : Goto(t, point)
      BY <1>2, <2>2 DEF PostProcReturn, Point, LockedPoint
    <3>2. UNCHANGED <<mLock, locals>>
      BY <1>2, <2>2 DEF PostProcReturn
    <3> QED BY <3>1, <3>2, GotoType, FrameType DEF TypeOK
  <2> QED BY <2>1, <2>2
<1>3. CASE PostProcGiveUp(t)
  <2>1. PostProcReturn(t)
    BY <1>3 DEF PostProcGiveUp
  <2> QED BY <1>2, <1>3, <2>1, FrameType DEF PostProcGiveUp, TypeOK
<1>4. CASE PostProcReadDevice(t)
  <2>1. pp' \in [Threads -> PostProcType]
    BY <1>1, <1>4 DEF PostProcReadDevice, NotRead, PostProcType
  <2>2. ProcType'
    BY <1>1, <1>4, <2>1 DEF PostProcReadDevice, ProcType
  <2> QED BY <1>4, <2>2, FrameType DEF PostProcReadDevice, TypeOK
<1>5. CASE PostProcReadMask(t)
  <2>1. EnableMask(pp[t].dev, post_proc_feature_mask) \in SUBSET Feature
    BY <1>1, EnableMaskType
  <2>2. pp' \in [Threads -> PostProcType]
    BY <1>1, <1>5, <2>1 DEF PostProcReadMask, PostProcType
  <2>3. ProcType'
    BY <1>1, <1>5, <2>2 DEF PostProcReadMask, ProcType
  <2> QED BY <1>5, <2>3, FrameType DEF PostProcReadMask, TypeOK
<1>6. CASE PostProcSwitch(t)
  <2>1. pp' \in [Threads -> PostProcType] /\ audpp' \in SUBSET Feature
    BY <1>1, <1>6 DEF PostProcSwitch, NotRead, PostProcType
  <2>2. ProcType'
    BY <1>1, <1>6, <2>1 DEF PostProcSwitch, ProcType
  <2>3. PostProcReturn(t)
    BY <1>6 DEF PostProcSwitch
  <2> QED BY <1>2, <1>6, <2>2, <2>3, FrameType DEF PostProcSwitch, TypeOK
<1> QED BY <1>3, <1>4, <1>5, <1>6 DEF EnablePostProc

\* A pre-processing call leaves a Boolean.
LEMMA PreProcType ==
  ASSUME TypeOK, NEW state \in BOOLEAN
  PROVE  PreProcOutcomes(state) \subseteq BOOLEAN
BY DEF PreProcOutcomes, TypeOK, InputType

\* doRouting() keeps the types.
LEMMA RoutingStepType ==
  ASSUME TypeOK, NEW t \in Threads, DoRouting(t)
  PROVE  TypeOK'
<1>1. CASE Select(t)
  <2>1. pc' \in [Threads -> Point]
    <3>1. PICK p \in Point : Goto(t, p)
      <4>1. \A p \in CallPoint : Resume[p] \in Point
        BY DEF CallPoint, Resume, Point
      <4>2. "dr_compare" \in Point
        BY DEF Point, LockedPoint
      <4>. QED
        BY <1>1, <4>1, <4>2 DEF Select
    <3>. QED
      BY <3>1, GotoType
  <2>2. LocalsType'
    BY <1>1, SelectedRouteType DEF Select, TypeOK, LocalsType
  <2>3. mLock' \in Threads \cup {NoThread} /\ MicsType'
    BY <1>1 DEF Select, TakeLock, TypeOK, MicsType
  <2>. QED
    BY <1>1, <2>1, <2>2, <2>3, FrameType DEF Select, TypeOK
<1>2. CASE Skip(t)
  BY <1>2, ReturnType, FrameType DEF Skip, TypeOK
<1>3. CASE SendRoute(t)
  <2>1. want[t].dev \in SndDevice /\ mMicMute \in BOOLEAN
    BY DEF TypeOK, LocalsType, MicsType, RouteType
  <2>2. dsp' \in DspType /\ routeStatus' \in {"ok", "eio"}
    BY <1>3, <2>1, RouteOutcome DEF SendRoute
  <2>3. RoutedType'
    BY <1>3, <2>2, PinSwitchType DEF SendRoute, TypeOK, RoutedType, FlagsType
  <2>4. pc' \in [Threads -> Point]
    BY <1>3, GotoType DEF SendRoute, Point, LockedPoint
  <2>. QED
    BY <1>3, <2>3, <2>4, FrameType DEF SendRoute, TypeOK
<1>4. CASE DisableOld(t)
  <2>1. pc' \in [Threads -> Point]
    BY <1>4, GotoType DEF DisableOld, Point, LockedPoint
  <2>. QED
    BY <1>4, <2>1, FrameType DEF DisableOld, TypeOK
<1>5. CASE SaveDevice(t) \/ SaveMask(t)
  <2>1. want[t].dev \in SndDevice /\ want[t].mask \in SUBSET Feature
    BY DEF TypeOK, LocalsType, RouteType
  <2>2. ProcType'
    BY <1>5, <2>1 DEF SaveDevice, SaveMask, TypeOK, ProcType
  <2>3. pc' \in [Threads -> Point]
    BY <1>5, GotoType DEF SaveDevice, SaveMask, Point, LockedPoint
  <2>. QED
    BY <1>5, <2>1, <2>2, <2>3, FrameType DEF SaveDevice, SaveMask, TypeOK
<1>6. CASE EnableNew(t)
  <2>1. CASE playback_in_progress
    <3>1. pc' \in [Threads -> Point]
      BY <1>6, <2>1, GotoType DEF EnableNew, Point, LockedPoint
    <3>. QED
      BY <1>6, <2>1, <3>1, FrameType DEF EnableNew, TypeOK
  <2>2. CASE ~playback_in_progress
    BY <1>6, <2>2, ReturnType, FrameType DEF EnableNew, TypeOK
  <2>. QED
    BY <2>1, <2>2
<1>. QED
  BY <1>1, <1>2, <1>3, <1>4, <1>5, <1>6 DEF DoRouting

\* The output stream keeps the types.
LEMMA PlayStepType ==
  ASSUME TypeOK, Play
  PROVE  TypeOK'
<1>. Player \in Threads
  BY DEF Threads
<1>. USE FrameType
<1>1. CASE WriteFill
  <2>. DEFINE queued == IF mStandby THEN BuffersToStart ELSE mStartCount
  <2>0. queued \in 1..2 /\ mStartCount' \in {queued, queued - 1}
    BY <1>1 DEF WriteFill, Filling, BuffersToStart, TypeOK, OutputType
  <2>1. mStartCount' \in 0..2
    BY <2>0
  <2>2. OutputType'
    BY <1>1, <2>1 DEF WriteFill, TypeOK, OutputType
  <2>3. pc' \in [Threads -> Point]
    BY <1>1, GotoType DEF WriteFill, Point, TypeOK
  <2>. QED
    BY <1>1, <2>2, <2>3 DEF WriteFill, TypeOK
<1>2. CASE WriteStart
  <2>1. OutputType' /\ ProcType'
    BY <1>2 DEF WriteStart, TypeOK, OutputType, ProcType
  <2>2. pc' \in [Threads -> Point]
    BY <1>2, GotoType DEF WriteStart, Point, PostProcPoint
  <2>. QED
    BY <1>2, <2>1, <2>2 DEF WriteStart, TypeOK
<1>4. CASE OutStandby
  <2>1. pc' \in [Threads -> Point]
    BY <1>4, GotoType DEF OutStandby, Point, PostProcPoint
  <2>. QED
    BY <1>4, <2>1 DEF OutStandby, TypeOK
<1>5. CASE OutStandbyClose
  <2>1. OutputType' /\ ProcType'
    BY <1>5 DEF OutStandbyClose, TypeOK, OutputType, ProcType
  <2>2. pc' \in [Threads -> Point]
    BY <1>5, GotoType DEF OutStandbyClose, Point
  <2>. QED
    BY <1>5, <2>1, <2>2 DEF OutStandbyClose, TypeOK
<1>6. CASE OutSetRouting
  <2>1. OutputType'
    BY <1>6, InputAssumption DEF OutSetRouting, TypeOK, OutputType
  <2>2. pc' \in [Threads -> Point]
    BY <1>6, GotoType DEF OutSetRouting, Point, CallPoint
  <2>. QED
    BY <1>6, <2>1, <2>2 DEF OutSetRouting, TypeOK
<1>. QED
  BY <1>1, <1>2, <1>4, <1>5, <1>6, RoutingStepType, PostProcStepType DEF Play

\* An input stream keeps the types.
LEMMA RecordStepType ==
  ASSUME TypeOK, NEW r \in Recorders, Record(r)
  PROVE  TypeOK'
<1>. r \in Threads
  BY DEF Threads
<1>. USE FrameType
<1>1. CASE ReadOpen(r)
  <2>1. InputType'
    BY <1>1, InputAssumption DEF ReadOpen, TypeOK, InputType
  <2>. QED
    BY <1>1, <2>1 DEF ReadOpen, TypeOK
<1>2. CASE ReadForceRoute(r)
  <2>1. InputType'
    BY <1>2 DEF ReadForceRoute, TypeOK, InputType
  <2>2. pc' \in [Threads -> Point]
    BY <1>2, GotoType DEF ReadForceRoute, Point, CallPoint
  <2>. QED
    BY <1>2, <2>1, <2>2 DEF ReadForceRoute, TypeOK
<1>3. CASE ReadStart(r)
  <2>1. InputType'
    <3>1. audpre' \in BOOLEAN
      <4>1. CASE audpre' \in PreProcOutcomes(TRUE)
        BY <4>1, PreProcType
      <4>2. CASE UNCHANGED audpre
        BY <4>2 DEF TypeOK, InputType
      <4>. QED
        BY <1>3, <4>1, <4>2 DEF ReadStart
    <3>. QED
      BY <1>3, <3>1 DEF ReadStart, TypeOK, InputType
  <2>2. pc' \in [Threads -> Point]
    BY <1>3, GotoType DEF ReadStart, Point
  <2>. QED
    BY <1>3, <2>1, <2>2 DEF ReadStart, TypeOK
<1>4. CASE InStandby(r)
  <2>1. InputType'
    <3>1. audpre' \in {audpre} \cup PreProcOutcomes(FALSE)
      BY <1>4 DEF InStandby
    <3>2. audpre' \in BOOLEAN
      BY <3>1, PreProcType DEF TypeOK, InputType
    <3>. QED
      BY <1>4, <3>2 DEF InStandby, TypeOK, InputType
  <2>2. pc' \in [Threads -> Point]
    BY <1>4, GotoType DEF InStandby, Point, CallPoint
  <2>. QED
    BY <1>4, <2>1, <2>2 DEF InStandby, TypeOK
<1>5. CASE InSetRouting(r)
  <2>1. InputType'
    BY <1>5, InputAssumption DEF InSetRouting, TypeOK, InputType
  <2>2. pc' \in [Threads -> Point]
    BY <1>5, GotoType DEF InSetRouting, Point, CallPoint
  <2>. QED
    BY <1>5, <2>1, <2>2 DEF InSetRouting, TypeOK
<1>. QED
  BY <1>1, <1>2, <1>3, <1>4, <1>5, RoutingStepType, PostProcStepType DEF Record

\* The keys of setParameters() keep the types.
LEMMA KeysStepType ==
  ASSUME TypeOK, NEW c \in Controllers, HandleKeys(c)
  PROVE  TypeOK'
<1>. c \in Threads
  BY DEF Threads
<1>1. todo' \in [Controllers -> SUBSET Key]
  BY DEF HandleKeys, SetBtName, SetDualMic, SetTtyMode, SetFmOn, SetFmOff,
         RouteAtEnd, Handle, TypeOK, LocalsType
<1>2. LocalsType'
  BY <1>1 DEF HandleKeys, TypeOK, LocalsType
<1>3. FlagsType'
  BY DEF HandleKeys, SetBtName, SetDualMic, SetTtyMode, SetFmOn, SetFmOff,
         RouteAtEnd, TypeOK, FlagsType, flags
<1>4. pc' \in [Threads -> Point]
  BY GotoType DEF HandleKeys, SetBtName, SetDualMic, SetTtyMode, SetFmOn,
     SetFmOff, RouteAtEnd, Point, CallPoint
<1>. QED
  BY <1>2, <1>3, <1>4, FrameType DEF HandleKeys, TypeOK

\* The calls on the hardware object keep the types.
LEMMA ControlStepType ==
  ASSUME TypeOK, NEW c \in Controllers, Control(c)
  PROVE  TypeOK'
<1>. c \in Threads
  BY DEF Threads
<1>. USE FrameType
<1>1. CASE SetMode(c)
  <2>1. FlagsType'
    BY <1>1, InputAssumption DEF SetMode, TypeOK, FlagsType
  <2>2. pc' \in [Threads -> Point]
    BY <1>1, GotoType DEF SetMode, Point
  <2>. QED
    BY <1>1, <2>1, <2>2 DEF SetMode, TypeOK
<1>2. CASE ModeClear(c)
  <2>1. pc' \in [Threads -> Point]
    BY <1>2, GotoType DEF ModeClear, Point
  <2>. QED
    BY <1>2, <2>1 DEF ModeClear, TypeOK
<1>3. CASE SetMicMute(c)
  <2>1. (~mMicMute) \in BOOLEAN
    <3>1. mMicMute = TRUE \/ mMicMute = FALSE
      BY DEF TypeOK, MicsType
    <3>. QED
      BY <3>1
  <2>2. dsp' \in DspType
    <3>1. PICK mic \in BOOLEAN : \E o \in RouteOutcomes("same", mic) : dsp' = o.dsp
      BY <1>3, <2>1, Zenon DEF SetMicMute
    <3>. QED
      BY <3>1, RouteOutcome
  <2>4. mMicMute' \in BOOLEAN
    BY <1>3, <2>1, Zenon DEF SetMicMute
  <2>5. MicsType'
    BY <1>3, <2>4 DEF SetMicMute, TypeOK, MicsType
  <2>3. RoutedType'
    BY <1>3, <2>2, PinSwitchType DEF SetMicMute, TypeOK, RoutedType, FlagsType
  <2>. QED
    BY <1>3, <2>3, <2>5 DEF SetMicMute, TypeOK
<1>4. CASE SetParameters(c)
  <2>1. LocalsType'
    BY <1>4, InputAssumption DEF SetParameters, TypeOK, LocalsType
  <2>2. pc' \in [Threads -> Point]
    BY <1>4, GotoType DEF SetParameters, Point
  <2>. QED
    BY <1>4, <2>1, <2>2 DEF SetParameters, TypeOK
<1>. QED
  BY <1>1, <1>2, <1>3, <1>4, KeysStepType, RoutingStepType, PostProcStepType DEF Control

\* Every step keeps the types.
LEMMA NextType ==
  ASSUME TypeOK, [Next]_vars
  PROVE  TypeOK'
<1>1. CASE Next
  BY <1>1, PlayStepType, RecordStepType, ControlStepType DEF Next
<1>2. CASE UNCHANGED vars
  BY <1>2, FrameType DEF vars, TypeOK
<1>. QED
  BY <1>1, <1>2

\* The media server starts in a state of the right type.
LEMMA InitType == Init => TypeOK
<1>. SUFFICES ASSUME Init PROVE TypeOK
  OBVIOUS
<1>1. MicsType /\ FlagsType
  BY DEF Init, MicsType, FlagsType, Mode, TtyMode
<1>4. ProcType
  BY DEF Init, ProcType, NotRead, PostProcType
<1>5. OutputType
  BY DEF Init, OutputType, OutputBit
<1>6. InputType
  BY DEF Init, InputType
<1>7. RoutedType
  BY DEF Init, RoutedType, DspType
<1>2. NoRoute \in RouteType
  BY DEF NoRoute, Route, RouteType, SndDevice, PostProcDevice
<1>3. LocalsType
  BY <1>2 DEF Init, LocalsType, CallPoint
<1>. QED
  BY <1>1, <1>3, <1>4, <1>5, <1>6, <1>7 DEF Init, TypeOK, Point

\* Types: no interleaving of the streams and the calls on the hardware object
\* takes a member of AudioHardware out of its range.
THEOREM TypeCorrect == Spec => []TypeOK
BY InitType, NextType, PTL DEF Spec

-----------------------------------------------------------------------------
(* The lock.                                                               *)

\* A step that neither takes nor releases mLock moves its thread from outside
\* a locked section to outside, or from inside to inside.
LEMMA LockKept ==
  ASSUME TypeOK, LockInv, NEW t \in Threads, NEW point \in Point, Goto(t, point),
         UNCHANGED mLock, pc[t] \in LockedPoint <=> point \in LockedPoint
  PROVE  LockInv'
BY DEF TypeOK, LockInv, Goto

\* Entering the locked section takes a free lock.
LEMMA LockTaken ==
  ASSUME TypeOK, LockInv, NEW t \in Threads, NEW point \in LockedPoint,
         Goto(t, point), mLock = NoThread, mLock' = t
  PROVE  LockInv'
BY ThreadAssumption DEF TypeOK, LockInv, Goto, Threads

\* Returning frees the lock: nobody but the holder was inside.
LEMMA LockReleased ==
  ASSUME TypeOK, LockInv, NEW t \in Threads, pc[t] \in LockedPoint, Return(t)
  PROVE  LockInv'
<1>1. caller[t] \in CallPoint
  BY DEF TypeOK, LocalsType
<1>2. Resume[caller[t]] \notin LockedPoint
  BY <1>1 DEF CallPoint, Resume, LockedPoint
<1>3. mLock = t
  BY DEF LockInv
<1>4. \A u \in Threads : pc'[u] \notin LockedPoint
  BY <1>2, <1>3 DEF Return, Goto, TypeOK, LockInv
<1>. QED
  BY <1>4, ThreadAssumption DEF Return, LockInv, Threads

\* Every step keeps the lock discipline.
LEMMA LockNext ==
  ASSUME TypeOK, LockInv, [Next]_vars
  PROVE  LockInv'
<1>1. ASSUME NEW t \in Threads, DoRouting(t) PROVE LockInv'
  <2>. USE <1>1
  <2>1. CASE Select(t)
    <3>1. CASE UNCHANGED mLock /\ Goto(t, Resume[pc[t]])
      <4>1. \A p \in CallPoint : Resume[p] \in Point \ LockedPoint
        BY DEF CallPoint, Resume, Point, LockedPoint
      <4>2. pc[t] \in CallPoint /\ pc[t] \notin LockedPoint
        BY <2>1 DEF Select, CallPoint, LockedPoint
      <4>. QED
        BY <3>1, <4>1, <4>2, LockKept
    <3>2. CASE TakeLock(t) /\ Goto(t, "dr_compare") /\ mLock = NoThread
      BY <3>2, LockTaken DEF TakeLock, LockedPoint
    <3>. QED
      BY <2>1, <3>1, <3>2 DEF Select
  <2>2. CASE Skip(t)
    BY <2>2, LockReleased DEF Skip, At, LockedPoint
  <2>3. CASE SendRoute(t)
    BY <2>3, LockKept DEF SendRoute, At, LockedPoint, Point
  <2>4. CASE DisableOld(t)
    BY <2>4, LockKept DEF DisableOld, At, LockedPoint, Point
  <2>5. CASE SaveDevice(t) \/ SaveMask(t)
    BY <2>5, LockKept DEF SaveDevice, SaveMask, At, LockedPoint, Point
  <2>6. CASE EnableNew(t)
    <3>1. CASE playback_in_progress
      BY <2>6, <3>1, LockKept DEF EnableNew, At, LockedPoint, Point
    <3>2. CASE ~playback_in_progress
      BY <2>6, <3>2, LockReleased DEF EnableNew, At, LockedPoint
    <3>. QED
      BY <3>1, <3>2
  <2>. QED
    BY <2>1, <2>2, <2>3, <2>4, <2>5, <2>6 DEF DoRouting
<1>6. ASSUME NEW t \in Threads, EnablePostProc(t) PROVE LockInv'
  <2>1. ASSUME PostProcReturn(t), pc[t] \in PostProcPoint PROVE LockInv'
    <3>1. CASE At(t, "pp_on")
      BY <2>1, <3>1, LockReleased DEF PostProcReturn, At, LockedPoint
    <3>2. CASE ~At(t, "pp_on")
      BY <2>1, <3>2, LockKept DEF PostProcReturn, PostProcPoint, At, LockedPoint, Point
    <3>. QED
      BY <3>1, <3>2
  <2>2. CASE PostProcGiveUp(t) \/ PostProcSwitch(t)
    BY <2>1, <2>2 DEF PostProcGiveUp, PostProcSwitch
  <2>3. CASE PostProcReadDevice(t) \/ PostProcReadMask(t)
    BY <2>3 DEF PostProcReadDevice, PostProcReadMask, LockInv
  <2>. QED
    BY <1>6, <2>2, <2>3 DEF EnablePostProc
<1>2. ASSUME Play PROVE LockInv'
  <2>. Player \in Threads
    BY DEF Threads
  <2>1. CASE DoRouting(Player) \/ EnablePostProc(Player)
    BY <1>1, <1>6, <2>1
  <2>2. CASE WriteFill
    BY <2>2, LockKept DEF WriteFill, At, Goto, TypeOK, LockInv, LockedPoint, Point
  <2>3. CASE WriteStart
    BY <2>3, LockKept DEF WriteStart, At, LockedPoint, Point, PostProcPoint
  <2>5. CASE OutStandby
    BY <2>5, LockKept DEF OutStandby, At, LockedPoint, Point, PostProcPoint
  <2>6. CASE OutStandbyClose
    BY <2>6, LockKept DEF OutStandbyClose, At, LockedPoint, Point
  <2>7. CASE OutSetRouting
    BY <2>7, LockKept DEF OutSetRouting, At, LockedPoint, Point, CallPoint
  <2>. QED
    BY <1>2, <2>1, <2>2, <2>3, <2>5, <2>6, <2>7 DEF Play
<1>3. ASSUME NEW r \in Recorders, Record(r) PROVE LockInv'
  <2>. r \in Threads
    BY DEF Threads
  <2>1. CASE DoRouting(r) \/ EnablePostProc(r)
    BY <1>1, <1>6, <2>1
  <2>2. CASE ReadOpen(r)
    BY <2>2 DEF ReadOpen, LockInv
  <2>3. CASE ReadForceRoute(r)
    BY <2>3, LockKept DEF ReadForceRoute, At, LockedPoint, Point, CallPoint
  <2>4. CASE ReadStart(r)
    BY <2>4, LockKept DEF ReadStart, At, LockedPoint, Point
  <2>5. CASE InStandby(r)
    BY <2>5, LockKept DEF InStandby, At, LockedPoint, Point, CallPoint
  <2>6. CASE InSetRouting(r)
    BY <2>6, LockKept DEF InSetRouting, At, LockedPoint, Point, CallPoint
  <2>. QED
    BY <1>3, <2>1, <2>2, <2>3, <2>4, <2>5, <2>6 DEF Record
<1>4. ASSUME NEW c \in Controllers, Control(c) PROVE LockInv'
  <2>. c \in Threads
    BY DEF Threads
  <2>1. CASE DoRouting(c) \/ EnablePostProc(c)
    BY <1>1, <1>6, <2>1
  <2>2. CASE SetMode(c)
    BY <2>2, LockKept DEF SetMode, At, LockedPoint, Point
  <2>3. CASE ModeClear(c)
    BY <2>3, LockKept DEF ModeClear, At, LockedPoint, Point
  <2>4. CASE SetMicMute(c)
    BY <2>4 DEF SetMicMute, LockInv
  <2>5. CASE SetParameters(c)
    BY <2>5, LockKept DEF SetParameters, At, LockedPoint, Point
  <2>6. CASE HandleKeys(c)
    BY <2>6, LockKept DEF HandleKeys, SetBtName, SetDualMic, SetTtyMode, SetFmOn,
       SetFmOff, RouteAtEnd, Handle, At, LockedPoint, Point, CallPoint
  <2>. QED
    BY <1>4, <2>1, <2>2, <2>3, <2>4, <2>5, <2>6 DEF Control
<1>5. CASE UNCHANGED vars
  BY <1>5 DEF vars, LockInv
<1>. QED
  BY <1>2, <1>3, <1>4, <1>5 DEF Next

\* No thread starts inside a locked section.
LEMMA LockInit == Init => LockInv
BY ThreadAssumption DEF Init, LockInv, LockedPoint, Threads

\* Mutual exclusion: selecting, sending, switching post-processing and saving
\* of two doRouting() calls never overlap.
THEOREM RoutingIsExclusive == Spec => []OneRouter
<1>1. LockInv => OneRouter
  BY DEF LockInv, OneRouter
<1>. QED
  BY <1>1, InitType, NextType, LockInit, LockNext, PTL DEF Spec

-----------------------------------------------------------------------------
(* What the steps do to the route, the current device and the driver.      *)

\* A step of a thread outside the unsaved points, before and after, that leaves
\* the driver's device alone and keeps or clears the current device.
Aside(t) ==
  /\ pc[t] \notin Unsaved
  /\ \E point \in Point \ Unsaved : Goto(t, point)
  /\ dsp'.dev = dsp.dev /\ UNCHANGED routeStatus
  /\ \A u \in Threads \ {t} : want'[u] = want[u]
  /\ mCurSndDevice' \in {mCurSndDevice, NoDevice}

\* A step that leaves all of them alone.
Still == dsp'.dev = dsp.dev /\ UNCHANGED <<pc, routeStatus, want, mCurSndDevice>>

\* The steps that reach or leave an unsaved point, and those between them.
Pauses(t) == /\ pc[t] \in Unsaved
             /\ UNCHANGED <<dsp, routeStatus, want, mCurSndDevice>>
             /\ UNCHANGED pc \/ \E point \in Unsaved : Goto(t, point)

Reroutes(t) == SendRoute(t) \/ Pauses(t) \/ SaveDevice(t)

\* Returning from doRouting(), with or without a route sent, is a step aside.
LEMMA ReturnAside ==
  ASSUME TypeOK, NEW t \in Threads, Return(t), pc[t] \notin Unsaved,
         UNCHANGED <<dsp, routeStatus, mCurSndDevice>>
  PROVE  Aside(t)
<1>1. caller[t] \in CallPoint
  BY DEF TypeOK, LocalsType
<1>2. Resume[caller[t]] \in Point \ Unsaved
  BY <1>1 DEF CallPoint, Resume, Point, Unsaved
<1>3. \A u \in Threads \ {t} : want'[u] = want[u]
  BY DEF Return, TypeOK, LocalsType
<1>. QED
  BY <1>2, <1>3 DEF Return, Aside

\* The other steps of doRouting() are steps aside.
LEMMA RoutingAside ==
  ASSUME TypeOK, NEW t \in Threads, DoRouting(t)
  PROVE  Aside(t) \/ Reroutes(t)
<1>1. CASE Select(t)
  <2>1. \E point \in Point \ Unsaved : Goto(t, point)
    <3>1. \A p \in CallPoint : Resume[p] \in Point \ Unsaved
      BY DEF CallPoint, Resume, Point, Unsaved
    <3>2. "dr_compare" \in Point \ Unsaved
      BY DEF Point, LockedPoint, Unsaved
    <3>. QED
      BY <1>1, <3>1, <3>2 DEF Select
  <2>2. pc[t] \notin Unsaved
    BY <1>1 DEF Select, CallPoint, Unsaved
  <2>3. \A u \in Threads \ {t} : want'[u] = want[u]
    BY <1>1 DEF Select, TypeOK, LocalsType
  <2>4. UNCHANGED <<dsp, routeStatus, mCurSndDevice>>
    BY <1>1 DEF Select, routed
  <2>. QED
    BY <2>1, <2>2, <2>3, <2>4 DEF Aside
<1>2. CASE Skip(t)
  BY <1>2, ReturnAside DEF Skip, At, Unsaved, routed
<1>3. CASE DisableOld(t)
  BY <1>3 DEF DisableOld, At, Unsaved, Reroutes, Pauses, routed, locals
<1>4. CASE SaveMask(t)
  BY <1>4 DEF SaveMask, At, Unsaved, Aside, Point, LockedPoint, routed, locals
<1>5. CASE EnableNew(t)
  <2>1. CASE playback_in_progress
    BY <1>5, <2>1 DEF EnableNew, At, Unsaved, Aside, Point, LockedPoint, routed, locals
  <2>2. CASE ~playback_in_progress
    BY <1>5, <2>2, ReturnAside DEF EnableNew, At, Unsaved, routed
  <2>. QED
    BY <2>1, <2>2
<1>. QED
  BY <1>1, <1>2, <1>3, <1>4, <1>5 DEF DoRouting, Reroutes

\* Those of msm72xx_enable_postproc() too, but for the call with which a
\* doRouting() disables the old features before it saves the new device.
LEMMA PostProcAside ==
  ASSUME TypeOK, NEW t \in Threads, EnablePostProc(t)
  PROVE  Still \/ Aside(t) \/ Reroutes(t)
<1>1. UNCHANGED <<dsp, routeStatus, mCurSndDevice>>
  BY DEF EnablePostProc, PostProcGiveUp, PostProcReadDevice, PostProcReadMask,
         PostProcSwitch, routed
<1>2. ASSUME PostProcReturn(t), pc[t] \in PostProcPoint PROVE Aside(t) \/ Reroutes(t)
  <2>1. CASE At(t, "pp_on")
    BY <1>1, <1>2, <2>1, ReturnAside DEF PostProcReturn, At, Unsaved
  <2>2. CASE At(t, "pp_off")
    BY <1>1, <1>2, <2>2 DEF PostProcReturn, At, Unsaved, Reroutes, Pauses, locals
  <2>3. CASE ~At(t, "pp_on") /\ ~At(t, "pp_off")
    BY <1>1, <1>2, <2>3 DEF PostProcReturn, PostProcPoint, At, Unsaved, Aside, Point, locals
  <2>. QED
    BY <2>1, <2>2, <2>3
<1>3. CASE PostProcGiveUp(t) \/ PostProcSwitch(t)
  BY <1>2, <1>3 DEF PostProcGiveUp, PostProcSwitch
<1>4. CASE PostProcReadDevice(t) \/ PostProcReadMask(t)
  BY <1>1, <1>4 DEF PostProcReadDevice, PostProcReadMask, Still, locals
<1>. QED
  BY <1>3, <1>4 DEF EnablePostProc

\* Every step of the system is one of the three kinds.
LEMMA StepKinds ==
  ASSUME TypeOK, [Next]_vars
  PROVE  Still \/ \E t \in Threads : Aside(t) \/ Reroutes(t)
<1>1. ASSUME Play PROVE Still \/ Aside(Player) \/ Reroutes(Player)
  <2>. Player \in Threads
    BY DEF Threads
  <2>. USE DEF Aside, At, Unsaved, Point, locals, routed
  <2>1. CASE DoRouting(Player) \/ EnablePostProc(Player)
    BY <2>1, RoutingAside, PostProcAside
  <2>2. CASE WriteFill
    BY <2>2 DEF WriteFill, Still
  <2>3. CASE WriteStart
    BY <2>3 DEF WriteStart, PostProcPoint
  <2>5. CASE OutStandby
    BY <2>5 DEF OutStandby, PostProcPoint
  <2>6. CASE OutStandbyClose
    BY <2>6 DEF OutStandbyClose
  <2>7. CASE OutSetRouting
    BY <2>7 DEF OutSetRouting, CallPoint
  <2>. QED
    BY <1>1, <2>1, <2>2, <2>3, <2>5, <2>6, <2>7 DEF Play
<1>2. ASSUME NEW r \in Recorders, Record(r) PROVE Still \/ Aside(r) \/ Reroutes(r)
  <2>. r \in Threads
    BY DEF Threads
  <2>. USE DEF Aside, At, Unsaved, Point, locals, routed
  <2>1. CASE DoRouting(r) \/ EnablePostProc(r)
    BY <2>1, RoutingAside, PostProcAside
  <2>2. CASE ReadOpen(r)
    BY <2>2 DEF ReadOpen, Still
  <2>3. CASE ReadForceRoute(r)
    BY <2>3 DEF ReadForceRoute, CallPoint
  <2>4. CASE ReadStart(r)
    BY <2>4 DEF ReadStart
  <2>5. CASE InStandby(r)
    BY <2>5 DEF InStandby, CallPoint
  <2>6. CASE InSetRouting(r)
    BY <2>6 DEF InSetRouting, CallPoint
  <2>. QED
    BY <1>2, <2>1, <2>2, <2>3, <2>4, <2>5, <2>6 DEF Record
<1>3. ASSUME NEW c \in Controllers, Control(c) PROVE Still \/ Aside(c) \/ Reroutes(c)
  <2>. c \in Threads
    BY DEF Threads
  <2>. USE DEF Aside, At, Unsaved, Point, locals, routed
  <2>1. CASE DoRouting(c) \/ EnablePostProc(c)
    BY <2>1, RoutingAside, PostProcAside
  <2>2. CASE SetMode(c)
    BY <2>2 DEF SetMode
  <2>3. CASE ModeClear(c)
    BY <2>3 DEF ModeClear
  <2>4. CASE SetMicMute(c)
    <3>1. (~mMicMute) \in BOOLEAN
      <4>1. mMicMute = TRUE \/ mMicMute = FALSE
        BY DEF TypeOK, MicsType
      <4>. QED
        BY <4>1
    <3>2. PICK mic \in BOOLEAN : \E o \in RouteOutcomes("same", mic) : dsp' = o.dsp
      BY <2>4, <3>1, Zenon DEF SetMicMute
    <3>3. dsp'.dev = dsp.dev
      BY <3>2, RouteOutcome
    <3>. QED
      BY <2>4, <3>3 DEF SetMicMute, Still
  <2>5. CASE SetParameters(c)
    BY <2>5 DEF SetParameters
  <2>6. CASE HandleKeys(c)
    BY <2>6 DEF HandleKeys, SetBtName, SetDualMic, SetTtyMode, SetFmOn, SetFmOff,
       RouteAtEnd, Handle, CallPoint
  <2>. QED
    BY <1>3, <2>1, <2>2, <2>3, <2>4, <2>5, <2>6 DEF Control
<1>4. CASE UNCHANGED vars
  BY <1>4 DEF vars, routed, locals, Still
<1>. QED
  BY <1>1, <1>2, <1>3, <1>4 DEF Next, Threads

\* What a route leaves: the driver has the device asked for, or its old one if
\* the RPC failed, and the thread is the only one at an unsaved point.
LEMMA RouteSent ==
  ASSUME TypeOK, LockInv, NEW t \in Threads, SendRoute(t)
  PROVE  /\ want[t].dev \in SndDevice
         /\ routeStatus' = "ok" => dsp'.dev = want[t].dev
         /\ dsp'.dev \in {dsp.dev, want[t].dev}
         /\ UNCHANGED want
         /\ \A u \in Threads : pc'[u] = IF u = t THEN "dr_off" ELSE pc[u]
         /\ \A u \in Threads : pc[u] \in LockedPoint => u = t
<1>1. want[t].dev \in SndDevice /\ mMicMute \in BOOLEAN /\ want[t].dev # "same"
  BY DEF TypeOK, LocalsType, MicsType, RouteType, SndDevice, PostProcDevice,
         FmDevice, DualMicDevice
<1>2. PICK o \in RouteOutcomes(want[t].dev, mMicMute) :
        dsp' = o.dsp /\ routeStatus' = o.status
  BY Zenon DEF SendRoute
<1>3. /\ routeStatus' = "ok" => dsp'.dev = want[t].dev
      /\ dsp'.dev \in {dsp.dev, want[t].dev}
  BY <1>1, <1>2, RouteOutcome
<1>4. \A u \in Threads : pc[u] \in LockedPoint => u = t
  BY DEF SendRoute, LockInv, At, LockedPoint
<1>. QED
  BY <1>1, <1>3, <1>4 DEF SendRoute, locals, Goto, TypeOK

-----------------------------------------------------------------------------
(* The coherence of mCurSndDevice.                                         *)

\* The steps that route: the RPC breaks the coherence while the lock keeps
\* every other doRouting() out, and the save restores it.
LEMMA CoherentReroute ==
  ASSUME TypeOK, LockInv, CoherentInv, NEW t \in Threads, Reroutes(t)
  PROVE  CoherentInv'
<1>1. CASE SendRoute(t)
  <2>1. PendingInv'
    BY <1>1, RouteSent DEF PendingInv, Unsaved, LockedPoint
  <2>2. CacheCoherent'
    BY <1>1, RouteSent DEF CacheCoherent
  <2>. QED
    BY <2>1, <2>2 DEF CoherentInv
<1>2. CASE Pauses(t)
  <2>1. /\ \A u \in Threads \ {t} : pc'[u] = pc[u]
        /\ pc'[t] \in Unsaved
    BY <1>2 DEF Pauses, Goto, TypeOK
  <2>2. UNCHANGED <<dsp, routeStatus, want>>
    BY <1>2 DEF Pauses
  <2>3. PendingInv'
    BY <1>2, <2>1, <2>2 DEF CoherentInv, PendingInv, Pauses
  <2>4. CacheCoherent'
    BY <2>1 DEF CacheCoherent, Unsaved
  <2>. QED
    BY <2>3, <2>4 DEF CoherentInv
<1>3. CASE SaveDevice(t)
  <2>1. \A u \in Threads : pc'[u] = IF u = t THEN "dr_mask" ELSE pc[u]
    BY <1>3 DEF SaveDevice, Goto, TypeOK
  <2>2. UNCHANGED <<dsp, routeStatus, want>> /\ mCurSndDevice' = want[t].dev
    BY <1>3 DEF SaveDevice, routed, locals
  <2>3. pc[t] = "dr_save"
    BY <1>3 DEF SaveDevice, At
  <2>4. PendingInv'
    BY <2>1, <2>2 DEF CoherentInv, PendingInv, Unsaved
  <2>5. CacheCoherent'
    BY <2>2, <2>3 DEF CoherentInv, PendingInv, Unsaved, CacheCoherent
  <2>. QED
    BY <2>4, <2>5 DEF CoherentInv
<1>. QED
  BY <1>1, <1>2, <1>3 DEF Reroutes

\* Every step keeps the coherence.
LEMMA CoherentNext ==
  ASSUME TypeOK, LockInv, CoherentInv, [Next]_vars
  PROVE  CoherentInv'
<1>1. CASE Still
  BY <1>1 DEF Still, CoherentInv, PendingInv, CacheCoherent
<1>2. ASSUME NEW t \in Threads, Aside(t) PROVE CoherentInv'
  <2>1. PICK point \in Point \ Unsaved : Goto(t, point)
    BY <1>2 DEF Aside
  <2>2. \A u \in Threads : pc'[u] = IF u = t THEN point ELSE pc[u]
    BY <2>1 DEF TypeOK, Goto
  <2>3. PendingInv'
    BY <1>2, <2>2 DEF Aside, CoherentInv, PendingInv
  <2>4. CacheCoherent'
    BY <1>2, <2>2 DEF Aside, CoherentInv, CacheCoherent, Unsaved
  <2>. QED
    BY <2>3, <2>4 DEF CoherentInv
<1>. QED
  BY <1>1, <1>2, CoherentReroute, StepKinds

\* No device is current before the first route.
LEMMA CoherentInit == Init => CoherentInv
BY DEF Init, CoherentInv, PendingInv, Unsaved, CacheCoherent

\* The conjunction is inductive.
LEMMA Inductive ==
  /\ Init => IInv
  /\ IInv /\ [Next]_vars => IInv'
<1>1. Init => IInv
  BY InitType, LockInit, CoherentInit DEF IInv
<1>2. IInv /\ [Next]_vars => IInv'
  BY NextType, LockNext, CoherentNext DEF IInv
<1>. QED
  BY <1>1, <1>2

\* Whatever the threads do, with or without the lock, a current device is the
\* device the DSP routes to, except between a route's RPC and its save and
\* after an RPC that failed.
THEOREM CacheIsCoherent == Spec => []CacheCoherent
<1>1. IInv => CacheCoherent
  BY DEF IInv, CoherentInv
<1>. QED
  BY <1>1, Inductive, PTL DEF Spec

-----------------------------------------------------------------------------
(* The refinement of RouteCache.                                           *)

\* Between a route's RPC and its save the known device is the one being saved.
LEMMA KnownMidRoute ==
  ASSUME NEW t, MidRoute = {t}
  PROVE  KnownDevice = want[t].dev
BY DEF KnownDevice

\* A step that leaves the driver alone and every thread on its side of the
\* unsaved points is a clearing of the memory, or nothing.
LEMMA CacheKept ==
  ASSUME dsp'.dev = dsp.dev, UNCHANGED routeStatus, MidRoute' = MidRoute,
         \A u \in MidRoute : want'[u] = want[u],
         mCurSndDevice' \in {mCurSndDevice, NoDevice}
  PROVE  [Cache!Next]_(Cache!vars)
<1>1. CASE MidRoute = {}
  <2>1. KnownDevice' \in {KnownDevice, NoDevice}
    BY <1>1 DEF KnownDevice
  <2>. QED
    BY <2>1 DEF Cache!Next, Cache!Forget, Cache!vars
<1>2. CASE MidRoute # {}
  <2>. DEFINE u == CHOOSE t \in MidRoute : TRUE
  <2>1. u \in MidRoute
    BY <1>2
  <2>2. KnownDevice = want[u].dev
    BY <1>2 DEF KnownDevice
  <2>3. KnownDevice' = want'[u].dev
    BY <1>2 DEF KnownDevice
  <2>. QED
    BY <2>1, <2>2, <2>3 DEF Cache!vars
<1>. QED
  BY <1>1, <1>2

\* The steps that route: the RPC is the route, and the save changes nothing
\* that is not known already.
LEMMA CacheReroute ==
  ASSUME TypeOK, LockInv, NEW t \in Threads, Reroutes(t)
  PROVE  [Cache!Next]_(Cache!vars)
<1>1. CASE SendRoute(t)
  <2>1. MidRoute' = {t}
    BY <1>1, RouteSent DEF MidRoute, LockedPoint
  <2>2. KnownDevice' = want[t].dev
    BY <2>1, <1>1, RouteSent DEF KnownDevice
  <2>3. CASE routeStatus' = "ok"
    BY <1>1, <2>2, <2>3, RouteSent DEF Cache!Next, Cache!Routed
  <2>4. CASE routeStatus' # "ok"
    BY <1>1, <2>2, <2>4, RouteSent DEF Cache!Next, Cache!Failed
  <2>. QED
    BY <2>3, <2>4
<1>2. CASE Pauses(t)
  <2>1. MidRoute' = MidRoute
    BY <1>2 DEF Pauses, Goto, TypeOK, MidRoute, Unsaved
  <2>. QED
    BY <1>2, <2>1, CacheKept DEF Pauses
<1>3. CASE SaveDevice(t)
  <2>1. \A u \in Threads : pc[u] \in LockedPoint => u = t
    BY <1>3 DEF SaveDevice, LockInv, At, LockedPoint
  <2>2. MidRoute = {t} /\ MidRoute' = {}
    BY <1>3, <2>1 DEF SaveDevice, At, Goto, TypeOK, MidRoute, LockedPoint
  <2>3. KnownDevice = want[t].dev
    BY <2>2, KnownMidRoute
  <2>4. KnownDevice' = want[t].dev
    BY <1>3, <2>2 DEF SaveDevice, KnownDevice
  <2>. QED
    BY <1>3, <2>3, <2>4 DEF SaveDevice, routed, Cache!vars
<1>. QED
  BY <1>1, <1>2, <1>3 DEF Reroutes

\* Every step is one of RouteCache, or nothing.
LEMMA CacheNext ==
  ASSUME TypeOK, LockInv, [Next]_vars
  PROVE  [Cache!Next]_(Cache!vars)
<1>1. CASE Still
  BY <1>1, CacheKept DEF Still, MidRoute
<1>2. ASSUME NEW t \in Threads, Aside(t) PROVE [Cache!Next]_(Cache!vars)
  <2>1. PICK point \in Point \ Unsaved : Goto(t, point)
    BY <1>2 DEF Aside
  <2>2. \A u \in Threads : pc'[u] = IF u = t THEN point ELSE pc[u]
    BY <2>1 DEF TypeOK, Goto
  <2>3. MidRoute' = MidRoute /\ t \notin MidRoute
    BY <1>2, <2>2 DEF Aside, MidRoute, Unsaved
  <2>. QED
    BY <1>2, <2>3, CacheKept DEF Aside, MidRoute
<1>. QED
  BY <1>1, <1>2, CacheReroute, StepKinds

\* Nothing is told and nothing known before the first route.
LEMMA CacheInit == Init => Cache!Init
BY DEF Init, Cache!Init, KnownDevice, MidRoute

\* Seen from the driver and the remembered device, the threads, the lock and
\* the unlocked clearings amount to atomic routes and clearings.
THEOREM ImplementsRouteCache == Spec => RoutesAtomically
<1>1. IInv /\ [Next]_vars => [Cache!Next]_(Cache!vars)
  BY CacheNext DEF IInv
<1>. QED
  BY <1>1, Inductive, CacheInit, PTL DEF Spec, RoutesAtomically, Cache!Spec
=============================================================================
