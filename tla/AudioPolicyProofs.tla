-------------------------- MODULE AudioPolicyProofs --------------------------
(***************************************************************************)
(* Proofs about AudioPolicy, for every set of phone states, pluggable      *)
(* devices, volumes, TTY modes and playing strategies: type correctness; a *)
(* call always has exactly one available device that is not A2DP; and      *)
(* routes and volumes arrive as decided, whatever happens while they wait  *)
(* in the queue of the command thread, and while a volume waits for the    *)
(* lock.                                                                   *)
(***************************************************************************)
EXTENDS AudioPolicy, SequenceTheorems, WellFoundedInduction, TLAPS

-----------------------------------------------------------------------------
(* Orders of priority.                                                     *)

LEMMA FirstAvailable == ASSUME NEW p, NEW order PROVE First(p, order) \subseteq p.available
  BY DEF First

\* An order with an available device selects exactly one of its devices.
LEMMA FirstIsOne ==
  ASSUME NEW p, NEW S, NEW order \in Seq(S),
         NEW n \in 1..Len(order), order[n] \in p.available
  PROVE  \E d \in S \cap p.available : First(p, order) = {d}
<1> DEFINE T == {k \in 1..Len(order) : order[k] \in p.available}
<1>1. T \subseteq Nat /\ T # {}
  OBVIOUS
<1>2. PICK m \in T : \A k \in T : ~ (<<k, m>> \in OpToRel(<, Nat))
  BY <1>1, NatLessThanWellFounded, WFMin
<1>3. \A k \in T : ~(k < m)
  BY <1>1, <1>2 DEF OpToRel
<1>4. \A j \in 1..(m - 1) : order[j] \notin p.available
  BY <1>3
<1>5. ASSUME NEW k \in 1..Len(order), order[k] \in p.available,
             \A j \in 1..(k - 1) : order[j] \notin p.available
      PROVE  k = m
  BY <1>3, <1>4, <1>5
<1>6. First(p, order) = {order[m]}
  BY <1>4, <1>5 DEF First
<1>7. order[m] \in S \cap p.available
  OBVIOUS
<1> QED BY <1>6, <1>7

\* An order that ends with an available device.
LEMMA EndsAvailable ==
  ASSUME NEW p, NEW S, NEW order \in Seq(S), NEW e \in S \cap p.available
  PROVE  \E d \in S \cap p.available : First(p, order \o <<e>>) = {d}
<1> DEFINE whole == order \o <<e>>
           n == Len(order) + 1
<1>1. <<e>> \in Seq(S) /\ Len(<<e>>) = 1 /\ <<e>>[1] = e
  OBVIOUS
<1>2. whole \in Seq(S) /\ Len(whole) = n /\ whole[n] = e
  BY <1>1, ConcatProperties
<1>3. n \in 1..Len(whole) /\ whole[n] \in p.available
  BY <1>2
<1> HIDE DEF whole, n
<1>4. \E d \in S \cap p.available : First(p, whole) = {d}
  BY <1>2, <1>3, FirstIsOne
<1> QED BY <1>4 DEF whole

LEMMA WhenSeq == ASSUME NEW S, NEW c, NEW s \in Seq(S) PROVE When(c, s) \in Seq(S)
  BY DEF When

LEMMA ConcatSeq == ASSUME NEW S, NEW s \in Seq(S), NEW t \in Seq(S) PROVE s \o t \in Seq(S)
  BY ConcatProperties

\* In a call PHONE selects one device that is available and no A2DP device.
LEMMA PhoneInCall ==
  ASSUME NEW p, InCall(p), BuiltIn \subseteq p.available
  PROVE  \E d \in p.available \ A2dp : Phone(p, "PHONE") = {d}
<1> DEFINE S == OutputBit
           carkit == When(~InCall(p) \/ "PHONE" # "DTMF", <<"SCO_CARKIT">>)
           forced == When(p.comm = "BT_SCO", carkit \o <<"SCO_HEADSET", "SCO">>)
           wired == <<"WIRED_HEADPHONE", "WIRED_HEADSET">>
           off(devices) == When(~InCall(p), devices)
           ring == When(p.mPhoneState = "RINGTONE", <<"SPEAKER">>)
<1>1. "SPEAKER" \in S \cap p.available /\ "EARPIECE" \in S \cap p.available
  BY DEF BuiltIn, OutputBit
<1>2. S \cap A2dp = {}
  BY DEF OutputBit, A2dp
<1>3. carkit \in Seq(S)
  BY DEF When, OutputBit
<1>4. \A devices : off(devices) \in Seq(S)
  BY DEF When
<1>5. forced \in Seq(S)
  <2>1. <<"SCO_HEADSET", "SCO">> \in Seq(S)
    BY DEF OutputBit
  <2> HIDE DEF carkit, S
  <2> QED BY <1>3, <2>1, WhenSeq, ConcatSeq
<1>6. wired \in Seq(S) /\ ring \in Seq(S)
  <2>1. wired \in Seq(S)
    BY DEF OutputBit
  <2>2. <<"SPEAKER">> \in Seq(S)
    BY DEF OutputBit
  <2> QED BY <2>1, <2>2, WhenSeq
<1>7. CASE p.comm = "SPEAKER"
  <2> DEFINE order == carkit \o off(<<"A2DP_SPEAKER">>)
  <2>1. Phone(p, "PHONE") = First(p, order \o <<"SPEAKER">>)
    BY <1>7 DEF Phone
  <2> HIDE DEF carkit, off, S
  <2>2. order \in Seq(S)
    BY <1>3, <1>4, ConcatSeq
  <2> HIDE DEF order
  <2>3. \E d \in S \cap p.available : First(p, order \o <<"SPEAKER">>) = {d}
    BY <2>2, <1>1, EndsAvailable
  <2> QED BY <2>1, <2>3, <1>2
<1>8. CASE p.comm # "SPEAKER"
  <2> DEFINE order == forced \o wired \o off(<<"A2DP", "A2DP_HEADPHONES">>) \o ring
  <2>1. Phone(p, "PHONE") = First(p, order \o <<"EARPIECE">>)
    BY <1>8 DEF Phone
  <2> HIDE DEF forced, wired, off, ring, S
  <2>2. order \in Seq(S)
    BY <1>4, <1>5, <1>6, ConcatSeq
  <2> HIDE DEF order
  <2>3. \E d \in S \cap p.available : First(p, order \o <<"EARPIECE">>) = {d}
    BY <2>2, <1>1, EndsAvailable
  <2> QED BY <2>1, <2>3, <1>2
<1> QED BY <1>7, <1>8

-----------------------------------------------------------------------------
(* Type correctness.                                                       *)

LEMMA StrategyTyped ==
  ASSUME NEW p \in PolicyState, NEW strategy, NEW phone
  PROVE  getDeviceForStrategy(p, strategy, phone) \in SUBSET Device
<1>1. p.available \subseteq Device
  BY DEF PolicyState
<1>2. \A s : Phone(p, s) \subseteq Device
  BY <1>1, FirstAvailable DEF Phone
<1>3. Media(p, phone) \subseteq Device
  BY <1>1, FirstAvailable DEF Media
<1>4. First(p, <<"SPEAKER">>) \subseteq Device
  BY <1>1, FirstAvailable
<1> QED BY <1>2, <1>3, <1>4 DEF getDeviceForStrategy

LEMMA NewDeviceTyped ==
  ASSUME NEW p \in PolicyState, NEW strategy
  PROVE  getNewDevice(p, strategy) \in SUBSET Device
<1>1. Phone(p, "PHONE") \in SUBSET Device
  BY StrategyTyped DEF getDeviceForStrategy
<1> QED BY <1>1, StrategyTyped DEF getNewDevice

LEMMA VoiceTyped == ASSUME NEW v \in 0..IndexMax PROVE <<Voice(v)>> \in Seq(Command)
  BY DEF Voice, Command

LEMMA FmTyped == ASSUME NEW v \in 0..100 PROVE <<Fm(v)>> \in Seq(Command)
  BY DEF Fm, Command

LEMMA RouteTyped == ASSUME NEW d \in SUBSET Device PROVE <<RouteTo(d)>> \in Seq(Command)
  BY DEF RouteTo, Command

LEMMA VolumeTyped ==
  ASSUME NEW p, NEW idx \in [voice : VoiceIndices, fm : FmVolumes],
         NEW stream \in {"VOICE_CALL", "BLUETOOTH_SCO", "FM"}
  PROVE  checkAndSetVolume(p, stream, idx) \in Seq(Command)
<1>1. idx.voice \in 0..IndexMax /\ idx.fm \in 0..100
  <2>1. VoiceIndices \subseteq 0..IndexMax /\ FmVolumes \subseteq 0..100
    BY PolicyAssumption
  <2>2. idx.voice \in VoiceIndices /\ idx.fm \in FmVolumes
    OBVIOUS
  <2> QED BY <2>1, <2>2
<1>2. <<Voice(idx.voice)>> \in Seq(Command) /\ <<Voice(IndexMax)>> \in Seq(Command)
  <2>1. IndexMax \in 0..IndexMax
    BY DEF IndexMax
  <2> QED BY <1>1, <2>1, VoiceTyped
<1>3. <<Fm(idx.fm)>> \in Seq(Command)
  BY <1>1, FmTyped
<1> QED BY <1>2, <1>3, WhenSeq DEF checkAndSetVolume

LEMMA VolumesTyped ==
  ASSUME NEW p, index \in [voice : VoiceIndices, fm : FmVolumes]
  PROVE  applyStreamVolumes(p) \in Seq(Command)
  BY VolumeTyped, ConcatSeq DEF applyStreamVolumes

\* What setOutputDevice() leaves.
OutputType == mDevice \in SUBSET (Device \ A2dp) /\ commands \in Seq(Command)

LEMMA SetOutputTyped ==
  ASSUME OutputType, index \in [voice : VoiceIndices, fm : FmVolumes],
         NEW p, NEW device \in SUBSET Device, NEW force, NEW volumes,
         setOutputDevice(p, device, force, volumes)
  PROVE  OutputType'
<1> DEFINE wanted == IF device \ A2dp = {} /\ force THEN mDevice ELSE device \ A2dp
           routes == wanted # {} /\ (force \/ wanted # mDevice)
<1>1. wanted \in SUBSET (Device \ A2dp)
  BY DEF OutputType
<1>2. /\ mDevice' = IF routes THEN wanted ELSE mDevice
      /\ commands' = commands \o When(routes, <<RouteTo(wanted)>>)
                     \o When(routes \/ volumes, applyStreamVolumes(p))
  BY DEF setOutputDevice
<1>3. <<RouteTo(wanted)>> \in Seq(Command) /\ applyStreamVolumes(p) \in Seq(Command)
  BY <1>1, RouteTyped, VolumesTyped
<1> HIDE DEF wanted, routes
<1>4. commands' \in Seq(Command)
  BY <1>2, <1>3, WhenSeq, ConcatSeq DEF OutputType
<1>5. mDevice' \in SUBSET (Device \ A2dp)
  BY <1>1, <1>2 DEF OutputType
<1> QED BY <1>4, <1>5 DEF OutputType

\* The policy's part of the state, and the hardware's.
PolicyPart ==
  /\ policy \in PolicyState
  /\ mDeviceForStrategy \in [Strategy -> SUBSET Device]
  /\ playing \in Strategy \cup {"none"}
  /\ index \in [voice : VoiceIndices, fm : FmVolumes]
  /\ OutputType

HalPart ==
  /\ mMode \in PhoneStates /\ mTtyMode \in TtyMode
  /\ mDevices \in SUBSET OutputBit
  /\ mCurSndDevice \in CurrentDevice /\ sndDevice \in CurrentDevice
  /\ vol \in Level
  /\ sent \in Sent

LEMMA Parts == PolicyTypeOK <=> PolicyPart /\ HalPart
  BY DEF PolicyTypeOK, PolicyPart, HalPart, OutputType

LEMMA ChangedTyped ==
  ASSUME PolicyPart, NEW p \in PolicyState, NEW force, NEW volumes,
         Changed(p, force, volumes), UNCHANGED <<playing, index>>
  PROVE  PolicyPart'
<1>1. policy' = p /\ updateDeviceForStrategy(p)
      /\ setOutputDevice(p, getNewDevice(p, playing), force, volumes)
  BY DEF Changed
<1>2. mDeviceForStrategy' \in [Strategy -> SUBSET Device]
  BY <1>1, StrategyTyped DEF updateDeviceForStrategy
<1>3. OutputType'
  BY <1>1, NewDeviceTyped, SetOutputTyped DEF PolicyPart
<1> QED BY <1>1, <1>2, <1>3 DEF PolicyPart

LEMMA DoRoutingTyped ==
  ASSUME HalPart, mTtyMode' \in TtyMode, DoRouting
  PROVE  mCurSndDevice' \in SndDevice /\ sndDevice' \in SndDevice
<1>1. \A t \in TtyMode : \A d : OutputRoute(d, FALSE, t, mMode).dev \in SndDevice
  <2> SUFFICES ASSUME NEW t \in TtyMode, NEW d
               PROVE  OutputRoute(d, FALSE, t, mMode).dev \in SndDevice
    OBVIOUS
  <2>1. t # "OFF" => TtyRoute(t).dev \in SndDevice
    BY DEF TtyRoute, Route, TtyMode, SndDevice
  <2> QED BY <2>1 DEF OutputRoute, Route, SndDevice, PostProcDevice
<1> QED BY <1>1 DEF DoRouting

LEMMA InitTyped == Init => PolicyTypeOK
<1> SUFFICES ASSUME Init PROVE PolicyTypeOK
  OBVIOUS
<1>1. policy \in PolicyState
  BY PolicyAssumption DEF Init, PolicyState, ForComm, ForMedia, BuiltIn, Device, OutputBit
<1>2. mDeviceForStrategy \in [Strategy -> SUBSET Device]
  BY <1>1, StrategyTyped DEF Init
<1>3. playing \in Strategy \cup {"none"} /\ index \in [voice : VoiceIndices, fm : FmVolumes]
  BY DEF Init
<1>4. mDevice \in SUBSET (Device \ A2dp)
  BY DEF Init, Device, OutputBit, A2dp
<1>5. commands \in Seq(Command)
  <2>1. {"SPEAKER"} \in SUBSET Device
    BY DEF Device, OutputBit
  <2>2. <<RouteTo({"SPEAKER"})>> \in Seq(Command) /\ applyStreamVolumes(policy) \in Seq(Command)
    BY <2>1, <1>3, RouteTyped, VolumesTyped
  <2> QED BY <2>2, ConcatSeq DEF Init
<1>6. HalPart
  <2>1. sent \in Sent /\ vol \in Level
    BY DEF Init, Sent, Level, NoLevel, CurrentDevice
  <2>2. mMode \in PhoneStates /\ mTtyMode \in TtyMode
    BY PolicyAssumption DEF Init, TtyMode
  <2>3. mDevices \in SUBSET OutputBit
    BY DEF Init, OutputBit
  <2> QED BY <2>1, <2>2, <2>3 DEF Init, HalPart, CurrentDevice
<1> QED BY <1>1, <1>2, <1>3, <1>4, <1>5, <1>6, Parts DEF PolicyPart, OutputType

\* The command at the head of the queue, and the queue without it.
LEMMA HeadTyped == ASSUME PolicyPart, commands # <<>> PROVE Head(commands) \in Command
<1>1. commands \in Seq(Command)
  BY DEF PolicyPart, OutputType
<1> QED BY <1>1, HeadTailProperties

LEMMA CommandTyped ==
  ASSUME PolicyPart, NEW kind, Executing(kind)
  PROVE  /\ Head(commands) \in Command /\ Head(commands).do = kind
         /\ PolicyPart'
<1>1. commands \in Seq(Command) /\ commands # <<>> /\ commands' = Tail(commands)
  BY DEF PolicyPart, OutputType, Executing
<1>2. Head(commands) \in Command /\ commands' \in Seq(Command)
  BY <1>1, HeadTailProperties
<1>3. UNCHANGED <<policy, mDeviceForStrategy, playing, mDevice, index>>
      /\ Head(commands).do = kind
  BY DEF Executing
<1> QED BY <1>2, <1>3 DEF PolicyPart, OutputType

\* An argument is what its command takes.
LEMMA ArgumentTyped ==
  ASSUME NEW c \in Command
  PROVE  /\ c.do = "voice" => c.arg \in 0..IndexMax
         /\ c.do = "fm" => c.arg \in 0..100
  BY DEF Command

LEMMA TypeStep == PolicyTypeOK /\ [Next]_vars => PolicyTypeOK'
<1> SUFFICES ASSUME PolicyPart, HalPart, [Next]_vars PROVE PolicyPart' /\ HalPart'
  BY Parts, PTL
<1>1. CASE SetMode
  BY <1>1 DEF SetMode, PolicyPart, HalPart, OutputType, CurrentDevice
<1>2. CASE SetPhoneState
  <2>1. [policy EXCEPT !.mPhoneState = mMode] \in PolicyState
    BY DEF PolicyPart, HalPart, PolicyState
  <2>2. PolicyPart'
    BY <1>2, <2>1, ChangedTyped DEF SetPhoneState
  <2> QED BY <1>2, <2>2 DEF SetPhoneState, HalPart, hal
<1>3. CASE SetForceUse
  <2>1. \A use \in ForComm : [policy EXCEPT !.comm = use] \in PolicyState
    BY DEF PolicyPart, PolicyState
  <2>2. \A use \in ForMedia : [policy EXCEPT !.media = use] \in PolicyState
    BY DEF PolicyPart, PolicyState
  <2>3. \E p \in PolicyState, volumes \in BOOLEAN : Changed(p, FALSE, volumes)
    BY <1>3, <2>1, <2>2 DEF SetForceUse
  <2>4. PolicyPart'
    BY <1>3, <2>3, ChangedTyped DEF SetForceUse
  <2> QED BY <1>3, <2>4 DEF SetForceUse, HalPart, hal
<1>4. CASE SetDeviceConnectionState
  <2>1. PICK d \in Pluggable :
          Changed([policy EXCEPT !.available = IF d \in @ THEN @ \ {d} ELSE @ \cup {d}],
                  FALSE, FALSE)
    BY <1>4 DEF SetDeviceConnectionState
  <2>2. [policy EXCEPT !.available = IF d \in @ THEN @ \ {d} ELSE @ \cup {d}] \in PolicyState
    <3>1. d \in Device
      BY PolicyAssumption
    <3> QED BY <3>1 DEF PolicyPart, PolicyState
  <2>3. PolicyPart'
    BY <1>4, <2>1, <2>2, ChangedTyped DEF SetDeviceConnectionState
  <2> QED BY <1>4, <2>3 DEF SetDeviceConnectionState, HalPart, hal
<1>5. CASE StartOutput
  <2>1. getNewDevice(policy, playing') \in SUBSET Device
    BY NewDeviceTyped DEF PolicyPart
  <2>2. OutputType'
    BY <1>5, <2>1, SetOutputTyped DEF StartOutput, PolicyPart
  <2>3. playing' \in Strategy
    BY <1>5, PolicyAssumption DEF StartOutput
  <2> QED BY <1>5, <2>2, <2>3 DEF StartOutput, PolicyPart, HalPart, hal
<1>6. CASE StopOutput
  BY <1>6 DEF StopOutput, PolicyPart, HalPart, OutputType, hal
<1>7. CASE SetStreamVolumeIndex
  <2>1. index' \in [voice : VoiceIndices, fm : FmVolumes]
    BY <1>7 DEF SetStreamVolumeIndex, PolicyPart
  <2>2. \E stream \in {"VOICE_CALL", "FM"} :
          commands' = commands \o checkAndSetVolume(policy, stream, index')
    BY <1>7 DEF SetStreamVolumeIndex
  <2>3. commands' \in Seq(Command)
    BY <2>1, <2>2, VolumeTyped, ConcatSeq DEF PolicyPart, OutputType
  <2> QED BY <1>7, <2>1, <2>3 DEF SetStreamVolumeIndex, PolicyPart, HalPart, OutputType, hal
<1>8. CASE SetTtyMode
  <2>1. mTtyMode' \in TtyMode
    BY <1>8, PolicyAssumption DEF SetTtyMode
  <2>2. mCurSndDevice' \in CurrentDevice /\ sndDevice' \in CurrentDevice
    BY <1>8, <2>1, DoRoutingTyped DEF SetTtyMode, HalPart, CurrentDevice
  <2> QED BY <1>8, <2>1, <2>2 DEF SetTtyMode, PolicyPart, HalPart, OutputType
<1>9. CASE ExecuteRoute
  <2>1. PolicyPart' /\ UNCHANGED <<mMode, mTtyMode, vol, sent>>
    BY <1>9, CommandTyped DEF ExecuteRoute, Executing
  <2>2. mCurSndDevice' \in SndDevice /\ sndDevice' \in SndDevice
    BY <1>9, <2>1, DoRoutingTyped DEF ExecuteRoute, HalPart
  <2>3. mDevices' \in SUBSET OutputBit
    BY <1>9 DEF ExecuteRoute
  <2> QED BY <2>1, <2>2, <2>3 DEF HalPart, CurrentDevice
<1>10. CASE VoiceLevelChosen
  <2>1. Head(commands).arg \in 0..IndexMax
    BY <1>10, HeadTyped, ArgumentTyped DEF VoiceLevelChosen
  <2>2. VoiceLevel(Head(commands).arg) \in Nat
    BY <2>1 DEF VoiceLevel, IndexMax
  <2>3. vol' \in Level
    BY <1>10, <2>2 DEF VoiceLevelChosen, HalPart, Level
  <2> QED BY <1>10, <2>3 DEF VoiceLevelChosen, PolicyPart, OutputType, HalPart
<1>11. CASE setVoiceVolume
  <2>1. PolicyPart'
    BY <1>11, CommandTyped DEF setVoiceVolume
  <2>2. sent' \in Sent /\ vol' \in Level
    BY <1>11 DEF setVoiceVolume, Sending, HalPart, Sent, Level, NoLevel, CurrentDevice
  <2> QED BY <1>11, <2>1, <2>2 DEF setVoiceVolume, Executing, HalPart
<1>12. CASE setFmVolume
  <2>1. PolicyPart' /\ Head(commands).arg \in 0..100
    BY <1>12, CommandTyped, ArgumentTyped DEF setFmVolume
  <2>2. FmLevel(Head(commands).arg) \in Nat
    BY <2>1 DEF FmLevel
  <2>3. sent' \in Sent
    BY <1>12, <2>2 DEF setFmVolume, Sending, HalPart, Sent, CurrentDevice
  <2> QED BY <1>12, <2>1, <2>3 DEF setFmVolume, Executing, HalPart
<1>13. CASE UNCHANGED vars
  BY <1>13 DEF vars, hal, PolicyPart, HalPart, OutputType
<1> QED BY <1>1, <1>2, <1>3, <1>4, <1>5, <1>6, <1>7, <1>8, <1>9, <1>10, <1>11, <1>12, <1>13
        DEF Next

\* Whatever the telephony layer, the user and the plugs do, devices stay
\* devices, commands stay commands, and none of them takes the output to A2DP.
THEOREM PolicyTypeCorrect == Spec => []PolicyTypeOK
<1> QED BY InitTyped, TypeStep, PTL DEF Spec

-----------------------------------------------------------------------------
(* A call always has a device.                                             *)

\* What is built in cannot be unplugged: with it every order of PHONE ends.
CallInv == BuiltIn \subseteq policy.available /\ CallHasDevice

\* In a call setOutputDevice() leaves the output on the device of PHONE,
\* whether it routes or finds it there.
LEMMA OutputInCall ==
  ASSUME NEW p, NEW strategy, NEW force, NEW volumes,
         InCall(p), BuiltIn \subseteq p.available,
         setOutputDevice(p, getNewDevice(p, strategy), force, volumes)
  PROVE  \E d \in p.available \ A2dp : mDevice' = {d}
<1>1. PICK d \in p.available \ A2dp : Phone(p, "PHONE") = {d}
  BY PhoneInCall
<1>2. getNewDevice(p, strategy) = {d}
  BY <1>1 DEF getNewDevice
<1>3. {d} \ A2dp = {d} /\ {d} # {}
  BY <1>1
<1>4. mDevice' = {d}
  BY <1>2, <1>3 DEF setOutputDevice
<1> QED BY <1>1, <1>4

LEMMA ChangedInCall ==
  ASSUME NEW p, NEW force, NEW volumes, BuiltIn \subseteq p.available,
         Changed(p, force, volumes)
  PROVE  CallInv'
<1>1. policy' = p
  BY DEF Changed
<1>2. ASSUME InCall(p) PROVE \E d \in p.available \ A2dp : mDevice' = {d}
  BY <1>2, OutputInCall DEF Changed
<1> QED BY <1>1, <1>2 DEF CallInv, CallHasDevice, InCall

LEMMA CallInit == Init => CallInv
  BY DEF Init, CallInv, CallHasDevice, InCall

LEMMA CallStep == PolicyTypeOK /\ CallInv /\ [Next]_vars => CallInv'
<1> SUFFICES ASSUME PolicyTypeOK, CallInv, [Next]_vars PROVE CallInv'
  OBVIOUS
<1>0. policy \in PolicyState /\ BuiltIn \subseteq policy.available
  BY DEF PolicyTypeOK, CallInv
<1>1. CASE SetPhoneState
  <2>1. [policy EXCEPT !.mPhoneState = mMode].available = policy.available
    BY <1>0 DEF PolicyState
  <2> QED BY <1>0, <1>1, <2>1, ChangedInCall DEF SetPhoneState
<1>2. CASE SetForceUse
  <2>1. \A use : /\ [policy EXCEPT !.comm = use].available = policy.available
                 /\ [policy EXCEPT !.media = use].available = policy.available
    BY <1>0 DEF PolicyState
  <2>2. \E p, volumes : p.available = policy.available /\ Changed(p, FALSE, volumes)
    BY <1>2, <2>1 DEF SetForceUse
  <2> QED BY <1>0, <2>2, ChangedInCall
<1>3. CASE SetDeviceConnectionState
  <2>1. PICK d \in Pluggable :
          Changed([policy EXCEPT !.available = IF d \in @ THEN @ \ {d} ELSE @ \cup {d}],
                  FALSE, FALSE)
    BY <1>3 DEF SetDeviceConnectionState
  <2>2. d \notin BuiltIn
    BY PolicyAssumption
  <2>3. BuiltIn \subseteq
          [policy EXCEPT !.available = IF d \in @ THEN @ \ {d} ELSE @ \cup {d}].available
    BY <1>0, <2>2 DEF PolicyState
  <2> QED BY <2>1, <2>3, ChangedInCall
<1>4. CASE StartOutput
  <2>1. policy' = policy
        /\ setOutputDevice(policy, getNewDevice(policy, playing'), FALSE, FALSE)
    BY <1>4 DEF StartOutput
  <2>2. ASSUME InCall(policy) PROVE \E d \in policy.available \ A2dp : mDevice' = {d}
    BY <1>0, <2>1, <2>2, OutputInCall
  <2> QED BY <1>0, <2>1, <2>2 DEF CallInv, CallHasDevice, InCall
<1>5. ASSUME UNCHANGED <<policy, mDevice>> PROVE CallInv'
  BY <1>5 DEF CallInv, CallHasDevice, InCall
<1>6. CASE SetMode \/ SetTtyMode \/ StopOutput \/ SetStreamVolumeIndex
  BY <1>5, <1>6 DEF SetMode, SetTtyMode, StopOutput, SetStreamVolumeIndex
<1>7. CASE ExecuteRoute \/ VoiceLevelChosen \/ setVoiceVolume \/ setFmVolume
  BY <1>5, <1>7 DEF ExecuteRoute, VoiceLevelChosen, setVoiceVolume, setFmVolume, Executing
<1>8. CASE UNCHANGED vars
  BY <1>5, <1>8 DEF vars
<1> QED BY <1>1, <1>2, <1>3, <1>4, <1>6, <1>7, <1>8 DEF Next

\* Whatever is plugged, forced or playing, in a call the output is on exactly
\* one device, available and not A2DP: getDeviceForStrategy() always ends at
\* the earpiece or the speaker, and both ends of a call force the route.
THEOREM CallAlwaysHasDevice == Spec => []CallHasDevice
<1>1. CallInv => CallHasDevice
  BY DEF CallInv
<1> QED BY <1>1, CallInit, CallStep, PolicyTypeCorrect, PTL DEF Spec
-----------------------------------------------------------------------------
(* A call follows the policy.                                              *)

\* The commands of a kind in a queue, by position.
Of(q, kind) == {i \in 1..Len(q) : q[i].do = kind}

\* The last command of its kind, if there is one, says x.
LastIs(q, kind, x) ==
  \A i \in Of(q, kind) : (\A j \in Of(q, kind) : j <= i) => q[i].arg = x

\* Each route is followed by a voice volume.
VoiceAfterRoute(q) == \A i \in Of(q, "route") : \E j \in Of(q, "voice") : i < j

\* The index the policy means the voice volume to have.
WantedIndex(p, idx) == IF p.comm = "BT_SCO" THEN IndexMax ELSE idx.voice

Reached(device, dev) == \E tty \in TtyMode : dev = OutputRoute(device, FALSE, tty, "IN_CALL").dev

\* A voice volume says what was seen and what is wanted, FM's what the user wants.
VoiceSays(idx, level, saw) == level = IF TtyOwnsVolume(saw) THEN 1 ELSE idx + 1
FmSays(volume, level) == 20 * level \in volume .. volume + 19

VolumeArrived ==
  /\ Reached(mDevice, sent.dev)
  /\ \/ sent.by = "fm" /\ FmSays(index.fm, sent.level)
     \/ /\ sent.by = "voice" /\ Reached(mDevice, sent.saw)
        /\ VoiceSays(WantedIndex(policy, index), sent.level, sent.saw)

\* The queue ends with what the policy wants; and in a call that policy and
\* hardware agree on, what is no longer queued has arrived.
QueueInv ==
  /\ LastIs(commands, "route", mDevice)
  /\ LastIs(commands, "voice", WantedIndex(policy, index))
  /\ LastIs(commands, "fm", index.fm)
  /\ VoiceAfterRoute(commands)
  /\ Of(commands, "route") = {} => mDevices = mDevice \cap OutputBit

\* A level that waits for the lock is of the command at the head.
PendingInv ==
  vol # NoLevel =>
    /\ commands # <<>> /\ Head(commands).do = "voice"
    /\ VoiceSays(Head(commands).arg, vol.level, vol.saw)
    /\ (InCall(policy) /\ mMode = "IN_CALL" /\ Of(commands, "route") = {}) =>
         Reached(mDevice, vol.saw)

NoVolumes(q) == Of(q, "voice") = {} /\ Of(q, "fm") = {}

ArrivedInv ==
  (InCall(policy) /\ mMode = "IN_CALL") =>
    /\ Of(commands, "route") = {} =>
         Reached(mDevice, sndDevice) /\ mCurSndDevice = sndDevice
    /\ NoVolumes(commands) => VolumeArrived

FollowInv == QueueInv /\ PendingInv /\ ArrivedInv

LEMMA OfConcat ==
  ASSUME NEW q \in Seq(Command), NEW t \in Seq(Command), NEW kind
  PROVE  /\ \A i \in Of(q, kind) : i \in Of(q \o t, kind)
         /\ \A i \in Of(t, kind) : Len(q) + i \in Of(q \o t, kind)
         /\ \A i \in Of(q \o t, kind) :
              IF i <= Len(q) THEN i \in Of(q, kind) /\ (q \o t)[i] = q[i]
              ELSE i - Len(q) \in Of(t, kind) /\ (q \o t)[i] = t[i - Len(q)]
<1>1. Len(q) \in Nat /\ Len(t) \in Nat
  BY LenProperties
<1>2. /\ Len(q \o t) = Len(q) + Len(t)
      /\ \A i \in 1..(Len(q) + Len(t)) :
           (q \o t)[i] = IF i <= Len(q) THEN q[i] ELSE t[i - Len(q)]
  BY ConcatProperties
<1> QED BY <1>1, <1>2 DEF Of

LEMMA LastConcat ==
  ASSUME NEW q \in Seq(Command), NEW t \in Seq(Command), NEW kind, NEW x,
         LastIs(t, kind, x), Of(t, kind) = {} => LastIs(q, kind, x)
  PROVE  LastIs(q \o t, kind, x)
<1> SUFFICES ASSUME NEW i \in Of(q \o t, kind), \A j \in Of(q \o t, kind) : j <= i
             PROVE  (q \o t)[i].arg = x
  BY DEF LastIs
<1>1. Len(q) \in Nat /\ i \in Nat
  BY LenProperties DEF Of
<1>2. CASE i <= Len(q)
  <2>1. i \in Of(q, kind) /\ (q \o t)[i] = q[i] /\ \A j \in Of(q, kind) : j <= i
    BY <1>2, OfConcat
  <2>2. ASSUME NEW j \in Of(t, kind) PROVE FALSE
    <3>1. j \in Nat \ {0} /\ Len(q) + j <= i
      BY <2>2, OfConcat DEF Of
    <3> QED BY <1>1, <1>2, <3>1
  <2> QED BY <2>1, <2>2 DEF LastIs
<1>3. CASE ~(i <= Len(q))
  <2>1. i - Len(q) \in Of(t, kind) /\ (q \o t)[i] = t[i - Len(q)]
    BY <1>3, OfConcat
  <2>2. ASSUME NEW j \in Of(t, kind) PROVE j <= i - Len(q)
    <3>1. j \in Nat /\ Len(q) + j <= i
      BY <2>2, OfConcat DEF Of
    <3> QED BY <1>1, <3>1
  <2> QED BY <2>1, <2>2 DEF LastIs
<1> QED BY <1>2, <1>3

LEMMA VoiceAfterConcat ==
  ASSUME NEW q \in Seq(Command), NEW t \in Seq(Command),
         VoiceAfterRoute(q), VoiceAfterRoute(t)
  PROVE  VoiceAfterRoute(q \o t)
<1> SUFFICES ASSUME NEW i \in Of(q \o t, "route")
             PROVE  \E j \in Of(q \o t, "voice") : i < j
  BY DEF VoiceAfterRoute
<1>1. Len(q) \in Nat /\ i \in Nat
  BY LenProperties DEF Of
<1>2. CASE i <= Len(q)
  <2>1. PICK j \in Of(q, "voice") : i < j
    BY <1>2, OfConcat DEF VoiceAfterRoute
  <2> QED BY <2>1, OfConcat
<1>3. CASE ~(i <= Len(q))
  <2>1. i - Len(q) \in Of(t, "route")
    BY <1>3, OfConcat
  <2>2. PICK j \in Of(t, "voice") : i - Len(q) < j
    BY <2>1 DEF VoiceAfterRoute
  <2>3. j \in Nat /\ i < Len(q) + j
    BY <1>1, <2>2 DEF Of
  <2> QED BY <2>2, <2>3, OfConcat
<1> QED BY <1>2, <1>3
LEMMA OfTail ==
  ASSUME NEW q \in Seq(Command), q # <<>>, NEW kind
  PROVE  /\ Head(q) = q[1]
         /\ \A i \in Of(Tail(q), kind) : i + 1 \in Of(q, kind) /\ Tail(q)[i] = q[i + 1]
         /\ \A i \in Of(q, kind) : i # 1 => i - 1 \in Of(Tail(q), kind)
         /\ 1 \in Of(q, kind) <=> Head(q).do = kind
<1>1. Len(q) \in Nat \ {0}
  BY EmptySeq
<1>2. Len(Tail(q)) = Len(q) - 1 /\ \A i \in 1..Len(Tail(q)) : Tail(q)[i] = q[i + 1]
  BY HeadTailProperties
<1>3. Head(q) = q[1]
  OBVIOUS
<1> QED BY <1>1, <1>2, <1>3 DEF Of

\* The head is the last command of its kind only when it says x itself.
LEMMA LastTail ==
  ASSUME NEW q \in Seq(Command), q # <<>>, NEW kind, NEW x, LastIs(q, kind, x)
  PROVE  /\ LastIs(Tail(q), kind, x)
         /\ (Head(q).do = kind /\ Of(Tail(q), kind) = {}) => Head(q).arg = x
<1>1. LastIs(Tail(q), kind, x)
  <2> SUFFICES ASSUME NEW i \in Of(Tail(q), kind), \A j \in Of(Tail(q), kind) : j <= i
               PROVE  Tail(q)[i].arg = x
    BY DEF LastIs
  <2>1. i \in Nat /\ i + 1 \in Of(q, kind) /\ Tail(q)[i] = q[i + 1]
    BY OfTail DEF Of
  <2>2. ASSUME NEW j \in Of(q, kind) PROVE j <= i + 1
    <3>1. j \in Nat
      BY DEF Of
    <3>2. CASE j # 1
      <4>1. j - 1 <= i
        BY <3>2, OfTail
      <4> QED BY <2>1, <3>1, <4>1
    <3>3. CASE j = 1
      BY <2>1, <3>3
    <3> QED BY <3>2, <3>3
  <2> QED BY <2>1, <2>2 DEF LastIs
<1>2. ASSUME Head(q).do = kind, Of(Tail(q), kind) = {} PROVE Head(q).arg = x
  <2>1. 1 \in Of(q, kind) /\ Head(q) = q[1]
    BY <1>2, OfTail
  <2>2. \A j \in Of(q, kind) : j <= 1
    BY <1>2, OfTail
  <2> QED BY <2>1, <2>2 DEF LastIs
<1> QED BY <1>1, <1>2

LEMMA NoneTail ==
  ASSUME NEW q \in Seq(Command), q # <<>>, NEW kind,
         Head(q).do # kind, Of(Tail(q), kind) = {}
  PROVE  Of(q, kind) = {}
  BY OfTail

LEMMA VoiceAfterTail ==
  ASSUME NEW q \in Seq(Command), q # <<>>, VoiceAfterRoute(q)
  PROVE  /\ VoiceAfterRoute(Tail(q))
         /\ Of(Tail(q), "voice") = {} => Of(Tail(q), "route") = {}
<1>1. VoiceAfterRoute(Tail(q))
  <2> SUFFICES ASSUME NEW i \in Of(Tail(q), "route")
               PROVE  \E j \in Of(Tail(q), "voice") : i < j
    BY DEF VoiceAfterRoute
  <2>1. i \in Nat /\ i + 1 \in Of(q, "route")
    BY OfTail DEF Of
  <2>2. PICK j \in Of(q, "voice") : i + 1 < j
    BY <2>1 DEF VoiceAfterRoute
  <2>3. j \in Nat /\ j # 1
    BY <2>1, <2>2 DEF Of
  <2>4. j - 1 \in Of(Tail(q), "voice") /\ i < j - 1
    BY <2>1, <2>2, <2>3, OfTail
  <2> QED BY <2>4
<1> QED BY <1>1 DEF VoiceAfterRoute

LEMMA ConcatUnits ==
  ASSUME NEW a, NEW b, NEW c
  PROVE  <<a>> \o <<b>> = <<a, b>> /\ <<a>> \o <<b, c>> = <<a, b, c>>
<1> DEFINE S == {a, b, c}
<1>1. /\ <<a>> \in Seq(S) /\ <<b>> \in Seq(S) /\ <<b, c>> \in Seq(S)
      /\ <<a, b>> \in Seq(S) /\ <<a, b, c>> \in Seq(S)
  OBVIOUS
<1>2. /\ <<a>> \o <<b>> \in Seq(S) /\ Len(<<a>> \o <<b>>) = Len(<<a, b>>)
      /\ \A i \in 1..Len(<<a>> \o <<b>>) : (<<a>> \o <<b>>)[i] = <<a, b>>[i]
  BY <1>1, ConcatProperties
<1>3. /\ <<a>> \o <<b, c>> \in Seq(S) /\ Len(<<a>> \o <<b, c>>) = Len(<<a, b, c>>)
      /\ \A i \in 1..Len(<<a>> \o <<b, c>>) : (<<a>> \o <<b, c>>)[i] = <<a, b, c>>[i]
  BY <1>1, ConcatProperties
<1> HIDE DEF S
<1>4. <<a>> \o <<b>> = <<a, b>>
  BY <1>1, <1>2, SeqEqual, Zenon
<1>5. <<a>> \o <<b, c>> = <<a, b, c>>
  BY <1>1, <1>3, SeqEqual, Zenon
<1> QED BY <1>4, <1>5

\* A volume for the voice, and one for FM.
LEMMA VolumesAre ==
  ASSUME NEW p
  PROVE  applyStreamVolumes(p) = <<Voice(WantedIndex(p, index)), Fm(index.fm)>>
<1> DEFINE v == Voice(WantedIndex(p, index))
           f == Fm(index.fm)
<1>1. checkAndSetVolume(p, "FM", index) = <<f>>
  BY DEF checkAndSetVolume
<1>2. /\ checkAndSetVolume(p, "VOICE_CALL", index) = IF p.comm = "BT_SCO" THEN <<>> ELSE <<v>>
      /\ checkAndSetVolume(p, "BLUETOOTH_SCO", index) = IF p.comm = "BT_SCO" THEN <<v>> ELSE <<>>
  BY DEF checkAndSetVolume, When, WantedIndex
<1> HIDE DEF v, f
<1>3. <<v>> \o <<>> = <<v>> /\ <<>> \o <<v>> = <<v>>
  OBVIOUS
<1>4. applyStreamVolumes(p) = <<v>> \o <<f>>
  BY <1>1, <1>2, <1>3 DEF applyStreamVolumes
<1> QED BY <1>4, ConcatUnits DEF v, f

LEMMA RouteAndVolumes ==
  ASSUME NEW d, NEW w, NEW v
  PROVE  LET u == <<RouteTo(d), Voice(w), Fm(v)>>
         IN  /\ Of(u, "route") = {1} /\ Of(u, "voice") = {2}
             /\ LastIs(u, "route", d) /\ LastIs(u, "voice", w) /\ LastIs(u, "fm", v)
             /\ VoiceAfterRoute(u)
<1> DEFINE u == <<RouteTo(d), Voice(w), Fm(v)>>
<1>1. /\ Len(u) = 3 /\ u[1].do = "route" /\ u[1].arg = d
      /\ u[2].do = "voice" /\ u[2].arg = w /\ u[3].do = "fm" /\ u[3].arg = v
  BY DEF RouteTo, Voice, Fm
<1> HIDE DEF u
<1>2. Of(u, "route") = {1} /\ Of(u, "voice") = {2} /\ Of(u, "fm") = {3}
  BY <1>1 DEF Of
<1>3. LastIs(u, "route", d) /\ LastIs(u, "voice", w) /\ LastIs(u, "fm", v)
      /\ VoiceAfterRoute(u)
  BY <1>1, <1>2 DEF LastIs, VoiceAfterRoute
<1> QED BY <1>2, <1>3 DEF u

\* What setOutputDevice() appends: nothing, the volumes, or a route and the volumes.
LEMMA SetOutputAppends ==
  ASSUME OutputType, index \in [voice : VoiceIndices, fm : FmVolumes],
         NEW p, NEW device \in SUBSET Device, NEW force \in BOOLEAN, NEW volumes \in BOOLEAN,
         setOutputDevice(p, device, force, volumes)
  PROVE  \E t \in Seq(Command) :
           /\ commands' = commands \o t
           /\ LastIs(t, "route", mDevice')
           /\ LastIs(t, "voice", WantedIndex(p, index)) /\ LastIs(t, "fm", index.fm)
           /\ VoiceAfterRoute(t)
           /\ Of(t, "route") = {} => mDevice' = mDevice
           /\ volumes => Of(t, "voice") # {}
           /\ (force /\ device \ A2dp # {}) => Of(t, "route") # {}
<1> DEFINE wanted == IF device \ A2dp = {} /\ force THEN mDevice ELSE device \ A2dp
           routes == wanted # {} /\ (force \/ wanted # mDevice)
           w == WantedIndex(p, index)
           both == <<Voice(w), Fm(index.fm)>>
           t == When(routes, <<RouteTo(wanted)>>) \o When(routes \/ volumes, both)
<1>1. wanted \in SUBSET (Device \ A2dp)
  BY DEF OutputType
<1>2. /\ mDevice' = IF routes THEN wanted ELSE mDevice
      /\ commands' = commands \o When(routes, <<RouteTo(wanted)>>)
                     \o When(routes \/ volumes, both)
  BY VolumesAre DEF setOutputDevice
<1>3. <<RouteTo(wanted)>> \in Seq(Command) /\ both \in Seq(Command)
  BY <1>1, RouteTyped, VolumesTyped, VolumesAre
<1>4. commands' = commands \o t /\ t \in Seq(Command)
  <2>1. When(routes, <<RouteTo(wanted)>>) \in Seq(Command)
        /\ When(routes \/ volumes, both) \in Seq(Command) /\ commands \in Seq(Command)
    BY <1>3, WhenSeq DEF OutputType
  <2> HIDE DEF wanted, routes, both
  <2> QED BY <1>2, <2>1, ConcatSeq, ConcatAssociative
<1>5. CASE routes
  <2> DEFINE u == <<RouteTo(wanted), Voice(w), Fm(index.fm)>>
  <2>1. t = <<RouteTo(wanted)>> \o both
    BY <1>5 DEF When
  <2>2. t = u
    <3> HIDE DEF wanted, w, t, u
    <3> QED BY <2>1, ConcatUnits DEF u
  <2>3. mDevice' = wanted
    BY <1>2, <1>5
  <2> HIDE DEF wanted, w, u, t
  <2>4. /\ Of(u, "route") # {} /\ Of(u, "voice") # {}
        /\ LastIs(u, "route", wanted) /\ LastIs(u, "voice", w) /\ LastIs(u, "fm", index.fm)
        /\ VoiceAfterRoute(u)
    BY RouteAndVolumes DEF u
  <2> QED BY <1>4, <2>2, <2>3, <2>4 DEF w
<1>6. CASE ~routes
  <2>1. mDevice' = mDevice /\ ~(force /\ device \ A2dp # {})
    BY <1>2, <1>6
  <2>2. t = <<>> \o When(volumes, both)
    BY <1>6 DEF When
  <2>3. CASE volumes
    <3>1. t = both
      <4> HIDE DEF w, t
      <4> QED BY <2>2, <2>3 DEF When
    <3>2. /\ Len(both) = 2 /\ both[1].do = "voice" /\ both[1].arg = w
          /\ both[2].do = "fm" /\ both[2].arg = index.fm
      <4> HIDE DEF w
      <4> QED BY DEF Voice, Fm
    <3> HIDE DEF w, both, t, wanted, routes
    <3>3. Of(both, "route") = {} /\ Of(both, "voice") = {1} /\ Of(both, "fm") = {2}
      BY <3>2 DEF Of
    <3>4. LastIs(both, "route", mDevice') /\ LastIs(both, "voice", w)
          /\ LastIs(both, "fm", index.fm) /\ VoiceAfterRoute(both)
      BY <3>2, <3>3 DEF LastIs, VoiceAfterRoute
    <3> QED BY <1>4, <2>1, <3>1, <3>3, <3>4 DEF w
  <2>4. CASE ~volumes
    <3>1. t = <<>>
      BY <2>2, <2>4 DEF When
    <3> HIDE DEF w, t, wanted, routes
    <3>2. \A kind : Of(<<>>, kind) = {}
      BY DEF Of
    <3>3. LastIs(<<>>, "route", mDevice') /\ LastIs(<<>>, "voice", w)
          /\ LastIs(<<>>, "fm", index.fm) /\ VoiceAfterRoute(<<>>)
      BY <3>2 DEF LastIs, VoiceAfterRoute
    <3> QED BY <1>4, <2>1, <2>4, <3>1, <3>2, <3>3 DEF w
  <2> QED BY <2>3, <2>4
<1> QED BY <1>5, <1>6
\* Commands are queued: what they leave unsaid was said before, and a change of
\* what is wanted, or a call that begins, comes with its commands.
LEMMA FollowAppend ==
  ASSUME FollowInv, commands \in Seq(Command), UNCHANGED hal,
         NEW t \in Seq(Command), commands' = commands \o t,
         LastIs(t, "route", mDevice'), LastIs(t, "voice", WantedIndex(policy', index')),
         LastIs(t, "fm", index'.fm), VoiceAfterRoute(t),
         Of(t, "route") = {} => mDevice' = mDevice,
         Of(t, "voice") = {} => WantedIndex(policy', index') = WantedIndex(policy, index),
         Of(t, "fm") = {} => index'.fm = index.fm,
         (InCall(policy') /\ mMode = "IN_CALL" /\ ~InCall(policy)) => Of(t, "route") # {}
  PROVE  FollowInv'
<1>1. \A kind : Of(commands', kind) = {} => Of(t, kind) = {} /\ Of(commands, kind) = {}
  BY OfConcat
<1>2. QueueInv'
  <2>1. LastIs(commands, "route", mDevice) /\ VoiceAfterRoute(commands)
        /\ LastIs(commands, "voice", WantedIndex(policy, index))
        /\ LastIs(commands, "fm", index.fm)
    BY DEF FollowInv, QueueInv
  <2>2. LastIs(commands', "route", mDevice')
    BY <2>1, LastConcat
  <2>3. LastIs(commands', "voice", WantedIndex(policy', index'))
    BY <2>1, LastConcat
  <2>4. VoiceAfterRoute(commands')
    BY <2>1, VoiceAfterConcat
  <2>5. Of(commands', "route") = {} => mDevices' = mDevice' \cap OutputBit
    BY <1>1 DEF FollowInv, QueueInv, hal
  <2>6. LastIs(commands', "fm", index'.fm)
    BY <2>1, LastConcat
  <2> QED BY <2>2, <2>3, <2>4, <2>5, <2>6 DEF QueueInv
<1>3. PendingInv'
  <2> SUFFICES ASSUME vol # NoLevel
               PROVE  /\ commands' # <<>> /\ Head(commands').do = "voice"
                      /\ VoiceSays(Head(commands').arg, vol.level, vol.saw)
                      /\ (InCall(policy') /\ mMode = "IN_CALL" /\ Of(commands', "route") = {})
                           => Reached(mDevice', vol.saw)
    BY DEF PendingInv, InCall, hal
  <2>1. /\ commands # <<>> /\ Head(commands).do = "voice"
        /\ VoiceSays(Head(commands).arg, vol.level, vol.saw)
        /\ (InCall(policy) /\ mMode = "IN_CALL" /\ Of(commands, "route") = {}) =>
             Reached(mDevice, vol.saw)
    BY DEF FollowInv, PendingInv
  <2>2. commands' # <<>> /\ Head(commands') = Head(commands)
    <3>1. Len(commands) > 0 /\ Len(commands') = Len(commands) + Len(t) /\ Len(t) \in Nat
          /\ commands'[1] = commands[1]
      BY <2>1, EmptySeq, LenProperties, ConcatProperties
    <3>2. commands' \in Seq(Command)
      BY ConcatSeq
    <3> QED BY <3>1, <3>2
  <2>3. ASSUME InCall(policy'), mMode = "IN_CALL", Of(commands', "route") = {}
        PROVE  Reached(mDevice', vol.saw)
    <3>1. Of(t, "route") = {} /\ Of(commands, "route") = {}
      BY <1>1, <2>3
    <3> QED BY <2>1, <2>3, <3>1
  <2> QED BY <2>1, <2>2, <2>3
<1>4. ArrivedInv'
  <2> SUFFICES ASSUME InCall(policy'), mMode = "IN_CALL"
               PROVE  /\ Of(commands', "route") = {} =>
                           Reached(mDevice', sndDevice) /\ mCurSndDevice = sndDevice
                      /\ NoVolumes(commands') => VolumeArrived'
    BY DEF ArrivedInv, InCall, hal
  <2>1. CASE Of(t, "route") # {}
    <3>1. Of(t, "voice") # {}
      BY <2>1 DEF VoiceAfterRoute
    <3> QED BY <1>1, <2>1, <3>1 DEF NoVolumes
  <2>2. CASE Of(t, "route") = {}
    <3>1. InCall(policy) /\ mDevice' = mDevice
      BY <2>2
    <3>2. NoVolumes(commands') => VolumeArrived'
      BY <1>1, <3>1 DEF FollowInv, ArrivedInv, NoVolumes, VolumeArrived, hal
    <3> QED BY <1>1, <3>1, <3>2 DEF FollowInv, ArrivedInv
  <2> QED BY <2>1, <2>2
<1> QED BY <1>2, <1>3, <1>4 DEF FollowInv

\* setOutputDevice(), for a policy that changed before it or not at all.  A
\* forced use for communication comes with the volumes, a call with force.
LEMMA FollowOutput ==
  ASSUME PolicyPart, FollowInv, UNCHANGED <<index, hal>>,
         NEW p \in PolicyState, policy' = p, NEW strategy,
         NEW force \in BOOLEAN, NEW volumes \in BOOLEAN,
         setOutputDevice(p, getNewDevice(p, strategy), force, volumes),
         volumes \/ p.comm = policy.comm,
         BuiltIn \subseteq p.available,
         (InCall(p) /\ mMode = "IN_CALL" /\ ~InCall(policy)) => force
  PROVE  FollowInv'
<1>1. getNewDevice(p, strategy) \in SUBSET Device
  BY NewDeviceTyped
<1>2. PICK t \in Seq(Command) :
        /\ commands' = commands \o t
        /\ LastIs(t, "route", mDevice')
        /\ LastIs(t, "voice", WantedIndex(p, index)) /\ LastIs(t, "fm", index.fm)
        /\ VoiceAfterRoute(t)
        /\ Of(t, "route") = {} => mDevice' = mDevice
        /\ volumes => Of(t, "voice") # {}
        /\ (force /\ getNewDevice(p, strategy) \ A2dp # {}) => Of(t, "route") # {}
  BY <1>1, SetOutputAppends DEF PolicyPart
<1>3. Of(t, "voice") = {} => WantedIndex(policy', index') = WantedIndex(policy, index)
  BY <1>2 DEF WantedIndex
<1>4. ASSUME InCall(p), mMode = "IN_CALL", ~InCall(policy) PROVE Of(t, "route") # {}
  <2>1. PICK d \in p.available \ A2dp : getNewDevice(p, strategy) = {d}
    BY <1>4, PhoneInCall DEF getNewDevice
  <2> QED BY <1>2, <1>4, <2>1
<1>5. commands \in Seq(Command)
  BY DEF PolicyPart, OutputType
<1>6. LastIs(t, "voice", WantedIndex(policy', index')) /\ LastIs(t, "fm", index'.fm)
  BY <1>2
<1> QED BY <1>2, <1>3, <1>4, <1>5, <1>6, FollowAppend

\* A route of a call: the driver and the current device are both on a device of it.
LEMMA CallRoutes ==
  ASSUME DoRouting, mMode = "IN_CALL", mTtyMode' \in TtyMode,
         mDevices' = mDevice' \cap OutputBit
  PROVE  Reached(mDevice', sndDevice') /\ mCurSndDevice' = sndDevice'
<1>1. \A tty, mode : OutputRoute(mDevice' \cap OutputBit, FALSE, tty, mode)
                     = OutputRoute(mDevice', FALSE, tty, mode)
  BY DEF OutputRoute, OutputBit, Wired
<1>2. sndDevice' = OutputRoute(mDevice', FALSE, mTtyMode', "IN_CALL").dev
  BY <1>1 DEF DoRouting
<1>3. mCurSndDevice' = sndDevice'
  BY DEF DoRouting
<1> QED BY <1>2, <1>3 DEF Reached

\* The command at the head is done.
LEMMA QueueAdvances ==
  ASSUME PolicyTypeOK, QueueInv, NEW kind, Executing(kind),
         IF kind = "route" THEN mDevices' = Head(commands).arg \cap OutputBit
         ELSE mDevices' = mDevices
  PROVE  QueueInv'
<1>1. commands \in Seq(Command) /\ commands # <<>> /\ commands' = Tail(commands)
      /\ Head(commands).do = kind /\ UNCHANGED <<policy, index, mDevice>>
  BY DEF Executing, PolicyTypeOK
<1>2. LastIs(commands', "route", mDevice) /\ LastIs(commands', "voice", WantedIndex(policy, index))
      /\ LastIs(commands', "fm", index.fm) /\ VoiceAfterRoute(commands')
  BY <1>1, LastTail, VoiceAfterTail DEF QueueInv
<1>3. ASSUME Of(commands', "route") = {} PROVE mDevices' = mDevice \cap OutputBit
  <2>1. CASE kind = "route"
    BY <1>1, <1>3, <2>1, LastTail DEF QueueInv
  <2>2. CASE kind # "route"
    BY <1>1, <1>3, <2>2, NoneTail DEF QueueInv
  <2> QED BY <2>1, <2>2
<1> QED BY <1>1, <1>2, <1>3 DEF QueueInv

LEMMA FollowInit == Init => FollowInv
<1> SUFFICES ASSUME Init PROVE FollowInv
  OBVIOUS
<1> DEFINE w == WantedIndex(policy, index)
           u == <<RouteTo({"SPEAKER"}), Voice(w), Fm(index.fm)>>
<1>1. commands = u
  <2>1. commands = <<RouteTo({"SPEAKER"})>> \o <<Voice(w), Fm(index.fm)>>
    BY VolumesAre DEF Init
  <2> HIDE DEF w
  <2> QED BY <2>1, ConcatUnits
<1>2. Of(u, "route") # {} /\ LastIs(u, "route", {"SPEAKER"}) /\ LastIs(u, "voice", w)
      /\ LastIs(u, "fm", index.fm) /\ VoiceAfterRoute(u)
  <2> HIDE DEF w, u
  <2> QED BY RouteAndVolumes DEF u
<1>3. QueueInv
  BY <1>1, <1>2 DEF QueueInv, Init
<1>4. ~InCall(policy) /\ vol = NoLevel
  BY DEF Init, InCall
<1> QED BY <1>3, <1>4 DEF FollowInv, PendingInv, ArrivedInv

LEMMA FollowStep == PolicyTypeOK /\ CallInv /\ FollowInv /\ [Next]_vars => FollowInv'
<1> SUFFICES ASSUME PolicyTypeOK, CallInv, FollowInv, [Next]_vars PROVE FollowInv'
  OBVIOUS
<1>0. /\ PolicyPart /\ policy \in PolicyState /\ BuiltIn \subseteq policy.available
      /\ commands \in Seq(Command)
  BY Parts DEF PolicyTypeOK, CallInv
<1>1. CASE SetMode
  <2>1. ~(InCall(policy') /\ mMode' = "IN_CALL")
    BY <1>1 DEF SetMode, InCall
  <2>2. QueueInv'
    BY <1>1 DEF SetMode, FollowInv, QueueInv
  <2>3. PendingInv'
    BY <1>1, <2>1 DEF SetMode, FollowInv, PendingInv, InCall
  <2> QED BY <2>1, <2>2, <2>3 DEF FollowInv, ArrivedInv, InCall
<1>2. CASE SetPhoneState
  <2> DEFINE p == [policy EXCEPT !.mPhoneState = mMode]
             force == "IN_CALL" \in {mMode, policy.mPhoneState}
  <2>1. p \in PolicyState /\ p.comm = policy.comm /\ p.available = policy.available
    BY <1>0 DEF PolicyTypeOK, PolicyState
  <2>2. policy' = p /\ setOutputDevice(p, getNewDevice(p, playing), force, FALSE)
        /\ UNCHANGED <<index, hal>>
    BY <1>2 DEF SetPhoneState, Changed
  <2>3. mMode = "IN_CALL" => force
    OBVIOUS
  <2>4. force \in BOOLEAN
    OBVIOUS
  <2> HIDE DEF p, force
  <2> QED BY <1>0, <2>1, <2>2, <2>3, <2>4, FollowOutput
<1>3. CASE SetForceUse
  <2>1. UNCHANGED <<playing, index, hal>>
    BY <1>3 DEF SetForceUse
  <2>2. ASSUME NEW use \in ForComm, Changed([policy EXCEPT !.comm = use], FALSE, TRUE)
        PROVE  FollowInv'
    <3> DEFINE p == [policy EXCEPT !.comm = use]
    <3>1. p \in PolicyState /\ p.available = policy.available
          /\ p.mPhoneState = policy.mPhoneState
      BY <1>0 DEF PolicyState
    <3>2. policy' = p /\ setOutputDevice(p, getNewDevice(p, playing), FALSE, TRUE)
      BY <2>2 DEF Changed
    <3> HIDE DEF p
    <3>3. InCall(p) <=> InCall(policy)
      BY <3>1 DEF InCall
    <3> QED BY <1>0, <2>1, <3>1, <3>2, <3>3, FollowOutput
  <2>3. ASSUME NEW use \in ForMedia, Changed([policy EXCEPT !.media = use], FALSE, FALSE)
        PROVE  FollowInv'
    <3> DEFINE p == [policy EXCEPT !.media = use]
    <3>1. p \in PolicyState /\ p.available = policy.available
          /\ p.mPhoneState = policy.mPhoneState /\ p.comm = policy.comm
      BY <1>0 DEF PolicyState
    <3>2. policy' = p /\ setOutputDevice(p, getNewDevice(p, playing), FALSE, FALSE)
      BY <2>3 DEF Changed
    <3> HIDE DEF p
    <3>3. InCall(p) <=> InCall(policy)
      BY <3>1 DEF InCall
    <3> QED BY <1>0, <2>1, <3>1, <3>2, <3>3, FollowOutput
  <2> QED BY <1>3, <2>2, <2>3 DEF SetForceUse
<1>4. CASE SetDeviceConnectionState
  <2>1. PICK d \in Pluggable :
          Changed([policy EXCEPT !.available = IF d \in @ THEN @ \ {d} ELSE @ \cup {d}],
                  FALSE, FALSE)
    BY <1>4 DEF SetDeviceConnectionState
  <2> DEFINE p == [policy EXCEPT !.available = IF d \in @ THEN @ \ {d} ELSE @ \cup {d}]
  <2>2. d \in Device \ BuiltIn
    BY PolicyAssumption
  <2>3. p \in PolicyState /\ p.comm = policy.comm /\ p.mPhoneState = policy.mPhoneState
        /\ BuiltIn \subseteq p.available
    BY <1>0, <2>2 DEF PolicyState
  <2>4. policy' = p /\ setOutputDevice(p, getNewDevice(p, playing), FALSE, FALSE)
        /\ UNCHANGED <<index, hal>>
    BY <1>4, <2>1 DEF SetDeviceConnectionState, Changed
  <2> HIDE DEF p
  <2>5. InCall(p) <=> InCall(policy)
    BY <2>3 DEF InCall
  <2> QED BY <1>0, <2>3, <2>4, <2>5, FollowOutput
<1>5. CASE StartOutput
  <2>1. setOutputDevice(policy, getNewDevice(policy, playing'), FALSE, FALSE)
        /\ UNCHANGED <<policy, index, hal>>
    BY <1>5 DEF StartOutput
  <2> QED BY <1>0, <2>1, FollowOutput
<1>6. CASE StopOutput
  BY <1>6 DEF StopOutput, FollowInv, QueueInv, PendingInv, ArrivedInv, VolumeArrived, InCall, hal
<1>7. CASE SetStreamVolumeIndex
  <2>1. index' \in [voice : VoiceIndices, fm : FmVolumes]
    BY <1>0, <1>7 DEF SetStreamVolumeIndex, PolicyPart
  <2>2. UNCHANGED <<policy, mDevice, hal>>
    BY <1>7 DEF SetStreamVolumeIndex
  <2> DEFINE w == WantedIndex(policy, index')
  <2>3. PICK t \in Seq(Command) :
          /\ commands' = commands \o t
          /\ \/ t = <<Voice(index'.voice)>> /\ policy.comm # "BT_SCO"
                /\ index'.fm = index.fm
             \/ t = <<>> /\ w = WantedIndex(policy, index) /\ index'.fm = index.fm
             \/ t = <<Fm(index'.fm)>> /\ w = WantedIndex(policy, index)
    <3>1. CASE \E v \in VoiceIndices \ {index.voice} :
                 /\ index' = [index EXCEPT !.voice = v]
                 /\ commands' = commands \o checkAndSetVolume(policy, "VOICE_CALL", index')
      <4>1. checkAndSetVolume(policy, "VOICE_CALL", index') \in Seq(Command)
        BY <2>1, VolumeTyped
      <4>2. checkAndSetVolume(policy, "VOICE_CALL", index')
              = IF policy.comm # "BT_SCO" THEN <<Voice(index'.voice)>> ELSE <<>>
        BY DEF checkAndSetVolume, When
      <4>3. policy.comm = "BT_SCO" => w = WantedIndex(policy, index)
        BY DEF WantedIndex
      <4>4. index'.fm = index.fm
        BY <1>0, <3>1 DEF PolicyPart
      <4> QED BY <3>1, <4>1, <4>2, <4>3, <4>4
    <3>2. CASE \E v \in FmVolumes \ {index.fm} :
                 /\ index' = [index EXCEPT !.fm = v]
                 /\ commands' = commands \o checkAndSetVolume(policy, "FM", index')
      <4>1. checkAndSetVolume(policy, "FM", index') \in Seq(Command)
        BY <2>1, VolumeTyped
      <4>2. checkAndSetVolume(policy, "FM", index') = <<Fm(index'.fm)>>
        BY DEF checkAndSetVolume
      <4>3. index'.voice = index.voice
        BY <1>0, <3>2 DEF PolicyPart
      <4>4. w = WantedIndex(policy, index)
        BY <4>3 DEF WantedIndex
      <4> QED BY <3>2, <4>1, <4>2, <4>4
    <3> QED BY <1>7, <3>1, <3>2 DEF SetStreamVolumeIndex
  <2>4. /\ Of(t, "route") = {}
        /\ LastIs(t, "voice", w) /\ LastIs(t, "fm", index'.fm)
        /\ Of(t, "voice") = {} => w = WantedIndex(policy, index)
        /\ Of(t, "fm") = {} => index'.fm = index.fm
    <3>1. CASE t = <<Voice(index'.voice)>> /\ policy.comm # "BT_SCO" /\ index'.fm = index.fm
      <4>1. Len(t) = 1 /\ t[1].do = "voice" /\ t[1].arg = w
        BY <3>1 DEF Voice, WantedIndex
      <4>2. Of(t, "route") = {} /\ Of(t, "voice") = {1} /\ Of(t, "fm") = {}
        <5> HIDE DEF w
        <5> QED BY <4>1 DEF Of
      <4> QED BY <3>1, <4>1, <4>2 DEF LastIs
    <3>2. CASE t = <<>> /\ w = WantedIndex(policy, index) /\ index'.fm = index.fm
      <4>1. \A kind : Of(t, kind) = {}
        BY <3>2 DEF Of
      <4> QED BY <3>2, <4>1 DEF LastIs
    <3>3. CASE t = <<Fm(index'.fm)>> /\ w = WantedIndex(policy, index)
      <4>1. Len(t) = 1 /\ t[1].do = "fm" /\ t[1].arg = index'.fm
        BY <3>3 DEF Fm
      <4>2. Of(t, "route") = {} /\ Of(t, "voice") = {} /\ Of(t, "fm") = {1}
        BY <4>1 DEF Of
      <4> QED BY <3>3, <4>1, <4>2 DEF LastIs
    <3> QED BY <2>3, <3>1, <3>2, <3>3
  <2>5. LastIs(t, "route", mDevice') /\ VoiceAfterRoute(t)
    BY <2>4 DEF LastIs, VoiceAfterRoute
  <2>6. WantedIndex(policy', index') = w
    BY <2>2
  <2> HIDE DEF w
  <2> QED BY <1>0, <2>2, <2>3, <2>4, <2>5, <2>6, FollowAppend
<1>8. CASE SetTtyMode
  <2>1. UNCHANGED <<policy, index, mDevice, commands, mDevices, mMode, vol, sent>>
    BY <1>8 DEF SetTtyMode
  <2>2. QueueInv' /\ PendingInv'
    BY <2>1 DEF FollowInv, QueueInv, PendingInv, InCall
  <2>3. ASSUME mMode = "IN_CALL", mDevices = mDevice \cap OutputBit
        PROVE  Reached(mDevice', sndDevice') /\ mCurSndDevice' = sndDevice'
    <3>1. mTtyMode' \in TtyMode
      BY <1>8, PolicyAssumption DEF SetTtyMode
    <3> QED BY <1>8, <2>1, <2>3, <3>1, CallRoutes DEF SetTtyMode
  <2>4. ArrivedInv'
    BY <2>1, <2>3 DEF FollowInv, QueueInv, ArrivedInv, NoVolumes, VolumeArrived, InCall
  <2> QED BY <2>2, <2>4 DEF FollowInv
<1>9. CASE ExecuteRoute
  <2>1. Executing("route") /\ DoRouting /\ UNCHANGED <<vol, sent>>
        /\ mDevices' = Head(commands).arg \cap OutputBit
    BY <1>9 DEF ExecuteRoute
  <2>2. QueueInv'
    BY <2>1, QueueAdvances DEF FollowInv
  <2>3. /\ commands # <<>> /\ commands' = Tail(commands) /\ Head(commands).do = "route"
        /\ UNCHANGED <<policy, index, mDevice, mMode, mTtyMode>>
    BY <2>1 DEF Executing
  <2>4. ASSUME mMode = "IN_CALL", Of(commands', "route") = {}
        PROVE  Reached(mDevice', sndDevice') /\ mCurSndDevice' = sndDevice'
    <3>1. mDevices' = mDevice' \cap OutputBit /\ mTtyMode' \in TtyMode
      BY <2>2, <2>3, <2>4 DEF QueueInv, PolicyTypeOK
    <3> QED BY <2>1, <2>4, <3>1, CallRoutes
  <2>5. NoVolumes(commands') => NoVolumes(commands)
    BY <1>0, <2>3, NoneTail DEF NoVolumes
  <2>6. ArrivedInv'
    BY <2>1, <2>3, <2>4, <2>5 DEF FollowInv, ArrivedInv, VolumeArrived, InCall
  <2>7. PendingInv'
    BY <2>1, <2>3 DEF FollowInv, PendingInv
  <2> QED BY <2>2, <2>6, <2>7 DEF FollowInv
<1>10. CASE VoiceLevelChosen
  <2>1. /\ commands # <<>> /\ Head(commands).do = "voice"
        /\ UNCHANGED <<policy, index, mDevice, commands, mMode, mDevices, mCurSndDevice,
                       sndDevice, sent>>
        /\ vol'.saw = mCurSndDevice
        /\ VoiceSays(Head(commands).arg, vol'.level, vol'.saw)
    BY <1>10 DEF VoiceLevelChosen, VoiceSays, VoiceLevel
  <2>2. QueueInv' /\ ArrivedInv'
    BY <2>1 DEF FollowInv, QueueInv, ArrivedInv, VolumeArrived, InCall
  <2>3. (InCall(policy) /\ mMode = "IN_CALL" /\ Of(commands, "route") = {}) =>
          Reached(mDevice, vol'.saw)
    BY <2>1 DEF FollowInv, ArrivedInv
  <2>4. PendingInv'
    BY <2>1, <2>3 DEF PendingInv, InCall
  <2> QED BY <2>2, <2>4 DEF FollowInv
<1>11. CASE setVoiceVolume
  <2>1. Executing("voice") /\ UNCHANGED <<mDevices, mCurSndDevice, sndDevice>>
        /\ vol # NoLevel /\ vol' = NoLevel
    BY <1>11 DEF setVoiceVolume
  <2>2. QueueInv'
    BY <2>1, QueueAdvances DEF FollowInv
  <2>3. /\ commands # <<>> /\ commands' = Tail(commands) /\ Head(commands).do = "voice"
        /\ UNCHANGED <<policy, index, mDevice, mMode>>
    BY <2>1 DEF Executing
  <2>4. Of(commands', "route") = {} => Of(commands, "route") = {}
    BY <1>0, <2>3, NoneTail
  <2>5. ASSUME InCall(policy), mMode = "IN_CALL", NoVolumes(commands')
        PROVE  VolumeArrived'
    <3>1. Of(commands', "route") = {}
      BY <1>0, <2>3, <2>5, VoiceAfterTail DEF FollowInv, QueueInv, NoVolumes
    <3>2. Reached(mDevice, sndDevice) /\ Reached(mDevice, vol.saw)
      BY <2>1, <2>4, <2>5, <3>1 DEF FollowInv, ArrivedInv, PendingInv
    <3>3. Head(commands).arg = WantedIndex(policy, index)
      BY <1>0, <2>3, <2>5, LastTail DEF FollowInv, QueueInv, NoVolumes
    <3>4. VoiceSays(Head(commands).arg, vol.level, vol.saw)
      BY <2>1 DEF FollowInv, PendingInv
    <3>5. sent' = [by |-> "voice", dev |-> sndDevice, level |-> vol.level, saw |-> vol.saw]
      BY <1>11 DEF setVoiceVolume, Sending
    <3> QED BY <2>3, <3>2, <3>3, <3>4, <3>5 DEF VolumeArrived
  <2>6. ArrivedInv'
    BY <2>1, <2>3, <2>4, <2>5 DEF FollowInv, ArrivedInv, NoVolumes, InCall
  <2>7. PendingInv'
    BY <2>1 DEF PendingInv
  <2> QED BY <2>2, <2>6, <2>7 DEF FollowInv
<1>12. CASE setFmVolume
  <2>1. Executing("fm") /\ UNCHANGED <<mDevices, mCurSndDevice, sndDevice, vol>>
    BY <1>12 DEF setFmVolume
  <2>2. QueueInv'
    BY <2>1, QueueAdvances DEF FollowInv
  <2>3. /\ commands # <<>> /\ commands' = Tail(commands) /\ Head(commands).do = "fm"
        /\ UNCHANGED <<policy, index, mDevice, mMode>>
    BY <2>1 DEF Executing
  <2>4. Of(commands', "route") = {} => Of(commands, "route") = {}
    BY <1>0, <2>3, NoneTail
  <2>5. ASSUME InCall(policy), mMode = "IN_CALL", NoVolumes(commands')
        PROVE  VolumeArrived'
    <3>1. Of(commands', "route") = {}
      BY <1>0, <2>3, <2>5, VoiceAfterTail DEF FollowInv, QueueInv, NoVolumes
    <3>2. Reached(mDevice, sndDevice)
      BY <2>4, <2>5, <3>1 DEF FollowInv, ArrivedInv
    <3>3. Head(commands).arg = index.fm
      BY <1>0, <2>3, <2>5, LastTail DEF FollowInv, QueueInv, NoVolumes
    <3>4. sent' = [by |-> "fm", dev |-> sndDevice, level |-> FmLevel(index.fm), saw |-> NoDevice]
      BY <1>12, <3>3 DEF setFmVolume, Sending
    <3>5. FmSays(index.fm, FmLevel(index.fm))
      <4>1. index.fm \in Nat
        <5>1. index.fm \in FmVolumes
          BY <1>0 DEF PolicyPart
        <5>2. FmVolumes \subseteq 0..100
          BY PolicyAssumption
        <5>3. index.fm \in 0..100
          BY <5>1, <5>2
        <5> QED BY <5>3
      <4> QED BY <4>1 DEF FmSays, FmLevel
    <3> QED BY <2>3, <3>2, <3>4, <3>5 DEF VolumeArrived
  <2>6. ArrivedInv'
    BY <2>1, <2>3, <2>4, <2>5 DEF FollowInv, ArrivedInv, NoVolumes, InCall
  <2>7. PendingInv'
    BY <2>1, <2>3 DEF FollowInv, PendingInv
  <2> QED BY <2>2, <2>6, <2>7 DEF FollowInv
<1>13. CASE UNCHANGED vars
  BY <1>13 DEF vars, hal, FollowInv, QueueInv, PendingInv, ArrivedInv, NoVolumes, VolumeArrived, InCall
<1> QED BY <1>1, <1>2, <1>3, <1>4, <1>5, <1>6, <1>7, <1>8, <1>9, <1>10, <1>11, <1>12, <1>13
        DEF Next

LEMMA FollowImplies == FollowInv => CallFollowsPolicy
<1> SUFFICES ASSUME FollowInv, Settled, InCall(policy)
             PROVE  /\ Reached(mDevice, sndDevice) /\ Reached(mDevice, sent.dev)
                    /\ \/ sent.by = "fm" /\ 20 * sent.level \in index.fm .. index.fm + 19
                       \/ /\ sent.by = "voice" /\ Reached(mDevice, sent.saw)
                          /\ sent.level = IF TtyOwnsVolume(sent.saw) THEN 1 ELSE WantedLevel
  BY DEF CallFollowsPolicy, Reached
<1>1. Of(commands, "route") = {} /\ NoVolumes(commands)
  BY DEF Settled, Of, NoVolumes
<1>2. mMode = "IN_CALL"
  BY DEF Settled, InCall
<1>3. WantedLevel = WantedIndex(policy, index) + 1
  BY DEF WantedLevel, WantedIndex, IndexMax
<1>4. Reached(mDevice, sndDevice) /\ VolumeArrived
  BY <1>1, <1>2 DEF FollowInv, ArrivedInv
<1> QED BY <1>3, <1>4 DEF VolumeArrived, FmSays, VoiceSays

\* In a call that policy and hardware agree on, with the queue empty, the driver
\* is on a device of the output's route, and the last volume went there: FM's,
\* at the user's level, or the call's, at the level that forced use, user and
\* the device seen for it call for.  Whatever was plugged, forced, played or
\* typed on a TTY, also between the look at the device and the request, and
\* however late the commands came.
THEOREM CallFollows == Spec => []CallFollowsPolicy
<1>1. Init => CallInv /\ FollowInv
  BY CallInit, FollowInit
<1>2. PolicyTypeOK /\ (CallInv /\ FollowInv) /\ [Next]_vars => (CallInv /\ FollowInv)'
  BY CallStep, FollowStep
<1> QED BY <1>1, <1>2, PolicyTypeCorrect, FollowImplies, PTL DEF Spec
=============================================================================
