------------------------- MODULE AudioSettledProofs --------------------------
(***************************************************************************)
(* Proofs about what AudioHardware leaves behind when all calls have       *)
(* returned: the routed device, its mutes and the BT/FM pins follow the    *)
(* state, for every set of threads, routes and keys.                       *)
(* Each theorem names the conditions it needs; the violations that other   *)
(* modes, failures or callers lead to are described with the properties.   *)
(*                                                                         *)
(* The invariants share one form: a discrepancy exists only while a thread *)
(* stands at a point from which it is bound to repair it.                  *)
(***************************************************************************)
EXTENDS AudioHardwareProofs

-----------------------------------------------------------------------------
(* Requests converge.                                                      *)

\* The output route does not depend on the mode: there are no calls, or neither
\* the second microphone nor a TTY is used.  Otherwise a route selected before
\* setMode() may be saved after its clearCurDevice(), and stays.
ModeIndependent ==
  "IN_CALL" \in ModeValues => \A keys \in KeySets : keys \cap {"dualmic", "tty_mode"} = {}

\* The route the output calls for whatever the mode is.
PlainRoute == OutputRoute(mDevices, mFmRadioEnabled, "OFF", "NORMAL")

PlainInv ==
  IF "IN_CALL" \notin ModeValues THEN mMode # "IN_CALL"
  ELSE /\ mTtyMode = "OFF" /\ mDualMicEnabled = FALSE
       /\ \A c \in Controllers : todo[c] \cap {"dualmic", "tty_mode"} = {}

\* Only a record thread passes its stream to doRouting().
PlaceInv == \A t \in Threads : CallsWithInput(t) => t \in Recorders

\* A thread that is bound to select a route before its call returns.  A string
\* with a TTY mode may be dropped, but before its FM keys are handled.
Coming(t) ==
  \/ pc[t] \in CallPoint
  \/ t \in Controllers /\ pc[t] = "params" /\ "tty_mode" \notin todo[t]

\* From the selection to the save.
Deciding == {"dr_compare", "dr_off", "pp_off", "dr_save"}

\* What is selected, or else current, is what the state calls for.
Arrives ==
  /\ \A t \in Threads : pc[t] \in Deciding => want[t].dev = PlainRoute.dev
  /\ (\A t \in Threads : pc[t] \notin Deciding)
     => mCurSndDevice \in {NoDevice, PlainRoute.dev}

NoRecording == \A r \in Recorders : inState[r] = "CLOSED" /\ inDevices[r] = "none"

ConvergeInv == NoRecording => (\E t \in Threads : Coming(t)) \/ Arrives

\* The mode, the TTY and the second microphone change no plain route.
LEMMA PlainRouting ==
  ASSUME PlainInv
  PROVE  DualMicRoute(OutputRoute(mDevices, mFmRadioEnabled, mTtyMode, mMode),
                      mDualMicEnabled, mMode) = PlainRoute
<1>1. mTtyMode = "OFF" \/ mMode # "IN_CALL"
  BY DEF PlainInv
<1>2. OutputRoute(mDevices, mFmRadioEnabled, mTtyMode, mMode) = PlainRoute
  BY <1>1 DEF OutputRoute, PlainRoute
<1>3. ~(mDualMicEnabled /\ mMode = "IN_CALL")
  BY DEF PlainInv
<1> QED BY <1>2, <1>3 DEF DualMicRoute

LEMMA PlainNext ==
  ASSUME ModeIndependent, TypeOK, PlainInv, [Next]_vars
  PROVE  PlainInv'
<1> DEFINE Same == UNCHANGED <<mMode, mTtyMode, mDualMicEnabled, todo>>
<1>0. Same => PlainInv'
  BY DEF PlainInv
<1>1. ASSUME NEW t \in Threads, DoRouting(t) \/ EnablePostProc(t) PROVE Same
  <2>1. CASE DoRouting(t)
    BY <2>1 DEF DoRouting, Select, Skip, SendRoute, DisableOld, SaveDevice, SaveMask,
                EnableNew, Return, flags, locals
  <2>2. CASE EnablePostProc(t)
    BY <2>2, PostProcStep DEF flags
  <2> QED BY <1>1, <2>1, <2>2
<1>2. ASSUME Play PROVE Same
  <2>1. Player \in Threads
    BY DEF Threads
  <2> QED BY <1>1, <1>2, <2>1 DEF Play, WriteFill, WriteStart, OutStandby,
             OutStandbyClose, OutSetRouting, flags, locals
<1>3. ASSUME NEW r \in Recorders, Record(r) PROVE Same
  <2>1. r \in Threads
    BY DEF Threads
  <2> QED BY <1>1, <1>3, <2>1 DEF Record, ReadOpen, ReadForceRoute, ReadStart,
             InStandby, InSetRouting, flags, locals
<1>4. ASSUME NEW c \in Controllers, Control(c) PROVE PlainInv'
  <2>1. CASE DoRouting(c) \/ EnablePostProc(c)
    BY <1>0, <1>1, <2>1 DEF Threads
  <2>2. CASE SetMode(c)
    BY <2>2 DEF SetMode, PlainInv, locals
  <2>3. CASE ModeClear(c) \/ SetMicMute(c)
    BY <1>0, <2>3 DEF ModeClear, SetMicMute, flags, locals
  <2>4. CASE SetParameters(c)
    <3>1. UNCHANGED <<mMode, mTtyMode, mDualMicEnabled>>
          /\ \E keys \in KeySets : todo' = [todo EXCEPT ![c] = keys]
      BY <2>4 DEF SetParameters, flags
    <3> QED BY <3>1 DEF PlainInv, ModeIndependent, TypeOK, LocalsType
  <2>5. CASE HandleKeys(c)
    <3>1. PICK key \in Key : Handle(c, key, {}) \/ (UNCHANGED todo /\ UNCHANGED flags)
      BY <2>5 DEF HandleKeys, SetBtName, SetDualMic, SetTtyMode, SetFmOn, SetFmOff,
                  RouteAtEnd, Handle, Key
    <3>2. \A d \in Controllers : todo'[d] \subseteq todo[d]
      BY <3>1 DEF Handle, TypeOK, LocalsType
    <3>3. UNCHANGED mMode
      BY <2>5 DEF HandleKeys, SetBtName, SetDualMic, SetTtyMode, SetFmOn, SetFmOff,
                  RouteAtEnd, flags
    <3>4. \/ UNCHANGED <<mTtyMode, mDualMicEnabled>>
          \/ todo[c] \cap {"dualmic", "tty_mode"} # {}
      BY <2>5 DEF HandleKeys, SetBtName, SetDualMic, SetTtyMode, SetFmOn, SetFmOff,
                  RouteAtEnd, Handle, flags
    <3> QED BY <3>2, <3>3, <3>4 DEF PlainInv
  <2> QED BY <1>4, <2>1, <2>2, <2>3, <2>4, <2>5 DEF Control
<1>5. CASE UNCHANGED vars
  BY <1>0, <1>5 DEF vars, flags, locals
<1> QED BY <1>0, <1>2, <1>3, <1>4, <1>5 DEF Next

LEMMA PlaceNext ==
  ASSUME TypeOK, PlaceInv, [Next]_vars
  PROVE  PlaceInv'
<1> DEFINE InputPoint == {"rec_route", "in_params"}
           Elsewhere(t) == \E point \in Point \ InputPoint : Goto(t, point)
<1>0. ASSUME NEW t \in Threads, t \in Recorders \/ Elsewhere(t) \/ UNCHANGED pc,
             \A u \in Threads \ {t} : pc'[u] = pc[u]
      PROVE  PlaceInv'
  BY <1>0 DEF PlaceInv, CallsWithInput, At, Goto, TypeOK
<1>1. ASSUME NEW t \in Threads, DoRouting(t) \/ EnablePostProc(t)
      PROVE  Elsewhere(t) \/ UNCHANGED pc
  <2>1. caller[t] \in CallPoint /\ \A p \in CallPoint : Resume[p] \in Point \ InputPoint
    BY DEF TypeOK, LocalsType, CallPoint, Resume, Point
  <2>2. CASE DoRouting(t)
    BY <2>1, <2>2 DEF DoRouting, Select, Skip, SendRoute, DisableOld, SaveDevice,
       SaveMask, EnableNew, Return, Point, LockedPoint
  <2>3. CASE EnablePostProc(t)
    BY <2>1, <2>3, PostProcStep DEF Return, Point, LockedPoint
  <2> QED BY <1>1, <2>2, <2>3
<1>2. ASSUME NEW t \in Threads, NEW point \in Point, Goto(t, point)
      PROVE  \A u \in Threads \ {t} : pc'[u] = pc[u]
  BY <1>2 DEF Goto, TypeOK
<1>3. CASE Play
  <2>1. Player \in Threads
    BY DEF Threads
  <2>2. Elsewhere(Player) \/ UNCHANGED pc
    BY <1>1, <1>3, <2>1 DEF Play, WriteFill, WriteStart, OutStandby,
       OutStandbyClose, OutSetRouting, Point, CallPoint, PostProcPoint
  <2> QED BY <1>0, <1>2, <2>1, <2>2
<1>4. ASSUME NEW r \in Recorders, Record(r) PROVE PlaceInv'
  <2>1. r \in Threads
    BY DEF Threads
  <2>2. UNCHANGED pc \/ \E point \in Point : Goto(r, point)
    BY <1>1, <1>4, <2>1 DEF Record, ReadOpen, ReadForceRoute, ReadStart, InStandby,
       InSetRouting, Point, CallPoint
  <2> QED BY <1>0, <1>2, <2>1, <2>2
<1>5. ASSUME NEW c \in Controllers, Control(c) PROVE PlaceInv'
  <2>1. c \in Threads
    BY DEF Threads
  <2>2. CASE SetMicMute(c)
    BY <2>2 DEF SetMicMute, PlaceInv, CallsWithInput, At
  <2>3. CASE ~SetMicMute(c)
    <3>1. Elsewhere(c) \/ UNCHANGED pc
      BY <1>1, <1>5, <2>1, <2>3 DEF Control, SetMode, ModeClear, SetParameters, HandleKeys,
         SetBtName, SetDualMic, SetTtyMode, SetFmOn, SetFmOff, RouteAtEnd, Point, CallPoint
    <3> QED BY <1>0, <1>2, <2>1, <3>1
  <2> QED BY <2>2, <2>3
<1>6. CASE UNCHANGED vars
  BY <1>6 DEF vars, PlaceInv, CallsWithInput, At
<1> QED BY <1>3, <1>4, <1>5, <1>6 DEF Next

\* Whoever is bound to route repairs what it finds.
LEMMA ConvergeComing ==
  ASSUME NEW t \in Threads, Coming(t)'
  PROVE  ConvergeInv'
BY DEF ConvergeInv, Threads

\* A step outside the decision that changes neither outputs nor flags.
LEMMA ConvergeAside ==
  ASSUME TypeOK, ConvergeInv, NEW t \in Threads, pc[t] \notin Deciding,
         NEW point \in Point \ Deciding, Goto(t, point),
         \A u \in Threads \ {t} : want'[u] = want[u],
         \A u \in Controllers \ {t} : todo'[u] = todo[u],
         UNCHANGED <<mDevices, mFmRadioEnabled>>,
         mCurSndDevice' \in {mCurSndDevice, NoDevice},
         NoRecording' => NoRecording, Coming(t) => Coming(t)'
  PROVE  ConvergeInv'
<1> SUFFICES ASSUME NoRecording' PROVE (\E u \in Threads : Coming(u)') \/ Arrives'
  BY DEF ConvergeInv, Threads
<1>1. \A u \in Threads \ {t} : pc'[u] = pc[u]
  BY DEF Goto, TypeOK
<1>2. pc'[t] \notin Deciding
  BY DEF Goto, TypeOK
<1>3. ASSUME NEW u \in Threads, Coming(u) PROVE Coming(u)'
  BY <1>1, <1>3 DEF Coming
<1>4. PlainRoute' = PlainRoute
  BY DEF PlainRoute
<1>5. CASE Arrives
  BY <1>1, <1>2, <1>4, <1>5 DEF Arrives, Threads
<1> QED BY <1>3, <1>5 DEF ConvergeInv

\* A step of the decision before the save.
LEMMA ConvergeDecides ==
  ASSUME TypeOK, ConvergeInv, NEW t \in Threads, pc[t] \in Deciding,
         NEW point \in Deciding, Goto(t, point),
         UNCHANGED <<want, todo, mDevices, mFmRadioEnabled, inState, inDevices>>
  PROVE  ConvergeInv'
<1> SUFFICES ASSUME NoRecording' PROVE (\E u \in Threads : Coming(u)') \/ Arrives'
  BY DEF ConvergeInv, Threads
<1>1. \A u \in Threads \ {t} : pc'[u] = pc[u]
  BY DEF Goto, TypeOK
<1>2. pc'[t] \in Deciding
  BY DEF Goto, TypeOK
<1>3. ASSUME NEW u \in Threads, Coming(u) PROVE Coming(u)'
  BY <1>1, <1>3 DEF Coming, Deciding, CallPoint
<1>4. PlainRoute' = PlainRoute
  BY DEF PlainRoute
<1>5. CASE Arrives
  BY <1>1, <1>2, <1>4, <1>5 DEF Arrives, Threads
<1>6. NoRecording
  BY DEF NoRecording
<1> QED BY <1>3, <1>5, <1>6 DEF ConvergeInv

\* The decision ends with its route current, saved or found to be so already:
\* the lock is held, so that no other thread is deciding.
LEMMA ConvergeDecided ==
  ASSUME TypeOK, LockInv, ConvergeInv, NEW t \in Threads, pc[t] \in Deciding,
         NEW point \in Point \ Deciding, Goto(t, point),
         mCurSndDevice' = want[t].dev,
         UNCHANGED <<todo, mDevices, mFmRadioEnabled, inState, inDevices>>
  PROVE  ConvergeInv'
<1> SUFFICES ASSUME NoRecording' PROVE (\E u \in Threads : Coming(u)') \/ Arrives'
  BY DEF ConvergeInv, Threads
<1>1. \A u \in Threads \ {t} : pc'[u] = pc[u]
  BY DEF Goto, TypeOK
<1>2. pc'[t] \notin Deciding
  BY DEF Goto, TypeOK
<1>3. ASSUME NEW u \in Threads, Coming(u) PROVE Coming(u)'
  BY <1>1, <1>3 DEF Coming, Deciding, CallPoint
<1>4. PlainRoute' = PlainRoute
  BY DEF PlainRoute
<1>5. \A u \in Threads \ {t} : pc[u] \notin Deciding
  BY DEF LockInv, Deciding, LockedPoint
<1>6. CASE Arrives
  <2>1. want[t].dev = PlainRoute.dev
    BY <1>6 DEF Arrives
  <2>2. \A u \in Threads : pc'[u] \notin Deciding
    BY <1>1, <1>2, <1>5
  <2> QED BY <1>4, <2>1, <2>2 DEF Arrives, Threads
<1>7. NoRecording
  BY DEF NoRecording
<1> QED BY <1>3, <1>6, <1>7 DEF ConvergeInv

\* The decision begins with the route the state calls for: what was written
\* before is seen, and what is written later is followed by a call of its own.
LEMMA ConvergeSelect ==
  ASSUME TypeOK, LockInv, PlainInv, PlaceInv, NEW t \in Threads, Select(t)
  PROVE  ConvergeInv'
<1> SUFFICES ASSUME NoRecording' PROVE Arrives'
  BY DEF ConvergeInv
<1>1. NoRecording
  BY DEF NoRecording, Select, input
<1>2. CallsWithInput(t) => inDevices[t] = "none"
  BY <1>1 DEF NoRecording, PlaceInv
<1>3. SelectedRoute(t) = PlainRoute
  BY <1>2, PlainRouting DEF SelectedRoute
<1>4. /\ want' = [want EXCEPT ![t] = PlainRoute]
      /\ Goto(t, "dr_compare")
  BY <1>2, <1>3 DEF Select
<1>5. want'[t] = PlainRoute /\ pc'[t] = "dr_compare"
      /\ \A u \in Threads \ {t} : pc'[u] = pc[u]
  BY <1>4 DEF Goto, TypeOK, LocalsType
<1>6. \A u \in Threads : pc[u] \notin Deciding
  BY ThreadAssumption DEF Select, LockInv, Deciding, LockedPoint, Threads
<1>7. PlainRoute' = PlainRoute
  BY DEF Select, flags, output, PlainRoute
<1> QED BY <1>5, <1>6, <1>7 DEF Arrives, Deciding, Threads

LEMMA ConvergeRouting ==
  ASSUME TypeOK, LockInv, PlainInv, PlaceInv, ConvergeInv, NEW t \in Threads,
         DoRouting(t)
  PROVE  ConvergeInv'
<1>0. caller[t] \in CallPoint /\ \A p \in CallPoint : Resume[p] \in Point \ Deciding
  BY DEF TypeOK, LocalsType, CallPoint, Resume, Point, Deciding
<1>1. CASE Select(t)
  BY <1>1, ConvergeSelect
<1>2. CASE Skip(t)
  BY <1>0, <1>2, ConvergeDecided
  DEF Skip, RouteIsNew, Return, At, Deciding, flags, output, input
<1>3. CASE SendRoute(t)
  BY <1>3, ConvergeDecides DEF SendRoute, At, Deciding, flags, output, input, locals
<1>4. CASE DisableOld(t)
  BY <1>4, ConvergeDecides DEF DisableOld, At, Deciding, flags, output, input, locals
<1>5. CASE SaveDevice(t)
  BY <1>5, ConvergeDecided
  DEF SaveDevice, At, Deciding, Point, LockedPoint, flags, output, input, locals
<1>6. CASE SaveMask(t) \/ EnableNew(t)
  <2>1. pc[t] \notin Deciding /\ ~Coming(t)
    BY <1>6 DEF SaveMask, EnableNew, At, Deciding, Coming, CallPoint
  <2>2. \A u \in Threads \ {t} : want'[u] = want[u]
    BY <1>6 DEF SaveMask, EnableNew, Return, TypeOK, LocalsType, locals
  <2>3. NoRecording' => NoRecording
    BY <1>6 DEF SaveMask, EnableNew, input, NoRecording
  <2>4. UNCHANGED <<mCurSndDevice, mDevices, mFmRadioEnabled, todo>>
    BY <1>6 DEF SaveMask, EnableNew, Return, locals, flags, output
  <2>5. \E point \in Point \ Deciding : Goto(t, point)
    BY <1>0, <1>6 DEF SaveMask, EnableNew, Return, Point, LockedPoint, Deciding
  <2> QED BY <2>1, <2>2, <2>3, <2>4, <2>5, ConvergeAside
<1> QED BY <1>1, <1>2, <1>3, <1>4, <1>5, <1>6 DEF DoRouting

LEMMA ConvergePostProc ==
  ASSUME TypeOK, ConvergeInv, NEW t \in Threads, EnablePostProc(t)
  PROVE  ConvergeInv'
<1>0. caller[t] \in CallPoint /\ \A p \in CallPoint : Resume[p] \in Point \ Deciding
  BY DEF TypeOK, LocalsType, CallPoint, Resume, Point, Deciding
<1>1. UNCHANGED <<mCurSndDevice, todo, mDevices, mFmRadioEnabled, inState, inDevices>>
      /\ pc[t] \in PostProcPoint
  BY PostProcStep DEF flags, output, input
<1>2. ~Coming(t) /\ (NoRecording' => NoRecording)
  BY <1>1 DEF Coming, PostProcPoint, CallPoint, NoRecording
<1>3. CASE UNCHANGED <<pc, locals>>
  BY <1>1, <1>3 DEF locals, ConvergeInv, NoRecording, Coming, Arrives, PlainRoute, Threads
<1>4. CASE pc[t] = "pp_off" /\ Goto(t, "dr_save") /\ UNCHANGED locals
  BY <1>1, <1>4, ConvergeDecides DEF locals, Deciding
<1>5. ASSUME pc[t] # "pp_off", NEW point \in Point \ Deciding, Goto(t, point),
             \A u \in Threads \ {t} : want'[u] = want[u]
      PROVE  ConvergeInv'
  BY <1>1, <1>2, <1>5, ConvergeAside DEF PostProcPoint, Deciding
<1>6. CASE pc[t] = "pp_on" /\ Return(t)
  <2>1. \A u \in Threads \ {t} : want'[u] = want[u]
    BY <1>6 DEF Return, TypeOK, LocalsType
  <2> QED BY <1>0, <1>5, <1>6, <2>1 DEF Return
<1>7. CASE /\ \/ pc[t] = "stb_off" /\ Goto(t, "stb_close")
              \/ pc[t] \in {"wr_on", "wr_off"} /\ Goto(t, "idle")
           /\ UNCHANGED <<mLock, locals>>
  <2>1. {"idle", "stb_close"} \subseteq Point \ Deciding
    BY DEF Point, Deciding
  <2>2. \A u \in Threads \ {t} : want'[u] = want[u]
    BY <1>7 DEF locals
  <2> QED BY <1>5, <1>7, <2>1, <2>2
<1> QED BY <1>3, <1>4, <1>6, <1>7, PostProcStep

LEMMA ConvergePlay ==
  ASSUME TypeOK, LockInv, PlainInv, PlaceInv, ConvergeInv, Play
  PROVE  ConvergeInv'
<1>0. Player \in Threads /\ Player \notin Controllers
  BY ThreadAssumption DEF Threads
<1>1. CASE DoRouting(Player) \/ EnablePostProc(Player)
  BY <1>0, <1>1, ConvergeRouting, ConvergePostProc
<1>2. CASE OutSetRouting
  <2>1. pc'[Player] = "out_params"
    BY <1>0, <1>2 DEF OutSetRouting, Goto, TypeOK
  <2> QED BY <1>0, <2>1, ConvergeComing DEF Coming, CallPoint
<1>3. CASE ~DoRouting(Player) /\ ~EnablePostProc(Player) /\ ~OutSetRouting
  <2>1. /\ pc[Player] \notin Deciding /\ ~Coming(Player)
        /\ \E point \in Point \ Deciding : Goto(Player, point)
    BY <1>0, <1>3 DEF Play, WriteFill, WriteStart, OutStandby,
       OutStandbyClose, At, Goto, TypeOK, Point, Deciding, Coming, CallPoint, PostProcPoint
  <2>2. UNCHANGED <<want, todo, mDevices, mFmRadioEnabled, mCurSndDevice, input>>
    BY <1>3 DEF Play, WriteFill, WriteStart, OutStandby,
       OutStandbyClose, locals, flags, output
  <2>3. NoRecording' => NoRecording
    BY <2>2 DEF input, NoRecording
  <2> QED BY <1>0, <2>1, <2>2, <2>3, ConvergeAside
<1> QED BY <1>1, <1>2, <1>3

LEMMA ConvergeRecord ==
  ASSUME TypeOK, LockInv, PlainInv, PlaceInv, ConvergeInv, NEW r \in Recorders, Record(r)
  PROVE  ConvergeInv'
<1>0. r \in Threads /\ r \notin Controllers
  BY ThreadAssumption DEF Threads
<1>1. CASE DoRouting(r) \/ EnablePostProc(r)
  BY <1>0, <1>1, ConvergeRouting, ConvergePostProc
<1>2. CASE ReadOpen(r) \/ ReadForceRoute(r)
  <2>1. inState'[r] # "CLOSED"
    BY <1>2 DEF ReadOpen, ReadForceRoute, TypeOK, InputType
  <2> QED BY <2>1 DEF ConvergeInv, NoRecording
<1>3. CASE ReadStart(r)
  <2>1. /\ pc[r] \notin Deciding /\ ~Coming(r)
        /\ \E point \in Point \ Deciding : Goto(r, point)
    BY <1>0, <1>3 DEF ReadStart, At, Point, Deciding, Coming, CallPoint
  <2>2. UNCHANGED <<want, todo, mDevices, mFmRadioEnabled, mCurSndDevice>>
        /\ (NoRecording' => NoRecording)
    BY <1>3 DEF ReadStart, locals, flags, output, NoRecording
  <2> QED BY <1>0, <2>1, <2>2, ConvergeAside
<1>4. CASE InStandby(r) \/ InSetRouting(r)
  <2>1. pc'[r] \in CallPoint
    BY <1>0, <1>4 DEF InStandby, InSetRouting, Goto, TypeOK, CallPoint
  <2> QED BY <1>0, <2>1, ConvergeComing DEF Coming
<1> QED BY <1>1, <1>2, <1>3, <1>4 DEF Record

LEMMA ConvergeKeys ==
  ASSUME TypeOK, ConvergeInv, NEW c \in Controllers, HandleKeys(c)
  PROVE  ConvergeInv'
<1>0. c \in Threads /\ pc[c] = "params"
  BY DEF Threads, HandleKeys, SetBtName, SetDualMic, SetTtyMode, SetFmOn, SetFmOff,
         RouteAtEnd, Handle, At
<1>1. CASE SetBtName(c) \/ SetDualMic(c) \/ RouteAtEnd(c)
  <2>1. pc'[c] \in CallPoint
    BY <1>0, <1>1 DEF SetBtName, SetDualMic, RouteAtEnd, Goto, TypeOK, CallPoint
  <2> QED BY <1>0, <2>1, ConvergeComing DEF Coming
<1>2. CASE SetFmOn(c) \/ SetFmOff(c)
  <2>1. pc'[c] = "params"
    BY <1>0, <1>2 DEF SetFmOn, SetFmOff, Goto, TypeOK
  <2>2. "tty_mode" \notin todo'[c]
    BY <1>2 DEF SetFmOn, SetFmOff, Handle, TypeOK, LocalsType
  <2> QED BY <1>0, <2>1, <2>2, ConvergeComing DEF Coming
<1>3. CASE SetTtyMode(c)
  <2>1. "tty_mode" \in todo[c] /\ \E point \in Point \ Deciding : Goto(c, point)
    BY <1>3 DEF SetTtyMode, Handle, Point, Deciding
  <2>2. pc[c] \notin Deciding /\ ~Coming(c)
    BY <1>0, <2>1 DEF Deciding, Coming, CallPoint
  <2>3. UNCHANGED <<want, mDevices, mFmRadioEnabled, mCurSndDevice, inState, inDevices>>
    BY <1>3 DEF HandleKeys, SetTtyMode, output, input
  <2>4. \A u \in Controllers \ {c} : todo'[u] = todo[u]
    BY <1>3 DEF SetTtyMode, Handle, TypeOK, LocalsType
  <2>5. NoRecording' => NoRecording
    BY <2>3 DEF NoRecording
  <2> QED BY <1>0, <2>1, <2>2, <2>3, <2>4, <2>5, ConvergeAside
<1> QED BY <1>1, <1>2, <1>3 DEF HandleKeys

LEMMA ConvergeControl ==
  ASSUME TypeOK, LockInv, PlainInv, PlaceInv, ConvergeInv, NEW c \in Controllers,
         Control(c)
  PROVE  ConvergeInv'
<1>0. c \in Threads
  BY DEF Threads
<1>1. CASE DoRouting(c) \/ EnablePostProc(c)
  BY <1>0, <1>1, ConvergeRouting, ConvergePostProc
<1>2. CASE HandleKeys(c)
  BY <1>2, ConvergeKeys
<1>3. CASE SetMode(c) \/ ModeClear(c) \/ SetMicMute(c) \/ SetParameters(c)
  <2>1. pc[c] \in {"idle", "mode_clear"}
    BY <1>3 DEF SetMode, ModeClear, SetMicMute, SetParameters, At
  <2>2. pc[c] \notin Deciding /\ ~Coming(c)
    BY <2>1 DEF Deciding, Coming, CallPoint
  <2>3. \E point \in Point \ Deciding : Goto(c, point)
    <3>1. SetMicMute(c) => Goto(c, "idle")
      BY <1>0 DEF SetMicMute, At, Goto, TypeOK
    <3> QED BY <1>3, <3>1 DEF SetMode, ModeClear, SetParameters, Point, Deciding
  <2>4. /\ UNCHANGED <<want, mDevices, mFmRadioEnabled, inState, inDevices>>
        /\ mCurSndDevice' \in {mCurSndDevice, NoDevice}
    BY <1>3 DEF SetMode, ModeClear, SetMicMute, SetParameters, locals, output, input, flags
  <2>5. \A u \in Controllers \ {c} : todo'[u] = todo[u]
    BY <1>3 DEF SetMode, ModeClear, SetMicMute, SetParameters, locals, TypeOK, LocalsType
  <2>6. NoRecording' => NoRecording
    BY <2>4 DEF NoRecording
  <2> QED BY <1>0, <2>2, <2>3, <2>4, <2>5, <2>6, ConvergeAside
<1> QED BY <1>1, <1>2, <1>3 DEF Control

LEMMA ConvergeNext ==
  TypeOK /\ LockInv /\ PlainInv /\ PlaceInv /\ ConvergeInv /\ [Next]_vars => ConvergeInv'
<1> SUFFICES ASSUME TypeOK, LockInv, PlainInv, PlaceInv, ConvergeInv, [Next]_vars
             PROVE  ConvergeInv'
  OBVIOUS
<1>1. CASE UNCHANGED vars
  BY <1>1 DEF vars, locals, flags, output, input, ConvergeInv, NoRecording, Coming,
              Arrives, PlainRoute
<1> QED BY <1>1, ConvergePlay, ConvergeRecord, ConvergeControl DEF Next

\* However the requests of the policy manager, of the record threads and of the
\* callers of setParameters() interleave, and whatever RPC fails, the one whose
\* doRouting() comes last has read the last outputs and flags: the route that
\* stays current is the one they call for.
THEOREM RequestsConverge == ModeIndependent => (Spec => []RouteFollowsState)
<1> SUFFICES ASSUME ModeIndependent PROVE Spec => []RouteFollowsState
  OBVIOUS
<1>1. Init => PlainInv /\ PlaceInv /\ ConvergeInv
  <2> SUFFICES ASSUME Init PROVE PlainInv /\ PlaceInv /\ ConvergeInv
    OBVIOUS
  <2>1. PlainInv /\ PlaceInv
    BY DEF Init, PlainInv, PlaceInv, CallsWithInput, At
  <2>2. Arrives
    BY DEF Init, Arrives, Deciding
  <2> QED BY <2>1, <2>2 DEF ConvergeInv
<1>2. TypeOK /\ PlainInv /\ [Next]_vars => PlainInv'
  BY PlainNext
<1>3. TypeOK /\ PlaceInv /\ [Next]_vars => PlaceInv'
  BY PlaceNext
<1>4. PlainInv /\ ConvergeInv => RouteFollowsState
  <2> SUFFICES ASSUME PlainInv, ConvergeInv, AllIdle, NoRecording
               PROVE  mCurSndDevice \in {NoDevice, WantedOutput}
    BY DEF RouteFollowsState, NoRecording
  <2>1. \A t \in Threads : pc[t] \notin Deciding /\ ~Coming(t)
    BY DEF AllIdle, At, Deciding, Coming, CallPoint
  <2>2. WantedOutput = PlainRoute.dev
    BY PlainRouting DEF WantedOutput
  <2> QED BY <2>1, <2>2 DEF ConvergeInv, Arrives
<1>5. Init => TypeOK /\ LockInv
  BY InitType, LockInit
<1>6. TypeOK /\ LockInv /\ [Next]_vars => TypeOK' /\ LockInv'
  BY NextType, LockNext
<1> QED BY <1>1, <1>2, <1>3, <1>4, <1>5, <1>6, ConvergeNext, PTL DEF Spec

-----------------------------------------------------------------------------
(* Mutes.                                                                  *)

\* Nothing but the FM state and setMicMute() decides the mutes: the mutes of a
\* call may be lost with the clearing of its setMode(), those of the built-in
\* microphone with a doRouting() that finds its device current already, and
\* those of a setMicMute() whose RPC fails with the next one of the same state.
PlainMutes ==
  /\ ModeValues \cap {"IN_CALL", "IN_COMMUNICATION"} = {}
  /\ "BUILTIN_MIC" \notin InRoutes
  /\ ~DriversMayFail

NoCallInv ==
  /\ ~IsInCall(mMode)
  /\ mBuiltinMicSelected = FALSE
  /\ \A r \in Recorders : inDevices[r] # "BUILTIN_MIC"

\* The mutes in force are those of the FM state of the last route.
MutedInv ==
  /\ dsp.ear = (~mFmPrev)
  /\ dsp.mic = (~mFmPrev /\ mMicMute)

\* A thread bound to compare the FM state with that of the last route.
Comparing(t) ==
  \/ pc[t] \in (CallPoint \ {"rec_route", "in_params"}) \cup {"dr_compare"}
  \/ t \in Controllers /\ pc[t] = "params" /\ "tty_mode" \notin todo[t]

ComparedInv == mFmRadioEnabled = mFmPrev \/ \E t \in Threads : Comparing(t)

\* The one outcome of an RPC that does not fail.
LEMMA RouteMutes ==
  ASSUME PlainMutes, NoCallInv, NEW dev \in SndDevice \cup {"same"}, NEW mic,
         NEW o \in RouteOutcomes(dev, mic)
  PROVE  /\ o.dsp.ear = (~mFmRadioEnabled)
         /\ o.dsp.mic = (~mFmRadioEnabled /\ mic)
<1>1. EarMute(dev, mMode, mBuiltinMicSelected, mFmRadioEnabled) = (~mFmRadioEnabled)
  BY DEF EarMute, NoCallInv
<1>2. MicMute(mic, mFmRadioEnabled) = (~mFmRadioEnabled /\ mic)
  BY DEF MicMute
<1>3. o.dsp.ear = EarMute(dev, mMode, mBuiltinMicSelected, mFmRadioEnabled)
      /\ o.dsp.mic = MicMute(mic, mFmRadioEnabled)
  BY DEF RouteOutcomes, RpcOutcomes, Outcome, PlainMutes
<1> QED BY <1>1, <1>2, <1>3

LEMMA NoCallNext ==
  ASSUME PlainMutes, TypeOK, PlaceInv, NoCallInv, [Next]_vars
  PROVE  NoCallInv'
<1> DEFINE Same == UNCHANGED <<mMode, mBuiltinMicSelected, inDevices>>
<1>0. Same => NoCallInv'
  BY DEF NoCallInv
<1>1. ASSUME NEW t \in Threads, DoRouting(t) \/ EnablePostProc(t) PROVE NoCallInv'
  <2>1. CASE Select(t)
    <3>1. CallsWithInput(t) => inDevices[t] # "BUILTIN_MIC"
      BY DEF PlaceInv, NoCallInv
    <3>2. mBuiltinMicSelected' = FALSE
      BY <2>1, <3>1 DEF Select, NoCallInv
    <3> QED BY <2>1, <3>2 DEF Select, NoCallInv, flags, input
  <2>2. CASE DoRouting(t) /\ ~Select(t)
    BY <1>0, <2>2 DEF DoRouting, Skip, SendRoute, DisableOld, SaveDevice, SaveMask,
       EnableNew, flags, input, mics
  <2>3. CASE EnablePostProc(t)
    BY <1>0, <2>3, PostProcStep DEF flags, input, mics
  <2> QED BY <1>1, <2>1, <2>2, <2>3
<1>2. CASE Play
  <2>1. Player \in Threads
    BY DEF Threads
  <2> QED BY <1>0, <1>1, <1>2, <2>1 DEF Play, WriteFill, WriteStart,
             OutStandby, OutStandbyClose, OutSetRouting, flags, input, mics
<1>3. ASSUME NEW r \in Recorders, Record(r) PROVE NoCallInv'
  <2>1. r \in Threads
    BY DEF Threads
  <2>2. CASE InSetRouting(r)
    BY <2>2 DEF InSetRouting, PlainMutes, NoCallInv, flags, mics, TypeOK, InputType
  <2> QED BY <1>0, <1>1, <1>3, <2>1, <2>2 DEF Record, ReadOpen, ReadForceRoute, ReadStart,
             InStandby, flags, mics
<1>4. ASSUME NEW c \in Controllers, Control(c) PROVE NoCallInv'
  <2>1. c \in Threads
    BY DEF Threads
  <2>2. CASE SetMode(c)
    BY <2>2 DEF SetMode, PlainMutes, NoCallInv, IsInCall, input, mics
  <2>3. CASE HandleKeys(c)
    BY <1>0, <2>3 DEF HandleKeys, SetBtName, SetDualMic, SetTtyMode, SetFmOn, SetFmOff,
       RouteAtEnd, flags, input, mics
  <2> QED BY <1>0, <1>1, <1>4, <2>1, <2>2, <2>3 DEF Control, ModeClear, SetMicMute,
             SetParameters, flags, input, mics
<1>5. CASE UNCHANGED vars
  BY <1>0, <1>5 DEF vars, flags, mics, input
<1> QED BY <1>2, <1>3, <1>4, <1>5 DEF Next

LEMMA MutedNext ==
  ASSUME PlainMutes, TypeOK, NoCallInv, MutedInv, [Next]_vars
  PROVE  MutedInv'
<1> DEFINE Same == UNCHANGED <<dsp, mFmPrev, mMicMute>>
<1>0. Same => MutedInv'
  BY DEF MutedInv
<1>1. ASSUME NEW t \in Threads, DoRouting(t) \/ EnablePostProc(t) PROVE MutedInv'
  <2>1. CASE SendRoute(t)
    <3>1. want[t].dev \in SndDevice
      BY DEF TypeOK, LocalsType, RouteType
    <3>2. PICK o \in RouteOutcomes(want[t].dev, mMicMute) : dsp' = o.dsp
      BY <2>1 DEF SendRoute
    <3>3. dsp'.ear = (~mFmRadioEnabled) /\ dsp'.mic = (~mFmRadioEnabled /\ mMicMute)
      BY <3>1, <3>2, RouteMutes
    <3>4. mFmPrev' = mFmRadioEnabled /\ mMicMute' = mMicMute
      BY <2>1 DEF SendRoute, mics
    <3> QED BY <3>3, <3>4 DEF MutedInv
  <2>2. CASE DoRouting(t) /\ ~SendRoute(t)
    BY <1>0, <2>2 DEF DoRouting, Select, Skip, DisableOld, SaveDevice, SaveMask,
       EnableNew, routed, mics
  <2>3. CASE EnablePostProc(t)
    BY <1>0, <2>3, PostProcStep DEF routed, mics
  <2> QED BY <1>1, <2>1, <2>2, <2>3
<1>2. CASE Play
  <2>1. Player \in Threads
    BY DEF Threads
  <2> QED BY <1>0, <1>1, <1>2, <2>1 DEF Play, WriteFill, WriteStart,
             OutStandby, OutStandbyClose, OutSetRouting, routed, mics
<1>3. ASSUME NEW r \in Recorders, Record(r) PROVE MutedInv'
  <2>1. r \in Threads
    BY DEF Threads
  <2> QED BY <1>0, <1>1, <1>3, <2>1 DEF Record, ReadOpen, ReadForceRoute, ReadStart,
             InStandby, InSetRouting, routed, mics
<1>4. ASSUME NEW c \in Controllers, Control(c) PROVE MutedInv'
  <2>1. c \in Threads
    BY DEF Threads
  <2>2. CASE SetMicMute(c)
    <3>1. PICK o \in RouteOutcomes("same", ~mMicMute) : dsp' = o.dsp
      BY <2>2, Zenon DEF SetMicMute
    <3>2. dsp'.ear = (~mFmRadioEnabled) /\ dsp'.mic = (~mFmRadioEnabled /\ ~mMicMute)
      BY <3>1, RouteMutes, Zenon
    <3>3. mFmPrev' = mFmRadioEnabled
      BY <2>2 DEF SetMicMute
    <3>4. mMicMute' = ~mMicMute
      BY <2>2 DEF SetMicMute
    <3> QED BY <3>2, <3>3, <3>4, Zenon DEF MutedInv
  <2>3. CASE HandleKeys(c)
    BY <1>0, <2>3 DEF HandleKeys, routed, mics
  <2> QED BY <1>0, <1>1, <1>4, <2>1, <2>2, <2>3 DEF Control, SetMode, ModeClear,
             SetParameters, routed, mics
<1>5. CASE UNCHANGED vars
  BY <1>0, <1>5 DEF vars, routed, mics
<1> QED BY <1>2, <1>3, <1>4, <1>5 DEF Next

LEMMA ComparedAside ==
  ASSUME TypeOK, ComparedInv, NEW t \in Threads, NEW point \in Point, Goto(t, point),
         \A u \in Controllers \ {t} : todo'[u] = todo[u],
         UNCHANGED <<mFmRadioEnabled, mFmPrev>>, Comparing(t) => Comparing(t)'
  PROVE  ComparedInv'
<1>1. \A u \in Threads \ {t} : pc'[u] = pc[u]
  BY DEF Goto, TypeOK
<1>2. \A u \in Threads : Comparing(u) => Comparing(u)'
  BY <1>1 DEF Comparing
<1> QED BY <1>2 DEF ComparedInv, Threads

LEMMA ComparedNow ==
  ASSUME NEW t \in Threads, Comparing(t)'
  PROVE  ComparedInv'
BY DEF ComparedInv, Threads

LEMMA ComparedRouting ==
  ASSUME TypeOK, ComparedInv, NEW t \in Threads, DoRouting(t)
  PROVE  ComparedInv'
<1>0. caller[t] \in CallPoint /\ \A p \in CallPoint : Resume[p] \in Point
  BY DEF TypeOK, LocalsType, CallPoint, Resume, Point
<1>1. CASE Select(t)
  <2>1. CASE CallsWithInput(t)
    <3>1. ~Comparing(t)
      BY <2>1 DEF CallsWithInput, At, Comparing
    <3>2. \E point \in Point : Goto(t, point)
      BY <1>0, <1>1 DEF Select, Point, LockedPoint
    <3> QED BY <1>1, <3>1, <3>2, ComparedAside DEF Select, flags, routed
  <2>2. CASE ~CallsWithInput(t)
    <3>1. pc'[t] = "dr_compare"
      BY <1>1, <2>2 DEF Select, Goto, TypeOK
    <3> QED BY <3>1, ComparedNow DEF Comparing
  <2> QED BY <2>1, <2>2
<1>2. CASE Skip(t)
  BY <1>2 DEF Skip, RouteIsNew, ComparedInv, flags, routed
<1>3. CASE SendRoute(t)
  BY <1>3 DEF SendRoute, ComparedInv, flags
<1>4. CASE DisableOld(t) \/ SaveDevice(t) \/ SaveMask(t) \/ EnableNew(t)
  <2>1. ~Comparing(t) /\ \E point \in Point : Goto(t, point)
    BY <1>0, <1>4 DEF DisableOld, SaveDevice, SaveMask, EnableNew, Return, At, Comparing, CallPoint,
       Point, LockedPoint
  <2> QED BY <1>4, <2>1, ComparedAside
          DEF DisableOld, SaveDevice, SaveMask, EnableNew, Return, flags, routed, locals
<1> QED BY <1>1, <1>2, <1>3, <1>4 DEF DoRouting

LEMMA ComparedPostProc ==
  ASSUME TypeOK, ComparedInv, NEW t \in Threads, EnablePostProc(t)
  PROVE  ComparedInv'
<1>1. UNCHANGED <<mFmRadioEnabled, mFmPrev, todo>> /\ pc[t] \in PostProcPoint
  BY PostProcStep DEF flags, routed
<1>2. ~Comparing(t)
  BY <1>1 DEF Comparing, PostProcPoint, CallPoint
<1>3. CASE UNCHANGED pc
  BY <1>1, <1>3 DEF ComparedInv, Comparing, Threads
<1>4. CASE ~UNCHANGED pc
  <2>1. caller[t] \in CallPoint /\ \A p \in CallPoint : Resume[p] \in Point
    BY DEF TypeOK, LocalsType, CallPoint, Resume, Point
  <2>2. \E point \in Point : Goto(t, point)
    BY <1>4, <2>1, PostProcStep DEF Return, Point, LockedPoint
  <2> QED BY <1>1, <1>2, <2>2, ComparedAside
<1> QED BY <1>3, <1>4

LEMMA ComparedPlay ==
  ASSUME TypeOK, ComparedInv, Play
  PROVE  ComparedInv'
<1>0. Player \in Threads /\ Player \notin Controllers
  BY ThreadAssumption DEF Threads
<1>1. CASE OutSetRouting
  <2>1. pc'[Player] = "out_params"
    BY <1>0, <1>1 DEF OutSetRouting, Goto, TypeOK
  <2> QED BY <1>0, <2>1, ComparedNow DEF Comparing, CallPoint
<1>2. CASE ~OutSetRouting /\ ~DoRouting(Player) /\ ~EnablePostProc(Player)
  <2>1. ~Comparing(Player) /\ \E point \in Point : Goto(Player, point)
    BY <1>0, <1>2 DEF Play, WriteFill, WriteStart, OutStandby,
       OutStandbyClose, At, Goto, TypeOK, Comparing, CallPoint, Point, PostProcPoint
  <2>2. UNCHANGED <<todo, mFmRadioEnabled, mFmPrev>>
    BY <1>2 DEF Play, WriteFill, WriteStart, OutStandby,
       OutStandbyClose, locals, flags, routed
  <2> QED BY <1>0, <2>1, <2>2, ComparedAside
<1> QED BY <1>0, <1>1, <1>2, ComparedRouting, ComparedPostProc DEF Play

LEMMA ComparedRecord ==
  ASSUME TypeOK, ComparedInv, NEW r \in Recorders, Record(r)
  PROVE  ComparedInv'
<1>0. r \in Threads /\ r \notin Controllers
  BY ThreadAssumption DEF Threads
<1>1. CASE ReadOpen(r)
  BY <1>1 DEF ReadOpen, ComparedInv, Comparing, locals, flags, routed
<1>2. CASE ~ReadOpen(r) /\ ~DoRouting(r) /\ ~EnablePostProc(r)
  <2>1. ~Comparing(r) /\ \E point \in Point : Goto(r, point)
    BY <1>0, <1>2 DEF Record, ReadForceRoute, ReadStart, InStandby, InSetRouting, At,
       Comparing, CallPoint, Point
  <2>2. UNCHANGED <<todo, mFmRadioEnabled, mFmPrev>>
    BY <1>2 DEF Record, ReadForceRoute, ReadStart, InStandby, InSetRouting, locals,
       flags, routed
  <2> QED BY <1>0, <2>1, <2>2, ComparedAside
<1> QED BY <1>0, <1>1, <1>2, ComparedRouting, ComparedPostProc DEF Record

LEMMA ComparedControl ==
  ASSUME TypeOK, ComparedInv, NEW c \in Controllers, Control(c)
  PROVE  ComparedInv'
<1>0. c \in Threads
  BY DEF Threads
<1>1. CASE SetMode(c) \/ ModeClear(c) \/ SetParameters(c)
  <2>1. ~Comparing(c) /\ \E point \in Point : Goto(c, point)
    BY <1>1 DEF SetMode, ModeClear, SetParameters, At, Comparing, CallPoint, Point
  <2>2. UNCHANGED <<mFmRadioEnabled, mFmPrev>>
        /\ \A u \in Controllers \ {c} : todo'[u] = todo[u]
    BY <1>1 DEF SetMode, ModeClear, SetParameters, locals, flags, routed, TypeOK, LocalsType
  <2> QED BY <1>0, <2>1, <2>2, ComparedAside
<1>2. CASE SetMicMute(c)
  BY <1>2 DEF SetMicMute, ComparedInv, flags
<1>3. CASE SetBtName(c) \/ SetDualMic(c) \/ RouteAtEnd(c)
  <2>1. pc'[c] \in {"sp_name", "sp_dualmic", "sp_final"}
    BY <1>0, <1>3 DEF SetBtName, SetDualMic, RouteAtEnd, Goto, TypeOK
  <2> QED BY <1>0, <2>1, ComparedNow DEF Comparing, CallPoint
<1>4. CASE SetFmOn(c) \/ SetFmOff(c)
  <2>1. pc'[c] = "params" /\ "tty_mode" \notin todo'[c]
    BY <1>0, <1>4 DEF SetFmOn, SetFmOff, Handle, Goto, TypeOK, LocalsType
  <2> QED BY <1>0, <2>1, ComparedNow DEF Comparing
<1>5. CASE HandleKeys(c) /\ SetTtyMode(c)
  <2>1. ~Comparing(c) /\ \E point \in Point : Goto(c, point)
    BY <1>5 DEF SetTtyMode, Handle, At, Comparing, CallPoint, Point
  <2>2. UNCHANGED <<mFmRadioEnabled, mFmPrev>>
        /\ \A u \in Controllers \ {c} : todo'[u] = todo[u]
    BY <1>5 DEF HandleKeys, SetTtyMode, Handle, routed, TypeOK, LocalsType
  <2> QED BY <1>0, <2>1, <2>2, ComparedAside
<1> QED BY <1>0, <1>1, <1>2, <1>3, <1>4, <1>5, ComparedRouting, ComparedPostProc
       DEF Control, HandleKeys

LEMMA ComparedNext == TypeOK /\ ComparedInv /\ [Next]_vars => ComparedInv'
<1> SUFFICES ASSUME TypeOK, ComparedInv, [Next]_vars PROVE ComparedInv'
  OBVIOUS
<1>1. CASE UNCHANGED vars
  BY <1>1 DEF vars, locals, flags, routed, ComparedInv, Comparing
<1> QED BY <1>1, ComparedPlay, ComparedRecord, ComparedControl DEF Next

\* A change of FM is always followed by a doRouting() that sees it, and one of
\* the mic is sent at once: when every call has returned, the mutes in force are
\* those of the FM state and of the mic, whichever thread came last.
THEOREM MutesFollow == PlainMutes => (Spec => []MutesFollowState)
<1> SUFFICES ASSUME PlainMutes PROVE Spec => []MutesFollowState
  OBVIOUS
<1>1. Init => PlaceInv /\ NoCallInv /\ MutedInv /\ ComparedInv
  <2> SUFFICES ASSUME Init PROVE PlaceInv /\ NoCallInv /\ MutedInv /\ ComparedInv
    OBVIOUS
  <2>1. PlaceInv /\ ComparedInv
    BY DEF Init, PlaceInv, CallsWithInput, At, ComparedInv
  <2>2. NoCallInv
    BY DEF Init, NoCallInv, IsInCall
  <2>3. MutedInv
    BY DEF Init, MutedInv
  <2> QED BY <2>1, <2>2, <2>3
<1>2. TypeOK /\ PlaceInv /\ [Next]_vars => PlaceInv'
  BY PlaceNext
<1>3. TypeOK /\ PlaceInv /\ NoCallInv /\ [Next]_vars => NoCallInv'
  BY NoCallNext
<1>4. TypeOK /\ NoCallInv /\ MutedInv /\ [Next]_vars => MutedInv'
  BY MutedNext
<1>5. NoCallInv /\ MutedInv /\ ComparedInv => MutesFollowState
  <2> SUFFICES ASSUME NoCallInv, MutedInv, ComparedInv, AllIdle
               PROVE  /\ dsp.ear = EarMute(mCurSndDevice, mMode, mBuiltinMicSelected,
                                           mFmRadioEnabled)
                      /\ dsp.mic = MicMute(mMicMute, mFmRadioEnabled)
    BY DEF MutesFollowState
  <2>1. mFmRadioEnabled = mFmPrev
    BY DEF ComparedInv, Comparing, AllIdle, At, CallPoint
  <2>2. EarMute(mCurSndDevice, mMode, mBuiltinMicSelected, mFmRadioEnabled) = (~mFmPrev)
    BY <2>1 DEF EarMute, NoCallInv
  <2>3. MicMute(mMicMute, mFmRadioEnabled) = (~mFmPrev /\ mMicMute)
    BY <2>1 DEF MicMute
  <2> QED BY <2>2, <2>3 DEF MutedInv
<1> QED BY <1>1, <1>2, <1>3, <1>4, <1>5, TypeCorrect, ComparedNext, PTL DEF Spec

-----------------------------------------------------------------------------
(* The BT/FM pins.                                                         *)

\* One caller at a time changes the FM state (AudioFlinger holds mHardwareLock
\* across these calls), and nobody clears the current device: when setMode() or
\* a recording clears it while FM plays, the route that follows the end of FM no
\* longer knows that an FM device is left, and keeps the pins.  A write to the
\* pins' registers that fails is not tried again.
QuietCaller ==
  /\ ~DriversMayFail /\ Recorders = {} /\ ModeValues \subseteq {"NORMAL"}
  /\ \A c, d \in Controllers : c = d

ClearedInv == mMode = "NORMAL" /\ \A t \in Threads : pc[t] # "mode_clear"

\* The FM state may have changed since the last route: the FM keys are handled,
\* and the doRouting() at the end of the string has not begun.
FmPending(c) ==
  \/ pc[c] = "sp_final"
  \/ pc[c] = "params" /\ todo[c] \cap {"bt_name", "dualmic", "tty_mode", "fm_on"} = {}

NonePending == \A c \in Controllers : ~FmPending(c)
FmSettled == NonePending /\ \A c \in Controllers : pc[c] # "dr_compare"

\* The pins suit device d.  Between the end of FM and its route they may have
\* been given back already, by a route of the mixer thread.
PinsSuit(d) ==
  /\ d \notin FmDevice => pins = "BTSCO"
  /\ (mFmRadioEnabled \/ FmSettled) /\ d \in FmDevice => pins = "FM"

\* What is selected while no change is pending suits the FM state ...
WantInv ==
  NonePending => \A t \in Threads :
                   pc[t] \in Deciding => (want[t].dev \in FmDevice <=> mFmRadioEnabled)

\* ... and so does what is current ...
CurrentInv ==
  FmSettled /\ (\A t \in Threads : pc[t] \notin Unsaved)
  => (mCurSndDevice \in FmDevice <=> mFmRadioEnabled)

\* ... and an older route that arrives after the start of FM leaves no FM device.
LateInv ==
  mFmRadioEnabled => \A t \in Threads :
    pc[t] = "dr_compare" /\ want[t].dev \notin FmDevice => mCurSndDevice \notin FmDevice

KnownInv ==
  /\ (\A t \in Threads : pc[t] \notin Unsaved) => PinsSuit(mCurSndDevice)
  /\ \A t \in Threads : pc[t] \in Unsaved => PinsSuit(want[t].dev)

PinsInv == WantInv /\ CurrentInv /\ LateInv /\ KnownInv

LEMMA ClearedNext ==
  ASSUME QuietCaller, TypeOK, ClearedInv, [Next]_vars
  PROVE  ClearedInv'
<1>0. ASSUME NEW t \in Threads, UNCHANGED mMode,
             UNCHANGED pc \/ \E point \in Point \ {"mode_clear"} : Goto(t, point)
      PROVE  ClearedInv'
  BY <1>0 DEF ClearedInv, Goto, TypeOK
<1>1. ASSUME NEW t \in Threads, DoRouting(t) \/ EnablePostProc(t) PROVE ClearedInv'
  <2>1. caller[t] \in CallPoint /\ \A p \in CallPoint : Resume[p] \in Point \ {"mode_clear"}
    BY DEF TypeOK, LocalsType, CallPoint, Resume, Point
  <2>2. CASE DoRouting(t)
    BY <1>0, <2>1, <2>2 DEF DoRouting, Select, Skip, SendRoute, DisableOld, SaveDevice,
       SaveMask, EnableNew, Return, Point, LockedPoint, flags
  <2>3. CASE EnablePostProc(t)
    BY <1>0, <2>1, <2>3, PostProcStep DEF Return, Point, LockedPoint, flags
  <2> QED BY <1>1, <2>2, <2>3
<1>2. CASE Play
  <2>1. Player \in Threads
    BY DEF Threads
  <2> QED BY <1>0, <1>1, <1>2, <2>1 DEF Play, WriteFill, WriteStart,
             OutStandby, OutStandbyClose, OutSetRouting, Point, CallPoint, PostProcPoint,
             flags
<1>3. ASSUME NEW c \in Controllers, Control(c) PROVE ClearedInv'
  <2>1. c \in Threads
    BY DEF Threads
  <2>2. ~SetMode(c) /\ ~ModeClear(c)
    BY <2>1 DEF SetMode, ModeClear, At, QuietCaller, ClearedInv
  <2> QED BY <1>0, <1>1, <1>3, <2>1, <2>2 DEF Control, SetMicMute, SetParameters,
             HandleKeys, SetBtName, SetDualMic, SetTtyMode, SetFmOn, SetFmOff,
             RouteAtEnd, Point, CallPoint, flags
<1>4. CASE UNCHANGED vars
  BY <1>4 DEF vars, flags, ClearedInv
<1> QED BY <1>2, <1>3, <1>4 DEF Next, QuietCaller

\* An output route goes to an FM device exactly while FM is on.
LEMMA FmSelected ==
  ASSUME TypeOK, NEW t, ~CallsWithInput(t)
  PROVE  SelectedRoute(t).dev \in FmDevice <=> mFmRadioEnabled
<1> DEFINE base == OutputRoute(mDevices, mFmRadioEnabled, mTtyMode, mMode)
<1>1. mFmRadioEnabled \in BOOLEAN /\ mTtyMode \in TtyMode
  BY DEF TypeOK, FlagsType
<1>2. base \in RouteType
  BY <1>1, OutputRouteType
<1>3. mFmRadioEnabled => base.dev \in FmDevice
  BY RoutingConstants DEF OutputRoute, FmRoute, Route, FmDevice
<1>4. ~mFmRadioEnabled => base.dev \notin FmDevice
  BY <1>1 DEF OutputRoute, TtyRoute, Route, FmDevice, TtyMode
<1>5. DualMicRoute(base, mDualMicEnabled, mMode).dev \in FmDevice <=> base.dev \in FmDevice
  BY <1>2 DEF DualMicRoute, FmDevice, RouteType
<1> QED BY <1>3, <1>4, <1>5 DEF SelectedRoute

\* A step outside the decision that makes no change of FM seem settled.
LEMMA PinsAside ==
  ASSUME TypeOK, PinsInv, NEW t \in Threads, pc[t] \notin Deciding,
         NEW point \in Point \ Deciding, Goto(t, point),
         UNCHANGED <<mFmRadioEnabled, mCurSndDevice, pins>>,
         \A u \in Threads \ {t} : want'[u] = want[u],
         \A u \in Controllers \ {t} : todo'[u] = todo[u],
         t \in Controllers => (FmPending(t) => FmPending(t)')
  PROVE  PinsInv'
<1>1. \A u \in Threads \ {t} : pc'[u] = pc[u]
  BY DEF Goto, TypeOK
<1>2. pc'[t] \notin Deciding
  BY DEF Goto, TypeOK
<1>3. \A c \in Controllers : c \in Threads
  BY DEF Threads
<1>4. NonePending' => NonePending
  BY <1>1, <1>3 DEF NonePending, FmPending
<1>5. FmSettled' => FmSettled
  BY <1>1, <1>3, <1>4 DEF FmSettled, Deciding
<1>6. Threads' = Threads
  BY DEF Threads
<1>7. WantInv'
  BY <1>1, <1>2, <1>4, <1>6 DEF PinsInv, WantInv
<1>8. CurrentInv'
  BY <1>1, <1>2, <1>5, <1>6 DEF PinsInv, CurrentInv, Unsaved, Deciding
<1>9. LateInv'
  BY <1>1, <1>2, <1>6 DEF PinsInv, LateInv, Deciding
<1>10. KnownInv'
  BY <1>1, <1>2, <1>5, <1>6 DEF PinsInv, KnownInv, PinsSuit, Unsaved, Deciding
<1> QED BY <1>7, <1>8, <1>9, <1>10 DEF PinsInv

\* While t is inside doRouting(), nobody else decides and t has no change pending.
LEMMA RouterIsAlone ==
  ASSUME TypeOK, LockInv, NEW t \in Threads, pc[t] \in LockedPoint,
         NEW point \in Point, Goto(t, point), UNCHANGED todo
  PROVE  /\ \A u \in Threads \ {t} : pc[u] \notin LockedPoint /\ pc'[u] = pc[u]
         /\ pc'[t] = point
         /\ NonePending' => NonePending
         /\ pc[t] # "dr_compare" => (FmSettled' => FmSettled)
<1>1. \A u \in Threads \ {t} : pc[u] \notin LockedPoint /\ pc'[u] = pc[u]
  BY DEF LockInv, Goto, TypeOK
<1>2. pc'[t] = point
  BY DEF Goto, TypeOK
<1>3. t \in Controllers => ~FmPending(t)
  BY DEF FmPending, LockedPoint
<1>4. \A c \in Controllers : c \in Threads
  BY DEF Threads
<1>5. NonePending' => NonePending
  BY <1>1, <1>3, <1>4 DEF NonePending, FmPending
<1>6. pc[t] # "dr_compare" => (FmSettled' => FmSettled)
  BY <1>1, <1>4, <1>5 DEF FmSettled
<1> QED BY <1>1, <1>2, <1>5, <1>6

LEMMA PinsSelect ==
  ASSUME TypeOK, LockInv, PinsInv, NEW t \in Threads, ~CallsWithInput(t), Select(t)
  PROVE  PinsInv'
<1>1. /\ UNCHANGED <<mFmRadioEnabled, mCurSndDevice, pins, todo>>
      /\ want' = [want EXCEPT ![t] = SelectedRoute(t)]
      /\ Goto(t, "dr_compare")
  BY DEF Select, flags, routed
<1>2. /\ pc'[t] = "dr_compare" /\ want'[t] = SelectedRoute(t)
      /\ \A u \in Threads \ {t} : pc'[u] = pc[u]
  BY <1>1 DEF Goto, TypeOK, LocalsType
<1>3. \A u \in Threads : pc[u] \notin LockedPoint
  BY ThreadAssumption DEF Select, LockInv, Threads
<1>4. \A u \in Threads : pc[u] \notin Deciding /\ pc[u] \notin Unsaved
  BY <1>3 DEF LockedPoint, Deciding, Unsaved
<1>5. FmSettled' => FmSettled
  BY <1>1, <1>2 DEF FmSettled, NonePending, FmPending, Threads
<1>6. Threads' = Threads
  BY DEF Threads
<1>7. want'[t].dev \in FmDevice <=> mFmRadioEnabled'
  BY <1>1, <1>2, FmSelected
<1>8. WantInv'
  BY <1>2, <1>4, <1>6, <1>7 DEF WantInv
<1>9. CurrentInv'
  BY <1>1, <1>4, <1>5 DEF PinsInv, CurrentInv
<1>10. LateInv'
  BY <1>2, <1>4, <1>6, <1>7 DEF LateInv, Deciding
<1>11. KnownInv'
  <2>1. PinsSuit(mCurSndDevice)
    BY <1>4 DEF PinsInv, KnownInv
  <2>2. PinsSuit(mCurSndDevice)'
    BY <1>1, <1>5, <2>1 DEF PinsSuit
  <2>3. \A u \in Threads : pc'[u] \notin Unsaved
    BY <1>2, <1>4 DEF Unsaved
  <2> QED BY <1>6, <2>2, <2>3 DEF KnownInv
<1> QED BY <1>8, <1>9, <1>10, <1>11 DEF PinsInv

\* A route that is current already: the pins are given back only if it is none
\* of FM, and then they are.
LEMMA PinsSkip ==
  ASSUME TypeOK, LockInv, PinsInv, NEW t \in Threads, Skip(t)
  PROVE  PinsInv'
<1>1. /\ UNCHANGED <<mFmRadioEnabled, mCurSndDevice, pins, todo>>
      /\ pc[t] = "dr_compare" /\ want[t].dev = mCurSndDevice
      /\ Goto(t, Resume[caller[t]])
  BY DEF Skip, RouteIsNew, Return, At, flags, routed
<1>2. Resume[caller[t]] \in Point \ LockedPoint
  BY DEF TypeOK, LocalsType, CallPoint, Resume, Point, LockedPoint
<1>3. \A u \in Threads \ {t} : pc[u] \notin LockedPoint /\ pc'[u] = pc[u]
  BY <1>1, <1>2, RouterIsAlone DEF LockedPoint
<1>4. \A u \in Threads : pc'[u] \notin LockedPoint
  BY <1>1, <1>2, <1>3, RouterIsAlone DEF LockedPoint
<1>5. \A u \in Threads : pc'[u] \notin Deciding /\ pc'[u] \notin Unsaved
                          /\ pc[u] \notin Unsaved
  BY <1>1, <1>3, <1>4 DEF LockedPoint, Deciding, Unsaved
<1>6. Threads' = Threads
  BY DEF Threads
<1>7. FmSettled' => (mCurSndDevice \in FmDevice <=> mFmRadioEnabled)
  <2>1. NonePending' => NonePending
    BY <1>1, <1>2, RouterIsAlone DEF LockedPoint
  <2> QED BY <1>1, <2>1 DEF PinsInv, WantInv, FmSettled, Deciding
<1>8. WantInv' /\ CurrentInv' /\ LateInv'
  BY <1>1, <1>5, <1>6, <1>7 DEF WantInv, CurrentInv, LateInv, Deciding
<1>9. KnownInv'
  <2>1. PinsSuit(mCurSndDevice)
    BY <1>5 DEF PinsInv, KnownInv
  <2>2. PinsSuit(mCurSndDevice)'
    BY <1>1, <1>7, <2>1 DEF PinsSuit
  <2> QED BY <1>5, <1>6, <2>2 DEF KnownInv
<1> QED BY <1>8, <1>9 DEF PinsInv

\* The pins are switched for the device that will be saved.
LEMMA PinsSend ==
  ASSUME ~DriversMayFail, TypeOK, LockInv, PinsInv, NEW t \in Threads, SendRoute(t)
  PROVE  PinsInv'
<1>1. /\ UNCHANGED <<mFmRadioEnabled, mCurSndDevice, want, todo>>
      /\ pc[t] = "dr_compare" /\ pins' \in PinSwitch(want[t].dev)
      /\ Goto(t, "dr_off")
  BY DEF SendRoute, At, flags, locals
<1>2. /\ \A u \in Threads \ {t} : pc[u] \notin LockedPoint /\ pc'[u] = pc[u]
      /\ pc'[t] = "dr_off" /\ (NonePending' => NonePending)
  BY <1>1, RouterIsAlone DEF LockedPoint, Point
<1>3. Threads' = Threads
  BY DEF Threads
<1>4. FmSettled' => (want[t].dev \in FmDevice <=> mFmRadioEnabled)
  BY <1>1, <1>2 DEF PinsInv, WantInv, FmSettled, Deciding
<1>5. PinsSuit(mCurSndDevice)
  BY <1>1, <1>2 DEF PinsInv, KnownInv, Unsaved, LockedPoint
<1>6. mFmRadioEnabled /\ want[t].dev \notin FmDevice => mCurSndDevice \notin FmDevice
  BY <1>1 DEF PinsInv, LateInv
<1>7. PinsSuit(want[t].dev)'
  <2>1. CASE want[t].dev \in FmDevice /\ mFmRadioEnabled
    BY <1>1, <1>5, <2>1 DEF PinsSuit, PinSwitch, PinsAfter
  <2>2. CASE want[t].dev \in FmDevice /\ ~mFmRadioEnabled
    BY <1>1, <1>4, <2>2 DEF PinsSuit
  <2>3. CASE want[t].dev \notin FmDevice
    BY <1>1, <1>5, <1>6, <2>3 DEF PinsSuit, PinSwitch, PinsAfter
  <2> QED BY <2>1, <2>2, <2>3
<1>8. KnownInv'
  BY <1>2, <1>3, <1>7 DEF KnownInv, Unsaved, LockedPoint
<1>9. WantInv'
  BY <1>1, <1>2, <1>3 DEF PinsInv, WantInv, Deciding
<1>10. CurrentInv' /\ LateInv'
  BY <1>2, <1>3 DEF CurrentInv, LateInv, Unsaved, LockedPoint
<1> QED BY <1>8, <1>9, <1>10 DEF PinsInv

\* Between the pins and the save the old features are switched off.
LEMMA PinsDisable ==
  ASSUME TypeOK, LockInv, PinsInv, NEW t \in Threads, pc[t] \in Unsaved,
         NEW point \in Unsaved, Goto(t, point),
         UNCHANGED <<mFmRadioEnabled, mCurSndDevice, pins, want, todo>>
  PROVE  PinsInv'
<1>1. pc[t] \in LockedPoint /\ pc[t] # "dr_compare" /\ point \in Point
  BY DEF Unsaved, LockedPoint, Point
<1>2. /\ \A u \in Threads \ {t} : pc[u] \notin LockedPoint /\ pc'[u] = pc[u]
      /\ pc'[t] = point /\ (NonePending' => NonePending) /\ (FmSettled' => FmSettled)
  BY <1>1, RouterIsAlone
<1>3. Threads' = Threads
  BY DEF Threads
<1>4. PinsSuit(want[t].dev)'
  BY <1>1, <1>2 DEF PinsInv, KnownInv, PinsSuit, Unsaved
<1>5. KnownInv'
  BY <1>2, <1>3, <1>4 DEF KnownInv, Unsaved, LockedPoint
<1>6. WantInv'
  BY <1>1, <1>2, <1>3 DEF PinsInv, WantInv, Deciding, Unsaved
<1>7. CurrentInv' /\ LateInv'
  BY <1>2, <1>3 DEF CurrentInv, LateInv, Unsaved, LockedPoint
<1> QED BY <1>5, <1>6, <1>7 DEF PinsInv

LEMMA PinsSave ==
  ASSUME TypeOK, LockInv, PinsInv, NEW t \in Threads, SaveDevice(t)
  PROVE  PinsInv'
<1>1. /\ UNCHANGED <<mFmRadioEnabled, pins, want, todo>>
      /\ mCurSndDevice' = want[t].dev
      /\ pc[t] = "dr_save" /\ Goto(t, "dr_mask")
  BY DEF SaveDevice, At, flags, locals, routed
<1>2. /\ \A u \in Threads \ {t} : pc[u] \notin LockedPoint /\ pc'[u] = pc[u]
      /\ pc'[t] = "dr_mask" /\ (NonePending' => NonePending) /\ (FmSettled' => FmSettled)
  BY <1>1, RouterIsAlone DEF LockedPoint, Point
<1>3. Threads' = Threads
  BY DEF Threads
<1>4. \A u \in Threads : pc'[u] \notin Deciding /\ pc'[u] \notin Unsaved
  BY <1>2 DEF Deciding, Unsaved, LockedPoint
<1>5. PinsSuit(mCurSndDevice)'
  BY <1>1, <1>2 DEF PinsInv, KnownInv, PinsSuit, Unsaved
<1>6. FmSettled' => (want[t].dev \in FmDevice <=> mFmRadioEnabled)
  BY <1>1, <1>2 DEF PinsInv, WantInv, FmSettled, Deciding
<1> QED BY <1>1, <1>3, <1>4, <1>5, <1>6
        DEF PinsInv, WantInv, CurrentInv, LateInv, KnownInv, Deciding

LEMMA PinsRouting ==
  ASSUME ~DriversMayFail, TypeOK, LockInv, PinsInv, NEW t \in Threads,
         ~CallsWithInput(t), DoRouting(t)
  PROVE  PinsInv'
<1>1. CASE SaveMask(t) \/ EnableNew(t)
  <2>1. \E point \in Point \ Deciding : Goto(t, point)
    <3>1. Resume[caller[t]] \in Point \ Deciding
      BY DEF TypeOK, LocalsType, CallPoint, Resume, Point, Deciding
    <3> QED BY <1>1, <3>1 DEF SaveMask, EnableNew, Return, Point, LockedPoint, Deciding
  <2>2. pc[t] \notin Deciding /\ ~FmPending(t)
    BY <1>1 DEF SaveMask, EnableNew, At, Deciding, FmPending
  <2>3. \A u \in Threads \ {t} : want'[u] = want[u]
    BY <1>1 DEF SaveMask, EnableNew, Return, TypeOK, LocalsType, locals
  <2>4. UNCHANGED <<mFmRadioEnabled, mCurSndDevice, pins, todo>>
    BY <1>1 DEF SaveMask, EnableNew, Return, flags, locals, routed
  <2> QED BY <2>1, <2>2, <2>3, <2>4, PinsAside
<1>2. CASE DisableOld(t)
  BY <1>2, PinsDisable DEF DisableOld, At, Unsaved, flags, locals, routed
<1> QED BY <1>1, <1>2, PinsSelect, PinsSkip, PinsSend, PinsSave DEF DoRouting

LEMMA PinsPostProc ==
  ASSUME TypeOK, LockInv, PinsInv, NEW t \in Threads, EnablePostProc(t)
  PROVE  PinsInv'
<1>1. UNCHANGED <<mCurSndDevice, mFmRadioEnabled, pins, todo>> /\ pc[t] \in PostProcPoint
  BY PostProcStep DEF flags, routed
<1>2. CASE UNCHANGED <<pc, locals>>
  BY <1>1, <1>2 DEF locals, PinsInv, WantInv, CurrentInv, LateInv, KnownInv, PinsSuit,
     FmSettled, NonePending, FmPending, Threads
<1>3. CASE UNCHANGED locals /\ pc[t] = "pp_off" /\ Goto(t, "dr_save")
  BY <1>1, <1>3, PinsDisable DEF locals, Unsaved
<1>4. CASE ~UNCHANGED pc /\ pc[t] # "pp_off"
  <2>1. Resume[caller[t]] \in Point \ Deciding
    BY DEF TypeOK, LocalsType, CallPoint, Resume, Point, Deciding
  <2>2. \E point \in Point \ Deciding : Goto(t, point)
    BY <1>4, <2>1, PostProcStep DEF Return, Point, Deciding
  <2>3. \A u \in Threads \ {t} : want'[u] = want[u]
    BY <1>4, PostProcStep DEF Return, TypeOK, LocalsType, locals
  <2>4. pc[t] \notin Deciding /\ ~FmPending(t)
    BY <1>1, <1>4 DEF PostProcPoint, Deciding, FmPending
  <2> QED BY <1>1, <2>2, <2>3, <2>4, PinsAside
<1>5. \/ UNCHANGED <<pc, locals>>
      \/ pc[t] # "pp_off" /\ ~UNCHANGED pc
      \/ UNCHANGED locals /\ pc[t] = "pp_off" /\ Goto(t, "dr_save")
  <2>1. pc[t] # "pp_off" => pc[t] # "pp_off" /\ (~UNCHANGED pc \/ UNCHANGED <<pc, locals>>)
    <3>1. CASE Return(t) /\ pc[t] = "pp_on"
      <4>1. pc'[t] = Resume[caller[t]] /\ Resume[caller[t]] # "pp_on"
        BY <3>1 DEF Return, Goto, TypeOK, LocalsType, CallPoint, Resume
      <4> QED BY <3>1, <4>1
    <3>2. CASE UNCHANGED locals
      BY <3>2
    <3> QED BY <3>1, <3>2, PostProcStep DEF PostProcPoint
  <2> QED BY <2>1, PostProcStep
<1> QED BY <1>2, <1>3, <1>4, <1>5

LEMMA PinsPlay ==
  ASSUME ~DriversMayFail, TypeOK, LockInv, PlaceInv, PinsInv, Play, Recorders = {}
  PROVE  PinsInv'
<1>0. Player \in Threads /\ Player \notin Controllers
  BY ThreadAssumption DEF Threads
<1>1. CASE DoRouting(Player) \/ EnablePostProc(Player)
  BY <1>0, <1>1, PinsRouting, PinsPostProc DEF PlaceInv
<1>2. CASE ~DoRouting(Player) /\ ~EnablePostProc(Player)
  <2>1. pc[Player] \notin Deciding /\ \E point \in Point \ Deciding : Goto(Player, point)
    BY <1>0, <1>2 DEF Play, WriteFill, WriteStart, OutStandby,
       OutStandbyClose, OutSetRouting, At, Goto, TypeOK, Point, Deciding, CallPoint,
       PostProcPoint
  <2>2. UNCHANGED <<want, todo, mFmRadioEnabled, mCurSndDevice, pins>>
    BY <1>2 DEF Play, WriteFill, WriteStart, OutStandby,
       OutStandbyClose, OutSetRouting, locals, flags, routed
  <2> QED BY <1>0, <2>1, <2>2, PinsAside
<1> QED BY <1>1, <1>2

\* FM starts in a settled state, in which no FM device is current or on its way.
LEMMA PinsFmOn ==
  ASSUME QuietCaller, TypeOK, LockInv, PinsInv, NEW c \in Controllers,
         HandleKeys(c), SetFmOn(c)
  PROVE  PinsInv'
<1>1. /\ pc[c] = "params" /\ "fm_on" \in todo[c] /\ c \in Threads
      /\ mFmRadioEnabled' = TRUE
      /\ UNCHANGED <<mCurSndDevice, pins, want>>
  BY DEF HandleKeys, SetFmOn, Handle, At, Threads, routed
<1>2. UNCHANGED pc
  BY DEF SetFmOn, Handle, At, Goto, TypeOK
<1>3. FmPending(c)'
  BY <1>1, <1>2 DEF SetFmOn, Handle, FmPending, TypeOK, LocalsType
<1>4. FmSettled
  BY <1>1 DEF QuietCaller, FmSettled, NonePending, FmPending
<1>5. Threads' = Threads /\ Controllers' = Controllers
  BY DEF Threads
<1>6. (\A t \in Threads : pc[t] \notin Unsaved)
      => (mCurSndDevice \in FmDevice <=> mFmRadioEnabled)
  BY <1>4 DEF PinsInv, CurrentInv
<1>7. \A t \in Threads : pc[t] \in Deciding => (want[t].dev \in FmDevice <=> mFmRadioEnabled)
  BY <1>4 DEF PinsInv, WantInv, FmSettled
<1>8. WantInv' /\ CurrentInv'
  BY <1>3, <1>5 DEF WantInv, CurrentInv, FmSettled, NonePending
<1>9. LateInv'
  <2>1. ASSUME NEW t \in Threads, pc[t] = "dr_compare", want[t].dev \notin FmDevice
        PROVE  mCurSndDevice \notin FmDevice
    <3>1. \A u \in Threads : pc[u] \notin Unsaved
      BY <2>1 DEF LockInv, LockedPoint, Unsaved
    <3> QED BY <1>6, <1>7, <2>1, <3>1 DEF Deciding
  <2> QED BY <1>1, <1>2, <1>5, <2>1 DEF LateInv
<1>10. KnownInv'
  <2>1. (\A t \in Threads : pc[t] \notin Unsaved) => PinsSuit(mCurSndDevice)'
    BY <1>1, <1>6 DEF PinsInv, KnownInv, PinsSuit
  <2>2. \A t \in Threads : pc[t] \in Unsaved => PinsSuit(want[t].dev)'
    BY <1>1, <1>7 DEF PinsInv, KnownInv, PinsSuit, Unsaved, Deciding
  <2> QED BY <1>2, <1>5, <2>1, <2>2 DEF KnownInv
<1> QED BY <1>8, <1>9, <1>10 DEF PinsInv

\* When FM ends, its pins may stay behind for the route that follows.
LEMMA PinsFmOff ==
  ASSUME TypeOK, PinsInv, NEW c \in Controllers, HandleKeys(c), SetFmOff(c)
  PROVE  PinsInv'
<1>1. mFmRadioEnabled' = FALSE /\ UNCHANGED <<mCurSndDevice, pins, want>>
  BY DEF HandleKeys, SetFmOff, routed
<1>2. UNCHANGED pc /\ pc[c] = "params"
  BY DEF SetFmOff, Handle, At, Goto, TypeOK
<1>3. FmPending(c)'
  BY <1>2 DEF SetFmOff, Handle, FmPending, TypeOK, LocalsType
<1>4. Threads' = Threads /\ ~NonePending' /\ ~FmSettled'
  BY <1>3 DEF Threads, NonePending, FmSettled
<1>5. WantInv' /\ CurrentInv' /\ LateInv'
  BY <1>1, <1>4 DEF WantInv, CurrentInv, LateInv
<1>6. KnownInv'
  BY <1>1, <1>2, <1>4 DEF PinsInv, KnownInv, PinsSuit
<1> QED BY <1>5, <1>6 DEF PinsInv

LEMMA PinsControl ==
  ASSUME QuietCaller, TypeOK, LockInv, PlaceInv, ClearedInv, PinsInv,
         NEW c \in Controllers, Control(c)
  PROVE  PinsInv'
<1>0. c \in Threads /\ ~SetMode(c) /\ ~ModeClear(c)
  BY DEF Threads, SetMode, ModeClear, At, QuietCaller, ClearedInv
<1>1. CASE DoRouting(c) \/ EnablePostProc(c)
  BY <1>0, <1>1, PinsRouting, PinsPostProc DEF PlaceInv, QuietCaller
<1>2. CASE SetMicMute(c)
  <2>1. pc[c] = "idle" /\ Goto(c, "idle")
    BY <1>0, <1>2 DEF SetMicMute, At, Goto, TypeOK
  <2>2. FmSettled
    BY <2>1 DEF QuietCaller, FmSettled, NonePending, FmPending
  <2>3. \A t \in Threads : pc[t] \notin Unsaved
    BY <1>2, ThreadAssumption DEF SetMicMute, LockInv, Threads, LockedPoint, Unsaved
  <2>4. mCurSndDevice \in FmDevice <=> mFmRadioEnabled
    BY <2>2, <2>3 DEF PinsInv, CurrentInv
  <2>5. UNCHANGED pins
    BY <1>2, <2>4 DEF SetMicMute, PinSwitch, FmDevice
  <2>6. pc[c] \notin Deciding /\ ~FmPending(c)
    BY <2>1 DEF Deciding, FmPending
  <2>7. UNCHANGED <<mFmRadioEnabled, mCurSndDevice, want, todo>>
    BY <1>2 DEF SetMicMute, flags, locals
  <2> QED BY <1>0, <2>1, <2>5, <2>6, <2>7, PinsAside DEF Point, Deciding
<1>3. CASE SetParameters(c)
  <2>1. pc[c] \notin Deciding /\ ~FmPending(c)
    BY <1>3 DEF SetParameters, At, Deciding, FmPending
  <2>2. \A u \in Controllers \ {c} : todo'[u] = todo[u]
    BY <1>3 DEF SetParameters, TypeOK, LocalsType
  <2> QED BY <1>0, <1>3, <2>1, <2>2, PinsAside DEF SetParameters, Point, Deciding, flags, routed
<1>4. CASE HandleKeys(c) /\ (SetFmOn(c) \/ SetFmOff(c))
  BY <1>4, PinsFmOn, PinsFmOff
<1>5. CASE HandleKeys(c) /\ ~(SetFmOn(c) \/ SetFmOff(c))
  <2>1. pc[c] \notin Deciding /\ \E point \in Point \ Deciding : Goto(c, point)
    BY <1>5 DEF HandleKeys, SetBtName, SetDualMic, SetTtyMode, RouteAtEnd, Handle, At,
       Point, Deciding, CallPoint
  <2>2. UNCHANGED <<mFmRadioEnabled, mCurSndDevice, pins, want>>
        /\ \A u \in Controllers \ {c} : todo'[u] = todo[u]
    BY <1>5 DEF HandleKeys, SetBtName, SetDualMic, SetTtyMode, RouteAtEnd, Handle, flags,
       routed, TypeOK, LocalsType
  <2>3. FmPending(c) => FmPending(c)'
    <3>1. CASE RouteAtEnd(c)
      BY <1>0, <3>1 DEF RouteAtEnd, Goto, FmPending, TypeOK
    <3>2. CASE ~RouteAtEnd(c)
      BY <1>5, <3>2 DEF HandleKeys, SetBtName, SetDualMic, SetTtyMode, Handle, At, FmPending
    <3> QED BY <3>1, <3>2
  <2> QED BY <1>0, <2>1, <2>2, <2>3, PinsAside
<1> QED BY <1>0, <1>1, <1>2, <1>3, <1>4, <1>5 DEF Control

LEMMA PinsNext ==
  ASSUME QuietCaller, TypeOK, LockInv, PlaceInv, ClearedInv, PinsInv, [Next]_vars
  PROVE  PinsInv'
<1>1. CASE UNCHANGED vars
  BY <1>1 DEF vars, flags, locals, routed, PinsInv, WantInv, CurrentInv, LateInv,
     KnownInv, PinsSuit, FmSettled, NonePending, FmPending
<1> QED BY <1>1, PinsPlay, PinsControl DEF Next, QuietCaller

\* With one caller that switches FM on and off, in whatever strings, and a mixer
\* thread that routes at the same time, the pins belong to FM exactly while an
\* FM device is current - although each route compares the flags of its own
\* moment with the device of an earlier one.
THEOREM PinsFollow == QuietCaller => (Spec => []PinsFollowDevice)
<1> SUFFICES ASSUME QuietCaller PROVE Spec => []PinsFollowDevice
  OBVIOUS
<1>1. Init => PlaceInv /\ ClearedInv /\ PinsInv
  <2> SUFFICES ASSUME Init PROVE PlaceInv /\ ClearedInv /\ PinsInv
    OBVIOUS
  <2>1. PlaceInv /\ ClearedInv
    BY DEF Init, PlaceInv, CallsWithInput, At, ClearedInv
  <2>2. WantInv /\ CurrentInv /\ LateInv /\ KnownInv
    BY DEF Init, WantInv, CurrentInv, LateInv, KnownInv, PinsSuit, Deciding, Unsaved,
           NoDevice, FmDevice
  <2> QED BY <2>1, <2>2 DEF PinsInv
<1>2. TypeOK /\ PlaceInv /\ [Next]_vars => PlaceInv'
  BY PlaceNext
<1>3. TypeOK /\ ClearedInv /\ [Next]_vars => ClearedInv'
  BY ClearedNext
<1>4. TypeOK /\ LockInv /\ PlaceInv /\ ClearedInv /\ PinsInv /\ [Next]_vars => PinsInv'
  BY PinsNext
<1>5. PinsInv => PinsFollowDevice
  <2> SUFFICES ASSUME PinsInv, AllIdle PROVE pins = "FM" <=> mCurSndDevice \in FmDevice
    BY DEF PinsFollowDevice
  <2>1. \A t \in Threads : pc[t] = "idle"
    BY DEF AllIdle, At
  <2>2. FmSettled
    BY <2>1 DEF FmSettled, NonePending, FmPending, Threads
  <2>3. PinsSuit(mCurSndDevice)
    BY <2>1 DEF PinsInv, KnownInv, Unsaved
  <2> QED BY <2>2, <2>3 DEF PinsSuit
<1>6. Init => TypeOK /\ LockInv
  BY InitType, LockInit
<1>7. TypeOK /\ LockInv /\ [Next]_vars => TypeOK' /\ LockInv'
  BY NextType, LockNext
<1> QED BY <1>1, <1>2, <1>3, <1>4, <1>5, <1>6, <1>7, PTL DEF Spec
=============================================================================
