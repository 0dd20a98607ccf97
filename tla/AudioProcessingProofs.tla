----------------------- MODULE AudioProcessingProofs ------------------------
(***************************************************************************)
(* Proof that the features on in the DSP are those of the current device   *)
(* unless a write() was overtaken, for every set of threads, routes, keys  *)
(* and filters, as long as the drivers take what they are told.            *)
(*                                                                         *)
(* msm72xx_enable_postproc() reads the device, then the mask, and switches *)
(* last.  doRouting() saves both under the lock, so that what its own call *)
(* has read cannot change; write() has no lock, and what it has read is up *)
(* to date until a save marks it as overtaken.                             *)
(***************************************************************************)
EXTENDS AudioHardwareProofs

\* The points of the mixer thread's own calls.
WriterInv ==
  /\ \A t \in Threads : pc[t] \in {"write", "wr_on", "wr_off", "stb_off", "stb_close"} => t = Player
  /\ pc[Player] = "wr_off" => ~playback_in_progress

\* A call has read no more than its point allows.
ReadInv ==
  \A t \in Threads :
    /\ pc[t] \notin PostProcPoint => pp[t].read = "nothing"
    /\ ~Enabling(t) => pp[t].read # "mask"
    /\ pp[t].read # "mask" => pp[t].features = {}
    /\ pp[t].read # "nothing" => pp[t].dev \in PostProcDevice

\* After the save nobody else saves, but anybody may clear the device.
SavedInv ==
  \A t \in Threads :
    /\ pc[t] \in {"dr_mask", "dr_on", "pp_on"} => mCurSndDevice \in {want[t].dev, NoDevice}
    /\ pc[t] \in {"dr_on", "pp_on"} => post_proc_feature_mask = want[t].mask
    /\ pc[t] = "pp_on" /\ pp[t].read # "nothing" => pp[t].dev = want[t].dev
    /\ pc[t] = "pp_on" /\ pp[t].read = "mask" =>
         pp[t].features = EnableMask(want[t].dev, want[t].mask)

\* What write() has read is up to date unless it is overtaken.
UpToDate ==
  (pc[Player] = "wr_on" /\ pp[Player].read # "nothing" /\ ~overtaken) =>
    /\ mCurSndDevice \in {pp[Player].dev, NoDevice}
    /\ pp[Player].read = "mask" =>
         pp[Player].features = EnableMask(pp[Player].dev, post_proc_feature_mask)

\* Points of a thread that is about to switch features for the device that is
\* then current, or to declare the playback over.
ProcPoint == {"pp_off", "dr_save", "dr_mask", "dr_on", "pp_on", "wr_on", "stb_off",
              "stb_close"}

Processed ==
  (/\ playback_in_progress /\ mCurSndDevice \in PostProcDevice /\ ~overtaken
   /\ \A t \in Threads : pc[t] \notin ProcPoint)
  => audpp = EnableMask(mCurSndDevice, post_proc_feature_mask)

ProcInv == WriterInv /\ ReadInv /\ SavedInv /\ UpToDate /\ Processed

Unfailing == ~DriversMayFail /\ TypeOK /\ LockInv /\ ProcInv

LEMMA NoDeviceIsUnprocessed == NoDevice \notin PostProcDevice
  BY DEF NoDevice, PostProcDevice

LEMMA ResumePoints ==
  ASSUME TypeOK, NEW t \in Threads
  PROVE  Resume[caller[t]] \in Point \ (LockedPoint \cup PostProcPoint \cup
                                       {"write", "stb_close"})
BY DEF TypeOK, LocalsType, CallPoint, Resume, Point, LockedPoint, PostProcPoint

-----------------------------------------------------------------------------
(* Steps that switch no features and save nothing.                         *)

\* A step outside the calls that matter here; it may clear the device.
LEMMA ProcAside ==
  ASSUME TypeOK, ProcInv, NEW t \in Threads, pc[t] \notin ProcPoint \cup PostProcPoint,
         NEW point \in Point \ {"wr_on", "wr_off", "stb_close", "dr_mask", "dr_on", "pp_on"},
         point \in {"write", "stb_off"} => t = Player,
         Goto(t, point) \/ UNCHANGED pc,
         \A u \in Threads \ {t} : want'[u] = want[u],
         UNCHANGED proc, mCurSndDevice' \in {mCurSndDevice, NoDevice}
  PROVE  ProcInv'
<1>1. \A u \in Threads : \/ u # t /\ pc'[u] = pc[u]
                         \/ u = t /\ pc'[u] \in {point, pc[u]}
  BY DEF Goto, TypeOK
<1>2. Player \in Threads /\ Threads' = Threads
  BY DEF Threads
<1>3. UNCHANGED <<playback_in_progress, post_proc_feature_mask, audpp, pp, overtaken>>
  BY DEF proc
<1>4. WriterInv'
  BY <1>1, <1>2, <1>3 DEF ProcInv, WriterInv, ProcPoint, PostProcPoint
<1>5. ReadInv'
  BY <1>1, <1>2, <1>3 DEF ProcInv, ReadInv, Enabling, At, PostProcPoint
<1>6. SavedInv'
  <2>1. ASSUME NEW u \in Threads, pc'[u] \in {"dr_mask", "dr_on", "pp_on"}
        PROVE  u # t /\ pc[u] = pc'[u] /\ want'[u] = want[u]
    BY <1>1, <2>1 DEF ProcPoint
  <2> QED BY <1>2, <1>3, <2>1 DEF ProcInv, SavedInv
<1>7. UpToDate'
  <2>1. pc'[Player] = "wr_on" => pc[Player] = "wr_on"
    BY <1>1, <1>2 DEF PostProcPoint
  <2> QED BY <1>3, <2>1 DEF ProcInv, UpToDate
<1>8. Processed'
  <2>1. (\A u \in Threads : pc'[u] \notin ProcPoint) => \A u \in Threads : pc[u] \notin ProcPoint
    BY <1>1
  <2> QED BY <1>2, <1>3, <2>1, NoDeviceIsUnprocessed DEF ProcInv, Processed
<1> QED BY <1>4, <1>5, <1>6, <1>7, <1>8 DEF ProcInv

-----------------------------------------------------------------------------
(* doRouting().                                                            *)

LEMMA RouterIsAlone ==
  ASSUME TypeOK, LockInv, NEW t \in Threads, pc[t] \in LockedPoint
  PROVE  \A u \in Threads \ {t} : pc[u] \notin LockedPoint
BY DEF LockInv

\* What a writer has read of another device goes out of date here.
LEMMA ProcSaveDevice ==
  ASSUME Unfailing, NEW t \in Threads, SaveDevice(t)
  PROVE  ProcInv'
<1>1. /\ pc[t] = "dr_save" /\ mCurSndDevice' = want[t].dev
      /\ overtaken' = (overtaken \/ (pc[Player] = "wr_on" /\ pp[Player].read # "nothing"))
      /\ UNCHANGED <<playback_in_progress, post_proc_feature_mask, audpp, pp, want>>
  BY DEF SaveDevice, At, locals
<1>2. pc'[t] = "dr_mask" /\ \A u \in Threads \ {t} : pc'[u] = pc[u]
  BY DEF SaveDevice, Goto, Unfailing, TypeOK
<1>3. \A u \in Threads \ {t} : pc[u] \notin {"dr_mask", "dr_on", "pp_on"}
  BY <1>1, RouterIsAlone DEF Unfailing, LockedPoint
<1>4. Player \in Threads /\ Threads' = Threads
  BY DEF Threads
<1>5. WriterInv' /\ ReadInv'
  BY <1>1, <1>2, <1>4 DEF Unfailing, ProcInv, WriterInv, ReadInv, Enabling, At, PostProcPoint
<1>6. SavedInv'
  BY <1>1, <1>2, <1>3, <1>4 DEF SavedInv
<1>7. UpToDate'
  BY <1>1, <1>2, <1>4 DEF UpToDate
<1>8. Processed'
  BY <1>2, <1>4 DEF Processed, ProcPoint
<1> QED BY <1>5, <1>6, <1>7, <1>8 DEF ProcInv

LEMMA ProcSaveMask ==
  ASSUME Unfailing, NEW t \in Threads, SaveMask(t)
  PROVE  ProcInv'
<1>1. /\ pc[t] = "dr_mask" /\ post_proc_feature_mask' = want[t].mask
      /\ overtaken' = (overtaken \/ (pc[Player] = "wr_on" /\ pp[Player].read = "mask"))
      /\ UNCHANGED <<playback_in_progress, mCurSndDevice, audpp, pp, want>>
  BY DEF SaveMask, At, locals
<1>2. pc'[t] = "dr_on" /\ \A u \in Threads \ {t} : pc'[u] = pc[u]
  BY DEF SaveMask, Goto, Unfailing, TypeOK
<1>3. \A u \in Threads \ {t} : pc[u] \notin {"dr_mask", "dr_on", "pp_on"}
  BY <1>1, RouterIsAlone DEF Unfailing, LockedPoint
<1>4. Player \in Threads /\ Threads' = Threads
  BY DEF Threads
<1>5. WriterInv' /\ ReadInv'
  BY <1>1, <1>2, <1>4 DEF Unfailing, ProcInv, WriterInv, ReadInv, Enabling, At, PostProcPoint
<1>6. SavedInv'
  <2>1. mCurSndDevice \in {want[t].dev, NoDevice}
    BY <1>1 DEF Unfailing, ProcInv, SavedInv
  <2> QED BY <1>1, <1>2, <1>3, <1>4, <2>1 DEF SavedInv
<1>7. UpToDate'
  BY <1>1, <1>2, <1>4 DEF Unfailing, ProcInv, UpToDate
<1>8. Processed'
  BY <1>2, <1>4 DEF Processed, ProcPoint
<1> QED BY <1>5, <1>6, <1>7, <1>8 DEF ProcInv

LEMMA ProcEnableNew ==
  ASSUME Unfailing, NEW t \in Threads, EnableNew(t)
  PROVE  ProcInv'
<1>1. /\ pc[t] = "dr_on"
      /\ UNCHANGED <<mCurSndDevice, playback_in_progress, post_proc_feature_mask, audpp, pp,
                     overtaken>>
  BY DEF EnableNew, At, proc
<1>2. \A u \in Threads \ {t} : pc'[u] = pc[u] /\ want'[u] = want[u]
  BY DEF EnableNew, Return, Goto, Unfailing, TypeOK, LocalsType, locals
<1>3. IF playback_in_progress THEN pc'[t] = "pp_on" /\ want'[t] = want[t]
      ELSE pc'[t] \notin LockedPoint \cup PostProcPoint \cup {"write", "stb_close"}
  BY ResumePoints DEF EnableNew, Return, Goto, Unfailing, TypeOK, locals
<1>4. Player \in Threads /\ Threads' = Threads
  BY DEF Threads
<1>5. WriterInv' /\ ReadInv'
  BY <1>1, <1>2, <1>3, <1>4
  DEF Unfailing, ProcInv, WriterInv, ReadInv, Enabling, At, PostProcPoint
<1>6. SavedInv'
  <2>1. pp[t].read = "nothing"
    BY <1>1 DEF Unfailing, ProcInv, ReadInv, PostProcPoint
  <2>2. CASE playback_in_progress
    BY <1>1, <1>2, <1>3, <1>4, <2>1, <2>2 DEF Unfailing, ProcInv, SavedInv
  <2>3. CASE ~playback_in_progress
    BY <1>1, <1>2, <1>3, <1>4, <2>3 DEF Unfailing, ProcInv, SavedInv, LockedPoint
  <2> QED BY <2>2, <2>3
<1>7. UpToDate'
  <2>1. pc'[Player] = "wr_on" => pc[Player] = "wr_on"
    BY <1>2, <1>3, <1>4 DEF PostProcPoint
  <2> QED BY <1>1, <2>1 DEF Unfailing, ProcInv, UpToDate
<1>8. Processed'
  BY <1>1, <1>3, <1>4 DEF Processed, ProcPoint
<1> QED BY <1>5, <1>6, <1>7, <1>8 DEF ProcInv

LEMMA ProcRouting ==
  ASSUME Unfailing, NEW t \in Threads, DoRouting(t)
  PROVE  ProcInv'
<1> DEFINE Plain == Point \ {"write", "wr_on", "wr_off", "stb_off", "stb_close",
                             "dr_mask", "dr_on", "pp_on"}
<1>1. CASE Select(t)
  <2>1. pc[t] \notin ProcPoint \cup PostProcPoint
    BY <1>1 DEF Select, CallPoint, ProcPoint, PostProcPoint
  <2>2. \E point \in Plain : Goto(t, point)
    BY <1>1 DEF Select, CallPoint, Resume, Point, LockedPoint
  <2>3. \A u \in Threads \ {t} : want'[u] = want[u]
    BY <1>1 DEF Select, Unfailing, TypeOK, LocalsType
  <2> QED BY <1>1, <2>1, <2>2, <2>3, ProcAside DEF Select, Unfailing
<1>2. CASE Skip(t)
  <2>1. pc[t] \notin ProcPoint \cup PostProcPoint
    BY <1>2 DEF Skip, At, ProcPoint, PostProcPoint
  <2>2. \E point \in Plain : Goto(t, point)
    BY <1>2, ResumePoints DEF Skip, Return, Unfailing, LockedPoint, PostProcPoint
  <2>3. \A u \in Threads \ {t} : want'[u] = want[u]
    BY <1>2 DEF Skip, Return, Unfailing, TypeOK, LocalsType
  <2> QED BY <1>2, <2>1, <2>2, <2>3, ProcAside DEF Skip, Unfailing
<1>3. CASE SendRoute(t) \/ DisableOld(t)
  <2>1. pc[t] \notin ProcPoint \cup PostProcPoint
    BY <1>3 DEF SendRoute, DisableOld, At, ProcPoint, PostProcPoint
  <2>2. \E point \in Plain : Goto(t, point)
    BY <1>3 DEF SendRoute, DisableOld, Point, LockedPoint
  <2> QED BY <1>3, <2>1, <2>2, ProcAside DEF SendRoute, DisableOld, Unfailing, locals
<1> QED BY <1>1, <1>2, <1>3, ProcSaveDevice, ProcSaveMask, ProcEnableNew DEF DoRouting

-----------------------------------------------------------------------------
(* msm72xx_enable_postproc().                                              *)

LEMMA PostProcGoesOn ==
  ASSUME TypeOK, NEW t \in Threads, pc[t] \in PostProcPoint, PostProcReturn(t)
  PROVE  /\ \A u \in Threads \ {t} : pc'[u] = pc[u] /\ want'[u] = want[u]
         /\ pc'[t] \notin PostProcPoint \cup {"write", "dr_mask", "dr_on"}
         /\ pc[t] = "pp_off" => pc'[t] = "dr_save"
         /\ pc[t] = "stb_off" <=> pc'[t] = "stb_close"
<1>1. CASE At(t, "pp_on")
  <2>1. Return(t)
    BY <1>1 DEF PostProcReturn
  <2> QED BY <1>1, <2>1, ResumePoints
          DEF Return, Goto, At, TypeOK, LocalsType, LockedPoint, PostProcPoint
<1>2. CASE ~At(t, "pp_on")
  BY <1>2 DEF PostProcReturn, At, Goto, TypeOK, locals, PostProcPoint
<1> QED BY <1>1, <1>2

LEMMA ProcGiveUp ==
  ASSUME Unfailing, NEW t \in Threads, PostProcGiveUp(t)
  PROVE  ProcInv'
<1>1. /\ pc[t] \in PostProcPoint /\ pp[t].read = "nothing"
      /\ mCurSndDevice \notin PostProcDevice /\ PostProcReturn(t)
      /\ UNCHANGED <<mCurSndDevice, playback_in_progress, post_proc_feature_mask, audpp, pp,
                     overtaken>>
  BY DEF PostProcGiveUp, Unfailing, proc
<1>2. /\ \A u \in Threads \ {t} : pc'[u] = pc[u] /\ want'[u] = want[u]
      /\ pc'[t] \notin PostProcPoint \cup {"write", "dr_mask", "dr_on"}
      /\ pc[t] = "stb_off" <=> pc'[t] = "stb_close"
  BY <1>1, PostProcGoesOn DEF Unfailing
<1>4. Player \in Threads /\ Threads' = Threads
  BY DEF Threads
<1>5. WriterInv' /\ ReadInv'
  BY <1>1, <1>2, <1>4 DEF Unfailing, ProcInv, WriterInv, ReadInv, Enabling, At, PostProcPoint
<1>6. SavedInv'
  BY <1>1, <1>2, <1>4 DEF Unfailing, ProcInv, SavedInv, PostProcPoint
<1>7. UpToDate'
  <2>1. pc'[Player] = "wr_on" => pc[Player] = "wr_on"
    BY <1>2, <1>4 DEF PostProcPoint
  <2> QED BY <1>1, <2>1 DEF Unfailing, ProcInv, UpToDate
<1>8. Processed'
  BY <1>1 DEF Processed
<1> QED BY <1>5, <1>6, <1>7, <1>8 DEF ProcInv

LEMMA ProcReads ==
  ASSUME Unfailing, NEW t \in Threads, PostProcReadDevice(t) \/ PostProcReadMask(t)
  PROVE  ProcInv'
<1>1. /\ pc[t] \in PostProcPoint
      /\ UNCHANGED <<mCurSndDevice, pc, playback_in_progress, post_proc_feature_mask, audpp,
                     want>>
      /\ \A u \in Threads \ {t} : pp'[u] = pp[u]
  BY DEF PostProcReadDevice, PostProcReadMask, Enabling, At, PostProcPoint, Unfailing, TypeOK,
         ProcType, locals
<1>2. CASE PostProcReadDevice(t)
  <2>1. /\ pp[t].read = "nothing" /\ mCurSndDevice \in PostProcDevice
        /\ pp'[t] = [read |-> "device", dev |-> mCurSndDevice, features |-> {}]
        /\ overtaken' = (overtaken /\ pc[t] # "wr_on")
    BY <1>2 DEF PostProcReadDevice, NotRead, At, Unfailing, TypeOK, ProcType
  <2>2. ReadInv'
    BY <1>1, <2>1 DEF Unfailing, ProcInv, ReadInv, Enabling, At, Threads
  <2>3. SavedInv'
    <3>1. pc[t] = "pp_on" => mCurSndDevice = want[t].dev
      BY <2>1, NoDeviceIsUnprocessed DEF Unfailing, ProcInv, SavedInv
    <3> QED BY <1>1, <2>1, <3>1 DEF Unfailing, ProcInv, SavedInv, Threads
  <2>4. pc[t] = "wr_on" => t = Player
    BY DEF Unfailing, ProcInv, WriterInv
  <2>5. UpToDate' /\ Processed'
    <3>1. Player \in Threads
      BY DEF Threads
    <3>2. CASE pc[t] = "wr_on"
      BY <1>1, <2>1, <2>4, <3>1, <3>2 DEF UpToDate, Processed, ProcPoint, Threads
    <3>3. CASE pc[t] # "wr_on"
      BY <1>1, <2>1, <3>1, <3>3 DEF Unfailing, ProcInv, UpToDate, Processed, Threads
    <3> QED BY <3>2, <3>3
  <2>6. WriterInv'
    BY <1>1 DEF Unfailing, ProcInv, WriterInv, Threads
  <2> QED BY <2>2, <2>3, <2>5, <2>6 DEF ProcInv
<1>3. CASE PostProcReadMask(t)
  <2>1. /\ pp[t].read = "device" /\ pc[t] \in {"pp_on", "wr_on"} /\ UNCHANGED overtaken
        /\ pp'[t] = [read |-> "mask", dev |-> pp[t].dev,
                     features |-> EnableMask(pp[t].dev, post_proc_feature_mask)]
    BY <1>3 DEF PostProcReadMask, PostProcType, Enabling, At, Unfailing, TypeOK, ProcType
  <2>2. ReadInv'
    BY <1>1, <2>1 DEF Unfailing, ProcInv, ReadInv, Enabling, At, Threads
  <2>3. SavedInv'
    BY <1>1, <2>1 DEF Unfailing, ProcInv, SavedInv, Threads
  <2>4. UpToDate' /\ Processed' /\ WriterInv'
    <3>1. Player \in Threads
      BY DEF Threads
    <3>2. UpToDate'
      BY <1>1, <2>1, <3>1 DEF Unfailing, ProcInv, UpToDate
    <3> QED BY <1>1, <2>1, <3>2 DEF Unfailing, ProcInv, Processed, WriterInv, Threads
  <2> QED BY <2>2, <2>3, <2>4 DEF ProcInv
<1> QED BY <1>2, <1>3

\* The ioctl: a router's features are right because it holds the lock, a
\* writer's unless it was overtaken.
LEMMA ProcSwitch ==
  ASSUME Unfailing, NEW t \in Threads, PostProcSwitch(t)
  PROVE  ProcInv'
<1>1. /\ pc[t] \in PostProcPoint /\ PostProcReturn(t)
      /\ pp[t].read = IF pc[t] \in {"pp_on", "wr_on"} THEN "mask" ELSE "device"
      /\ audpp' = pp[t].features
      /\ overtaken' = (overtaken /\ (t = Player \/ pc[Player] = "wr_on"))
      /\ UNCHANGED <<mCurSndDevice, playback_in_progress, post_proc_feature_mask>>
  BY DEF PostProcSwitch, Enabling, At, Unfailing
<1>2. /\ \A u \in Threads \ {t} : pc'[u] = pc[u] /\ want'[u] = want[u]
      /\ pc'[t] \notin PostProcPoint \cup {"write", "dr_mask", "dr_on"}
      /\ pc[t] = "pp_off" => pc'[t] = "dr_save"
      /\ pc[t] = "stb_off" <=> pc'[t] = "stb_close"
  BY <1>1, PostProcGoesOn DEF Unfailing
<1>3. pp'[t] = NotRead /\ \A u \in Threads \ {t} : pp'[u] = pp[u]
  BY DEF PostProcSwitch, Unfailing, TypeOK, ProcType
<1>4. Player \in Threads /\ Threads' = Threads
  BY DEF Threads
<1>5. WriterInv'
  BY <1>1, <1>2, <1>4 DEF Unfailing, ProcInv, WriterInv, PostProcPoint
<1>6. ReadInv'
  BY <1>2, <1>3, <1>4 DEF Unfailing, ProcInv, ReadInv, NotRead, Enabling, At
<1>7. SavedInv'
  BY <1>1, <1>2, <1>3, <1>4 DEF Unfailing, ProcInv, SavedInv, PostProcPoint
<1>8. UpToDate'
  <2>1. pc'[Player] = "wr_on" => Player # t /\ pc[Player] = "wr_on"
    BY <1>2, <1>4 DEF PostProcPoint
  <2> SUFFICES ASSUME pc'[Player] = "wr_on" PROVE UpToDate'
    BY DEF UpToDate
  <2>2. overtaken' <=> overtaken
    BY <1>1, <2>1
  <2>3. pp'[Player] = pp[Player]
    BY <1>3, <1>4, <2>1
  <2> QED BY <1>1, <2>1, <2>2, <2>3 DEF Unfailing, ProcInv, UpToDate
<1>9. Processed'
  <2> SUFFICES ASSUME playback_in_progress, mCurSndDevice \in PostProcDevice, ~overtaken',
                      \A u \in Threads : pc'[u] \notin ProcPoint
               PROVE  pp[t].features = EnableMask(mCurSndDevice, post_proc_feature_mask)
    BY <1>1, <1>4 DEF Processed
  <2>1. CASE pc[t] = "pp_on"
    <3>1. mCurSndDevice = want[t].dev
      BY <2>1, NoDeviceIsUnprocessed DEF Unfailing, ProcInv, SavedInv
    <3> QED BY <1>1, <2>1, <3>1 DEF Unfailing, ProcInv, SavedInv
  <2>2. CASE pc[t] = "wr_on"
    <3>1. t = Player
      BY <2>2 DEF Unfailing, ProcInv, WriterInv
    <3>2. mCurSndDevice = pp[t].dev
          /\ pp[t].features = EnableMask(pp[t].dev, post_proc_feature_mask)
      BY <1>1, <2>2, <3>1, NoDeviceIsUnprocessed DEF Unfailing, ProcInv, UpToDate
    <3> QED BY <3>2
  <2>3. pc[t] \notin {"pp_off", "stb_off"}
    BY <1>2 DEF ProcPoint
  <2>4. pc[t] # "wr_off"
    BY DEF Unfailing, ProcInv, WriterInv
  <2> QED BY <1>1, <2>1, <2>2, <2>3, <2>4 DEF PostProcPoint
<1> QED BY <1>5, <1>6, <1>7, <1>8, <1>9 DEF ProcInv

LEMMA ProcPostProc ==
  ASSUME Unfailing, NEW t \in Threads, EnablePostProc(t)
  PROVE  ProcInv'
BY ProcGiveUp, ProcReads, ProcSwitch DEF EnablePostProc

-----------------------------------------------------------------------------
(* The threads.                                                            *)

LEMMA ProcPlay ==
  ASSUME Unfailing, Play
  PROVE  ProcInv'
<1>0. Player \in Threads /\ Threads' = Threads
  BY DEF Threads
<1>1. CASE WriteFill
  <2>1. UNCHANGED pc \/ \E point \in {"idle", "write"} : Goto(Player, point)
    BY <1>1 DEF WriteFill
  <2>2. pc[Player] \notin ProcPoint \cup PostProcPoint
    BY <1>1 DEF WriteFill, At, ProcPoint, PostProcPoint
  <2> QED BY <1>0, <1>1, <2>1, <2>2, ProcAside DEF WriteFill, Point, Unfailing, locals
<1>2. CASE WriteStart
  <2>1. /\ pc[Player] = "write" /\ pc'[Player] = "wr_on"
        /\ \A u \in Threads \ {Player} : pc'[u] = pc[u]
        /\ UNCHANGED <<mCurSndDevice, post_proc_feature_mask, audpp, pp, overtaken, want>>
    BY <1>0, <1>2 DEF WriteStart, At, Goto, Unfailing, TypeOK, locals
  <2>2. pp[Player].read = "nothing"
    BY <1>0, <2>1 DEF Unfailing, ProcInv, ReadInv, PostProcPoint
  <2>3. WriterInv' /\ ReadInv'
    BY <1>0, <2>1, <2>2 DEF Unfailing, ProcInv, WriterInv, ReadInv, Enabling, At
  <2>4. SavedInv'
    BY <1>0, <2>1 DEF Unfailing, ProcInv, SavedInv
  <2>5. UpToDate' /\ Processed'
    BY <1>0, <2>1, <2>2 DEF UpToDate, Processed, ProcPoint
  <2> QED BY <2>3, <2>4, <2>5 DEF ProcInv
<1>3. CASE OutStandby
  BY <1>0, <1>3, ProcAside
  DEF OutStandby, At, ProcPoint, PostProcPoint, Point, Unfailing, locals
<1>4. CASE OutStandbyClose
  <2>1. /\ pc[Player] = "stb_close" /\ pc'[Player] = "idle" /\ ~playback_in_progress'
        /\ \A u \in Threads \ {Player} : pc'[u] = pc[u]
        /\ UNCHANGED <<mCurSndDevice, post_proc_feature_mask, audpp, pp, overtaken, want>>
    BY <1>0, <1>4 DEF OutStandbyClose, At, Goto, Unfailing, TypeOK, locals
  <2>2. WriterInv' /\ ReadInv'
    BY <1>0, <2>1 DEF Unfailing, ProcInv, WriterInv, ReadInv, Enabling, At, PostProcPoint
  <2>3. SavedInv'
    BY <1>0, <2>1 DEF Unfailing, ProcInv, SavedInv
  <2>4. UpToDate' /\ Processed'
    BY <1>0, <2>1 DEF UpToDate, Processed
  <2> QED BY <2>2, <2>3, <2>4 DEF ProcInv
<1>5. CASE OutSetRouting
  BY <1>0, <1>5, ProcAside
  DEF OutSetRouting, At, ProcPoint, PostProcPoint, Point, CallPoint, Unfailing, locals
<1> QED BY <1>0, <1>1, <1>2, <1>3, <1>4, <1>5, ProcRouting, ProcPostProc DEF Play

LEMMA ProcRecord ==
  ASSUME Unfailing, NEW r \in Recorders, Record(r)
  PROVE  ProcInv'
<1>0. r \in Threads
  BY DEF Threads
<1>1. CASE DoRouting(r) \/ EnablePostProc(r)
  BY <1>0, <1>1, ProcRouting, ProcPostProc
<1>2. CASE ~DoRouting(r) /\ ~EnablePostProc(r)
  <2>1. pc[r] \notin ProcPoint \cup PostProcPoint
    BY <1>2 DEF Record, ReadOpen, ReadForceRoute, ReadStart, InStandby, InSetRouting, At,
       ProcPoint, PostProcPoint
  <2>2. UNCHANGED pc \/ \E point \in {"idle", "rec_route", "in_standby", "stb_route",
                                     "in_params"} : Goto(r, point)
    BY <1>2 DEF Record, ReadOpen, ReadForceRoute, ReadStart, InStandby, InSetRouting
  <2>3. UNCHANGED <<want, proc>> /\ mCurSndDevice' \in {mCurSndDevice, NoDevice}
    BY <1>2 DEF Record, ReadOpen, ReadForceRoute, ReadStart, InStandby, InSetRouting, locals
  <2> QED BY <1>0, <2>1, <2>2, <2>3, ProcAside DEF Unfailing, Point, CallPoint
<1> QED BY <1>1, <1>2

LEMMA ProcControl ==
  ASSUME Unfailing, NEW c \in Controllers, Control(c)
  PROVE  ProcInv'
<1>0. c \in Threads
  BY DEF Threads
<1>1. CASE DoRouting(c) \/ EnablePostProc(c)
  BY <1>0, <1>1, ProcRouting, ProcPostProc
<1>2. CASE ~DoRouting(c) /\ ~EnablePostProc(c)
  <2> USE DEF SetMode, ModeClear, SetMicMute, SetParameters, HandleKeys, SetBtName,
              SetDualMic, SetTtyMode, SetFmOn, SetFmOff, RouteAtEnd
  <2>1. pc[c] \notin ProcPoint \cup PostProcPoint
    BY <1>2 DEF Control, Handle, At, ProcPoint, PostProcPoint
  <2>2. UNCHANGED pc \/ \E point \in {"idle", "mode_clear", "params", "sp_name",
                                     "sp_dualmic", "sp_final"} : Goto(c, point)
    BY <1>2 DEF Control
  <2>3. UNCHANGED <<want, proc>> /\ mCurSndDevice' \in {mCurSndDevice, NoDevice}
    BY <1>2 DEF Control, locals
  <2> QED BY <1>0, <2>1, <2>2, <2>3, ProcAside DEF Unfailing, Point, CallPoint
<1> QED BY <1>1, <1>2

LEMMA ProcNext == Unfailing /\ [Next]_vars => ProcInv'
<1> SUFFICES ASSUME Unfailing, [Next]_vars PROVE ProcInv'
  OBVIOUS
<1>1. CASE UNCHANGED vars
  BY <1>1 DEF vars, proc, locals, Unfailing, ProcInv, WriterInv, ReadInv, SavedInv, UpToDate,
              Processed, Enabling, At, Threads
<1> QED BY <1>1, ProcPlay, ProcRecord, ProcControl DEF Next

\* As long as the drivers take what they are told, the features that are on while
\* the output plays are those of the current device, whatever threads route,
\* record, change modes or clear the device while the mixer thread starts and
\* stops without the lock - unless a save overtook a write() between its reads
\* and its ioctl, and nothing switched features since.
THEOREM ProcessingMatches == ~DriversMayFail => (Spec => []OnlyWriteIsOvertaken)
<1> SUFFICES ASSUME ~DriversMayFail PROVE Spec => []OnlyWriteIsOvertaken
  OBVIOUS
<1>1. Init => ProcInv
  BY DEF Init, NotRead, PostProcPoint, ProcInv, WriterInv, ReadInv, SavedInv, UpToDate,
         Processed, Threads
<1>2. TypeOK /\ LockInv /\ ProcInv /\ [Next]_vars => ProcInv'
  BY ProcNext DEF Unfailing
<1>3. ProcInv => OnlyWriteIsOvertaken
  BY DEF ProcInv, Processed, OnlyWriteIsOvertaken, ProcessingMatchesDevice, AllIdle, At,
         ProcPoint
<1>4. Init => TypeOK /\ LockInv
  BY InitType, LockInit
<1>5. TypeOK /\ LockInv /\ [Next]_vars => TypeOK' /\ LockInv'
  BY NextType, LockNext
<1> QED BY <1>1, <1>2, <1>3, <1>4, <1>5, PTL DEF Spec
=============================================================================
