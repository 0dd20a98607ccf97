-------------------------- MODULE AudioInputsProofs --------------------------
(***************************************************************************)
(* Proofs about AudioInputs, for any finite set of streams at any          *)
(* addresses, with opens, routes and starts that may fail: the types, that *)
(* the index of a close stays that of its stream over the unlocked         *)
(* deletion, and that closed or failed streams leave nothing behind.       *)
(***************************************************************************)
EXTENDS AudioInputs, AudioHardwareProofs, FiniteSetTheorems

\* An open that failed has a stream that was never listed.  A close remembers
\* an index, and through the unlocked deletion it stays that of its stream.
CallInv ==
  /\ policy.at = "idle" => policy = NoCall /\ allocated = mInputs
  /\ policy.at = "open_delete" => policy.index = 0
  /\ policy.at \in {"close_delete", "remove"} => policy.index # 0
  /\ (policy.at # "idle" /\ policy.index = 0) =>
       policy.stream \in allocated /\ mInputs = allocated \ {policy.stream}
  /\ policy.index # 0 =>
       /\ policy.stream \in mInputs /\ policy.index = IndexOf(policy.stream)
       /\ allocated = IF policy.at = "remove" THEN mInputs \ {policy.stream} ELSE mInputs

\* Only a listed stream holds the driver, until its destructor runs.
DriverInv ==
  \A r \in Recorders : inFd[r] =>
    r \in mInputs /\ (policy.at \in {"destroy", "remove"} => r # policy.stream)

StreamInv == InputsTypeOK /\ CallInv /\ DriverInv

-----------------------------------------------------------------------------
(* Indices of mInputs.                                                     *)

UpTo(r) == {s \in mInputs : Address[s] <= Address[r]}

LEMMA ListIsFinite ==
  ASSUME InputsType
  PROVE  /\ IsFiniteSet(mInputs)
         /\ Cardinality(mInputs) \in Nat /\ Cardinality(Recorders) \in Nat
         /\ Cardinality(mInputs) <= Cardinality(Recorders)
<1>1. IsFiniteSet(Recorders) /\ mInputs \subseteq Recorders
  BY AddressAssumption DEF InputsType
<1> QED BY <1>1, FS_Subset, FS_CardinalityType

LEMMA IndexBounds ==
  ASSUME InputsType, NEW r \in mInputs
  PROVE  /\ IndexOf(r) \in Nat /\ IndexOf(r) > 0
         /\ IndexOf(r) <= Cardinality(Recorders)
<1>1. IsFiniteSet(UpTo(r)) /\ Cardinality(UpTo(r)) <= Cardinality(mInputs)
  BY ListIsFinite, FS_Subset DEF UpTo
<1>2. r \in UpTo(r)
  <2>1. Address[r] \in Nat
    BY AddressAssumption DEF InputsType
  <2> QED BY <2>1 DEF UpTo
<1>3. Cardinality(UpTo(r)) \in Nat /\ Cardinality(UpTo(r)) # 0
  BY <1>1, <1>2, FS_CardinalityType, FS_EmptySet
<1>4. IndexOf(r) = Cardinality(UpTo(r))
  BY DEF IndexOf, UpTo
<1> QED BY <1>1, <1>3, <1>4, ListIsFinite

\* A stream that lies before another has a smaller index.
LEMMA IndexGrows ==
  ASSUME InputsType, NEW r \in mInputs, NEW s \in mInputs, Address[r] < Address[s]
  PROVE  IndexOf(r) # IndexOf(s)
<1>1. Address[r] \in Nat /\ Address[s] \in Nat /\ \A x \in mInputs : Address[x] \in Nat
  BY AddressAssumption DEF InputsType
<1>2. UpTo(r) \subseteq UpTo(s) /\ s \in UpTo(s) \ UpTo(r)
  BY <1>1 DEF UpTo
<1>3. IsFiniteSet(UpTo(s))
  BY ListIsFinite, FS_Subset DEF UpTo
<1>4. Cardinality(UpTo(r)) # Cardinality(UpTo(s))
  BY <1>2, <1>3, FS_Subset
<1> QED BY <1>4 DEF IndexOf, UpTo

\* An index names one stream.
LEMMA IndexIsInjective ==
  ASSUME InputsType, NEW r \in mInputs, NEW s \in mInputs, IndexOf(r) = IndexOf(s)
  PROVE  r = s
<1>1. Address[r] \in Nat /\ Address[s] \in Nat /\ (Address[r] = Address[s] => r = s)
  BY AddressAssumption DEF InputsType
<1>2. ~(Address[r] < Address[s]) /\ ~(Address[s] < Address[r])
  BY IndexGrows
<1> QED BY <1>1, <1>2

LEMMA ElementOfIndex ==
  ASSUME InputsType, NEW r \in mInputs
  PROVE  ElementAt(IndexOf(r)) = r
<1>1. \A s \in mInputs : IndexOf(s) = IndexOf(r) => s = r
  BY IndexIsInjective
<1> HIDE DEF IndexOf
<1> QED BY <1>1 DEF ElementAt

\* The destructor runs in the stream that the call is about.
LEMMA VictimIsStream ==
  ASSUME InputsType, CallInv, policy.at \in {"open_delete", "close_delete"}
  PROVE  Victim = policy.stream
<1>1. CASE policy.at = "close_delete"
  BY <1>1, ElementOfIndex DEF CallInv, Victim
<1>2. CASE policy.at = "open_delete"
  BY <1>2 DEF Victim
<1> QED BY <1>1, <1>2

-----------------------------------------------------------------------------
(* Types.                                                                  *)

\* The four steps that touch an input stream outside its own thread's calls.
LEMMA OpenType ==
  ASSUME TypeOK, NEW r \in Recorders, OpenInputStream(r) \/ OpenFails(r) \/ Freed(r)
  PROVE  TypeOK'
<1>1. UNCHANGED <<mLock, mCurSndDevice, pc, audpre, mics, proc, flags, output, locals, routed>>
  BY DEF OpenInputStream, OpenFails, Freed
<1>2. inDevices' \in [Recorders -> InputBit \cup {"none"}]
  BY InputAssumption DEF OpenInputStream, OpenFails, Freed, TypeOK, InputType
<1>3. inState' \in [Recorders -> {"CLOSED", "OPENED", "STARTED"}]
  BY DEF OpenInputStream, OpenFails, Freed, TypeOK, InputType
<1>4. inFd' \in [Recorders -> BOOLEAN]
  BY DEF OpenInputStream, OpenFails, Freed, TypeOK, InputType
<1>5. InputType'
  BY <1>1, <1>2, <1>3, <1>4 DEF TypeOK, InputType
<1> QED BY <1>1, <1>5, FrameType DEF TypeOK

LEMMA DeleteType ==
  ASSUME TypeOK, NEW r \in Recorders, Delete(r)
  PROVE  TypeOK'
  BY RecordStepType DEF Delete, Record

\* A step of a record thread, or of the thread in the destructor, is a step of
\* AudioHardware's recorder.
LEMMA StreamIsRecord ==
  ASSUME NEW r \in Recorders, StreamStep(r)
  PROVE  Record(r)
  BY DEF StreamStep, Record

LEMMA TypeInputs ==
  ASSUME TypeOK, [NextInputs]_allVars
  PROVE  TypeOK'
<1>1. ASSUME UNCHANGED vars PROVE TypeOK'
  BY <1>1, NextType
<1>2. CASE PolicyStep
  BY <1>1, <1>2, OpenType, DeleteType DEF PolicyStep, RemoveAt, CloseInputStream
<1>3. CASE DumpStart \/ DumpNext \/ UNCHANGED allVars
  BY <1>1, <1>3 DEF DumpStart, DumpNext, allVars
<1>4. CASE \E r \in Recorders : StreamStep(r)
  BY <1>4, StreamIsRecord, RecordStepType
<1> QED BY <1>2, <1>3, <1>4 DEF NextInputs

-----------------------------------------------------------------------------
(* The steps of the policy's calls.                                        *)

\* What happens around a call that changes none of its state.
LEMMA CallStays ==
  ASSUME InputsType, CallInv, UNCHANGED <<allocated, mInputs, policy>>
  PROVE  CallInv'
  BY DEF CallInv, NoCall, IndexOf

LEMMA OpenStep ==
  ASSUME TypeOK, InputsType, CallInv, DriverInv, NEW r \in Recorders,
         OpenInputStream(r) \/ OpenFails(r)
  PROVE  InputsType' /\ CallInv' /\ DriverInv'
<1>1. policy = NoCall /\ allocated = mInputs /\ r \notin mInputs /\ dumpIndex' = dumpIndex
      /\ allocated' = mInputs \cup {r}
  BY DEF OpenInputStream, OpenFails, CallInv, NoCall
<1>2. CASE OpenInputStream(r)
  <2>1. mInputs' = mInputs \cup {r} /\ policy' = NoCall
        /\ inFd' = [inFd EXCEPT ![r] = TRUE]
    BY <1>1, <1>2 DEF OpenInputStream
  <2>2. InputsType'
    BY <1>1, <2>1 DEF InputsType
  <2>3. CallInv'
    BY <1>1, <2>1 DEF CallInv, NoCall
  <2>4. DriverInv'
    BY <1>1, <2>1 DEF DriverInv, NoCall, TypeOK, InputType
  <2> QED BY <2>2, <2>3, <2>4
<1>3. CASE OpenFails(r)
  <2>1. mInputs' = mInputs /\ policy' = [at |-> "open_delete", stream |-> r, index |-> 0]
        /\ inFd' = inFd
    BY <1>3 DEF OpenFails
  <2>2. InputsType'
    BY <1>1, <2>1, ListIsFinite DEF InputsType
  <2>3. CallInv'
    BY <1>1, <2>1 DEF CallInv
  <2>4. DriverInv'
    BY <1>1, <2>1 DEF DriverInv
  <2> QED BY <2>2, <2>3, <2>4
<1> QED BY <1>2, <1>3

LEMMA CloseStep ==
  ASSUME TypeOK, InputsType, CallInv, DriverInv, NEW r \in Recorders, CloseInputStream(r)
  PROVE  InputsType' /\ CallInv' /\ DriverInv'
<1>1. policy = NoCall /\ allocated = mInputs /\ r \in mInputs
      /\ UNCHANGED <<allocated, mInputs, dumpIndex, inFd>>
      /\ policy' = [at |-> "close_delete", stream |-> r, index |-> IndexOf(r)]
  BY DEF CloseInputStream, CallInv, NoCall, vars, input
<1>2. IndexOf(r) \in 0..Cardinality(Recorders) /\ IndexOf(r) # 0
  BY <1>1, IndexBounds, ListIsFinite
<1>3. InputsType'
  BY <1>1, <1>2 DEF InputsType
<1>4. IndexOf(r)' = IndexOf(r)
  BY <1>1 DEF IndexOf
<1>5. CallInv'
  <2> HIDE DEF IndexOf
  <2>1. policy'.stream = r /\ policy'.index = IndexOf(r) /\ policy'.at = "close_delete"
    BY <1>1
  <2>2. policy'.index = IndexOf(policy.stream)'
    BY <1>4, <2>1, <1>1 DEF IndexOf
  <2> QED BY <1>1, <1>2, <2>1, <2>2 DEF CallInv
<1>6. DriverInv'
  BY <1>1 DEF DriverInv
<1> QED BY <1>3, <1>5, <1>6

LEMMA DeleteStep ==
  ASSUME TypeOK, InputsType, CallInv, DriverInv, NEW r \in Recorders, Delete(r)
  PROVE  InputsType' /\ CallInv' /\ DriverInv'
<1>1. policy.at \in {"open_delete", "close_delete"} /\ r = policy.stream
  BY VictimIsStream DEF Delete
<1>2. policy' = [policy EXCEPT !.at = "destroy", !.stream = r]
      /\ inFd' = [inFd EXCEPT ![r] = FALSE] /\ UNCHANGED <<allocated, mInputs, dumpIndex>>
  BY DEF Delete, InStandby
<1>3. policy'.at = "destroy" /\ policy'.stream = policy.stream /\ policy'.index = policy.index
      /\ InputsType'
  BY <1>1, <1>2 DEF InputsType
<1>4. CallInv'
  BY <1>1, <1>2, <1>3 DEF CallInv, IndexOf
<1>5. DriverInv'
  BY <1>1, <1>2, <1>3 DEF DriverInv, TypeOK, InputType
<1> QED BY <1>3, <1>4, <1>5

LEMMA FreedStep ==
  ASSUME TypeOK, InputsType, CallInv, DriverInv, NEW r \in Recorders, Freed(r)
  PROVE  InputsType' /\ CallInv' /\ DriverInv'
<1>1. policy.at = "destroy" /\ policy.stream = r /\ allocated' = allocated \ {r}
      /\ UNCHANGED <<mInputs, dumpIndex, inFd>>
      /\ policy' = IF policy.index = 0 THEN NoCall ELSE [policy EXCEPT !.at = "remove"]
  BY DEF Freed
<1>2. CASE policy.index = 0
  <2>1. policy' = NoCall /\ mInputs = allocated \ {r}
    BY <1>1, <1>2 DEF CallInv
  <2>2. InputsType'
    BY <1>1, <2>1, ListIsFinite DEF InputsType, NoCall
  <2>3. CallInv' /\ DriverInv'
    BY <1>1, <2>1 DEF CallInv, DriverInv, NoCall
  <2> QED BY <2>2, <2>3
<1>3. CASE policy.index # 0
  <2>1. policy'.at = "remove" /\ policy'.stream = r /\ policy'.index = policy.index
        /\ InputsType'
    BY <1>1, <1>3 DEF InputsType
  <2>2. r \in mInputs /\ policy.index = IndexOf(r) /\ allocated = mInputs
    BY <1>1, <1>3 DEF CallInv
  <2>3. CallInv'
    BY <1>1, <1>3, <2>1, <2>2 DEF CallInv, IndexOf
  <2>4. DriverInv'
    BY <1>1, <2>1 DEF DriverInv
  <2> QED BY <2>1, <2>3, <2>4
<1> QED BY <1>2, <1>3

LEMMA RemoveStep ==
  ASSUME TypeOK, InputsType, CallInv, DriverInv, RemoveAt
  PROVE  InputsType' /\ CallInv' /\ DriverInv'
<1>1. policy.at = "remove" /\ policy' = NoCall /\ UNCHANGED <<allocated, dumpIndex, inFd>>
      /\ mInputs' = {r \in mInputs : IndexOf(r) # policy.index}
  BY DEF RemoveAt, vars, input
<1>2. policy.stream \in mInputs /\ policy.index = IndexOf(policy.stream)
      /\ allocated = mInputs \ {policy.stream}
  BY <1>1 DEF CallInv
<1>3. mInputs' = mInputs \ {policy.stream}
  <2> HIDE DEF IndexOf
  <2>1. \A r \in mInputs : IndexOf(r) = policy.index <=> r = policy.stream
    BY <1>2, IndexIsInjective
  <2> QED BY <1>1, <2>1
<1>4. InputsType'
  BY <1>1, <1>3, ListIsFinite DEF InputsType, NoCall
<1>5. CallInv'
  BY <1>1, <1>2, <1>3 DEF CallInv, NoCall
<1>6. DriverInv'
  BY <1>1, <1>3 DEF DriverInv, NoCall
<1> QED BY <1>4, <1>5, <1>6

-----------------------------------------------------------------------------
(* The threads of the streams, and dump().                                 *)

LEMMA RoutingKeepsFd == ASSUME NEW r, DoRouting(r) PROVE inFd' = inFd
  BY DEF DoRouting, Select, Skip, SendRoute, DisableOld, SaveDevice, SaveMask, EnableNew, input

\* A thread opens and closes the driver for its own stream, which is listed and
\* not being closed.
LEMMA OwnStep ==
  ASSUME TypeOK, InputsType, CallInv, DriverInv,
         NEW r \in Recorders, StreamStep(r), UNCHANGED inputs
  PROVE  InputsType' /\ CallInv' /\ DriverInv'
<1>1. UNCHANGED <<allocated, mInputs, policy, dumpIndex>>
  BY DEF inputs
<1>2. \/ inFd' = inFd
      \/ r \in mInputs /\ policy.stream # r /\ \E ok : inFd' = [inFd EXCEPT ![r] = ok]
  <2>1. CASE DoRouting(r)
    BY <2>1, RoutingKeepsFd
  <2>2. CASE ReadForceRoute(r) \/ ReadStart(r) \/ InSetRouting(r)
    BY <2>2 DEF ReadForceRoute, ReadStart, InSetRouting
  <2>3. CASE r \in mInputs /\ policy.stream # r /\ (ReadOpen(r) \/ InStandby(r))
    BY <2>3 DEF ReadOpen, InStandby
  <2> QED BY <2>1, <2>2, <2>3 DEF StreamStep
<1>3. DriverInv'
  BY <1>1, <1>2 DEF DriverInv, TypeOK, InputType
<1> QED BY <1>1, <1>3, CallStays DEF InputsType

LEMMA DumpStep ==
  ASSUME InputsType, CallInv, DriverInv, DumpStart \/ DumpNext
  PROVE  InputsType' /\ CallInv' /\ DriverInv'
<1>1. UNCHANGED <<allocated, mInputs, policy, inFd>>
  BY DEF DumpStart, DumpNext, vars, input
<1>2. dumpIndex' \in 0..Cardinality(Recorders) + 1
  BY ListIsFinite DEF DumpStart, DumpNext, InputsType
<1> QED BY <1>1, <1>2, CallStays DEF InputsType, DriverInv

-----------------------------------------------------------------------------

LEMMA StreamInit == InitInputs => StreamInv
<1> SUFFICES ASSUME InitInputs PROVE StreamInv
  OBVIOUS
<1>1. IsFiniteSet(Recorders)
  BY AddressAssumption
<1>2. Cardinality(Recorders) \in Nat
  BY <1>1, FS_CardinalityType
<1>3. InputsType
  BY <1>2 DEF InitInputs, InputsType, NoCall
<1>4. CallInv /\ DriverInv
  BY DEF InitInputs, Init, CallInv, DriverInv, NoCall
<1> QED BY <1>3, <1>4, InitType DEF InitInputs, StreamInv, InputsTypeOK

LEMMA StreamNext == StreamInv /\ [NextInputs]_allVars => StreamInv'
<1> SUFFICES ASSUME TypeOK, InputsType, CallInv, DriverInv, [NextInputs]_allVars
             PROVE  TypeOK' /\ InputsType' /\ CallInv' /\ DriverInv'
  BY DEF StreamInv, InputsTypeOK
<1>1. TypeOK'
  BY TypeInputs
<1>2. CASE PolicyStep
  BY <1>2, OpenStep, CloseStep, DeleteStep, FreedStep, RemoveStep, <1>1 DEF PolicyStep
<1>3. CASE DumpStart \/ DumpNext
  BY <1>1, <1>3, DumpStep
<1>4. CASE \E r \in Recorders : StreamStep(r) /\ UNCHANGED inputs
  BY <1>1, <1>4, OwnStep
<1>5. CASE UNCHANGED allVars
  <2>1. UNCHANGED <<allocated, mInputs, policy, dumpIndex, inFd>>
    BY <1>5 DEF allVars, inputs, vars, input
  <2> QED BY <1>1, <2>1, CallStays DEF InputsType, DriverInv
<1> QED BY <1>2, <1>3, <1>4, <1>5 DEF NextInputs

LEMMA StreamsKept == SpecInputs => []StreamInv
<1> QED BY StreamInit, StreamNext, PTL DEF SpecInputs

\* Types: opens, closes, failures and dumps in any order keep the streams, the
\* index of a close and that of dump() in their ranges.
THEOREM InputsTypeCorrect == SpecInputs => []InputsTypeOK
<1>1. StreamInv => InputsTypeOK
  BY DEF StreamInv
<1> QED BY <1>1, StreamsKept, PTL

\* closeInputStream() deletes the stream without the lock and removes it by the
\* index it looked up before: what is listed exists, but for the stream between
\* its deletion and its removal, and the index is still that stream's.
THEOREM ListedStreamsExist == SpecInputs => []ListedAreAllocated
<1>1. StreamInv => ListedAreAllocated
  <2> SUFFICES ASSUME InputsType, CallInv, NEW r \in mInputs \ allocated
               PROVE  policy.at = "remove" /\ policy.index = IndexOf(r)
    BY DEF StreamInv, InputsTypeOK, ListedAreAllocated
  <2>1. policy.at # "idle"
    BY DEF CallInv
  <2>2. policy.index # 0
    BY <2>1 DEF CallInv
  <2>3. policy.at = "remove" /\ allocated = mInputs \ {policy.stream}
    BY <2>2 DEF CallInv
  <2>4. r = policy.stream
    BY <2>3
  <2> QED BY <2>2, <2>3, <2>4 DEF CallInv
<1> QED BY <1>1, StreamsKept, PTL

\* Between calls of the policy every stream that exists is listed and the
\* driver is open only for a listed one, also after opens that failed half way:
\* each can be closed, and the driver opened again.
THEOREM NothingIsLeaked == SpecInputs => []NothingLeaks
<1>1. StreamInv => NothingLeaks
  BY DEF StreamInv, NothingLeaks, CallInv, DriverInv, NoCall
<1> QED BY <1>1, StreamsKept, PTL

-----------------------------------------------------------------------------
(* The routing under streams that come and go.                             *)

\* A step here is a step of AudioHardware, or touches none of the route, the
\* lock and the threads: opening and freeing a stream is not routing.
LEMMA InputsStepKinds ==
  ASSUME [NextInputs]_allVars
  PROVE  [Next]_vars \/ UNCHANGED <<mLock, mCurSndDevice, pc, locals, routed>>
<1>1. ASSUME NEW r \in Recorders, Record(r) PROVE [Next]_vars
  BY <1>1 DEF Next
<1>2. ASSUME NEW r \in Recorders, OpenInputStream(r) \/ OpenFails(r) \/ Freed(r)
      PROVE  UNCHANGED <<mLock, mCurSndDevice, pc, locals, routed>>
  BY <1>2 DEF OpenInputStream, OpenFails, Freed
<1>3. ASSUME NEW r \in Recorders, Delete(r) PROVE [Next]_vars
  BY <1>1, <1>3 DEF Delete, Record
<1>4. CASE UNCHANGED vars
  BY <1>4
<1>5. CASE PolicyStep
  BY <1>2, <1>3, <1>4, <1>5 DEF PolicyStep, RemoveAt, CloseInputStream
<1>6. CASE DumpStart \/ DumpNext \/ UNCHANGED allVars
  BY <1>4, <1>6 DEF DumpStart, DumpNext, allVars
<1>7. ASSUME NEW r \in Recorders, StreamStep(r) PROVE [Next]_vars
  BY <1>1, <1>7, StreamIsRecord
<1> QED BY <1>5, <1>6, <1>7 DEF NextInputs

LEMMA InputsCoherent ==
  ASSUME TypeOK, LockInv, CoherentInv, [NextInputs]_allVars
  PROVE  LockInv' /\ CoherentInv' /\ [Cache!Next]_(Cache!vars)
<1>1. CASE [Next]_vars
  BY <1>1, LockNext, CoherentNext, CacheNext
<1>2. CASE UNCHANGED <<mLock, mCurSndDevice, pc, locals, routed>>
  <2>1. LockInv'
    BY <1>2 DEF LockInv
  <2>2. Still
    BY <1>2 DEF Still, locals, routed
  <2>3. CoherentInv'
    BY <2>2 DEF Still, CoherentInv, PendingInv, CacheCoherent
  <2>4. [Cache!Next]_(Cache!vars)
    BY <2>2, CacheKept DEF Still, MidRoute
  <2> QED BY <2>1, <2>3, <2>4
<1> QED BY <1>1, <1>2, InputsStepKinds

\* What is proved of the routing alone holds with streams that are opened,
\* deleted and freed around it: the current device is the one the driver was
\* told, and routes are atomic, although a destructor clears the device and
\* routes from a thread that holds no lock.
THEOREM StreamsKeepRouting == SpecInputs => []CacheCoherent /\ RoutesAtomically
<1>1. InitInputs => TypeOK /\ LockInv /\ CoherentInv /\ Cache!Init
  BY InitType, LockInit, CoherentInit, CacheInit DEF InitInputs
<1>2. TypeOK /\ [NextInputs]_allVars => TypeOK'
  BY TypeInputs
<1>3. TypeOK /\ LockInv /\ CoherentInv /\ [NextInputs]_allVars =>
        LockInv' /\ CoherentInv' /\ [Cache!Next]_(Cache!vars)
  BY InputsCoherent
<1>4. CoherentInv => CacheCoherent
  BY DEF CoherentInv
<1> QED BY <1>1, <1>2, <1>3, <1>4, PTL DEF SpecInputs, RoutesAtomically, Cache!Spec
=============================================================================
