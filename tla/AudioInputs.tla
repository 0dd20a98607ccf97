---------------------------- MODULE AudioInputs -----------------------------
(***************************************************************************)
(* The input streams of libaudio/AudioHardware.cpp from openInputStream()  *)
(* to closeInputStream(), around the routing of AudioHardware.             *)
(*                                                                         *)
(* An element of Recorders is an address at which a stream object may be   *)
(* allocated, together with the record thread that reads from it.          *)
(* AudioPolicyService makes one open or close call at a time, AudioFlinger *)
(* ends a record thread before it closes its stream, and dump() is called  *)
(* at any time by one further thread.  The PCM input driver can be open    *)
(* once.  The output stream is left in standby, and nobody changes modes.  *)
(***************************************************************************)
EXTENDS AudioHardware

CONSTANT Address        \* where each stream lies: the order of mInputs

ASSUME AddressAssumption ==
  /\ IsFiniteSet(Recorders)
  /\ Address \in [Recorders -> Nat]
  /\ \A r, s \in Recorders : Address[r] = Address[s] => r = s

VARIABLES
  allocated,      \* the stream objects that exist
  mInputs,        \* SortedVector of streams, as the set of its elements
  policy,         \* the open or close call in progress
  dumpIndex       \* where dump() is in mInputs; 0 when nobody dumps

inputs == <<allocated, mInputs, policy, dumpIndex>>
allVars == <<vars, inputs>>

\* Mutant: counts one element too many.
IndexAfter(r) == Cardinality({s \in mInputs : Address[s] <= Address[r]}) + 1

\* The elements of a SortedVector by index, from 1.
IndexOf(r) == Cardinality({s \in mInputs : Address[s] <= Address[r]})
ElementAt(i) == CHOOSE r \in mInputs : IndexOf(r) = i

NoCall == [at |-> "idle", stream |-> NoThread, index |-> 0]

InputsType ==
  /\ allocated \subseteq Recorders
  /\ mInputs \subseteq Recorders
  /\ policy \in [at : {"idle", "open_delete", "close_delete", "destroy", "remove"},
                 stream : Recorders \cup {NoThread}, index : 0..Cardinality(Recorders)]
  /\ dumpIndex \in 0..Cardinality(Recorders) + 1

InitInputs ==
  /\ Init
  /\ allocated = {} /\ mInputs = {}
  /\ policy = NoCall
  /\ dumpIndex = 0

\* The driver refuses a second open; a set() that fails there leaves no trace.
DriverFree == \A r \in Recorders : ~inFd[r]

-----------------------------------------------------------------------------
(* openInputStream()                                                       *)

\* set(), under the lock: with the driver open, the stream is listed.
OpenInputStream(r) ==
  /\ policy = NoCall /\ r \notin allocated /\ mLock = NoThread
  /\ DriverFree
  /\ allocated' = allocated \cup {r}
  /\ mInputs' = mInputs \cup {r}
  /\ inState' = [inState EXCEPT ![r] = "OPENED"]
  /\ inFd' = [inFd EXCEPT ![r] = TRUE]
  /\ \E d \in InRoutes : inDevices' = [inDevices EXCEPT ![r] = d]
  /\ UNCHANGED <<policy, dumpIndex, mLock, mCurSndDevice, pc, audpre, mics,
                 proc, flags, output, locals, routed>>

\* Mutant: the stream of a failed set() is forgotten.
OpenAndForget(r) ==
  /\ policy = NoCall /\ r \notin allocated /\ mLock = NoThread
  /\ ~DriverFree \/ DriversMayFail
  /\ allocated' = allocated \cup {r}
  /\ UNCHANGED <<vars, mInputs, policy, dumpIndex>>

\* set() failed: after the unlock the new stream is deleted.  A sample rate
\* without a pre-processing entry is refused after mState has been set; bad
\* parameters are refused before anything is, and leave no trace.
OpenFails(r) ==
  /\ policy = NoCall /\ r \notin allocated /\ mLock = NoThread
  /\ ~DriverFree \/ DriversMayFail
  /\ allocated' = allocated \cup {r}
  /\ policy' = [at |-> "open_delete", stream |-> r, index |-> 0]
  /\ \/ inState' = [inState EXCEPT ![r] = "CLOSED"]
     \/ DriverFree /\ inState' = [inState EXCEPT ![r] = "OPENED"]
  /\ UNCHANGED <<mInputs, dumpIndex, mLock, mCurSndDevice, pc, inDevices,
                 inFd, audpre, mics, proc, flags, output, locals, routed>>

-----------------------------------------------------------------------------
(* closeInputStream()                                                      *)

\* Mutant: keeps the lock while it deletes the stream.
CloseLocked(r) ==
  /\ policy = NoCall /\ r \in mInputs /\ mLock = NoThread
  /\ At(r, "idle")
  /\ policy' = [at |-> "close_delete", stream |-> r, index |-> IndexOf(r)]
  /\ mLock' = r
  /\ UNCHANGED <<mCurSndDevice, pc, mics, proc, flags, output, input, locals,
                 routed, allocated, mInputs, dumpIndex>>

\* Looks the stream up under the lock, and gives the lock back.
CloseInputStream(r) ==
  /\ policy = NoCall /\ r \in mInputs /\ mLock = NoThread
  /\ At(r, "idle")
  /\ policy' = [at |-> "close_delete", stream |-> r, index |-> IndexOf(r)]
  /\ UNCHANGED <<vars, allocated, mInputs, dumpIndex>>

\* "delete mInputs[index]", read without the lock, or the stream that was not
\* opened: the destructor calls standby(), which routes.
Victim == IF policy.at = "close_delete" THEN ElementAt(policy.index) ELSE policy.stream

Delete(r) ==
  /\ policy.at \in {"open_delete", "close_delete"} /\ r = Victim
  /\ policy' = [policy EXCEPT !.at = "destroy", !.stream = r]
  /\ InStandby(r)
  /\ UNCHANGED <<allocated, mInputs, dumpIndex>>

\* The memory is freed when the destructor returns.
Freed(r) ==
  /\ policy.at = "destroy" /\ policy.stream = r /\ At(r, "idle")
  /\ allocated' = allocated \ {r}
  /\ policy' = IF policy.index = 0 THEN NoCall ELSE [policy EXCEPT !.at = "remove"]
  /\ inDevices' = [inDevices EXCEPT ![r] = "none"]
  /\ UNCHANGED <<mInputs, dumpIndex, mLock, mCurSndDevice, pc, inState, inFd,
                 audpre, mics, proc, flags, output, locals, routed>>

\* Mutant: removes the element after the one that was deleted.
RemoveNext ==
  /\ policy.at = "remove" /\ mLock = NoThread
  /\ mInputs' = {r \in mInputs : IndexOf(r) # policy.index + 1}
  /\ policy' = NoCall
  /\ UNCHANGED <<vars, allocated, dumpIndex>>

RemoveAt ==
  /\ policy.at = "remove" /\ mLock = NoThread
  /\ mInputs' = {r \in mInputs : IndexOf(r) # policy.index}
  /\ policy' = NoCall
  /\ UNCHANGED <<vars, allocated, dumpIndex>>

-----------------------------------------------------------------------------
(* dump(), which takes no lock.                                            *)

DumpStart ==
  /\ dumpIndex = 0 /\ mInputs # {}
  /\ dumpIndex' = 1
  /\ UNCHANGED <<vars, allocated, mInputs, policy>>

\* Calls dump() of the stream at the index, and looks for the next.
DumpNext ==
  /\ dumpIndex > 0
  /\ dumpIndex' = IF dumpIndex < Cardinality(mInputs) THEN dumpIndex + 1 ELSE 0
  /\ UNCHANGED <<vars, allocated, mInputs, policy>>

-----------------------------------------------------------------------------

\* The record thread of a stream that is not being closed, and the thread of
\* the destructor once standby() has begun.
StreamStep(r) ==
  \/ /\ r \in mInputs /\ policy.stream # r
     /\ \/ ReadOpen(r) /\ DriverFree
        \/ ReadForceRoute(r) \/ ReadStart(r) \/ InStandby(r) \/ InSetRouting(r)
        \/ DoRouting(r)
  \/ /\ policy.at = "destroy" /\ policy.stream = r
     /\ DoRouting(r)

PolicyStep == RemoveAt \/ \E r \in Recorders :
  OpenInputStream(r) \/ OpenFails(r) \/ CloseInputStream(r) \/ Delete(r) \/ Freed(r)

NextInputs ==
  \/ PolicyStep \/ DumpStart \/ DumpNext
  \/ \E r \in Recorders : StreamStep(r) /\ UNCHANGED inputs

SpecInputs == InitInputs /\ [][NextInputs]_allVars

\* As in AudioHardware; a close or a failed open that has begun goes on.
FairInputs ==
  /\ SpecInputs
  /\ \A r \in Recorders :
       /\ WF_allVars(~At(r, "idle") /\ StreamStep(r) /\ UNCHANGED inputs)
       /\ SF_allVars(Select(r) /\ UNCHANGED inputs)
       /\ WF_allVars(Delete(r) \/ Freed(r))
  /\ SF_allVars(RemoveAt)

-----------------------------------------------------------------------------
(* Properties.                                                             *)

InputsTypeOK == TypeOK /\ InputsType

\* What dump() and closeInputStream() find in mInputs is a stream that exists:
\* the index remembered over the unlocked deletion still means the same stream,
\* and only that stream is listed when it is gone, from its deletion to the
\* removal that follows.
ListedAreAllocated ==
  \A r \in mInputs \ allocated : policy.at = "remove" /\ policy.index = IndexOf(r)

\* Between calls nothing is left over: every stream that exists is listed, so
\* it can be closed, and the driver is open only for a listed stream, so it can
\* be opened again - also after opens that failed half way.
NothingLeaks ==
  policy = NoCall => /\ allocated = mInputs
                     /\ {r \in Recorders : inFd[r]} \subseteq mInputs

\* read() is to "force routing to input device": once every call has returned,
\* a stream that records has the device it asked for.
RecordingKeepsRoute ==
  \A r \in Recorders :
    (/\ AllIdle /\ policy = NoCall
     /\ inState[r] = "STARTED" /\ inDevices[r] \notin {"none", "VOICE_CALL"}
     /\ mCurSndDevice # NoDevice)
    => mCurSndDevice = InputRoute(inDevices[r], mDevices).dev

\* Opens and closes return, although their destructors route and wait for the
\* lock that open and close themselves take.
PolicyReturns == policy # NoCall ~> policy = NoCall
=============================================================================
