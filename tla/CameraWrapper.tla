--------------------------- MODULE CameraWrapper ----------------------------
(***************************************************************************)
(* The preview of the camera: libcamera/Y210CameraWrapper.cpp between the  *)
(* vendor's camera library (the blob) and CameraService, and the Camera    *)
(* application with the patches of this tree.                              *)
(*                                                                         *)
(* Two threads meet in the wrapper: a binder thread, on which CameraService*)
(* makes the application's calls one by one under Client::mLock, and the   *)
(* blob's own thread, which delivers the picture of a capture.  `todo`     *)
(* holds the calls the application's thread has still to make before it is *)
(* back in its message loop, and pc the point reached inside the first.    *)
(*                                                                         *)
(* Of the blob only this is assumed: it stops its preview for a capture,   *)
(* refuses a start before it has delivered the picture, allocates a heap   *)
(* per start, may be busy for a while after another instance was released, *)
(* and does not know 432x320.                                              *)
(***************************************************************************)
EXTENDS Naturals, Sequences

CONSTANTS
  DelegateSetParams,  \* persist.camera.delegate_setparams
  BlobMayReject       \* may the blob refuse parameters it knows?

ASSUME CameraAssumption == DelegateSetParams \in BOOLEAN /\ BlobMayReject \in BOOLEAN

Size == {"640x480", "480x320", "432x320"}
BlobSize == Size \ {"432x320"}         \* those the blob knows
AppSize == {"640x480", "432x320"}     \* those an application asks for
Seed == "640x480"                     \* seedParameters(), and the blob's own

VARIABLES
  usable,               \* isUsable(): an instance is open and not released
  mPreviewRunning,
  mLastGoodParameters,  \* the preview size in the cache
  blob,                 \* the vendor library's preview
  capture,              \* its capture: "none", "exposing" or "jpeg"
  isp,                  \* the image processor: "free", "ours" or "busy"
  mSurface,             \* CameraService: the surface of the preview
  registered,           \* size of the buffers SurfaceFlinger shows, or "none"
  todo, pc,
  app                   \* the activity; `dropped` records that a pause threw
                        \* away a RESTART_PREVIEW message

wrapper == <<usable, mPreviewRunning, mLastGoodParameters>>
hardware == <<blob, capture, isp>>
service == <<mSurface, registered>>
vars == <<wrapper, hardware, service, todo, pc, app>>

Call == {"open", "stop", "display", "params", "start", "take", "disconnect"}

\* A heap is "fresh" until SurfaceFlinger has mapped it, or has "refused" to.
NoHeap == "none"

BlobOff == [running |-> FALSE, size |-> Seed, heap |-> NoHeap, heapSize |-> Seed]

NewActivity == [paused |-> TRUE, holder |-> FALSE, mPreviewing |-> FALSE,
                mStartPreviewFail |-> FALSE, restartMsg |-> FALSE, jpegMsg |-> FALSE,
                dropped |-> FALSE]

CameraTypeOK ==
  /\ usable \in BOOLEAN /\ mPreviewRunning \in BOOLEAN
  /\ mLastGoodParameters \in Size
  /\ blob \in [running : BOOLEAN, size : BlobSize, heapSize : BlobSize,
               heap : {NoHeap, "fresh", "mapped", "refused"}]
  /\ capture \in {"none", "exposing", "jpeg"}
  /\ isp \in {"free", "ours", "busy"}
  /\ mSurface \in {"none", "current", "old"}
  /\ registered \in Size \cup {"none"}
  /\ todo \in Seq(Call) /\ Len(todo) <= 6
  /\ pc \in {"next", "blob_start", "retry", "started", "register", "release"}
  /\ app \in [paused : BOOLEAN, holder : BOOLEAN, mPreviewing : BOOLEAN,
              mStartPreviewFail : BOOLEAN, restartMsg : BOOLEAN, jpegMsg : BOOLEAN,
              dropped : BOOLEAN]

Init ==
  /\ usable = FALSE /\ mPreviewRunning = FALSE /\ mLastGoodParameters = Seed
  /\ blob = BlobOff /\ capture = "none" /\ isp = "free"
  /\ mSurface = "none" /\ registered = "none"
  /\ todo = <<>> /\ pc = "next"
  /\ app = NewActivity

Calling(call) == todo # <<>> /\ Head(todo) = call

\* The first call returns to the application.
Return == pc' = "next" /\ todo' = Tail(todo)

-----------------------------------------------------------------------------
(* The wrapper's calls into the blob.                                      *)

\* A stopped blob has no preview heap.
Stopped == [blob EXCEPT !.running = FALSE, !.heap = NoHeap]

\* Mutant: the flag is cleared before it is looked at.
StopNothing ==
  /\ mPreviewRunning' = FALSE
  /\ UNCHANGED blob

\* stopPreview(): skipped when the wrapper believes the preview is off.
StopPreview ==
  /\ mPreviewRunning' = FALSE
  /\ blob' = IF mPreviewRunning THEN Stopped ELSE blob

\* Mutant: sizes are handed on as they are.
AsAsked(size) == size

\* A size the blob does not know is replaced by the nearest it does.
Known(size) == IF size = "432x320" THEN "480x320" ELSE size

\* Mutant: the replacement is not stored in the cache.
CacheAsAsked(size) == size

\* setParameters(): the cache takes the size before the blob is asked, and
\* afterwards the replacement of one the blob does not know.
Cached(size) == IF DelegateSetParams THEN Known(size) ELSE size

SetParameters ==
  /\ Calling("params") /\ pc = "next"
  /\ \E size \in AppSize, taken \in {TRUE, ~BlobMayReject} :
       /\ mLastGoodParameters' = Cached(size)
       /\ blob' = IF DelegateSetParams /\ taken
                  THEN [blob EXCEPT !.size = Known(size)] ELSE blob
  /\ Return
  /\ UNCHANGED <<usable, mPreviewRunning, capture, isp, service, app>>

-----------------------------------------------------------------------------
(* CameraService.                                                          *)

\* connect() and createInstance(): CameraService admits one client at a time.
Open ==
  /\ Calling("open") /\ pc = "next"
  /\ usable' = TRUE
  /\ mPreviewRunning' = FALSE
  /\ mLastGoodParameters' = Seed
  /\ mSurface' = "none"
  /\ Return
  /\ UNCHANGED <<hardware, registered, app>>

ClientStopPreview ==
  /\ Calling("stop") /\ pc = "next"
  /\ StopPreview
  /\ registered' = "none"
  /\ app' = [app EXCEPT !.mPreviewing = FALSE]
  /\ Return
  /\ UNCHANGED <<usable, mLastGoodParameters, capture, isp, mSurface>>

AppSurface == IF app.holder THEN "current" ELSE "none"

\* setPreviewDisplay(): with the preview on, a new surface needs a new heap,
\* so the preview is stopped and started.
SetPreviewDisplay ==
  /\ Calling("display") /\ pc = "next" /\ mSurface # AppSurface
  /\ mSurface' = AppSurface
  /\ registered' = "none"
  /\ IF mPreviewRunning /\ app.holder
     THEN StopPreview /\ pc' = "blob_start" /\ UNCHANGED todo
     ELSE Return /\ UNCHANGED <<mPreviewRunning, blob>>
  /\ UNCHANGED <<usable, mLastGoodParameters, capture, isp, app>>

SameDisplay ==
  /\ Calling("display") /\ pc = "next" /\ mSurface = AppSurface
  /\ Return
  /\ UNCHANGED <<wrapper, hardware, service, app>>

\* The application's call of startPreview() succeeded.
Previewing == [app EXCEPT !.mStartPreviewFail = FALSE, !.mPreviewing = TRUE,
                          !.dropped = FALSE]

\* startPreviewMode(): nothing to do when previewEnabled().
StartSkipped ==
  /\ Calling("start") /\ pc = "next" /\ mPreviewRunning
  /\ app' = Previewing
  /\ Return
  /\ UNCHANGED <<wrapper, hardware, service>>

StartPreview ==
  /\ Calling("start") /\ pc = "next" /\ ~mPreviewRunning
  /\ pc' = "blob_start"
  /\ UNCHANGED <<wrapper, hardware, service, todo, app>>

\* Every start from rest allocates a heap of the size then set.
BlobStarts ==
  /\ pc \in {"blob_start", "retry"} /\ isp # "busy" /\ capture # "exposing"
  /\ blob' = IF blob.running THEN blob
             ELSE [blob EXCEPT !.running = TRUE, !.heap = "fresh", !.heapSize = blob.size]
  /\ registered' = IF blob.running THEN registered ELSE "none"
  /\ isp' = "ours"
  /\ pc' = "started"
  /\ UNCHANGED <<wrapper, capture, mSurface, todo, app>>

BlobRefuses == isp = "busy" \/ capture # "none"

\* startPreview() tries again after 250 ms, in which the blob's thread and the
\* image processor go on, unless the blob answered INVALID_OPERATION.
StartRetried ==
  /\ pc = "blob_start" /\ BlobRefuses
  /\ pc' = "retry"
  /\ UNCHANGED <<wrapper, hardware, service, todo, app>>

\* Mutant: a start that failed is not tried again.
GiveUp ==
  /\ pc \in {"blob_start", "retry"} /\ BlobRefuses
  /\ pc' = "next"
  /\ IF Calling("display")
     THEN todo' = Tail(todo) /\ UNCHANGED app
     ELSE /\ todo' = <<"disconnect">>
          /\ app' = [app EXCEPT !.mStartPreviewFail = TRUE, !.mPreviewing = FALSE]
  /\ UNCHANGED <<wrapper, hardware, service>>

\* setPreviewDisplay() drops the error; for startPreview() the application
\* closes the camera and sends itself RESTART_PREVIEW.
StartFails ==
  /\ pc \in {"blob_start", "retry"} /\ BlobRefuses
  /\ pc' = "next"
  /\ IF Calling("display")
     THEN todo' = Tail(todo) /\ UNCHANGED app
     ELSE /\ todo' = <<"disconnect">>
          /\ app' = [app EXCEPT !.mStartPreviewFail = TRUE, !.mPreviewing = FALSE,
                                !.restartMsg = TRUE]
  /\ UNCHANGED <<wrapper, hardware, service>>

SetRunning ==
  /\ pc = "started"
  /\ mPreviewRunning' = TRUE
  /\ pc' = "register"
  /\ UNCHANGED <<usable, mLastGoodParameters, hardware, service, todo, app>>

\* SurfaceFlinger maps a heap once; with the preview's size from getParameters().
Mapped ==
  /\ blob.heap = "fresh"
  /\ registered' = mLastGoodParameters
  /\ blob' = [blob EXCEPT !.heap = "mapped"]

\* A heap it has mapped before cannot be mapped again, and of this hardware's
\* pmem_adsp memory a fresh one may be refused too (-ENODEV).
NotMapped ==
  /\ registered' = "none"
  /\ blob' = [blob EXCEPT !.heap = IF @ = "fresh" THEN "refused" ELSE @]

NoSurface == mSurface # "current" /\ UNCHANGED <<registered, blob>>

\* registerPreviewBuffers(), whose failure is dropped.
Register ==
  /\ pc = "register"
  /\ (mSurface = "current" /\ (Mapped \/ NotMapped)) \/ NoSurface
  /\ app' = IF Calling("start") THEN Previewing ELSE app
  /\ Return
  /\ UNCHANGED <<wrapper, capture, isp, mSurface>>

\* takePicture(): the blob stops its preview by itself, and the surface is
\* unregistered at the shutter; on an error the application dies.
TakePicture ==
  /\ Calling("take") /\ pc = "next"
  /\ IF blob.running
     THEN /\ capture' = "exposing"
          /\ blob' = Stopped
          /\ registered' = "none"
          /\ app' = [app EXCEPT !.mPreviewing = FALSE]
          /\ Return
     ELSE /\ app' = NewActivity
          /\ todo' = <<"disconnect">>
          /\ UNCHANGED <<blob, capture, registered, pc>>
  /\ UNCHANGED <<wrapper, isp, mSurface>>

\* disconnect(): messages off, stopPreview(), cancelPicture() ...
Disconnect ==
  /\ Calling("disconnect") /\ pc = "next"
  /\ StopPreview
  /\ capture' = IF capture = "exposing" THEN "none" ELSE capture
  /\ pc' = "release"
  /\ UNCHANGED <<usable, mLastGoodParameters, isp, service, todo, app>>

\* ... and release(), in which the blob waits for its callback to return.
\* The image processor it used may take a while to be free again.
Release ==
  /\ pc = "release" /\ capture # "jpeg"
  /\ usable' = FALSE
  /\ mPreviewRunning' = FALSE
  /\ blob' = BlobOff
  /\ isp' \in IF isp = "ours" THEN {"busy", "free"} ELSE {isp}
  /\ registered' = "none"
  /\ Return
  /\ UNCHANGED <<mLastGoodParameters, capture, mSurface, app>>

-----------------------------------------------------------------------------
(* The blob's thread.                                                      *)

\* Mutant: the shim leaves the flag to the next call.
ForwardOnly ==
  /\ capture = "exposing"
  /\ capture' = "jpeg"
  /\ UNCHANGED <<wrapper, blob, isp, service, todo, pc, app>>

\* dataCallbackShim() with COMPRESSED_IMAGE.
DataCallbackShim ==
  /\ capture = "exposing"
  /\ capture' = "jpeg"
  /\ mPreviewRunning' = FALSE
  /\ UNCHANGED <<usable, mLastGoodParameters, blob, isp, service, todo, pc, app>>

\* CameraService takes the picture when it gets Client::mLock, or drops it
\* once disconnect() has turned the messages off.
Forward ==
  /\ capture = "jpeg" /\ pc \in {"next", "release"}
  /\ capture' = "none"
  /\ app' = [app EXCEPT !.jpegMsg = @ \/ pc = "next"]
  /\ UNCHANGED <<wrapper, blob, isp, service, todo, pc>>

IspFreed ==
  /\ isp = "busy"
  /\ isp' = "free"
  /\ UNCHANGED <<wrapper, blob, capture, service, todo, pc, app>>

-----------------------------------------------------------------------------
(* The application's message loop.                                         *)

When(condition, calls) == IF condition THEN calls ELSE <<>>

\* startPreview() of the activity.
RestartPreview ==
  IF usable
  THEN IF app.mPreviewing THEN <<"stop", "display", "params", "start">>
       ELSE <<"display", "params", "start">>
  ELSE IF app.mPreviewing THEN <<"open", "stop", "display", "params", "start">>
       ELSE <<"open", "display", "params", "start">>

InLoop == todo = <<>> /\ UNCHANGED <<wrapper, hardware, service, pc>>

Resume ==
  /\ InLoop /\ app.paused
  /\ app' = [app EXCEPT !.paused = FALSE]
  /\ todo' = When(~app.mPreviewing /\ ~app.mStartPreviewFail /\ app.holder, RestartPreview)

\* onPause() also removes RESTART_PREVIEW.
Pause ==
  /\ InLoop /\ ~app.paused
  /\ app' = [app EXCEPT !.paused = TRUE, !.restartMsg = FALSE, !.mPreviewing = FALSE,
                        !.dropped = @ \/ app.restartMsg]
  /\ todo' = When(usable, IF app.mPreviewing THEN <<"stop", "disconnect">>
                          ELSE <<"disconnect">>)

\* surfaceChanged() of a new surface ...
SurfaceCreated ==
  /\ InLoop /\ ~app.holder
  /\ app' = [app EXCEPT !.holder = TRUE]
  /\ todo' = When(~app.paused,
               IF usable /\ app.mPreviewing THEN <<"display">> ELSE RestartPreview)

\* ... and of one that is there already.
SurfaceChanged ==
  /\ InLoop /\ app.holder /\ ~app.paused /\ ~app.mPreviewing
  /\ todo' = RestartPreview
  /\ UNCHANGED app

SurfaceDestroyed ==
  /\ todo = <<>> /\ app.holder
  /\ app' = [app EXCEPT !.holder = FALSE, !.mPreviewing = FALSE]
  /\ mSurface' = IF mSurface = "current" THEN "old" ELSE mSurface
  /\ registered' = "none"
  /\ todo' = When(usable /\ app.mPreviewing, <<"stop">>)
  /\ UNCHANGED <<wrapper, hardware, pc>>

ChangeSettings ==
  /\ InLoop /\ ~app.paused /\ app.mPreviewing
  /\ todo' = <<"params">>
  /\ UNCHANGED app

Snap ==
  /\ InLoop /\ ~app.paused /\ app.mPreviewing
  /\ todo' = <<"take">>
  /\ UNCHANGED app

\* RESTART_PREVIEW, 500 ms after a start that failed.
RestartMessage ==
  /\ InLoop /\ app.restartMsg
  /\ app' = [app EXCEPT !.restartMsg = FALSE]
  /\ todo' = RestartPreview

\* onPictureTaken(): the preview is started again.
PictureTaken ==
  /\ InLoop /\ app.jpegMsg
  /\ app' = [app EXCEPT !.jpegMsg = FALSE]
  /\ todo' = When(~app.paused, RestartPreview)

-----------------------------------------------------------------------------

Binder == \/ Open \/ ClientStopPreview \/ SetPreviewDisplay \/ SameDisplay
          \/ SetParameters \/ StartSkipped \/ StartPreview \/ BlobStarts
          \/ StartRetried \/ StartFails \/ SetRunning \/ Register \/ TakePicture
          \/ Disconnect \/ Release

BlobThread == DataCallbackShim \/ Forward \/ IspFreed

User == Resume \/ Pause \/ SurfaceCreated \/ SurfaceChanged \/ SurfaceDestroyed
        \/ ChangeSettings \/ Snap

Messages == RestartMessage \/ PictureTaken

Next == Binder \/ BlobThread \/ User \/ Messages

Spec == Init /\ [][Next]_vars

\* A call that was made goes on, the blob delivers what it has begun, the image
\* processor becomes free, and messages are not starved by the user.
Fairness == WF_vars(Binder) /\ WF_vars(DataCallbackShim) /\ SF_vars(Forward)
            /\ WF_vars(IspFreed) /\ SF_vars(RestartMessage) /\ SF_vars(PictureTaken)

FairSpec == Spec /\ Fairness

-----------------------------------------------------------------------------
(* Properties.                                                             *)

\* No call is being made, and no picture is on its way.
Quiet == todo = <<>> /\ capture = "none" /\ ~app.jpegMsg

\* stopPreview() and startPreview() are skipped on the strength of
\* mPreviewRunning, which the blob's thread clears without a lock: whenever
\* things are quiet, the flag says what the blob does.
FlagFollowsBlob == Quiet => (mPreviewRunning <=> blob.running)

\* "the camera service allocates matching-size buffers for registerBuffers":
\* what is shown has the size of the heap it lies in, though sizes change while
\* a preview runs and the blob allocates when it starts.
BuffersFit == registered # "none" => registered = blob.heapSize

\* A heap can be mapped once, so a preview that was started for another surface,
\* or not stopped, stays black: an activity that believes it previews shows it,
\* unless the hardware refused the heap of this very start.
BelievesItShows == Quiet /\ app.mPreviewing /\ app.holder

PreviewIsShown ==
  BelievesItShows => registered # "none" \/ (blob.running /\ blob.heap = "refused")

\* "una instancia nueva con fd fresco -> registerBuffers del primer mmap tiene
\* exito": after a start that succeeded the preview is shown.  The code does not
\* keep this where the hardware refuses a fresh heap.
FreshHeapIsShown == BelievesItShows => registered # "none"

\* A start that fails is tried again until there is a preview: an activity on
\* the screen with a surface shows it in the end, unless a pause threw the
\* RESTART_PREVIEW message away or the hardware refused the heap it got, which
\* nothing tries again.
OnScreen == ~app.paused /\ app.holder /\ ~app.dropped

PreviewReturns ==
  OnScreen ~> ~OnScreen \/ registered # "none" \/ blob.heap = "refused"
=============================================================================
