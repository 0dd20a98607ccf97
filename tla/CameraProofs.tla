---------------------------- MODULE CameraProofs -----------------------------
(***************************************************************************)
(* Proofs about CameraWrapper: type correctness, that the wrapper's flag   *)
(* and the blob agree whenever things are quiet, that what is shown fits   *)
(* the heap, and that a preview the activity believes in is shown unless   *)
(* the hardware refused its heap.                                          *)
(***************************************************************************)
EXTENDS CameraWrapper, SequenceTheorems, TLAPS

-----------------------------------------------------------------------------
(* The calls the application's thread has still to make.                   *)

Shows == {<<"display", "params", "start">>,
          <<"stop", "display", "params", "start">>,
          <<"open", "display", "params", "start">>,
          <<"open", "stop", "display", "params", "start">>}

Others == {<<>>, <<"disconnect">>, <<"stop", "disconnect">>, <<"stop">>, <<"display">>,
           <<"params">>, <<"take">>}

LEMMA RestartShows == RestartPreview \in Shows
  BY DEF RestartPreview, Shows

\* Any list of calls that is begun has the type of todo.
LEMMA ListType == ASSUME NEW s \in Shows \cup Others
                  PROVE  s \in Seq(Call) /\ Len(s) <= 6
<1>1. CASE s = <<"display", "params", "start">> BY <1>1 DEF Call
<1>2. CASE s = <<"stop", "display", "params", "start">> BY <1>2 DEF Call
<1>3. CASE s = <<"open", "display", "params", "start">> BY <1>3 DEF Call
<1>4. CASE s = <<"open", "stop", "display", "params", "start">> BY <1>4 DEF Call
<1>5. CASE s = <<"stop", "disconnect">> BY <1>5 DEF Call
<1>6. CASE s = <<>> BY <1>6
<1>7. CASE s = <<"disconnect">> BY <1>7 DEF Call
<1>8. CASE s = <<"stop">> BY <1>8 DEF Call
<1>9. CASE s = <<"display">> BY <1>9 DEF Call
<1>10. CASE s = <<"params">> BY <1>10 DEF Call
<1>11. CASE s = <<"take">> BY <1>11 DEF Call
<1> QED BY <1>1, <1>2, <1>3, <1>4, <1>5, <1>6, <1>7, <1>8, <1>9, <1>10, <1>11
           DEF Shows, Others

LEMMA TailType == ASSUME NEW s \in Seq(Call), s # <<>>, Len(s) <= 6
                  PROVE  Tail(s) \in Seq(Call) /\ Len(Tail(s)) <= 6
  OBVIOUS

\* How todo changes: not at all, by the return of its first call, or to a list
\* that is begun.
TodoStep == \/ todo' = todo
            \/ todo # <<>> /\ todo' = Tail(todo)
            \/ todo' \in Shows \cup Others

LEMMA TodoTyped == ASSUME todo \in Seq(Call) /\ Len(todo) <= 6, TodoStep
                   PROVE  todo' \in Seq(Call) /\ Len(todo') <= 6
  BY ListType, TailType DEF TodoStep

LEMMA TodoSteps == ASSUME [Next]_vars PROVE TodoStep
<1>1. CASE Open
  BY <1>1, RestartShows DEF Open, Calling, Return, TodoStep, Others
<1>2. CASE ClientStopPreview
  BY <1>2, RestartShows DEF ClientStopPreview, Calling, Return, TodoStep, Others
<1>3. CASE SetPreviewDisplay
  BY <1>3, RestartShows DEF SetPreviewDisplay, Calling, Return, TodoStep, Others
<1>4. CASE SameDisplay
  BY <1>4, RestartShows DEF SameDisplay, Calling, Return, TodoStep, Others
<1>5. CASE SetParameters
  BY <1>5, RestartShows DEF SetParameters, Calling, Return, TodoStep, Others
<1>6. CASE StartSkipped
  BY <1>6, RestartShows DEF StartSkipped, Calling, Return, TodoStep, Others
<1>7. CASE StartPreview
  BY <1>7, RestartShows DEF StartPreview, Calling, TodoStep, Others
<1>8. CASE BlobStarts
  BY <1>8, RestartShows DEF BlobStarts, TodoStep, Others
<1>9. CASE StartRetried
  BY <1>9, RestartShows DEF StartRetried, TodoStep, Others
<1>10. CASE StartFails
  BY <1>10, RestartShows DEF StartFails, Calling, TodoStep, Others
<1>11. CASE SetRunning
  BY <1>11, RestartShows DEF SetRunning, TodoStep, Others
<1>12. CASE Register
  BY <1>12, RestartShows DEF Register, Mapped, NotMapped, NoSurface, Calling, Return,
        TodoStep, Others
<1>13. CASE TakePicture
  BY <1>13, RestartShows DEF TakePicture, Calling, Return, TodoStep, Others
<1>14. CASE Disconnect
  BY <1>14, RestartShows DEF Disconnect, Calling, TodoStep, Others
<1>15. CASE Release
  BY <1>15, RestartShows DEF Release, Return, TodoStep, Others
<1>16. CASE DataCallbackShim
  BY <1>16, RestartShows DEF DataCallbackShim, TodoStep, Others
<1>17. CASE Forward
  BY <1>17, RestartShows DEF Forward, TodoStep, Others
<1>18. CASE IspFreed
  BY <1>18, RestartShows DEF IspFreed, TodoStep, Others
<1>19. CASE Resume
  BY <1>19, RestartShows DEF Resume, InLoop, When, TodoStep, Others
<1>20. CASE Pause
  BY <1>20, RestartShows DEF Pause, InLoop, When, TodoStep, Others
<1>21. CASE SurfaceCreated
  BY <1>21, RestartShows DEF SurfaceCreated, InLoop, When, TodoStep, Others
<1>22. CASE SurfaceChanged
  BY <1>22, RestartShows DEF SurfaceChanged, InLoop, TodoStep, Others
<1>23. CASE SurfaceDestroyed
  BY <1>23, RestartShows DEF SurfaceDestroyed, When, TodoStep, Others
<1>24. CASE ChangeSettings
  BY <1>24, RestartShows DEF ChangeSettings, InLoop, TodoStep, Others
<1>25. CASE Snap
  BY <1>25, RestartShows DEF Snap, InLoop, TodoStep, Others
<1>26. CASE RestartMessage
  BY <1>26, RestartShows DEF RestartMessage, InLoop, TodoStep, Others
<1>27. CASE PictureTaken
  BY <1>27, RestartShows DEF PictureTaken, InLoop, When, TodoStep, Others
<1>28. CASE UNCHANGED vars
  BY <1>28, RestartShows DEF vars, TodoStep, Others
<1> QED BY <1>1, <1>2, <1>3, <1>4, <1>5, <1>6, <1>7, <1>8, <1>9, <1>10, <1>11, <1>12,
        <1>13, <1>14, <1>15, <1>16, <1>17, <1>18, <1>19, <1>20, <1>21, <1>22, <1>23,
        <1>24, <1>25, <1>26, <1>27, <1>28
          DEF Next, Binder, BlobThread, User, Messages

-----------------------------------------------------------------------------
(* Type correctness.                                                       *)

AppType == [paused : BOOLEAN, holder : BOOLEAN, mPreviewing : BOOLEAN,
            mStartPreviewFail : BOOLEAN, restartMsg : BOOLEAN, jpegMsg : BOOLEAN,
            dropped : BOOLEAN]

BlobType == [running : BOOLEAN, size : BlobSize, heapSize : BlobSize,
             heap : {NoHeap, "fresh", "mapped", "refused"}]

\* CameraTypeOK without the application, the blob and the list of calls.
RestType ==
  /\ usable \in BOOLEAN /\ mPreviewRunning \in BOOLEAN
  /\ mLastGoodParameters \in Size
  /\ capture \in {"none", "exposing", "jpeg"}
  /\ isp \in {"free", "ours", "busy"}
  /\ mSurface \in {"none", "current", "old"}
  /\ registered \in Size \cup {"none"}
  /\ pc \in {"next", "blob_start", "retry", "started", "register", "release"}

LEMMA PreviewingTyped == ASSUME app \in AppType PROVE Previewing \in AppType
  BY DEF Previewing, AppType

LEMMA NewActivityTyped == NewActivity \in AppType
  BY DEF NewActivity, AppType

LEMMA AppTypeStep == ASSUME app \in AppType, [Next]_vars PROVE app' \in AppType
<1>1. CASE Open
  BY <1>1 DEF Open, Calling, AppType
<1>2. CASE ClientStopPreview
  BY <1>2 DEF ClientStopPreview, Calling, AppType
<1>3. CASE SetPreviewDisplay
  BY <1>3 DEF SetPreviewDisplay, Calling, AppType
<1>4. CASE SameDisplay
  BY <1>4 DEF SameDisplay, Calling, AppType
<1>5. CASE SetParameters
  BY <1>5 DEF SetParameters, Calling, AppType
<1>6. CASE StartSkipped
  BY <1>6, PreviewingTyped DEF StartSkipped, Calling, AppType
<1>7. CASE StartPreview
  BY <1>7 DEF StartPreview, Calling, AppType
<1>8. CASE BlobStarts
  BY <1>8 DEF BlobStarts, AppType
<1>9. CASE StartRetried
  BY <1>9 DEF StartRetried, AppType
<1>10. CASE StartFails
  BY <1>10 DEF StartFails, Calling, AppType
<1>11. CASE SetRunning
  BY <1>11 DEF SetRunning, AppType
<1>12. CASE Register
  BY <1>12, PreviewingTyped DEF Register, Mapped, NotMapped, NoSurface, Calling, AppType
<1>13. CASE TakePicture
  BY <1>13, NewActivityTyped DEF TakePicture, Calling, AppType
<1>14. CASE Disconnect
  BY <1>14 DEF Disconnect, Calling, AppType
<1>15. CASE Release
  BY <1>15 DEF Release, AppType
<1>16. CASE DataCallbackShim
  BY <1>16 DEF DataCallbackShim, AppType
<1>17. CASE Forward
  BY <1>17 DEF Forward, AppType
<1>18. CASE IspFreed
  BY <1>18 DEF IspFreed, AppType
<1>19. CASE Resume
  BY <1>19 DEF Resume, AppType
<1>20. CASE Pause
  BY <1>20 DEF Pause, AppType
<1>21. CASE SurfaceCreated
  BY <1>21 DEF SurfaceCreated, AppType
<1>22. CASE SurfaceChanged
  BY <1>22 DEF SurfaceChanged, AppType
<1>23. CASE SurfaceDestroyed
  BY <1>23 DEF SurfaceDestroyed, AppType
<1>24. CASE ChangeSettings
  BY <1>24 DEF ChangeSettings, AppType
<1>25. CASE Snap
  BY <1>25 DEF Snap, AppType
<1>26. CASE RestartMessage
  BY <1>26 DEF RestartMessage, AppType
<1>27. CASE PictureTaken
  BY <1>27 DEF PictureTaken, AppType
<1>28. CASE UNCHANGED vars
  BY <1>28 DEF vars, AppType
<1> QED BY <1>1, <1>2, <1>3, <1>4, <1>5, <1>6, <1>7, <1>8, <1>9, <1>10, <1>11, <1>12,
        <1>13, <1>14, <1>15, <1>16, <1>17, <1>18, <1>19, <1>20, <1>21, <1>22, <1>23,
        <1>24, <1>25, <1>26, <1>27, <1>28
          DEF Next, Binder, BlobThread, User, Messages

LEMMA BlobTypeStep == ASSUME blob \in BlobType, [Next]_vars PROVE blob' \in BlobType
<1>1. CASE Open
  BY <1>1 DEF Open, hardware, BlobType, Size, BlobSize, Seed, NoHeap
<1>2. CASE ClientStopPreview
  BY <1>2 DEF ClientStopPreview, StopPreview, Stopped, BlobType, Size, BlobSize, Seed,
        NoHeap
<1>3. CASE SetPreviewDisplay
  BY <1>3 DEF SetPreviewDisplay, StopPreview, Stopped, BlobType, Size, BlobSize, Seed,
        NoHeap
<1>4. CASE SameDisplay
  BY <1>4 DEF SameDisplay, hardware, BlobType, Size, BlobSize, Seed, NoHeap
<1>5. CASE SetParameters
  BY <1>5 DEF SetParameters, Known, AppSize, BlobType, Size, BlobSize, Seed, NoHeap
<1>6. CASE StartSkipped
  BY <1>6 DEF StartSkipped, hardware, BlobType, Size, BlobSize, Seed, NoHeap
<1>7. CASE StartPreview
  BY <1>7 DEF StartPreview, hardware, BlobType, Size, BlobSize, Seed, NoHeap
<1>8. CASE BlobStarts
  BY <1>8 DEF BlobStarts, BlobType, Size, BlobSize, Seed, NoHeap
<1>9. CASE StartRetried
  BY <1>9 DEF StartRetried, hardware, BlobType, Size, BlobSize, Seed, NoHeap
<1>10. CASE StartFails
  BY <1>10 DEF StartFails, hardware, BlobType, Size, BlobSize, Seed, NoHeap
<1>11. CASE SetRunning
  BY <1>11 DEF SetRunning, hardware, BlobType, Size, BlobSize, Seed, NoHeap
<1>12. CASE Register
  BY <1>12 DEF Register, Mapped, NotMapped, NoSurface, BlobType,
        Size, BlobSize, Seed, NoHeap
<1>13. CASE TakePicture
  BY <1>13 DEF TakePicture, Stopped, BlobType, Size, BlobSize, Seed, NoHeap
<1>14. CASE Disconnect
  BY <1>14 DEF Disconnect, StopPreview, Stopped, BlobType, Size, BlobSize, Seed, NoHeap
<1>15. CASE Release
  BY <1>15 DEF Release, BlobOff, BlobType, Size, BlobSize, Seed, NoHeap
<1>16. CASE DataCallbackShim
  BY <1>16 DEF DataCallbackShim, BlobType, Size, BlobSize, Seed, NoHeap
<1>17. CASE Forward
  BY <1>17 DEF Forward, BlobType, Size, BlobSize, Seed, NoHeap
<1>18. CASE IspFreed
  BY <1>18 DEF IspFreed, BlobType, Size, BlobSize, Seed, NoHeap
<1>19. CASE Resume
  BY <1>19 DEF Resume, InLoop, hardware, BlobType, Size, BlobSize, Seed, NoHeap
<1>20. CASE Pause
  BY <1>20 DEF Pause, InLoop, hardware, BlobType, Size, BlobSize, Seed, NoHeap
<1>21. CASE SurfaceCreated
  BY <1>21 DEF SurfaceCreated, InLoop, hardware, BlobType, Size, BlobSize, Seed, NoHeap
<1>22. CASE SurfaceChanged
  BY <1>22 DEF SurfaceChanged, InLoop, hardware, BlobType, Size, BlobSize, Seed, NoHeap
<1>23. CASE SurfaceDestroyed
  BY <1>23 DEF SurfaceDestroyed, hardware, BlobType, Size, BlobSize, Seed, NoHeap
<1>24. CASE ChangeSettings
  BY <1>24 DEF ChangeSettings, InLoop, hardware, BlobType, Size, BlobSize, Seed, NoHeap
<1>25. CASE Snap
  BY <1>25 DEF Snap, InLoop, hardware, BlobType, Size, BlobSize, Seed, NoHeap
<1>26. CASE RestartMessage
  BY <1>26 DEF RestartMessage, InLoop, hardware, BlobType, Size, BlobSize, Seed, NoHeap
<1>27. CASE PictureTaken
  BY <1>27 DEF PictureTaken, InLoop, hardware, BlobType, Size, BlobSize, Seed, NoHeap
<1>28. CASE UNCHANGED vars
  BY <1>28 DEF vars, hardware, BlobType, Size, BlobSize, Seed, NoHeap
<1> QED BY <1>1, <1>2, <1>3, <1>4, <1>5, <1>6, <1>7, <1>8, <1>9, <1>10, <1>11, <1>12,
        <1>13, <1>14, <1>15, <1>16, <1>17, <1>18, <1>19, <1>20, <1>21, <1>22, <1>23,
        <1>24, <1>25, <1>26, <1>27, <1>28
          DEF Next, Binder, BlobThread, User, Messages

LEMMA RestTypeStep == ASSUME RestType, [Next]_vars PROVE RestType'
<1>1. CASE Open
  BY <1>1 DEF Open, Calling, Return, hardware, RestType, Size, Seed
<1>2. CASE ClientStopPreview
  BY <1>2 DEF ClientStopPreview, Calling, Return, StopPreview, RestType, Size, Seed
<1>3. CASE SetPreviewDisplay
  BY <1>3 DEF SetPreviewDisplay, Calling, Return, StopPreview, AppSurface, RestType, Size,
        Seed
<1>4. CASE SameDisplay
  BY <1>4 DEF SameDisplay, Calling, Return, wrapper, hardware, service, RestType, Size,
        Seed
<1>5. CASE SetParameters
  BY <1>5 DEF SetParameters, Calling, Return, service, Cached, Known, AppSize, RestType,
        Size, Seed
<1>6. CASE StartSkipped
  BY <1>6 DEF StartSkipped, Calling, Return, wrapper, hardware, service, RestType, Size,
        Seed
<1>7. CASE StartPreview
  BY <1>7 DEF StartPreview, Calling, wrapper, hardware, service, RestType, Size, Seed
<1>8. CASE BlobStarts
  BY <1>8 DEF BlobStarts, wrapper, RestType, Size, Seed
<1>9. CASE StartRetried
  BY <1>9 DEF StartRetried, wrapper, hardware, service, RestType, Size, Seed
<1>10. CASE StartFails
  BY <1>10 DEF StartFails, Calling, wrapper, hardware, service, RestType, Size, Seed
<1>11. CASE SetRunning
  BY <1>11 DEF SetRunning, hardware, service, RestType, Size, Seed
<1>12. CASE Register
  BY <1>12 DEF Register, Mapped, NotMapped, NoSurface, Calling, Return,
        wrapper, RestType, Size, Seed
<1>13. CASE TakePicture
  BY <1>13 DEF TakePicture, Calling, Return, wrapper, RestType, Size, Seed
<1>14. CASE Disconnect
  BY <1>14 DEF Disconnect, Calling, StopPreview, service, RestType, Size, Seed
<1>15. CASE Release
  BY <1>15 DEF Release, Return, RestType, Size, Seed
<1>16. CASE DataCallbackShim
  BY <1>16 DEF DataCallbackShim, service, RestType, Size, Seed
<1>17. CASE Forward
  BY <1>17 DEF Forward, wrapper, service, RestType, Size, Seed
<1>18. CASE IspFreed
  BY <1>18 DEF IspFreed, wrapper, service, RestType, Size, Seed
<1>19. CASE Resume
  BY <1>19 DEF Resume, InLoop, wrapper, hardware, service, RestType, Size, Seed
<1>20. CASE Pause
  BY <1>20 DEF Pause, InLoop, wrapper, hardware, service, RestType, Size, Seed
<1>21. CASE SurfaceCreated
  BY <1>21 DEF SurfaceCreated, InLoop, wrapper, hardware, service, RestType, Size, Seed
<1>22. CASE SurfaceChanged
  BY <1>22 DEF SurfaceChanged, InLoop, wrapper, hardware, service, RestType, Size, Seed
<1>23. CASE SurfaceDestroyed
  BY <1>23 DEF SurfaceDestroyed, wrapper, hardware, RestType, Size, Seed
<1>24. CASE ChangeSettings
  BY <1>24 DEF ChangeSettings, InLoop, wrapper, hardware, service, RestType, Size, Seed
<1>25. CASE Snap
  BY <1>25 DEF Snap, InLoop, wrapper, hardware, service, RestType, Size, Seed
<1>26. CASE RestartMessage
  BY <1>26 DEF RestartMessage, InLoop, wrapper, hardware, service, RestType, Size, Seed
<1>27. CASE PictureTaken
  BY <1>27 DEF PictureTaken, InLoop, wrapper, hardware, service, RestType, Size, Seed
<1>28. CASE UNCHANGED vars
  BY <1>28 DEF vars, wrapper, hardware, service, RestType, Size, Seed
<1> QED BY <1>1, <1>2, <1>3, <1>4, <1>5, <1>6, <1>7, <1>8, <1>9, <1>10, <1>11, <1>12,
        <1>13, <1>14, <1>15, <1>16, <1>17, <1>18, <1>19, <1>20, <1>21, <1>22, <1>23,
        <1>24, <1>25, <1>26, <1>27, <1>28
          DEF Next, Binder, BlobThread, User, Messages

LEMMA InitTyped == Init => CameraTypeOK
<1> SUFFICES ASSUME Init PROVE CameraTypeOK
  OBVIOUS
<1>1. app \in AppType
  BY DEF Init, NewActivity, AppType
<1>2. blob \in BlobType
  BY DEF Init, BlobOff, BlobType, BlobSize, Size, Seed, NoHeap
<1>3. RestType
  BY DEF Init, RestType, Size, Seed
<1> QED BY <1>1, <1>2, <1>3, ListType DEF Init, CameraTypeOK, AppType, BlobType, RestType, Others

LEMMA TypeStep == ASSUME CameraTypeOK, [Next]_vars PROVE CameraTypeOK'
<1>1. app' \in AppType /\ blob' \in BlobType /\ RestType'
  BY AppTypeStep, BlobTypeStep, RestTypeStep DEF CameraTypeOK, AppType, BlobType, RestType
<1>2. todo' \in Seq(Call) /\ Len(todo') <= 6
  BY TodoSteps, TodoTyped DEF CameraTypeOK
<1> QED BY <1>1, <1>2 DEF CameraTypeOK, AppType, BlobType, RestType

\* Every state of the camera is well typed, the application's list of calls
\* included, whatever the blob accepts and with either way of setting parameters.
THEOREM CameraTypeCorrect == Spec => []CameraTypeOK
<1> QED BY InitTyped, TypeStep, PTL DEF Spec

-----------------------------------------------------------------------------
(* The calls come in the order the application begins them.                *)

\* An instance is opened first, disconnected last, and not started in between.
ListOK(s) ==
  \A i \in 1..Len(s) :
    /\ s[i] = "open" => i = 1
    /\ s[i] = "disconnect" => i = Len(s) /\ \A j \in 1..Len(s) : s[j] # "start"

\* Lists without a call of disconnect().
Going == Shows \cup {<<>>, <<"stop">>, <<"display">>, <<"params">>, <<"take">>}

LEMMA ShowsOK == ASSUME NEW s \in Shows
                 PROVE  ListOK(s) /\ s # <<>> /\ \A i \in 1..Len(s) : s[i] # "disconnect"
<1>1. CASE s = <<"display", "params", "start">> BY <1>1 DEF ListOK
<1>2. CASE s = <<"stop", "display", "params", "start">> BY <1>2 DEF ListOK
<1>3. CASE s = <<"open", "display", "params", "start">> BY <1>3 DEF ListOK
<1>4. CASE s = <<"open", "stop", "display", "params", "start">> BY <1>4 DEF ListOK
<1> QED BY <1>1, <1>2, <1>3, <1>4 DEF Shows

LEMMA OthersOK == ASSUME NEW s \in Others
                  PROVE  ListOK(s) /\ (s # <<>> => Head(s) # "open")
<1>1. CASE s = <<>> BY <1>1 DEF ListOK
<1>2. CASE s = <<"disconnect">> BY <1>2 DEF ListOK
<1>3. CASE s = <<"stop", "disconnect">> BY <1>3 DEF ListOK
<1>4. CASE s = <<"stop">> BY <1>4 DEF ListOK
<1>5. CASE s = <<"display">> BY <1>5 DEF ListOK
<1>6. CASE s = <<"params">> BY <1>6 DEF ListOK
<1>7. CASE s = <<"take">> BY <1>7 DEF ListOK
<1> QED BY <1>1, <1>2, <1>3, <1>4, <1>5, <1>6, <1>7 DEF Others

LEMMA GoingOK == ASSUME NEW s \in Going
                 PROVE  \A i \in 1..Len(s) : s[i] # "disconnect"
<1>1. CASE s \in Shows BY <1>1, ShowsOK
<1>2. CASE s = <<>> BY <1>2
<1>3. CASE s = <<"stop">> BY <1>3
<1>4. CASE s = <<"display">> BY <1>4
<1>5. CASE s = <<"params">> BY <1>5
<1>6. CASE s = <<"take">> BY <1>6
<1> QED BY <1>1, <1>2, <1>3, <1>4, <1>5, <1>6 DEF Going

LEMMA RestartOpens ==
  ASSUME usable \in BOOLEAN, app \in AppType
  PROVE  RestartPreview # <<>> /\ (Head(RestartPreview) = "open" <=> ~usable)
<1>1. CASE usable BY <1>1 DEF RestartPreview
<1>2. CASE ~usable BY <1>2 DEF RestartPreview
<1> QED BY <1>1, <1>2

LEMMA TailOK ==
  ASSUME NEW s \in Seq(Call), s # <<>>, ListOK(s)
  PROVE  /\ ListOK(Tail(s))
         /\ Tail(s) # <<>> => Head(Tail(s)) # "open"
         /\ Head(s) = "disconnect" => Tail(s) = <<>>
         /\ Head(s) = "start" => \A i \in 1..Len(s) : s[i] # "disconnect"
         /\ (\A i \in 1..Len(s) : s[i] # "disconnect")
            => \A i \in 1..Len(Tail(s)) : Tail(s)[i] # "disconnect"
<1>1. /\ Tail(s) \in Seq(Call) /\ Len(Tail(s)) = Len(s) - 1 /\ Len(s) \in Nat \ {0}
      /\ s[1] = Head(s) /\ 1 \in 1..Len(s)
  OBVIOUS
<1>2. \A i \in 1..Len(Tail(s)) : Tail(s)[i] = s[i + 1]
  OBVIOUS
<1>3. \A i \in 1..Len(Tail(s)) : i + 1 \in 1..Len(s) /\ i + 1 # 1
  BY <1>1
<1>4. ASSUME NEW i \in 1..Len(Tail(s)) PROVE Tail(s)[i] # "open"
  BY <1>2, <1>3 DEF ListOK
<1>5. ASSUME NEW i \in 1..Len(Tail(s)), Tail(s)[i] = "disconnect"
      PROVE  i = Len(Tail(s)) /\ \A j \in 1..Len(Tail(s)) : Tail(s)[j] # "start"
  <2>1. s[i + 1] = "disconnect"
    BY <1>2, <1>5
  <2>2. i + 1 = Len(s) /\ \A j \in 1..Len(s) : s[j] # "start"
    BY <2>1, <1>3 DEF ListOK
  <2> QED BY <2>2, <1>1, <1>2, <1>3
<1>6. ASSUME Tail(s) # <<>> PROVE Head(Tail(s)) # "open"
  <2>1. Len(Tail(s)) # 0
    BY <1>1, <1>6, EmptySeq
  <2>2. Head(Tail(s)) = Tail(s)[1] /\ 1 \in 1..Len(Tail(s))
    BY <1>1, <2>1
  <2> QED BY <2>2, <1>4
<1>7. ASSUME Head(s) = "disconnect" PROVE Tail(s) = <<>>
  <2>1. Len(s) = 1
    BY <1>1, <1>7 DEF ListOK
  <2>2. Len(Tail(s)) = 0
    BY <2>1, <1>1
  <2> QED BY <2>2, <1>1, EmptySeq
<1>8. ASSUME Head(s) = "start" PROVE \A i \in 1..Len(s) : s[i] # "disconnect"
  BY <1>1, <1>8 DEF ListOK
<1> QED BY <1>2, <1>3, <1>4, <1>5, <1>6, <1>7, <1>8 DEF ListOK

\* The first call is open() exactly when no instance is open, only an open
\* instance is inside a call or previewed, and what is disconnected is not.
CallsInv ==
  /\ ListOK(todo)
  /\ todo # <<>> => (Head(todo) = "open" <=> ~usable)
  /\ pc # "next" => todo # <<>> /\ usable
  /\ pc = "release" => Head(todo) = "disconnect"
  /\ pc \notin {"next", "release"} => Head(todo) \in {"display", "start"}
  /\ app.mPreviewing => usable
  /\ app.mPreviewing => \A i \in 1..Len(todo) : todo[i] # "disconnect"

\* Within the call at hand: todo and usable stay.
LEMMA CallsStay ==
  ASSUME CallsInv, UNCHANGED <<todo, usable>>, app'.mPreviewing => app.mPreviewing,
         pc' # "next" => todo # <<>> /\ usable,
         pc' = "release" => Head(todo) = "disconnect",
         pc' \notin {"next", "release"} => Head(todo) \in {"display", "start"}
  PROVE  CallsInv'
  BY DEF CallsInv

\* The return of a call.
LEMMA CallsReturn ==
  ASSUME CameraTypeOK, CallsInv, Return, todo # <<>>,
         usable' = (Head(todo) # "disconnect"),
         app'.mPreviewing => app.mPreviewing \/ Head(todo) = "start"
  PROVE  CallsInv'
<1>1. todo \in Seq(Call) /\ ListOK(todo)
  BY DEF CameraTypeOK, CallsInv
<1>2. todo' = Tail(todo) /\ pc' = "next"
  BY DEF Return
<1>3. /\ ListOK(todo')
      /\ todo' # <<>> => Head(todo') # "open"
      /\ Head(todo) = "disconnect" => todo' = <<>>
  BY <1>1, <1>2, TailOK
<1>4. ASSUME app'.mPreviewing
      PROVE  usable' /\ \A i \in 1..Len(todo') : todo'[i] # "disconnect"
  <2>1. \A i \in 1..Len(todo) : todo[i] # "disconnect"
    BY <1>1, <1>4, TailOK DEF CallsInv
  <2>2. Head(todo) # "disconnect"
    BY <1>1, <2>1
  <2> QED BY <1>1, <1>2, <2>1, <2>2, TailOK
<1> QED BY <1>2, <1>3, <1>4 DEF CallsInv

\* The beginning of a list that does not disconnect.
LEMMA CallsGo ==
  ASSUME CallsInv, todo' \in Going, todo' \in Shows \cup Others,
         UNCHANGED usable, pc' = "next", app'.mPreviewing => usable,
         todo' # <<>> => (Head(todo') = "open" <=> ~usable)
  PROVE  CallsInv'
<1>1. ListOK(todo') /\ \A i \in 1..Len(todo') : todo'[i] # "disconnect"
  BY ShowsOK, OthersOK, GoingOK
<1> QED BY <1>1 DEF CallsInv

\* The beginning of one that does.
LEMMA CallsEnd ==
  ASSUME CallsInv, todo' \in Others, UNCHANGED usable, pc' = "next",
         ~app'.mPreviewing, todo' # <<>> => usable
  PROVE  CallsInv'
<1>1. ListOK(todo') /\ (todo' # <<>> => Head(todo') # "open")
  BY OthersOK
<1> QED BY <1>1 DEF CallsInv

LEMMA CallsStep == ASSUME CameraTypeOK, CallsInv, [Next]_vars PROVE CallsInv'
<1>0. /\ todo \in Seq(Call) /\ app \in AppType /\ usable \in BOOLEAN
      /\ pc # "next" => todo # <<>> /\ usable
      /\ todo # <<>> => (Head(todo) = "open" <=> ~usable)
      /\ pc = "release" => Head(todo) = "disconnect"
      /\ pc \notin {"next", "release"} => Head(todo) \in {"display", "start"}
      /\ app.mPreviewing => usable
  BY DEF CameraTypeOK, CallsInv, AppType
<1>1. CASE Open
  BY <1>1, <1>0, CallsReturn DEF Open, Calling, Return, AppType
<1>2. CASE ClientStopPreview
  BY <1>2, <1>0, CallsReturn DEF ClientStopPreview, Calling, Return, AppType
<1>3. CASE SetPreviewDisplay
  BY <1>3, <1>0, CallsReturn, CallsStay DEF SetPreviewDisplay, Calling, Return, AppType
<1>4. CASE SameDisplay
  BY <1>4, <1>0, CallsReturn DEF SameDisplay, Calling, Return, wrapper, AppType
<1>5. CASE SetParameters
  BY <1>5, <1>0, CallsReturn DEF SetParameters, Calling, Return, AppType
<1>6. CASE StartSkipped
  BY <1>6, <1>0, CallsReturn DEF StartSkipped, Calling, Return, Previewing, wrapper,
        AppType
<1>7. CASE StartPreview
  BY <1>7, <1>0, CallsStay DEF StartPreview, Calling, wrapper, AppType
<1>8. CASE BlobStarts
  BY <1>8, <1>0, CallsStay DEF BlobStarts, wrapper, AppType
<1>9. CASE StartRetried
  BY <1>9, <1>0, CallsStay DEF StartRetried, wrapper, AppType
<1>10. CASE StartFails
  <2>1. todo # <<>> /\ usable /\ usable' = usable /\ pc' = "next"
    BY <1>10, <1>0 DEF StartFails, wrapper
  <2>2. CASE Calling("display")
    BY <1>10, <2>1, <2>2, CallsReturn DEF StartFails, Calling, Return
  <2>3. CASE ~Calling("display")
    <3>1. todo' \in Others /\ ~app'.mPreviewing
      BY <1>10, <1>0, <2>3 DEF StartFails, Others, AppType
    <3> QED BY <2>1, <3>1, CallsEnd
  <2> QED BY <2>2, <2>3
<1>11. CASE SetRunning
  BY <1>11, <1>0, CallsStay DEF SetRunning, AppType
<1>12. CASE Register
  <2>1. todo # <<>> /\ Return /\ usable' = usable /\ pc = "register"
    BY <1>12, <1>0 DEF Register, Mapped, NotMapped, NoSurface, wrapper
  <2>2. Head(todo) # "disconnect" /\ usable
    BY <2>1, <1>0
  <2>3. app'.mPreviewing => app.mPreviewing \/ Head(todo) = "start"
    BY <1>12 DEF Register, Mapped, NotMapped, NoSurface, Calling
  <2> QED BY <2>1, <2>2, <2>3, CallsReturn
<1>13. CASE TakePicture
  <2>1. /\ todo # <<>> /\ Head(todo) = "take" /\ pc = "next"
        /\ usable /\ usable' = usable
    BY <1>13, <1>0 DEF TakePicture, Calling, wrapper
  <2>2. CASE blob.running
    <3>1. Return /\ ~app'.mPreviewing
      BY <1>13, <1>0, <2>2 DEF TakePicture, AppType
    <3> QED BY <2>1, <3>1, CallsReturn
  <2>3. CASE ~blob.running
    <3>1. todo' \in Others /\ pc' = "next" /\ ~app'.mPreviewing
      BY <1>13, <2>1, <2>3 DEF TakePicture, Others, NewActivity
    <3> QED BY <2>1, <3>1, CallsEnd
  <2> QED BY <2>2, <2>3
<1>14. CASE Disconnect
  BY <1>14, <1>0, CallsStay DEF Disconnect, Calling, AppType
<1>15. CASE Release
  BY <1>15, <1>0, CallsReturn DEF Release, Return, AppType
<1>16. CASE DataCallbackShim
  BY <1>16, <1>0, CallsStay DEF DataCallbackShim, AppType
<1>17. CASE Forward
  BY <1>17, <1>0, CallsStay DEF Forward, wrapper, AppType
<1>18. CASE IspFreed
  BY <1>18, <1>0, CallsStay DEF IspFreed, wrapper, AppType
<1>19. CASE Resume
  <2>1. UNCHANGED usable /\ pc' = "next" /\ (app'.mPreviewing => usable)
    BY <1>19, <1>0 DEF Resume, InLoop, When, wrapper, AppType
  <2>2. todo' \in Going /\ todo' \in Shows \cup Others
    BY <1>19, RestartShows DEF Resume, InLoop, When, wrapper, AppType, Going, Others
  <2>3. todo' # <<>> => (Head(todo') = "open" <=> ~usable)
    BY <1>19, <1>0, RestartOpens DEF Resume, InLoop, When, wrapper, AppType
  <2> QED BY <2>1, <2>2, <2>3, CallsGo
<1>20. CASE Pause
  <2>1. UNCHANGED usable /\ pc' = "next" /\ ~app'.mPreviewing
    BY <1>20, <1>0 DEF Pause, InLoop, wrapper, AppType
  <2>2. todo' \in Others /\ (todo' # <<>> => usable)
    BY <1>20 DEF Pause, When, Others
  <2> QED BY <2>1, <2>2, CallsEnd
<1>21. CASE SurfaceCreated
  <2>1. UNCHANGED usable /\ pc' = "next" /\ (app'.mPreviewing => usable)
    BY <1>21, <1>0 DEF SurfaceCreated, InLoop, When, wrapper, AppType
  <2>2. todo' \in Going /\ todo' \in Shows \cup Others
    BY <1>21, RestartShows DEF SurfaceCreated, InLoop, When, wrapper, AppType, Going, Others
  <2>3. todo' # <<>> => (Head(todo') = "open" <=> ~usable)
    BY <1>21, <1>0, RestartOpens DEF SurfaceCreated, InLoop, When, wrapper, AppType
  <2> QED BY <2>1, <2>2, <2>3, CallsGo
<1>22. CASE SurfaceChanged
  <2>1. UNCHANGED usable /\ pc' = "next" /\ (app'.mPreviewing => usable)
    BY <1>22, <1>0 DEF SurfaceChanged, InLoop, wrapper, AppType
  <2>2. todo' \in Going /\ todo' \in Shows \cup Others
    BY <1>22, RestartShows DEF SurfaceChanged, InLoop, wrapper, AppType, Going, Others
  <2>3. todo' # <<>> => (Head(todo') = "open" <=> ~usable)
    BY <1>22, <1>0, RestartOpens DEF SurfaceChanged, InLoop, wrapper, AppType
  <2> QED BY <2>1, <2>2, <2>3, CallsGo
<1>23. CASE SurfaceDestroyed
  <2>1. UNCHANGED usable /\ pc' = "next" /\ (app'.mPreviewing => usable)
    BY <1>23, <1>0 DEF SurfaceDestroyed, When, wrapper, AppType
  <2>2. todo' \in Going /\ todo' \in Shows \cup Others
    BY <1>23 DEF SurfaceDestroyed, When, wrapper, AppType, Going, Others
  <2>3. todo' # <<>> => (Head(todo') = "open" <=> ~usable)
    BY <1>23, <1>0 DEF SurfaceDestroyed, When, wrapper, AppType
  <2> QED BY <2>1, <2>2, <2>3, CallsGo
<1>24. CASE ChangeSettings
  <2>1. UNCHANGED usable /\ pc' = "next" /\ (app'.mPreviewing => usable)
    BY <1>24, <1>0 DEF ChangeSettings, InLoop, wrapper, AppType
  <2>2. todo' \in Going /\ todo' \in Shows \cup Others
    BY <1>24 DEF ChangeSettings, InLoop, wrapper, AppType, Going, Others
  <2>3. todo' # <<>> => (Head(todo') = "open" <=> ~usable)
    BY <1>24, <1>0 DEF ChangeSettings, InLoop, wrapper, AppType
  <2> QED BY <2>1, <2>2, <2>3, CallsGo
<1>25. CASE Snap
  <2>1. UNCHANGED usable /\ pc' = "next" /\ (app'.mPreviewing => usable)
    BY <1>25, <1>0 DEF Snap, InLoop, wrapper, AppType
  <2>2. todo' \in Going /\ todo' \in Shows \cup Others
    BY <1>25 DEF Snap, InLoop, wrapper, AppType, Going, Others
  <2>3. todo' # <<>> => (Head(todo') = "open" <=> ~usable)
    BY <1>25, <1>0 DEF Snap, InLoop, wrapper, AppType
  <2> QED BY <2>1, <2>2, <2>3, CallsGo
<1>26. CASE RestartMessage
  <2>1. UNCHANGED usable /\ pc' = "next" /\ (app'.mPreviewing => usable)
    BY <1>26, <1>0 DEF RestartMessage, InLoop, wrapper, AppType
  <2>2. todo' \in Going /\ todo' \in Shows \cup Others
    BY <1>26, RestartShows DEF RestartMessage, InLoop, wrapper, AppType, Going, Others
  <2>3. todo' # <<>> => (Head(todo') = "open" <=> ~usable)
    BY <1>26, <1>0, RestartOpens DEF RestartMessage, InLoop, wrapper, AppType
  <2> QED BY <2>1, <2>2, <2>3, CallsGo
<1>27. CASE PictureTaken
  <2>1. UNCHANGED usable /\ pc' = "next" /\ (app'.mPreviewing => usable)
    BY <1>27, <1>0 DEF PictureTaken, InLoop, When, wrapper, AppType
  <2>2. todo' \in Going /\ todo' \in Shows \cup Others
    BY <1>27, RestartShows DEF PictureTaken, InLoop, When, wrapper, AppType, Going, Others
  <2>3. todo' # <<>> => (Head(todo') = "open" <=> ~usable)
    BY <1>27, <1>0, RestartOpens DEF PictureTaken, InLoop, When, wrapper, AppType
  <2> QED BY <2>1, <2>2, <2>3, CallsGo
<1>28. CASE UNCHANGED vars
  BY <1>28, <1>0, CallsStay DEF vars, wrapper, AppType
<1> QED BY <1>1, <1>2, <1>3, <1>4, <1>5, <1>6, <1>7, <1>8, <1>9, <1>10, <1>11, <1>12,
        <1>13, <1>14, <1>15, <1>16, <1>17, <1>18, <1>19, <1>20, <1>21, <1>22, <1>23,
        <1>24, <1>25, <1>26, <1>27, <1>28
          DEF Next, Binder, BlobThread, User, Messages

-----------------------------------------------------------------------------
(* The flag and the blob.                                                  *)

\* The flag and the blob differ only while a picture is exposed and between
\* the blob's start and the flag's.
FlagInv ==
  /\ (mPreviewRunning /\ ~blob.running) => capture = "exposing"
  /\ (blob.running /\ ~mPreviewRunning) => pc = "started"
  /\ capture = "exposing" => ~blob.running
  /\ pc = "started" => blob.running
  /\ pc \in {"blob_start", "retry"} => ~mPreviewRunning
  /\ ~usable => ~blob.running /\ ~mPreviewRunning

LEMMA FlagStep == ASSUME CameraTypeOK, CallsInv, FlagInv, [Next]_vars PROVE FlagInv'
<1> USE DEF FlagInv
<1>0. /\ blob \in BlobType /\ mPreviewRunning \in BOOLEAN
      /\ pc # "next" => usable
      /\ Calling("open") => ~usable
      /\ todo # <<>> /\ Head(todo) # "open" => usable
  BY DEF CameraTypeOK, BlobType, CallsInv, Calling
<1>1. CASE Open
  BY <1>1, <1>0 DEF Open, Calling, Return, hardware, BlobType
<1>2. CASE ClientStopPreview
  BY <1>2, <1>0 DEF ClientStopPreview, Calling, Return, StopPreview, Stopped, BlobType
<1>3. CASE SetPreviewDisplay
  BY <1>3, <1>0 DEF SetPreviewDisplay, Calling, Return, StopPreview, Stopped, BlobType
<1>4. CASE SameDisplay
  BY <1>4, <1>0 DEF SameDisplay, Calling, Return, wrapper, hardware, BlobType
<1>5. CASE SetParameters
  BY <1>5, <1>0 DEF SetParameters, Calling, Return, BlobType
<1>6. CASE StartSkipped
  BY <1>6, <1>0 DEF StartSkipped, Calling, Return, wrapper, hardware, BlobType
<1>7. CASE StartPreview
  BY <1>7, <1>0 DEF StartPreview, Calling, wrapper, hardware, BlobType
<1>8. CASE BlobStarts
  BY <1>8, <1>0 DEF BlobStarts, wrapper, BlobType
<1>9. CASE StartRetried
  BY <1>9, <1>0 DEF StartRetried, wrapper, hardware, BlobType
<1>10. CASE StartFails
  BY <1>10, <1>0 DEF StartFails, Calling, wrapper, hardware, BlobType
<1>11. CASE SetRunning
  BY <1>11, <1>0 DEF SetRunning, hardware, BlobType
<1>12. CASE Register
  BY <1>12, <1>0 DEF Register, Mapped, NotMapped, NoSurface, Calling, Return,
        wrapper, BlobType
<1>13. CASE TakePicture
  BY <1>13, <1>0 DEF TakePicture, Calling, Return, Stopped, wrapper, BlobType
<1>14. CASE Disconnect
  BY <1>14, <1>0 DEF Disconnect, Calling, StopPreview, Stopped, BlobType
<1>15. CASE Release
  BY <1>15, <1>0 DEF Release, Return, BlobOff, BlobType
<1>16. CASE DataCallbackShim
  BY <1>16, <1>0 DEF DataCallbackShim, BlobType
<1>17. CASE Forward
  BY <1>17, <1>0 DEF Forward, wrapper, BlobType
<1>18. CASE IspFreed
  BY <1>18, <1>0 DEF IspFreed, wrapper, BlobType
<1>19. CASE Resume
  BY <1>19, <1>0 DEF Resume, InLoop, wrapper, hardware, BlobType
<1>20. CASE Pause
  BY <1>20, <1>0 DEF Pause, InLoop, wrapper, hardware, BlobType
<1>21. CASE SurfaceCreated
  BY <1>21, <1>0 DEF SurfaceCreated, InLoop, wrapper, hardware, BlobType
<1>22. CASE SurfaceChanged
  BY <1>22, <1>0 DEF SurfaceChanged, InLoop, wrapper, hardware, BlobType
<1>23. CASE SurfaceDestroyed
  BY <1>23, <1>0 DEF SurfaceDestroyed, wrapper, hardware, BlobType
<1>24. CASE ChangeSettings
  BY <1>24, <1>0 DEF ChangeSettings, InLoop, wrapper, hardware, BlobType
<1>25. CASE Snap
  BY <1>25, <1>0 DEF Snap, InLoop, wrapper, hardware, BlobType
<1>26. CASE RestartMessage
  BY <1>26, <1>0 DEF RestartMessage, InLoop, wrapper, hardware, BlobType
<1>27. CASE PictureTaken
  BY <1>27, <1>0 DEF PictureTaken, InLoop, wrapper, hardware, BlobType
<1>28. CASE UNCHANGED vars
  BY <1>28, <1>0 DEF vars, wrapper, hardware, BlobType
<1> QED BY <1>1, <1>2, <1>3, <1>4, <1>5, <1>6, <1>7, <1>8, <1>9, <1>10, <1>11, <1>12,
        <1>13, <1>14, <1>15, <1>16, <1>17, <1>18, <1>19, <1>20, <1>21, <1>22, <1>23,
        <1>24, <1>25, <1>26, <1>27, <1>28
          DEF Next, Binder, BlobThread, User, Messages

\* The invariant is inductive, and when no call is being made and no picture is
\* on its way it says that mPreviewRunning tells what the blob does.
THEOREM FlagIsRight == Spec => []FlagFollowsBlob
<1>1. Init => CallsInv
  BY DEF Init, CallsInv, ListOK, NewActivity
<1>2. Init => FlagInv
  BY DEF Init, FlagInv, BlobOff
<1>3. CameraTypeOK /\ CallsInv /\ FlagInv => FlagFollowsBlob
  BY DEF CameraTypeOK, CallsInv, FlagInv, FlagFollowsBlob, Quiet, BlobType
<1> QED BY <1>1, <1>2, <1>3, CameraTypeCorrect, CallsStep, FlagStep, PTL DEF Spec

-----------------------------------------------------------------------------
(* The sizes.                                                              *)

\* While an instance is open the cache holds the size the blob has, and from
\* the blob's start to the registration that is the size of its heap.
SizeInv ==
  /\ ~usable => blob.size = Seed
  /\ usable => blob.size = mLastGoodParameters
  /\ pc \in {"started", "register"} => blob.heapSize = blob.size
  /\ BuffersFit

LEMMA SizeStep ==
  ASSUME CameraTypeOK, CallsInv, FlagInv, SizeInv, [Next]_vars,
         DelegateSetParams, ~BlobMayReject
  PROVE  SizeInv'
<1> USE DEF SizeInv, BuffersFit
<1>0. /\ blob \in BlobType /\ mPreviewRunning \in BOOLEAN
      /\ Calling("open") => ~usable
      /\ todo # <<>> /\ Head(todo) # "open" => usable
      /\ pc # "next" => usable
      /\ pc \in {"blob_start", "retry"} => ~blob.running
      /\ pc = "release" => Head(todo) = "disconnect"
  BY DEF CameraTypeOK, BlobType, CallsInv, FlagInv, Calling
<1>1. CASE Open
  BY <1>1, <1>0 DEF Open, Calling, Return, hardware, BlobType
<1>2. CASE ClientStopPreview
  BY <1>2, <1>0 DEF ClientStopPreview, Calling, Return, StopPreview, Stopped, BlobType
<1>3. CASE SetPreviewDisplay
  BY <1>3, <1>0 DEF SetPreviewDisplay, Calling, Return, StopPreview, Stopped, BlobType
<1>4. CASE SameDisplay
  BY <1>4, <1>0 DEF SameDisplay, Calling, Return, wrapper, hardware, service, BlobType
<1>5. CASE SetParameters
  BY <1>5, <1>0 DEF SetParameters, Calling, Return, service, Cached, BlobType
<1>6. CASE StartSkipped
  BY <1>6, <1>0 DEF StartSkipped, Calling, Return, wrapper, hardware, service, BlobType
<1>7. CASE StartPreview
  BY <1>7, <1>0 DEF StartPreview, Calling, wrapper, hardware, service, BlobType
<1>8. CASE BlobStarts
  BY <1>8, <1>0 DEF BlobStarts, wrapper, BlobType
<1>9. CASE StartRetried
  BY <1>9, <1>0 DEF StartRetried, wrapper, hardware, service, BlobType
<1>10. CASE StartFails
  BY <1>10, <1>0 DEF StartFails, Calling, wrapper, hardware, service, BlobType
<1>11. CASE SetRunning
  BY <1>11, <1>0 DEF SetRunning, hardware, service, BlobType
<1>12. CASE Register
  BY <1>12, <1>0 DEF Register, Mapped, NotMapped, NoSurface, Calling, Return,
        wrapper, NoHeap, BlobType
<1>13. CASE TakePicture
  BY <1>13, <1>0 DEF TakePicture, Calling, Return, Stopped, wrapper, BlobType
<1>14. CASE Disconnect
  BY <1>14, <1>0 DEF Disconnect, Calling, StopPreview, Stopped, service, BlobType
<1>15. CASE Release
  BY <1>15, <1>0 DEF Release, Return, BlobOff, NoHeap, BlobType
<1>16. CASE DataCallbackShim
  BY <1>16, <1>0 DEF DataCallbackShim, service, BlobType
<1>17. CASE Forward
  BY <1>17, <1>0 DEF Forward, wrapper, service, BlobType
<1>18. CASE IspFreed
  BY <1>18, <1>0 DEF IspFreed, wrapper, service, BlobType
<1>19. CASE Resume
  BY <1>19, <1>0 DEF Resume, InLoop, wrapper, hardware, service, BlobType
<1>20. CASE Pause
  BY <1>20, <1>0 DEF Pause, InLoop, wrapper, hardware, service, BlobType
<1>21. CASE SurfaceCreated
  BY <1>21, <1>0 DEF SurfaceCreated, InLoop, wrapper, hardware, service, BlobType
<1>22. CASE SurfaceChanged
  BY <1>22, <1>0 DEF SurfaceChanged, InLoop, wrapper, hardware, service, BlobType
<1>23. CASE SurfaceDestroyed
  BY <1>23, <1>0 DEF SurfaceDestroyed, wrapper, hardware, BlobType
<1>24. CASE ChangeSettings
  BY <1>24, <1>0 DEF ChangeSettings, InLoop, wrapper, hardware, service, BlobType
<1>25. CASE Snap
  BY <1>25, <1>0 DEF Snap, InLoop, wrapper, hardware, service, BlobType
<1>26. CASE RestartMessage
  BY <1>26, <1>0 DEF RestartMessage, InLoop, wrapper, hardware, service, BlobType
<1>27. CASE PictureTaken
  BY <1>27, <1>0 DEF PictureTaken, InLoop, wrapper, hardware, service, BlobType
<1>28. CASE UNCHANGED vars
  BY <1>28, <1>0 DEF vars, wrapper, hardware, service, BlobType
<1> QED BY <1>1, <1>2, <1>3, <1>4, <1>5, <1>6, <1>7, <1>8, <1>9, <1>10, <1>11, <1>12,
        <1>13, <1>14, <1>15, <1>16, <1>17, <1>18, <1>19, <1>20, <1>21, <1>22, <1>23,
        <1>24, <1>25, <1>26, <1>27, <1>28
          DEF Next, Binder, BlobThread, User, Messages

\* With parameters set by the blob, and a blob that takes what it knows, the
\* buffers that are shown have the size of the heap they lie in: the size in the
\* cache is the one the preview was started with, however sizes, surfaces and
\* restarts follow one another.
THEOREM BuffersAlwaysFit ==
  ASSUME DelegateSetParams, ~BlobMayReject
  PROVE  Spec => []BuffersFit
<1>1. Init => CallsInv /\ FlagInv
  BY DEF Init, CallsInv, FlagInv, ListOK, NewActivity, BlobOff
<1>2. Init => SizeInv
  BY DEF Init, SizeInv, BlobOff, BuffersFit
<1>3. CameraTypeOK /\ CallsInv /\ FlagInv /\ SizeInv /\ [Next]_vars => SizeInv'
  BY SizeStep
<1>4. SizeInv => BuffersFit
  BY DEF SizeInv
<1> QED BY <1>1, <1>2, <1>3, <1>4, CameraTypeCorrect, CallsStep, FlagStep, PTL DEF Spec

-----------------------------------------------------------------------------
(* What is shown.                                                          *)

Has(s, call) == \E i \in 1..Len(s) : s[i] = call

\* A picture will bring the application back to startPreview().
PicturePending == capture # "none" \/ app.jpegMsg

\* startPreview() comes last, and setPreviewDisplay() is called on the way to it,
\* or by itself for the new surface of a preview.
OrderInv ==
  /\ \A i \in 1..Len(todo) : todo[i] = "start" => i = Len(todo)
  /\ Has(todo, "display") => Has(todo, "start") \/ Len(todo) = 1
  /\ Calling("display") => Has(todo, "start") \/ app.mPreviewing
  /\ Calling("open") => Has(todo, "display")

\* A paused activity does not start a preview.
PausedInv == app.paused => ~app.mPreviewing /\ ~app.restartMsg /\ ~Has(todo, "start")

\* The heap of a preview that has just started is not mapped yet, and while one
\* runs, or is restarted for a new surface, the image processor is its own.
HeapInv ==
  /\ pc = "register" => mPreviewRunning /\ blob.running
  /\ pc = "release" => ~mPreviewRunning
  /\ pc \in {"started", "register"} => blob.heap = "fresh"
  /\ (\/ mPreviewRunning
      \/ pc \in {"started", "register"}
      \/ Calling("display") /\ pc # "next") => isp = "ours"

\* setPreviewDisplay() gives CameraService the surface before startPreview() needs
\* it; a surface of no activity is left only to be disconnected.
SurfaceInv ==
  /\ (Calling("display") /\ pc # "next") => mSurface = "current"
  /\ (Has(todo, "start") /\ ~Has(todo, "display") /\ app.holder) => mSurface = "current"
  /\ (usable /\ ~app.holder /\ mSurface = "current") => Calling("disconnect")

\* A preview nobody believes in is about to be stopped, or is started again now
\* or when the picture comes.
LeftRunningInv ==
  /\ (mPreviewRunning /\ ~app.mPreviewing /\ capture # "exposing")
     => \/ Calling("stop") \/ Calling("disconnect")
        \/ Has(todo, "start") /\ (PicturePending \/ (Calling("start") /\ pc = "register"))
  /\ (Calling("display") /\ pc \in {"blob_start", "retry", "started"} /\ ~app.mPreviewing)
     => PicturePending /\ Has(todo, "start")

\* A preview the activity believes in runs, unless it is just being restarted.
OnInv ==
  (app.mPreviewing /\ ~PicturePending)
  => \/ mPreviewRunning
     \/ Calling("stop")
     \/ Calling("display") /\ pc \in {"blob_start", "retry", "started"}

\* The preview that runs is in a heap the hardware refused to map.
Refused == blob.running /\ blob.heap = "refused"

\* It is shown, unless its heap was refused or it is about to be stopped or to get
\* its new surface.
ShownInv ==
  (app.mPreviewing /\ ~PicturePending /\ app.holder /\ registered = "none" /\ ~Refused)
  => \/ Calling("stop")
     \/ Calling("display") /\ (pc # "next" \/ mSurface # "current")

ScreenInv == PausedInv /\ HeapInv /\ SurfaceInv /\ LeftRunningInv /\ OnInv /\ ShownInv

LEMMA EmptyHas == \A c : ~Has(<<>>, c)
  BY DEF Has

\* What a list of calls that is begun contains.
LEMMA BegunHas ==
  ASSUME NEW s \in Shows \cup Others
  PROVE  /\ \A i \in 1..Len(s) : s[i] = "start" => i = Len(s)
         /\ s \in Shows => /\ Has(s, "start") /\ Has(s, "display") /\ s # <<>>
                           /\ Head(s) \in {"open", "stop", "display"}
         /\ s \in Others => ~Has(s, "start") /\ (Has(s, "display") <=> s = <<"display">>)
         /\ s = <<"display">> => Len(s) = 1
<1>1. CASE s = <<"display", "params", "start">> BY <1>1 DEF Has, Others
<1>2. CASE s = <<"stop", "display", "params", "start">> BY <1>2 DEF Has, Others
<1>3. CASE s = <<"open", "display", "params", "start">> BY <1>3 DEF Has, Others
<1>4. CASE s = <<"open", "stop", "display", "params", "start">> BY <1>4 DEF Has, Others
<1>5. CASE s = <<"stop", "disconnect">> BY <1>5 DEF Has, Shows
<1>6. CASE s = <<>> BY <1>6 DEF Has, Shows
<1>7. CASE s = <<"disconnect">> BY <1>7 DEF Has, Shows
<1>8. CASE s = <<"stop">> BY <1>8 DEF Has, Shows
<1>9. CASE s = <<"display">> BY <1>9 DEF Has, Shows
<1>10. CASE s = <<"params">> BY <1>10 DEF Has, Shows
<1>11. CASE s = <<"take">> BY <1>11 DEF Has, Shows
<1> QED BY <1>1, <1>2, <1>3, <1>4, <1>5, <1>6, <1>7, <1>8, <1>9, <1>10, <1>11
           DEF Shows, Others

\* startPreview() of the activity: what it begins with.
LEMMA RestartHas ==
  ASSUME usable \in BOOLEAN, app \in AppType
  PROVE  /\ RestartPreview \in Shows /\ RestartPreview # <<>>
         /\ (usable /\ app.mPreviewing) => Head(RestartPreview) = "stop"
         /\ (usable /\ ~app.mPreviewing) => Head(RestartPreview) = "display"
         /\ ~usable => Head(RestartPreview) = "open"
<1>1. CASE usable /\ app.mPreviewing BY <1>1, RestartShows DEF RestartPreview
<1>2. CASE usable /\ ~app.mPreviewing BY <1>2, RestartShows DEF RestartPreview
<1>3. CASE ~usable BY <1>3, RestartShows DEF RestartPreview
<1> QED BY <1>1, <1>2, <1>3 DEF AppType

\* What is left when a call returns.
LEMMA TailHas ==
  ASSUME NEW s \in Seq(Call), s # <<>>,
         \A i \in 1..Len(s) : s[i] = "start" => i = Len(s),
         Has(s, "display") => Has(s, "start") \/ Len(s) = 1
  PROVE  /\ \A i \in 1..Len(Tail(s)) : Tail(s)[i] = "start" => i = Len(Tail(s))
         /\ \A c : Has(Tail(s), c) => Has(s, c)
         /\ \A c : Has(s, c) => Has(Tail(s), c) \/ Head(s) = c
         /\ Head(s) = "start" => Tail(s) = <<>>
         /\ Has(Tail(s), "display") => Has(Tail(s), "start")
         /\ Tail(s) # <<>> => Has(Tail(s), Head(Tail(s)))
         /\ Has(s, Head(s))
<1>1. PICK t \in Seq(Call), n \in Nat :
        /\ t = Tail(s) /\ Len(t) = n /\ Len(s) = n + 1
        /\ s[1] = Head(s)
        /\ \A i \in 1..n : t[i] = s[i + 1]
        /\ t # <<>> => n # 0 /\ Head(t) = t[1]
        /\ n = 0 => t = <<>>
  <2>1. Tail(s) \in Seq(Call) /\ Len(s) - 1 \in Nat
    OBVIOUS
  <2>2. Len(Tail(s)) = Len(s) - 1 /\ Len(s) = (Len(s) - 1) + 1 /\ s[1] = Head(s)
    OBVIOUS
  <2>3. \A i \in 1..(Len(s) - 1) : Tail(s)[i] = s[i + 1]
    OBVIOUS
  <2>4. \A u \in Seq(Call) : (Len(u) = 0 => u = <<>>) /\ (u # <<>> => Len(u) # 0 /\ Head(u) = u[1])
    BY EmptySeq
  <2>5. /\ Tail(s) # <<>> => Len(s) - 1 # 0 /\ Head(Tail(s)) = Tail(s)[1]
        /\ Len(s) - 1 = 0 => Tail(s) = <<>>
    BY <2>1, <2>2, <2>4
  <2> QED BY <2>1, <2>2, <2>3, <2>5, Zenon
<1>2. \A i \in 1..n : i + 1 \in 1..(n + 1)
  OBVIOUS
<1>3. \A i \in 1..n : t[i] = "start" => i = n
  BY <1>1, <1>2
<1>4. ASSUME NEW c, Has(t, c) PROVE Has(s, c)
  BY <1>1, <1>2, <1>4 DEF Has
<1>5. ASSUME NEW c, Has(s, c), Head(s) # c PROVE Has(t, c)
  <2>1. PICK i \in 1..(n + 1) : s[i] = c
    BY <1>1, <1>5 DEF Has
  <2>2. i # 1
    BY <2>1, <1>1, <1>5
  <2>3. i - 1 \in 1..n /\ (i - 1) + 1 = i
    BY <2>1, <2>2
  <2>4. t[i - 1] = c
    BY <2>1, <2>3, <1>1
  <2> QED BY <2>3, <2>4, <1>1 DEF Has
<1>6. ASSUME Head(s) = "start" PROVE t = <<>>
  <2>1. 1 \in 1..(n + 1)
    OBVIOUS
  <2>2. 1 = n + 1
    BY <2>1, <1>1, <1>6
  <2> QED BY <2>2, <1>1
<1>7. ASSUME Has(t, "display") PROVE Has(t, "start")
  <2>1. Has(s, "display") /\ n # 0
    BY <1>1, <1>4, <1>7 DEF Has
  <2>2. Has(s, "start") /\ Head(s) # "start"
    BY <2>1, <1>1, <1>6
  <2> QED BY <2>2, <1>5
<1>8. ASSUME t # <<>> PROVE Has(t, Head(t))
  <2>1. n # 0 /\ Head(t) = t[1] /\ 1 \in 1..n
    BY <1>1, <1>8
  <2> QED BY <2>1, <1>1 DEF Has
<1>9. Has(s, Head(s))
  <2>1. 1 \in 1..(n + 1)
    OBVIOUS
  <2> QED BY <2>1, <1>1 DEF Has
<1> QED BY <1>1, <1>3, <1>4, <1>5, <1>6, <1>7, <1>8, <1>9

\* What is left of a list is in order.
LEMMA OrderReturn ==
  ASSUME CameraTypeOK, CallsInv, OrderInv, todo # <<>>, todo' = Tail(todo)
  PROVE  /\ OrderInv'
         /\ \A c : Has(todo', c) => Has(todo, c)
         /\ \A c : Has(todo, c) => Has(todo', c) \/ Head(todo) = c
         /\ Head(todo) = "start" => todo' = <<>>
         /\ Has(todo', "display") => Has(todo', "start")
         /\ todo' # <<>> => Has(todo', Head(todo'))
         /\ Has(todo, Head(todo))
<1>1. todo \in Seq(Call)
  BY DEF CameraTypeOK
<1>2. /\ \A i \in 1..Len(todo') : todo'[i] = "start" => i = Len(todo')
      /\ \A c : Has(todo', c) => Has(todo, c)
      /\ \A c : Has(todo, c) => Has(todo', c) \/ Head(todo) = c
      /\ Head(todo) = "start" => todo' = <<>>
      /\ Has(todo', "display") => Has(todo', "start")
      /\ todo' # <<>> => Has(todo', Head(todo'))
      /\ Has(todo, Head(todo))
  BY <1>1, TailHas DEF OrderInv
<1>3. todo' # <<>> => Head(todo') # "open"
  BY <1>1, TailOK DEF CallsInv
<1>4. OrderInv'
  BY <1>2, <1>3 DEF OrderInv, Calling
<1> QED BY <1>2, <1>4

\* A list that is begun.
LEMMA OrderBegin ==
  ASSUME NEW s \in Shows \cup Others, todo' = s,
         s = <<"display">> => app'.mPreviewing
  PROVE  OrderInv'
<1>1. CASE s \in Shows
  BY <1>1, BegunHas DEF OrderInv
<1>2. CASE s \in Others
  <2>1. /\ \A i \in 1..Len(s) : s[i] = "start" => i = Len(s)
        /\ Has(s, "display") => s = <<"display">> /\ Len(s) = 1
    BY <1>2, BegunHas
  <2>2. (s # <<>> /\ Head(s) = "display") => s = <<"display">>
    BY <1>2 DEF Others
  <2>3. s # <<>> => Head(s) # "open"
    BY <1>2, OthersOK
  <2> QED BY <2>1, <2>2, <2>3 DEF OrderInv, Calling
<1> QED BY <1>1, <1>2

\* The list at hand, while the activity does not change its mind.
LEMMA OrderStays ==
  ASSUME OrderInv, UNCHANGED todo, app.mPreviewing => app'.mPreviewing \/ ~Calling("display")
  PROVE  OrderInv'
BY DEF OrderInv, Calling

\* What the earlier invariants say, without the lists.
CallFacts ==
  /\ blob \in BlobType /\ app \in AppType /\ mPreviewRunning \in BOOLEAN /\ usable \in BOOLEAN
  /\ capture \in {"none", "exposing", "jpeg"} /\ mLastGoodParameters # "none"
  /\ pc \in {"next", "blob_start", "retry", "started", "register", "release"}
  /\ todo # <<>> => (Calling("open") <=> ~usable)
  /\ Calling("start") => Has(todo, "start")
  /\ pc # "next" => todo # <<>> /\ usable
  /\ pc = "release" => Calling("disconnect")
  /\ pc \notin {"next", "release"} => Calling("display") \/ Calling("start")
  /\ app.mPreviewing => usable /\ ~Calling("disconnect")

LEMMA KnownBefore ==
  ASSUME CameraTypeOK, CallsInv
  PROVE  CallFacts
<1>1. app.mPreviewing => ~Calling("disconnect")
  <2>. SUFFICES ASSUME app.mPreviewing, Calling("disconnect") PROVE FALSE
    OBVIOUS
  <2>1. todo \in Seq(Call) /\ todo # <<>> /\ Head(todo) = "disconnect"
    BY DEF Calling, CameraTypeOK
  <2>2. 1 \in 1..Len(todo) /\ todo[1] = "disconnect"
    BY <2>1
  <2> QED BY <2>2 DEF CallsInv
<1>2. Calling("start") => Has(todo, "start")
  <2>. SUFFICES ASSUME Calling("start") PROVE Has(todo, "start")
    OBVIOUS
  <2>1. todo \in Seq(Call) /\ todo # <<>> /\ Head(todo) = "start"
    BY DEF Calling, CameraTypeOK
  <2>2. 1 \in 1..Len(todo) /\ todo[1] = "start"
    BY <2>1
  <2> QED BY <2>2 DEF Has
<1>3. mLastGoodParameters # "none"
  BY DEF CameraTypeOK, Size
<1> QED BY <1>1, <1>2, <1>3 DEF CallFacts, CameraTypeOK, CallsInv, Calling, AppType, BlobType

\* The steps within a call, and those of the blob's thread.
LEMMA ScreenStay ==
  ASSUME CallFacts, FlagInv, OrderInv, ScreenInv,
         \/ StartPreview \/ BlobStarts \/ StartRetried \/ SetRunning \/ Disconnect
         \/ DataCallbackShim \/ Forward \/ IspFreed
  PROVE  ScreenInv'
<1> USE DEF ScreenInv, PausedInv, HeapInv, SurfaceInv, LeftRunningInv, OnInv, ShownInv,
            Refused, PicturePending, CallFacts, FlagInv, OrderInv, Calling, AppType, BlobType
<1>1. CASE StartPreview
  BY <1>1 DEF StartPreview, wrapper, hardware, service
<1>2. CASE BlobStarts
  BY <1>2 DEF BlobStarts, wrapper
<1>3. CASE StartRetried
  BY <1>3 DEF StartRetried, wrapper, hardware, service
<1>4. CASE SetRunning
  BY <1>4 DEF SetRunning, hardware, service
<1>5. CASE Disconnect
  BY <1>5 DEF Disconnect, service, StopPreview, Stopped
<1>6. CASE DataCallbackShim
  BY <1>6 DEF DataCallbackShim, service
<1>7. CASE Forward
  BY <1>7 DEF Forward, wrapper, service
<1>8. CASE IspFreed
  BY <1>8 DEF IspFreed, wrapper, service
<1> QED BY <1>1, <1>2, <1>3, <1>4, <1>5, <1>6, <1>7, <1>8

\* The returns.
LEMMA ScreenReturn ==
  ASSUME CameraTypeOK, CallsInv, CallFacts, FlagInv, OrderInv, ScreenInv,
         \/ Open \/ ClientStopPreview \/ SameDisplay \/ SetParameters
         \/ StartSkipped \/ Register \/ Release
  PROVE  ScreenInv'
<1> USE DEF ScreenInv, PausedInv, HeapInv, SurfaceInv, LeftRunningInv, OnInv, ShownInv,
            Refused, PicturePending, CallFacts, FlagInv, OrderInv, Calling, AppType, BlobType
<1>1. CASE Open
  BY <1>1, OrderReturn DEF Open, hardware, Return
<1>2. CASE ClientStopPreview
  BY <1>2, OrderReturn DEF ClientStopPreview, StopPreview, Stopped, Return
<1>3. CASE SameDisplay
  BY <1>3, OrderReturn DEF SameDisplay, wrapper, hardware, service, AppSurface, Return
<1>4. CASE SetParameters
  BY <1>4, OrderReturn DEF SetParameters, service, Return
<1>5. CASE StartSkipped
  BY <1>5, OrderReturn DEF StartSkipped, wrapper, hardware, service, Previewing, Return
<1>6. CASE Register
  <2>1. /\ todo # <<>> /\ pc = "register" /\ pc' = "next" /\ todo' = Tail(todo)
        /\ UNCHANGED <<mPreviewRunning, usable, capture, isp, mSurface>>
        /\ mSurface = "current" => registered' # "none" \/ Refused'
        /\ mSurface # "current" => registered' = registered
    BY <1>6 DEF Register, Mapped, NotMapped, NoSurface, ScreenInv,
       HeapInv, CallFacts, wrapper, Return
  <2>2. /\ app' \in AppType /\ app'.paused = app.paused /\ app'.holder = app.holder
        /\ app'.restartMsg = app.restartMsg /\ app'.jpegMsg = app.jpegMsg
        /\ app'.mPreviewing = (app.mPreviewing \/ Calling("start"))
    BY <1>6 DEF Register, Mapped, NotMapped, NoSurface, Previewing, CallFacts, AppType
  <2>3. CASE Calling("display")
    BY <2>1, <2>2, <2>3, OrderReturn
  <2>4. CASE Calling("start")
    BY <2>1, <2>2, <2>4, OrderReturn, EmptyHas
  <2> QED BY <2>1, <2>3, <2>4 DEF CallFacts
<1>7. CASE Release
  BY <1>7, OrderReturn DEF Release, BlobOff, Return
<1> QED BY <1>1, <1>2, <1>3, <1>4, <1>5, <1>6, <1>7

\* The calls that may go either way.
LEMMA ScreenEither ==
  ASSUME CameraTypeOK, CallsInv, CallFacts, FlagInv, OrderInv, ScreenInv,
         SetPreviewDisplay \/ StartFails \/ TakePicture
  PROVE  OrderInv' /\ ScreenInv'
<1> USE DEF ScreenInv, PausedInv, HeapInv, SurfaceInv, LeftRunningInv, OnInv, ShownInv,
            Refused, PicturePending, CallFacts, FlagInv, OrderInv, Calling, AppType, BlobType
<1>1. CASE SetPreviewDisplay /\ mPreviewRunning /\ app.holder
  <2>1. OrderInv'
    BY <1>1, OrderStays DEF SetPreviewDisplay
  <2>2. ScreenInv'
    BY <1>1 DEF SetPreviewDisplay, AppSurface, StopPreview, Stopped
  <2> QED BY <2>1, <2>2
<1>2. CASE SetPreviewDisplay /\ ~(mPreviewRunning /\ app.holder)
  <2>1. OrderInv'
    BY <1>2, OrderReturn DEF SetPreviewDisplay, Calling, Return
  <2>2. ScreenInv'
    BY <1>2, OrderReturn DEF SetPreviewDisplay, AppSurface, Return
  <2> QED BY <2>1, <2>2
<1>3. CASE StartFails /\ Calling("display")
  <2>1. OrderInv'
    BY <1>3, OrderReturn DEF StartFails, Calling
  <2>2. ScreenInv'
    BY <1>3, OrderReturn DEF StartFails, BlobRefuses, wrapper, hardware, service
  <2> QED BY <2>1, <2>2
<1>4. CASE StartFails /\ ~Calling("display")
  <2>1. todo' = <<"disconnect">> /\ <<"disconnect">> \in Shows \cup Others
    BY <1>4 DEF StartFails, Others
  <2>2. OrderInv'
    BY <2>1, OrderBegin
  <2>3. ~Has(todo', "start") /\ todo' # <<>> /\ Head(todo') = "disconnect"
    BY <2>1, BegunHas DEF Others
  <2>4. ScreenInv'
    BY <1>4, <2>3 DEF StartFails, BlobRefuses, wrapper, hardware, service
  <2> QED BY <2>2, <2>4
<1>5. CASE TakePicture /\ blob.running
  <2>1. OrderInv'
    BY <1>5, OrderReturn DEF TakePicture, Calling, Return
  <2>2. ScreenInv'
    BY <1>5, OrderReturn DEF TakePicture, Stopped, wrapper, Return
  <2> QED BY <2>1, <2>2
<1>6. CASE TakePicture /\ ~blob.running
  <2>1. todo' = <<"disconnect">> /\ <<"disconnect">> \in Shows \cup Others
    BY <1>6 DEF TakePicture, Others
  <2>2. OrderInv'
    BY <2>1, OrderBegin
  <2>3. ~Has(todo', "start") /\ todo' # <<>> /\ Head(todo') = "disconnect"
    BY <2>1, BegunHas DEF Others
  <2>4. ScreenInv'
    BY <1>6, <2>3 DEF TakePicture, NewActivity, wrapper
  <2> QED BY <2>2, <2>4
<1> QED BY <1>1, <1>2, <1>3, <1>4, <1>5, <1>6

\* What the application begins from its message loop.
LEMMA ScreenBegin ==
  ASSUME CameraTypeOK, CallFacts, FlagInv, OrderInv, ScreenInv,
         User \/ Messages
  PROVE  OrderInv' /\ ScreenInv'
<1> USE DEF ScreenInv, PausedInv, HeapInv, SurfaceInv, LeftRunningInv, OnInv, ShownInv,
            Refused, PicturePending, CallFacts, FlagInv, OrderInv, Calling, AppType, BlobType
<1>0. todo = <<>> /\ usable \in BOOLEAN /\ app \in AppType /\ pc = "next"
  BY DEF User, Messages, Resume, Pause, SurfaceCreated, SurfaceChanged, SurfaceDestroyed,
         ChangeSettings, Snap, RestartMessage, PictureTaken, InLoop, CallFacts
<1>1. /\ \A c : ~Has(todo, c)
      /\ <<>> \in Others /\ <<"disconnect">> \in Others
      /\ <<"stop", "disconnect">> \in Others
      /\ <<"stop">> \in Others /\ <<"display">> \in Others
      /\ <<"params">> \in Others /\ <<"take">> \in Others
  BY <1>0, EmptyHas DEF Others
<1>2. CASE Resume
  BY <1>0, <1>1, <1>2, RestartHas, BegunHas, OrderBegin, EmptyHas
  DEF Resume, InLoop, When, wrapper, hardware, service
<1>3. CASE Pause
  BY <1>0, <1>1, <1>3, BegunHas, OrderBegin, EmptyHas
  DEF Pause, InLoop, When, wrapper, hardware, service
<1>4. CASE SurfaceCreated
  BY <1>0, <1>1, <1>4, RestartHas, BegunHas, OrderBegin, EmptyHas
  DEF SurfaceCreated, InLoop, When, wrapper, hardware, service
<1>5. CASE SurfaceChanged
  BY <1>0, <1>1, <1>5, RestartHas, BegunHas, OrderBegin, EmptyHas
  DEF SurfaceChanged, InLoop, wrapper, hardware, service
<1>6. CASE SurfaceDestroyed
  BY <1>0, <1>1, <1>6, BegunHas, OrderBegin, EmptyHas
  DEF SurfaceDestroyed, When, wrapper, hardware
<1>7. CASE ChangeSettings \/ Snap
  BY <1>0, <1>1, <1>7, BegunHas, OrderBegin, EmptyHas
  DEF ChangeSettings, Snap, InLoop, wrapper, hardware, service
<1>8. CASE RestartMessage
  BY <1>0, <1>1, <1>8, RestartHas, BegunHas, OrderBegin, EmptyHas
  DEF RestartMessage, InLoop, wrapper, hardware, service
<1>9. CASE PictureTaken
  BY <1>0, <1>1, <1>9, RestartHas, BegunHas, OrderBegin, EmptyHas
  DEF PictureTaken, InLoop, When, wrapper, hardware, service
<1> QED BY <1>2, <1>3, <1>4, <1>5, <1>6, <1>7, <1>8, <1>9 DEF User, Messages

\* Every step keeps the order of the calls and what it is for.
LEMMA ScreenStep ==
  ASSUME CameraTypeOK, CallsInv, FlagInv, OrderInv, ScreenInv, [Next]_vars
  PROVE  OrderInv' /\ ScreenInv'
<1>0. CallFacts
  BY KnownBefore
<1>1. CASE \/ StartPreview \/ BlobStarts \/ StartRetried \/ SetRunning \/ Disconnect
          \/ DataCallbackShim \/ Forward \/ IspFreed
  <2>1. OrderInv'
    BY <1>1, <1>0, OrderStays DEF StartPreview, BlobStarts, StartRetried, SetRunning,
       Disconnect, DataCallbackShim, Forward, IspFreed, CallFacts, Calling, AppType
  <2> QED BY <1>1, <1>0, <2>1, ScreenStay
<1>2. CASE \/ Open \/ ClientStopPreview \/ SameDisplay \/ SetParameters \/ StartSkipped
          \/ Register \/ Release
  <2>1. todo # <<>> /\ todo' = Tail(todo)
    BY <1>2, <1>0 DEF Open, ClientStopPreview, SameDisplay, SetParameters,
       StartSkipped, Register, Release, Calling, Return, CallFacts
  <2> QED BY <1>2, <1>0, <2>1, OrderReturn, ScreenReturn
<1>3. CASE SetPreviewDisplay \/ StartFails \/ TakePicture
  BY <1>3, <1>0, ScreenEither
<1>4. CASE User \/ Messages
  BY <1>4, <1>0, ScreenBegin
<1>5. CASE UNCHANGED vars
  BY <1>5 DEF ScreenInv, PausedInv, HeapInv, SurfaceInv, LeftRunningInv, OnInv,
     ShownInv, Refused, PicturePending, OrderInv, Calling, vars, wrapper, hardware, service
<1> QED BY <1>1, <1>2, <1>3, <1>4, <1>5 DEF Next, Binder, BlobThread

\* Whatever the order of pauses, surfaces, pictures, settings and failed starts,
\* and whatever the blob refuses: an activity that believes it previews, and has
\* its surface, shows the preview once things are quiet, unless the hardware refused
\* to map the very heap the preview runs in, an error CameraService drops.
THEOREM PreviewAlwaysShown == Spec => []PreviewIsShown
<1>1. Init => CallsInv /\ FlagInv
  BY DEF Init, CallsInv, FlagInv, ListOK, NewActivity, BlobOff
<1>2. Init => OrderInv /\ ScreenInv
  BY EmptyHas DEF Init, OrderInv, ScreenInv, PausedInv, HeapInv, SurfaceInv,
     LeftRunningInv, OnInv, ShownInv, Refused, PicturePending, Calling, NewActivity, BlobOff
<1>3. CameraTypeOK /\ CallsInv /\ FlagInv /\ OrderInv /\ ScreenInv /\ [Next]_vars
      => OrderInv' /\ ScreenInv'
  BY ScreenStep
<1>4. ScreenInv => PreviewIsShown
  BY DEF ScreenInv, ShownInv, Refused, PreviewIsShown,
     BelievesItShows, Quiet, PicturePending, Calling
<1> QED BY <1>1, <1>2, <1>3, <1>4, CameraTypeCorrect, CallsStep, FlagStep, PTL DEF Spec
=============================================================================
