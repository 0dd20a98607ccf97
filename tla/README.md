# TLA+ models of the Huawei Y210 device tree

This directory holds TLA+ specifications of the parts of this repository that
keep state and run concurrently: the audio HAL and its policy, the camera preview,
the FM daemon and its clients, and the Wi-Fi driver handshake. They are checked on
small instances with TLC and proved about for every instance with TLAPS: every
safety property of the passing runs is a theorem, some under named conditions.

The repository is an Android 2.3 (CyanogenMod 7) device tree: HAL libraries, a
daemon, init scripts, prebuilt files and a set of patches to the framework. It
runs on a phone with a Qualcomm MSM7x27 and the AMSS modem processor; the modem,
the vendor libraries, the kernel and the unpatched framework are not in it. What
the models say about those is an assumption drawn from how the code here uses
them, and is marked `external` in the map of `PROJECT.json`.

## 1. The system

| Component | State | Operations | Talks to |
|---|---|---|---|
| Audio routing, `libaudio/AudioHardware.*` | current device, mode, mutes, TTY, dual mic, FM flags, playback flag, feature mask; per stream device/standby/fd | `setMode`, `setMicMute`, `setParameters`, volumes, open/close of streams; streams' `write`, `read`, `standby`, `setParameters`; all through `doRouting` | SND driver (modem RPC), `/dev/msm_pcm_*`, AUDPP/AUDPRE, `/dev/msm_fm`, BT/FM pins; called by mixer, record and binder threads |
| Audio policy, `libaudio/AudioPolicyManager.*` | cached device per strategy, volumes (base class) | `getDeviceForStrategy`, `checkAndSetVolume` | base class (external), which calls both; AudioPolicyService's command thread, which carries routes and volumes to the HAL one after the other |
| FM handoff, `fminit/fminit.c`, `patches/frameworks_base_android_hardware_fm_qcom.cpp`, `patches/packages_apps_FM.patch` | the open file of `/dev/radio0`, its duplicates, `hw.fm.init`, an abstract socket | daemon: bind, open, load firmware, serve; service: `onCreate`; client: acquire, close | processes over a Unix socket, system properties, the driver |
| Wi-Fi, `patches/hardware_libhardware_legacy.patch`, `prebuilt/system/bin/wlan_tool`, `prebuilt/init.target.rc` | `wlan.driver.status`, the kernel module, the interface | load/unload of the driver; start of the supplicant | framework thread, init, two oneshot shell scripts, one property for request and answer |
| Camera, `libcamera/Y210CameraWrapper.*` | preview/recording flags, message mask, parameters, a singleton | preview, recording, picture, parameters, release | the vendor blob, whose callbacks come on its own threads; CameraService (`patches/frameworks_base_camera.patch`) and the application (`patches/packages_apps_Camera.patch`) |
| Lights, `liblights/lights.c` | battery and notification states, attention, backlight | one setter per light, under a mutex | sysfs |
| RIL, `ril/`, `patches/hardware_ril.patch`, `patches/frameworks_base_telephony.patch` | the SIM application's AID | requests and the parsing of their answers | modem |
| Recovery graphics, `recovery/graphics.c` | the two framebuffer pages | draw, flip | framebuffer |
| Patch scripts, `patches/*.sh` | working trees of the projects patched | check all, apply all, revert | git |
| Other patches, init files, key layouts, makefiles, `tools/` | none of their own | | |

### What is hard in them

*Audio routing.* One `AudioHardware` object is shared by the mixer thread, the
record threads and binder threads. `mLock` protects only `doRouting`,
`setMicMute` and a few others; `clearCurDevice`, the flags set by
`setParameters`, the streams' devices and the post-processing calls of the streams
are written without it. `mCurSndDevice` is a cache of what the driver was last
told, and decides whether a route is sent at all, whether the BT/FM pins change
hands and which features are switched on. The RPC, the switching of the old
features, the saves of device and mask and the switching of the new features are
separate steps, and each switching reads the device, then the mask, and ends in an
ioctl; `write` does so without the lock. Ioctls fail between all of them. What should
hold: the cache is never wrong, racing requests converge to what the final state asks
for, and mutes, pins and features agree with the device in the end.

*FM handoff.* Every `open()` of the device resets the chip and wipes the firmware
that takes seconds to load; so one daemon opens it and everybody else gets a
duplicate. Two daemons may start at once, clients arrive before the socket,
during the load and after the daemon's death, give up after a bounded number of
attempts and fall back to an open of their own. Daemon and application are killed
independently. What should hold: one open, no wiped firmware, no acquire that
hangs.

*Wi-Fi.* Request and answer share one property, without a sequence number. The
caller gives up after 20 or 10 seconds while the script goes on; the scripts set
the property again if it does not read as they wrote it, write requests
themselves to make init help them, and report `unloaded` unconditionally. What
should hold: a reported success is one, and a driver that looks loaded is up.

*Input streams.* `mInputs` is a sorted vector that `closeInputStream` leaves
unlocked while it deletes an element, because the destructor routes; opens fail
half way; `dump` takes no lock. What should hold: the remembered index still means
the deleted stream, nothing leaks, and nobody waits for the lock he holds.

*Audio policy.* A long decision over available devices, forced use and phone
state, cached per strategy and partly made from the cache. What it decides
travels through a queue, while modes and TTY modes overtake it. The volume of a call
and that of FM end in one RPC, on whatever device is current. What should hold: a call
has a device whatever is plugged, and what was decided arrives: the device, and the
last volume, at its level and on that device.

*Camera.* `mPreviewRunning` is written by the blob's callback thread without a
lock, and the wrapper skips calls on the strength of it. The parameters live twice,
in the cache and in the blob, and buffers are sized by one for a heap of the other.
The heap can be mapped once, and on this hardware perhaps not at all, a failure that is
dropped. A start may find the image processor busy. What should hold: the flag is right
when it is used, buffers fit, the preview is shown and comes back after a failure.

*Lights.* Priority between battery and notification, and a comparison with a
value that is never stored.

The full list, with lines, is `hazards` in `PROJECT.json`; it says of each which
property covers it or why none does yet.

## 2. Modules

```
SndRouting             pure decisions of doRouting()
   ^
AudioHardware  ------> RouteCache      abstract: routes are atomic
   ^        ^      ^
   |        |      AudioInputs <-- MCAudioInputs   streams opened and closed
   |        |           ^
   |        |      AudioInputsProofs
   |        |           |
   |        AudioHardwareProofs <-- AudioSettledProofs, AudioProcessingProofs
MCAudioHardware                        TLC instances

SndRouting <-- AudioPolicy <-- MCAudioPolicy, AudioPolicyProofs

CameraWrapper <-- CameraProofs         checked as it is

FmHandoff  ----------> RadioDevice     abstract: one open file, handed on
   ^
MCFmHandoff, FmHandoffProofs

WifiDriver <-- WifiProofs              checked as it is
```

### SndRouting

The decisions that depend on no thread. `OutputRoute`, `InputRoute` and
`DualMicRoute` are the tests of `doRouting` in their order; `EnableMask` is the
selection of features in `msm72xx_enable_postproc`; `EarMute` and `MicMute` are the head of
`doAudioRouteOrMute`. `mDevices` is the set of its `DEVICE_OUT_*` bits, a device
is a name, -1 is `"none"`. The filter table read from `AudioFilter.csv`, the
headset property and `mFmIsAnalog` are constants. All endpoints are taken to be
resolved, `COMBO_DEVICE_SUPPORTED` off and `HAVE_FM_RADIO` on, as in the build.

### AudioHardware

Threads `Player` (mixer), `Recorders`, `Controllers` (binder threads). Each has a
`pc`, `"idle"` between calls; the rest of the state is the C++ members under their
own names, plus what the outside was told: `dsp` (device and mutes), `audpp` and
`audpre` (features on), `pins`, `fmSession`. Two variables are history: `routeStatus`,
the status of the last route that `doRouting` sent, and `overtaken`, that a route saved
a device or a mask which a `write` under way had already read.

| Code | Actions |
|---|---|
| `doRouting` 1992-2183 | `Select` (lock, selection), `Skip` (same device), `SendRoute`, `DisableOld`, `SaveDevice`, `SaveMask`, `EnableNew` |
| `doAudioRouteOrMute`, `do_route_audio_rpc`, `run_btfm_pin_switch` | `RouteOutcomes`, `RpcOutcomes`, `PinSwitch` inside `SendRoute` and `SetMicMute`; a register that is not written leaves the pins `"MIXED"` |
| `msm72xx_enable_postproc` 986-1155 | `EnablePostProc`: `PostProcReadDevice`, `PostProcReadMask`, `PostProcSwitch`, or `PostProcGiveUp`; under the lock at `pp_off` and `pp_on` of `doRouting`, without it at `wr_on` of `write` and `stb_off` of `standby` |
| output `write`, `standby`, `setParameters` | `WriteFill` (any of its opens, configurations and writes may fail), `WriteStart`, then `EnablePostProc`; `OutStandby`, `EnablePostProc`, `OutStandbyClose`; `OutSetRouting` (routes twice, as the code does) |
| input `read`, `set`, `standby`, `setParameters` | `ReadOpen`, `ReadForceRoute`, `ReadStart`; `InStandby`; `InSetRouting` |
| `setMode` | `SetMode`, then `ModeClear` without the lock |
| `setMicMute` | `SetMicMute` |
| `setParameters` | `SetParameters`, then one of `SetBtName`, `SetDualMic`, `SetTtyMode`, `SetFmOn`, `SetFmOff` per key in the code's order, then `RouteAtEnd` |

A step reaches from one access of shared state to the next. Coarser than the code:
`doAudioRouteOrMute` is one step (its mutes and its ioctls), and so is a call of
`msm72xx_enable_preproc`. The post-processing tests the current device up to three times
and the mask bit by bit, with no call in between; each counts as one read, as an optimising
build does it. The caller's side is external: AudioFlinger holds
`mHardwareLock` around calls on the hardware object, which is why the instances
have one controller (with two that toggle FM, `PinsFollowDevice` fails), and a
stream belongs to one thread. The Bluetooth names in the acoustic database are not
modelled: `bt_name` routes, which is the branch for a name that is not in it.

### RouteCache

Three variables: the device the driver has, the device remembered, and whether
the last route succeeded. A route is one step, the memory may be cleared.
`AudioHardware!Cache` instantiates it; `KnownDevice` maps the window between RPC
and save to "the device about to be saved".

### AudioInputs

Extends `AudioHardware` by the life of the input streams: an element of
`Recorders` is an address where a stream may be allocated, `mInputs` the vector as
a set ordered by `Address`. `OpenInputStream`, `OpenFails` are `openInputStream`
with `set`; `CloseInputStream` (look-up, unlock), `Delete` (which starts the
destructor's `standby` of `AudioHardware`), `Freed` and `RemoveAt` are
`closeInputStream`; `DumpStart`, `DumpNext` are `dump`. Of `AudioHardware` the
steps of the streams are taken as they are. AudioPolicyService makes one open or close
at a time and AudioFlinger ends a record thread before it closes its stream; the PCM
driver refuses a second open. `set` is one step, under the lock, except that a
failure may leave `mState` open (an unsupported rate, tested last) or not.
The destructor of `AudioHardware`, which closes streams with a rising index over
a shrinking vector, is left out: AudioFlinger has closed all streams before.

### AudioPolicy

`Phone`, `Media` and `getDeviceForStrategy` translate the function of that name: an
order of priority is a sequence and `First` its first available device. The
comparison of MEDIA with the cached device of PHONE is an argument, so that
`updateDeviceForStrategy` can evaluate the strategies in either order.
`checkAndSetVolume` yields the commands it sends. `ExecuteRoute`, `setVoiceVolume`,
`setFmVolume` and `SetTtyMode` are what arrives in `AudioHardware`: a voice volume in two
steps, as the code tests the current device before it takes the lock
(`VoiceLevelChosen`, with `vol` the level in hand) and sends under it. Voice and FM make
the same RPC, so there is one register, `sent`: the last request, with its level, whose it
was, the device it reached and the one that was seen for it.
`OutputRoute` of `SndRouting` selects the device of a route; a route is one step here, as
`RouteCache` and its refinement allow. `SetMode` and `SetPhoneState` are the two
halves of AudioPolicyService's `setMode`.

The base class is not in this tree. Of it is assumed, and only this: it evaluates
all strategies after each change, in an order of its own; it routes the hardware
output when its device changes, and at both ends of a call in any case, which is
what `setMode` (1268) counts on; it applies the volumes of all streams after each
route and when the use forced for communication changes, in the order of the streams, that
of FM after that of BLUETOOTH_SCO; it keeps A2DP from the
hardware output. Commands are executed in order; their delays, the gains of the
software mixer with the three attenuation properties, and mutes are left out.

### CameraWrapper

Three parties: the activity's thread with its list of calls still to make (`todo`)
and, inside one, `pc`; the blob's thread; the user and the window manager. Calls
reach the wrapper one at a time, for CameraService holds `Client::mLock`.

| Code | Actions |
|---|---|
| wrapper `createInstance`, constructor | `Open` |
| `startPreview` 615 | `StartPreview`, `BlobStarts`, `StartRetried`, `StartFails`, `SetRunning` |
| `stopPreview` 687 | `StopPreview` inside `ClientStopPreview`, `SetPreviewDisplay`, `Disconnect` |
| `setParameters` 818 | `SetParameters`, with `Known` (the blob's size) and `Cached` (the cache's) |
| `takePicture`, `cancelPicture`, `release` | `TakePicture`, `Disconnect`, `Release` |
| `dataCallbackShim` 309 | `DataCallbackShim`, then `Forward` in CameraService |
| CameraService patch | `SetPreviewDisplay`, `StartSkipped`, `Register` (`Mapped`, or `NotMapped`: -ENODEV, which both callers drop) |
| application patch | `StartFails` (close, RESTART_PREVIEW), `Resume`, `SurfaceCreated`, `SurfaceChanged`, `RestartMessage` |

Of the blob is assumed that it stops its preview for a capture and refuses a start
until the picture is delivered, allocates a heap per start from rest, may be busy
for a while after an instance was released, and waits in its release for a running
callback; of a heap, that it can be mapped once or, as the comments in the patch say of
this hardware, be refused from the start; of
CameraService, that it admits one client; of the application, that a pause removes
RESTART_PREVIEW and a shutter ends its belief in the preview. Sizes are three:
one everybody knows, the one the blob does not (432x320), and its replacement.

### FmHandoff

Daemon slots and acquiring threads are constants; `holders` are the processes with
a descriptor of the open file, `peer` is the backlog of the socket. `Bind`,
`Open`, `BeginLoad`, `EndLoad`, `Serve` are `main()` of `fminit`; `Acquire`,
`Connect`, `FailedAttempt`, `HangUp`, `DirectOpen`, `Close` are
`fmAcquireFdNative` and `fmCloseFdNative`; `OnCreate`, `Exec` are the service;
`Kill` and `AppDies` are the low-memory killer. `Serve` may fail silently, as
`sendmsg` may, and `EndLoad` may fail to load, as the code serves all the same.
`hw.fm.version` is taken to be set, and a slot to be free for `Exec`.

### RadioDevice

What all the processes together are to do with `/dev/radio0`: one open file with
its holders and what is loaded through it. It is opened when nobody holds it,
passed on by a holder, let go, and loses its firmware with the next open.
`FmHandoff!Radio` instantiates it on the same variables, and `SharesOneFile` is its
specification. It holds with kills and late clients as well: these may make the
device be opened again, but never while somebody has it.

### WifiDriver

`status` is the property. `SetStatus` is the property service, which queues the
start of a service once; `StartService` does nothing for a service that runs.
`LoadStart` ... `WaitUp` are `loaddriver`, `Rmmod` ... `WaitDown` are
`unloaddriver`, and `DoSetProp`/`CheckProp` the loop in `do_setprop`, whose bound of
20 is left out (a try that is not repeated looks like one that found its own
value). `LoadDriver`, `UnloadDriver` and `Poll` are `wifi.c` as patched. Timeouts
are choices: with `Slow` a wait may run out although its cause is still under way,
and the answer may arrive during the poll's last sleep.

## 3. What is checked

Sizes are distinct states; each run takes seconds to about two minutes and a half.

| Run | Instance | Shows |
|---|---|---|
| `AudioRouting` (3.3 M) | mixer, 1 recorder, 1 controller; SCO, recordings of the microphone, a call; strings that name a headset and switch FM on, or switch it off | `CacheCoherent`, `RouteFollowsState` under all interleavings |
| `AudioFailures` (268 k) | mixer and controller; SCO, a call, FM on; every open, write, ioctl and pin register may fail | `CacheCoherent`; `CallsReturn`; the refinement `RoutesAtomically`; `TypeOK` |
| `AudioSettled` (1.0 M) | mixer and controller, three outputs, FM, dual mic, TTY, BT name, filters that differ per device; no mode changes | `MutesFollowState`, `PinsFollowDevice`, `OnlyWriteIsOvertaken` |
| `AudioInputs` (197 k) | two streams, microphone or call recording; opens, routes and starts may fail; a dump at any time | `ListedAreAllocated`, `NothingLeaks`, `PolicyReturns`, `InputsTypeOK` |
| `AudioPolicy` (3.2 M) | normal/ringing/in call; headset, SCO and A2DP plugged and unplugged; two voice and two FM volumes; TTY off/full; media or a ringtone; at most one command waits when another change is made, which then queues up to three more | `CallHasDevice`, `CallFollowsPolicy`, `PolicyTypeOK` |
| `CameraPreview` (3 k) | one activity, sizes as above, parameters delegated, a blob that takes the sizes it knows, heaps that are mapped or refused | `FlagFollowsBlob`, `BuffersFit`, `PreviewIsShown`, `PreviewReturns`, `CameraTypeOK` |
| `FmHandoff` (35 k) | 2 daemons, 2 clients, 2 attempts, 2 kills | `OpenedOnce`, `FirmwareKept`, the refinement `SharesOneFile`, `AcquireReturns`, `TypeOK` |
| `WifiDriver` (5 k) | waits may run out at any time, insmod and rmmod may fail, calls do not overlap with earlier scripts | `LoadReturnsUp`, `LoadedMeansUp`, `TypeOK` |

*Why the bounds are enough.* Two threads already produce every pairwise
interleaving of an unlocked access with a locked section, and three are used where
recordings, mode changes and FM meet. A route is decided by comparing two devices, so
an output, FM and an input give "same", "different" and "forced"; three outputs are
used where features matter, with a table in which each device enables another set.
Liveness, which costs most, is checked with one output, a call and FM.
The FM instance has a daemon that serves and one exec'd anew, a client that has
the descriptor and one on its way; two attempts are a retry and a last one (60 in
the code), two kills a kill during the recovery from a kill. Two streams are enough
for one to be listed before the other. The policy's devices are one wired, one SCO
and one A2DP device beside the two built in, which is one for each branch that
treats them apart; the volumes are the least and the greatest. The camera's model has no bound
but its three sizes. The proofs lift every safety property
to every instance (section 4); the bounds matter for liveness and for what shows
that a condition of a theorem is needed.

*Preconditions.* `RouteFollowsState` speaks of states where every call has
returned and no recording is left: a recording moves the device deliberately.
`MutesFollowState` and `CacheCoherent` except the state after a failed RPC, which
the code saves as if it had succeeded. `OpenedOnce` excepts killed daemons
and clients that ran out of their 60 attempts while a daemon was starting: both
do open again, by design. `AudioSettled` has no mode changes, for `setMode` empties
the current device at any moment, and two things go by it: the mutes (the finding
`AudioRerouteLost`), and the BT/FM pins (the list below). `OnlyWriteIsOvertaken` speaks of
a playing output: a route that falls between the two steps of `standby` (2408) leaves
features on in standby. It excepts a `write` that was overtaken, until the next route or
playback switches again. `CallFollowsPolicy` allows the device of any TTY mode, because a
TTY mode set outside a call waits for the next route; a voice level is 1 when the device
seen for it carries a TTY, and that device may be another of the same route than the one
it reaches. Of the two volumes it demands only that the last one is at its level: it does
not say which comes last. `BuffersFit` needs a blob
that takes the sizes it knows: the cache is written before the blob is asked (850), and
the "preserving cache" of the log line 891 preserves what was rejected.
`FlagFollowsBlob` speaks of quiet moments: between a shutter and its picture the
flag is stale, a start is then skipped, and a second shutter in that time finds a
stopped blob and ends the application. `PreviewIsShown` and `PreviewReturns` except a heap
the hardware refused, which nothing tries again; the latter also a pause that threw
RESTART_PREVIEW away: `mStartPreviewFail` then keeps `onResume` from starting.

*Fairness.* Audio: a thread inside a call is scheduled (WF of its steps), and
`mLock` is granted in the end to a thread that waits while others take and release
it (SF of `Select`); a futex is not strictly fair, but a critical section
that ends gives waiters their turn, and nobody takes the lock without leaving it.
`AudioInputs`: the same, and an open or close that has begun is continued.
Camera: a call that was made goes on, the blob delivers the picture it has begun, the
image processor becomes free, and the activity's messages and the picture's way
through `Client::mLock` are not overtaken for ever (SF), while the user owes nothing.
FM: processes and threads that can run do, the firmware loader ends, `accept`
takes connections in turn. In neither is anybody obliged to start a call, to close
or to die. Deadlock is checked in every run.

### Disagreements between code and comments

Each is a run that ends in a counterexample.

| Run | What happens |
|---|---|
| `AudioRerouteLost` | `setMode` clears the current device "to make sure that doAudioRouteOrMute() is called" (1268). Between a concurrent route's RPC and its save, the clear is overwritten; the next route to the same device is skipped and the ear keeps the mute of the old mode. |
| `RecordingStolen` | The destructor of an input stream restores the output's route (2841-2842), also when another stream is recording. That one was to "force routing to input device" (2756), which `read` does only when it starts; it goes on recording on the output's route. |
| `FmRestart` | `fminit.c:115` says the service re-execs the daemon on every `onCreate`; the service skips it when `hw.fm.init` is still 1, which it is after the daemon was killed. |
| `WifiLateAnswer` | With overlapping calls, `do_setprop` of an earlier script writes its old `ok` over the new request, and a load reports success with the interface down. |

These are met as well. Each property is defined in the module, marked as not kept, and fails
when it takes the place of the properties in the configuration named:

| Property | Configuration | What happens |
|---|---|---|
| `ProcessingMatchesDevice` | `AudioSettled` | "enable post proc for new device" (2175): `write` has read the old device and mask when a route saves and enables the new ones, and its own ioctl (1130) comes last; the old device's features stay on until the next route or playback. |
| `PinsFollowDevice` | `AudioSettled` with `ModeValues <- CallModes` | "Leaving FM for a non-FM device: give the BT AUX-PCM pins back" (1983): leaving FM is recognised by the current device, which `setMode` clears. FM switched off before anything has routed leaves the pins with FM. |
| `ScoCallAtMaximum` | `AudioPolicy` | "Force voice volume to max for bluetooth SCO" (policy 302): the volume of the FM stream follows through the same RPC (2943), whether or not FM plays, and a SCO call is left at the FM level. |
| `MediaLeavesCallAlone` | `AudioPolicy` | "Do not play media stream if in call and the requested device would change the hardware output routing" (policy 196): MEDIA evaluated before PHONE at the start of a call is compared with the device of ringing, and keeps the speaker. |
| `FreshHeapIsShown` | `CameraPreview`, as `INVARIANT` | "registerBuffers del primer mmap tiene éxito" (`docs/CAMERA_NOTES.md` 273-274): a refused fresh heap (`frameworks_base_camera.patch` 182-203) is dropped; the application believes in a preview nobody sees. |
| `UnloadReturnsDown` | `WifiDriver`, as `PROPERTY` | "wait at most 10 seconds for completion": rmmod fails, its fallback asks init to start the service that is asking, `unloaded` is written all the same and the unload returns 0 with the module loaded. |

And one that needs no run: the comment at 1497 gives `set_volume_rpc` levels of 0 to 5,
and `setVoiceVolume` (1526) sends 1 to 6, as its own log line says; `WantedLevel` is the code's.

## 4. What is proved

Every invariant and every action property of the passing runs, and both
refinements, are theorems; so is the exclusion by `mLock`, and that one fminit
listens. Constants are arbitrary up to the named assumptions: `ThreadAssumption`,
`InputAssumption` and `RoutingConstants` for audio (the roles are disjoint, inputs
are well typed, the filter table is total), `AddressAssumption` (finitely many
streams, no two at one address), `HandoffAssumption` for FM, `WifiAssumption`,
`PolicyAssumption` (what is pluggable is not built in, volumes are in range) and
`CameraAssumption`. They are evaluated by TLC on every instance. All proofs were
preceded by a TLC run of the inductive invariant.

Some theorems have a hypothesis on the constants. Each one excludes something the code
really gets wrong, and is met by the run that checks the property:

| Theorem | Hypothesis | Without it |
|---|---|---|
| `RequestsConverge` | `ModeIndependent`: no calls, or neither TTY nor second microphone | a route selected before `setMode` may be saved after its `clearCurDevice`, which is then lost as in `AudioRerouteLost`; the device of the old mode stays |
| `MutesFollow` | `PlainMutes`: no calls, no built-in microphone, no failing driver | the finding `AudioRerouteLost`; a `doRouting` that selects the microphone but finds its device current does not send the ear's mute; a mute whose RPC failed is not repeated |
| `PinsFollow` | `QuietCaller`: one caller, no failing driver, and nothing that clears the current device | the route after fm off does not know that it leaves an FM device (section 3, second table); with two callers one may switch FM off under the other's route; a pin register that is not written is not tried again |
| `ProcessingMatches` | `~DriversMayFail` | a failed switch is not repeated |
| `BuffersAlwaysFit` | `DelegateSetParams`, `~BlobMayReject` | the cache has a size the blob refused, or was never told |
| `LoadUp` | `~Overlap` | the finding `WifiLateAnswer` |

*`AudioHardwareProofs`.*

- `TypeCorrect`: `Spec => []TypeOK`, one lemma per thread role.
- `RoutingIsExclusive`: at most one thread between lock and return. `LockInv`
  (`mLock = t` exactly when `t`'s pc is inside) is inductive over the types.
- `CacheIsCoherent`: `Spec => []CacheCoherent`. It is not inductive: after
  `SendRoute` the driver has a device that is not saved yet, and only the thread
  about to save it knows which. `PendingInv` says that a thread between RPC and
  save wants what the driver has; keeping it needs `LockInv`, for two threads
  there would spoil each other's. `IInv` is the conjunction.
- `ImplementsRouteCache`: `Spec => RoutesAtomically`. `StepKinds` sorts all steps
  into those that touch neither route nor driver (`Aside`, `Still`) and the three
  that route; the former are a clearing or a stutter, `SendRoute` is the abstract
  route, `DisableOld` and `SaveDevice` are stutters, the latter because its thread
  is the only one on the way.

*`AudioSettledProofs`.* What holds when all calls have returned. The invariants
have one form: a discrepancy exists only while some thread stands at a point from
which it is bound to repair it.

- `RequestsConverge`. `Coming(t)`: `t` will select a route before its call
  returns. `ConvergeInv`: somebody is coming, or what is selected, and else what
  is current, is what outputs and flags call for. A writer of either is coming; a
  `Select` reads the latest values under the lock, so that `LockInv` makes it the
  only one deciding; a clearing leaves no device, which claims nothing.
- `MutesFollow`. `MutedInv`: the mutes in force are those of `mFmPrev` and
  `mMicMute`, which every send and every `setMicMute` renews. `ComparedInv`: when
  FM differs from `mFmPrev`, a thread is bound to reach `dr_compare`.
- `PinsFollow`. The switch of the pins compares the present FM flag with the
  device of an earlier route. `PinsInv` separates the time between the end of FM
  and the `Select` that follows it (`FmPending`), when pins may be back already and an
  older route may still bring an FM device; outside it wants, current device and
  pins agree with FM. `LateInv` is what an older route that arrives after fm on may
  find.

*`AudioProcessingProofs`.* `ProcessingMatches`: the features on are those of the current
device and mask unless a `write` was overtaken. Five parts make it inductive. `Processed`:
the features of a playing device differ only while a thread is about to switch them
(`ProcPoint`), or to declare the playback over. `SavedInv`: what the call under the lock
has read is what its route saved, because only one thread saves at a time. `UpToDate`: so
is what a `write` without the lock has read, until a save marks it overtaken. `ReadInv`
says how far a call has read, `WriterInv` that only the mixer thread calls without the lock.

*`AudioInputsProofs`.*

- `InputsTypeCorrect`, `ListedStreamsExist`, `NothingIsLeaked` from one invariant:
  `CallInv` says what each stage of an open or a close leaves in `mInputs` and
  `allocated`, and that the remembered index is that of the stream; `DriverInv`
  that only a listed stream has the driver. `IndexIsInjective` is where distinct
  addresses come in.
- `StreamsKeepRouting`: `SpecInputs => []CacheCoherent /\ RoutesAtomically`. A step of
  `AudioInputs` is a step of `AudioHardware` or touches no route
  (`InputsStepKinds`), so the coherence and the refinement hold in the composition.

*`FmHandoffProofs`.*

- `HandoffTypeCorrect`, `SingleInstance` (one listener on the socket).
- `DeviceOpenedOnce`: `Spec => []OpenedOnce` for any number of daemons, clients
  and attempts. `HInv` adds to the types that the listener is unique, that
  backlogs belong to listeners and, as long as nobody was killed or late, that a
  live service has a daemon on its way or listening, that whoever holds the device
  does so with the daemon that opened it, and that nobody reaches the fallback
  before a daemon has it.
- `ImplementsRadioDevice`: `Spec => SharesOneFile`, kills and late clients
  included. It needs that a daemon that has opened the device and not ended holds
  it, so that it passes on and loads through a file that is open.
- `LoadedFirmwareKept`: `Spec => FirmwareKept`, from the refinement's steps.

*`AudioPolicyProofs`.*

- `PolicyTypeCorrect`: `Spec => []PolicyTypeOK`; the queue holds commands, so the
  level computed from the head of it is in range.
- `CallAlwaysHasDevice`: `Spec => []CallHasDevice`. `PhoneInCall` says that in a
  call the order of priority of PHONE holds no A2DP device and ends with the
  earpiece or the speaker; the first available element of a sequence
  (`FirstIsOne`) is found with the library's well-foundedness of `<`. `CallInv` adds that
  the built-in devices stay available, which is an assumption on `Pluggable`.
- `CallFollows`: `Spec => []CallFollowsPolicy`. `QueueInv` says that the last route
  and the last volume of each kind in the queue are what the policy wants now, and that a
  voice volume follows every route; `PendingInv` that a level waiting for the lock is that
  of the command at the head, for a device of the route when no route is left;
  `ArrivedInv` that in a call what is no longer queued has arrived, and that with no
  volume queued the last request is of its level, on that route.
  The lemmas on the last command of a kind, after an append and after the
  execution of the head, are about sequences of any length.

*`CameraProofs`.*

- `CameraTypeCorrect`: types, and at most six calls pending.
- `FlagIsRight`: `Spec => []FlagFollowsBlob`. `CallsInv` ties `pc` to the first
  call of `todo`; `FlagInv` says that the flag and the blob differ only during an
  exposure and between the blob's start and the assignment that follows it.
- `BuffersAlwaysFit`: `SizeInv` says that the cache of an open camera has the size
  set in the blob, and that from a start to its registration the heap has it too;
  by `FlagInv` that start was from rest, so the heap is the one just allocated.
- `PreviewAlwaysShown`: `Spec => []PreviewIsShown`. `OrderInv` says which calls may
  still follow which; `ScreenInv` what a pause, a surface and a heap imply, and
  that an activity that believes it previews with nothing registered has the call
  that ends this belief, or registers, before it, or runs on a heap that was refused
  (`Refused`).

*`WifiProofs`.* `WifiTypeCorrect`, where `QueuedOnce` says that init has no start queued
twice. `LoadUp`: during a call only its own script is under way or asked for, so the answer
it takes is that script's. `LoadedUp`: whenever `check_driver_loaded` says yes the
interface is up, with overlapping calls too. `OkInv`: from its first write to the
interface the load script keeps `ok` out of the property (`Inserting`), and nothing is
about to write it there (`AnsweringOk`) while the module is in and the interface is not up;
an `ok` written again by an old script finds no module, or one that is up.

*Only model-checked.* Liveness (`CallsReturn`, `AcquireReturns`, `PolicyReturns`,
`PreviewReturns`): the prover has no support for fairness and `ENABLED`. Absence of
deadlock, for the same reason. That each hypothesis of the table is needed is shown by TLC alone: by
the runs `AudioRerouteLost` and `WifiLateAnswer`, and otherwise by a run of the same
property on an instance that breaks it, which ends in a counterexample. So is that
`OnlyWriteIsOvertaken` needs its exemption. Facts about
recursively computed data would need induction over data, which is out of the prover's
reach as well; no module here uses recursion.

## 5. What is not modelled, and the plan

To come:

1. Wi-Fi: start and connection of the supplicant, which needs its control socket.
2. Camera: recording (which shares the preview's flag through `stopPreview`) and the
   blob's rejections with a cache that is put back.
3. Audio: the parser of the filter table, as an operator over rows.

Proofs: abstract specifications of what the other components promise (a call's
output for the policy, one preview for the camera) with their refinements, and
theorems about the parts above once they are modelled.

Known and stated by no property: SCO forced without an SCO device leaves the call on the
earpiece at the maximum, with the user's index rejected; a delayed volume (delays are left
out) may be overtaken by a later one; a route or a mute whose RPC failed is not repeated.

Left out for good: lights (each setter is one critical section; the trackball's
cache is never written, which is plain from the text), the patch scripts (their
steps are git's), recovery graphics (sequential, correct when the pixels are), the RIL's
parcel layouts (a vendor format without a reference here; the AID cached
from an asynchronous answer is listed as a hazard), user-interface patches
(against files that are not in this repository), makefiles, key layouts and vendor
binaries (no logic of their own).

## 6. Running

    tlc -config AudioRouting.cfg MCAudioHardware.tla
    tlc -config FmHandoff.cfg MCFmHandoff.tla
    tlc -config WifiDriver.cfg WifiDriver.tla
    tlc -config AudioInputs.cfg MCAudioInputs.tla
    tlc -config AudioPolicy.cfg MCAudioPolicy.tla
    tlc -config CameraPreview.cfg CameraWrapper.tla
    tlapm AudioHardwareProofs.tla        (and the other seven *Proofs modules)

`PROJECT.json` names the module of every run, maps every definition to its source
lines, and gives for every checked property a plausible bug that breaks it: a
definition marked `Mutant:` in the module, which stands next to the one it replaces.
