# libvidcap: TLA+ specifications, model checks and proofs

libvidcap captures video from cameras through one C API (`src/include/vidcap/vidcap.h`)
with three backends ("sapis"): Video4Linux, QuickTime and DirectShow. This directory
specifies the parts of the library where threads, failures and buffer arithmetic meet,
model-checks them on small instances with TLC, and proves the central properties for all
values of the parameters with TLAPS. `PROJECT.json` is the index: components, runs,
altered definitions used to test the properties, a map from every definition to the
lines it models, findings, hazards and theorems. Paths below are relative to
`src/src/` of the repository.

## 1. The system

### Components, state and operations

| Component | State | Operations | Where it is hard |
|---|---|---|---|
| Source API, `vidcap.c` | the source context (`sapi_context.h`): `src_state`, registration (`capture_callback`, `capture_data`), formats, converter, buffers, window | acquire, bind, start, stop, release, info | runs in the application's thread with no lock, while the backend's thread notifies; calls fail half way |
| Notification, `sapi.c` | `callback_frame`, locals of `deliver_frame` | `sapi_src_capture_notify`, `deliver_frame` | reads the context in steps; after an error it ends the capture from the backend's thread |
| Frame rate, `sapi.c` and `sliding_window.c` | ring of recent frame times, `frame_time_next` | create, slide, peek, `enforce_framerate` | ring at its limit, int products, stalls |
| Double buffer, `double_buffer.c` | two slots with stamps, two counters, two mutexes | write, read | two threads that never block, counters read outside locks |
| Capture timer thread, `sapi.c:398-497` | idle and kill flags | loop, idle | idle flag is a race; never started (`vidcap.c:322`) |
| V4L backend, `sapi_v4l.c` | device, ring of mmap buffers, two frame counters, `capturing`; user and acquired source lists | scan, acquire, validate, bind, start, capture thread, stop, release, monitor | overlapped captures, silent end of the thread, lists and the monitor thread |
| QuickTime backend, `sapi_qt.c`, `quicktime/` | decompression session, sequence grabber, source list with flags | scan, acquire, validate, bind, start, capture thread, stop, release, monitor | failed captures' threads that are still reporting or ending when the next one starts or the context is freed, rows with padding |
| DirectShow backend, `sapi_dshow.cpp`, `directshow/` | events, flags polled by several threads, the filter graph, registry of acquired sources | construct, start, stop, cancel, terminate, bufferCB, graph and device monitors, formats | four threads kept apart by plain flags |
| Library and sapi registry, `vidcap.c` | sapi list, reference counts, source list, notification callback | initialize, destroy, enumerate, acquire, notify | notification registered and replaced without a lock, library released while threads are left |
| Conversion, `conv*.c` | none | converters, sizes, removal of padding | odd dimensions |
| OS wrappers, logging, examples | | | mutex semantics only |

### Interactions

The application calls `vidcap.c`; `vidcap.c` calls the backend through function pointers
in the source context (`start_capture`, `stop_capture`, `format_validate`,
`format_bind`, `release`). The backend's capture thread calls
`sapi_src_capture_notify`, which reads the context that the application's thread
writes, enforces the frame rate, removes row padding, converts, and calls the
application back. What keeps the two threads apart is that a backend's `stop_capture`
returns only when no notification is in progress: V4L and QuickTime by joining their
thread, DirectShow by an exchange of flags.

A second thread of each backend watches for devices and calls the application's source
notification. It reads the registration that `vidcap_srcs_notify` writes; V4L and
QuickTime stop it with a flag and a join, DirectShow with a message to its window and a
mutex around the callback. Acquisition goes through three records of what is in use: the
library's list, the backend's own (V4L's acquired list, QuickTime's flags, DirectShow's
registry) and the device itself.

### What makes each component correct

* A registered client is called with its own user data, one call at a time, and never
  after `vidcap_src_capture_stop` has returned (module `CaptureContract`).
* Nothing that a notification uses is freed or replaced under it; nothing leaks.
* Every call returns.
* Frames are whole, in order, in the format that was bound, within their buffers, and
  not faster than the bound rate.
* The driver is asked only for what it accepts, and a stopped capture leaves nothing
  behind in it.
* A device that is lost is reported.
* A device is leased to one source context at a time, however an acquisition fails.
* After `vidcap_srcs_notify` has taken a registration away or replaced it, it is not called.

## 2. Modules

| Module | Models | Kind |
|---|---|---|
| `CaptureContract` | what a capturing source promises its application | abstract specification |
| `SourceContext`, `SourceContextProofs` | `vidcap.c` source functions, notification of `sapi.c` | shared by the backends (they EXTEND it) |
| `V4LCapture`, `V4LCaptureProofs` | capture of `sapi_v4l.c` with `SourceContext`; the driver is external | refines `CaptureContract` |
| `QtCapture`, `QtCaptureProofs` | capture of `sapi_qt.c` and `sg_source.c` with `SourceContext`; QuickTime is external | refines `CaptureContract` |
| `SourceStateMachine`, `SourceStateMachineProofs` | `SourceStateMachine.cpp`, start/stop/teardown of `DirectShowSource.cpp`, with `SourceContext`; the graph is external | refines `CaptureContract` |
| `Formats` | fourccs, image sizes, which conversions exist (`conv.c`) | operators |
| `DirectShowFormats` | `DirectShowSource.cpp`: `checkFormat`, `findBestFormat`, `findBestCapability`, scaling | operators on `Formats` |
| `FormatBind`, `MCFormatBind`, `FormatBindProofs` | `vidcap_format_bind`, the three backends' validate and bind, the buffers a delivery touches | sequential |
| `DoubleBuffer`, `DoubleBufferProofs` | `double_buffer.c` with the mutex wrappers | two threads |
| `RecentFrames` | the last N frame times | abstract specification |
| `FrameWindow`, `FrameWindowProofs` | `enforce_framerate` and `sliding_window.c` | refines `RecentFrames` |
| `DeviceLeases` | a unit has at most one holder | abstract specification |
| `SapiContext` | library, sapi and source list functions of `vidcap.c` | shared by the backends |
| `SourceMonitor` | the threads that notify of devices: `sapi_v4l.c`, `sapi_qt.c`, `DevMonitor.cpp` | extends `SapiContext` |
| `V4LSources`, `QtSources`, `DShowSources` | scan, acquire, release and monitor of one backend each | extend `SourceMonitor` |
| `Sources`, `SourcesProofs` | the library with the backend it was built with | refines `DeviceLeases` |

How state and actions correspond to the code: variables carry the names of the fields;
each thread has a control point (`apc` application, `npc` notification, `tpc` capture or
monitor thread, `old` and `onpc` QuickTime threads of failed captures that have been
replaced or left behind, `spc`/`bpc`/`dpc` DirectShow, `wpc`/`rpc` double buffer) whose
values name the statement reached. An access to a field that another thread may touch is
a step of its own; statements between two such accesses are one step. A definition named
`X_something` directly before `X` is an altered form, a plausible mistake in the code,
with which the property named in its comment must fail; it is used nowhere else.

`SourceContext.Notify` is called by whichever thread of the backend captures. In
`SourceStateMachine` two threads can call it; the notification has one control point
because `OneNotifier` shows that they never do so together.

`Sources` chooses the backend in its initial state, so one run and one set of proofs
speaks of all three. A source is a pair of device and channel; two channels of a V4L
device exclude each other, two inputs of a QuickTime device do not (`Sources.Unit`).

### What the environment is assumed to do

* One application thread calls the library, and not from within a callback.
* With V4L and QuickTime it leaves one monitor thread at a time: it does not register a
  client while an earlier registration's thread runs, which would start a second thread
  and lose the handle of the first. Where no such thread runs it may register a client
  over another one, and with DirectShow at any time.
* It destroys the library only when it holds no source, and does not initialize it again
  beside a monitor thread that the last `vidcap_destroy` has left.
* Memory that a QuickTime release frees under a replaced thread is not another context's
  by the time that thread uses it: it may still be readable, or the process ends
  (`Faulted`).
* A V4L driver grants the window it is asked for or refuses. A DirectShow capability has
  steps and intervals greater than 0.

Nothing is assumed of the mutexes beyond what `os_funcs.h:205` creates (default mutexes,
which anybody may unlock), of the number of buffers a V4L driver reports, or of the time at
which a QuickTime capture is started, stopped or released after a failure.

## 3. Runs

| Run | Question | Bounds |
|---|---|---|
| `DoubleBuffer` | until a lock is stolen, are frames whole and in order? do locks come back, does the last frame arrive? | 6 frames: both slots are refilled, with drops and stolen locks |
| `V4LCapture` | ring protocol, contract, no use after free, stop returns | 3 buffers and counters modulo 16: the counts before and after the wrap share a buffer, as they do modulo 2^32; 2 clients, 2 formats |
| `QtCapture` | frames decoded within their session, nothing left recording, contract, stop returns | 2 clients, 2 formats, 3 windows, 2 threads left of failed captures beside a third |
| `SourceStateMachine` | two notifiers kept apart, nothing replaced under a delivery or its scaling, contract, every call returns, a loss is reported | 2 clients, 2 formats, 2 losses of the device per acquisition, 2 windows |
| `FormatBind` | buffers and formats after any sequence of binds, failed ones too, with starts, deliveries and stops between | an odd width and heights 2, 5: odd and even areas; all 8 fourccs, all V4L palettes, two DirectShow devices (`MCFormatBind`): one that can be used natively or scaled down, one with too small, too large, unmeasurable and slow capabilities |
| `FormatBindRefused` (violation) | the converters' requirement after a bind that failed | V4L, one width |
| `FormatBindUnconverted` (violation) | is the bound format the one delivered? | QuickTime, one size |
| `FormatBindStale` (violation) | does every DirectShow start render the graph anew? | the same two devices |
| `FrameWindow` | spacing, rate, and ring against queue | window of 10 frames (below 10, nine tenths of a period already imply the rate); camera gaps of half a period and of more than two; long enough for the window to fill and wrap |
| `FrameWindowOverflow` (violation) | the rate when the int product overflows | scaled: the product overflows within the window, as for 2997/100 it does from 22 frames of 119 |
| `Sources` | leases, notification and its replacement, end of the monitor, for each backend; every call returns | 2 devices, one with two channels, so that V4L has two units and the others three; 2 contexts, 2 clients, 1 source lost by an acquisition that fails late |
| `SourcesRegistry` (violation) | does the DirectShow registry hold only acquired sources? | 2 devices, 2 contexts |

Deadlock is checked in every run except those of `FrameWindow`, which end when the camera
delivers no more frames (`MaxTime`), and two where the process may end: in `Sources` a
monitor thread that reads a callback twice may call a null pointer (`null_call`), in
`QtCapture` a replaced thread may use a context that has been freed (`Faulted`).
The bounds of `Sources` have no device that V4L finds to do more than capture
(`NotCapture`, where a scan ends early). With such a third device between the others it
passes as well, in somewhat more than five minutes; the proofs are for any devices.

Bounds that are not in the code: `MaxFrames`, `MaxTime`, `MaxWindows` (windows allocated
at once; an error followed by a new start leaks one, `vidcap.c:598`), `Left` (QuickTime
threads left at once of captures that failed), `MaxLosses` and `MaxLost` (sources an
acquisition leaves open when it fails late). `CounterMod` stands for 2^32 and `IntRange`
for the values of an int.

### Fairness

* `V4LCapture`: weak fairness of a call that has begun, of the capture thread (the
  application's callback returns), and of the driver for each queued buffer. The
  application need not call.
* `QtCapture`: weak fairness of a call that has begun, of the capture thread and of each
  thread that is left, as long as the process has not faulted.
* `DoubleBuffer`: the timer thread loops for ever (`sapi.c:419-487`) and a write that
  began ends.
* `SourceStateMachine`: weak fairness of each thread; strong fairness of the two loops
  that poll `callbackInProgress_` every 10 ms: if the graph refused to stop, frames go on
  being delivered and refused, and the flag flickers; a refused delivery takes no time
  beside the pause between two frames. Destroying the graph ends its streaming (external).
* `Sources`: weak fairness of each thread and of a call under way; strong fairness of
  DirectShow's calls that take the registration mutex and of the message that ends its
  thread, which compete with device changes that may go on for ever: Windows serves a
  waiting thread and a queued message in turn.

## 4. What the violations show

* `FormatBindRefused`: a rebind that fails after line 475 of `vidcap.c`, or in the
  driver (`sapi_v4l.c:727`), leaves the source bound with formats that do not match its
  buffers; a capture writes past a buffer or to a null one.
* `FormatBindUnconverted`: QuickTime (`sapi_qt.c:589-602`) and DirectShow accept a bind to
  RGB24, RGB555, YVU9 and other formats to which nothing converts the RGB32 they then ask
  the device for. `vidcap.c:481` takes the missing converter for none needed, and
  `sapi.c:313` hands the RGB32 image on as `fmt_nominal`. What holds of every bind is
  `HonouredOrNative`, in run `FormatBind`.
* `FormatBindStale`: a DirectShow start whose `Run()` fails leaves `graphIsSetup_`; after a
  rebind `setupCapGraphFoo` (`DirectShowSource.cpp:354`) does nothing, and the graph runs
  with the earlier media type.
* `FrameWindowOverflow`: the advertised rate 2997/100 (`hotlist.c:62`) overflows the int
  product of `sapi.c:96`.
* `SourcesRegistry`: `okayToBuildSource` enters a source in the registry before it is
  constructed; a construction that fails leaves an entry that points into the freed
  context (`DShowSrcManager.cpp:201`).

Some passing properties except a case in which the code does not do what one would wish.
The models contain each of these cases and TLC reaches it; the property says that there is
no other.

* `TornOnlyAfterTheft`, `FramesInOrder`: when both `trylock`s of a read fail,
  `double_buffer.c:163` unlocks a slot the writer holds, and a default mutex lets it. A
  later read may then copy a slot that is being written: `NoTornRead` alone fails. (The
  double buffer is compiled in, but `use_timer_thread` is 0, `vidcap.c:322`.)
* `IllegalOnlyAtCollisions`: nothing checks the number of buffers a V4L driver reports
  (`sapi_v4l.c:554`, 775). With one buffer the second capture is started into a buffer
  still queued; with three the same happens when the counters wrap. The driver refuses and
  the capture ends silently.
* `DeliveryKeepsContext`: `DirectShowSource::stop` returns also when the graph refuses to
  stop (`DirectShowSource.cpp:433`). The graph then delivers on, and frames are scaled
  into `buffer_` (1026-1040) before any flag is raised; a bind frees that buffer (748).
* `FrameIsUndisturbed`: an error notification of a QuickTime capture makes the source bound
  (`sapi.c:388`) before it clears the registration (390-392). A capture started between
  loses its registration to it. `CapturedFor` is the client of the capture under way; the
  contract is implemented for that client, whose calls cease without a stop.
* `LossReported` (DirectShow), `EndReportedHolds` (QuickTime): a capture without a
  registration for this reason has nobody to report to.
* `LeaseSpec`: a QuickTime input asked for by name while it is held is handed out with a
  warning (`sg_manager.c:177`); `shared` keeps it apart until nobody holds it. A V4L source
  acquired by name before any enumeration is not recorded (`sapi_v4l.c:933`) and later
  scans leave it out; the device alone prevents a second lease.
* `JoinedAtDestroy`: V4L's destroy neither stops nor joins the monitor thread
  (`sapi_v4l.c:1040`), and DirectShow's returns without waiting when `WM_CLOSE` cannot be
  posted (`DevMonitor.cpp:128-133`).
* `CallsAreOwn`: while `vidcap_srcs_notify` replaces a client (`vidcap.c:262-263`) one
  client may be called with the other's data; the exception ends with the call.
* `ReleasedIsQuiet` is about the thread a release joins. A thread that was replaced may
  still be at work when the context is freed (`sapi_qt.c:658-673`); what it then does, and
  that the process may end by it, is in the model (`Orphan`, `OrphanEnds`).

## 5. Proofs

All theorems but four are of the form `Spec => ...`, for every value of the constants
that satisfies the named assumption of the module and those stated in the theorem.
(The four are `ContractMeans`, about the abstract contract, and `RingSizes`, `TalliesAgree`
and `ScalingKeepsOrder`, about operators.) A theorem whose property no run checks has its
property defined beside it in the proof module; those properties, and the inductive
invariants, were checked by TLC on instances like those of the runs before they were proved.

* `DoubleBufferProofs`, for the mutexes the code makes. What holds until a lock is released
  under its holder is told from what holds always by the history `stolen`, the slots whose
  lock was. `LockInv` (a lock is held by nobody but the side between its trylock and its
  unlock, and unless stolen that side does hold it) gives `TornOnlyAfterTheftHolds` and
  `LocksComeBackHolds`; with the relation between stamps and frame numbers in both slots,
  `FramesStayInOrder`. Whatever was stolen, `ReadCountNeverFalls`; and from `StampInv`, that
  the write count determines both stamps: the slot with the newest complete frame is never
  the one being written (`NewestIsKeptHolds`), and with `FrameInv`, that a reader on its way
  to a slot has seen a stamp there, no slot is delivered before it was written
  (`ReadsAFrameHolds`; the code's last check, `count < read_count - 1`, does not see to
  that before the first read). `LastReadInv`, that the slot stamped with the last read's
  count is the one copied out, gives `CaughtUpHolds`, again until a lock is stolen.
* `V4LCaptureProofs`, for every ring and counter width (`V4LCaptureAssumption` says that
  there is a buffer and a count). `OwnerInv` relates the control points of the two threads
  to `src_state` and to the registration (while the capture thread is inside a
  notification the application is capturing or waiting for the join), and gives
  `WindowsAccountedHolds`, `NotifyKeepsContextHolds` and the refinement
  `ContractHolds`, step by step. `RingInv` says which buffer is in which state at each
  control point, also where successive counts name one buffer: a kickoff into a queued
  buffer is refused and ends the capture. It gives `DeliveredBufferIsQuietHolds`,
  `RingProtocolHolds` and `NothingLeftQueuedHolds`. `RingSizes` says which rings collide:
  one buffer, and sizes that divide 2^32 - 1 = 3 * 5 * 17 * 257 * 65537, with which the
  counts 2^32 - 1 and 0 share a buffer when a counter wraps (after years of frames).
  `StopIsShort` is the safety half of `StopReturns`: a stop finds a thread to join, and
  `StepsLeft`, a rank on the thread's control points, falls with each of its steps once the
  flag is clear, so that no further round, and at most one more frame, comes between.
* `QtCaptureProofs`, for any number of threads left of failed captures. A capture that fails
  gives the context back by itself, so the owner is told by `Works`: a thread works on the
  context until its error notification has made the source bound again. `LeftInv` says what
  a thread that is left can still do to the context: take the registration away, half by
  half. `OwnerInv` with it gives `FrameIsUndisturbedHolds`, `ReleasedIsQuietHolds`,
  `ContractHolds` and `CallsHold`, for the client of the capture under way. `SessionInv`,
  who holds the decompression session and who has to stop the grabber, gives
  `DecodeHasSessionHolds` and `NothingLeftRecordingHolds`. `EndReportedHolds`: a capture ends
  by a stop or past the report of an error, and that report passes the callback without a
  call only where the registration is gone. `StopsInOneRoundHolds` is what `StopIsShort`
  is for V4L.
* `SourceStateMachineProofs`. Here start answers before the graph runs, and two flags take
  the place of a join. `Going` says that a capture has been asked for and has not ended;
  it begins only with a start that is sent, and `GoingInv` keeps the application's thread
  outside the context while it holds. `FlagInv` is the exchange of the flags: one thread
  raises `callbackInProgress_` before it reads `allowCallbacks_`, the other clears
  `allowCallbacks_` before it waits for `callbackInProgress_`. `CommandInv` and `LifeInv`
  relate pending events to the call that sent them. They give `OneNotifierHolds` and
  `ContractHolds`, and with `GraphInv` and `ScaleInv`, by which a frame is being scaled only
  while the graph runs, is being stopped or has refused to stop, `DeliveryKeepsContextHolds`.
  `EndInv` relates the end of a capture to what its client has been told: the callback with
  an error status is the last (`FinalIsFinalHolds`), and without a stop there is one
  (`EndReportedHolds`, except where an earlier error had taken the registration away,
  `sapi.c:390`). `OrderInv` is about the flags that admit commands: a start is never
  refused, a stop never arrives before the start it is to end, and what the application
  waits for is pending or being done, whatever the device does (`CommandsKeptHolds`).
* `SourceContextProofs` holds the lemmas on the contract that the backends share: an error
  may take half a registration away while a start puts halves in place. `ContractMeans`
  says what implementing `CaptureContract` is good for: a call in progress is made with
  callback and data of the client that is registered, though the two fields are read one
  after the other without a lock, and that registration stays until the call has returned.
  `CallsHold` of each of the three backends' modules carries it over to the backend.
  (QuickTime's contract has its own mapping, `CaptureOf`, with `CapturedFor` as the client.)
* `FormatBindProofs`. `BindInv` (what an unheld source looks like, which buffers belong
  to which formats after a bind that succeeded) and `FrameInv`; arithmetic lemmas bound
  what converters, scaling and destriding write by the sizes `conv_fmt_size_get` computes,
  for all dimensions, DirectShow capabilities and backends, and give
  `HonouredOrNativeHolds`. The model has the loops of
  `ScaleAndFlipImage` in closed form; `TalliesAgree` proves that each loop, tally by tally,
  stops at that index, and `ScalingKeepsOrder` that scaling up skips no column and scaling
  down repeats none.
* `FrameWindowProofs`, for every rate with a window of at least one frame. `RingInv` places
  head and tail and makes a slide a step of `RecentFrames` (`KeepsRecentFramesHolds`);
  `HistoryInv` says that the ring holds the newest frames that passed; `TimeInv` that
  `frame_time_next` keeps both distances. `RateBoundedHolds` assumes that the product of
  window, second and denominator fits an int (`Fits`), which `FrameWindowOverflow` shows to
  be needed.
  That frames are not held back for too long is proved under `Fits` too.
  `HeldBrieflyHolds`: after a frame that passed none is held for longer than a tenth of the
  window (`LongestPause`), also after a stall and a burst; the invariant is that any two
  frames that passed are as far apart as their number in between demands (`Spread`), so the
  oldest in the window lies far enough back. TLC finds the bound attained.
  `NoneHeldHolds`: a camera whose gaps are no shorter than the exact period
  (`SlowCamera`, an assumption on `Gaps`) loses no frame at all, in spite of the divisions
  that round; here `Spread` is kept with the exact period, multiplied out.
* `SourcesProofs`. `MonitorInv` (flag, mutex and thread against the call that starts or stops
  it) gives `UnregisteredIsQuietHolds`, also where one client replaces another, and
  `JoinedAtDestroyHolds` with its two exceptions. `NotifyInv` says what the monitor thread
  reads while `vidcap_srcs_notify` assigns callback and data one after the other: from the
  return of the call on the thread calls the registered client with its own data
  (`CallsAreOwnHolds`), and a null callback is called only within a call that unregisters or
  in a thread that `vidcap_destroy` could not end (`FaultsUnregisteringHolds`). `TakenInv`
  (each backend's record against what the contexts hold) gives the refinement
  `LeaseHolds`, apart from what is `shared`.

Every safety invariant, action property and refinement that a passing run checks is thus
also proved. Only model-checked: liveness (`StopReturns`, `CallsReturn`, `LossReported`,
`LastFrameDelivered`), which is out of the provers' reach; `StopIsShort`,
`StopsInOneRoundHolds`, `CommandsKeptHolds`, the two `EndReportedHolds` and `CaughtUpHolds`
are what is proved of it: that no state and no step stands in the way, fairness left
aside. Of `findBestCapability` nothing is proved beyond the type of its result: it is an
induction over the list of capabilities.

## 6. What is not modelled, and why

* Calls of the API from within a callback, and from several threads. A stop from a callback
  waits for itself.
* With V4L and QuickTime, a second monitor thread beside the first one, and a library
  initialized again beside a monitor thread that was left (see section 2).
* What a QuickTime thread that was replaced does to a context freed under it once the
  memory has become another context's.
* Failures of `SetEvent`/`ResetEvent`; `callbackCancellationInProgress_` is read only
  after such a failure.
* A V4L driver that grants another window than it is asked for: `source_format_bind` reads
  the window back (`sapi_v4l.c:769`) and does not compare it, so captures would be of other
  dimensions than `fmt_native` says.
* Rates below one frame in `WindowSeconds`, whose window is empty (`vidcap.c:638`), and a
  clock that is set back (`sapi.c:81`).
* The capture timer thread (`sapi.c:398-497`) and the branches for it in `vidcap.c` and
  `sapi.c`: never taken, because `use_timer_thread` is 0 (`vidcap.c:322`) and nothing sets
  it. The double buffer it would use is modelled on its own.
* The paths for a size of 0 in `vidcap_format_bind` (491-502, 524-530): no format that
  passes validation reaches them.
* More than one sapi: every supported build registers one.
* Pixel arithmetic, logging, which settings a V4L device is probed with, the creation of
  DirectShow's window class, the examples and the tester.

## 7. Plan

Done: capture of the three backends against `CaptureContract`; binding, conversion and
scaling; frame rate; the double buffer; source lists, acquisition, release and
notification against `DeviceLeases`; a theorem for every safety property of the runs, and
theorems on what the runs do not state: how captures end, what a stop waits for, what
callbacks are called with, and how long frames are held.

What could follow:

1. The timer thread with the double buffer between two threads, should
   `use_timer_thread` be given a meaning; its idle flag is read by
   `sapi_src_timer_thread_idled` without a lock (`sapi.c:493`).
2. Two application threads on one source, once the library says which calls may meet.
3. `SourceContext` with `FrameWindow` in place of the free choice of `Deliver`, and with
   `FormatBind` in place of `fmt`.
