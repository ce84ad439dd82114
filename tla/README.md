# Solar Stewart Tracker: TLA+ models, checks and proofs

The program keeps a three-legged Stewart platform pointed at the sun. A camera
delivers frames, a vision function finds the sun, a controller turns its
position into a platform attitude, inverse kinematics turns the attitude into
three servo angles, and an actuator stage drives the servos. An operator may
take over with two potentiometers, from a Qt window or from a command line.

This directory models that runtime (threads, queues, callbacks, lifecycle, modes,
devices, front ends) and the functions between a measurement and the servo angles,
checks them with TLC, and proves the safety properties with TLAPS. Paths below are
relative to the repository's inner `src/` unless they start with `docs/`.

## 1. The system

### Threads and how they interact

| Thread | Created by | Does | Touches |
|---|---|---|---|
| application | `main`, Qt or the CLI event loop | `start()`, `stop()`, `enterManual()`, `exitManual()`, `setManualCommandSource()`, `setManualSetpoint()` | everything |
| camera | the `ICamera` backend | `onFrame_()`: `frame_q_.push_latest()`; the frame observer | `frame_q_`, the window's pending frame |
| control | `SystemManager::start()` | pops frames; tracker, controller and kinematics run as nested callbacks; `cmd_q_.push_latest()` | `frame_q_`, `state_`, `cmd_q_` |
| actuator | `SystemManager::start()` | pops commands; `ActuatorManager::onCommand()`, then `ServoDriver::apply()` | `cmd_q_`, slew history, servos |
| ALERT/RDY pin | the potentiometer input | reads a conversion, starts the next; `onManualPotSample_()` solves when MANUAL and the source is Pot | the I2C bus, `state_`, source, `cmd_q_` |
| data-ready pin | the IMU | reads a sample; `onImuSample_()` stores it | its bus, `latest_imu_*` |
| GUI dispatcher | `GuiManualDispatcher::start()` | pops the latest GUI setpoint, solves when MANUAL and the source is Gui | its queue, `state_`, source, `cmd_q_` |
| converter | `MainWindow` | turns the pending frame into an image | `pendingFrame`, `latestImg_` |

Shared state: the atomics `running_`, `state_`, `manual_source_`,
`imu_feedback_mode_`; three `ThreadSafeQueue`s (frames 2, commands 8, GUI
setpoint 1); `ik_mtx_` around each solve *and* the command push it emits;
`hist_mtx_` around the slew history; the plain `bool` `ServoDriver::running_`;
`convMutex_` and `imgMutex_` of the window.

### Components

| Component | State | Operations | What is hard | What makes it correct |
|---|---|---|---|---|
| `ThreadSafeQueue` | deque, `stopped_`, mutex, condition variable | `push`, `push_latest`, `wait_pop`, `try_pop`, `stop`, `reset`, `clear` | lost wake-ups, stop against sleep, a full queue, notification outside the lock | FIFO; no wake-up lost; a join after `stop()` ends |
| `SystemManager` | atomics, two threads, two queues | lifecycle, mode API, event handlers, callbacks | checks and writes of `state_` by several threads; failures in the middle of `start()`; leftovers across sessions | clean stop; ordered start-up; fresh sessions; exclusive actuator stage; silence in FAULT |
| `GuiManualDispatcher` | worker, `running_`, one-place queue | `start`, `stop`, `setSetpoint`, `dispatch_` | ownership is checked, then taken | the labels of the window name the owner |
| `BackendCoordinator` | two backends, their callbacks | `start`, `stop`, `destroy` | one of two backends fails; a callback during `stop()` | LIVE never runs without its IMU; everything is undone |
| `ManualImuCoordinator` | source, IMU mode, last IMU sample | builds setpoints, accepts IMU samples | a sample outlives its session | one source owns the path; corrections are fresh |
| `ADS1115ManualInput` | running flag, channel, conversion flag | edge callback, `start`, `stop` | one missed edge or failed read silences it | whole samples that go on |
| `Mpu6050Publisher` | running flag, samples to give up | edge callback, `start`, `stop` | edges that wait, `stop()` against a read | the bus outlives its use |
| `SimulatedPublisher`, `LibcameraPublisher`, camera adapter | running flag, worker, descriptors, request pool | `start`, `stop`, worker loop, request handler | a worker that ends by itself; seven exits; `stop()` against the worker | `ICamera`'s contract; nothing leaked; no request lost; rows read where they are |
| `SunTracker`, `Controller`, mappers | parameters | functions | edges of the image, dead bands, limits, scale | reads inside the frame; direction; neutral when nothing is seen |
| `Kinematics3RRS` | last valid angle and branch per leg, status | `onSetpoint` | unreachable poses, two branches, invalid geometry | the pose decides, not the history; a leg that cannot move stays |
| `ActuatorManager` | `last_targets_`, `have_last_` | `onCommand`, `resetHistory` | history is written before the driver is called, outside the lock | slew limit against what the servos really hold |
| `ServoDriver` | `running_`, hardware | `start`, `apply`, `stop` | two clamps and an inversion; used by two threads | range; used only while running |
| `LatencyMonitor` | map from frame id to stamps | stamps of each stage | ids of different sources; eviction; restart | a record belongs to one frame |
| `LinuxEventLoop`, `CliController` | descriptors, signal mask, input buffer | `run`, `onReadable` | input in pieces, failure of each descriptor, signals | commands whole, once, in order; nothing left open |
| `MainWindow`, `main_qt` | mode, pending frame, image, sequence numbers | buttons, observers, converter thread, timers, closing | three threads and one frame slot; closing against all of them | the preview goes on; labels are true; threads end first |
| `PCA9685`, `LinuxI2CDevice`, `Logger`, `AppConfig` | - | I/O, text, constants | - | not modelled |

`PROJECT.json` lists every hazard at the line where it bites, with the
properties that cover it.

## 2. The modules

| Module | Content |
|---|---|
| `LatestQueue` | the sequence operators of the queue: `HasRoom`, `KeepLatest`, `Ready` |
| `AtomicQueue` | what the queue promises: indivisible operations, no lock, no notification |
| `ThreadSafeQueue`, `ThreadSafeQueueProofs` | the queue at the level of mutex and condition variable, with producers, consumers and the thread that stops and restarts it |
| `SystemManager` | lifecycle, all threads of the pipeline, the mode API, the dispatcher, source and IMU mode |
| `Lifecycle` | what `SystemManager` promises its owner: the states it reports in each phase, what may be up, who may be in the actuator stage |
| `BackendContract` | what `SystemManager` and its two input backends owe each other |
| `SystemManagerInv`, `SystemManagerProofs` | the inductive invariant of `SystemManager` and the theorems |
| `SystemManagerClaims`, `LinuxEventLoopClaims` | statements of documents and comments that the code does not keep |
| `ActuatorStage`, `ActuatorStageProofs` | `ActuatorManager` and `ServoDriver`: clamp, slew limit, inversion, history |
| `LatencyMonitor`, `LatencyMonitorProofs` | the stamps of the pipeline, frame ids of two sources, eviction, records |
| `ADS1115ManualInput`, `Mpu6050Publisher` | the two I2C devices, each with its GPIO thread |
| `BackendCoordinator`, `BackendCoordinatorProofs` | both under the coordinator that starts and stops them, and the IMU half of `ManualImuCoordinator` |
| `Camera` | what `ICamera` promises |
| `SimulatedPublisher`, `LibcameraPublisher`, `CameraAdapter` | the three cameras |
| `CameraBackends`, `CameraBackendsProofs` | the factory's choice of one, shown to implement `Camera` |
| `SunTracker`, `Controller`, `Kinematics3RRS` | the functions of vision, control and manual input, and the solver with its history |
| `Guidance`, `GuidanceProofs` | them in a row, as the callbacks of `SystemManager` connect them |
| `LinuxEventLoop`, `MainWindow` | the two front ends |
| `FrontEnds`, `FrontEndsProofs` | the build's choice of one, each responsible for the same system |
| `MC*` | values for TLC |

They compose as follows. `ThreadSafeQueue` implements `AtomicQueue`, and
`SystemManager` uses queues whose operations are one step each, through the same
operators of `LatestQueue`. `SystemManager` sees the camera and the two backends
as units that start, fail, and call back while they run. For the camera that is
what `Camera` says and the real ones are shown to do. For the backends it is
`BackendContract`, which both sides implement: `SystemManager` with its coarse
units (`UnitsSpec`) and `BackendCoordinator` with the real devices
(`BackendSpec`); its `phase` is the part of `start()` and `stop()` that concerns
the backends. Towards its owner, `SystemManager` implements `Lifecycle`. It shows
that at most one thread is inside the actuator stage and that the driver runs
while it is; `ActuatorStage` starts from those two facts (the guards of
`Command`). It chooses freely what a frame, an estimate or a setpoint is;
`Guidance` computes them. The front ends take `SystemManager` as up, stopping or
down: `Lifecycle` says that nothing is up after a stop, `CallsReturn` that
stopping ends.

### State and steps

*ThreadSafeQueue.* A critical section is one step; a notification and the
wake-up of a sleeper are separate steps, because the code notifies after it
unlocks. Items carry the number under which they were accepted, so that order
and freshness can be stated. `notify_one` wakes any sleeper, or nobody when
nobody sleeps; spurious wake-ups are allowed. `owner` is the thread of
`SystemManager::stop/start` (or of the dispatcher): running flag down, `stop()`,
join, perhaps one `try_pop()`, perhaps `clear()`
(`SystemManager` clears its queues, the dispatcher does not), `reset()` and new
consumers.

*SystemManager.* Each thread has a program counter whose value names the access
it is about to make. One step is one access to shared state: one atomic load or
store, one queue operation, one solve. A solve is one step because
`Kinematics3RRS::onSetpoint()` holds `ik_mtx_` while its callback pushes the
command. Between two steps of a thread all others may move, so that a value
which was read is used when it may be stale, as in the code. `app` walks
through `start()` and `stop()` in source order, with the early returns: a null
camera or a failed driver returns at once; a failed manual backend, LIVE IMU or
camera calls `stop()` and then stores FAULT (`failing`). A frame is "new" or
"old", a command "motion", "neutral" or "old"; what a queue holds becomes "old"
when the next `start()` begins. The content of frames, estimates and setpoints
is a free choice. `StartThreads` is one step since no other thread exists when
it runs.

*ActuatorStage.* Angles are integers. `Command` is `onCommand()` up to the
release of `hist_mtx_`, `Apply` the callback and the driver, so that a thread
may be between the two. `fresh` says that no command reached the servos since
`start()`: the first command after a reset is not slew-limited, in the code
either.

*LatencyMonitor.* What moves through the pipeline is a trace: a frame or a
command with its session and id; a stamp is the trace that left it, so that a
record tells whose times it is made of. The monitor is modelled as it is
(`Stamp` with its eviction, `Close`); of the pipeline only the queues, the
workers and the order of the calls are kept, each step being one call.
`Release` covers every way in which a solved or rejected setpoint leaves a
worker; `Stop` is `SystemManager::stop()` after the joins.

*ADS1115ManualInput.* `start()` and `stop()` are cut where the GPIO thread or
the converter may come between; a handler is one step under `mutex_`, preceded
by the unlocked check of `running_` (`TakeEdge`) and followed by the callback
outside the lock (`Emit`). The converter and the GPIO pin are external: a
configuration written to the converter starts a conversion, its end raises one
edge, edges are delivered one at a time, `GPIOPin::stop()` joins. A read and a
write may fail. `silenced` and `rested` are history: an edge was ignored or the
bus failed; no conversion was under way when `start()` began.

*Mpu6050Publisher* has the same shape, but its sensor measures by itself:
`Measure` sets the data-ready bit and raises edges, reading the status clears
the bit, and a failed read costs one sample and nothing else. The first
`StartupDiscard` samples are given up.

*BackendCoordinator.* `call` is where `SystemManager`'s `start()` or `stop()`
stands among the two backends: the potentiometers first and their failure
fatal, the IMU second and its failure fatal in LIVE only; `stop()` in the
opposite order. A call into a backend is the backend's own chain of steps; the
coordinator waits until it is up, down or failed. `session` alternates with each
`start()`, and a stored IMU sample and the last correction name the session they
come from. The mode and source checks of a potentiometer sample are
`SystemManager`'s; here it may or may not become a setpoint.

*Cameras.* The three share the owner, `running_`, the worker and the last
id delivered; `backend` never changes. In `SimulatedPublisher` a wake-up of
`poll()` is for the timer, for the eventfd, or an error. In `LibcameraPublisher`
each call into libcamera may fail, `held` is what `run_()` has to release, the
handler of a completed request runs on libcamera's thread, and each request is
"queued", "handled" or "away". `Cancel` is a request that comes back cancelled, and
`Requeue` may be refused, as `queueRequest()` may at the start and later; both leave
the request away, in `refused`. A plane has a length, which is what the code sees,
and the stride the driver used, which the code guesses from the length.
`StartAborts` is the end of the process: assigning to a joinable `std::thread`.
`CameraAdapter` latches a row layout on the first colour image, by whether two rows
of the scene agree; `padded` is what the driver really does.

*Guidance.* One step is one measurement on its whole way. Images are sets of
pixels with a luma; a centroid is kept as numerators over one weight, so that no
rounding happens before the controller. Angles and percentages are integers, a
quotient is rounded towards zero where the code has a `float`. The trigonometry
of a leg is the constant operator `Branches`: two horn angles or none.
`chooseClosest`, the switch to the branch that points up, the folding into the
servo range and the per-leg fallback are the code's. `GuiManualDispatcher`'s
clamp and `ManualImuCoordinator`'s builders are operators of `Controller`.

*LinuxEventLoop.* One thread, so a step is one system call or one executed line.
A line is typed in two halves, the second with the newline; a `read()` takes up
to `ReadSize` halves. A signal may come at any time; which thread gets it depends
on the masks: `blocked` is this thread's, `inherited` says that the parent process
had blocked the signals for all threads, the only case in which the signalfd
serves. `calls` is what was asked of `SystemManager`.

*MainWindow.* A handler of the Qt thread is one step. `pending`, `buf` and
`latestImg_` carry the number of the frame their bytes and their geometry come
from, so that a torn image is one in which they differ; the converter copies
under `convMutex_` and converts outside. Closing is the chain `LowerConverter`,
`RaiseFrame`, `NotifyConverter`, `JoinConverter`, then `SystemManager::stop()`.
The dispatcher appears with its check and its later `setManualCommandSource()`.

## 3. The runs

| Run | Configuration | Question |
|---|---|---|
| `queue` | `MCQueueTwoConsumers` | wake-ups, join, and refinement of `AtomicQueue`, with two racing producers and consumers |
| `system_safety` | `MCSystemSafety` | the contracts with the owner and the backends, fresh sessions, the driver's users and the joins of `stop()`; LIVE, both backends, every unit may fail |
| `system_fault` | `MCSystemFault` | a geometry the solver rejects: the owner's contract from FAULT (nothing moves), every call returns although each unit may fail |
| `actuator` | `MCActuatorStage` | slew and history for every sequence of commands to an inverted channel and a frozen one |
| `latency_frames` | `MCLatencyFrames` | without manual commands, whose times are in a record of a frame, across drops, eviction and a restart |
| `backends` | `MCBackendCoordinator` | two I2C devices started, stopped and failing at any point under one coordinator; the contract with `SystemManager` |
| `cameras` | `MCCameraBackends` | each camera with a failure at each of its steps; the contract of `ICamera` |
| `guidance` | `MCGuidance` | images, voltages, GUI values and IMU samples to servo angles |
| `frontend` | `MCFrontEnds` | the command line and the window, from start to exit |
| `claim_*` | `Claim*` | three statements of documents or comments, each refuted (section 6) |

**Bounds.**

- *Queue.* Two producers and two consumers are the smallest numbers with which
  producers race for the lock and a notification can reach the wrong consumer;
  capacity 2 and four accepted items make a full queue drop twice while something
  remains to be served, and span a restart.
- *System.* The only bounds are the queue capacities (2 in `system_safety`, 1 in
  the others, instead of 2 and 8): every property speaks of the kind of an item,
  never of its position, and the proofs are for every capacity.
- *Actuator.* Angles -1..5 for two channels: targets beyond both ends of both
  ranges, an inverted channel whose servo range (1..4) is narrower than its
  actuator range (0..5), steps of 2 and of 0.
- *Latency.* Five ids, two sessions and a map of three entries: an unfinished
  session leaves more than fits, and the next one uses the ids again.
- *Backends.* Three channels, two samples to give up, one waiting edge of the
  IMU; four pairs of what is requested and the feedback mode. More edges only
  repeat the handler; the proofs are for any number.
- *Cameras.* Three frames per session, two requests, seven planes for two rows of
  three bytes: none, a byte short, exact, padded, padded with a byte of slack, and
  the two kinds that mislead the guess (slack without padding, a last row without
  its padding).
- *Guidance.* A 3 x 3 image with every set of none, one, two and all bright
  pixels, and frames whose stride, size and format contradict each other. Two
  bright pixels make a confidence above the Controller's 20, so that a sun in each
  half of the image drives the platform (one bright pixel does not: both sides of
  that threshold occur). Two legs: one has both solutions down at one end, one
  upright in between; the other both upright in the middle and none at one end.
  Potentiometers at both ends, in the middle and beyond the supply; both thresholds
  below and above a pixel's luma, minimum confidences below and above the
  Controller's.
- *Front ends.* Two lines in four halves read three at a time: a read ends
  within a line, and one read takes parts of two lines. Two frames, the first of
  which may be overwritten before, while and after it is converted; one command.

`MaxId`, `MaxSession`, `MaxFrame`, `MaxLines` and `MaxCommand` end the run, and a
front end ends by itself, so deadlock is not checked in `latency_frames`,
`cameras`, `frontend` and `claim_signals`; it is in every other run.

**Fairness.** Each worker, each handler and the rest of a call in progress is
weakly fair: the operating system schedules a thread that can run, and each step
is one that stays possible until it is taken. A conversion that was started also
ends, as the converter's data rate promises, and Qt's timers go on while its
event loop runs (`updateCamera`, `onPlotTick`). Nothing is assumed about the
operator, the camera, the sensor, libcamera, spurious wake-ups, signals, the
other end of a pipe, or which sleeper a notification reaches. `EveryItemServed`
therefore allows for an owner that shuts the queue down, and `CallsReturn`,
`StopReturns` and `ExitReturns` say only that what was begun ends. For a mutex
this assumes that a thread which waits for it obtains it eventually; the critical
sections are finite.

## 4. The properties

A run checks what no other property of it implies. Where a refinement contains a
plainer statement, the run checks the refinement and the statement is a theorem;
those are marked (T).

*Queue.* `NoLostWakeup`: consumers are never all asleep over an item unless a
notification is on its way; `JoinReturns`, `EveryItemServed`; the refinement
`AtomicSpec`. `InOrder` (T): items are served in the order of acceptance.

*System.* `LifecycleSpec`: whatever the threads do, what the owner sees is
`Lifecycle`. It contains `QuietWhenStopped` (T): after a stop or any failed start
no thread, backend, camera or driver is up; `StageExclusive` (T): the application
thread, which parks and applies the last command itself, and the actuator thread
are never inside the actuator stage together; `FaultSilent` (T): nobody is inside
it in FAULT; and `StartupOrder` (T): no worker disturbs STARTUP and NEUTRAL.
`UnitsSpec`: the calls to the backends, and the callbacks from them, are those of
`BackendContract`; it contains `LiveNeedsImu` (T). `DriverOutlivesUsers`: the
unsynchronised `ServoDriver::running_` is true around every use. `SessionFresh`:
what an earlier session left in a queue reaches no worker. `JoinedIsAwake`: no
thread that `stop()` joins is asleep on a queue nobody will notify. `JoinsEnd`:
while a join waits, each step of that thread lowers `StepsLeft`, the most steps it
still has with what is queued, and no other thread raises it. `CallsReturn` adds
that, with fairness, every call returns.

*Actuator stage.* `HistoryIsServo`: the slew history equals what the servos
hold. `SlewRespected`: no update moves a channel further than `max_step`, though
a second clamp and an inversion follow the limit.

*Latency.* `FramesNotMixed`: a record closed by a frame's command has only that
frame's times, if there are no manual commands, although nothing resets the map
and ids recur; `RecordsInOrder`.

*Backends.* `BackendSpec`: the two devices under their coordinator keep
`BackendContract`. Each comes up and goes down in its order, and with no callback
inside, whatever fails; it contains `NothingLeftRunning` (T). `BusOutlivesUse`;
`CorrectionOfSession`: no setpoint is corrected with an attitude of an earlier
session; `SampleIsWhole`: one conversion of each channel in order, if the
converter was at rest at `start()`; `SamplesCome`: the chain from conversion to
edge to conversion is broken only by an ignored edge or a failed bus access;
`ChainUnbroken`: until then a conversion, an edge or a handler that starts the
next is always there; `CallsReturn`, although a `start()` that fails joins the
GPIO thread while it holds the mutex the handlers use; `JoinsNotBlocked` (T): no
handler that is joined waits for it.

*Cameras.* `CameraSpec`: frames come only between the call of `start()` and the
return of `stop()`, with increasing ids. `NothingLeaked`: no exit leaves a
descriptor or libcamera object, no thread is left without what it uses.
`PoolKept`: while libcamera runs, the program loses no request, on any path of the
handler; gone are only those the camera cancelled or did not take back (`refused`).
`WholeFrames`, of libcamera: no plane with room for all rows is refused, no shorter
one is emitted, and the rows were read at the driver's stride exactly when the slack
behind them is not negative and less than a byte for each row (`LittleSlack`).
`StopReturns`; `StopIsHeard` (T): a worker that `stop()` waits for has been told and
hears it.

*Guidance.* `ReadsInside`: no accepted frame is read beyond its buffer, whatever
geometry it claims. `SteersTowardsSun`: a sun on one side of the image never
drives the platform to the other. `PotTravel`: the ends and the middle of a
potentiometer are those of the manual range. `PoseDecides`: a leg with a single
upright solution stands in it, whatever setpoints, samples and modes came before.
`Repeatable`: a leg out of reach, or with an upright solution, does not move while
the same pose is asked for again; which of two upright solutions it came to stand in
is a matter of its history, and the property does not say otherwise.
`FallbackHolds`: an unsolvable leg stays where the last command put it, and the
status says so.

*Front ends.* `CallsFollowScript`: lines are executed whole, once and in order,
however they arrive: the calls are the script's lines that are calls, in an
order-preserving correspondence up to the line reached. `LabelsTrue`: the window
names the source in charge, as far as `manual_source_` is concerned: when an
estimate in progress has undone MANUAL (`ManualHeld`), the camera moves the platform
under a label that says otherwise. `PreviewAdvances`: no image is torn, repeated or older
than the one before. `DisplayCatchesUp`: the last frame and the last command are
displayed in the end. `NothingLeft`: a front end that is gone left no descriptor,
no thread that could call into it, and a stopped system. `ExitReturns`;
`ExitIsHeard` (T): a converter thread the window waits for does not sleep.

Seven properties except an event by name, which is a defect or a limit of the
code: `SamplesCome` and `ChainUnbroken` (`silenced`), `SampleIsWhole` (`rested`),
`StopReturns` and `StopIsHeard` (`missed`), `PoolKept` (`refused`), `LabelsTrue`
(`overtaken`). What they show is that nothing else does the damage.

## 5. The proofs

All theorems hold for every value of the constants that the named assumptions
admit (`QueueAssumption`, `SystemAssumption`, `StageAssumption`,
`BackendAssumption`, `FrontEndAssumption`, `MonitorAssumption`,
`GuidanceAssumption`: capacities and bounds are naturals, flags are Booleans, what
is measured is an integer, ranges are not empty). The assumptions on the parts of a
composition are stated in the composing module.

*Queue.* `InOrder` is inductive only with the types and with the freshness of
the newest item. `NoLostWakeup` speaks of the time the owner is in "run", and is
disturbed by a consumer that falls asleep, which the predicate forbids over a
queued item; and by the restart, which wakes all consumers. The sequence facts
(`AppendBetween`, `TailBetween`) are lemmas. `QueueIsAtomic` is the safety half of
the refinement: under the invariant each critical section is one step of
`AtomicQueue` on the items, and a notification or a wake-up is none.

*System.* None of the safety properties is inductive: whether a thread may
exist depends on how far `start()` or `stop()` has come. `IInv` adds

- `CallInv`: what `running_`, `failing` and `popped` are at each point;
- `LifeInv`: which threads and units exist at each point of the two calls;
- `CalmInv`: until `start()` selects a mode every worker stands before its check
  of `state_` and no command exists (needed for `StageExclusive` while parking,
  and for `StartupOrder`);
- `FreshInv`: no old item in a queue that anyone still reads;
- `FaultInv`: FAULT comes from a failed start or from an invalid geometry, and
  with an invalid geometry no command exists;
- `ImuInv`: LIVE with a requested IMU implies that it started.

The step lemmas treat the actions of one thread each; types are proved apart
from the rest. `Safety` follows from `IInv`, and `StartupOrder` from one step
out of it. The refinements need more of the same kind. `ContractIsKept`
(`LifecycleSpec`) uses `FailInv`: a `start()` that fails has given no mode, so no
worker passes its check of `state_` until the call ends, and FAULT is reported
after IDLE. `UnitsAreUsedAsPromised` (`UnitsSpec`) uses `PotInv`: the IMU is
started only with the potentiometers up.

The joins of `stop()` rest on `StopInv`: each queue is stopped before its consumer
is joined. Then `JoinedIsAwake` is immediate, and `JoinsEnd` goes by the points of
the thread that is joined: a pop shortens its queue, every other step brings it
nearer to the loop condition, which `running_` fails, and the queue it serves is
filled by no thread that still exists, or by one that was accounted for. These
two are all that `CallsReturn` needs beyond fairness, for queues of any capacity.

*Actuator stage.* The invariant adds that at most one thread is in the stage,
that the command it carries is the history, and that the history is within one
step of the servo pose. The lemmas about `Clamp` and `limitStep` say that both
are non-expansive towards a pose within range, hence the second clamp and the
inversion cannot enlarge a step.

*Backends* (`BackendCoordinatorProofs`). `AdsInv` and `ImuInv` tie bus, flag and
GPIO thread to the point of the owner; `CallInv` says that a call waits for a
backend only while that backend is on its way, so that a finished call finds it at
rest. `ChannelInv` is the argument for whole samples: in a session that began at
rest there is one token, which is under conversion, or a raised edge, or taken by
the handler, or waiting in the register, and it is for the channel `phase_` names;
what was read is exactly the channels before it. `SampleInv` says that a stored
IMU sample is of this session, because `reset()` precedes the backends and no
data-ready thread runs between sessions. `BackendsKeepContract` maps each device
to "off", "on" or "calling" (`Views` says which at each point of its owner) and
each of its steps to a step of `BackendContract` or to none; `RequestInv` adds that
a call waits only for what was requested, and goes on to the IMU only with the
potentiometers up. `ChainInv` is what `SamplesCome` and `CallsReturn` rest on beyond
fairness: one conversion calls for the next (`ChainGoesOn`), and a `start()` that
fails lets go of `mutex_` before it joins a handler that wants it
(`HandlersCanFinish`).

*Cameras* (`CameraBackendsProofs`). There is one invariant per backend, under the
condition that it was chosen. For libcamera, `held` is a function of the point of
`run_()`, and a handler exists only while the stream is held. The refinement
`CamerasImplementICamera` maps each step of a backend to a step of `Camera` or a
stutter; it needs that a delivered id is below the next one, and that no worker
survives the return of `stop()`. `WholeFrames` rests on two lemmas about the
quotient of a plane's length: of a plane that holds all rows it is at least a row,
with which the copy stays inside (`LongPlaneCopied`), and it is the driver's stride
exactly when there is little slack (`StrideRecovered`), for any sizes.
`StopsAreHeard`: the flag is down before anybody is woken, and a libcamera worker
who is then not between its test and its sleep never sleeps again.

*Front ends* (`FrontEndsProofs`). For the CLI, the open descriptors are a function
of the point of `run()`. For the window, `PreviewInv` orders the frames in the
three places they pass (`latestImg_` before `buf` before `pending`) and says that
bytes and geometry agree in each; `PreviewAdvances` is one step out of it.
`LabelsTrue` needs where the dispatcher stands between its check and its call.
`ConverterHearsExit`: `RaiseFrame` needs the mutex, so behind it no converter can be
between its test and its sleep with an old value of `convRunning_`.
`CallsAreTheScript` keeps a number n of lines executed such that the calls
correspond to the calling lines among the first n and the buffer holds the halves
behind them (`CallsInv`); one lemma each for the end of a line in the buffer, the
next line, a read and an execution (`LineEnds`, `NextLine`, `ReadOn`, `FollowsOn`).

*Guidance* (`GuidanceProofs`). `KinInv`: the command in force is what the solver
remembers, hence a leg that falls back does not move. `FrameInv`: the frame in
question was accepted; the arithmetic of `ReadsInside` is that the last byte of a
row lies within its stride, for any format. `PoseInv`: once solved, a leg stands in
one of its solutions, in an upright one if there is any, and the command is its
servo angle. `PoseAloneDecides` follows, for then a single upright solution is the
one it stands in; `LegsAreSteady` adds that the closest solution to one of the two
is that one itself. Both need `TwoAngles`, a hypothesis of the theorems: a leg has
two angles or none. `SunSteersItsWay` compares the weighted sum of the pixels'
columns with the total weight times the middle: if each bright pixel lies on one
side, so does the centroid. The sums are folds over a set; what is needed of them
(`SumsCompare`) is proved with an induction over finite sets of our own
(`SetInduction`, which states the induction for a set of sets and not for an
operator). The rest is that gain, dead band and limit keep a sign. It holds for any
image with integer dimensions and natural luma. `PotsReachTheirEnds` has the
hypothesis `ScaleFits`: the full scale is one of the converter's five ranges up to
4.096 V, and the supply lies below it, as in the configuration the program has
(4.096 V, 3.3 V). For a full scale between two ranges the statement is false, which
section 6 lists; the range of 6.144 V is left out because its codes do not measure
whole millivolts, so that the middle of the supply is read a step off.

*Latency* (`LatencyMonitorProofs`). Under the hypothesis that no thread sends manual
commands, ids climb from the command queue over the frame in hand to the frame
queue and stay below the next id (`OrderInv`). Hence what the monitor has of a trace
on its way is that trace's own or evicted (`StampInv`), for a later frame with the
id of an earlier session overwrites its stamps before they are read, and what was
recorded last is older than all of it (`RecentInv`). Both manual paths break this,
which is why the hypothesis is there.

*Only model-checked.* Liveness, which is out of the prover's reach: `JoinReturns`,
`EveryItemServed`, the fairness half of `AtomicSpec`, `CallsReturn` (of `SystemManager`
and of the backends), `SamplesCome`, `StopReturns`, `DisplayCatchesUp`,
`ExitReturns`. What safety says towards them is proved: `StopWakesSleepers`,
`JoinedIsAwake`, `JoinsEnd`, `ChainUnbroken`, `JoinsNotBlocked`, `StopIsHeard`,
`ExitIsHeard`. Every invariant and action property of a run is a theorem. The type
invariants and `InflightBounded` of `LatencyMonitor` are no run's question: where
there are proofs they are part of the inductive invariants. The theorems about a
function are about integers, as the models are (section 7).

## 6. What the code does otherwise than documented

Three runs end in a counterexample; `PROJECT.json` quotes the sentences.

- `ManualHeld`: the estimate callback checks `state_` and stores SEARCHING or
  TRACKING later, which undoes an `enterManual()` in between.
- `NeutralApplied`: `stop()` stops the command queue before it asks for the
  neutral command, which is therefore rejected.
- `SignalsReachLoop`: `sigprocmask()` blocks the four signals in the main thread
  only, after `start()` made the others; a SIGTERM ends the process with the
  servos where they are.

Other differences are visible in the actions and have no run of their own:

- *Modes.* `exitManual()` and `enterManual()` leave FAULT without the `stop()` that
  `docs/state_machine.md:137` requires, and so does the store of the estimate
  callback when the fault came behind its check: `Lifecycle!Track` has no guard on
  the state. `LifecycleSpec` is about what happens while FAULT lasts: nothing moves.
  The potentiometer callback and the dispatcher call the solver, which
  `docs/requirements.md:211` reserves to the control thread. With a manual start-up mode the window would still open with
  its automatic label.
- *Dispatcher.* Its `start()` does not clear its queue, so a setpoint left by one
  session may be dispatched in the next. It checks who owns the path and takes it two calls later,
  so it can overtake a choice of the operator (`overtaken`). The CLI's `set` sends a GUI
  setpoint and never selects the GUI, so the setpoint is discarded.
- *Latency.* The park command of `start()` closes the entry of the frame with its
  id, which `docs/latency_measurement.md:83` says is kept until the frame is
  through; a manual command can complete the record of an unfinished frame.
- *Potentiometers.* The first conversion may complete before `start()` sets
  `running_`; its edge is ignored and nothing starts another (`silenced`). The range
  is the widest not above `full_scale_v`, but codes are scaled with
  `full_scale_v` itself.
- *Libcamera.* `stop()` stores `running_` and notifies without the mutex the worker
  waits with; a worker between its test and its wait sleeps on and the join hangs
  (`missed`). A worker that gave up leaves a joinable thread: the next `start()`
  ends in `std::terminate` (`StartAborts`), and so does destruction. A cancelled
  request, and one that `queueRequest()` refuses, is never tried again: when all are
  gone no frame comes, while `running_` still holds. The stride is a guess from the
  length of the plane, and rows are torn for a plane with more slack than rows, or
  whose last row is not padded. The closure connected to `requestCompleted` is never
  disconnected and keeps the camera beyond `run_()`; it is not part of `held`.
- *Camera adapter.* `detectStrideMismatch_()` takes the likeness of two rows of the
  first colour image for the driver's padding, for all sessions: an even scene is
  compensated without padding, an uneven one is not with it. The comment at
  `app/SystemFactory.cpp:116` calls the result "the detected actual stride".
- *Simulated camera.* With a frame rate of 1 the interval has `tv_nsec` = 10^9,
  which `timerfd_settime` rejects, so `start()` always fails.
- *Kinematics.* A leg whose two solutions both point down alternates between them
  for one pose, and one with two upright solutions stands in one that depends on
  its history. With the geometry of `AppConfig`, evaluated numerically for a grid of
  121 x 121 poses within 0.35 rad of tilt and pan, each leg has exactly one upright
  solution, so that `PoseDecides` is about the configuration the program has.
- *Control.* With `min_confidence` 0 the estimate of an image without a sun is
  followed to the corner. Pixel centres are taken at their corner, half a pixel off.
  `setMinConfidence()`, which nothing calls, does not reach the Controller's copy: with
  a raised threshold the system would show SEARCHING and drive, where
  `docs/requirements.md:49` says that weak estimates suppress motion.
- *Command line.* A piped script of more than one `read()` (256 bytes) loses its
  rest when the hang-up is reported together with the input, and an unfinished
  last line is dropped.

## 7. Not modelled

- The trigonometry of a leg and of the tilt estimator, and floating point: the
  models use integers, and `Branches` stands for the geometry.
- The registers of the PCA9685, ADS1115 and MPU6050, `LinuxI2CDevice`, the text of
  logs and commands, the CSV file and the statistics of the latency monitor.
- `ServoDriver`'s choice between hardware and log-only mode, which is made once
  before any thread exists, and pulse widths.
- Widgets, overlay and status text of the window, and its plots of manual and
  IMU samples, which follow the pattern of the command plot. Plot values are read
  through relaxed atomics one by one; one value stands for a series here, and the
  stores and loads are taken in program order. Two things that a weak memory model
  allows are therefore outside the model: a point made of two commands, and a tick
  that sees the new sequence number with the old values, after which the last
  command is never shown. `DisplayCatchesUp` assumes neither happens.
- Observers are registered after `start()`; registration and call copy under
  `obs_mtx_`, so that is one step without consequences. State observers have no
  user in the repository.
- `SystemFactory` and `AppConfig` beyond the camera: construction and constants.
- A `start()` of the potentiometer input while the last conversion of the session
  before goes on may exchange the channels of its samples; `SampleIsWhole` excepts
  it. A data race on the plain `ServoDriver::running_` does not arise, which is
  what `DriverOutlivesUsers` and `StageExclusive` show.

## 8. Plan

1. Done, with proofs: queue and its refinement, system with its two contracts,
   actuator stage, the I2C backends with their coordinator, the cameras with their
   contract, the front ends, the latency monitor, the way from a measurement to the
   servo angles.
2. Next: `Lifecycle` as what the front ends use, in place of up, stopping and down.
3. `AtomicQueue` in place of the operators of `LatestQueue` in `SystemManager`, so
   that the composition is an INSTANCE.
4. An argument for `DisplayCatchesUp` of the kind `JoinsEnd` is for `CallsReturn`.
