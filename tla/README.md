# A verification project for the wind-farm AGC

The program is an automatic generation control (AGC) for a wind farm of ten
turbines of 3 MW. A daemon reads grid frequency, wind, communication health,
weather warnings, a curtailment ratio and a schedule from a shared-memory
real-time database, chooses one of six control scenes in each cycle, and writes
the state of the farm back. Other processes inject inputs and display outputs.
The repository also holds the six programs that the unified controller replaced,
and a set of hardware-in-the-loop runners. This directory holds TLA+ models of
them, TLC runs over small instances, and proofs checked by TLAPS for instances
of every size.

`RT/` below stands for the nested directory `储能协调控制器…设计/储能协调控制器…设计/`
of the real-time database, `scenes/` for `src/archive/scenes/`.

## 1. Inventory

### Processes

| Process | Source | Reads | Writes |
|---|---|---|---|
| manager of the segment | `RT/src/tools/init_rt_db.c` | header | creates, initialises and removes the segment |
| controller | `src/unified_agc/` | six input points | the same six points, the farm's outputs, every turbine |
| scenario runner | `src/tools/data_generator/runner.cpp` | outputs | inputs, a command per change of schedule |
| page server with its bridge | `src/tools/wind_agc_ui/` | all points | any point, from Python, without atomic increments |
| archived scene programs | `scenes/` | points; scenes 1 and 4 also the command queue | outputs |
| archived runners | `src/archive/test_suite/test_runner/` | what an external controller asks for | telemetry, heartbeat |

They share nothing but the segment: no lock, no message. Each data point carries
a sequence number (odd while it is written), and one ring buffer carries
commands from one producer to one consumer.

### Components, their state and what makes them correct

* **Data point** (`rt_db_set_value`, `rt_db_get_value`, `write_point`): value, quality,
  time stamp, sequence number. Correct if a read that returns true returns the three
  fields of one write, if a point at rest can be read, and if a reader is not refused for
  ever.
* **Command queue** (`rt_db_push_command`, `rt_db_pop_command`): `head`, `tail`,
  256 slots. Correct if it is a bounded FIFO, whatever the interleaving of the
  two processes and wherever one is killed.
* **Segment** (`init_rt_db.c`, `rt_db_init`, `build_index_map`, `rt_db_cleanup`, the page's
  `attach`): existence, name and holders of the mapping, point names, client count,
  stop flag; in each client its index map. Correct if an index denotes the point it was
  looked up for, if two managers never work on one segment, if who comes late finds
  everything, and if a refusal of a new manager has a reason.
* **Scene selection** (`ConditionDetector::detect`): last wind, ramp flag. Correct
  if safety comes first, each scene ends, and the choice settles.
* **Controller loop** (`main.cpp`, `UnifiedAGC::step`, `UnifiedLogger`): the inputs
  accepted last, the farm. Correct if no input is lost, and if the segment and the
  controller agree once the inputs are constant.
* **Strategies**: scene 1 set-point, filter and PID; scene 2 suppress counter;
  scene 3 state machine and integral; scene 4 latched target; scene 5 curtailment
  mode; scene 6 frozen power and recovery time. Correct if the farm stays within
  what the turbines can deliver, a freeze holds one power, extreme weather
  stays recognised until cleared, and a ramp ends at its target.
* **Archived programs**: each a closed loop of a controller and a simulated farm. Correct
  if the controller does what its scene is for: follow a plan, ride through a gust, bring
  the frequency back without overshoot, track a command, curtail and recover, hold the
  power in an outage.
* **Archived runners**: a table of measurements, a simulated storage and inverters, a heartbeat.
  Correct if results and injected telemetry tell the same story and the heartbeat
  is silent in an outage.
* **Control library** (`src/common/`): clamp, ramp limits, dead band, PID, filter, power curve.

Hard behaviours: several writers of one point; a process killed inside a write or a
push; clients that come while the segment is initialised; names that outlive or do not
outlive their holders; inputs overwritten by the controller's own write-back; reads that
fail while a point is written, so that a cycle mixes old and new inputs; private
state of a strategy that outlives its scene; equality tests at 25.0 m/s; one timer
shared by ten turbines; a background thread that writes an older snapshot.
`PROJECT.json` lists them as hazards, with the properties for each.

## 2. Modules

| Module | Models | Uses |
|---|---|---|
| `CommandFifo` | what the queue promises | |
| `CommandQueue` | push and pop, each load and store a step, with crashes | refines `CommandFifo` |
| `AtomicPoint` | what a data point promises a reader | |
| `DataPoint` | C writers, bridge writers and readers of one point | refines `AtomicPoint` |
| `Segment` | managers, clients and the page from creation to removal of the segment | |
| `ConditionDetector` | the choice of the scene and its memory, as operators | |
| `UnifiedAGC` | the loop, the step, the strategies, the write-back, other writers, restarts | `ConditionDetector` |
| `BaselineFarm` | archived scene 1: twenty minutes after a plan | |
| `WindDisturbance` | archived scene 2: a rising or falling wind | |
| `FreqRegulation` | archived scene 3: control thread, main thread, logger thread | |
| `RampTracking` | archived scene 4: both programs, with the command queue | |
| `CurtailmentFarm` | archived scene 5: `WindFarmAgc::step` over the scripted farm | |
| `SafetyDay`, `SafetyDemo` | archived scene 6: its day of 1440 minutes and its demonstration | |
| `HilRunner` | the archived runners S1 to S6 | |
| `…_proofs` | theorems about `CommandQueue`, `DataPoint`, `Segment`, `UnifiedAGC`, `SafetyDay`, `RampTracking`, `HilRunner` | |
| `Archive_proofs` | theorems about `SafetyDemo`, `FreqRegulation`, `WindDisturbance`, `BaselineFarm`, `CurtailmentFarm` and the composition of all eight | `MCArchive`, the proofs of the other three |
| `MCCommandQueue`, `MCDataPoint`, `MCSegment`, `MCUnifiedAGC` | small instances for TLC | |
| `MCArchive` | the eight archived modules in one instance, one program per behaviour | |

### How the models correspond to the code

**CommandQueue.** `PushLoadHead`, `PushFull` or `PushNotFull`, `PushWrite`,
`PushStamp`, `PushPublish` are the statements of `rt_db_push_command`; the popping
side likewise. `PusherCrash` and `PopperCrash` put a new process at the start of its
call. A command is a model value with a flag that says whether it is stamped. The
refinement mapping takes the slots from `tail` to `head` for the queue.

**DataPoint.** `SetBegin`, `StoreField` (three times), `SetEnd`, `SetCount` are
`rt_db_set_value`; `BridgeLoad` … `BridgeStoreCount` are `write_point`, which loads
the sequence once and stores it twice; `GetBegin`, `LoadField`, `GetEnd` are
`rt_db_get_value`. A write stores one payload into three fields so that a torn
read shows. `stable` is a history variable: the payload of the last closed
write. Memory is sequentially consistent here, which the code is not: on Linux every access
names its order (`rt_db_api.c:290`–`325`), relaxed for the fields and for both increments, acquire for the
loads of the sequence, with release fences before the fields and before the second
increment; on Windows they are volatile accesses and interlocked additions. x86 keeps the order of loads and of
stores, so the model is exact there in what it tells apart; a machine that lets the field loads pass the second load
of the sequence adds torn reads that are not modelled.

**Segment.** `world` is the platform: on Linux a System V key that stays until
`IPC_RMID`, on Windows a section that lives and keeps its name as long as a handle is open,
and Windows with `RT_DB_SHM_NAME` unset (`"split"`), where manager and page use one name and the library
another (`rt_db_api.c:16` against `agc_qt_app.py:366`). `name` is what the name refers to,
`holds` who has which segment mapped or open, `seg` the segments themselves. A manager
creates exclusively or is refused, clears everything (`Wipe`), writes the header, fills the slots with
`UNUSED_` names, registers the points one by one with the default of `COMM.IsHealthy` on
the way, serves, and cleans up when it is signalled or the header's flag is set. A client
opens, scans the slots one by one, writes default names of its own if it finds none, counts itself, and
looks its points up once. The daemon does that twice, for its logger and for its
inputs, and goes on when either fails. The page opens or creates, tests `num_data_points`,
closes or indexes, and tries only once. Any of them is killed at any step, `MaxKills` times. Of the
contents of points only `COMM.IsHealthy` matters here, because its default decides whether
a fresh controller believes communication lost; `ReadHealth` and `EchoHealth` are the
daemon's cycle for that point. Five fields of a segment are history: `small`, `served`, `early`
(a client mapped it before it was initialised), `lost` and `orphan`.

**UnifiedAGC.** The cycle is six reads (`phase = "read"`), one control step
(`"step"`) and six write-backs (`"log"`), each its own action, so that writes of
other processes come between any two. A read is `Accept`: the value counts if
it is valid and differs from the one accepted last (`prev`, the `prev…` variables
of `main.cpp`). `MissRead` is a read that fails because a writer is inside the
point. `StepIn(s)` is what `UnifiedAGC::step` does for every scene, and there is one
action per strategy, four for scene 6. `LogPoint` writes the six input points in the
order of `logFarmState`; the farm's other outputs are read by nobody in the
loop and are left out. `Restart` is a kill and a new start with the segment kept.
Points are atomic registers here, which `DataPoint` shows of a single writer; what
several writers add is in `point_torn`.

The ten turbines start alike and receive equal commands, so the farm is its
total. The two filters of scene 1 are not tracked: `Wanted` is every set-point
that lies within the limits the code puts on feed-forward, integral and derivative
part, so the model has the behaviour of the code and more. The simulated frequency
decays by a constant unit and not by two percent of its deviation, which changes how long scene 3
lasts and not whether it ends. Three
history variables serve the properties and influence nothing: `unseen`, `measured`
and `settled`.

There are two sets of numbers. The *fine* one counts in 0.1 MW and has the
constants of the code: 300 for 30 MW, 15 for the technical minimum of 1.5 MW, a ramp
of 0.3 MW a cycle, a recovery of 2 MW a minute. The *coarse* one counts in MW, with
the minimum and the ramp rounded up (2 MW, 1 MW a cycle) and the recovery made
faster (1 MW in 2 cycles instead of 30), so that the recovery ramp ends within the
runs. Violations of the controller are shown on the fine set, so that no
rounding takes part in them; they agree with a stand-alone execution of the C++
sources. Wind is in half metres per second (24 = 12 m/s, 50 = cut-out), frequency in
hundredths of a hertz.

**The archived programs.** One action is a turn of the program's loop, or a statement group of a
thread where threads meet (`FreqRegulation`) or another process answers (`HilRunner`). Floating-point
numbers are integers of a unit small against what the properties tell apart; each module names
its units. Turbines that start alike and are treated alike are one (`BaselineFarm`, `WindDisturbance`,
`RampTracking`, `FreqRegulation`, the inverters of `HilRunner`). Random numbers are drawn from a small
set that holds the extremes, and where a program draws one in every step TLC holds the draw for a number of steps,
a constant of the module that the theorems leave open: they hold for a new draw in every step. Sines of simulated winds and plans are
values of a set, straight lines between samples, or (`CurtailmentFarm`) the sine itself in mm/s, second by second.
A read of a runner that fails leaves the default of its variable, as `shm_read_double` does (`HilReads`). What a program writes into the segment is a record (`dShm`, `frShm`, …). The
orders in which exchanges, shared timers, callbacks and resets happen are those of the code, also where they
look like mistakes: see the list of divergences below.

## 3. Runs

| Run | Instance | Shows |
|---|---|---|
| `queue` | 3 slots, 2 commands, either process killed at any step | no slot is copied by both sides; the ring is a FIFO; "full" and "empty" are exact; a waiting command is received once the popper is no longer killed |
| `point` | a C writer and a bridge, one inside a write at a time while their counting overlaps; a reader; 3 writes | no torn read; the point is an atomic register; readable at rest; `write_count` never ahead of the writes; readers catch up |
| `point_torn` | 2 C writers, 1 reader | **violated** `NoTornRead` |
| `point_crash` | 1 C writer, killed once inside a write | **violated** `ReadableAtRest` |
| `segment` | three worlds; two managers, a daemon, the page; 3 slots, 2 segments, 1 kill | indices mean their names; one manager per segment; late comers find everything; the client count, the default of `COMM.IsHealthy` and refusals are right |
| `agc_safety` | coarse; winds 12, 25, 26 m/s, outage, weather, schedule of 40 MW; 3 writes, missed reads or restarts | power within limits, safety display, freeze, latched weather |
| `agc_live` | coarse; frequency, wind, curtailment, schedules of 8, 22 and, above the rating, 40 MW; 2 writes | agreement of segment and controller; scenes 2 and 3 end, scene 4 ends or has latched a target out of reach; the choice settles |
| `agc_freeze` | fine; outages, 3 writes | **violated** `FreezesCurrentPower` |
| `agc_lost` | fine; 1 write | **violated** `InputsAreRead` |
| `agc_cutout` | fine; 26 m/s and a weather warning; 2 writes | **violated** `CutOutWindIsSafe` |
| `agc_oscillation` | fine; nothing written at all | **violated** `NoOscillation` |
| `archive` | the eight archived programs, each with all its inputs below | one or two properties of each program |

The properties of `archive`: `DayFreezeHoldsPower` (an outage holds one power and noise cannot carry the field
3.4 MW away), `DayBestTurbinesRun` (part running stops the less efficient turbines first),
`MoReturnFollowsRamp` (after an outage the field follows the recovery's ramp, not the schedule),
`CfWindKeepsCurtailment` (the wind of ten turbines, noise included, never switches the mode between two orders),
`RtOnlyApproaches` (the farm only moves towards the command it follows), `FrNoOvershoot` (the frequency never passes 50 Hz on its
way back, whatever mixture of old and new values the unsynchronised trigger leaves; it does not show that a
disturbance is regulated at all), `B1AlwaysQualified` (every cycle within
2 %), `WdFullPowerAgain` (what a disturbance leaves behind is gone after sixteen seconds), `HilSilentInOutage`,
`HilResultIsInjected`, and `ArchiveTypeOK` for the ranges, which are those of the code's own clamps and so not all wide: the
inverters of every runner but S2 within 40 MW, for instance.

**Why the bounds are enough to meet the interesting cases.**

* Three slots make the ring full, empty and wrapped, and a fourth adds no new order of head
  and tail; the proofs have any size.
* Two writes let one begin while the other is open; three let a reader straddle two of one writer.
  `OneInside` keeps the second writer of the run `point` out while the first is between its stores to the point, because two
  writers at once are `point_torn`; the load and the store with which the bridge counts (`agc_shm_bridge.py:254`) overlap with anything.
* In `segment` three slots hold a point with a client's default name, one with the manager's default
  value and one more, so every order of scan and registration occurs; two segments are the named one and one
  that has lost its name; one kill already shows an orphan, and a second manager or the page is there to meet it. Which
  of the processes take part is chosen at the start (`cast`), which leaves out only behaviours of all four at once.
* Three writes of inputs are an outage, its end and a second outage, or
  a storm, a calm and a clearing, each at any moment of the cycle; a restart counts as
  one. The schedule of 40 MW lies above the rating, and 25.0 m/s is the boundary at which
  scene 6 is entered and its strategy does not derate.
* The archived programs run from beginning to end, with every minute, second or step of their
  script. Bounded are: noise held for 30 minutes (`DayHold`) and for five steps in the demonstration, with
  the extremes drawn at each; the error of `BaselineFarm` at its two extremes, changing every 150 cycles (`B1Hold`); in `CurtailmentFarm` the ten
  turbines at 1 s over all 301 s of the script, with two draws that may change every 50 s (`CfHold`), a farm
  short of power whose first turbine is at minus six deviations and one with power to spare; two commands pushed in `RampTracking`, of each kind, at any
  moment; runners' tables of 32 steps whose row changes twice at any step, enough for an outage to begin and end around a heartbeat
  of every fifth step and a control step of every tenth; a logger thread that is at most two cycles late, as its interval of 500 ms says against the
  control thread's pauses of 400 ms, or 1 s in READY.

`CHECK_DEADLOCK FALSE` stands in the configurations in which the bound on writes or kills stops all
writers, in `segment`, where the page gives up for good, and in `archive`, whose programs end. After
the bound the controller itself goes on for ever, and its runs check deadlock.

**Fairness.** `queue`: weak fairness of the popping side, because scenes 1
and 4 poll in every cycle of a loop without end, and eventually every step that looks like a kill of the popper is an
empty answer, that is, some day it is no longer killed; nothing makes the other side push or keeps it alive. `point`:
weak fairness of the writers' and of every reader's steps, because neither
call waits for anything and the loops around them are endless; the bound on writes is the pause the property speaks of.
`agc_live`: weak fairness of the controller, whose loop never blocks: it sleeps 100 ms
and every call returns at once. Nothing is assumed of the other processes; after their
last write they are silent, which is the premise of all five properties. No liveness is claimed of
the segment: nothing in the code makes a client try again, and a manager serves until somebody
stops it. The archived programs are driven by their clocks and end by themselves.

### What the violations say

1. `point_torn`. With two writers inside `rt_db_set_value`, the two increments add up to an
   even sequence in the middle of both writes, and a reader accepts fields of
   different writes. The README of the database promises concurrent access by several
   processes; runner, controller and page do write the same points.
2. `point_crash`. A process killed between the two increments inverts the parity of
   its point for good: readers are refused at rest and let in during writes.
3. `agc_freeze`. `StrategySafety` clears `frozen_` only in scene 6 with communication
   up. When communication returns the detector leaves scene 6 at once, so `frozen_`
   stays set and the next outage freezes the farm at the power of the first.
4. `agc_lost`. The write-back covers inputs written since they were read. The runner
   writes the schedule once per change, so the change is lost.
5. `agc_cutout`. `clearExtremeWeather` sets the wind to 12 m/s. The measurement of
   26 m/s is not applied again because it has not changed, and the controller
   leaves scene 6 with the wind above cut-out.
6. `agc_oscillation`. After the start scene 4 brings the farm to 15 MW, scene 1 resumes
   its ramp near 0, pulls the farm down until it is 5 MW off, and scene 4 takes over
   again. The set-point gains in every visit, so it ends (`SceneSettles`), after
   about 35 changes of scene.

### Divergences met while modelling, without a run

The models contain these behaviours; no run is spent on them.

*Real-time database and page*

* With a bridge writer inside a write beside a C writer, `ReadableAtRest` fails, and with one that only counts beside it
  `write_count` falls behind (`WriteCountExact` fails, `WriteCountNeverAhead` holds): the bridge stores values it
  loaded before (`agc_shm_bridge.py:240`, `:251`, `:256`).
* The queue holds 255 commands; `RT/README.md:207` says 256.
* The library looks for one segment name unless `RT_DB_SHM_NAME` is set, manager, page and shell use another
  (`rt_db_api.c:16`, `agc_qt_app.py:366`): a daemon started by hand on Windows attaches to nothing.
* The daemon attaches twice, for logger and inputs, and goes on when either fails: it can write what it
  never reads, or read what it never writes back.
* The page's attach creates a section of its own size when there is none. A manager is refused while it is open,
  and a client that opens it cannot map it and never closes its handle (`rt_db_api.c:104`), which keeps
  the small section alive for as long as the client lives.
* `num_data_points` is set before the points have names, so the page may index a part of them and never asks again; it also
  tries only once per process.
* A client that comes before the manager has registered anything writes eight default points of its own; the identifiers
  agree with the manager's, default values and units do not.
* The manager's `memset` follows the creation, so a client that was faster is cleared from
  `connected_clients` and the count falls below zero when it leaves.
* A manager killed on Linux leaves a segment that every later manager is refused for, although nobody uses it.

*Unified controller*

* Scenes 2, 3 and 5 compute commands but return a result without them
  (`Strategy_Curtailment.cpp:64`), and `UnifiedAGC.cpp:70` then applies nothing.
* Scene 2 replaces the measured wind by 12 m/s (`Strategy_Disturbance.cpp:71`).
* Scene 3 is left at 0.10 Hz, and its own state machine stays in ACTIVE.
* Scene 4 follows the latched target while a ramp is under way and ignores a new one;
  the outline says of STEP that the target is tracked instantly.
* The loop accepts any schedule above 0.1 MW (`main.cpp:171`) and scene 4 latches it unclamped. One of 40 MW for a
  farm of 30 is never reached within 0.5 MW, so `tracking_` is never cleared: the farm goes to full power and later
  schedules, reachable ones too, are ignored as long as scene 4 lasts, which it does until a schedule comes within 1 MW of the
  held 30 MW (`ConditionDetector.h:66`) or a scene of higher priority interrupts. `RampEnds` therefore reads
  `[]<>(scene # 4) \/ <>[]HeldAtLimit`: a ramp that does not end is at its limit because of such a target and of nothing else.
* In extreme weather the command is a share of the rating, so a farm at half power is
  raised and not lowered (`Strategy_Safety.cpp:45`).
* The recovery ramp runs only in scene 6 with communication up and no extreme weather, that is
  at exactly 25.0 m/s. The loop also passes 1 s per cycle to every strategy and sleeps
  0.1 s (`main.cpp:92`, `:194`), so that every ramp is ten times as fast as written.
* `setCurtailHours` is never called, so deep curtailment is never entered.

*Archived programs*

* Scene 1: the feed-forward has the wrong sign; waiting commands are popped and ignored; the point of the command
  logs the actual power; `prev_output_` is read before it is set.
* Scene 2: the pitch control adds pitch while power is short; margins are logged as feed-forward and
  feedback; the summary reuses `MaxError` and `QualifiedRate`.
* Scene 3: the main thread sets flag and frequency without a lock and the control thread can overwrite either, so the
  disturbance can be lost, which no property excludes; the first logger counts three points and asks for five, so the
  program reports no connection, and writes all the same because `connected_` stays set (`RtDbLogger.cpp:31`); `FR_CTRL.State` never
  returns to READY in the segment; the second logger can publish the disturbed frequency with no power change.
* Scene 4: the first logger asks for four of its three points (`RtDbLogger.cpp:46`), so its program polls commands
  but logs nothing; a CANCEL arrives as a ramp of no rate and is refused (`main.cpp:87`); the second program logs
  locals that nobody has set until a command is polled (`main_v2.cpp:162`); an accepted command of type STEP is logged as 0.
* Scene 5: one timer confirms the recovery of all turbines (`state_machine.cpp:23`, `:41`), against `state_machine.h:11`, which
  describes the state machine of one turbine: any turbine that is not restricted clears it in every second. In the program's own
  script, with hot gearboxes, turbines become SHADOW one by one from 15 s on, turbine 5 RESTRICTED at 188 s, all ten are restricted from about 260 s, and
  nobody has recovered at the end: the farm stays near 8.5 MW under an order of 18 MW. In deep curtailment a restricted turbine gets
  its share like the others, above its safe power, against `distributor.cpp:95`. No turbine is ever stopped, because
  the running ones can always give up what is curtailed. Also, the raw target of a turbine
  in hot standby is not reset, so the ramp limiter ramps it (`rest_rotation.cpp:58`, `ramp_limiter.cpp:20`); deep
  curtailment ignores the protective limit of the capacity evaluator (`distributor.cpp:36`).
* Scene 6: the recovery is measured against the schedule of the moment but aims at the one it began
  with (`recovery_coord.h:17`); cancelling it cancels nothing (`main.cpp:135`), so it resumes after a storm; a
  turbine's stop time is never anything but 0 (`fan_control.h:48`); the demonstration sets the frozen
  power after the callback that uses it.
* Runners: the reset counter is a static, so every runner writes 1; S5 records a power other than
  the one it injects, against the comment at `common_runner.h:575`;
  the plant of S2 replaces that of the base class and leaves out the clamp to 40 MW an inverter (`s2_runner.cpp:53` against
  `common_runner.h:710`), so that the 43.2 MW at 1080 W/m² of its own table, without a limit from the controller, move it towards 46.7 MW:
  `HilTypeOK` therefore excepts S2; the heartbeat of
  an S6 table that began in an outage would fall from 1 to 0.

## 4. Proofs

Theorems hold for every value of the constants that the named assumptions allow. They
are in the `*_proofs` modules.

**Command queue.** `QueueTypeCorrect`, `QueueNoSlotRace`, `QueueRefusalsAreExact`, `QueueImplementsFifo`, for
every ring of at least two slots. The inductive invariant relates each side's
local index to the shared one: the pusher's `pushHead` is `head`, the popper's
`popTail` is `tail`, a pusher past its test knows the ring is not full, a popper past
its test knows it is not empty, and a slot written but not yet published lies outside
the queue. Without the last two, nothing excludes that both copy the same slot. The
refinement shows that `PushPublish` appends, `PopPublish` removes the head, and all
other steps stutter.

**Data point.** `PointTypeCorrect` for any number of writers; `PointNoTornRead` and
`PointImplementsRegister` under the assumption that there is exactly one writer, of either kind.
The invariant says that the sequence is odd exactly while the writer is open, that a
reader's `rseq` is never ahead of the sequence, and that if it equals an even
sequence then what the reader has copied so far agrees with the point. It is
needed because a single torn field is only excluded by what happened between the
reader's two loads. `PointReadableAtRest` and `PointWriteCountExact` (which no run checks, because with C writers alone it only adds up increments) hold for any number of C writers and none of
the bridge: the parity of the sequence is the parity of the number of writers inside a
write, and the counter lags by the number of calls that have not returned; both rest on
what adding or removing one writer does to the cardinality of those sets. `PointWriteCountNeverAhead` holds for any finite number of
writers of both kinds, all inside writes at once if they like: what a bridge has loaded is never more than the counter
and the other calls under way account for (`AheadInv`), so that its store takes counts away and adds none.

**Segment.** `SegmentTypeCorrect`, `ManagersApart`, `IndicesCorrect`, `LateClientsComplete`, for
every set of managers and clients, every table of points, every number of segments and kills, on every platform. The
inductive invariant is `TypeOK` with five parts: `ManagerInv` (a working manager holds its segment, no
other manager works on it, it is not served while it is initialised, and the slots already registered
carry their names), `SlotInv` (a slot is blank, unused or carries the name that belongs there, and a
served segment has all the names), `IndexInv` (an entry of a map, of an index or of the page's index is a
name with its slot), `ClientInv` (a client that scans or has a handle open holds that segment and, unless
somebody came before it was served, finds it served and has every name it passed in its map or index) and
`PageInv` (a page server that looks at a segment has one). None of the properties is inductive alone: a
segment can only be reused when nobody holds it, so who holds what has to be known before
anything can be said of names. Of each segment a step is shown to leave it as it was, to change it as
`Stays` allows, or to make anew one that nobody keeps (`Anew`); that is `Evolves`, from which `SlotInv`
and the parts about clients the step does not touch follow.

**Controller.** `ControllerTypeCorrect`, `FarmPowerWithinRating`, `SafetyModeIsShown`, and the action
properties `FreezeHoldsPower` and `ExtremeWeatherIsLatched`, for every farm, every
set of integer inputs, every start of the segment, any number of writes and restarts.
The assumptions on constants are `FarmAssumption`, `ControlAssumption`,
`DetectorAssumption` and `InputAssumption`. `PowerWithinRating` and `SafetyModeShown` are not
inductive: the frozen power is held in the safety strategy while another scene is
active, and could be anything when scene 6 returns. `IInv` adds that a held
power lies between technical minimum and rating, and that a freeze shows the power
that is held. The proof has one lemma for each kind of step; `OrdinaryStep` and
`SafetyStep` say what remains to be shown for a step of scenes 1 to 5 and of scene 6,
and `ShareBounds` and `FollowBounds` that the turbines' approach to a command never
overshoots it. The action properties follow from the same invariant: in a
freeze only `Freeze` can move the farm, and no control step ends extreme weather.

**Segment, continued.** `RefusalsJustified`, `HealthyFromTheStart` and `ClientsCounted` need five more invariants, each
proved on top of `IInv`: `HoldersInv` (who holds a segment is at work on it), `NameInv` (the name outlives its holders on
Linux only, and there only when the manager was killed), `AttachInv` (in what order a daemon's two attachments come and go, and
that a daemon without its second one has never read an input), `HealthInv` (a manager past the registration has set `COMM.IsHealthy`,
a served segment has it, and a daemon attached to it knows no worse) and `CountInv`
(the counter of a segment that nobody mapped early is the number of open handles plus the lost ones). A step opens or closes at
most one handle, so `CountInv` rests on what adding or removing one pair does to the cardinality of a finite set.

**Archived scene 6.** `DayTypeCorrect`, `DayFreezeIsHeld` and `DayBestRun`, for every noise in the program's range, changing as
often as it likes (TLC holds it for 30 minutes). The invariant adds to the ranges that during a freeze the
field is within 3.4 MW of the held power: from there a tenth of three times the distance, and the noise, leads
back to within 3.4 MW, where the two balance. For the turbines it says that there are always two efficient ones, and that
part running stops none of the first five places, where the sort has put both. What the sort does is shown by the loop's own invariant
(`FanSorted`): a place whose exchanges are done holds an efficient turbine if any later place does. The sort is a recursive function over pairs of places; that it is defined
is an induction over the pairs, done by the least counterexample (`LeastNumber`) instead of an induction rule.

**Archived scene 6, demonstration.** `DemoTypeCorrect` and `DemoReturnFollowsRamp`, for every gust within the program's ±0.5 MW
(`DemoAssumption`). `MoCourse` bounds the first thirteen steps one after the other: the two normal steps fix the frozen power to
1 MW, the five of the freeze let the field drift by 0.15 MW each, and the return starts within those 0.75 MW
and follows the ramp within 1 MW.

**Archived scene 3.** `FrequencyTypeCorrect` and `FrequencyNeverOvershoots`, for every dip from 0.1 Hz (below it the program does not react) to
0.5 Hz (the clamp of the simulator, `FrDipAssumption`) and every interleaving of the three threads. The frequency follows the
regulation, which has a proportional and an integral part, so nothing about the frequency alone is inductive. `FrWork` keeps a
budget (`FrBudget`): fourteen times the deviation and the integral, both of one sign, together stay within a fixed sum, so that an integral large
enough to carry the grid over 50 Hz would have needed a deviation that the sum excludes. `FrRest` holds before the dip, after the return, and where the
trigger was overwritten between the two threads.

**Archived scene 2.** `WindTypeCorrect` and `WindFullPowerAgain`, for every set of winds. `WdPitchBound` says how much pitch there can be at each
second, whatever the wind was: what the preparation gives, at most 0.015 degrees more in a second of suppression, and from the switch back on
what the smoothing, a fixed amount in every second, has left of it, which is next to nothing after fifteen seconds.

**Archived scene 1.** `BaselineInvariant`, `BaselineTypeCorrect` and `BaselineAlwaysQualified`, for every sequence of the errors that
`((rand() % 100) / 100.0 - 0.5) * 0.8` can draw, from -400 to 392 kW and a new one in every cycle (`B1NoisesAssumption`). The set-point runs ahead of the
turbines by a lead and the turbines behind the plan by a lag. Each can be bounded only by the other: the lag grows when the lead is small, the lead when the lag is large, and between
them stands a PID with an integral. `B1Inv` is a region of lag, lead and integral that the loop does not leave (`B1Follows`, `B1Rises`), with the
first cycles (`B1Early`) on their way into it.

**Archived scene 5.** `CurtailmentInvariant`, `CurtailmentTypeCorrect` and `CurtailmentOutlastsWind`, for the program's ten turbines at its period of 1 s,
with every temperature, every order of turbines and every noise of power within `CfAssumption`, new in every second. The
generators of the program are normal with a deviation of 2 % and so unbounded; the assumption cuts each turbine at six deviations (`CfBounded`, 12 %) and demands that together they
leave the farm 96.5 % of what its wind gives (`CfSteady`). The sum has a deviation of 0.64 %, so a step violates that with a
probability of 2e-8; the seeds of the program's own generators take at most 1.9 %. `CfWindInv` says that the farm sees the available power of a second
ago under some draw, and that the mode is deep from 61 to 250 s. The wind gives the ten turbines together at least 12.1 MW
in every second of its wave and 16.31 MW in those of the 11 MW order (`CfWindGives`), of which noise leaves 11.6 and 15.72 (`CfNoiseLeaves`): under either
order the curtailed share stays above the 0.3 at which deep curtailment is left. Neither the turbines' health nor the reserve enters.

**Archived scene 4.** `RampTypeCorrect` and `RampOnlyApproaches`, for commands of any target and type in any
number. The invariant keeps the followed command valid and its start not in the future, so that the desired target lies
between power and command (`DesiredLemma`); compensation, clamps, the split over the turbines and their lag then move the
farm towards it and not past it (`MoveLemma`), roundings included.

**Archived runners.** `HilSilence6`, `HilResultsTrue` and `HilTypeCorrect`, for every table that begins with communication and has no negative or irradiance (`HilAssumption`), whatever the controller asks for and whichever of the reads fails. `BeatInv` says that counter and point agree after the first step and that
from injection to beat a runner that shows an outage is frozen. `HilRanges` adds what the lags and clamps keep: the inverters of S2
stay non-negative, those of the others within 40 MW.

**The archive.** `ArchiveIsItsPrograms`: a behaviour of the composition is, for the variables of each of the eight programs, a behaviour of that
program, because every step of the composition is a step of one and leaves the others' variables alone. `ArchiveTypeCorrect` follows from the eight.

**Assumptions of the archived programs** are the ranges that the code draws from or reads: the noise of `SafetyDay` and the gusts of
`SafetyDemo` are those of its random number, a dip a dip is what the simulator's clamp admits, the errors of `BaselineFarm` are those of `rand()`, the draws of `CurtailmentFarm`
normal ones cut as said above, tables hold non-negative measurements. TLC evaluates each of them in the run `archive`.

**Model-checked only.** The liveness properties, because they need fairness and `ENABLED`, which the prover does not
handle: `EveryCommandIsReceived` and its like of the other runs. Every invariant and every other action property of the passing runs is stated by a theorem.

## 5. Not modelled, and why

* Segment: two threads of the page that attach at the same time (`get_shm` has no lock);
  batch reads and writes, which loop over the single calls and are used by nobody; `get_point_info`.
* The bridge's reads: the protocol of `rt_db_get_value` on one field, tried three times. A read of one field
  cannot be torn, and what it can miss is in `point_crash`.
* The scenario runner as a process of its own: its writes are `Write` of `UnifiedAGC`, its push is
  `CommandQueue`'s. The controller never pops, so their composition adds only that the queue fills.
* Wrap-around of `sequence` where `long` has 32 bits: it needs 2^31 writes of a
  point within one read.
* In the controller: turbulence (constant), RAMP and CANCEL commands (the
  daemon issues STEP only), pitch control of scene 2, the curtailment mode, torque
  protection (never reached with equal turbines), error and reserve figures, and per-turbine
  outputs. What scenes 2, 3 and 5 compute in their own copies of the turbines reaches nobody.
* The control library: pure functions on floating-point numbers; the operators that the
  models need are in the modules that use them.
* Archived programs: states no input of the program reaches (a faulty turbine in scene 5); vibration and sway in scene 5, which with the thresholds
  of `test_main.cpp` never weigh more than the gearbox; voltage and
  display, parsing and writing of tables, the second loggers of scenes 1, 2, 5 and 6, which no program includes.
* Generators, evaluators, reports, plots, pages: batch programs and presentation without
  control state.

## 6. Plan

1. **Bridge reader** in `DataPoint`: a reader of one field with three attempts, and its refusal under a steady writer.
2. **An abstract safety mode** (`SafetyContract`), with freeze and latch only, refined by
   `UnifiedAGC` and by `SafetyDay`; the refinements proved.
3. **Control library** (`Limits`, `PidController`): anti-windup and the ramp limits as lemmas, cited by
   `UnifiedAGC_proofs` in place of its own.
4. **Late commands in `RampTracking`** and the lost disturbance of `FreqRegulation`: what a command or a disturbance that is
   overwritten leaves behind, as a property of its own.
5. **Early clients** of `Segment`: an abstract statement of what a client that came too early is still owed, which the
   properties with `UnlessEarly` in their names exclude.
