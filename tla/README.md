# TLA+ verification of docker-fan-control

docker-fan-control is a Go daemon with a web UI that drives the fans of a
server: every few seconds a control loop reads temperatures and loads, computes
a duty for each active profile, decides which profile controls which fan zone,
and writes the duty through a driver (IPMI, or the kernel's hwmon interface).
This directory holds TLA+ models of the program, TLC configurations that check
them on small instances, and proofs that the TLA+ proof system checks for every
instance. Paths below are relative to `src/backend/internal/` unless they start
with `src/`.

## 1. The system

| Component | State | Operations | Talks to |
|---|---|---|---|
| Fan controller, `services/controller.go` | `running`, `stopCh`, `lastSpeeds`, `zoneLastChanged`, `zoneTargetSpeeds`, `manualOverrides`, `everSawTemp`, `noTempCycles`, `emergencyActive`, one algorithm and one last input per profile | `Start`, `Stop`, `StopWithSafety`, `controlLoop`, `controlCycle`, `SetManualOverride`, `ClearManualOverride`, `HasManualOverride` | database (profiles, settings), sensors, IPMI service |
| hwmon driver, `services/drivers/hwmon.go` | per channel: `touched`, `commanded`, `writtenAt`, `mismatch`; `origEnable`, `manualMode`; the registers of the chip | `SetFanSpeed`, `SetAllFanSpeeds`, `SetManualMode`, `ReleaseZone`, `IdentifyZone`, `GetFanReadings`, `DriverWarnings`, `discover` | sysfs; the firmware writes the same registers |
| IPMI service, `services/ipmi.go` | the active driver, the caches of fan speeds and readings, the reading in progress and who waits for it | `GetFanSpeeds`, `GetFanReadings`, `SetFanSpeed`, `SetAllFanSpeeds`, `SetManualMode`, `ReleaseZone`, `IdentifyFan`, `DetectAndSetDriver`, `SetDriver` | drivers, `ipmitool` |
| IPMI drivers and registry, `services/driver_registry.go`, `services/drivers/*.go` | the registered drivers, the active one; ASRock keeps six zone duties it always writes together | `DetectBestDriver`, each driver's writes | `ipmitool` |
| Algorithms, `algorithms/*.go` | PID: integral, previous error, previous time | `Calculate`, `AggregateInputs` | called by the loop |
| Thermal evaluation, `services/thermal.go` | none | `EvaluateThermal` | called by the loop |
| Sensors, `services/gpu.go`, `services/system.go` | the thresholds of the GPUs, `smartctl`'s answers of the last 10 s | `GetMetrics`, `GetCPUPackages`, `GetBoardTemperatures`, `GetDriveTemperatures` | sysfs, NVML, `smartctl` |
| Profile service and API, `services/profiles.go`, `api/profiles.go` | the profiles, their inputs and the fan records in SQLite | create, update, delete, activate, deactivate; `SaveDetectedFans` and the `Update` of a fan | controller through the database only |
| Fan API, `api/fans.go` | none | `SetSpeed`, `ClearSpeed`, `Identify`, `Detect`, `Update` | controller, IPMI service, profile service |
| Settings API and database, `api/settings.go`, `database/database.go` | the settings table in SQLite, and the controller's copy of it | `Initialize` (defaults), `GetAllSettings`, `Update`, `StartController`, `StopController`, `DetectMotherboard` | controller, IPMI service |
| Authentication and middleware, `services/auth.go`, `api/middleware.go` | users, tokens, request counters | login, user management, rate limit | every request |
| Main, `src/backend/cmd/server/main.go` | the root context | start of everything, shutdown at SIGTERM | everything |
| Event log, websocket, monitoring | connections, log rows | reporting | reads of the above |

How they interact: one goroutine runs the control loop. Each HTTP request is a
goroutine of its own and calls the controller and the IPMI service directly. An
identification is a background goroutine that outlives its request. They share
the controller's maps (under `FanController.mu`), the atomic `running`, the
unprotected field `stopCh`, the driver (under its own mutex, which is given up
between the calls and in the middle of an identification), the database, and
the registers of the chip, which the firmware also writes. Nothing makes a
whole control cycle atomic against a request.

What is hard, and therefore what the models are about:

- steps of a cycle, a manual speed, a clear, an identification and a stop in
  any order;
- the record of what was sent, from which the next write is decided, against
  what was written (`lastSpeeds` against the chip);
- writes that fail, half-way writes (manual mode taken, duty not written),
  releases that fail, profile loads that fail;
- emergencies and lost sensors that must be answered whatever else happens;
- minimum run time, smoothing and the send threshold, each of which suppresses
  writes, against convergence;
- start and stop, twice, from requests and from main;
- a killed process that leaves the chip in manual mode, or the tables half
  written;
- requests that read rows, decide, and write them when others have changed them;
- a row of the settings and its copy in the controller, which nothing changes
  together;
- devices that move between two sources and a cache, while profiles address them
  by their place in a list;
- readers that share one `ipmitool`, and steps that wait for the service's lock
  while commands hold it.

What makes each part correct:

- *driver*: its maps agree with each other and with the chip; a channel it lets
  go of goes back to the firmware; a warning names exactly the channels the
  firmware overrides;
- *arbitration*: the best duty of the highest priority, in whatever order equal
  priorities come;
- *loop*: emergencies reach every channel, zones converge to their targets, the
  record of what was sent is what was sent;
- *manual speeds*: in force until cleared or expired, and then the profile's
  speed comes back;
- *lifecycle*: stopped means stopped, and running means there is a loop;
- *temperatures*: the emergency follows the hardware, a device keeps its index,
  and every change of its status is told;
- *settings*: the controller works with what the table says, and an upgrade does
  not change how an installation judges temperatures;
- *IPMI service*: every call returns, a reader has the answer it waited for, and
  a write reaches the fans it was aimed at and no others;
- *tables*: profiles are whole and valid, and a detection does not undo what a
  user chose.

`PROJECT.json` lists every hazard found in the code at its line with the
properties that cover it, or the reason why none does yet.

## 2. The modules

| Module | Models | Kind |
|---|---|---|
| `HwmonDriver` | `services/drivers/hwmon.go` | state machine, one action per driver method, two for `IdentifyZone` |
| `ControlPolicy` | the decisions inside `controlCycle`: arbitration result, minimum run time, smoothing, send threshold | operators without state |
| `Arbitration` | the loop over the sorted profiles in `controlCycle`, one action per iteration | state machine, shown to compute the operators of `ControlPolicy` |
| `FanControl` | `services/controller.go` with the handlers of `api/fans.go`, `api/settings.go` and `api/profiles.go` that act on it, and main | state machine, composed with `HwmonDriver` by INSTANCE |
| `Curves` | input values and aggregation of `services/controller.go`, `algorithms/*.go`, and what `services/validation.go` accepts of a profile | operators without state |
| `ProfileDuty` | one profile's settings and the state the controller keeps for it from cycle to cycle | state machine over `Curves` |
| `Settings` | the settings table of `database/database.go`, `PUT /api/settings`, and the controller's copy (`loadSettings`, `UpdateSettings`, `thermalCfgSnapshot`) | state machine, extended by `Thermal` |
| `Sensors` | what `services/gpu.go` and `services/system.go` list, and how `services/thermal.go` judges it | operators without state |
| `Thermal` | `gatherInputs`, the first half of `controlCycle` and the monitoring requests that read the same sensors | state machine over `Sensors`, composed with `Settings` |
| `Ipmi` | `services/ipmi.go`, `services/driver_registry.go` and the `ipmitool` drivers, several calls at once | state machine |
| `Store` | `services/profiles.go` and the handlers of `api/profiles.go` and `api/fans.go` that use it | state machine |
| `MCHwmonDriver`, `MCArbitration`, `MCFanControl`, `MCProfileDuty`, `MCThermal`, `MCIpmi`, `MCStore` | instances for TLC | |
| `HwmonDriverProofs`, `ArbitrationProofs`, `FanControlProofs`, `ProfileDutyProofs`, `ThermalProofs` (with the lemmas of `SensorsProofs`), `IpmiProofs`, `StoreProofs` | theorems | |

### HwmonDriver

A zone is one channel of one chip; zone numbering, paths and RPM are left out.
`enable` and `pwm` are the two registers of a channel (`pwmN_enable`, abstracted
to "full", "manual" and "auto", and the raw duty 0..255, which is kept exactly
with both conversions). Every method holds the driver's mutex from beginning to
end and is one action, except `IdentifyZone`, which gives it up while the fan
spins: `IdentifyStart` is the first half with the local variables `prevPWM` and
`owned` kept in `ident`, `IdentifyRestore` and `IdentifyRelease` are the second.
A `setChannel` has three outcomes: it works, taking manual mode fails, or manual
mode is taken and the duty is not written; for all channels there is one outcome
each. `settled` holds the channels whose `writtenAt` is at least `overrideGrace`
ago, so time is one action (`Settle`). `Restart` is a killed process: registers
stay, maps and identifications go, and the modes found become `origEnable`. The
constant `Env` names the events an instance admits.

### ControlPolicy and Arbitration

`ControlPolicy` says what one cycle decides: `Target` and `TopClaimants` for a
zone, `Held`, `Smoothed`, `Final` and `Significant` for what is sent. Times count
beats of an abstract clock. `Arbitration` is the loop as written, with the three
maps `zoneTargets`, `zoneControllingProfile` and `zoneControllingPriority` in
`claims`; `sort.Slice` is not stable, so `Take` accepts any order that
descends in priority. Its properties say that the maps hold what `Target` and
`TopClaimants` define, and the theorems say so for all instances; this is why
`FanControl` can use the two operators in the place of the loop.

### FanControl

The steps of a goroutine that runs `Start` and then `controlLoop` are cut where
another goroutine can act in between: at each driver call, at each access to the
controller's maps, at `running` and `stopCh`, and at the waits.

| `pc` | Next step | Code |
|---|---|---|
| `off` | `StartCalled` | the check of `running` in `Start` |
| `open`, `launch`, `channel`, `startup` | `OpenControl`, `Launch`, `MakeStopCh`, `ApplyStartupSpeed` | the rest of `Start` |
| `cycle` | `CycleDbError`, `CycleEmergency`, `CycleSensorsLost` or `CyclePlan` | `controlCycle` up to the zone loop |
| `apply` | `Decide` | one zone: read its record, decide what to send |
| `write`, `record` | `Write`, `Record` | the driver call; the update of the three maps |
| `enter`, `select` | `EnterSelect`, `LoopTick`, `LoopExit` | `controlLoop`; the select evaluates `c.stopCh` when it begins to wait, which `watch` remembers |

`Halt`, `CloseStopCh`, `Park`, `ParkAll` and `HandBack` are the steps of
`StopWithSafety`; `SetSpeed` with `SetSpeedWrite`, and `ClearSpeed` with
`ClearCheck` and `ClearRelease`, those of the two handlers. A second close of one
stop channel panics, which ends the request. The reads before a cycle's first
write (sensors, profiles) are one step: what changes between them is the same as
what changes just before or just after for every property here, as each is used
once. The duties a profile may compute at a reading are given by the constant
`Duty`, so the algorithms can be added without a change of this module. The
variable `writer` is history: who wrote a channel last.

What `safety_on_shutdown` is in the database is whatever users saved last:
whoever reads it finds any value of the constant `SafetySetting`, and the
controller keeps the one it found when it started (`safetyOnShutdown`).

`StopEndsLoops` has a premise, `StartsApartFromStops`. Without it, it does not
hold: a stop between the statements `running.Store(true)` and
`c.stopCh = make(...)` of a concurrent start (controller.go:129-130) closes the
channel of the earlier start, and a loop of the earlier start that was in the
middle of its cycle then waits on a channel nobody will close, while `running`
is false.

Ages grow together (`TimePasses`) up to the longest time any profile waits for,
beyond which no decision can tell them apart.

### Curves and ProfileDuty

`Curves` goes from a reading to a duty: `CalculateInputValue` projects loads on
the temperature axis of the profile and aggregates, `LinearSpeed`, `StepSpeed`
and `PidSpeed` are the `Calculate` methods, `ValidProfile` is the validator.
Temperatures and gains are integers in tenths where the code has floating point;
a quotient loses its fraction, which changes no order and no bound. Parameters
that are missing or have the wrong JSON type are keys outside the domain of
`params`, so the defaults of the constructors and the "is required" errors are
there. The PID's integral is kept as the term `iTerm` (integral times `Ki`),
which is what its windup clamp bounds.

`ProfileDuty` is one profile: `Update` and `SetActive` for users, `Sense` for
the sensors, `Compute` for a cycle that finds it active, `Prune` for one that
finds it inactive. `lastInput` and `algo` are the controller's maps
`profileLastInput`, `algoInstances` and `algoSig` at this profile. The variable
`seen` is history: what the last computing cycle saw. Cycles that end early
(failed load, emergency, sensor loss) leave this state alone when the profile is
active, and an emergency cycle prunes before it ends, so both are covered by
stuttering and `Prune`. Profiles do not share any of this state, so one is
enough; what a set of them does to the zones is `Arbitration`. An update is one
step here, as nobody else writes the settings.

### Settings

A value of `rows` is the settings table; `config` and `safety` are what the
controller keeps of it. `phase` is the process: the table is opened
(`OpenDatabase` chooses the default of a missing mode), the missing rows are
created one by one, main starts the controller (`LoadSettings`, `StoreLoaded`),
and requests are served. A save is `UpdateCalled`, one `WriteSetting` per row in
the order of the handler, `ReadBack`, and `UpdateSettings`; between any two of
them the other request, a start or a reader that finds the settings not loaded
(`LookRead`, `LookStore`) may act, and the process may die (`Crash`). Opening the
table drops two errors, and both are in the model: a count of the rows that is
not answered counts as no rows, and a default whose look-up fails is passed over.
A default that cannot be created ends the process, and so does the interval 0
that a missing `control_interval` reads as, on which the loop's ticker panics. Rows the
controller does not work with are left out, as are the `startup_*` rows, whose
effect is `ApplyStartupSpeed` in `FanControl`. What may happen in a behaviour
(its *scene*) is chosen at its beginning, so that one run can look at several
small worlds instead of one that is too large.

Two overlapping saves, or one that overlaps a start, may leave the older copy in
the controller, and a read that fails leaves the copy as it was;
`ControllerKnowsSettings` excepts these (`excused`) until the next save or start
that is alone.

`install` is history: what the mode of this installation owes to its first start.
`InstallDecidesMode` says that an installation older than the modes keeps the
single threshold and a new one the limits of its hardware, until a request sends
a mode. Where the code does not do that, `install` becomes "free", and these are
all such steps: the count of an old table is not answered while its mode is
missing (`OpenDatabase`; it gets "hardware"), and a process of a new installation
ends after it created rows and before the row of the mode (`Crash`; the next one
takes it for an old installation). The property is about the row. While the row
is missing because its look-up failed, the table reads as "hardware" for an old
installation too, until the next start creates it.

### Sensors and Thermal

A *survey* is what the hardware would answer now. `Sensors` turns it into the
lists the code makes of it: which answers count as plausible, the index each
device gets, and for drives the merge of what hwmon shows with what `smartctl`
said, numbered by device name. The code compares drives by that name only, and
the name is not the drive: hwmon, and `/dev` where `smartctl --scan` does not
answer, show an NVMe drive by its namespace (`/dev/nvme0n1`), `smartctl --scan` by
its controller (`/dev/nvme0`). A drive therefore has two names, `Node` and `Ctrl`,
equal for SATA, and the id of a listed drive is the one its source uses
(`ScanName`). Where `/dev` has block nodes, an NVMe drive is then never covered
and listed twice for good, though the comment at system.go:343-345 has `smartctl`
for "drives hwmon didn't cover"; `TwiceOnlyBriefly` and `DevicesKeepIndex` are
about names, and say of a drive only what holds when it has one. A drive has one
namespace here. A list is a set of device records. Two things
follow from the order of a list in the code, and both are kept as such: the
indexes (a package or board sensor has as many before it as answered in front of
it, `Place`; a drive as many as have an earlier name, `Drives`), and which
device is the worst, one that no other goes before (`WorstStatus` with `Less`);
those that could be first in its place have the same status. `EvaluateThermal`
with `ResolveLimit`, `Status` and `Less` is `services/thermal.go`, in both modes.

`Thermal` puts the readers around it. A reader samples NVML and hwmon in one
step (`Gather`), asks `smartctl` for the names hwmon did not cover when the cache
of 10 s has expired (`Scan`), stores the answers (`StoreScan`), and then judges:
the loop in `Cycle`, which also compares every device's status with the last one
told and decides `emergencyActive`, a monitoring request in `Answer`. The sample
is one step because nothing of the program acts in it, and hardware that changes
half way through answers like one that changed before or after for each device;
the cache is apart, since it is shared and as old as it is. The other half of
`controlCycle` is `FanControl`'s, which knows of a listing only whether it is
critical or empty: `EmergencyIsCritical` is what connects the two.

### Ipmi

A call goes through the stages of `stage`; each `ipmitool` it runs is in `todo`
and ends, in any order with the others', with one of three outcomes: done,
failed without effect, failed with effect. `world` fixes the board's vendor,
whether hwmon is there, whether commands may fail, and which calls each caller
makes. A board obeys only the commands of its vendor, so a probe of the wrong
driver fails and one of the right driver writes. `Plan` is what each driver makes
of a write: Supermicro's four commands for all zones, Dell's one, ASRock's one
command with the speeds of all fans, put together from `tracked`
(`currentSpeeds`) fan after fan in `Build`, without a lock, as in the code.

`s.mu` is a `sync.RWMutex` and its rule is part of the model: `runCommand` holds
it for reading while a command runs; a step that takes it for writing first asks
(`AskLock`), from when no command starts, then waits for those that run
(`Locked`), and when it is done those that waited to read are let in (`Unlock`).
The coalescing of readers is `Lead`, `Wait`, `Publish`, `Unlead` and `Woken` over
`inflight` and `waiters`. A waiter whose request is gone leaves (`GiveUp`). The
three seconds of a cache are taken to be longer than a goroutine needs to wake
up (`Expire`).

Main detects a driver before it starts anything else, and a detection always
ends with one (Generic at worst), so the service's paths without a driver cannot
be reached and are left out.

### Store

A request reads rows into `held`, and writes later: `UpdateReads`, `Preload` and
the transaction `UpdateStores`; `DeleteReads`, `DeleteDeactivates`, `DeleteFinds`,
`DeleteInputs` and `DeleteRow`; `DetectFinds` and `DetectKeeps` per fan, then
`DetectPrunes`. `Refused` ends a request at any point: not found, not valid, or a
failing statement; only a failed deactivation does not end a delete
(`DeleteDeactivates`). A new profile's inputs may bring ids of their own, which
`Create` keeps: one in use ends the transaction, one beyond the last moves the
next id (`Numbered`, `Follows`, `Unused`). What gorm's `Save` does is taken from its use: every column,
a row that is gone is inserted again, and so are the loaded inputs, which take
their ids back from whoever has them by then (`Again`). A profile's
settings are the algorithm and the one its parameters fit, which is what partial
updates can get wrong; a sensor stands for an input.

History: `asked` is what the last change of a profile was to leave, `chosen` what
a user last gave a fan. `stale` are the requests whose rows another has changed
since they read them, `raced` what was changed from such a reading: there the
code does lose updates (an activation during an edit; a profile deleted during an
edit is inserted again), so `ProfilesAsAsked` and `UserChoiceSurvives` hold of
the rest, while `StoredValid` holds of everything. `emptied` are the profiles a
delete took the inputs from but not yet, or never, the row: deletes are no
transaction, and one broken off in between leaves the profile without inputs.
`ProfilesAsAsked` excepts the inputs of these, and only their inputs, until an
update brings new ones or another delete ends.

## 3. The runs

Passing runs:

| Run | Instance | What it shows |
|---|---|---|
| `hwmon_driver` | 2 channels, 2 concurrent identifications, duties 40 and 100, one firmware duty, any boot mode manual or auto, all events but the failing duty write | bookkeeping consistent (`OwnershipConsistent`), nothing left in manual mode (`NothingLeftManual`), released channels in automatic mode (`ReleaseReachesFirmware`), no false alarm and no missed override (`NoFalseAlarm`, `OverrideReported`) |
| `arbitration` | 3 profiles, 2 zones, 2 priorities, 3 duties, symmetric | the loop computes the best target and a top owner after any number of iterations |
| `control` | 2 channels, 2 profiles that overlap on one, readings 30, 60, 95 and none, failing loads and writes, profiles switched | `EmergencyReached`, `SensorLossReached`, `RecordedIsCommanded` |
| `override` | 1 channel, 2 profiles, 1 request, 1 identification, failing duty writes and releases | `RecordedIsCommanded` with clears and identifications in the middle of a cycle, `ClearRestores`, `Converges`, the type invariant |
| `lifecycle` | 1 channel no profile targets, main and a handler that start, 2 requests that stop, both shutdown settings, at most 3 starts | `StopEndsLoops`, `RunningHasLoop` |
| `profile_duty` | 1 profile, a CPU temperature and a GPU load, 6 readings (one without the load, one without any sensor), 6 edits that are accepted and 4 that are refused | `HotterNeverSlower`, `DutyFollowsInput`, `FreshStart`, `PidSettles`, the type invariant |
| `thermal` | 1 GPU, 1 package, 2 thermal zones, 2 board sensors, 3 drives, one of them NVMe; 10 surveys, of which each scene admits a few; the loop and one monitoring request; 2 saving requests; tables of a new, an old and a full installation, with failing statements; one crash | temperatures (`EmergencyFollows`, `EmergencyIsCritical`, `EventsTellStatus`, `DevicesKeepIndex`, `TwiceOnlyBriefly`) and settings (`ControllerKnowsSettings`, `InstallDecidesMode`), the type invariant |
| `ipmi` | 3 calls at once in 13 worlds: readers on boards with and without duties, writers of each vendor, detections and choices of a driver, with and without failing commands | `WaitersAnswered`, `LoneWriteHolds`, `DetectedIsDriven`, `EveryCallReturns`, the type invariant |
| `store` | 2 requests at once on one stored profile or fan in 8 worlds, any of them refused anywhere, with and without a crash; at most 2 profiles, 5 inputs and 3 fans ever inserted | `StoredValid`, `ProfilesAsAsked`, `UserChoiceSurvives`, the type invariant |

The bounds. Two channels are what is needed to have one that fails while another
works, one that two profiles claim and one that only one does; channels do not
otherwise interact in the driver. Two profiles give an outranked and a winning
claim; three in `arbitration` give every mix of outranked, equal and winning.
Duties of 20 against 50 and 80 are changes well above the threshold of 5
that smoothing cuts into changes above and below it. The two profiles differ in
which of minimum run time and transition is longer, which decides whether
smoothing stops half way. The longest wait is 2 beats. Sensor loss needs 3
cycles, and the counter is kept to 3 since only >= 3 is ever asked. `MaxStarts`
is 3 in `lifecycle`, main's start and two by a handler, because a loop left over
from one start can meet the stop channels of the next and of the one after it; the profile of that run targets a channel the board does not have, since
what a cycle writes plays no part in how loops end. `override` uses a cold reading only, since
temperature and manual speeds meet only in the duty computed, and the emergency
is the subject of `control`. `hwmon_driver` leaves out "pwm_fails", the premise
of `NothingLeftManual`; the run `override` has it. In `profile_duty` the
temperatures differ by less and by more than the hysteresis and lie on both
sides of the PID's setpoint; the edits reach each algorithm, each aggregation,
two PIDs that differ in their gains, no hysteresis, and fewer inputs; nothing
bounds the length of a history, as the windup clamp keeps the state finite.

In `thermal` a cache of two beats can be fresh, ageing and expired; drive 0 is
known to both sources, so it can be lost to one and found by the other; drive 1's
threshold is a placeholder and its attribute holds more than a temperature; drive
2 has two names, which `smartctl --scan` uses and, when it does not answer, not. The
surveys reach a hot drive only `smartctl` sees, a hot CPU with more headroom than
a merely warm drive (its limit is set to 120, above `emergency_temp`), a machine
with only thermal zones, and one without any sensor. One crash is enough, as what
a process leaves to the next is the table alone. In `ipmi` three callers are a
reader that leads, one that waits, and one that writes, detects or waits too;
which calls meet is fixed per world, and a caller repeats its calls for ever, so
a failure is followed by the write that repairs it. ASRock's four cells are the
zones with one and with two fans and the fans that no zone has. In `store` two
requests give every pair of a reader and a writer of the same row; a third would
only add a second writer to the same gap, which leaves the reader as stale as one
does. Ids are never reused, so the bounds on rows are the creations a world asks
for.

Runs that expect a violation state what a comment or document says of the
program and what the code does not do: `override_held`, `emergency_over` and
`stop_in_flight`. Each is a finding in `PROJECT.json` with the line it
contradicts. In short: a manual speed is not held by the loop; emergency speeds
are not recorded, so a zone whose target did not change stays at the emergency
speed, as do channels that nobody targets; a cycle in flight at a stop overwrites
parked fans.

Other places where the code does less than one may expect are the stated
exceptions of properties that hold: a controller started over HTTP loses its loop
when the request ends and still counts as running (`RunningHasLoop`); the
validator exempts zeros from the order of bounds, so that a curve with a maximum
of 0 falls at its hottest point (`HotterNeverSlower` is about curves that rise);
a running controller is not told of a new `safety_on_shutdown`
(`UpdateSettings` in `Settings`, `SafetySetting` in `FanControl`); overlapping
saves may leave the older settings in force (`excused`); overlapping edits lose
one of them (`raced`); a choice of a driver leaves the registry on the old one
(`DetectedIsDriven` is about detections); a delete that is broken off leaves a
profile without inputs, active if its deactivation failed or was undone
(`ProfilesAsAsked`, `emptied`); an old installation whose rows cannot be counted,
or a new one whose first process ends too early, gets the other mode
(`InstallDecidesMode`, `install`); an NVMe drive is listed under two names
(`TwiceOnlyBriefly`).

### Fairness

`Scheduling` (in `FanControl`): goroutines and handlers that can step do step,
time passes, the ticker ticks, an identification ends after its duration: weak
fairness. The exit of the loop has strong fairness, because a Go select chooses
at random among the cases that are ready, and an exit once ready is ready at
every later select of that loop. `Retrying` adds strong fairness of the
successful outcome of a step that the loop repeats every cycle: a load or a write
that is tried for ever works now and then. Without it nothing could be said of a
device that is broken for good; `lifecycle` does not need it. `HwmonDriver`
assumes that the readings are polled (the dashboard does, every few seconds while
it is open), that a poll that can read the channels comes, and that grace periods
end. `ProfileDuty` assumes strong fairness of `Compute`: the loop ticks for ever,
and cycles that end early do not go on for ever while the profile is active.
`PidSettles` has the premise `AtRest`, that edits and readings come to an end. No
fairness is assumed of users, sensors or the firmware.

`Thermal`: time passes, the loop's ticker comes round, a reader that has begun
goes on since `smartctl` and the database answer, and what the settings' handlers
have begun they end: weak fairness. `Cycle` and the loop's `Look` have strong
fairness, because a database that fails now and then answers now and then.
`EmergencyFollows` and `TwiceOnlyBriefly` have the premise `HardwareAtRest`.
`Ipmi`: each call's goroutine runs on and its commands end (weak fairness of
`Step`), and a step that waits for the lock gets it in the end (strong fairness),
as Go's `RWMutex` admits no new readers while a writer waits and does not starve
a writer. That an `ipmitool` ends is an assumption: one that never did would
hold the lock for ever, and the code kills it only when its context is done,
which for the loop's commands has no timeout. `store` needs no fairness.

Every property of a passing run also has a mutant in its module, a definition
marked "Faulty" that a plausible bug would give, under which TLC finds the
property violated.

## 4. What is proved

`HwmonDriverProofs`, for any set of zones, callers, percentages, firmware duties
and events:

- `PwmRoundTrip`: percent to raw to percent to raw gives the same raw duty,
  which is what an identification relies on;
- `TypeCorrect`, `OwnershipCorrect`, `NothingLeftManualCorrect`,
  `NoFalseAlarmCorrect`: the four invariants of the run `hwmon_driver`. Each
  needs the type invariant; `NothingLeftManual` and `NoFalseAlarm` need
  `OwnershipConsistent`, since only the agreement of `touched`, `commanded` and
  `enable` says what a write or a release leaves behind;
- `ReleaseCorrect`: the action property `ReleaseReachesFirmware`.

They rest on `DriverAssumption`: percentages are in 0..100, boot modes and
firmware duties are values the registers can have.

`ArbitrationProofs`, for any finite set of profiles and any zones, integer
priorities and natural duties (`ArbitrationAssumption`): `TypeCorrect`,
`TargetsCorrect` and `OwnerCorrect`. The inductive invariant adds to the two
properties that the recorded priority is that of the owner, and that every
profile taken so far has at least the priority of every profile to come, which
is what a descending order means; the maximum of a finite set of duties is dealt
with in the lemmas `MaxIsTop` and `Numbers`.

`FanControlProofs`, for any channels, profiles, duties, requests,
identifications, numbers of starts, and any mix of the failures and events that
`World` admits (`FanControlAssumption`: finitely many channels and profiles,
duties and speeds that are percentages, waits that are at least one beat):

- `SmoothedBetween`: after any number of beats a duty under way lies between the
  one it left and the one it goes to; the truncation of the interpolation never
  overshoots. Without it no duty of a cycle could be shown to be a percentage;
- `DriverImplemented`: the program, with everything that can happen in and around
  it, implements `HwmonDriver`'s specification: each step of a goroutine, a
  request, an identification or the world is a step of the driver or leaves it
  alone. `DriverSafe` carries the driver's invariants over to the program by it,
  instead of proving them again;
- `TypeCorrect`, from `ControllerTyped` and `DriverSafe`;
- `RunningHasLoopCorrect`. The property is not inductive: a start replaces the
  stop channel under every other loop. `LoopServes` says what is, that there is a
  loop which waits, or will wait, on the channel the controller holds now, or a
  start that is about to make one; `Waiting` says that only a goroutine in its
  select waits on a channel;
- `RecordedCorrect`: `RecordedIsCommanded` in every behaviour in which no two
  goroutines are between the write and the record of one channel (`OneRecorder`).
  Two can be, when the controller is started again while the last cycle of a
  stopped loop still runs, and then the later record need not be of the later
  write; the hypothesis says exactly that this does not happen.
  `RecordedWithoutStarts` shows that it does not as long as only main starts the
  controller. The invariant is `WrittenIsCommanded`: what a cycle is about to
  record is what the chip was last told, unless somebody else wrote the channel.

`ProfileDutyProofs`, for any settings the validator accepts, any edits, sensors
and readings (`ProfileDutyAssumption`: readings, gains, weights and steps are
numbers, a profile has finitely many inputs, which is what the types of the API
let through):

- `InstanceCorrect` and `FreshStartCorrect`: the instance the controller holds
  has the signature of the cycle that computed last, and there is none when an
  inactive cycle came after it;
- `DutyKept`, the inductive invariant `DutyOK`: the settings in the database are
  accepted ones; last input, instance and history come and go together; the
  integral term is within the widest windup limit and the duty a percentage; and
  without a PID the duty is that of an input nearer to the real one than the
  hysteresis is wide (`InputHeld`). `TypeCorrect` and `DutyFollowsInputCorrect`
  are read off it;
- `HotterNeverSlowerCorrect`: the input of a cycle is at least the held one of
  the cycle before, since the real input did not fall and the held one was less
  than a hysteresis above it; then the lemmas about the operators of `Curves`
  carry the order through: `ProjectedMonotone`, `AggregateMonotone` for each
  method, `InputMonotone`, `LinearCurve`, `StepCurve`, `CalculateMonotone`.

The sums of the averages are folds over the sensors. That such a fold exists, is
a number and grows with its terms (`SummingExists`, `SumWithin`, `SumMonotone`) is
shown without an induction theorem, from the least size of a set at which it
would fail; natural numbers are well ordered by `<` (`LeastNumber`).

`ThermalProofs`, with the lemmas of `SensorsProofs` about the operators of
`Sensors`, for any machine (finite sets of devices, any surveys of numbers), any
readers, requests, rows and number of crashes:

- `SettingsTyped`: rows, and what saves, starts and lookups carry between the
  table and the controller, stay values the API accepts, or defaults
  (`SettingsOK`); all later theorems of the module stand on it;
- `ControllerKnowsCorrect`. What is inductive (`KnowsOK`): as long as nothing is
  excused, there is at most one save or start under way (`OneAtATime`), and what
  it has read and is about to store is what the table says (`ReadIsCurrent`);
- `InstallDecidesCorrect`, by `InstallOK`: as long as `install` says "upgraded"
  there are rows, and as long as it says "new" and the mode is missing there are
  none when the table is opened, so that an opening with a count chooses the mode
  that is owed (`DefaultDecides`), and only a request that sends one (`RequestFrees`)
  or one of the named failures frees it;
- `ThermalTyped` (`ReadersOK`, `CycleOK`, `EventsOK`) and from it `TypeCorrect`;
- `EmergencyIsCriticalCorrect`: `Less` has a least element in every finite list
  (`LessOrders`), and the status of any such is critical as soon as one device is
  (`WorstIsCritical`), whatever its limit or headroom;
- `EventsTellStatusCorrect` and `DevicesKeepIndexCorrect`. For the latter
  `SameIndexes`: lists whose devices are numbered by place within their kind, and
  which show the same devices once each, give them the same numbers. That drives
  of two sources, one of which is an old cache, are numbered so is
  `DrivesNumbered`.

They assume `SensorsAssumption`, `SettingsAssumption` and `ThermalAssumption`:
device sets are finite, answers are numbers, the rows an installation starts with
are acceptable ones, and requests have at least one row.

`IpmiProofs`, for any number of callers, boards of each vendor, and commands that
fail with and without effect (`IpmiAssumption`: a board is of one of the vendors
`ipmitool` reaches, as hwmon is found apart, and a call names a zone a Dell or
Supermicro board has):

- `IpmiTyped`: each call is in a place its kind reaches, with the commands that
  belong there (`CallsOK`), the tracked speeds and cells are bytes (`BoardOK`), and
  the mark of a reading stands exactly while one caller reads, those who wait
  being in its list (`QueueOK`); hence `TypeCorrect`;
- `WaitersAnsweredCorrect`: who a leader woke finds its answer;
- `LoneTyped` and `LoneWriteCorrect`: a write that meets no other runs on the
  service's driver and what it has set and has left to set is all it was asked
  for, whatever failed writes left of the tracked speeds before;
- `DetectedCorrect`: a detection that meets no other ends with one driver in the
  service and in the registry, the board's own when no command failed.

`StoreProofs`, for any number of requests, rows and crashes (`StoreAssumption`:
the tables at first and the requests are what the API's types let through):
`StoreTyped` (ids are unique and below the next one, inputs belong to profiles
that are or were there, a request holds what its kind may hold), `TypeCorrect`,
`StoredValidCorrect`, `ProfilesAsAskedCorrect`, `UserChoiceCorrect`. For
`ProfilesAsAsked` the invariant adds what the requests under way know: one that is
not stale holds the rows as they are (`AllFresh`), and what a statement is about
to leave is what was asked, through the three statements of a delete, with the
exception of the inputs of an emptied profile.

Every assumption is evaluated by TLC on the instances of the runs, so none is
empty. Every invariant that a passing run checks is proved for all instances
except `RecordedIsCommanded`, which is proved under `OneRecorder`, and
so are all its action properties, `HotterNeverSlower`, `FreshStart`,
`ReleaseReachesFirmware` and `DevicesKeepIndex`.

Only model-checked: everything under fairness (`EmergencyReached`,
`SensorLossReached`, `ClearRestores`, `Converges`, `StopEndsLoops`,
`OverrideReported`, `PidSettles`, `EmergencyFollows`, `TwiceOnlyBriefly`,
`EveryCallReturns`), since the prover deals neither with liveness nor with
ENABLED. Recursion over data is outside of it too, which is why no module
declares a RECURSIVE operator.

## 5. Not modelled, and the plan

Not modelled:

- accounts, sessions, roles and the rate limiter (`services/auth.go`,
  `api/auth.go`, `api/middleware.go`): they decide who may send a request and
  change no state of the fan control;
- the event log, the websocket and the monitoring pages: reporting only. What is
  told of a device is `events` in `Thermal`; the 15-minute reminder is left out;
- data types, environment variables, the route table, the web UI;
- the text of sysfs, NVML, `smartctl` and `ipmitool`: what is read from it is
  modelled, how it is parsed is not;
- the service's paths without a driver and its own command formats
  (`services/ipmi.go:533-611`, `614-695`, `739-849`), which main's start makes
  unreachable, the test of a connection and the chassis status;
- the rows of the settings that configure IPMI, the motherboard and the zone
  layout, and the validator's look at zones, names and times;
- the default parameters of a new profile (`api/profiles.go:113-140`), which are
  a matter of Go's types;
- a second discovery of hwmon and two chips of one name.

Next, in this order:

1. An abstract driver (a duty per zone, or the firmware) that `HwmonDriver` and
   the ASRock part of `Ipmi` implement, as a refinement that TLC checks and a
   theorem.
2. `FanControl` with the loop of `Arbitration` in the place of `Target` and
   `TopClaimants`: today the theorems of `ArbitrationProofs` say that the two
   agree, but no module composes them.
3. The safety part of `OneRecorder`: which starts and stops lead to two recorders
   of one channel.
4. hwmon's re-discovery, with two chips of one name.
