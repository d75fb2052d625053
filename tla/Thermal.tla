------------------------------- MODULE Thermal -------------------------------
(***************************************************************************)
(* How a temperature becomes an emergency: the readers of the sensors (the *)
(* control loop and the monitoring requests) share the cache of smartctl's *)
(* answers, and the control loop judges what it read with the settings it  *)
(* finds, reports each device's status and decides the emergency           *)
(* (gatherInputs and the first half of controlCycle, services/             *)
(* controller.go; the other half is FanControl's, whose temp is NoReading  *)
(* when the listing is empty and critical when EmergencyIsCritical says).  *)
(***************************************************************************)
EXTENDS Sensors, Settings

CONSTANTS
    Loop,           \* the reader that is the control loop
    Survey,         \* what the hardware may answer, by name: see Sensors
    CacheTime,      \* beats smartctl's answers are kept (10 s)
    FirstSurvey     \* what it answers at first

ASSUME ThermalAssumption ==
    /\ Loop \in Looker /\ FirstSurvey \in DOMAIN Survey
    /\ CacheTime \in Nat \ {0}
    /\ \A name \in DOMAIN Survey : ProperSurvey(Survey[name])

VARIABLES
    survey,         \* the name of what the hardware answers now
    gpuLimits,      \* the threshold each GPU gave when first asked, or Unasked
    fallback, fallbackAge, \* smartctl's answers and their age; Never before any
    stage,          \* where each reader is
    sample,         \* what it listed by NVML and hwmon, and which drives those cover
    found,          \* what it has of the other drives
    inputs,         \* what the last cycle gave the profiles, with its indexes
    listing,        \* the devices of the last cycle as it judged them
    threshold,      \* history: the emergency temperature of the last cycle
    emergencyActive,
    deviceStatus,   \* per device key, a partial function
    events          \* history: what the last event of a device key said

readerVars == <<gpuLimits, fallback, fallbackAge, stage, sample, found>>
cycleVars == <<inputs, listing, threshold, emergencyActive, deviceStatus, events>>
vars == <<survey, readerVars, cycleVars, settingsVars>>

Machine == Survey[survey]
Unasked == -1
Never == -1
NoSample == [devices |-> {}, boards |-> {}, drives |-> {}, covered |-> {}]

-----------------------------------------------------------------------------
(* Reading the sensors.                                                    *)

\* A GPU is asked for its threshold once, whatever it says.
Limits == [g \in Gpu |->
              IF gpuLimits[g] = Unasked /\ Machine.gpu[g] # Gone
              THEN Machine.limit[g] ELSE gpuLimits[g]]

\* Faulty: answers once asked for are kept for good.
FreshForever == fallbackAge # Never
Fresh == fallbackAge # Never /\ fallbackAge < CacheTime

\* The GPUs, the packages and the drives hwmon shows; the other drives come from
\* the cache, and from smartctl when the cache has expired.  The board sensors,
\* which the code reads last, are sampled here too: only profiles use them.
Gather(r) ==
    /\ phase = "up" /\ stage[r] = "idle"
    /\ (IF r = Loop THEN "loop" ELSE "page") \in world
    /\ gpuLimits' = Limits
    /\ sample' = [sample EXCEPT ![r] =
                     [devices |-> GpuMetrics(Machine, Limits) \cup CpuPackages(Machine),
                      boards |-> BoardTemperatures(Machine),
                      drives |-> HwmonDrives(Machine), covered |-> Covered(Machine)]]
    /\ found' = [found EXCEPT ![r] = IF BlockNodes /\ Fresh THEN fallback ELSE {}]
    /\ stage' = [stage EXCEPT ![r] = IF BlockNodes /\ ~Fresh THEN "scan" ELSE "judge"]
    /\ UNCHANGED <<survey, fallback, fallbackAge, cycleVars, settingsVars>>

\* smartctl runs for each name hwmon did not cover; no lock is held.
Scan(r) ==
    /\ stage[r] = "scan"
    /\ found' = [found EXCEPT ![r] = ScanDrives(Machine, sample[r].covered)]
    /\ stage' = [stage EXCEPT ![r] = "store"]
    /\ UNCHANGED <<survey, gpuLimits, fallback, fallbackAge, sample, cycleVars,
                   settingsVars>>

StoreScan(r) ==
    /\ stage[r] = "store"
    /\ fallback' = found[r] /\ fallbackAge' = 0
    /\ stage' = [stage EXCEPT ![r] = "judge"]
    /\ UNCHANGED <<survey, gpuLimits, sample, found, cycleVars, settingsVars>>

Listed(r) == sample[r].devices \cup Drives(sample[r].drives, found[r])

-----------------------------------------------------------------------------
(* Judging them.                                                           *)

\* Faulty: recoveries are not told.
WorthTellingWarm(key, status) ==
    /\ status # "ok"
    /\ key \notin DOMAIN deviceStatus \/ deviceStatus[key] # status

\* A change of a device's status; a device first seen in order is not worth an
\* event, and the reminder of one that stays bad says what the last one said.
WorthTelling(key, status) ==
    \/ key \in DOMAIN deviceStatus /\ deviceStatus[key] # status
    \/ key \notin DOMAIN deviceStatus /\ status # "ok"

Over(f, g) ==
    [x \in DOMAIN f \cup DOMAIN g |-> IF x \in DOMAIN g THEN g[x] ELSE f[x]]

\* Two devices never share a key: drives are numbered in their list.
LogThermalTransitions(devices) ==
    LET keys == {DeviceKey(d) : d \in devices}
        now == [key \in keys |-> (CHOOSE d \in devices : DeviceKey(d) = key).status]
        told == {key \in keys : WorthTelling(key, now[key])}
    IN  /\ deviceStatus' = Over(deviceStatus, now)
        /\ events' = Over(events, [key \in told |-> now[key]])

\* What a reader listed is of no use to its next round.
CycleOver(r) ==
    /\ stage' = [stage EXCEPT ![r] = "idle"]
    /\ sample' = [sample EXCEPT ![r] = NoSample]
    /\ found' = [found EXCEPT ![r] = {}]

\* The cycle judges its listing; when the worst device is critical there is an
\* emergency until a cycle finds none.
Cycle ==
    /\ stage[Loop] = "judge" /\ LookDone(Loop)
    /\ \E devices \in {EvaluateThermal(Snapshot(Loop), Listed(Loop))} :
           /\ LogThermalTransitions(devices)
           /\ listing' = devices
           /\ emergencyActive' = (WorstStatus(Snapshot(Loop), devices) = "critical")
    /\ inputs' = Listed(Loop) \cup sample[Loop].boards
    /\ threshold' = Snapshot(Loop).emergency_temp
    /\ CycleOver(Loop)
    /\ UNCHANGED <<survey, gpuLimits, fallback, fallbackAge>>

\* Without the active profiles there is no judgement in this cycle.
CycleDbError ==
    /\ "db_error" \in world /\ stage[Loop] = "judge" /\ at[Loop] = "idle"
    /\ CycleOver(Loop)
    /\ UNCHANGED <<survey, gpuLimits, fallback, fallbackAge, cycleVars, settingsVars>>

\* AnnotateThermal: a request judges what it read for its own answer.
Answer(r) ==
    /\ r # Loop /\ stage[r] = "judge" /\ LookDone(r)
    /\ CycleOver(r)
    /\ UNCHANGED <<survey, gpuLimits, fallback, fallbackAge, cycleVars>>

Look(r) ==
    /\ stage[r] = "judge"
    /\ LookRead(r) \/ LookStore(r)
    /\ UNCHANGED <<survey, readerVars, cycleVars>>

-----------------------------------------------------------------------------
(* The world.                                                              *)

Change ==
    /\ survey' \in world \cap DOMAIN Survey
    /\ UNCHANGED <<readerVars, cycleVars, settingsVars>>

\* A beat of time, as far as the cache can tell.
Tick ==
    /\ fallbackAge \in 0..CacheTime - 1
    /\ fallbackAge' = fallbackAge + 1
    /\ UNCHANGED <<survey, gpuLimits, fallback, stage, sample, found, cycleVars,
                   settingsVars>>

\* What a new process knows of the sensors: nothing.
ProcessDies ==
    /\ Crash
    /\ gpuLimits' = [g \in Gpu |-> Unasked]
    /\ fallback' = {} /\ fallbackAge' = Never
    /\ stage' = [r \in Looker |-> "idle"]
    /\ sample' = [r \in Looker |-> NoSample] /\ found' = [r \in Looker |-> {}]
    /\ inputs' = {} /\ listing' = {} /\ threshold' = 0
    /\ emergencyActive' = FALSE
    /\ deviceStatus' = <<>> /\ events' = <<>>
    /\ UNCHANGED survey

Init ==
    /\ survey = FirstSurvey
    /\ gpuLimits = [g \in Gpu |-> Unasked]
    /\ fallback = {} /\ fallbackAge = Never
    /\ stage = [r \in Looker |-> "idle"]
    /\ sample = [r \in Looker |-> NoSample] /\ found = [r \in Looker |-> {}]
    /\ inputs = {} /\ listing = {} /\ threshold = 0
    /\ emergencyActive = FALSE
    /\ deviceStatus = <<>> /\ events = <<>>
    /\ SettingsInit

SettingsOnly == SettingsStep /\ UNCHANGED <<survey, readerVars, cycleVars>>

Next ==
    \/ \E r \in Looker : Gather(r) \/ Scan(r) \/ StoreScan(r) \/ Look(r) \/ Answer(r)
    \/ Cycle \/ CycleDbError
    \/ Change \/ Tick \/ ProcessDies
    \/ SettingsOnly

Spec == Init /\ [][Next]_vars

\* Time passes; a reader that has begun goes on (smartctl ends), the loop's
\* ticker comes round, and the database answers it again and again.
Fairness ==
    /\ WF_vars(Tick)
    /\ WF_vars(Gather(Loop)) /\ SF_vars(Look(Loop)) /\ SF_vars(Cycle)
    /\ WF_vars(SettingsOnly)
    /\ \A r \in Looker : WF_vars(Scan(r)) /\ WF_vars(StoreScan(r)) /\ WF_vars(Look(r))

FairSpec == Spec /\ Fairness

-----------------------------------------------------------------------------
(* Properties.                                                             *)

TypeOK ==
    /\ survey \in DOMAIN Survey
    /\ fallbackAge \in {Never} \cup 0..CacheTime
    /\ \A r \in Looker : stage[r] \in {"idle", "scan", "store", "judge"}
    /\ emergencyActive \in BOOLEAN
    /\ \A k \in DOMAIN rows : Accepted(k, rows[k])
    /\ DOMAIN events \subseteq DOMAIN deviceStatus

\* The emergency rule: fans are forced exactly when a listed device is at or
\* above emergency_temp, whatever its own limit and whichever device the
\* headroom puts first (thermal.go:15-19, 116-119, 184-193).
EmergencyIsCritical ==
    emergencyActive = \E d \in listing : d.temp >= threshold

\* The last event about a device says how the controller holds it to be, and a
\* device nobody reported is in order (logThermalTransitions' comment: events
\* on every change).
EventsTellStatus ==
    \A key \in DOMAIN deviceStatus :
        deviceStatus[key] = IF key \in DOMAIN events THEN events[key] ELSE "ok"

\* As long as the same device names are listed, each once, every one keeps the
\* index profile inputs address it by, even when a drive that has one name in
\* both moves between hwmon and smartctl (system.go:347-348: "must not remap").
DevicesKeepIndex ==
    [][ (Devices(inputs') = Devices(inputs) /\ ListedOnce(inputs) /\ ListedOnce(inputs'))
            => \A d \in Devices(inputs) : Index(inputs', d) = Index(inputs, d) ]_vars

\* What a reader may learn of the hardware now, without any cache.
HotNow ==
    LET hot == config.emergency_temp
        shown == {c \in Package : Plausible(Machine.package[c])}
    IN  \/ \E g \in Gpu : Machine.gpu[g] >= hot
        \/ \E c \in shown : Machine.package[c] >= hot
        \/ shown = {} /\ \E n \in DOMAIN Machine.zone : Machine.zone[n] \in hot..149
        \/ \E d \in DOMAIN Machine.hwmon : Machine.hwmon[d] >= hot
        \/ BlockNodes /\ \E d \in Uncovered(Machine, Covered(Machine)) :
                              DriveTemperature(Machine.smart[d]) >= hot

\* Once the hardware and the settings no longer change, the emergency is what
\* they say: a hot drive only smartctl sees is found, and an old answer about
\* one that cooled down does not last (smartctlDrives' cache, system.go:513-545).
\* With the interval 0 of a table without that row the loop does not live.
HardwareAtRest == <>[][FALSE]_<<survey, config, phase>>
EmergencyFollows ==
    HardwareAtRest =>
        <>[](Loaded /\ config.control_interval > 0 => (emergencyActive = HotNow))

\* And then no device name is listed twice: hwmon's answer for it replaces that of
\* smartctl for good (system.go:352-355, 525).  A drive the two sources name
\* differently, as an NVMe drive, is listed under both names, and stays so.
TwiceOnlyBriefly == HardwareAtRest => <>[]ListedOnce(inputs)
=============================================================================
