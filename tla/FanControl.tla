------------------------------ MODULE FanControl ------------------------------
(***************************************************************************)
(* The fan controller (services/controller.go) driving the hwmon driver,   *)
(* with everything that runs beside it: the HTTP handlers that start and   *)
(* stop it, set and clear manual speeds, identify fans and switch profiles *)
(* (api/fans.go, api/settings.go, api/profiles.go), and the sensors.       *)
(*                                                                         *)
(* A goroutine runs FanController.Start and then controlLoop.  Its steps   *)
(* are cut where another goroutine can get in between: at every driver     *)
(* call (the driver has a mutex), at every access to the controller's maps *)
(* (FanController.mu), at the accesses to running and stopCh (neither is   *)
(* protected together with the other), and at every wait of the loop.      *)
(***************************************************************************)
EXTENDS ControlPolicy

CONSTANTS
    Zone,           \* the channels of the driver
    Profile,        \* the profiles in the database
    Config,         \* each profile's settings, see ControlPolicy
    Duty,           \* the duties profile p may compute at reading t: Duty[p][t]
    Reading,        \* the temperatures the sensors show, NoReading apart
    Critical,       \* those at or above emergency_temp
    EmergencySpeed, \* emergency_speed
    StartupMode,    \* startup_mode: "full", "percent" or "resume"
    StartupPercent, \* startup_percent
    ManualPercent,  \* the duties users set by hand
    Main,           \* the goroutine of main.go's Start, with a context of its own
    Handler,        \* HTTP handlers that may call Start, with the request's context
    Request,        \* concurrent HTTP requests other than Start
    Caller,         \* concurrent fan identifications
    BootMode,       \* pwmN_enable of a channel at boot
    SafetySetting,  \* what safety_on_shutdown may be in the database: users save
                    \* it at any time, so each reader may find any of these
    MaxStarts,      \* bound: how often the controller is started
    World           \* what happens beside the loop in this instance, see Events

\* Calls and failures an instance admits; the actions never change.
Events == {"temperature", "no_reading", "profiles", "override", "clear",
           "expire", "identify", "start", "stop", "terminate",
           "db_error", "enable_fails", "pwm_fails", "release_fails"}

NoReading == -1
Goroutine == {Main} \cup Handler
Percent == (UNION {Duty[p][t] : p \in Profile, t \in Reading \cup {NoReading}})
               \cup ManualPercent \cup {EmergencySpeed, 100}

ASSUME FanControlAssumption ==
    /\ IsFiniteSet(Zone) /\ "none" \notin Zone
    /\ IsFiniteSet(Profile)
    /\ Reading \subseteq Nat /\ Critical \subseteq Reading
    /\ \A p \in Profile :
           /\ Config[p].priority \in Int
           /\ Config[p].usesTemp \in BOOLEAN /\ Config[p].smooth \in BOOLEAN
           /\ Config[p].minRun \in Nat \ {0} /\ Config[p].transition \in Nat \ {0}
           /\ \A t \in Reading \cup {NoReading} :
                  Duty[p][t] # {} /\ Duty[p][t] \subseteq 0..100
    /\ ManualPercent \subseteq 0..100 /\ EmergencySpeed \in 0..100
    /\ StartupMode \in {"full", "percent", "resume"} /\ StartupPercent \in Nat
    /\ Main \notin Handler
    /\ BootMode \subseteq {"full", "manual", "auto"}
    /\ SafetySetting \subseteq BOOLEAN
    /\ MaxStarts \in Nat \ {0}
    /\ World \subseteq Events

VARIABLES
    \* the controller
    running,         \* FanController.running
    stopCh,          \* the channel stopCh holds, numbered from 0
    closed,          \* the stop channels closed so far
    everSawTemp, noTempCycles, emergencyActive,
    lastSpeeds, zoneTargetSpeeds, \* Unset where the map has no key
    age,             \* beats since zoneLastChanged, Never where it is zero
    manualOverrides, \* Unset where the map has no key
    safetyOnShutdown,\* as the last loadSettings left it
    \* its goroutines
    pc,              \* where each goroutine is
    watch,           \* the stop channel its select waits on
    plan,            \* the zone targets its cycle has still to apply
    cur,             \* the write it is about to make or to record
    ctxDone,         \* goroutines whose context is cancelled
    serving,         \* main has started the HTTP server
    \* the requests
    req,
    \* the world
    temp,            \* what the sensors show
    active,          \* the profiles with is_active in the database
    writer,          \* history: who last wrote each channel, or "cleared" when
                     \* its history was forgotten since
    \* the driver
    enable, pwm, origEnable, touched, commanded, settled, mismatch, manualMode,
    ident, drifted

\* What the driver sees of this program: calls of all its methods with duties
\* from 0 to 100, and the failures of this instance.
DriverEnv == {"set", "set_all", "session", "release", "identify"}
                 \cup (World \cap {"enable_fails", "pwm_fails", "release_fails"})

D == INSTANCE HwmonDriver WITH
        Percent <- 0..100, Env <- DriverEnv, FirmwarePwm <- {}

lifeVars == <<running, stopCh, closed, ctxDone, serving>>
thermalVars == <<everSawTemp, noTempCycles, emergencyActive>>
memoryVars == <<lastSpeeds, zoneTargetSpeeds, age>>
loopVars == <<pc, watch, plan, cur>>
userVars == <<manualOverrides, req>>
worldVars == <<temp, active, safetyOnShutdown>>
driverVars == <<enable, pwm, origEnable, touched, commanded, settled, mismatch,
                manualMode, ident, drifted>>
vars == <<lifeVars, thermalVars, memoryVars, loopVars, userVars, worldVars,
          writer, driverVars>>

MaxAge == Max({0} \cup {Config[p].minRun : p \in Profile}
                  \cup {Config[p].transition : p \in Profile})
SensorLossCycles == 3
SafeFloor == 30

NoCur == [zone |-> "none", final |-> 0, target |-> 0]
NoReq == [op |-> "idle", zone |-> "none", percent |-> 0, safe |-> FALSE]

\* Where a goroutine may be: before Start, in Start, in controlCycle, between
\* two selects, waiting in select, or gone.
InStart == {"open", "launch", "channel", "startup"}
InCycle == {"cycle", "apply", "write", "record"}
InLoop == {"enter", "select"}

\* The channels an all-fans call wrote are marked with who made it.
Wrote(who, out) ==
    writer' = [z \in Zone |-> IF out[z] = "ok" THEN who ELSE writer[z]]

OutcomeVectors == [Zone -> D!Outcomes]

-----------------------------------------------------------------------------
(* Starting.                                                               *)

\* FanController.Start called by a handler: nothing to do when running.
StartCalled(g) ==
    /\ "start" \in World /\ g \in Handler /\ serving /\ stopCh < MaxStarts
    /\ pc[g] = "off" /\ ~running
    /\ pc' = [pc EXCEPT ![g] = "open"]
    /\ ctxDone' = ctxDone \ {g}
    /\ UNCHANGED <<running, stopCh, closed, serving, thermalVars, memoryVars,
                   watch, plan, cur, userVars, worldVars, writer, driverVars>>

\* Loads the settings, or keeps those it has when that fails, and opens a
\* control session on the driver.
OpenControl(g) ==
    /\ pc[g] = "open"
    /\ \/ safetyOnShutdown' \in SafetySetting
       \/ "db_error" \in World /\ UNCHANGED safetyOnShutdown
    /\ D!OpenSession
    /\ pc' = [pc EXCEPT ![g] = "launch"]
    /\ UNCHANGED <<lifeVars, thermalVars, memoryVars, watch, plan, cur,
                   userVars, temp, active, writer>>

Launch(g) ==
    /\ pc[g] = "launch"
    /\ running' = TRUE
    /\ pc' = [pc EXCEPT ![g] = "channel"]
    /\ UNCHANGED <<stopCh, closed, ctxDone, serving, thermalVars, memoryVars,
                   watch, plan, cur, userVars, worldVars, writer, driverVars>>

\* Replaces the stop channel, whoever waits on the old one.
MakeStopCh(g) ==
    /\ pc[g] = "channel"
    /\ stopCh' = stopCh + 1
    /\ pc' = [pc EXCEPT ![g] = "startup"]
    /\ UNCHANGED <<running, closed, ctxDone, serving, thermalVars, memoryVars,
                   watch, plan, cur, userVars, worldVars, writer, driverVars>>

StartupSpeed ==
    IF StartupMode = "full" THEN 100
    ELSE IF StartupPercent < SafeFloor THEN SafeFloor
    ELSE IF StartupPercent > 100 THEN 100 ELSE StartupPercent

\* applyStartupSpeed: "resume" writes nothing on this driver, which keeps what
\* nobody commands on the firmware curve.
ApplyStartupSpeed(g) ==
    /\ pc[g] = "startup"
    /\ pc' = [pc EXCEPT ![g] = "cycle"]
    /\ IF StartupMode = "resume"
       THEN UNCHANGED <<writer, driverVars>>
       ELSE \E out \in OutcomeVectors :
                D!SetAllFanSpeeds(StartupSpeed, out) /\ Wrote("startup", out)
    /\ UNCHANGED <<lifeVars, thermalVars, memoryVars, watch, plan, cur,
                   userVars, worldVars>>

-----------------------------------------------------------------------------
(* The loop.                                                               *)

\* Between two cycles the loop evaluates c.stopCh and waits in select.  Main
\* starts the HTTP server after Start has returned.
EnterSelect(g) ==
    /\ pc[g] = "enter"
    /\ pc' = [pc EXCEPT ![g] = "select"]
    /\ watch' = [watch EXCEPT ![g] = stopCh]
    /\ serving' = (serving \/ g = Main)
    /\ UNCHANGED <<running, stopCh, closed, ctxDone, thermalVars, memoryVars,
                   plan, cur, userVars, worldVars, writer, driverVars>>

\* The ticker case.
LoopTick(g) ==
    /\ pc[g] = "select"
    /\ pc' = [pc EXCEPT ![g] = "cycle"]
    /\ watch' = [watch EXCEPT ![g] = Unset]
    /\ UNCHANGED <<lifeVars, thermalVars, memoryVars, plan, cur, userVars,
                   worldVars, writer, driverVars>>

\* Faulty: a stop is remembered across the next start.
LoopExitOnceStopped(g) ==
    /\ pc[g] = "select"
    /\ closed # {} \/ g \in ctxDone
    /\ pc' = [pc EXCEPT ![g] = "off"]
    /\ watch' = [watch EXCEPT ![g] = Unset]
    /\ UNCHANGED <<lifeVars, thermalVars, memoryVars, plan, cur, userVars,
                   worldVars, writer, driverVars>>

\* The two cases that end the loop; select picks any case that is ready.
LoopExit(g) ==
    /\ pc[g] = "select"
    /\ watch[g] \in closed \/ g \in ctxDone
    /\ pc' = [pc EXCEPT ![g] = "off"]
    /\ watch' = [watch EXCEPT ![g] = Unset]
    /\ UNCHANGED <<lifeVars, thermalVars, memoryVars, plan, cur, userVars,
                   worldVars, writer, driverVars>>

\* The request that called Start has been answered: net/http cancels its
\* context, which is the context of the loop.
RequestAnswered(g) ==
    /\ g \in Handler \ ctxDone
    /\ pc[g] \in InLoop
    /\ ctxDone' = ctxDone \cup {g}
    /\ UNCHANGED <<running, stopCh, closed, serving, thermalVars, memoryVars,
                   loopVars, userVars, worldVars, writer, driverVars>>

-----------------------------------------------------------------------------
(* One control cycle.  It reads the sensors and the active profiles, and   *)
(* then does one of four things.                                           *)

CycleBegins(g) ==
    /\ pc[g] = "cycle"
    /\ everSawTemp' = (everSawTemp \/ temp # NoReading)
    /\ UNCHANGED <<lifeVars, memoryVars, watch, cur, userVars, worldVars>>

\* The profiles cannot be loaded: the cycle is over.
CycleDbError(g) ==
    /\ "db_error" \in World
    /\ CycleBegins(g)
    /\ pc' = [pc EXCEPT ![g] = "enter"]
    /\ UNCHANGED <<noTempCycles, emergencyActive, plan, writer, driverVars>>

ForceAll(g, out) ==
    /\ D!SetAllFanSpeeds(EmergencySpeed, out)
    /\ Wrote("emergency", out)
    /\ pc' = [pc EXCEPT ![g] = "enter"]
    /\ UNCHANGED plan

\* Faulty: forces the fans only when the emergency begins.
CycleEmergencyOnce(g, out) ==
    /\ temp \in Critical
    /\ CycleBegins(g)
    /\ emergencyActive' = TRUE
    /\ noTempCycles' = 0
    /\ IF emergencyActive
       THEN /\ pc' = [pc EXCEPT ![g] = "enter"]
            /\ UNCHANGED <<plan, writer, driverVars>>
       ELSE ForceAll(g, out)

\* A reading at or above emergency_temp.
CycleEmergency(g, out) ==
    /\ temp \in Critical
    /\ CycleBegins(g)
    /\ emergencyActive' = TRUE
    /\ noTempCycles' = 0
    /\ ForceAll(g, out)

SensorsLost ==
    /\ temp = NoReading /\ everSawTemp
    /\ \E p \in active : Config[p].usesTemp

\* The third cycle in a row without a temperature a profile needs.
CycleSensorsLost(g, out) ==
    /\ SensorsLost /\ noTempCycles >= SensorLossCycles - 1
    /\ CycleBegins(g)
    /\ emergencyActive' = FALSE
    /\ noTempCycles' = SensorLossCycles
    /\ ForceAll(g, out)

\* The targets of the zones the driver has when the active profiles compute
\* the duties duty, with the profile whose timing governs each zone.
Plans(duty) ==
    LET claimed == {z \in Zone : Claimants(Config, active, z) # {}}
        Entry(z, p) == [zone |-> z, owner |-> p,
                        target |-> Target(Config, active, duty, z)]
    IN  {{Entry(z, owner[z]) : z \in claimed} :
         owner \in {f \in [claimed -> active] :
             \A z \in claimed : f[z] \in TopClaimants(Config, active, z)}}

\* The duties the active profiles may compute now.
Computed == {f \in [active -> Percent] : \A p \in active : f[p] \in Duty[p][temp]}

Resume(rest) == IF rest = {} THEN "enter" ELSE "apply"

\* Faulty: notes that the sensors are lost without counting.
LostCyclesOnce == IF SensorsLost THEN 1 ELSE 0

LostCycles == IF SensorsLost THEN noTempCycles + 1 ELSE 0

\* Otherwise every active profile computes its duty and their targets are to
\* be applied; a profile whose sensor is missing computes with what is left.
CyclePlan(g) ==
    /\ temp \notin Critical
    /\ ~(SensorsLost /\ noTempCycles >= SensorLossCycles - 1)
    /\ CycleBegins(g)
    /\ emergencyActive' = FALSE
    /\ noTempCycles' = LostCycles
    /\ \E duty \in Computed : \E entries \in Plans(duty) :
           /\ plan' = [plan EXCEPT ![g] = entries]
           /\ pc' = [pc EXCEPT ![g] = Resume(entries)]
    /\ UNCHANGED <<writer, driverVars>>

\* The zones come in any order (a Go map); what was last sent to the zone is
\* read under the lock, and the write is made after the lock is given up.
ToSend(e) ==
    LET z == e.zone
        prof == Config[e.owner]
        final == Final(prof, e.target, lastSpeeds[z], zoneTargetSpeeds[z], age[z])
    IN  IF Held(prof, age[z]) \/ ~Significant(final, lastSpeeds[z]) THEN NoCur
        ELSE [zone |-> z, final |-> final, target |-> e.target]

Decide(g, e) ==
    /\ pc[g] = "apply" /\ e \in plan[g]
    /\ plan' = [plan EXCEPT ![g] = @ \ {e}]
    /\ cur' = [cur EXCEPT ![g] = ToSend(e)]
    /\ pc' = [pc EXCEPT ![g] = IF cur'[g] = NoCur THEN Resume(plan'[g]) ELSE "write"]
    /\ UNCHANGED <<lifeVars, thermalVars, memoryVars, watch, userVars,
                   worldVars, writer, driverVars>>

\* Faulty: a failed write is recorded like a successful one.
WriteIgnoringError(g, o) ==
    /\ pc[g] = "write"
    /\ D!SetFanSpeed(cur[g].zone, cur[g].final, o)
    /\ writer' = [writer EXCEPT ![cur[g].zone] = "cycle"]
    /\ pc' = [pc EXCEPT ![g] = "record"]
    /\ UNCHANGED <<lifeVars, thermalVars, memoryVars, watch, plan, cur,
                   userVars, worldVars>>

\* A failed write is logged and the zone left for the next cycle.
Write(g, o) ==
    /\ pc[g] = "write"
    /\ D!SetFanSpeed(cur[g].zone, cur[g].final, o)
    /\ IF o = "ok"
       THEN /\ writer' = [writer EXCEPT ![cur[g].zone] = "cycle"]
            /\ pc' = [pc EXCEPT ![g] = "record"]
            /\ UNCHANGED cur
       ELSE /\ pc' = [pc EXCEPT ![g] = Resume(plan[g])]
            /\ cur' = [cur EXCEPT ![g] = NoCur]
            /\ UNCHANGED writer
    /\ UNCHANGED <<lifeVars, thermalVars, memoryVars, watch, plan, userVars,
                   worldVars>>

Record(g) ==
    /\ pc[g] = "record"
    /\ lastSpeeds' = [lastSpeeds EXCEPT ![cur[g].zone] = cur[g].final]
    /\ zoneTargetSpeeds' = [zoneTargetSpeeds EXCEPT ![cur[g].zone] = cur[g].target]
    /\ age' = [age EXCEPT ![cur[g].zone] = 0]
    /\ cur' = [cur EXCEPT ![g] = NoCur]
    /\ pc' = [pc EXCEPT ![g] = Resume(plan[g])]
    /\ UNCHANGED <<lifeVars, thermalVars, watch, plan, userVars, worldVars,
                   writer, driverVars>>

-----------------------------------------------------------------------------
(* Stopping, from a handler or at SIGTERM.                                 *)

\* The check of running, and the choice of how to leave the fans: a handler
\* uses what the controller loaded when it started, main what the database
\* says, or TRUE when it cannot be read.
StopCalled(r, safe) ==
    /\ serving /\ running /\ req[r] = NoReq
    /\ \/ "stop" \in World /\ safe = safetyOnShutdown
       \/ "terminate" \in World /\ safe \in SafetySetting
       \/ "terminate" \in World /\ "db_error" \in World /\ safe
    /\ req' = [req EXCEPT ![r] = [NoReq EXCEPT !.op = "halt", !.safe = safe]]
    /\ UNCHANGED <<lifeVars, thermalVars, memoryVars, loopVars, manualOverrides,
                   worldVars, writer, driverVars>>

Halt(r) ==
    /\ req[r].op = "halt"
    /\ running' = FALSE
    /\ req' = [req EXCEPT ![r].op = "close"]
    /\ UNCHANGED <<stopCh, closed, ctxDone, serving, thermalVars, memoryVars,
                   loopVars, manualOverrides, worldVars, writer, driverVars>>

\* Faulty: leaves the loop to notice that running is false.
CloseNothing(r) ==
    /\ req[r].op = "close"
    /\ req' = [req EXCEPT ![r].op = IF req[r].safe THEN "park" ELSE "hand_back"]
    /\ UNCHANGED <<lifeVars, thermalVars, memoryVars, loopVars, manualOverrides,
                   worldVars, writer, driverVars>>

\* Closing a closed channel panics; the router's Recoverer ends the request.
CloseStopCh(r) ==
    /\ req[r].op = "close"
    /\ closed' = closed \cup {stopCh}
    /\ req' = [req EXCEPT ![r] =
                  IF stopCh \in closed THEN NoReq
                  ELSE [@ EXCEPT !.op = IF req[r].safe THEN "park" ELSE "hand_back"]]
    /\ UNCHANGED <<running, stopCh, ctxDone, serving, thermalVars, memoryVars,
                   loopVars, manualOverrides, worldVars, writer, driverVars>>

Park(r) ==
    /\ req[r].op = "park"
    /\ D!OpenSession
    /\ req' = [req EXCEPT ![r].op = "park_all"]
    /\ UNCHANGED <<lifeVars, thermalVars, memoryVars, loopVars, manualOverrides,
                   worldVars, writer>>

ParkAll(r, out) ==
    /\ req[r].op = "park_all"
    /\ D!SetAllFanSpeeds(100, out)
    /\ Wrote("park", out)
    /\ req' = [req EXCEPT ![r] = NoReq]
    /\ UNCHANGED <<lifeVars, thermalVars, memoryVars, loopVars, manualOverrides,
                   worldVars>>

HandBack(r, ok) ==
    /\ req[r].op = "hand_back"
    /\ D!CloseSession(ok)
    /\ writer' = [z \in Zone |-> IF z \in ok THEN "none" ELSE writer[z]]
    /\ req' = [req EXCEPT ![r] = NoReq]
    /\ UNCHANGED <<lifeVars, thermalVars, memoryVars, loopVars, manualOverrides,
                   worldVars>>

-----------------------------------------------------------------------------
(* Manual speeds.  Overrides are kept per fan, and a fan has one channel.  *)

\* SetSpeed first records the override, and then writes the speed.
SetSpeed(r, z, percent) ==
    /\ "override" \in World /\ serving /\ req[r] = NoReq
    /\ manualOverrides' = [manualOverrides EXCEPT ![z] = percent]
    /\ req' = [req EXCEPT ![r] =
                  [NoReq EXCEPT !.op = "set", !.zone = z, !.percent = percent]]
    /\ UNCHANGED <<lifeVars, thermalVars, memoryVars, loopVars, worldVars,
                   writer, driverVars>>

SetSpeedWrite(r, o) ==
    /\ req[r].op = "set"
    /\ D!SetFanSpeed(req[r].zone, req[r].percent, o)
    /\ writer' = IF o = "ok" THEN [writer EXCEPT ![req[r].zone] = "user"] ELSE writer
    /\ req' = [req EXCEPT ![r] = NoReq]
    /\ UNCHANGED <<lifeVars, thermalVars, memoryVars, loopVars, manualOverrides,
                   worldVars>>

\* A cycle is between writing z and recording what it wrote.
Recording(z) == \E g \in Goroutine : pc[g] = "record" /\ cur[g].zone = z

MarkCleared(z) ==
    writer' = [writer EXCEPT ![z] = IF Recording(z) THEN @ ELSE "cleared"]

\* Faulty: drops the override and keeps the zone's command history.
ClearSpeedOnly(r, z) ==
    /\ "clear" \in World /\ serving /\ req[r] = NoReq
    /\ manualOverrides' = [manualOverrides EXCEPT ![z] = Unset]
    /\ req' = [req EXCEPT ![r] = [NoReq EXCEPT !.op = "cleared", !.zone = z]]
    /\ MarkCleared(z)
    /\ UNCHANGED <<lifeVars, thermalVars, memoryVars, loopVars, worldVars,
                   driverVars>>

\* ClearManualOverride drops the override and the zone's command history in
\* one critical section, ...
ClearSpeed(r, z) ==
    /\ "clear" \in World /\ serving /\ req[r] = NoReq
    /\ manualOverrides' = [manualOverrides EXCEPT ![z] = Unset]
    /\ lastSpeeds' = [lastSpeeds EXCEPT ![z] = Unset]
    /\ zoneTargetSpeeds' = [zoneTargetSpeeds EXCEPT ![z] = Unset]
    /\ age' = [age EXCEPT ![z] = Never]
    /\ req' = [req EXCEPT ![r] = [NoReq EXCEPT !.op = "cleared", !.zone = z]]
    /\ MarkCleared(z)
    /\ UNCHANGED <<lifeVars, thermalVars, loopVars, worldVars, driverVars>>

\* ... then asks the database whether an active profile targets the zone (an
\* error reads as yes), ...
ClearCheck(r) ==
    /\ req[r].op = "cleared"
    /\ \/ /\ \/ Claimants(Config, active, req[r].zone) # {}
             \/ "db_error" \in World
          /\ req' = [req EXCEPT ![r] = NoReq]
       \/ /\ Claimants(Config, active, req[r].zone) = {}
          /\ req' = [req EXCEPT ![r].op = "release"]
    /\ UNCHANGED <<lifeVars, thermalVars, memoryVars, loopVars, manualOverrides,
                   worldVars, writer, driverVars>>

\* ... and releases the zone when none does.
ClearRelease(r, ok) ==
    /\ req[r].op = "release"
    /\ D!ReleaseZone(ok)
    /\ writer' = [z \in Zone |-> IF z \in ok THEN "none" ELSE writer[z]]
    /\ req' = [req EXCEPT ![r] = NoReq]
    /\ UNCHANGED <<lifeVars, thermalVars, memoryVars, loopVars, manualOverrides,
                   worldVars>>

\* HasManualOverride drops an override whose time is over when it is polled.
Expire(z) ==
    /\ "expire" \in World /\ serving
    /\ manualOverrides[z] # Unset
    /\ manualOverrides' = [manualOverrides EXCEPT ![z] = Unset]
    /\ UNCHANGED <<lifeVars, thermalVars, memoryVars, loopVars, req, worldVars,
                   writer, driverVars>>

\* IdentifyFan spins a fan and, after the wait, puts its channel back.
IdentifyStart(c, z, o) ==
    /\ "identify" \in World /\ serving
    /\ D!IdentifyStart(c, z, o)
    /\ writer' = IF o = "ok" THEN [writer EXCEPT ![z] = "identify"] ELSE writer
    /\ UNCHANGED <<lifeVars, thermalVars, memoryVars, loopVars, userVars, worldVars>>

IdentifyEnd(c) ==
    /\ \/ \E o \in D!Outcomes :
              /\ D!IdentifyRestore(c, o)
              /\ writer' = IF o = "ok"
                           THEN [writer EXCEPT ![ident[c].zone] = "identify"] ELSE writer
       \/ \E ok \in D!Released({ident[c].zone}) :
              /\ D!IdentifyRelease(c, ok)
              /\ writer' = [z \in Zone |-> IF z \in ok THEN "none" ELSE writer[z]]
    /\ UNCHANGED <<lifeVars, thermalVars, memoryVars, loopVars, userVars, worldVars>>

-----------------------------------------------------------------------------
(* The world: sensors, users switching profiles, and time.                 *)

SensorsChange ==
    /\ temp' \in {t \in Reading : "temperature" \in World}
                 \cup {t \in {NoReading} : "no_reading" \in World}
    /\ temp' # temp
    /\ UNCHANGED <<lifeVars, thermalVars, memoryVars, loopVars, userVars, active,
                   safetyOnShutdown, writer, driverVars>>

\* Activating or deactivating a profile is one UPDATE of the database.
ProfileSwitched(p) ==
    /\ "profiles" \in World /\ serving
    /\ active' = IF p \in active THEN active \ {p} ELSE active \cup {p}
    /\ UNCHANGED <<lifeVars, thermalVars, memoryVars, loopVars, userVars, temp,
                   safetyOnShutdown, writer, driverVars>>

\* A beat passes for every zone; ages are told apart up to MaxAge.
TimePasses ==
    /\ \E z \in Zone : age[z] # Never /\ age[z] < MaxAge
    /\ age' = [z \in Zone |-> IF age[z] = Never \/ age[z] = MaxAge THEN age[z]
                              ELSE age[z] + 1]
    /\ UNCHANGED <<lifeVars, thermalVars, lastSpeeds, zoneTargetSpeeds, loopVars,
                   userVars, worldVars, writer, driverVars>>

-----------------------------------------------------------------------------
Init ==
    /\ running = FALSE /\ stopCh = 0 /\ closed = {} /\ ctxDone = {}
    /\ serving = FALSE
    /\ everSawTemp = FALSE /\ noTempCycles = 0 /\ emergencyActive = FALSE
    /\ lastSpeeds = [z \in Zone |-> Unset]
    /\ zoneTargetSpeeds = [z \in Zone |-> Unset]
    /\ age = [z \in Zone |-> Never]
    /\ manualOverrides = [z \in Zone |-> Unset]
    /\ safetyOnShutdown = TRUE
    /\ pc = [g \in Goroutine |-> IF g = Main THEN "open" ELSE "off"]
    /\ watch = [g \in Goroutine |-> Unset]
    /\ plan = [g \in Goroutine |-> {}]
    /\ cur = [g \in Goroutine |-> NoCur]
    /\ req = [r \in Request |-> NoReq]
    /\ temp \in (Reading \ Critical) \cup {t \in {NoReading} : "no_reading" \in World}
    /\ active \in SUBSET Profile
    /\ writer = [z \in Zone |-> "none"]
    /\ D!Init

Starting(g) ==
    \/ StartCalled(g)
    \/ OpenControl(g)
    \/ Launch(g)
    \/ MakeStopCh(g)
    \/ ApplyStartupSpeed(g)

Cycling(g) ==
    \/ CycleDbError(g)
    \/ \E out \in OutcomeVectors : CycleEmergency(g, out)
    \/ \E out \in OutcomeVectors : CycleSensorsLost(g, out)
    \/ CyclePlan(g)
    \/ \E e \in plan[g] : Decide(g, e)
    \/ \E o \in D!Outcomes : Write(g, o)
    \/ Record(g)

Looping(g) == EnterSelect(g) \/ LoopTick(g) \/ LoopExit(g) \/ RequestAnswered(g)

Stopping(r) ==
    \/ \E safe \in BOOLEAN : StopCalled(r, safe)
    \/ Halt(r)
    \/ CloseStopCh(r)
    \/ Park(r)
    \/ \E out \in OutcomeVectors : ParkAll(r, out)
    \/ \E ok \in D!Released(touched) : HandBack(r, ok)

Overriding(r) ==
    \/ \E z \in Zone, percent \in ManualPercent : SetSpeed(r, z, percent)
    \/ \E o \in D!Outcomes : SetSpeedWrite(r, o)
    \/ \E z \in Zone : ClearSpeed(r, z)
    \/ ClearCheck(r)
    \/ \E ok \in D!Released({req[r].zone}) : ClearRelease(r, ok)

Identifying(c) ==
    \/ \E z \in Zone, o \in D!Outcomes : IdentifyStart(c, z, o)
    \/ IdentifyEnd(c)

Outside ==
    \/ SensorsChange
    \/ \E p \in Profile : ProfileSwitched(p)
    \/ TimePasses
    \/ \E z \in Zone : Expire(z)

Next ==
    \/ \E g \in Goroutine : Starting(g) \/ Cycling(g) \/ Looping(g)
    \/ \E r \in Request : Stopping(r) \/ Overriding(r)
    \/ \E c \in Caller : Identifying(c)
    \/ Outside

Spec == Init /\ [][Next]_vars

(***************************************************************************)
(* Fairness.  Goroutines and handlers are scheduled; the ticker ticks; an  *)
(* identification ends after its duration; time passes.  select picks at   *)
(* random among the cases that are ready, so an exit that is ready at every*)
(* wait is taken in the end.                                               *)
(***************************************************************************)
Scheduling ==
    /\ WF_vars(TimePasses)
    /\ \A g \in Goroutine :
           /\ WF_vars(pc[g] # "off" /\ (Starting(g) \/ Cycling(g) \/ EnterSelect(g)))
           /\ WF_vars(RequestAnswered(g))
           /\ WF_vars(LoopTick(g)) /\ SF_vars(LoopExit(g))
    /\ \A r \in Request : WF_vars(req[r] # NoReq /\ (Stopping(r) \/ Overriding(r)))
    /\ \A c \in Caller : WF_vars(IdentifyEnd(c))

\* A load or a write that is tried again and again does not fail for ever.
AllOk == [z \in Zone |-> "ok"]

Retrying ==
    \A g \in Goroutine :
        /\ SF_vars(CycleEmergency(g, AllOk)) /\ SF_vars(CycleSensorsLost(g, AllOk))
        /\ SF_vars(CyclePlan(g))
        /\ \A z \in Zone : SF_vars(cur[g].zone = z /\ Write(g, "ok"))

LifeSpec == Spec /\ Scheduling
FairSpec == LifeSpec /\ Retrying

-----------------------------------------------------------------------------
(* Properties.                                                             *)

Entries == [zone : Zone, owner : Profile, target : Percent]
Currents == {NoCur} \cup [zone : Zone, final : 0..100, target : Percent]
Requests ==
    [op : {"idle", "set", "cleared", "release", "halt", "close", "park",
           "park_all", "hand_back"},
     zone : Zone \cup {"none"}, percent : ManualPercent \cup {0}, safe : BOOLEAN]

\* The controller's fields, maps and goroutines have the values their Go types
\* and code allow; duties stay within 0..100 through smoothing.
TypeOK ==
    /\ D!TypeOK
    /\ running \in BOOLEAN /\ serving \in BOOLEAN
    /\ stopCh \in Nat /\ closed \subseteq 0..stopCh
    /\ ctxDone \subseteq Handler
    /\ everSawTemp \in BOOLEAN /\ emergencyActive \in BOOLEAN
    /\ noTempCycles \in 0..SensorLossCycles
    /\ lastSpeeds \in [Zone -> 0..100 \cup {Unset}]
    /\ zoneTargetSpeeds \in [Zone -> Percent \cup {Unset}]
    /\ age \in [Zone -> 0..MaxAge \cup {Never}]
    /\ manualOverrides \in [Zone -> ManualPercent \cup {Unset}]
    /\ safetyOnShutdown \in BOOLEAN
    /\ pc \in [Goroutine -> {"off"} \cup InStart \cup InCycle \cup InLoop]
    /\ watch \in [Goroutine -> 0..stopCh \cup {Unset}]
    /\ plan \in [Goroutine -> SUBSET Entries]
    /\ cur \in [Goroutine -> Currents]
    /\ req \in [Request -> Requests]
    /\ temp \in Reading \cup {NoReading}
    /\ active \subseteq Profile
    /\ writer \in [Zone -> {"none", "startup", "emergency", "cycle", "user",
                            "cleared", "identify", "park"}]

AllAt(percent) == \A z \in Zone : commanded[z] = D!PctToPwm(percent)

\* What the controller believes it last sent to a zone is what the driver last
\* wrote there, as long as one loop runs and nobody else wrote the zone since:
\* whatever writes fail, whatever overrides are cleared in the middle of a
\* cycle (controller.go:688-698 records only what succeeded, and decides the
\* next write from the record).
RecordedIsCommanded ==
    \A z \in Zone :
        lastSpeeds[z] # Unset /\ writer[z] = "cycle" /\ ~Recording(z) =>
            commanded[z] = D!PctToPwm(lastSpeeds[z])

\* A critical temperature that lasts brings every channel to the emergency
\* speed while the controller runs, whatever profiles, manual speeds and
\* minimum run times say, through failing loads and writes
\* (controller.go:499-516, README.md:264-266).
EmergencyReached ==
    (running /\ temp \in Critical)
        ~> (~running \/ temp \notin Critical \/ AllAt(EmergencySpeed))

\* So does a lasting loss of every temperature once one was seen, while a
\* profile that uses temperatures is active (controller.go:525-539).
SensorLossReached ==
    (running /\ SensorsLost) ~> (~running \/ ~SensorsLost \/ AllAt(EmergencySpeed))

\* Nothing outside changes any more: not the temperature, which leaves the
\* profiles in control, not the active profiles, and users are done.
Steady(t, A) ==
    /\ temp = t /\ active = A /\ ~SensorsLost
    /\ \A r \in Request : req[r] = NoReq

\* z is within SendThreshold of what the profiles want, as far as the
\* controller knows.
AtTarget(z) ==
    Claimants(Config, active, z) # {} =>
        \E duty \in Computed :
            ~Significant(Target(Config, active, duty, z), lastSpeeds[z])

\* When the world comes to rest, every zone a profile targets comes to rest
\* within SendThreshold of its target: the minimum run time holds it only for
\* a while, the transition gets there, and a failed write is tried again
\* (controller.go:661-699).
Converges ==
    \A t \in Reading \ Critical, A \in SUBSET Profile :
        <>[](running /\ Steady(t, A))
            => <>[](\A z \in Zone : AtTarget(z))

\* The profiles want a duty for z that is sent even to a zone whose history
\* reads as zero.
Wanted(z) ==
    /\ Claimants(Config, active, z) # {}
    /\ \A duty \in Computed : Significant(Target(Config, active, duty, z), Unset)
    /\ temp \notin Critical /\ ~SensorsLost

\* After a manual speed is cleared, the speed of the profiles is sent again
\* ("The zone's command history is forgotten so the next control cycle re-sends
\* the profile target", controller.go:303-306), unless a cycle was between
\* writing and recording that zone.
ClearRestores ==
    \A z \in Zone :
        (writer[z] = "cleared" /\ Wanted(z)) ~> (writer[z] # "cleared" \/ ~Wanted(z))

\* Nobody starts the controller while it is being stopped.
StartsApartFromStops ==
    \A g \in Goroutine, r \in Request :
        ~(pc[g] \in InStart /\ req[r].op \in {"halt", "close"})

\* Once the controller is stopped for good every loop ends, also one that was
\* in the middle of a cycle, one that waited on an earlier stop channel or
\* evaluates a later one, and one started by a request, provided that starts
\* and stops do not overlap (controller.go:234-240, 402-416).
StopEndsLoops ==
    ([]StartsApartFromStops /\ <>[](~running /\ \A r \in Request : req[r] = NoReq))
        => <>[](\A g \in Goroutine : pc[g] = "off")

\* A controller that reports that it runs (controller.go:269-272) on a stop channel
\* that is open has a loop or is starting one, whatever starts and stops went
\* before or meet: no loop takes an earlier stop for its own.  The exception is a
\* loop that ended with the request that started it (api/settings.go:389): running
\* then stays TRUE without a loop, and so the next start does nothing.
RunningHasLoop ==
    running /\ stopCh \notin closed /\ ctxDone = {}
        => \E g \in Goroutine : pc[g] # "off"

-----------------------------------------------------------------------------
(* What comments and documents say of the program, see the violation runs. *)

\* "so the control loop keeps this zone under manual control until it expires
\* or is cleared" (api/fans.go:249-250): while an override is in force, was
\* written, and the temperature is not critical, the zone is at its speed.
OverrideHolds ==
    \A z \in Zone :
        (/\ manualOverrides[z] # Unset
         /\ \A r \in Request : req[r] = NoReq
         /\ writer[z] # "emergency")
        => commanded[z] = D!PctToPwm(manualOverrides[z])

\* "profiles resume control" (controller.go:520): when the emergency is over, a
\* zone whose profiles want another speed leaves the emergency speed.
ProfilesResume ==
    \A z \in Zone :
        LET Differs == \A duty \in Computed :
                Significant(Target(Config, active, duty, z), EmergencySpeed)
        IN  (running /\ ~emergencyActive /\ writer[z] = "emergency"
                 /\ Wanted(z) /\ Differs)
                ~> (~running \/ writer[z] # "emergency" \/ ~Wanted(z) \/ ~Differs)

\* "safety_on_shutdown decides whether stopping the service parks fans at
\* 100 % or leaves them under firmware control" (README.md:283-284).
StoppedFansAreSafe ==
    (/\ serving /\ ~running
     /\ \A r \in Request : req[r] = NoReq
     /\ \A g \in Goroutine : pc[g] = "off")
    => touched = {} \/ AllAt(100)
=============================================================================
