------------------------------- MODULE Settings -------------------------------
(***************************************************************************)
(* The settings: the rows of the settings table (database/database.go),    *)
(* the copy the fan controller works with, and everything that writes one  *)
(* or the other: opening the database after an installation or an upgrade, *)
(* FanController.Start, PUT /api/settings (api/settings.go) and the lazy   *)
(* load of thermalCfgSnapshot.  Nothing makes a row and its copy change    *)
(* together: a request writes its rows one by one, reads the table back    *)
(* and hands what it read to the controller, and requests may overlap.     *)
(***************************************************************************)
EXTENDS Integers, FiniteSets, Sequences, Functions

CONSTANTS
    Saver,          \* concurrent PUT /api/settings requests
    Looker,         \* goroutines that may find the settings not loaded yet
    Starter,        \* the goroutine in FanController.Start
    Request,        \* what users send: partial functions from Key
    Scenes,         \* what a behaviour starts from and what may happen in it:
                    \* the rows before the first start, and SettingsEvents or
                    \* events of the module that extends this one
    MaxCrashes      \* bound: how often the process is started again

SettingsEvents == {"save", "db_error", "crash", "start"}

\* The rows, in the order the handler writes them.
WriteOrder == <<"control_interval", "emergency_temp", "emergency_speed",
                "warning_temp", "warning_enabled", "safety_on_shutdown",
                "thermal_limits_mode", "warning_margin",
                "limit_gpu", "limit_cpu", "limit_drive">>
Key == Range(WriteOrder)
Turn(k) == CHOOSE i \in DOMAIN WriteOrder : WriteOrder[i] = k
LimitKey == {"limit_gpu", "limit_cpu", "limit_drive"}

\* What the handler accepts for a row.  A limit of 0 clears the override.
Accepted(k, v) ==
    CASE k = "control_interval" -> v \in 1..60
      [] k \in {"emergency_temp", "warning_temp"} -> v \in 30..120
      [] k = "emergency_speed" -> v \in 0..100
      [] k \in {"warning_enabled", "safety_on_shutdown"} -> v \in BOOLEAN
      [] k = "thermal_limits_mode" -> v \in {"hardware", "legacy"}
      [] k = "warning_margin" -> v \in 1..40
      [] k \in LimitKey -> v = 0 \/ v \in 30..120

\* What FanController keeps: Stop's setting apart, and of the rest the thermal
\* configuration apart, which a reader may load before the controller does.
ConfigKey == Key \ {"safety_on_shutdown"}
ThermalKey == ConfigKey \ {"control_interval", "emergency_speed"}

ASSUME SettingsAssumption ==
    /\ IsFiniteSet(Saver) /\ IsFiniteSet(Looker)
    /\ Saver \cap Looker = {} /\ Starter \notin Saver \cup Looker
    /\ \A r \in Request : DOMAIN r \subseteq Key /\ DOMAIN r # {}
    /\ \A c \in Scenes :
          DOMAIN c.rows \subseteq Key /\ \A k \in DOMAIN c.rows : Accepted(k, c.rows[k])
    /\ MaxCrashes \in Nat

VARIABLES
    rows,       \* the settings table: a partial function from Key
    config,     \* the controller's copy; its mode is "" until it is loaded
    safety,     \* FanController.safetyOnShutdown
    phase,      \* the process: "open", "defaults", "boot" or "up"
    firstMode,  \* the default of a missing mode, chosen when the table was opened
    at,         \* where each request, the starter and each looker is
    todo,       \* the rows a request has still to write, a partial function
    read,       \* the settings each of them read
    crashes,    \* bound: process starts so far
    install,    \* history: what its mode owes to the first start: "upgraded" from a
                \* table without modes, "new", or "free" when there was a mode, or
                \* somebody or something else has decided since
    excused,    \* history: see ControllerKnowsSettings
    world       \* what may happen in this behaviour

settingsVars == <<rows, config, safety, phase, firstMode, at, todo, read,
                  crashes, install, excused, world>>

\* Nothing read or no longer of use, nothing to write.
Nothing == [k \in {} |-> 0]
Actor == Saver \cup Looker \cup {Starter}
Idle(A) == \A a \in A : at[a] = "idle"
Loaded == config.thermal_limits_mode # ""
ModeMissing == "thermal_limits_mode" \notin DOMAIN rows
DefaultsThere == Key \ LimitKey \subseteq DOMAIN rows

\* The value a row gets when the database is opened without it; the limits
\* have none.
Default(k) ==
    CASE k = "control_interval" -> 5
      [] k = "emergency_temp" -> 90
      [] k = "emergency_speed" -> 100
      [] k = "warning_temp" -> 70
      [] k \in {"warning_enabled", "safety_on_shutdown"} -> TRUE
      [] k = "warning_margin" -> 10
      [] k = "thermal_limits_mode" -> firstMode

\* GetAllSettings: what a row that is not there reads as.
AppSettings ==
    [k \in Key |->
        IF k \in DOMAIN rows THEN rows[k]
        ELSE CASE k \in LimitKey \cup {"control_interval"} -> 0
               [] k = "thermal_limits_mode" -> "hardware"
               [] OTHER -> Default(k)]

\* NewFanController, and the configuration used while none can be loaded.
Unloaded ==
    [k \in ConfigKey |->
        CASE k = "thermal_limits_mode" -> ""
          [] k \in LimitKey -> 0
          [] OTHER -> Default(k)]
Fallback == [k \in Key |-> IF k = "thermal_limits_mode" THEN "legacy"
                           ELSE IF k = "safety_on_shutdown" THEN TRUE
                           ELSE config[k]]

-----------------------------------------------------------------------------
(* Opening the database.                                                   *)

\* Faulty: the upgrade switches the mode.
InitialModeHardware(existing) == "hardware"

\* An installation whose table has rows but no mode keeps the single
\* threshold it had; a new one gets the limits of its hardware.
InitialMode(existing) == IF existing = {} THEN "hardware" ELSE "legacy"

\* The error of the count is dropped: no answer is no rows.
OpenDatabase ==
    /\ phase = "open"
    /\ \E counted \in BOOLEAN :
          /\ counted \/ "db_error" \in world
          /\ firstMode' = InitialMode(IF counted THEN DOMAIN rows ELSE {})
          /\ install' = IF install = "upgraded" /\ ~counted /\ ModeMissing
                        THEN "free" ELSE install
    /\ phase' = "defaults"
    /\ UNCHANGED <<rows, config, safety, at, todo, read, crashes, world, excused>>

\* The missing rows are created one by one, in no order (a Go map).
CreateDefault ==
    /\ phase = "defaults"
    /\ \E k \in (Key \ LimitKey) \ DOMAIN rows :
           rows' = [j \in DOMAIN rows \cup {k} |->
                       IF j = k THEN Default(k) ELSE rows[j]]
    /\ UNCHANGED <<config, safety, phase, firstMode, at, todo, read, crashes,
                   install, world, excused>>

\* A row whose look-up fails is passed over.
DefaultsCreated ==
    /\ phase = "defaults"
    /\ DefaultsThere \/ "db_error" \in world
    /\ phase' = "boot"
    /\ UNCHANGED <<rows, config, safety, firstMode, at, todo, read, crashes,
                   install, world, excused>>

\* The process may end anywhere; it does so itself when a default cannot be
\* created, and when the control loop's ticker is given the interval 0 a missing
\* row reads as.  It is started again: the table is what is left.
Crash ==
    /\ \/ "crash" \in world
       \/ phase = "defaults" /\ ~DefaultsThere /\ "db_error" \in world
       \/ phase = "up" /\ config.control_interval = 0
    /\ crashes < MaxCrashes
    /\ crashes' = crashes + 1
    /\ install' = IF install = "new" /\ DOMAIN rows # {} /\ ModeMissing
                  THEN "free" ELSE install
    /\ phase' = "open" /\ firstMode' = "hardware" /\ excused' = FALSE
    /\ config' = Unloaded /\ safety' = TRUE
    /\ at' = [a \in Actor |-> "idle"]
    /\ todo' = [s \in Saver |-> Nothing]
    /\ read' = [a \in Actor |-> Nothing]
    /\ UNCHANGED <<rows, world>>

-----------------------------------------------------------------------------
(* FanController.Start: loadSettings.                                      *)

\* main starts the controller before it serves requests; later a request may.
LoadSettings ==
    /\ phase = "boot" \/ (phase = "up" /\ "start" \in world)
    /\ at[Starter] = "idle"
    /\ at' = [at EXCEPT ![Starter] = "store"]
    /\ read' = [read EXCEPT ![Starter] = AppSettings]
    /\ excused' = ~Idle(Saver)
    /\ UNCHANGED <<rows, config, safety, phase, firstMode, todo, crashes, install, world>>

\* The read failed: the controller works with what it has.
LoadFails ==
    /\ phase \in {"boot", "up"} /\ "db_error" \in world
    /\ at[Starter] = "idle" /\ (phase = "up" => "start" \in world)
    /\ phase' = "up" /\ excused' = TRUE
    /\ UNCHANGED <<rows, config, safety, firstMode, at, todo, read, crashes, install, world>>

StoreLoaded ==
    /\ at[Starter] = "store"
    /\ config' = [k \in ConfigKey |-> read[Starter][k]]
    /\ safety' = read[Starter]["safety_on_shutdown"]
    /\ at' = [at EXCEPT ![Starter] = "idle"]
    /\ read' = [read EXCEPT ![Starter] = Nothing]
    /\ phase' = "up"
    /\ UNCHANGED <<rows, firstMode, todo, crashes, install, world, excused>>

-----------------------------------------------------------------------------
(* PUT /api/settings.                                                      *)

\* Faulty: accepted for the sake of one good value.
AcceptableInPart(r) == \E k \in DOMAIN r : Accepted(k, r[k])

\* A request with any value outside its range is refused as a whole.
Acceptable(r) == \A k \in DOMAIN r : Accepted(k, r[k])

UpdateCalled(s, r) ==
    /\ "save" \in world /\ phase = "up" /\ at[s] = "idle"
    /\ Acceptable(r)
    /\ at' = [at EXCEPT ![s] = "write"]
    /\ todo' = [todo EXCEPT ![s] = r]
    /\ excused' = ~Idle(Saver \cup {Starter})
    /\ UNCHANGED <<rows, config, safety, phase, firstMode, read, crashes, install, world>>

\* The next row; a failed write is ignored.  A new interval is in force at once.
WriteSetting(s, ok) ==
    /\ at[s] = "write"
    /\ ok \/ "db_error" \in world
    /\ \E k \in DOMAIN todo[s] :
          /\ \A j \in DOMAIN todo[s] : Turn(k) <= Turn(j)
          /\ rows' = IF ok THEN [j \in DOMAIN rows \cup {k} |->
                                    IF j = k THEN todo[s][k] ELSE rows[j]]
                     ELSE rows
          /\ config' = IF k = "control_interval"
                       THEN [config EXCEPT !["control_interval"] = todo[s][k]]
                       ELSE config
          /\ install' = IF ok /\ k = "thermal_limits_mode" THEN "free" ELSE install
          /\ todo' = [todo EXCEPT ![s] = [j \in DOMAIN todo[s] \ {k} |-> todo[s][j]]]
    /\ UNCHANGED <<safety, phase, firstMode, at, read, crashes, world, excused>>

ReadBack(s) ==
    /\ at[s] = "write" /\ DOMAIN todo[s] = {}
    /\ at' = [at EXCEPT ![s] = "store"]
    /\ read' = [read EXCEPT ![s] = AppSettings]
    /\ UNCHANGED <<rows, config, safety, phase, firstMode, todo, crashes, install, world,
                   excused>>

\* The read fails and its error is dropped: the handler dereferences nil, the
\* server recovers, and the rows it wrote have no effect.
ReadBackFails(s) ==
    /\ at[s] = "write" /\ DOMAIN todo[s] = {} /\ "db_error" \in world
    /\ at' = [at EXCEPT ![s] = "idle"]
    /\ excused' = TRUE
    /\ UNCHANGED <<rows, config, safety, phase, firstMode, todo, read, crashes, install, world>>

\* UpdateSettings does not pass safety_on_shutdown on.
UpdateSettings(s) ==
    /\ at[s] = "store"
    /\ config' = [k \in ConfigKey |-> read[s][k]]
    /\ at' = [at EXCEPT ![s] = "idle"]
    /\ read' = [read EXCEPT ![s] = Nothing]
    /\ UNCHANGED <<rows, safety, phase, firstMode, todo, crashes, install, world, excused>>

-----------------------------------------------------------------------------
(* thermalCfgSnapshot, where the settings were never loaded.               *)

LookRead(a) ==
    /\ phase = "up" /\ at[a] = "idle" /\ ~Loaded
    /\ \/ read' = [read EXCEPT ![a] = AppSettings]
          /\ at' = [at EXCEPT ![a] = "store"]
       \/ "db_error" \in world
          /\ read' = [read EXCEPT ![a] = Fallback]
          /\ at' = [at EXCEPT ![a] = "looked"]
    /\ UNCHANGED <<rows, config, safety, phase, firstMode, todo, crashes, install, world, excused>>

\* Faulty: stores what it read without looking again.
LookStoreAnyway(a) ==
    /\ at[a] = "store"
    /\ config' = [k \in ConfigKey |->
                     IF k \in ThermalKey THEN read[a][k] ELSE config[k]]
    /\ at' = [at EXCEPT ![a] = "looked"]
    /\ UNCHANGED <<rows, safety, phase, firstMode, todo, read, crashes, install, world, excused>>

\* Meanwhile the controller may have been given newer ones.
LookStore(a) ==
    /\ at[a] = "store"
    /\ config' = [k \in ConfigKey |->
                     IF k \in ThermalKey /\ ~Loaded THEN read[a][k] ELSE config[k]]
    /\ at' = [at EXCEPT ![a] = "looked"]
    /\ UNCHANGED <<rows, safety, phase, firstMode, todo, read, crashes, install, world, excused>>

\* What the goroutine evaluates with, once it has looked.
Looked(a) == at[a] = "looked" \/ (at[a] = "idle" /\ Loaded)
Snapshot(a) == IF at[a] = "looked" THEN read[a] ELSE config
LookDone(a) ==
    /\ Looked(a)
    /\ at' = [at EXCEPT ![a] = "idle"]
    /\ read' = [read EXCEPT ![a] = Nothing]
    /\ UNCHANGED <<rows, config, safety, phase, firstMode, todo, crashes,
                   install, excused, world>>

-----------------------------------------------------------------------------
SettingsInit ==
    /\ \E c \in Scenes : world = c.world /\ rows = c.rows
    /\ firstMode = "hardware"
    /\ config = Unloaded /\ safety = TRUE
    /\ phase = "open"
    /\ at = [a \in Actor |-> "idle"]
    /\ todo = [s \in Saver |-> Nothing]
    /\ read = [a \in Actor |-> Nothing]
    /\ crashes = 0 /\ excused = FALSE
    /\ install = IF DOMAIN rows = {} THEN "new" ELSE IF ModeMissing THEN "upgraded" ELSE "free"

SettingsStep ==
    \/ OpenDatabase \/ CreateDefault \/ DefaultsCreated
    \/ LoadSettings \/ LoadFails \/ StoreLoaded
    \/ \E s \in Saver :
           \/ \E r \in Request : UpdateCalled(s, r)
           \/ \E ok \in BOOLEAN : WriteSetting(s, ok)
           \/ ReadBack(s) \/ ReadBackFails(s) \/ UpdateSettings(s)

\* Whatever is being saved, looked up or lost on the way, the controller works
\* with the rows of the table once the requests are over, unless the last load
\* failed or two of them overlapped: then the older copy may be stored last
\* (api/settings.go:225-236, controller.go:369-394, 926-932).
ControllerKnowsSettings ==
    (phase = "up" /\ Idle(Saver \cup {Starter}) /\ ~excused)
        => \A k \in ConfigKey : config[k] = AppSettings[k]

\* The mode an installation starts with: one that had settings before there
\* were modes stays on its single threshold until somebody sends another mode,
\* whatever dies or fails while the defaults are created, except the very count
\* of its rows; a new one has the limits of its hardware, unless its first process
\* ended with rows but no mode yet (database.go:72-96).  This is the row: while it
\* is missing because its look-up failed, AppSettings reads as "hardware".
InstallDecidesMode ==
    ~ModeMissing => /\ install = "upgraded" => rows["thermal_limits_mode"] = "legacy"
                    /\ install = "new" => rows["thermal_limits_mode"] = "hardware"
=============================================================================
