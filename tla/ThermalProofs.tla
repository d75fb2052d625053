---------------------------- MODULE ThermalProofs ----------------------------
(***************************************************************************)
(* Proofs about the settings, the sensors and the emergency, for any       *)
(* machines, readers, requests and tables.                                 *)
(***************************************************************************)
EXTENDS Thermal, SensorsProofs

\* The rows there are.
LEMMA Keys ==
    Key = {"control_interval", "emergency_temp", "emergency_speed", "warning_temp",
           "warning_enabled", "safety_on_shutdown", "thermal_limits_mode", "warning_margin",
           "limit_gpu", "limit_cpu", "limit_drive"}
<1>1. DOMAIN WriteOrder = 1..11
  BY DEF WriteOrder
<1>2. Key = {WriteOrder[i] : i \in 1..11}
  BY <1>1 DEF Key, Range
<1>3. 1..11 = {1, 2, 3, 4, 5, 6, 7, 8, 9, 10, 11}
  OBVIOUS
<1>4. Key = {WriteOrder[1], WriteOrder[2], WriteOrder[3], WriteOrder[4], WriteOrder[5],
             WriteOrder[6], WriteOrder[7], WriteOrder[8], WriteOrder[9], WriteOrder[10],
             WriteOrder[11]}
  BY <1>2, <1>3
<1> QED
  BY <1>4 DEF WriteOrder

Modes == {"hardware", "legacy"}
Numeric == Key \ {"warning_enabled", "safety_on_shutdown", "thermal_limits_mode"}

\* What is accepted for a row is a number, or one of the modes.
LEMMA AcceptedTypes ==
    ASSUME NEW k \in Key, NEW v, Accepted(k, v)
    PROVE  /\ k \in Numeric => v \in Int
           /\ k = "thermal_limits_mode" => v \in Modes
<1>1. Accepted("control_interval", v) => v \in Int
  BY DEF Accepted, LimitKey
<1>2. Accepted("emergency_temp", v) => v \in Int
  BY DEF Accepted, LimitKey
<1>3. Accepted("emergency_speed", v) => v \in Int
  BY DEF Accepted, LimitKey
<1>4. Accepted("warning_temp", v) => v \in Int
  BY DEF Accepted, LimitKey
<1>5. Accepted("warning_margin", v) => v \in Int
  BY DEF Accepted, LimitKey
<1>6. /\ Accepted("limit_gpu", v) => v \in Int
      /\ Accepted("limit_cpu", v) => v \in Int
      /\ Accepted("limit_drive", v) => v \in Int
  BY DEF Accepted, LimitKey
<1>7. Accepted("thermal_limits_mode", v) => v \in Modes
  BY DEF Accepted, LimitKey, Modes
<1> QED
  BY <1>1, <1>2, <1>3, <1>4, <1>5, <1>6, <1>7, Keys DEF LimitKey, Numeric

-----------------------------------------------------------------------------
(* The settings: what keeps its type.                                      *)

RowsOK ==
    /\ DOMAIN rows \subseteq Key
    /\ \A k \in DOMAIN rows : Accepted(k, rows[k])
    /\ firstMode \in Modes

\* What is handed on as settings: from the table, or in its place.
Numbers(settings) == \A k \in ConfigKey \cap Numeric : settings[k] \in Int

ActorsOK ==
    /\ phase \in {"open", "defaults", "boot", "up"}
    /\ at \in [Actor -> {"idle", "write", "store", "looked"}]
    /\ \A s \in Saver : at[s] # "looked"
    /\ \A a \in Looker : at[a] # "write"
    /\ at[Starter] \in {"idle", "store"}
    /\ phase # "up" => \A a \in Saver \cup Looker : at[a] = "idle"
    /\ phase \in {"open", "defaults"} => at[Starter] = "idle"

HandsOK ==
    /\ config = [k \in ConfigKey |-> config[k]] /\ Numbers(config)
    /\ \A s \in Saver : /\ DOMAIN todo[s] \subseteq Key
                        /\ \A k \in DOMAIN todo[s] : Accepted(k, todo[s][k])
    /\ todo = [s \in Saver |-> todo[s]]
    /\ read = [a \in Actor |-> read[a]]
    /\ \A a \in Actor : at[a] \in {"store", "looked"} => Numbers(read[a])

SettingsOK == RowsOK /\ ActorsOK /\ HandsOK

\* The values a row gets by itself are accepted ones.
LEMMA DefaultAccepted ==
    ASSUME firstMode \in Modes, NEW k \in Key \ LimitKey
    PROVE  Accepted(k, Default(k))
<1>1. CASE k = "control_interval"
  BY <1>1 DEF Default, Accepted, LimitKey
<1>2. CASE k = "emergency_temp"
  BY <1>2 DEF Default, Accepted, LimitKey
<1>3. CASE k = "emergency_speed"
  BY <1>3 DEF Default, Accepted, LimitKey
<1>4. CASE k = "warning_temp"
  BY <1>4 DEF Default, Accepted, LimitKey
<1>5. CASE k \in {"warning_enabled", "safety_on_shutdown"}
  BY <1>5 DEF Default, Accepted, LimitKey
<1>6. CASE k = "thermal_limits_mode"
  BY <1>6 DEF Default, Accepted, LimitKey, Modes
<1>7. CASE k = "warning_margin"
  BY <1>7 DEF Default, Accepted, LimitKey
<1> QED
  BY <1>1, <1>2, <1>3, <1>4, <1>5, <1>6, <1>7, Keys DEF LimitKey

\* A row that is not there reads as a number, or as a mode.
LEMMA AppSettingsTyped ==
    ASSUME RowsOK
    PROVE  Numbers(AppSettings) /\ AppSettings["thermal_limits_mode"] \in Modes
<1>1. ASSUME NEW k \in Key PROVE AppSettings[k] = IF k \in DOMAIN rows THEN rows[k]
         ELSE CASE k \in LimitKey \cup {"control_interval"} -> 0
               [] k = "thermal_limits_mode" -> "hardware"
               [] OTHER -> Default(k)
  BY DEF AppSettings
<1>2. ASSUME NEW k \in Key \cap Numeric PROVE AppSettings[k] \in Int
  <2>1. CASE k \in DOMAIN rows
    BY <1>1, <1>2, <2>1, AcceptedTypes DEF RowsOK
  <2>2. CASE k \notin DOMAIN rows /\ k \in LimitKey \cup {"control_interval"}
    BY <1>1, <1>2, <2>2 DEF LimitKey
  <2>3. CASE k \notin DOMAIN rows /\ k \notin LimitKey \cup {"control_interval"}
    <3>1. k # "thermal_limits_mode"
      BY <1>2 DEF Numeric
    <3>2. Default(k) \in Int
      BY <2>3, DefaultAccepted, AcceptedTypes DEF RowsOK
    <3> QED
      BY <1>1, <2>3, <3>1, <3>2
  <2> QED
    BY <2>1, <2>2, <2>3
<1>3. AppSettings["thermal_limits_mode"] \in Modes
  <2>1. "thermal_limits_mode" \in Key
    BY Keys
  <2>2. "thermal_limits_mode" \notin LimitKey \cup {"control_interval"}
    BY DEF LimitKey
  <2> QED
    BY <1>1, <2>1, <2>2, AcceptedTypes DEF RowsOK, Modes
<1> QED
  BY <1>2, <1>3 DEF Numbers, ConfigKey

\* In the settings a controller starts with there are no limits, and no mode.
LEMMA UnloadedTyped == Numbers(Unloaded)
<1> SUFFICES ASSUME NEW k \in ConfigKey \cap Numeric PROVE Unloaded[k] \in Int
  BY DEF Numbers
<1>1. Unloaded[k] = CASE k = "thermal_limits_mode" -> ""
                      [] k \in LimitKey -> 0
                      [] OTHER -> Default(k)
  BY DEF Unloaded
<1>2. k # "thermal_limits_mode" /\ k \in Key
  BY DEF Numeric
<1>3. /\ Default("control_interval") \in Int
      /\ Default("emergency_temp") \in Int
      /\ Default("emergency_speed") \in Int
      /\ Default("warning_temp") \in Int
      /\ Default("warning_margin") \in Int
  BY DEF Default
<1>4. k \notin LimitKey => Default(k) \in Int
  BY <1>2, <1>3, Keys DEF LimitKey, Numeric
<1> QED
  BY <1>1, <1>2, <1>4

\* What is used while they cannot be loaded.
LEMMA FallbackTyped ==
    ASSUME Numbers(config)
    PROVE  Numbers(Fallback)
<1> SUFFICES ASSUME NEW k \in ConfigKey \cap Numeric PROVE Fallback[k] \in Int
  BY DEF Numbers
<1>1. Fallback[k] = config[k]
  BY DEF Fallback, Numeric, ConfigKey
<1> QED
  BY <1>1 DEF Numbers

\* The actors are not each other.
LEMMA Apart ==
    /\ Saver \cap Looker = {} /\ Starter \notin Saver \cup Looker
    /\ Saver \subseteq Actor /\ Looker \subseteq Actor /\ Starter \in Actor
BY SettingsAssumption DEF SettingsAssumption, Actor

\* What a step of the whole program does to the settings.
Looks == \E a \in Looker : LookRead(a) \/ LookStore(a) \/ LookDone(a)
SettingsMove == SettingsStep \/ Looks \/ Crash \/ UNCHANGED settingsVars

\* Every step is one of the settings or leaves them alone.
LEMMA SettingsMoves == [Next]_vars => SettingsMove
<1> SUFFICES ASSUME [Next]_vars PROVE SettingsMove
  OBVIOUS
<1>1. Loop \in Looker
  BY ThermalAssumption DEF ThermalAssumption
<1>2. CASE \E r \in Looker : Gather(r) \/ Scan(r) \/ StoreScan(r)
  BY <1>2 DEF Gather, Scan, StoreScan, SettingsMove
<1>3. CASE \E r \in Looker : Look(r) \/ Answer(r)
  BY <1>3 DEF Look, Answer, SettingsMove, Looks
<1>4. CASE Cycle \/ CycleDbError
  BY <1>1, <1>4 DEF Cycle, CycleDbError, SettingsMove, Looks
<1>5. CASE Change \/ Tick \/ ProcessDies \/ SettingsOnly
  BY <1>5 DEF Change, Tick, ProcessDies, SettingsOnly, SettingsMove
<1>6. CASE UNCHANGED vars
  BY <1>6 DEF vars, SettingsMove
<1> QED
  BY <1>2, <1>3, <1>4, <1>5, <1>6 DEF Next

\* Rows are written with what was accepted, or by default.
LEMMA RowsKept ==
    ASSUME SettingsOK, SettingsMove
    PROVE  RowsOK'
<1> USE DEF SettingsOK, RowsOK
<1>1. CASE OpenDatabase
  BY <1>1 DEF OpenDatabase, InitialMode, Modes
<1>2. CASE CreateDefault
  <2>1. PICK k \in (Key \ LimitKey) \ DOMAIN rows :
            rows' = [j \in DOMAIN rows \cup {k} |-> IF j = k THEN Default(k) ELSE rows[j]]
    BY <1>2 DEF CreateDefault
  <2>2. Accepted(k, Default(k))
    BY <2>1, DefaultAccepted
  <2> QED
    BY <1>2, <2>1, <2>2 DEF CreateDefault
<1>3. CASE \E s \in Saver : \E ok \in BOOLEAN : WriteSetting(s, ok)
  <2>1. PICK s \in Saver, ok \in BOOLEAN : WriteSetting(s, ok)
    BY <1>3
  <2>2. PICK k \in DOMAIN todo[s] :
            rows' = IF ok THEN [j \in DOMAIN rows \cup {k} |->
                                   IF j = k THEN todo[s][k] ELSE rows[j]]
                    ELSE rows
    BY <2>1 DEF WriteSetting
  <2>3. k \in Key /\ Accepted(k, todo[s][k])
    BY <2>2 DEF HandsOK
  <2>4. firstMode' = firstMode
    BY <2>1 DEF WriteSetting
  <2> QED
    BY <2>2, <2>3, <2>4
<1>4. CASE Crash
  BY <1>4 DEF Crash, Modes
<1>5. CASE \E s \in Saver : \/ \E r \in Request : UpdateCalled(s, r)
                            \/ ReadBack(s) \/ ReadBackFails(s) \/ UpdateSettings(s)
  BY <1>5 DEF UpdateCalled, ReadBack, ReadBackFails, UpdateSettings
<1>6. CASE DefaultsCreated \/ LoadSettings \/ LoadFails \/ StoreLoaded
  BY <1>6 DEF DefaultsCreated, LoadSettings, LoadFails, StoreLoaded
<1>7. CASE Looks \/ UNCHANGED settingsVars
  BY <1>7 DEF Looks, LookRead, LookStore, LookDone, settingsVars
<1> QED
  BY <1>1, <1>2, <1>3, <1>4, <1>5, <1>6, <1>7 DEF SettingsMove, SettingsStep

\* Every actor is where it can be, and only the program that is up serves.
LEMMA ActorsKept ==
    ASSUME SettingsOK, SettingsMove
    PROVE  ActorsOK'
<1> USE Apart DEF SettingsOK, ActorsOK
<1>1. CASE OpenDatabase \/ CreateDefault \/ DefaultsCreated
  BY <1>1 DEF OpenDatabase, CreateDefault, DefaultsCreated
<1>2. CASE LoadSettings \/ LoadFails \/ StoreLoaded
  BY <1>2 DEF LoadSettings, LoadFails, StoreLoaded
<1>3. ASSUME NEW s \in Saver, NEW r \in Request, UpdateCalled(s, r) PROVE ActorsOK'
  BY <1>3 DEF UpdateCalled
<1>4. ASSUME NEW s \in Saver, ReadBack(s) \/ ReadBackFails(s) \/ UpdateSettings(s)
      PROVE  ActorsOK'
  BY <1>4 DEF ReadBack, ReadBackFails, UpdateSettings
<1>5. ASSUME NEW s \in Saver, NEW ok \in BOOLEAN, WriteSetting(s, ok) PROVE ActorsOK'
  BY <1>5 DEF WriteSetting
<1>6. ASSUME NEW a \in Looker, LookRead(a) PROVE ActorsOK'
  BY <1>6 DEF LookRead
<1>7. ASSUME NEW a \in Looker, LookStore(a) \/ LookDone(a) PROVE ActorsOK'
  BY <1>7 DEF LookStore, LookDone, Looked
<1>8. CASE Crash
  BY <1>8 DEF Crash
<1>9. CASE UNCHANGED settingsVars
  BY <1>9 DEF settingsVars
<1> QED
  BY <1>1, <1>2, <1>3, <1>4, <1>5, <1>6, <1>7, <1>8, <1>9 DEF SettingsMove, SettingsStep, Looks

\* What is in their hands is settings.
LEMMA HandsKept ==
    ASSUME SettingsOK, SettingsMove
    PROVE  HandsOK'
<1> USE Apart DEF SettingsOK, ActorsOK, HandsOK
<1>1. ASSUME NEW c, c = [k \in ConfigKey |-> c[k]], Numbers(c), config' = c,
             UNCHANGED <<at, todo, read>>
      PROVE  HandsOK'
  BY <1>1 DEF Numbers
<1>2. CASE OpenDatabase \/ CreateDefault \/ DefaultsCreated
  BY <1>1, <1>2 DEF OpenDatabase, CreateDefault, DefaultsCreated
<1>3. CASE LoadSettings
  BY <1>3, AppSettingsTyped DEF LoadSettings, Numbers
<1>4. CASE LoadFails
  BY <1>1, <1>4 DEF LoadFails
<1>5. CASE StoreLoaded
  BY <1>5 DEF StoreLoaded, Numbers
<1>6. ASSUME NEW s \in Saver, NEW r \in Request, UpdateCalled(s, r) PROVE HandsOK'
  <2>1. \A k \in DOMAIN r : k \in Key /\ Accepted(k, r[k])
    BY <1>6, SettingsAssumption DEF UpdateCalled, Acceptable, SettingsAssumption
  <2> QED
    BY <1>6, <2>1 DEF UpdateCalled, Numbers
<1>7. ASSUME NEW s \in Saver, NEW ok \in BOOLEAN, WriteSetting(s, ok) PROVE HandsOK'
  <2>1. PICK k \in DOMAIN todo[s] :
            /\ config' = IF k = "control_interval"
                         THEN [config EXCEPT !["control_interval"] = todo[s][k]]
                         ELSE config
            /\ todo' = [todo EXCEPT ![s] = [j \in DOMAIN todo[s] \ {k} |-> todo[s][j]]]
            /\ UNCHANGED <<at, read>>
    BY <1>7 DEF WriteSetting
  <2>2. k \in Key /\ Accepted(k, todo[s][k])
    BY <2>1
  <2>3. k = "control_interval" => todo[s][k] \in Int
    BY <2>2, AcceptedTypes DEF Numeric
  <2>4. config' = [j \in ConfigKey |-> config'[j]] /\ Numbers(config')
    BY <2>1, <2>3 DEF Numbers
  <2>5. \A t \in Saver : /\ DOMAIN todo'[t] \subseteq Key
                         /\ \A j \in DOMAIN todo'[t] : Accepted(j, todo'[t][j])
    BY <2>1
  <2> QED
    BY <2>1, <2>4, <2>5 DEF Numbers
<1>8. ASSUME NEW s \in Saver, ReadBack(s) PROVE HandsOK'
  BY <1>8, AppSettingsTyped DEF ReadBack, Numbers
<1>9. ASSUME NEW s \in Saver, ReadBackFails(s) PROVE HandsOK'
  BY <1>9 DEF ReadBackFails, Numbers
<1>10. ASSUME NEW s \in Saver, UpdateSettings(s) PROVE HandsOK'
  BY <1>10 DEF UpdateSettings, Numbers
<1>11. ASSUME NEW a \in Looker, LookRead(a) PROVE HandsOK'
  BY <1>11, AppSettingsTyped, FallbackTyped DEF LookRead, Numbers
<1>12. ASSUME NEW a \in Looker, LookStore(a) PROVE HandsOK'
  BY <1>12 DEF LookStore, Numbers
<1>13. ASSUME NEW a \in Looker, LookDone(a) PROVE HandsOK'
  BY <1>13 DEF LookDone, Numbers
<1>14. CASE Crash
  <2>1. Unloaded = [k \in ConfigKey |-> Unloaded[k]]
    BY DEF Unloaded
  <2> QED
    BY <1>14, <2>1, UnloadedTyped DEF Crash, Nothing, Numbers
<1>15. CASE UNCHANGED settingsVars
  BY <1>1, <1>15 DEF settingsVars
<1> QED
  BY <1>2, <1>3, <1>4, <1>5, <1>6, <1>7, <1>8, <1>9, <1>10, <1>11, <1>12, <1>13, <1>14, <1>15
     DEF SettingsMove, SettingsStep, Looks

\* They hold at first.
LEMMA SettingsStart == Init => SettingsOK
<1> SUFFICES ASSUME Init PROVE SettingsOK
  OBVIOUS
<1>1. RowsOK
  <2>1. PICK c \in Scenes : rows = c.rows /\ firstMode = "hardware"
    BY DEF Init, SettingsInit
  <2> QED
    BY <2>1, SettingsAssumption DEF SettingsAssumption, RowsOK, Modes
<1>2. ActorsOK
  BY Apart DEF Init, SettingsInit, ActorsOK
<1>3. HandsOK
  <2>1. Unloaded = [k \in ConfigKey |-> Unloaded[k]]
    BY DEF Unloaded
  <2> QED
    BY <2>1, UnloadedTyped, Apart DEF Init, SettingsInit, HandsOK, Nothing, Numbers
<1> QED
  BY <1>1, <1>2, <1>3 DEF SettingsOK

\* The rows, and whatever is on its way between them and the controller, are
\* values PUT /api/settings accepts, or the defaults.
THEOREM SettingsTyped == Spec => []SettingsOK
<1>1. SettingsOK /\ [Next]_vars => SettingsOK'
  BY SettingsMoves, RowsKept, ActorsKept, HandsKept DEF SettingsOK
<1> QED
  BY <1>1, SettingsStart, PTL DEF Spec

-----------------------------------------------------------------------------
(* The controller's copy of the settings.                                  *)

\* Unless the history excuses it, one request or start is under way at a time,
\* and what it is about to hand over is still what the table holds.
OneAtATime ==
    ~excused => \A a, b \in Saver \cup {Starter} : at[a] # "idle" /\ at[b] # "idle" => a = b
ReadIsCurrent ==
    ~excused => \A a \in Saver \cup {Starter} :
        at[a] = "store" => \A k \in ConfigKey : read[a][k] = AppSettings[k]
KnowsOK == OneAtATime /\ ReadIsCurrent /\ ControllerKnowsSettings

\* A second request or start under way is excused, and stays so until a start.
LEMMA OneAtATimeKept ==
    ASSUME SettingsOK, OneAtATime, SettingsMove
    PROVE  OneAtATime'
<1> USE Apart DEF SettingsOK, ActorsOK, OneAtATime
<1>1. CASE OpenDatabase \/ CreateDefault \/ DefaultsCreated \/ LoadFails
  BY <1>1 DEF OpenDatabase, CreateDefault, DefaultsCreated, LoadFails
<1>2. CASE LoadSettings
  BY <1>2 DEF LoadSettings, Idle
<1>3. CASE StoreLoaded
  BY <1>3 DEF StoreLoaded
<1>4. ASSUME NEW s \in Saver, NEW r \in Request, UpdateCalled(s, r) PROVE OneAtATime'
  BY <1>4 DEF UpdateCalled, Idle
<1>5. ASSUME NEW s \in Saver, NEW ok \in BOOLEAN, WriteSetting(s, ok) PROVE OneAtATime'
  BY <1>5 DEF WriteSetting
<1>6. ASSUME NEW s \in Saver, ReadBack(s) \/ ReadBackFails(s) \/ UpdateSettings(s)
      PROVE  OneAtATime'
  BY <1>6 DEF ReadBack, ReadBackFails, UpdateSettings
<1>7. ASSUME NEW a \in Looker, LookRead(a) \/ LookStore(a) \/ LookDone(a)
      PROVE  OneAtATime'
  BY <1>7 DEF LookRead, LookStore, LookDone
<1>8. CASE Crash
  BY <1>8 DEF Crash
<1>9. CASE UNCHANGED settingsVars
  BY <1>9 DEF settingsVars
<1> QED
  BY <1>1, <1>2, <1>3, <1>4, <1>5, <1>6, <1>7, <1>8, <1>9 DEF SettingsMove, SettingsStep, Looks

\* What the table reads as depends on its rows only.
LEMMA SameRows ==
    ASSUME UNCHANGED rows
    PROVE  \A k \in ConfigKey : AppSettings'[k] = AppSettings[k]
<1> SUFFICES ASSUME NEW k \in ConfigKey PROVE AppSettings'[k] = AppSettings[k]
  OBVIOUS
<1>1. k = "thermal_limits_mode" \/ Default(k)' = Default(k)
  BY Keys DEF Default, ConfigKey
<1>2. k \in Key
  BY DEF ConfigKey
<1> QED
  BY <1>1, <1>2 DEF AppSettings

\* Nobody else writes a row between a read and the hand-over.
LEMMA ReadIsCurrentKept ==
    ASSUME SettingsOK, OneAtATime, ReadIsCurrent, SettingsMove
    PROVE  ReadIsCurrent'
<1> USE Apart DEF SettingsOK, ActorsOK, HandsOK, ReadIsCurrent
<1>1. CASE OpenDatabase \/ DefaultsCreated \/ LoadFails
  BY <1>1, SameRows DEF OpenDatabase, DefaultsCreated, LoadFails
<1>2. CASE CreateDefault
  BY <1>2 DEF CreateDefault
<1>3. CASE LoadSettings
  BY <1>3, SameRows DEF LoadSettings, Idle
<1>4. CASE StoreLoaded
  BY <1>4, SameRows DEF StoreLoaded
<1>5. ASSUME NEW s \in Saver, NEW r \in Request, UpdateCalled(s, r) PROVE ReadIsCurrent'
  BY <1>5 DEF UpdateCalled, Idle
<1>6. ASSUME NEW s \in Saver, NEW ok \in BOOLEAN, WriteSetting(s, ok) PROVE ReadIsCurrent'
  <2>1. ~excused => \A a \in Saver \cup {Starter} : at[a] # "store"
    BY <1>6 DEF WriteSetting, OneAtATime
  <2> QED
    BY <1>6, <2>1 DEF WriteSetting
<1>7. ASSUME NEW s \in Saver, ReadBack(s) PROVE ReadIsCurrent'
  BY <1>7, SameRows DEF ReadBack
<1>8. ASSUME NEW s \in Saver, ReadBackFails(s) PROVE ReadIsCurrent'
  BY <1>8 DEF ReadBackFails
<1>9. ASSUME NEW s \in Saver, UpdateSettings(s) PROVE ReadIsCurrent'
  BY <1>9, SameRows DEF UpdateSettings
<1>10. ASSUME NEW a \in Looker, LookRead(a) \/ LookStore(a) \/ LookDone(a)
       PROVE  ReadIsCurrent'
  BY <1>10, SameRows DEF LookRead, LookStore, LookDone
<1>11. CASE Crash
  BY <1>11 DEF Crash
<1>12. CASE UNCHANGED settingsVars
  BY <1>12, SameRows DEF settingsVars
<1> QED
  BY <1>1, <1>2, <1>3, <1>4, <1>5, <1>6, <1>7, <1>8, <1>9, <1>10, <1>11, <1>12
     DEF SettingsMove, SettingsStep, Looks

\* A looker that comes late finds the settings loaded and leaves them alone.
LEMMA LookerComesLate ==
    ASSUME SettingsOK, phase = "up", Idle(Saver \cup {Starter}), ~excused,
           ControllerKnowsSettings
    PROVE  Loaded
<1>1. "thermal_limits_mode" \in ConfigKey
  BY Keys DEF ConfigKey
<1>2. config["thermal_limits_mode"] \in Modes
  BY <1>1, AppSettingsTyped DEF ControllerKnowsSettings, SettingsOK
<1> QED
  BY <1>2 DEF Loaded, Modes

\* The hand-over makes the copy the table, and it stays so until the next request.
LEMMA KnowledgeKept ==
    ASSUME SettingsOK, KnowsOK, SettingsMove
    PROVE  ControllerKnowsSettings'
<1> USE Apart DEF SettingsOK, ActorsOK, HandsOK, KnowsOK, Idle
<1>1. CASE OpenDatabase \/ DefaultsCreated \/ CreateDefault \/ LoadFails
  BY <1>1 DEF OpenDatabase, DefaultsCreated, CreateDefault, LoadFails, ControllerKnowsSettings
<1>2. CASE LoadSettings
  BY <1>2 DEF LoadSettings, ControllerKnowsSettings
<1>3. CASE StoreLoaded
  BY <1>3, SameRows DEF StoreLoaded, ControllerKnowsSettings, ReadIsCurrent
<1>4. ASSUME NEW s \in Saver, NEW r \in Request, UpdateCalled(s, r)
      PROVE  ControllerKnowsSettings'
  BY <1>4 DEF UpdateCalled, ControllerKnowsSettings
<1>5. ASSUME NEW s \in Saver, NEW ok \in BOOLEAN, WriteSetting(s, ok)
      PROVE  ControllerKnowsSettings'
  BY <1>5 DEF WriteSetting, ControllerKnowsSettings
<1>6. ASSUME NEW s \in Saver, ReadBack(s) \/ ReadBackFails(s)
      PROVE  ControllerKnowsSettings'
  BY <1>6 DEF ReadBack, ReadBackFails, ControllerKnowsSettings
<1>7. ASSUME NEW s \in Saver, UpdateSettings(s) PROVE ControllerKnowsSettings'
  BY <1>7, SameRows DEF UpdateSettings, ControllerKnowsSettings, ReadIsCurrent
<1>8. ASSUME NEW a \in Looker, LookRead(a) \/ LookDone(a)
      PROVE  ControllerKnowsSettings'
  BY <1>8, SameRows DEF LookRead, LookDone, ControllerKnowsSettings
<1>9. ASSUME NEW a \in Looker, LookStore(a) PROVE ControllerKnowsSettings'
  <2> SUFFICES ASSUME (phase = "up" /\ Idle(Saver \cup {Starter}) /\ ~excused)'
               PROVE  (\A k \in ConfigKey : config[k] = AppSettings[k])'
    BY DEF ControllerKnowsSettings
  <2>1. phase = "up" /\ Idle(Saver \cup {Starter}) /\ ~excused
    BY <1>9 DEF LookStore
  <2>2. Loaded
    BY <2>1, LookerComesLate
  <2>3. \A k \in ConfigKey : config'[k] = config[k]
    BY <1>9, <2>2 DEF LookStore
  <2>4. \A k \in ConfigKey : AppSettings'[k] = AppSettings[k]
    BY <1>9, SameRows DEF LookStore
  <2> QED
    BY <2>1, <2>3, <2>4 DEF ControllerKnowsSettings
<1>10. CASE Crash
  BY <1>10 DEF Crash, ControllerKnowsSettings
<1>11. CASE UNCHANGED settingsVars
  BY <1>11, SameRows DEF settingsVars, ControllerKnowsSettings
<1> QED
  BY <1>1, <1>2, <1>3, <1>4, <1>5, <1>6, <1>7, <1>8, <1>9, <1>10, <1>11
     DEF SettingsMove, SettingsStep, Looks

\* ControllerKnowsSettings: however requests, starts, lookers and crashes follow
\* on each other, the controller works with the table's rows when they are over.
THEOREM ControllerKnowsCorrect == Spec => []ControllerKnowsSettings
<1>1. Init => KnowsOK
  BY Apart DEF Init, SettingsInit, KnowsOK, OneAtATime, ReadIsCurrent, ControllerKnowsSettings
<1>2. SettingsOK /\ KnowsOK /\ [Next]_vars => KnowsOK'
  BY SettingsMoves, OneAtATimeKept, ReadIsCurrentKept, KnowledgeKept DEF KnowsOK
<1>3. KnowsOK => ControllerKnowsSettings
  BY DEF KnowsOK
<1> QED
  BY <1>1, <1>2, <1>3, SettingsTyped, PTL DEF Spec

-----------------------------------------------------------------------------
(* The mode of an installation.                                            *)

\* What the mode owes to the first start is paid already, or will be by the
\* default on its way, or by the rows the next opening counts.
InstallOK ==
    /\ InstallDecidesMode
    /\ install = "upgraded" =>
          /\ DOMAIN rows # {}
          /\ phase = "defaults" /\ ModeMissing => firstMode = "legacy"
    /\ install = "new" /\ ModeMissing =>
          /\ phase = "open" => DOMAIN rows = {}
          /\ phase = "defaults" => firstMode = "hardware"

\* A default decides the mode as the opening of the table was to.
LEMMA DefaultDecides ==
    ASSUME InstallOK, CreateDefault
    PROVE  InstallOK'
<1>1. PICK k \in (Key \ LimitKey) \ DOMAIN rows :
          rows' = [j \in DOMAIN rows \cup {k} |-> IF j = k THEN Default(k) ELSE rows[j]]
  BY DEF CreateDefault
<1>2. UNCHANGED <<install, phase, firstMode>> /\ phase = "defaults"
  BY DEF CreateDefault
<1>3. Default("thermal_limits_mode") = firstMode
  BY DEF Default
<1>4. CASE k = "thermal_limits_mode"
  <2>1. ModeMissing /\ ~ModeMissing' /\ rows'["thermal_limits_mode"] = firstMode
    BY <1>1, <1>3, <1>4 DEF ModeMissing
  <2>2. DOMAIN rows' # {}
    BY <1>1
  <2> QED
    BY <1>2, <2>1, <2>2 DEF InstallOK, InstallDecidesMode
<1>5. CASE k # "thermal_limits_mode"
  <2>1. /\ ModeMissing' = ModeMissing /\ DOMAIN rows' # {}
        /\ ~ModeMissing => rows'["thermal_limits_mode"] = rows["thermal_limits_mode"]
    BY <1>1, <1>5 DEF ModeMissing
  <2> QED
    BY <1>2, <2>1 DEF InstallOK, InstallDecidesMode
<1> QED
  BY <1>4, <1>5

\* A request frees the mode by sending one, and leaves it alone otherwise.
LEMMA RequestFrees ==
    ASSUME SettingsOK, InstallOK, NEW s \in Saver, NEW ok \in BOOLEAN, WriteSetting(s, ok)
    PROVE  InstallOK'
<1>1. phase = "up" /\ phase' = "up"
  BY DEF WriteSetting, SettingsOK, ActorsOK
<1>2. PICK k \in DOMAIN todo[s] :
          /\ rows' = IF ok THEN [j \in DOMAIN rows \cup {k} |->
                                    IF j = k THEN todo[s][k] ELSE rows[j]]
                     ELSE rows
          /\ install' = IF ok /\ k = "thermal_limits_mode" THEN "free" ELSE install
  BY DEF WriteSetting
<1>3. CASE ok /\ k = "thermal_limits_mode"
  BY <1>2, <1>3 DEF InstallOK, InstallDecidesMode
<1>4. CASE ~(ok /\ k = "thermal_limits_mode")
  <2>1. install' = install /\ DOMAIN rows \subseteq DOMAIN rows'
    BY <1>2, <1>4
  <2>2. /\ ModeMissing' = ModeMissing
        /\ ~ModeMissing => rows'["thermal_limits_mode"] = rows["thermal_limits_mode"]
    BY <1>2, <1>4 DEF ModeMissing
  <2> QED
    BY <1>1, <2>1, <2>2 DEF InstallOK, InstallDecidesMode
<1> QED
  BY <1>3, <1>4

\* Every step leaves the mode to the rows there were when the table was opened.
LEMMA InstallKept ==
    ASSUME SettingsOK, InstallOK, SettingsMove
    PROVE  InstallOK'
<1> USE DEF InstallOK, InstallDecidesMode, ModeMissing
<1>1. CASE OpenDatabase
  <2>1. PICK counted \in BOOLEAN :
            /\ firstMode' = InitialMode(IF counted THEN DOMAIN rows ELSE {})
            /\ install' = IF install = "upgraded" /\ ~counted /\ ModeMissing
                          THEN "free" ELSE install
    BY <1>1 DEF OpenDatabase
  <2>2. UNCHANGED rows /\ phase = "open" /\ phase' = "defaults"
    BY <1>1 DEF OpenDatabase
  <2> QED
    BY <2>1, <2>2 DEF InitialMode
<1>2. CASE CreateDefault
  BY <1>2, DefaultDecides
<1>3. CASE DefaultsCreated \/ LoadSettings \/ LoadFails \/ StoreLoaded
  BY <1>3 DEF DefaultsCreated, LoadSettings, LoadFails, StoreLoaded
<1>4. CASE \E s \in Saver : \E ok \in BOOLEAN : WriteSetting(s, ok)
  BY <1>4, RequestFrees
<1>5. ASSUME NEW s \in Saver,
             \/ \E r \in Request : UpdateCalled(s, r)
             \/ ReadBack(s) \/ ReadBackFails(s) \/ UpdateSettings(s)
      PROVE  InstallOK'
  BY <1>5 DEF UpdateCalled, ReadBack, ReadBackFails, UpdateSettings
<1>6. CASE Looks \/ UNCHANGED settingsVars
  BY <1>6 DEF Looks, LookRead, LookStore, LookDone, settingsVars
<1>7. CASE Crash
  BY <1>7 DEF Crash
<1> QED
  BY <1>1, <1>2, <1>3, <1>4, <1>5, <1>6, <1>7 DEF SettingsMove, SettingsStep

\* InstallDecidesMode: an old installation keeps its single threshold, a new one
\* the limits of its hardware, whatever dies or fails on the way, with the
\* exceptions the property names.
THEOREM InstallDecidesCorrect == Spec => []InstallDecidesMode
<1>1. ASSUME Init PROVE InstallOK
  <2>1. phase = "open"
    BY <1>1 DEF Init, SettingsInit
  <2>2. install = IF DOMAIN rows = {} THEN "new" ELSE IF ModeMissing THEN "upgraded" ELSE "free"
    BY <1>1 DEF Init, SettingsInit
  <2> QED
    BY <2>1, <2>2 DEF InstallOK, InstallDecidesMode, ModeMissing
<1>2. SettingsOK /\ InstallOK /\ [Next]_vars => InstallOK'
  BY SettingsMoves, InstallKept
<1>3. InstallOK => InstallDecidesMode
  BY DEF InstallOK
<1> QED
  BY <1>1, <1>2, <1>3, SettingsTyped, PTL DEF Spec

-----------------------------------------------------------------------------
(* The events.                                                             *)

EventsOK == DOMAIN events \subseteq DOMAIN deviceStatus /\ EventsTellStatus

\* What Over makes of two partial functions.
LEMMA OverBoth ==
    ASSUME NEW f, NEW g
    PROVE  /\ DOMAIN Over(f, g) = DOMAIN f \cup DOMAIN g
           /\ \A x \in DOMAIN g : Over(f, g)[x] = g[x]
           /\ \A x \in DOMAIN f \ DOMAIN g : Over(f, g)[x] = f[x]
BY DEF Over

\* Telling the changes keeps the last event of every device true.
LEMMA EventsTold ==
    ASSUME EventsOK, NEW devices, LogThermalTransitions(devices)
    PROVE  EventsOK'
<1> DEFINE keys == {DeviceKey(d) : d \in devices}
           now == [key \in keys |-> (CHOOSE d \in devices : DeviceKey(d) = key).status]
           told == {key \in keys : WorthTelling(key, now[key])}
           tell == [key \in told |-> now[key]]
<1>1. deviceStatus' = Over(deviceStatus, now) /\ events' = Over(events, tell)
  BY DEF LogThermalTransitions
<1>2. DOMAIN now = keys /\ DOMAIN tell = told /\ told \subseteq keys
  OBVIOUS
<1>3. \A key \in told : tell[key] = now[key]
  OBVIOUS
<1>4. \A key \in keys : key \in told \/ ~WorthTelling(key, now[key])
  OBVIOUS
<1> HIDE DEF now, told, tell, keys
<1>5. /\ DOMAIN deviceStatus' = DOMAIN deviceStatus \cup keys
      /\ DOMAIN events' = DOMAIN events \cup told
      /\ \A key \in keys : deviceStatus'[key] = now[key]
      /\ \A key \in DOMAIN deviceStatus \ keys : deviceStatus'[key] = deviceStatus[key]
      /\ \A key \in told : events'[key] = now[key]
      /\ \A key \in DOMAIN events \ told : events'[key] = events[key]
  <2>1. /\ DOMAIN Over(deviceStatus, now) = DOMAIN deviceStatus \cup DOMAIN now
        /\ \A x \in DOMAIN now : Over(deviceStatus, now)[x] = now[x]
        /\ \A x \in DOMAIN deviceStatus \ DOMAIN now :
              Over(deviceStatus, now)[x] = deviceStatus[x]
    BY OverBoth
  <2>2. /\ DOMAIN Over(events, tell) = DOMAIN events \cup DOMAIN tell
        /\ \A x \in DOMAIN tell : Over(events, tell)[x] = tell[x]
        /\ \A x \in DOMAIN events \ DOMAIN tell : Over(events, tell)[x] = events[x]
    BY OverBoth
  <2> QED
    BY <1>1, <1>2, <1>3, <2>1, <2>2
<1>6. DOMAIN events' \subseteq DOMAIN deviceStatus'
  BY <1>2, <1>5 DEF EventsOK
<1>7. ASSUME NEW key \in DOMAIN deviceStatus'
      PROVE  deviceStatus'[key] = IF key \in DOMAIN events' THEN events'[key] ELSE "ok"
  <2>1. CASE key \in told
    BY <1>2, <1>5, <2>1
  <2>2. CASE key \in keys \ told
    BY <1>4, <1>5, <2>2 DEF EventsOK, EventsTellStatus, WorthTelling
  <2>3. CASE key \notin keys
    BY <1>2, <1>5, <1>7, <2>3 DEF EventsOK, EventsTellStatus
  <2> QED
    BY <2>1, <2>2, <2>3
<1> QED
  BY <1>6, <1>7 DEF EventsOK, EventsTellStatus

\* What a step does to what the last cycle left: it is another cycle, a new
\* process, or leaves it alone.
CycleMove == Cycle \/ ProcessDies \/ UNCHANGED cycleVars

\* Nothing but a cycle and the end of the process touches it.
LEMMA CycleMoves == [Next]_vars => CycleMove
<1> SUFFICES ASSUME [Next]_vars PROVE CycleMove
  OBVIOUS
<1>1. CASE \E r \in Looker : Gather(r) \/ Scan(r) \/ StoreScan(r) \/ Look(r) \/ Answer(r)
  BY <1>1 DEF Gather, Scan, StoreScan, Look, Answer, CycleMove
<1>2. CASE Cycle \/ CycleDbError \/ ProcessDies
  BY <1>2 DEF CycleDbError, CycleMove
<1>3. CASE Change \/ Tick \/ SettingsOnly
  BY <1>3 DEF Change, Tick, SettingsOnly, CycleMove
<1>4. CASE UNCHANGED vars
  BY <1>4 DEF vars, CycleMove
<1> QED
  BY <1>1, <1>2, <1>3, <1>4 DEF Next

\* At first, and in a new process, there are no events and no devices.
LEMMA NoEvents == deviceStatus = <<>> /\ events = <<>> => EventsOK
BY DEF EventsOK, EventsTellStatus

\* Events are told of every change.
LEMMA EventsKept == EventsOK /\ [Next]_vars => EventsOK'
<1> SUFFICES ASSUME EventsOK, [Next]_vars PROVE EventsOK'
  OBVIOUS
<1>1. CASE Cycle
  <2>1. PICK devices : LogThermalTransitions(devices)
    BY <1>1 DEF Cycle
  <2> QED
    BY <2>1, EventsTold
<1>2. CASE ProcessDies
  BY <1>2 DEF ProcessDies, EventsOK, EventsTellStatus
<1>3. CASE UNCHANGED cycleVars
  BY <1>3 DEF cycleVars, EventsOK, EventsTellStatus
<1> QED
  BY <1>1, <1>2, <1>3, CycleMoves DEF CycleMove

\* EventsTellStatus: whatever the sensors list and however often, the last event
\* of a device is its status.
THEOREM EventsTellStatusCorrect == Spec => []EventsTellStatus
<1>1. Init => EventsOK
  BY NoEvents DEF Init
<1>2. EventsOK => EventsTellStatus
  BY DEF EventsOK
<1> QED
  BY <1>1, <1>2, EventsKept, PTL DEF Spec

-----------------------------------------------------------------------------
(* The readers.                                                            *)

\* What one reader samples at a time, of a machine that answers s.
Sampled(s, limits) ==
    [devices |-> GpuMetrics(s, limits) \cup CpuPackages(s), boards |-> BoardTemperatures(s),
     drives |-> HwmonDrives(s), covered |-> Covered(s)]
SampleOK(x) ==
    \/ x = NoSample
    \/ \E name \in DOMAIN Survey, limits \in [Gpu -> Int] : x = Sampled(Survey[name], limits)

Stages == {"idle", "scan", "store", "judge"}
ReadersOK ==
    /\ survey \in DOMAIN Survey
    /\ gpuLimits \in [Gpu -> Int]
    /\ fallbackAge \in {Never} \cup 0..CacheTime
    /\ stage \in [Looker -> Stages]
    /\ Unnumbered(fallback)
    /\ sample = [r \in Looker |-> sample[r]] /\ \A r \in Looker : SampleOK(sample[r])
    /\ found = [r \in Looker |-> found[r]] /\ \A r \in Looker : Unnumbered(found[r])

\* The devices of a sample are numbered, its drives are not yet.
LEMMA SampleListed ==
    ASSUME NEW x, SampleOK(x)
    PROVE  /\ Listing(x.devices, {"gpu", "cpu"}) /\ Numbered(x.devices)
           /\ Numbered(x.boards) /\ \A d \in x.boards : d.kind = "board"
           /\ Unnumbered(x.drives)
<1>1. CASE x = NoSample
  BY <1>1, FS_EmptySet DEF NoSample, Listing, Numbered, Unnumbered
<1>2. CASE x # NoSample
  <2>1. PICK name \in DOMAIN Survey, limits \in [Gpu -> Int] : x = Sampled(Survey[name], limits)
    BY <1>2 DEF SampleOK
  <2> DEFINE s == Survey[name]
  <2>2. ProperSurvey(s)
    BY ThermalAssumption DEF ThermalAssumption
  <2>3. /\ x.devices = GpuMetrics(s, limits) \cup CpuPackages(s)
        /\ x.boards = BoardTemperatures(s) /\ x.drives = HwmonDrives(s)
    BY <2>1 DEF Sampled
  <2> HIDE DEF s
  <2>4. /\ Listing(GpuMetrics(s, limits), {"gpu"}) /\ Numbered(GpuMetrics(s, limits))
        /\ Listing(CpuPackages(s), {"cpu"}) /\ Numbered(CpuPackages(s))
    BY <2>2, GpusListed, GpusNumbered, PackagesListed, PackagesNumbered
  <2>5. Listing(x.devices, {"gpu", "cpu"})
    <3>1. \A S, T : IsFiniteSet(S) /\ IsFiniteSet(T) => IsFiniteSet(S \cup T)
      BY FS_Union
    <3> QED
      BY <2>3, <2>4, <3>1 DEF Listing
  <2>6. Numbered(x.devices)
    <3>1. \A d \in GpuMetrics(s, limits), e \in CpuPackages(s) : d.kind # e.kind
      BY <2>4 DEF Listing
    <3> QED
      BY <2>3, <2>4, <3>1, NumberedApart
  <2>7. Numbered(x.boards) /\ \A d \in x.boards : d.kind = "board"
    BY <2>2, <2>3, BoardListed, BoardNumbered DEF Listing
  <2>8. Unnumbered(x.drives)
    BY <2>2, <2>3, HwmonListed
  <2> QED
    BY <2>5, <2>6, <2>7, <2>8
<1> QED
  BY <1>1, <1>2

\* Nothing found is a list too.
LEMMA NoneUnnumbered == Unnumbered({})
BY FS_EmptySet DEF Unnumbered, Listing

\* A reader's round goes from sample to sample.
LEMMA ReadersKept == ReadersOK /\ [Next]_vars => ReadersOK'
<1> SUFFICES ASSUME ReadersOK, [Next]_vars PROVE ReadersOK'
  OBVIOUS
<1> USE DEF ReadersOK, Stages
<1>1. CacheTime \in Nat \ {0} /\ Loop \in Looker /\ FirstSurvey \in DOMAIN Survey
  BY ThermalAssumption DEF ThermalAssumption
<1>2. ASSUME UNCHANGED <<survey, readerVars>> PROVE ReadersOK'
  BY <1>2 DEF readerVars
<1>3. ASSUME NEW r \in Looker, Gather(r) PROVE ReadersOK'
  <2>1. Limits \in [Gpu -> Int]
    <3>1. ProperSurvey(Machine)
      BY ThermalAssumption DEF ThermalAssumption, Machine
    <3>2. \A g \in Gpu : Machine.limit[g] \in Int
      BY <3>1 DEF ProperSurvey
    <3> QED
      BY <3>2 DEF Limits
  <2>2. /\ gpuLimits' = Limits
        /\ sample' = [sample EXCEPT ![r] = Sampled(Machine, Limits)]
        /\ found' = [found EXCEPT ![r] = IF BlockNodes /\ Fresh THEN fallback ELSE {}]
        /\ stage' = [stage EXCEPT ![r] = IF BlockNodes /\ ~Fresh THEN "scan" ELSE "judge"]
        /\ UNCHANGED <<survey, fallback, fallbackAge>>
    BY <1>3 DEF Gather, Sampled
  <2>3. SampleOK(Sampled(Machine, Limits))
    BY <2>1 DEF SampleOK, Machine
  <2>4. \A q \in Looker : SampleOK(sample'[q])
    BY <2>2, <2>3
  <2>5. \A q \in Looker : Unnumbered(found'[q])
    BY <2>2, NoneUnnumbered
  <2> QED
    BY <2>1, <2>2, <2>4, <2>5
<1>4. ASSUME NEW r \in Looker, Scan(r) PROVE ReadersOK'
  <2>1. Unnumbered(ScanDrives(Machine, sample[r].covered))
    BY ThermalAssumption, SmartListed DEF ThermalAssumption, Machine
  <2> QED
    BY <1>4, <2>1 DEF Scan
<1>5. ASSUME NEW r \in Looker, StoreScan(r) PROVE ReadersOK'
  BY <1>1, <1>5 DEF StoreScan
<1>6. ASSUME NEW r \in Looker, CycleOver(r),
             UNCHANGED <<survey, gpuLimits, fallback, fallbackAge>>
      PROVE  ReadersOK'
  BY <1>6, NoneUnnumbered DEF CycleOver, SampleOK
<1>7. ASSUME NEW r \in Looker, Look(r) \/ Answer(r) PROVE ReadersOK'
  BY <1>2, <1>6, <1>7 DEF Look, Answer
<1>8. CASE Cycle \/ CycleDbError
  BY <1>1, <1>6, <1>8 DEF Cycle, CycleDbError
<1>9. CASE Change
  BY <1>9 DEF Change, readerVars
<1>10. CASE Tick
  BY <1>1, <1>10 DEF Tick
<1>11. CASE ProcessDies
  BY <1>11, NoneUnnumbered DEF ProcessDies, SampleOK, Unasked
<1>12. CASE SettingsOnly \/ UNCHANGED vars
  BY <1>2, <1>12 DEF SettingsOnly, vars
<1> QED
  BY <1>3, <1>4, <1>5, <1>7, <1>8, <1>9, <1>10, <1>11, <1>12 DEF Next

\* At first there is nothing read.
LEMMA ReadersStart == Init => ReadersOK
<1>1. FirstSurvey \in DOMAIN Survey
  BY ThermalAssumption DEF ThermalAssumption
<1> QED
  BY <1>1, NoneUnnumbered DEF Init, ReadersOK, Stages, SampleOK, Unasked

-----------------------------------------------------------------------------
(* The cycle.                                                              *)

\* What a cycle leaves is right by itself: the emergency follows from what it
\* judged, and the inputs of the profiles are numbered.
CycleOK ==
    /\ emergencyActive \in BOOLEAN /\ EmergencyIsCritical
    /\ ListedOnce(inputs) => Numbered(inputs)

\* The loop works with settings that have every number the evaluation needs.
LEMMA SnapshotUsable ==
    ASSUME SettingsOK, Looked(Loop)
    PROVE  Usable(Snapshot(Loop))
<1>1. Loop \in Actor
  BY Apart, ThermalAssumption DEF ThermalAssumption
<1>2. Numbers(Snapshot(Loop))
  BY <1>1 DEF SettingsOK, HandsOK, Snapshot, Looked
<1>3. {"emergency_temp", "limit_gpu", "limit_cpu", "limit_drive"} \subseteq ConfigKey \cap Numeric
  BY Keys DEF ConfigKey, Numeric
<1> QED
  BY <1>2, <1>3 DEF Numbers, Usable

\* What a reader lists are devices the evaluation can judge.
LEMMA ListedTyped ==
    ASSUME ReadersOK, NEW r \in Looker
    PROVE  Listing(Listed(r), {"gpu", "cpu", "drive"})
<1>1. Listing(sample[r].devices, {"gpu", "cpu"}) /\ Unnumbered(sample[r].drives)
  BY SampleListed DEF ReadersOK
<1>2. Listing(Drives(sample[r].drives, found[r]), {"drive"})
  BY <1>1, DrivesListed DEF ReadersOK
<1>3. \A S, T : IsFiniteSet(S) /\ IsFiniteSet(T) => IsFiniteSet(S \cup T)
  BY FS_Union
<1> QED
  BY <1>1, <1>2, <1>3 DEF Listed, Listing

\* And when it lists none twice, all it hands to the profiles is numbered.
LEMMA InputsNumbered ==
    ASSUME ReadersOK, NEW r \in Looker, ListedOnce(Listed(r) \cup sample[r].boards)
    PROVE  Numbered(Listed(r) \cup sample[r].boards)
<1> DEFINE drives == Drives(sample[r].drives, found[r])
           devices == sample[r].devices
           boards == sample[r].boards
<1>1. /\ Listing(devices, {"gpu", "cpu"}) /\ Numbered(devices)
      /\ Numbered(boards) /\ \A d \in boards : d.kind = "board"
      /\ Unnumbered(sample[r].drives) /\ Unnumbered(found[r])
  BY SampleListed DEF ReadersOK
<1>2. Listing(drives, {"drive"})
  BY <1>1, DrivesListed
<1>3. ListedOnce(drives)
  BY DEF ListedOnce, Listed
<1>4. Numbered(drives)
  BY <1>1, <1>3, DrivesNumbered
<1> HIDE DEF drives, devices, boards
<1>5. Numbered(devices \cup drives)
  <2>1. \A d \in devices, e \in drives : d.kind # e.kind
    BY <1>1, <1>2 DEF Listing
  <2> QED
    BY <1>1, <1>4, <2>1, NumberedApart
<1>6. \A d \in devices \cup drives, e \in boards : d.kind # e.kind
  BY <1>1, <1>2 DEF Listing
<1>7. Numbered((devices \cup drives) \cup boards)
  BY <1>1, <1>5, <1>6, NumberedApart
<1> QED
  BY <1>7 DEF Listed, drives, devices, boards

\* The cycle's judgement is the emergency rule.
LEMMA CycleJudges ==
    ASSUME SettingsOK, ReadersOK, Cycle
    PROVE  CycleOK'
<1>1. Loop \in Looker
  BY ThermalAssumption DEF ThermalAssumption
<1>2. Usable(Snapshot(Loop))
  BY SnapshotUsable DEF Cycle, LookDone
<1>3. PICK devices :
          /\ devices = EvaluateThermal(Snapshot(Loop), Listed(Loop))
          /\ listing' = devices
          /\ emergencyActive' = (WorstStatus(Snapshot(Loop), devices) = "critical")
  BY DEF Cycle
<1>4. /\ inputs' = Listed(Loop) \cup sample[Loop].boards
      /\ threshold' = Snapshot(Loop).emergency_temp
  BY DEF Cycle
<1>5. /\ IsFiniteSet(devices) /\ devices \subseteq Judged
      /\ \A x \in devices : x.status = "critical" <=> x.temp >= threshold'
  BY <1>1, <1>2, <1>3, <1>4, ListedTyped, JudgedTyped
<1>6. WorstStatus(Snapshot(Loop), devices) = "critical"
          <=> \E d \in devices : d.status = "critical"
  BY <1>5, WorstIsCritical
<1>7. EmergencyIsCritical' /\ emergencyActive' \in BOOLEAN
  BY <1>3, <1>5, <1>6 DEF EmergencyIsCritical
<1>8. (ListedOnce(inputs) => Numbered(inputs))'
  BY <1>1, <1>4, InputsNumbered
<1> QED
  BY <1>7, <1>8 DEF CycleOK

\* Before the first cycle there is no device and no emergency.
LEMMA NoCycle ==
    ASSUME inputs = {}, listing = {}, threshold = 0, emergencyActive = FALSE
    PROVE  CycleOK
BY DEF CycleOK, EmergencyIsCritical, Numbered

\* So is what every step leaves of it.
LEMMA CycleKept == SettingsOK /\ ReadersOK /\ CycleOK /\ [Next]_vars => CycleOK'
<1> SUFFICES ASSUME SettingsOK, ReadersOK, CycleOK, [Next]_vars PROVE CycleOK'
  OBVIOUS
<1>1. CASE ProcessDies
  BY <1>1 DEF ProcessDies, CycleOK, EmergencyIsCritical, Numbered
<1>2. CASE UNCHANGED cycleVars
  BY <1>2 DEF cycleVars, CycleOK, EmergencyIsCritical
<1> QED
  BY <1>1, <1>2, CycleMoves, CycleJudges DEF CycleMove

\* And it is so at first: nothing listed, nothing told, nothing read.
LEMMA InvStart == Init => ReadersOK /\ CycleOK /\ EventsOK
BY ReadersStart, NoCycle, NoEvents DEF Init

\* Whatever the hardware answers, whoever reads it, saves settings or starts the
\* process again, and in whatever order.
THEOREM ThermalTyped == Spec => [](ReadersOK /\ CycleOK /\ EventsOK)
<1>1. SettingsOK /\ (ReadersOK /\ CycleOK /\ EventsOK) /\ [Next]_vars
          => (ReadersOK /\ CycleOK /\ EventsOK)'
  BY ReadersKept, CycleKept, EventsKept
<1> QED
  BY <1>1, InvStart, SettingsTyped, PTL DEF Spec

\* TypeOK: the readers and the cycle keep their types, and only what the API
\* accepts or the program defaults to is in the settings table.
THEOREM TypeCorrect == Spec => []TypeOK
<1>1. SettingsOK /\ ReadersOK /\ CycleOK /\ EventsOK => TypeOK
  BY DEF SettingsOK, RowsOK, ReadersOK, CycleOK, EventsOK, TypeOK, Stages
<1> QED
  BY <1>1, SettingsTyped, ThermalTyped, PTL

\* EmergencyIsCritical: there is an emergency exactly when a device of the last
\* cycle was at or above emergency_temp, for any limits, modes and machines.
THEOREM EmergencyIsCriticalCorrect == Spec => []EmergencyIsCritical
<1>1. CycleOK => EmergencyIsCritical
  BY DEF CycleOK
<1> QED
  BY <1>1, ThermalTyped, PTL

\* DevicesKeepIndex: the inputs of profiles are not remapped by the source that
\* answers for a drive or by the age of the cache.
THEOREM DevicesKeepIndexCorrect == Spec => DevicesKeepIndex
<1> DEFINE Kept ==
        (Devices(inputs') = Devices(inputs) /\ ListedOnce(inputs) /\ ListedOnce(inputs'))
            => \A d \in Devices(inputs) : Index(inputs', d) = Index(inputs, d)
<1>1. CycleOK /\ CycleOK' => Kept
  <2> SUFFICES ASSUME CycleOK, CycleOK',
                      Devices(inputs') = Devices(inputs), ListedOnce(inputs), ListedOnce(inputs'),
                      NEW d \in Devices(inputs)
               PROVE  Index(inputs', d) = Index(inputs, d)
    OBVIOUS
  <2>1. Numbered(inputs) /\ Numbered(inputs')
    BY DEF CycleOK
  <2> QED
    BY <2>1, SameIndexes
<1>2. CycleOK /\ CycleOK' => [Kept]_vars
  BY <1>1
<1> QED
  BY <1>2, ThermalTyped, PTL DEF DevicesKeepIndex
=============================================================================
