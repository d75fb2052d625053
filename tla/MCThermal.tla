------------------------------ MODULE MCThermal ------------------------------
(***************************************************************************)
(* One GPU, one CPU package, two thermal zones and three drives.  Drives 0 *)
(* and 1 are SATA: 0 has a threshold of its own and is known to hwmon and  *)
(* to smartctl, 1, whose threshold is a placeholder, to smartctl by an     *)
(* attribute that holds more than a temperature.  Drive 2 is an NVMe drive:*)
(* smartctl --scan calls it by its controller, everyone else by its node.  *)
(***************************************************************************)
EXTENDS Thermal, TLC

CONSTANTS loop, page, boot, s1, s2

Drives3 == 0..2
Nodes == [d \in Drives3 |-> IF d = 2 THEN 3 ELSE d]
Ctrls == [d \in Drives3 |-> d]
Crits == [d \in Drives3 |-> IF d = 1 THEN 65261 ELSE 85]
NoTjMax == [c \in {0} |-> 0]

\* What smartctl says of drive 0, and of drive 1.
Health(t) == [current |-> 0, nvme |-> t, raw |-> 0]
Attribute(t) == [current |-> 0, nvme |-> 0, raw |-> 25 * 256 + t]
Smart(heat0, heat1) == (0 :> Health(heat0)) @@ (1 :> Attribute(heat1))

\* Every board has a sensor that reads nothing and one that reads too much, and
\* a thermal zone that does not answer.
A(gpu, package, hwmon, smart) ==
    [gpu |-> [g \in {0} |-> gpu], limit |-> [g \in {0} |-> 93],
     package |-> [c \in {0} |-> package], zone |-> <<NoReading, 96>>,
     board |-> <<NoReading, 120>>, hwmon |-> hwmon, smart |-> smart, scan |-> TRUE]

\* With an NVMe drive, which smartctl --scan names otherwise, or /dev as hwmon.
WithNvme(heat) ==
    A(40, 40, (0 :> 40) @@ (2 :> heat), Smart(40, 40) @@ (2 :> Health(heat)))

Machines ==
    [cool     |-> A(40, 40, 0 :> 40, Smart(40, 40)),
     unloaded |-> A(40, 40, <<>>, Smart(40, 40)),         \* drive 0 lost to hwmon
     swapped  |-> A(40, 40, 1 :> 40, Smart(40, 40)),      \* drive 1 found instead
     heated   |-> A(40, 40, 0 :> 40, Smart(40, 95)),      \* one only smartctl sees
     loaded   |-> A(NoReading, 97, 0 :> 80, 1 :> Attribute(40)), \* a warm drive, a hot CPU
     zoned    |-> A(40, NoReading, 0 :> 40, <<>>),        \* the thermal zone is hot
     nvme     |-> WithNvme(40),
     hotNvme  |-> WithNvme(95),
     globbed  |-> [WithNvme(40) EXCEPT !.scan = FALSE],
     dark     |-> [A(Gone, NoReading, <<>>, <<>>) EXCEPT !.zone = <<>>]]

DefaultRows ==
    [k \in Key \ LimitKey |->
        CASE k = "control_interval" -> 5
          [] k = "emergency_temp" -> 90
          [] k = "emergency_speed" -> 100
          [] k = "warning_temp" -> 70
          [] k \in {"warning_enabled", "safety_on_shutdown"} -> TRUE
          [] k = "warning_margin" -> 10
          [] k = "thermal_limits_mode" -> "hardware"]
\* Tables before the first start: none, one of before the modes, a full one
\* whose CPU limit is above what any CPU may reach.
Fresh0 == <<>>
Old == [k \in DOMAIN DefaultRows \ {"thermal_limits_mode", "warning_margin"} |-> DefaultRows[k]]
Full == [k \in DOMAIN DefaultRows \cup {"limit_cpu"} |->
            IF k = "limit_cpu" THEN 120 ELSE DefaultRows[k]]
Scene(may, table) == [world |-> may, rows |-> table]
MCScenes ==
    {Scene(may, Full) :
        may \in {{"loop", "cool", "unloaded", "swapped"}, {"loop", "cool", "loaded"}, {"loop", "cool", "zoned"},
                 {"loop", "cool", "heated", "dark"}, {"loop", "nvme", "globbed"},
                 {"loop", "globbed", "hotNvme"},
                 {"loop", "db_error", "unloaded", "heated"},
                 {"loop", "page", "cool", "unloaded"}, {"loop", "page", "cool", "heated"},
                 {"save"}, {"save", "start"}, {"save", "db_error", "page"}}}
    \cup {Scene({"crash", "db_error", "cool"}, table) : table \in {Fresh0, Old}}
    \cup {Scene({"db_error", "save"}, Old)}
    \cup {Scene({"crash", "save", "page"}, Full)}

Pair(k1, v1, k2, v2) == (k1 :> v1) @@ (k2 :> v2)
Requests ==
    {Pair("emergency_temp", 80, "thermal_limits_mode", "legacy"),
     Pair("emergency_temp", 90, "control_interval", 5),
     Pair("emergency_speed", 70, "emergency_temp", 20)}
=============================================================================
