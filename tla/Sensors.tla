------------------------------- MODULE Sensors -------------------------------
(***************************************************************************)
(* What the sensors of a machine answer and how it is listed: NVML through *)
(* services/gpu.go; the CPU packages, the board and the drives through     *)
(* services/system.go; and how services/thermal.go judges the list.  A     *)
(* survey is what the hardware would answer now:                           *)
(*     gpu        per GPU: its temperature, NoReading or Gone              *)
(*     package    per CPU package: its temperature or NoReading            *)
(*     zone       the thermal zones, a sequence of the same                *)
(*     board      per Super-I/O sensor: its temperature or NoReading       *)
(*     hwmon      per drive the kernel's hwmon shows: its temperature      *)
(*     smart      per drive smartctl reads: what it says of it             *)
(*     scan       whether smartctl --scan answers                          *)
(* A drive is listed by a device name, and the two sources need not use the*)
(* same: hwmon and /dev name the namespace of an NVMe drive, smartctl --scan*)
(* its controller.  Drives are numbered in the order of these names.       *)
(* A list of devices is a set of records: what its order decides is kept,  *)
(* that is each device's index and which of them is the worst.             *)
(***************************************************************************)
EXTENDS Integers, FiniteSets, Sequences

CONSTANTS
    Gpu,            \* GPU indexes, from 0
    Package, Board, \* CPU packages and board sensors in the order of their files
    Drive,          \* the drives there are
    Node, Ctrl,     \* the device names of a drive in the order of names: the block
                    \* node's, and what smartctl --scan calls it
    Crit,           \* what hwmon gives for the drive's threshold
    TjMax,          \* what it gives for the package's
    BlockNodes      \* whether /dev has block nodes, so that smartctl is asked

NoReading == -1
Gone == -2

ASSUME SensorsAssumption ==
    /\ \A S \in {Gpu, Package, Board, Drive} : S \subseteq Nat /\ IsFiniteSet(S)
    /\ Node \in [Drive -> Nat] /\ Ctrl \in [Drive -> Nat]
    /\ \A d, e \in Drive : d # e => /\ Node[d] # Node[e] /\ Ctrl[d] # Ctrl[e]
                                   /\ Node[d] # Ctrl[e]
    /\ Crit \in [Drive -> Nat] /\ TjMax \in [Package -> Nat]
    /\ BlockNodes \in BOOLEAN

\* What the hardware may answer.
ProperSurvey(s) ==
    /\ s.gpu \in [Gpu -> Int] /\ s.limit \in [Gpu -> Int]
    /\ s.package \in [Package -> Int] /\ s.board \in [Board -> Int]
    /\ s.zone \in Seq(Int)
    /\ DOMAIN s.hwmon \subseteq Drive /\ DOMAIN s.smart \subseteq Drive /\ s.scan \in BOOLEAN
    /\ \A d \in DOMAIN s.hwmon : s.hwmon[d] \in Int
    /\ \A d \in DOMAIN s.smart :
          s.smart[d].current \in Int /\ s.smart[d].nvme \in Int /\ s.smart[d].raw \in Int

Device(source, kind, id, index, temp, hardware) ==
    [source |-> source, kind |-> kind, id |-> id, index |-> index, temp |-> temp,
     hardware |-> hardware]

\* The place of a member in the ascending order of its set.
Place(x, S) == Cardinality({y \in S : y < x})

\* A GPU that has a handle is listed; without a temperature it shows 0.
GpuMetrics(s, limits) ==
    {Device("nvml", "gpu", g, g, IF s.gpu[g] = NoReading THEN 0 ELSE s.gpu[g], limits[g]) :
        g \in {h \in Gpu : s.gpu[h] # Gone}}

\* A threshold that is a placeholder is none.
PlausibleThreshold(v) == IF v \in 1..150 THEN v ELSE 0

\* Where hwmon shows no package there are the thermal zones, which keep their
\* number when one of them does not answer.
Plausible(t) == t > 0 /\ t < 150
ThermalZones(s) ==
    {Device("zone", "cpu", -n, n - 1, s.zone[n], 0) :
        n \in {m \in DOMAIN s.zone : Plausible(s.zone[m])}}

\* The packages that answer plausibly are numbered as they come.
CpuPackages(s) ==
    LET shown == {c \in Package : Plausible(s.package[c])}
    IN  IF shown = {} THEN ThermalZones(s)
        ELSE {Device("hwmon", "cpu", c, Place(c, shown), s.package[c],
                     PlausibleThreshold(TjMax[c])) : c \in shown}

BoardTemperatures(s) ==
    LET shown == {b \in Board : s.board[b] \in 5..125}
    IN  {Device("hwmon", "board", b, Place(b, shown), s.board[b], 0) : b \in shown}

\* The drives by hwmon.
HwmonDrives(s) ==
    {Device("hwmon", "drive", Node[d], 0, s.hwmon[d], PlausibleThreshold(Crit[d])) :
        d \in DOMAIN s.hwmon}

\* The temperature in an answer of smartctl: its own field, the NVMe health log,
\* or an attribute whose lower byte it may be.
DriveTemperature(a) ==
    IF a.current > 0 THEN a.current
    ELSE IF a.nvme > 0 THEN a.nvme
    ELSE IF a.raw > 100 THEN a.raw % 256 ELSE a.raw

\* Faulty: asked for all of them.
CoveredNone(s) == {}
Covered(s) == {Node[d] : d \in DOMAIN s.hwmon}

\* scanDrives: where smartctl does not list the drives, /dev does.
ScanName(s, d) == IF s.scan THEN Ctrl[d] ELSE Node[d]

\* smartctl is asked for the names hwmon did not cover, and shows no threshold.
Uncovered(s, covered) == {d \in DOMAIN s.smart : ScanName(s, d) \notin covered}
ScanDrives(s, covered) ==
    {Device("smartctl", "drive", ScanName(s, d), 0, DriveTemperature(s.smart[d]), 0) :
        d \in {e \in Uncovered(s, covered) : DriveTemperature(s.smart[e]) > 0}}

\* Faulty: numbers the drives as they were found, hwmon's in the order of the chips.
DrivesUnsorted(found, more) ==
    {[d EXCEPT !.index =
        IF d \in found THEN Cardinality({e \in found : e.id > d.id})
        ELSE Cardinality(found) + Cardinality({e \in more : e.id < d.id})] :
            d \in found \cup more}

\* GetDriveTemperatures: numbered by device name, whatever source each came from;
\* what hwmon says of a drive comes before what smartctl said of it.
Drives(found, more) ==
    LET Before(e, d) == \/ e.id < d.id
                        \/ e.id = d.id /\ e.source = "hwmon" /\ d.source # "hwmon"
    IN  {[d EXCEPT !.index = Cardinality({e \in found \cup more : Before(e, d)})] :
            d \in found \cup more}

\* What a list shows: the devices by name, whether each once, and the index of one.
\* A drive with two names is two devices, also to the code.
Devices(list) == {<<d.kind, d.id>> : d \in list}
ListedOnce(list) == \A d, e \in list : d.kind = e.kind /\ d.id = e.id => d = e
Index(list, device) == (CHOOSE d \in list : <<d.kind, d.id>> = device).index

-----------------------------------------------------------------------------
(* The evaluation.                                                         *)

ClassDefault(kind) == CASE kind = "gpu" -> 90 [] kind = "cpu" -> 95 [] kind = "drive" -> 70
Override(cfg, kind) ==
    CASE kind = "gpu" -> cfg.limit_gpu [] kind = "cpu" -> cfg.limit_cpu [] kind = "drive" -> cfg.limit_drive

\* The operator's limit, else the hardware's, else that of the class.
ResolveLimit(cfg, d) ==
    IF cfg.thermal_limits_mode = "legacy" THEN cfg.emergency_temp
    ELSE IF Override(cfg, d.kind) > 0 THEN Override(cfg, d.kind)
    ELSE IF d.hardware > 0 THEN d.hardware ELSE ClassDefault(d.kind)

Headroom(cfg, d) == ResolveLimit(cfg, d) - d.temp

Warm(cfg, d) ==
    /\ cfg.warning_enabled
    /\ IF cfg.thermal_limits_mode = "legacy" THEN d.temp >= cfg.warning_temp
       ELSE Headroom(cfg, d) <= cfg.warning_margin

\* Critical is the emergency rule, in both modes.
Status(cfg, d) ==
    IF d.temp >= cfg.emergency_temp THEN "critical"
    ELSE IF Warm(cfg, d) THEN "warning" ELSE "ok"

EvaluateThermal(cfg, list) ==
    {[kind |-> d.kind, id |-> d.id, index |-> d.index, temp |-> d.temp,
      headroom |-> Headroom(cfg, d), status |-> Status(cfg, d)] : d \in list}

StatusRank(status) == CASE status = "critical" -> 2 [] status = "warning" -> 1 [] OTHER -> 0

\* Faulty: by headroom alone.
LessByHeadroom(cfg, a, b) ==
    IF cfg.thermal_limits_mode = "legacy" THEN a.temp > b.temp
    ELSE a.headroom < b.headroom

\* Worse devices first, and then the hotter or the closer to its limit.
Less(cfg, a, b) ==
    IF StatusRank(a.status) # StatusRank(b.status)
    THEN StatusRank(a.status) > StatusRank(b.status)
    ELSE IF cfg.thermal_limits_mode = "legacy" THEN a.temp > b.temp
    ELSE a.headroom < b.headroom

\* The status of the evaluation is that of the first device after sorting, one no
\* other goes before.  (Those that could as well be first have the same status.)
WorstStatus(cfg, devices) ==
    IF devices = {} THEN "ok"
    ELSE (CHOOSE d \in devices : \A e \in devices : ~Less(cfg, e, d)).status

DeviceKey(d) == <<d.kind, d.index>>
=============================================================================
