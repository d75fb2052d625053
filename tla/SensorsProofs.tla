---------------------------- MODULE SensorsProofs ----------------------------
(***************************************************************************)
(* What the lists of sensors are, for any machine and any answers, and     *)
(* what the evaluation makes of them.                                      *)
(***************************************************************************)
EXTENDS Sensors, FiniteSetTheorems, WellFoundedInduction, TLAPS

-----------------------------------------------------------------------------
(* Finite sets.                                                            *)

\* What a function takes on a finite set is finite.
LEMMA FiniteImage ==
    ASSUME NEW f, IsFiniteSet(DOMAIN f)
    PROVE  IsFiniteSet({f[x] : x \in DOMAIN f})
<1> DEFINE T == {f[x] : x \in DOMAIN f}
           g == [x \in DOMAIN f |-> f[x]]
<1>1. g \in Surjection(DOMAIN f, T)
  BY DEF Surjection
<1> QED
  BY <1>1, FS_Surjection

\* Natural numbers have a least one among them.
LEMMA LeastNumber ==
    ASSUME NEW S, S \subseteq Nat, S # {}
    PROVE  \E m \in S : \A n \in S : m <= n
<1>1. PICK m \in S : \A n \in S : ~ (<<n, m>> \in OpToRel(<, Nat))
  BY NatLessThanWellFounded, WFMin
<1>2. \A n \in S : ~ (n < m)
  BY <1>1 DEF OpToRel
<1> QED
  BY <1>2

\* Among finitely many there is one that no other goes before.
LEMMA First ==
    ASSUME NEW S, IsFiniteSet(S), S # {}, NEW R,
           \A x \in S : <<x, x>> \notin R,
           \A x, y, z \in S : <<x, y>> \in R /\ <<y, z>> \in R => <<x, z>> \in R
    PROVE  \E m \in S : \A x \in S : <<x, m>> \notin R
<1> DEFINE below == [m \in S |-> {x \in S : <<x, m>> \in R}]
           size == [m \in S |-> Cardinality(below[m])]
<1>1. \A m \in S : below[m] = {x \in S : <<x, m>> \in R} /\ size[m] = Cardinality(below[m])
  OBVIOUS
<1> HIDE DEF below, size
<1>2. ASSUME NEW m \in S PROVE IsFiniteSet(below[m]) /\ size[m] \in Nat
  <2>1. below[m] \in SUBSET S
    BY <1>1
  <2> QED
    BY <1>1, <2>1, FS_Subset, FS_CardinalityType
<1>3. PICK m \in S : \A x \in S : size[m] <= size[x]
  <2>1. {size[x] : x \in S} \subseteq Nat /\ {size[x] : x \in S} # {}
    BY <1>2
  <2>2. PICK n \in {size[x] : x \in S} : \A k \in {size[x] : x \in S} : n <= k
    BY <2>1, LeastNumber
  <2> QED
    BY <2>2
<1>4. ASSUME NEW x \in S, <<x, m>> \in R PROVE FALSE
  <2>1. below[x] \in SUBSET below[m] /\ x \in below[m] /\ x \notin below[x]
    BY <1>1, <1>4
  <2>2. /\ Cardinality(below[x]) <= Cardinality(below[m])
        /\ Cardinality(below[m]) = Cardinality(below[x]) => below[m] = below[x]
    BY <1>2, <2>1, FS_Subset
  <2>3. size[m] <= size[x] /\ size[m] \in Nat /\ size[x] \in Nat
    BY <1>2, <1>3
  <2> QED
    BY <1>1, <2>1, <2>2, <2>3
<1> QED
  BY <1>4

-----------------------------------------------------------------------------
(* The lists.                                                              *)

Kinds == {"gpu", "cpu", "drive", "board"}
Sensor ==
    [source : {"nvml", "hwmon", "zone", "smartctl"}, kind : Kinds, id : Int, index : Int,
     temp : Int, hardware : Int]

\* A list of sensors of some kinds.
Listing(S, kinds) == IsFiniteSet(S) /\ S \subseteq Sensor /\ \A d \in S : d.kind \in kinds

\* The place in a finite set is a number.
LEMMA PlaceTyped ==
    ASSUME NEW S, IsFiniteSet(S), NEW x
    PROVE  Place(x, S) \in Nat
BY FS_Subset, FS_CardinalityType DEF Place

\* Every GPU that has a handle, once.
LEMMA GpusListed ==
    ASSUME NEW s, ProperSurvey(s), NEW limits \in [Gpu -> Int]
    PROVE  Listing(GpuMetrics(s, limits), {"gpu"})
<1> DEFINE T == {h \in Gpu : s.gpu[h] # Gone}
           f == [g \in T |-> Device("nvml", "gpu", g, g,
                                 IF s.gpu[g] = NoReading THEN 0 ELSE s.gpu[g], limits[g])]
<1>1. IsFiniteSet(T)
  BY SensorsAssumption, FS_Subset DEF SensorsAssumption
<1>2. GpuMetrics(s, limits) = {f[g] : g \in T}
  BY DEF GpuMetrics
<1>3. DOMAIN f = T
  OBVIOUS
<1>4. IsFiniteSet(GpuMetrics(s, limits))
  <2> HIDE DEF f, T
  <2> QED
    BY <1>1, <1>2, <1>3, FiniteImage
<1>5. ASSUME NEW g \in T PROVE f[g] \in Sensor /\ f[g].kind = "gpu"
  <2>1. g \in Int /\ s.gpu[g] \in Int /\ limits[g] \in Int
    BY SensorsAssumption DEF SensorsAssumption, ProperSurvey
  <2> QED
    BY <2>1 DEF Device, Sensor, Kinds
<1> QED
  BY <1>2, <1>4, <1>5 DEF Listing

\* The packages, or the zones in their place.
LEMMA ZonesListed ==
    ASSUME NEW s, ProperSurvey(s)
    PROVE  Listing(ThermalZones(s), {"cpu"})
<1> DEFINE T == {m \in DOMAIN s.zone : Plausible(s.zone[m])}
           f == [n \in T |-> Device("zone", "cpu", -n, n - 1, s.zone[n], 0)]
<1>0. s.zone \in Seq(Int)
  BY DEF ProperSurvey
<1>1. IsFiniteSet(T)
  <2>1. DOMAIN s.zone = 1..Len(s.zone) /\ Len(s.zone) \in Nat
    BY <1>0
  <2>2. \A n \in Nat : IsFiniteSet(1..n)
    BY FS_Interval
  <2> QED
    BY <2>1, <2>2, FS_Subset
<1>2. ThermalZones(s) = {f[n] : n \in T}
  BY DEF ThermalZones
<1>3. DOMAIN f = T
  OBVIOUS
<1>4. IsFiniteSet(ThermalZones(s))
  <2> HIDE DEF f, T
  <2> QED
    BY <1>1, <1>2, <1>3, FiniteImage
<1>5. ASSUME NEW n \in T PROVE f[n] \in Sensor /\ f[n].kind = "cpu"
  <2>1. n \in Int /\ s.zone[n] \in Int
    BY <1>0
  <2> QED
    BY <2>1 DEF Device, Sensor, Kinds
<1> QED
  BY <1>2, <1>4, <1>5 DEF Listing

\* A threshold that hwmon gives is a number.
LEMMA ThresholdTyped == ASSUME NEW v \in Nat PROVE PlausibleThreshold(v) \in Nat
BY DEF PlausibleThreshold

\* The packages that answer, or the zones in their place.
LEMMA PackagesListed ==
    ASSUME NEW s, ProperSurvey(s)
    PROVE  Listing(CpuPackages(s), {"cpu"})
<1> DEFINE T == {c \in Package : Plausible(s.package[c])}
           f == [c \in T |-> Device("hwmon", "cpu", c, Place(c, T), s.package[c],
                                 PlausibleThreshold(TjMax[c]))]
<1>1. IsFiniteSet(T)
  BY SensorsAssumption, FS_Subset DEF SensorsAssumption
<1>2. CpuPackages(s) = IF T = {} THEN ThermalZones(s) ELSE {f[c] : c \in T}
  BY DEF CpuPackages
<1>3. DOMAIN f = T
  OBVIOUS
<1>4. IsFiniteSet({f[c] : c \in T})
  <2> HIDE DEF f, T
  <2> QED
    BY <1>1, <1>3, FiniteImage
<1>5. ASSUME NEW c \in T PROVE f[c] \in Sensor /\ f[c].kind = "cpu"
  <2>1. c \in Int /\ s.package[c] \in Int /\ TjMax[c] \in Nat
    BY SensorsAssumption DEF SensorsAssumption, ProperSurvey
  <2>2. PlausibleThreshold(TjMax[c]) \in Int
    BY <2>1, ThresholdTyped
  <2>3. Place(c, T) \in Int
    BY <1>1, PlaceTyped
  <2> HIDE DEF T
  <2> QED
    BY <2>1, <2>2, <2>3 DEF Device, Sensor, Kinds
<1>6. Listing({f[c] : c \in T}, {"cpu"})
  BY <1>4, <1>5 DEF Listing
<1> HIDE DEF f, T
<1> QED
  BY <1>2, <1>6, ZonesListed

\* The board's sensors that answer.
LEMMA BoardListed ==
    ASSUME NEW s, ProperSurvey(s)
    PROVE  Listing(BoardTemperatures(s), {"board"})
<1> DEFINE T == {b \in Board : s.board[b] \in 5..125}
           f == [b \in T |-> Device("hwmon", "board", b, Place(b, T), s.board[b], 0)]
<1>1. IsFiniteSet(T)
  BY SensorsAssumption, FS_Subset DEF SensorsAssumption
<1>2. BoardTemperatures(s) = {f[b] : b \in T}
  BY DEF BoardTemperatures
<1>3. DOMAIN f = T
  OBVIOUS
<1>4. IsFiniteSet({f[b] : b \in T})
  <2> HIDE DEF f, T
  <2> QED
    BY <1>1, <1>3, FiniteImage
<1>5. ASSUME NEW b \in T PROVE f[b] \in Sensor /\ f[b].kind = "board"
  <2>1. b \in Int /\ s.board[b] \in Int
    BY SensorsAssumption DEF SensorsAssumption, ProperSurvey
  <2>2. Place(b, T) \in Int
    BY <1>1, PlaceTyped
  <2> HIDE DEF T
  <2> QED
    BY <2>1, <2>2 DEF Device, Sensor, Kinds
<1> QED
  BY <1>2, <1>4, <1>5 DEF Listing

\* Drives as one source shows them: not numbered yet.
Unnumbered(S) == Listing(S, {"drive"}) /\ \A d \in S : d.index = 0

\* The drives hwmon shows.
LEMMA HwmonListed ==
    ASSUME NEW s, ProperSurvey(s)
    PROVE  Unnumbered(HwmonDrives(s))
<1> DEFINE T == DOMAIN s.hwmon
           f == [d \in T |-> Device("hwmon", "drive", Node[d], 0, s.hwmon[d],
                                 PlausibleThreshold(Crit[d]))]
<1>1. T \subseteq Drive /\ IsFiniteSet(T)
  BY SensorsAssumption, FS_Subset DEF SensorsAssumption, ProperSurvey
<1>2. HwmonDrives(s) = {f[d] : d \in T}
  BY DEF HwmonDrives
<1>3. DOMAIN f = T
  OBVIOUS
<1>4. IsFiniteSet({f[d] : d \in T})
  <2> HIDE DEF f, T
  <2> QED
    BY <1>1, <1>3, FiniteImage
<1>5. ASSUME NEW d \in T PROVE f[d] \in Sensor /\ f[d].kind = "drive" /\ f[d].index = 0
  <2>1. Node[d] \in Int /\ s.hwmon[d] \in Int /\ Crit[d] \in Nat
    BY <1>1, SensorsAssumption DEF SensorsAssumption, ProperSurvey
  <2>2. PlausibleThreshold(Crit[d]) \in Int
    BY <2>1, ThresholdTyped
  <2> QED
    BY <2>1, <2>2 DEF Device, Sensor, Kinds
<1> QED
  BY <1>2, <1>4, <1>5 DEF Unnumbered, Listing

\* The drives smartctl finds a temperature of.
LEMMA SmartListed ==
    ASSUME NEW s, ProperSurvey(s), NEW covered
    PROVE  Unnumbered(ScanDrives(s, covered))
<1> DEFINE T == {e \in Uncovered(s, covered) : DriveTemperature(s.smart[e]) > 0}
           f == [d \in T |-> Device("smartctl", "drive", ScanName(s, d), 0,
                                 DriveTemperature(s.smart[d]), 0)]
<1>1. T \subseteq Drive /\ IsFiniteSet(T)
  BY SensorsAssumption, FS_Subset DEF SensorsAssumption, ProperSurvey, Uncovered
<1>2. ScanDrives(s, covered) = {f[d] : d \in T}
  BY DEF ScanDrives
<1>3. DOMAIN f = T
  OBVIOUS
<1>4. IsFiniteSet({f[d] : d \in T})
  <2> HIDE DEF f, T
  <2> QED
    BY <1>1, <1>3, FiniteImage
<1>5. ASSUME NEW d \in T PROVE f[d] \in Sensor /\ f[d].kind = "drive" /\ f[d].index = 0
  <2>1. ScanName(s, d) \in Int
    BY <1>1, SensorsAssumption DEF SensorsAssumption, ScanName
  <2>2. DriveTemperature(s.smart[d]) \in Int
    BY DEF ProperSurvey, DriveTemperature, Uncovered
  <2> QED
    BY <2>1, <2>2 DEF Device, Sensor, Kinds
<1> QED
  BY <1>2, <1>4, <1>5 DEF Unnumbered, Listing

\* The drives, by whatever source, are numbered.
LEMMA DrivesListed ==
    ASSUME NEW found, NEW more, Unnumbered(found), Unnumbered(more)
    PROVE  Listing(Drives(found, more), {"drive"})
<1> DEFINE S == found \cup more
           Before(e, d) == \/ e.id < d.id
                           \/ e.id = d.id /\ e.source = "hwmon" /\ d.source # "hwmon"
           n == [d \in S |-> Cardinality({e \in S : Before(e, d)})]
           f == [d \in S |-> [d EXCEPT !.index = n[d]]]
<1>1. IsFiniteSet(S) /\ S \subseteq Sensor /\ \A d \in S : d.kind = "drive"
  BY FS_Union DEF Unnumbered, Listing
<1>2. Drives(found, more) = {f[d] : d \in S}
  BY DEF Drives
<1>3. DOMAIN f = S
  OBVIOUS
<1>4. IsFiniteSet({f[d] : d \in S})
  <2> HIDE DEF f, S
  <2> QED
    BY <1>1, <1>3, FiniteImage
<1>5. ASSUME NEW d \in S PROVE f[d] \in Sensor /\ f[d].kind = "drive"
  <2>1. n[d] \in Nat
    <3>1. {e \in S : Before(e, d)} \in SUBSET S
      OBVIOUS
    <3> QED
      BY <1>1, <3>1, FS_Subset, FS_CardinalityType
  <2>2. f[d] = [d EXCEPT !.index = n[d]] /\ d \in Sensor /\ d.kind = "drive"
    BY <1>1
  <2> HIDE DEF f, n, S
  <2> QED
    BY <2>1, <2>2 DEF Sensor
<1> QED
  BY <1>2, <1>4, <1>5 DEF Listing

-----------------------------------------------------------------------------
(* The indexes.                                                            *)

\* The number a device has by what it is: a GPU and a thermal zone their own,
\* the others their place among those listed of their kind.
Ids(list, kind) == {d.id : d \in {e \in list : e.kind = kind}}
Number(list, kind, id) ==
    IF kind = "gpu" THEN id
    ELSE IF kind = "cpu" /\ id < 0 THEN -id - 1 ELSE Place(id, Ids(list, kind))
Numbered(list) == \A d \in list : d.index = Number(list, d.kind, d.id)

\* The numbers of a list do not change with what is listed of other kinds.
LEMMA NumberedApart ==
    ASSUME NEW A, NEW B, \A d \in A, e \in B : d.kind # e.kind, Numbered(A), Numbered(B)
    PROVE  Numbered(A \cup B)
<1>1. ASSUME NEW d \in A PROVE Ids(A \cup B, d.kind) = Ids(A, d.kind)
  BY DEF Ids
<1>2. ASSUME NEW d \in B PROVE Ids(A \cup B, d.kind) = Ids(B, d.kind)
  BY DEF Ids
<1> QED
  BY <1>1, <1>2 DEF Numbered, Number

\* GPUs have numbers of their own.
LEMMA GpusNumbered ==
    ASSUME NEW s, NEW limits
    PROVE  Numbered(GpuMetrics(s, limits))
BY DEF GpuMetrics, Device, Numbered, Number

\* Zones have theirs, packages go by their place.
LEMMA PackagesNumbered ==
    ASSUME NEW s, ProperSurvey(s)
    PROVE  Numbered(CpuPackages(s))
<1> DEFINE T == {c \in Package : Plausible(s.package[c])}
           f == [c \in T |-> Device("hwmon", "cpu", c, Place(c, T), s.package[c],
                                 PlausibleThreshold(TjMax[c]))]
<1>1. CpuPackages(s) = IF T = {} THEN ThermalZones(s) ELSE {f[c] : c \in T}
  BY DEF CpuPackages
<1>2. Numbered(ThermalZones(s))
  <2>1. \A n \in DOMAIN s.zone : n \in Nat \ {0}
    BY DEF ProperSurvey
  <2> QED
    BY <2>1 DEF ThermalZones, Device, Numbered, Number
<1>3. ASSUME NEW c \in T
      PROVE  f[c].kind = "cpu" /\ f[c].id = c /\ c \in Nat /\ f[c].index = Place(c, T)
  BY SensorsAssumption DEF SensorsAssumption, Device
<1> HIDE DEF f, T
<1>4. Ids({f[c] : c \in T}, "cpu") = T
  BY <1>3 DEF Ids
<1>5. Numbered({f[c] : c \in T})
  BY <1>3, <1>4 DEF Numbered, Number
<1> QED
  BY <1>1, <1>2, <1>5

\* So do the board's sensors.
LEMMA BoardNumbered ==
    ASSUME NEW s
    PROVE  Numbered(BoardTemperatures(s))
<1> DEFINE T == {b \in Board : s.board[b] \in 5..125}
           f == [b \in T |-> Device("hwmon", "board", b, Place(b, T), s.board[b], 0)]
<1>1. BoardTemperatures(s) = {f[b] : b \in T}
  BY DEF BoardTemperatures
<1>2. ASSUME NEW b \in T
      PROVE  f[b].kind = "board" /\ f[b].id = b /\ f[b].index = Place(b, T)
  BY DEF Device
<1> HIDE DEF f, T
<1>3. Ids({f[b] : b \in T}, "board") = T
  BY <1>2 DEF Ids
<1> QED
  BY <1>1, <1>2, <1>3 DEF Numbered, Number

\* And so do the drives, from however many sources, unless one is listed twice.
LEMMA DrivesNumbered ==
    ASSUME NEW found, NEW more, Unnumbered(found), Unnumbered(more),
           ListedOnce(Drives(found, more))
    PROVE  Numbered(Drives(found, more))
<1> DEFINE S == found \cup more
           Before(e, d) == \/ e.id < d.id
                           \/ e.id = d.id /\ e.source = "hwmon" /\ d.source # "hwmon"
           n == [d \in S |-> Cardinality({e \in S : Before(e, d)})]
           f == [d \in S |-> [d EXCEPT !.index = n[d]]]
           ids == {d.id : d \in S}
<1>1. /\ IsFiniteSet(S)
      /\ \A d \in S : d \in Sensor /\ d.kind = "drive" /\ d.index = 0
  BY FS_Union DEF Unnumbered, Listing
<1>2. Drives(found, more) = {f[d] : d \in S}
  BY DEF Drives
<1>3. ASSUME NEW d \in S
      PROVE  /\ f[d].index = n[d] /\ f[d].kind = "drive" /\ f[d].id = d.id
             /\ f[d].source = d.source /\ f[d].temp = d.temp /\ f[d].hardware = d.hardware
  <2>1. f[d] = [d EXCEPT !.index = n[d]] /\ d \in Sensor /\ d.kind = "drive"
    BY <1>1
  <2> HIDE DEF f, n, S
  <2> QED
    BY <2>1 DEF Sensor
<1>4. \A d \in S : n[d] = Cardinality({e \in S : Before(e, d)})
  OBVIOUS
<1> HIDE DEF f, n, S
<1>5. ASSUME NEW d \in S, NEW e \in S, d.id = e.id PROVE d = e
  <2>1. f[d] \in Drives(found, more) /\ f[e] \in Drives(found, more)
    BY <1>2
  <2>2. f[d] = f[e]
    BY <1>3, <1>5, <2>1 DEF ListedOnce
  <2>3. /\ d.source = e.source /\ d.kind = e.kind /\ d.index = e.index
        /\ d.temp = e.temp /\ d.hardware = e.hardware
    BY <1>1, <1>3, <2>2
  <2>4. d \in Sensor /\ e \in Sensor
    BY <1>1
  <2> QED
    BY <1>5, <2>3, <2>4 DEF Sensor
<1>6. ASSUME NEW d \in S PROVE n[d] = Place(d.id, ids)
  <2> DEFINE lower == {e \in S : e.id < d.id}
             g == [e \in lower |-> e.id]
  <2>1. {e \in S : Before(e, d)} = lower
    BY <1>1, <1>5 DEF Sensor
  <2>2. g \in Bijection(lower, {y \in ids : y < d.id})
    <3>1. g \in [lower -> {y \in ids : y < d.id}]
      OBVIOUS
    <3>2. \A a, b \in lower : g[a] = g[b] => a = b
      BY <1>5
    <3>3. \A y \in {z \in ids : z < d.id} : \E a \in lower : g[a] = y
      OBVIOUS
    <3> QED
      BY <3>1, <3>2, <3>3 DEF Bijection, Injection, Surjection, IsInjective
  <2>3. IsFiniteSet(lower)
    BY <1>1, FS_Subset
  <2>4. Cardinality(lower) = Cardinality({y \in ids : y < d.id})
    <3> HIDE DEF lower, g
    <3> QED
      BY <2>2, <2>3, FS_Bijection DEF ExistsBijection
  <2> QED
    BY <1>4, <2>1, <2>4 DEF Place
<1>7. Ids(Drives(found, more), "drive") = ids
  <2>1. ASSUME NEW x \in Drives(found, more) PROVE x.kind = "drive" /\ x.id \in ids
    BY <1>2, <1>3
  <2>2. ASSUME NEW i \in ids PROVE \E x \in Drives(found, more) : x.kind = "drive" /\ x.id = i
    BY <1>2, <1>3
  <2> QED
    BY <2>1, <2>2 DEF Ids
<1> HIDE DEF ids
<1>8. ASSUME NEW x \in Drives(found, more)
      PROVE  x.index = Place(x.id, ids) /\ x.kind = "drive"
  BY <1>2, <1>3, <1>6
<1> QED
  BY <1>7, <1>8 DEF Numbered, Number

\* Two lists of the same devices, each listed once, give them the same indexes.
LEMMA SameIndexes ==
    ASSUME NEW A, NEW B, Numbered(A), Numbered(B), Devices(A) = Devices(B),
           ListedOnce(A), ListedOnce(B), NEW device \in Devices(A)
    PROVE  Index(A, device) = Index(B, device)
<1>1. ASSUME NEW L, Devices(L) = Devices(A), Numbered(L)
      PROVE  Index(L, device) = Number(L, device[1], device[2])
  <2>1. \E d \in L : <<d.kind, d.id>> = device
    BY <1>1 DEF Devices
  <2>2. PICK d \in L : d = CHOOSE e \in L : <<e.kind, e.id>> = device
    BY <2>1
  <2>3. <<d.kind, d.id>> = device
    BY <2>1, <2>2
  <2> QED
    BY <1>1, <2>2, <2>3 DEF Index, Numbered
<1>2. ASSUME NEW kind PROVE Ids(A, kind) = Ids(B, kind)
  <2>1. ASSUME NEW L, NEW id
        PROVE  id \in Ids(L, kind) <=> <<kind, id>> \in Devices(L)
    BY DEF Ids, Devices
  <2> QED
    <3>1. ASSUME NEW id PROVE id \in Ids(A, kind) <=> id \in Ids(B, kind)
      BY <2>1
    <3> QED
      BY <3>1
<1>3. Number(A, device[1], device[2]) = Number(B, device[1], device[2])
  BY <1>2 DEF Number
<1> QED
  BY <1>1, <1>3

-----------------------------------------------------------------------------
(* The evaluation.                                                         *)

Statuses == {"ok", "warning", "critical"}
Judged ==
    [kind : {"gpu", "cpu", "drive"}, id : Int, index : Int, temp : Int, headroom : Int,
     status : Statuses]

\* Settings the evaluation can work with.
Usable(cfg) ==
    /\ cfg.emergency_temp \in Int
    /\ cfg.limit_gpu \in Int /\ cfg.limit_cpu \in Int /\ cfg.limit_drive \in Int

\* A device has a limit, whoever gives it.
LEMMA LimitTyped ==
    ASSUME NEW cfg, Usable(cfg), NEW d \in Sensor, d.kind \in {"gpu", "cpu", "drive"}
    PROVE  ResolveLimit(cfg, d) \in Int
<1>1. d.hardware \in Int
  BY DEF Sensor
<1>2. Override(cfg, "gpu") \in Int /\ ClassDefault("gpu") \in Int
  BY DEF Override, ClassDefault, Usable
<1>3. Override(cfg, "cpu") \in Int /\ ClassDefault("cpu") \in Int
  BY DEF Override, ClassDefault, Usable
<1>4. Override(cfg, "drive") \in Int /\ ClassDefault("drive") \in Int
  BY DEF Override, ClassDefault, Usable
<1>5. Override(cfg, d.kind) \in Int /\ ClassDefault(d.kind) \in Int
  BY <1>2, <1>3, <1>4
<1> QED
  BY <1>1, <1>5 DEF ResolveLimit, Usable

\* Every device of a finite list is judged, by its own temperature.
LEMMA JudgedTyped ==
    ASSUME NEW cfg, Usable(cfg), NEW list, Listing(list, {"gpu", "cpu", "drive"})
    PROVE  /\ IsFiniteSet(EvaluateThermal(cfg, list))
           /\ EvaluateThermal(cfg, list) \subseteq Judged
           /\ \A x \in EvaluateThermal(cfg, list) :
                 x.status = "critical" <=> x.temp >= cfg.emergency_temp
<1> DEFINE f == [d \in list |-> [kind |-> d.kind, id |-> d.id, index |-> d.index,
                                 temp |-> d.temp, headroom |-> Headroom(cfg, d),
                                 status |-> Status(cfg, d)]]
<1>1. EvaluateThermal(cfg, list) = {f[d] : d \in list}
  BY DEF EvaluateThermal
<1>2. DOMAIN f = list
  OBVIOUS
<1>3. ASSUME NEW d \in list
      PROVE  f[d] \in Judged /\ (f[d].status = "critical" <=> f[d].temp >= cfg.emergency_temp)
  <2>1. d \in Sensor /\ d.kind \in {"gpu", "cpu", "drive"}
    BY DEF Listing
  <2>2. Headroom(cfg, d) \in Int
    BY <2>1, LimitTyped DEF Headroom, Sensor
  <2>3. Status(cfg, d) \in Statuses /\ (Status(cfg, d) = "critical" <=> d.temp >= cfg.emergency_temp)
    BY DEF Status, Statuses
  <2> QED
    BY <2>1, <2>2, <2>3 DEF Judged, Sensor
<1> HIDE DEF f
<1>4. IsFiniteSet({f[d] : d \in list})
  BY <1>2, FiniteImage DEF Listing
<1> QED
  BY <1>1, <1>3, <1>4

\* A status has a rank, and critical the highest.
LEMMA Ranks ==
    ASSUME NEW status \in Statuses
    PROVE  /\ StatusRank(status) \in 0..2
           /\ status = "critical" <=> StatusRank(status) = 2
BY DEF Statuses, StatusRank

\* Of two devices at most one goes before the other, and so along a chain.
LEMMA LessOrders ==
    ASSUME NEW cfg, NEW a \in Judged, NEW b \in Judged, NEW c \in Judged
    PROVE  /\ ~Less(cfg, a, a)
           /\ Less(cfg, a, b) /\ Less(cfg, b, c) => Less(cfg, a, c)
<1>1. ASSUME NEW x \in Judged
      PROVE  x.temp \in Int /\ x.headroom \in Int /\ StatusRank(x.status) \in Int
  BY Ranks DEF Judged
<1> QED
  BY <1>1 DEF Less

\* The status of the evaluation is critical when any device's is: whichever the
\* sorting puts first, no other goes before it.
LEMMA WorstIsCritical ==
    ASSUME NEW cfg, NEW devices, IsFiniteSet(devices), devices \subseteq Judged
    PROVE  WorstStatus(cfg, devices) = "critical"
               <=> \E d \in devices : d.status = "critical"
<1>1. CASE devices = {}
  BY <1>1 DEF WorstStatus
<1>2. CASE devices # {}
  <2> DEFINE R == {p \in devices \X devices : Less(cfg, p[1], p[2])}
             d == CHOOSE x \in devices : \A e \in devices : ~Less(cfg, e, x)
  <2>1. \A a, b \in devices : <<a, b>> \in R <=> Less(cfg, a, b)
    OBVIOUS
  <2>2. \A a \in devices : <<a, a>> \notin R
    BY <2>1, LessOrders
  <2>3. \A a, b, c \in devices : <<a, b>> \in R /\ <<b, c>> \in R => <<a, c>> \in R
    BY <2>1, LessOrders
  <2> HIDE DEF R
  <2>4. \E x \in devices : \A e \in devices : <<e, x>> \notin R
    BY <1>2, <2>2, <2>3, First
  <2>5. d \in devices /\ \A e \in devices : ~Less(cfg, e, d)
    BY <2>1, <2>4
  <2>6. WorstStatus(cfg, devices) = d.status
    BY <1>2 DEF WorstStatus
  <2> HIDE DEF d
  <2>7. \A e \in devices : StatusRank(d.status) >= StatusRank(e.status)
    <3> SUFFICES ASSUME NEW e \in devices
                 PROVE  StatusRank(d.status) >= StatusRank(e.status)
      OBVIOUS
    <3>1. StatusRank(d.status) \in Int /\ StatusRank(e.status) \in Int
      BY <2>5, Ranks DEF Judged
    <3> QED
      BY <2>5, <3>1 DEF Less
  <2>8. ASSUME NEW e \in devices
        PROVE  /\ StatusRank(e.status) \in 0..2
               /\ e.status = "critical" <=> StatusRank(e.status) = 2
    BY Ranks DEF Judged
  <2> QED
    BY <2>5, <2>6, <2>7, <2>8
<1> QED
  BY <1>1, <1>2
=============================================================================
