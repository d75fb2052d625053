--------------------------- MODULE FanControlProofs ---------------------------
(***************************************************************************)
(* What the fan controller and the driver under it guarantee for any       *)
(* channels, profiles, duties, requests and identifications, and for every *)
(* mix of failures and events that World admits.                           *)
(***************************************************************************)
EXTENDS FanControl, FiniteSetTheorems, WellFoundedInduction, TLAPS

\* The theorems about the driver, for the driver of this program.
DP == INSTANCE HwmonDriverProofs WITH
        Percent <- 0..100, Env <- DriverEnv, FirmwarePwm <- {}

-----------------------------------------------------------------------------
(* Numbers: the greatest of a finite set, duties, and the ages.            *)

\* A finite set of numbers that is not empty has a greatest one, which is Max:
\* no smallest subset is without.
LEMMA FiniteMax ==
    ASSUME NEW S, IsFiniteSet(S), S \subseteq Int, S # {}
    PROVE  Max(S) \in S /\ \A x \in S : x <= Max(S)
<1> DEFINE Has(T) == \E m \in T : \A x \in T : x <= m
           Without == {T \in SUBSET S : T # {} /\ ~Has(T)}
<1>1. Without = {}
  <2> SUFFICES ASSUME Without # {} PROVE FALSE
    OBVIOUS
  <2>1. IsWellFoundedOn(StrictSubsetOrdering(S), SUBSET S)
    BY FS_StrictSubsetOrderingWellFounded, FS_FiniteSubsetsOfFinite
  <2> HIDE DEF Has
  <2>2. PICK T \in Without :
            \A U \in Without : <<U, T>> \notin StrictSubsetOrdering(S)
    BY <2>1, WFMin
  <2>3. PICK x \in T : TRUE
    OBVIOUS
  <2>4. x \in Int /\ T \subseteq Int
    OBVIOUS
  <2>5. CASE T \ {x} = {}
    BY <2>3, <2>4, <2>5 DEF Has
  <2>6. CASE T \ {x} # {}
    <3>1. <<T \ {x}, T>> \in StrictSubsetOrdering(S)
      BY <2>3 DEF StrictSubsetOrdering
    <3>2. Has(T \ {x})
      BY <2>2, <2>6, <3>1
    <3>3. PICK m \in T \ {x} : \A y \in T \ {x} : y <= m
      BY <3>2 DEF Has
    <3>4. CASE x <= m
      BY <3>3, <3>4 DEF Has
    <3>5. CASE ~(x <= m)
      BY <2>4, <3>3, <3>5 DEF Has
    <3> QED
      BY <3>4, <3>5
  <2> QED
    BY <2>5, <2>6
<1>2. PICK m \in S : \A x \in S : x <= m
  BY <1>1
<1>3. \A x \in S : m >= x
  BY <1>2
<1>4. /\ (CHOOSE x \in S : \A y \in S : x >= y) \in S
      /\ \A y \in S : (CHOOSE x \in S : \A z \in S : x >= z) >= y
  BY <1>3
<1> QED
  BY <1>4 DEF Max

\* The image of a finite set is finite.
LEMMA FiniteImage ==
    ASSUME NEW S, IsFiniteSet(S), NEW f
    PROVE  IsFiniteSet({f[x] : x \in S})
<1> DEFINE T == {f[x] : x \in S}
           h == [x \in S |-> f[x]]
<1>1. h \in Surjection(S, T)
  BY DEF Surjection
<1> QED
  BY <1>1, FS_Surjection

\* What is asked of the instance's constants, for the driver's theorems.
LEMMA DriverAssumed == DP!DriverAssumption
  BY FanControlAssumption DEF DP!DriverAssumption, DriverEnv, DP!EnvEvents, DP!EnableMode

\* The ages the model tells apart go up to a number that is no less than any
\* profile's minimum run time and transition.
LEMMA MaxAgeType ==
    /\ MaxAge \in Nat
    /\ \A p \in Profile : Config[p].minRun <= MaxAge /\ Config[p].transition <= MaxAge
<1> DEFINE minRuns == [p \in Profile |-> Config[p].minRun]
           transitions == [p \in Profile |-> Config[p].transition]
           A == {Config[p].minRun : p \in Profile}
           B == {Config[p].transition : p \in Profile}
           S == {0} \cup A \cup B
<1>0. IsFiniteSet(Profile)
  BY FanControlAssumption
<1>1. IsFiniteSet(A)
  <2>1. A = {minRuns[p] : p \in Profile}
    OBVIOUS
  <2> HIDE DEF minRuns
  <2>2. IsFiniteSet({minRuns[p] : p \in Profile})
    BY <1>0, FiniteImage
  <2> QED
    BY <2>1, <2>2
<1>2. IsFiniteSet(B)
  <2>1. B = {transitions[p] : p \in Profile}
    OBVIOUS
  <2> HIDE DEF transitions
  <2>2. IsFiniteSet({transitions[p] : p \in Profile})
    BY <1>0, FiniteImage
  <2> QED
    BY <2>1, <2>2
<1>3. S \subseteq Nat
  BY FanControlAssumption
<1>4. IsFiniteSet(S)
  BY <1>1, <1>2, FS_Singleton, FS_Union
<1> HIDE DEF A, B
<1>5. Max(S) \in S /\ \A x \in S : x <= Max(S)
  BY <1>3, <1>4, FiniteMax
<1>6. MaxAge = Max(S)
  BY DEF MaxAge, A, B
<1>7. \A p \in Profile : Config[p].minRun \in S /\ Config[p].transition \in S
  BY DEF A, B
<1> QED
  BY <1>3, <1>5, <1>6, <1>7

-----------------------------------------------------------------------------
(* The duties the controller sends.                                        *)

\* Every duty a profile computes and every configured speed is a percentage.
LEMMA PercentType == Percent \subseteq 0..100
<1> DEFINE computed == UNION {Duty[p][t] : p \in Profile, t \in Reading \cup {NoReading}}
<1>1. ASSUME NEW d \in computed
      PROVE  d \in 0..100
  <2>1. PICK p \in Profile, t \in Reading \cup {NoReading} : d \in Duty[p][t]
    OBVIOUS
  <2> QED
    BY <2>1, FanControlAssumption
<1>2. ManualPercent \subseteq 0..100 /\ EmergencySpeed \in 0..100
  BY FanControlAssumption
<1>3. Percent = computed \cup ManualPercent \cup {EmergencySpeed, 100}
  BY DEF Percent
<1> HIDE DEF computed
<1>4. computed \subseteq 0..100
  BY <1>1
<1>5. 100 \in 0..100
  OBVIOUS
<1> QED
  BY <1>2, <1>3, <1>4, <1>5, Zenon

\* So is the startup speed, whatever startup_percent holds.
LEMMA StartupSpeedType == StartupSpeed \in 0..100
<1>1. StartupPercent \in Nat
  BY FanControlAssumption
<1> QED
  BY <1>1 DEF StartupSpeed, SafeFloor

\* Multiplying by a number that is not negative keeps the order.
LEMMA TimesMonotone ==
    ASSUME NEW x \in Int, NEW y \in Int, NEW d \in Nat, x <= y
    PROVE  x * d <= y * d
  OBVIOUS

\* An integer quotient lies between the numbers whose multiples enclose the
\* dividend.
LEMMA QuotientBounds ==
    ASSUME NEW n \in Int, NEW d \in Nat \ {0}, NEW lo \in Int, NEW hi \in Int,
           lo * d <= n, n <= hi * d
    PROVE  n \div d \in lo..hi
<1>1. PICK q \in Int : q = n \div d
  OBVIOUS
<1>2. d * q <= n /\ n < d * q + d
  BY <1>1
<1>3. d * (lo - q) < d
  BY <1>1, <1>2
<1>4. d * (q - hi) <= 0
  BY <1>1, <1>2
<1>5. lo <= q
  BY <1>1, <1>3
<1>6. q <= hi
  BY <1>1, <1>4
<1> QED
  BY <1>1, <1>5, <1>6

\* A transition never overshoots: after any number of beats the duty lies
\* between the one it left and the one it goes to.
THEOREM SmoothedBetween ==
    ASSUME NEW last \in Int, NEW target \in Int, NEW lo \in Int, NEW hi \in Int,
           last \in lo..hi, target \in lo..hi,
           NEW a \in Nat, NEW transition \in Nat \ {0}
    PROVE  Smoothed(last, target, a, transition) \in lo..hi
<1> DEFINE k == IF a < transition THEN a ELSE transition
           n == last * transition + (target - last) * k
<1>1. k \in Nat /\ transition - k \in Nat
  OBVIOUS
<1> HIDE DEF k
<1>2. n = last * (transition - k) + target * k
  BY <1>1
<1>3. lo * (transition - k) <= last * (transition - k)
  BY <1>1, TimesMonotone
<1>4. last * (transition - k) <= hi * (transition - k)
  BY <1>1, TimesMonotone
<1>5. lo * k <= target * k
  BY <1>1, TimesMonotone
<1>6. target * k <= hi * k
  BY <1>1, TimesMonotone
<1>7. lo * transition = lo * (transition - k) + lo * k
  BY <1>1
<1>8. hi * transition = hi * (transition - k) + hi * k
  BY <1>1
<1>9. n \in Int
  BY <1>1
<1>10. lo * transition <= n /\ n <= hi * transition
  <2>1. /\ lo * (transition - k) \in Int /\ last * (transition - k) \in Int
        /\ hi * (transition - k) \in Int /\ lo * k \in Int
        /\ target * k \in Int /\ hi * k \in Int
    BY <1>1
  <2> QED
    BY <1>2, <1>3, <1>4, <1>5, <1>6, <1>7, <1>8, <2>1
<1> HIDE DEF n
<1>11. n \div transition \in lo..hi
  BY <1>9, <1>10, QuotientBounds
<1> QED
  BY <1>11 DEF Smoothed, n, k

\* What is sent for a target lies between what was sent last and the target.
LEMMA FinalType ==
    ASSUME NEW p \in Profile, NEW target \in 0..100, NEW last \in 0..100 \cup {Unset},
           NEW lastTarget, NEW a \in Nat \cup {Never}
    PROVE  Final(Config[p], target, last, lastTarget, a) \in 0..100
<1>1. Stored(last) \in 0..100
  BY DEF Stored, Unset
<1>2. Config[p].transition \in Nat \ {0}
  BY FanControlAssumption
<1>3. CASE a \in Nat
  <2>1. /\ Stored(last) \in Int /\ target \in Int /\ 0 \in Int /\ 100 \in Int
        /\ Stored(last) \in 0..100 /\ target \in 0..100
    BY <1>1
  <2>2. Smoothed(Stored(last), target, a, Config[p].transition) \in 0..100
    BY <1>2, <1>3, <2>1, SmoothedBetween, Zenon
  <2> QED
    BY <2>2 DEF Final
<1>4. CASE a = Never
  BY <1>4 DEF Final
<1> QED
  BY <1>3, <1>4

\* The highest duty of a zone's claimants is one a profile computed.
LEMMA TargetType ==
    ASSUME active \subseteq Profile, NEW duty \in [active -> Percent], NEW z,
           TopClaimants(Config, active, z) # {}
    PROVE  Target(Config, active, duty, z) \in Percent
<1> DEFINE T == TopClaimants(Config, active, z)
           S == {duty[p] : p \in T}
<1>1. T \subseteq active
  BY DEF TopClaimants, Claimants
<1>2. IsFiniteSet(T)
  BY <1>1, FS_Subset, FanControlAssumption
<1> HIDE DEF T
<1>3. IsFiniteSet(S)
  BY <1>2, FiniteImage
<1>4. S \subseteq Percent /\ S # {}
  BY <1>1 DEF T
<1> HIDE DEF S
<1>5. S \subseteq Int
  BY <1>4, PercentType
<1>6. Max(S) \in S
  BY <1>3, <1>4, <1>5, FiniteMax
<1> QED
  BY <1>4, <1>6 DEF Target, S, T

\* The plan of a cycle targets channels, with duties the profiles computed.
LEMMA PlansType ==
    ASSUME active \subseteq Profile, NEW duty \in Computed, NEW entries \in Plans(duty)
    PROVE  entries \in SUBSET Entries
<1> DEFINE claimed == {z \in Zone : Claimants(Config, active, z) # {}}
           Entry(z, p) == [zone |-> z, owner |-> p,
                           target |-> Target(Config, active, duty, z)]
<1>1. PICK owner \in [claimed -> active] :
          /\ \A z \in claimed : owner[z] \in TopClaimants(Config, active, z)
          /\ entries = {Entry(z, owner[z]) : z \in claimed}
  BY DEF Plans
<1>2. duty \in [active -> Percent]
  BY DEF Computed
<1>3. ASSUME NEW z \in claimed PROVE Entry(z, owner[z]) \in Entries
  <2>1. Target(Config, active, duty, z) \in Percent
    BY <1>1, <1>2, TargetType
  <2>2. z \in Zone /\ owner[z] \in Profile
    BY <1>1
  <2> QED
    BY <2>1, <2>2 DEF Entries
<1> HIDE DEF claimed, Entry
<1> QED
  BY <1>1, <1>3

-----------------------------------------------------------------------------
(* Type correctness of the controller.  Nothing here depends on what the   *)
(* driver does, so the driver's part of TypeOK is left out until the       *)
(* refinement below.                                                       *)

LifeTyped ==
    /\ running \in BOOLEAN /\ serving \in BOOLEAN
    /\ stopCh \in Nat /\ closed \subseteq 0..stopCh
    /\ ctxDone \subseteq Handler

ThermalTyped ==
    /\ everSawTemp \in BOOLEAN /\ emergencyActive \in BOOLEAN
    /\ noTempCycles \in 0..SensorLossCycles

MemoryTyped ==
    /\ lastSpeeds \in [Zone -> 0..100 \cup {Unset}]
    /\ zoneTargetSpeeds \in [Zone -> Percent \cup {Unset}]
    /\ age \in [Zone -> 0..MaxAge \cup {Never}]

LoopTyped ==
    /\ pc \in [Goroutine -> {"off"} \cup InStart \cup InCycle \cup InLoop]
    /\ watch \in [Goroutine -> 0..stopCh \cup {Unset}]
    /\ plan \in [Goroutine -> SUBSET Entries]
    /\ cur \in [Goroutine -> Currents]

UserTyped ==
    /\ manualOverrides \in [Zone -> ManualPercent \cup {Unset}]
    /\ req \in [Request -> Requests]

WorldTyped ==
    /\ safetyOnShutdown \in BOOLEAN
    /\ temp \in Reading \cup {NoReading}
    /\ active \subseteq Profile
    /\ writer \in [Zone -> {"none", "startup", "emergency", "cycle", "user",
                            "cleared", "identify", "park"}]

\* A cycle that writes or records has something to write, and a request that
\* is about to write or release a zone names one.
InHand ==
    /\ \A g \in Goroutine : pc[g] \in {"write", "record"} => cur[g] # NoCur
    /\ \A r \in Request :
           /\ req[r].op \in {"set", "cleared", "release"} => req[r].zone \in Zone
           /\ req[r].op = "set" => req[r].percent \in ManualPercent

ControllerOK ==
    LifeTyped /\ ThermalTyped /\ MemoryTyped /\ LoopTyped /\ UserTyped
        /\ WorldTyped /\ InHand

\* What a cycle decides for an entry of its plan is a duty for that channel.
LEMMA ToSendType ==
    ASSUME MemoryTyped, NEW e \in Entries
    PROVE  ToSend(e) \in Currents
<1>1. /\ e.zone \in Zone /\ e.owner \in Profile /\ e.target \in Percent
  BY DEF Entries
<1>2. e.target \in 0..100
  BY <1>1, PercentType
<1>3. /\ lastSpeeds[e.zone] \in 0..100 \cup {Unset}
      /\ age[e.zone] \in Nat \cup {Never}
  BY <1>1, MaxAgeType DEF MemoryTyped
<1>4. Final(Config[e.owner], e.target, lastSpeeds[e.zone],
            zoneTargetSpeeds[e.zone], age[e.zone]) \in 0..100
  BY <1>1, <1>2, <1>3, FinalType
<1> QED
  BY <1>1, <1>4 DEF ToSend, Currents

\* The first state.
LEMMA ControllerInit == Init => ControllerOK
<1> SUFFICES ASSUME Init PROVE ControllerOK
  OBVIOUS
<1>1. LifeTyped
  BY DEF Init, LifeTyped
<1>7. ThermalTyped
  <2>1. everSawTemp \in BOOLEAN /\ emergencyActive \in BOOLEAN
    BY DEF Init
  <2>2. noTempCycles \in 0..SensorLossCycles
    BY DEF Init, SensorLossCycles
  <2> QED
    BY <2>1, <2>2 DEF ThermalTyped
<1>2. MemoryTyped
  BY DEF Init, MemoryTyped
<1>3. LoopTyped
  BY DEF Init, LoopTyped, InStart, Currents
<1>4. UserTyped
  BY DEF Init, UserTyped, Requests, NoReq
<1>5. WorldTyped
  BY FanControlAssumption DEF Init, WorldTyped
<1>6. InHand
  BY DEF Init, InHand, NoReq
<1> QED
  BY <1>1, <1>2, <1>3, <1>4, <1>5, <1>6, <1>7 DEF ControllerOK

\* A step of Start.
LEMMA ControllerStarts ==
    ASSUME ControllerOK, NEW g \in Goroutine, Starting(g)
    PROVE  ControllerOK'
<1> USE DEF ControllerOK, LifeTyped, ThermalTyped, MemoryTyped, LoopTyped,
            UserTyped, WorldTyped, InHand, lifeVars, thermalVars, memoryVars,
            userVars, worldVars, loopVars, InStart, InCycle, InLoop
<1>1. CASE StartCalled(g)
  BY <1>1 DEF StartCalled
<1>2. CASE OpenControl(g)
  BY <1>2, FanControlAssumption DEF OpenControl
<1>3. CASE Launch(g)
  BY <1>3 DEF Launch
<1>4. CASE MakeStopCh(g)
  BY <1>4 DEF MakeStopCh
<1>5. CASE ApplyStartupSpeed(g)
  BY <1>5 DEF ApplyStartupSpeed, Wrote
<1> QED
  BY <1>1, <1>2, <1>3, <1>4, <1>5 DEF Starting

\* A step of a control cycle.
LEMMA ControllerCycles ==
    ASSUME ControllerOK, NEW g \in Goroutine, Cycling(g)
    PROVE  ControllerOK'
<1> USE DEF ControllerOK, LifeTyped, ThermalTyped, MemoryTyped, LoopTyped,
            UserTyped, WorldTyped, InHand, lifeVars, thermalVars, memoryVars,
            userVars, worldVars, loopVars, InStart, InCycle, InLoop
<1>1. CASE CycleDbError(g)
  BY <1>1 DEF CycleDbError, CycleBegins
<1>2. ASSUME NEW out \in OutcomeVectors, CycleEmergency(g, out) PROVE ControllerOK'
  BY <1>2 DEF CycleEmergency, CycleBegins, ForceAll, Wrote, SensorLossCycles
<1>3. ASSUME NEW out \in OutcomeVectors, CycleSensorsLost(g, out) PROVE ControllerOK'
  <2>1. CycleBegins(g) /\ ForceAll(g, out)
    BY <1>3 DEF CycleSensorsLost
  <2>2. everSawTemp' \in BOOLEAN /\ emergencyActive' \in BOOLEAN
    BY <1>3 DEF CycleSensorsLost, CycleBegins
  <2>3. noTempCycles' \in 0..SensorLossCycles
    BY <1>3 DEF CycleSensorsLost, SensorLossCycles
  <2> QED
    BY <2>1, <2>2, <2>3 DEF CycleBegins, ForceAll, Wrote
<1>4. CASE CyclePlan(g)
  <2>0. PICK duty \in Computed : \E entries \in Plans(duty) :
            /\ plan' = [plan EXCEPT ![g] = entries]
            /\ pc' = [pc EXCEPT ![g] = Resume(entries)]
    BY <1>4 DEF CyclePlan
  <2>1. PICK entries \in Plans(duty) :
            /\ plan' = [plan EXCEPT ![g] = entries]
            /\ pc' = [pc EXCEPT ![g] = Resume(entries)]
    BY <2>0
  <2>2. entries \in SUBSET Entries
    BY PlansType
  <2>3. Resume(entries) \in {"enter", "apply"}
    BY DEF Resume
  <2>4. LostCycles \in 0..SensorLossCycles
    BY <1>4 DEF CyclePlan, LostCycles, SensorLossCycles
  <2> QED
    BY <1>4, <2>1, <2>2, <2>3, <2>4 DEF CyclePlan, CycleBegins
<1>5. ASSUME NEW e \in plan[g], Decide(g, e) PROVE ControllerOK'
  <2>1. e \in Entries
    OBVIOUS
  <2>2. ToSend(e) \in Currents
    BY <2>1, ToSendType
  <2>3. \A rest : Resume(rest) \in {"enter", "apply"}
    BY DEF Resume
  <2> QED
    BY <1>5, <2>2, <2>3 DEF Decide
<1>6. ASSUME NEW o \in D!Outcomes, Write(g, o) PROVE ControllerOK'
  <2>1. Resume(plan[g]) \in {"enter", "apply"}
    BY DEF Resume
  <2> QED
    BY <1>6, <2>1 DEF Write, Currents
<1>7. CASE Record(g)
  <2>1. Resume(plan[g]) \in {"enter", "apply"}
    BY DEF Resume
  <2>2. cur[g] \in [zone : Zone, final : 0..100, target : Percent]
    BY <1>7 DEF Record, Currents
  <2>3. 0 \in 0..MaxAge
    BY MaxAgeType
  <2> QED
    BY <1>7, <2>1, <2>2, <2>3 DEF Record, Currents
<1> QED
  BY <1>1, <1>2, <1>3, <1>4, <1>5, <1>6, <1>7 DEF Cycling

\* A step of the loop around the cycles.
LEMMA ControllerLoops ==
    ASSUME ControllerOK, NEW g \in Goroutine, Looping(g)
    PROVE  ControllerOK'
<1> USE DEF ControllerOK, LifeTyped, ThermalTyped, MemoryTyped, LoopTyped,
            UserTyped, WorldTyped, InHand, lifeVars, thermalVars, memoryVars,
            userVars, worldVars, loopVars, InStart, InCycle, InLoop
<1>1. CASE EnterSelect(g)
  BY <1>1 DEF EnterSelect
<1>2. CASE LoopTick(g)
  BY <1>2 DEF LoopTick
<1>3. CASE LoopExit(g)
  BY <1>3 DEF LoopExit
<1>4. CASE RequestAnswered(g)
  BY <1>4 DEF RequestAnswered
<1> QED
  BY <1>1, <1>2, <1>3, <1>4 DEF Looping

\* A step of a request that stops the controller.
LEMMA ControllerStops ==
    ASSUME ControllerOK, NEW r \in Request, Stopping(r)
    PROVE  ControllerOK'
<1> USE DEF ControllerOK, LifeTyped, ThermalTyped, MemoryTyped, LoopTyped,
            UserTyped, WorldTyped, InHand, lifeVars, thermalVars, memoryVars,
            userVars, worldVars, loopVars, InStart, InCycle, InLoop
<1>1. ASSUME NEW safe \in BOOLEAN, StopCalled(r, safe) PROVE ControllerOK'
  BY <1>1 DEF StopCalled, NoReq, Requests
<1>2. CASE Halt(r)
  BY <1>2 DEF Halt, Requests
<1>3. CASE CloseStopCh(r)
  BY <1>3 DEF CloseStopCh, NoReq, Requests
<1>4. CASE Park(r)
  BY <1>4 DEF Park, Requests
<1>5. ASSUME NEW out \in OutcomeVectors, ParkAll(r, out) PROVE ControllerOK'
  BY <1>5 DEF ParkAll, Wrote, NoReq, Requests
<1>6. ASSUME NEW ok \in D!Released(touched), HandBack(r, ok) PROVE ControllerOK'
  BY <1>6 DEF HandBack, NoReq, Requests
<1> QED
  BY <1>1, <1>2, <1>3, <1>4, <1>5, <1>6 DEF Stopping

\* A step of a request that sets or clears a manual speed.
LEMMA ControllerOverrides ==
    ASSUME ControllerOK, NEW r \in Request, Overriding(r)
    PROVE  ControllerOK'
<1> USE DEF ControllerOK, LifeTyped, ThermalTyped, MemoryTyped, LoopTyped,
            UserTyped, WorldTyped, InHand, lifeVars, thermalVars, memoryVars,
            userVars, worldVars, loopVars, InStart, InCycle, InLoop
<1>1. ASSUME NEW z \in Zone, NEW percent \in ManualPercent, SetSpeed(r, z, percent)
      PROVE  ControllerOK'
  BY <1>1 DEF SetSpeed, NoReq, Requests
<1>2. ASSUME NEW o \in D!Outcomes, SetSpeedWrite(r, o) PROVE ControllerOK'
  BY <1>2 DEF SetSpeedWrite, NoReq, Requests
<1>3. ASSUME NEW z \in Zone, ClearSpeed(r, z) PROVE ControllerOK'
  BY <1>3 DEF ClearSpeed, MarkCleared, NoReq, Requests
<1>4. CASE ClearCheck(r)
  <2>1. \/ req' = [req EXCEPT ![r] = NoReq]
        \/ req' = [req EXCEPT ![r].op = "release"]
    BY <1>4 DEF ClearCheck
  <2>2. req[r].op = "cleared" /\ req[r].zone \in Zone
    BY <1>4 DEF ClearCheck
  <2>3. UNCHANGED <<lifeVars, thermalVars, memoryVars, loopVars, manualOverrides,
                    worldVars, writer, driverVars>>
    BY <1>4 DEF ClearCheck
  <2>4. CASE req' = [req EXCEPT ![r] = NoReq]
    BY <2>3, <2>4 DEF NoReq, Requests
  <2>5. CASE req' = [req EXCEPT ![r].op = "release"]
    BY <2>2, <2>3, <2>5 DEF Requests
  <2> QED
    BY <2>1, <2>4, <2>5
<1>5. ASSUME NEW ok \in D!Released({req[r].zone}), ClearRelease(r, ok)
      PROVE  ControllerOK'
  BY <1>5 DEF ClearRelease, NoReq, Requests
<1> QED
  BY <1>1, <1>2, <1>3, <1>4, <1>5 DEF Overriding

\* A step of an identification, of the sensors, of the users or of time.
LEMMA ControllerElsewhere ==
    ASSUME ControllerOK,
           (\E c \in Caller : Identifying(c)) \/ Outside \/ UNCHANGED vars
    PROVE  ControllerOK'
<1> USE DEF ControllerOK, LifeTyped, ThermalTyped, MemoryTyped, LoopTyped,
            UserTyped, WorldTyped, InHand, lifeVars, thermalVars, memoryVars,
            userVars, worldVars, loopVars, InStart, InCycle, InLoop
<1>1. ASSUME NEW c, NEW z \in Zone, NEW o \in D!Outcomes, IdentifyStart(c, z, o)
      PROVE  ControllerOK'
  BY <1>1 DEF IdentifyStart
<1>2. ASSUME NEW c, IdentifyEnd(c) PROVE ControllerOK'
  BY <1>2 DEF IdentifyEnd
<1>3. CASE SensorsChange
  BY <1>3 DEF SensorsChange
<1>4. ASSUME NEW p \in Profile, ProfileSwitched(p) PROVE ControllerOK'
  BY <1>4 DEF ProfileSwitched
<1>5. CASE TimePasses
  BY <1>5, MaxAgeType DEF TimePasses, Never
<1>6. ASSUME NEW z \in Zone, Expire(z) PROVE ControllerOK'
  BY <1>6 DEF Expire
<1>7. CASE UNCHANGED vars
  BY <1>7 DEF vars
<1> QED
  BY <1>1, <1>2, <1>3, <1>4, <1>5, <1>6, <1>7 DEF Identifying, Outside

\* The controller's fields, maps and goroutines keep their types, whatever the
\* driver does.
THEOREM ControllerTyped == Spec => []ControllerOK
<1>1. ControllerOK /\ [Next]_vars => ControllerOK'
  BY ControllerStarts, ControllerCycles, ControllerLoops, ControllerStops,
     ControllerOverrides, ControllerElsewhere DEF Next
<1> QED
  BY <1>1, ControllerInit, PTL DEF Spec

-----------------------------------------------------------------------------
(* The controller uses the driver as the driver allows: each of its steps  *)
(* is a call of a driver method, with a duty from 0 to 100 on a channel    *)
(* that is there, or leaves the driver alone.                              *)

\* A step of Start.
LEMMA DriverStarts ==
    ASSUME NEW g \in Goroutine, Starting(g)
    PROVE  D!Next \/ UNCHANGED D!vars
<1> USE DEF driverVars, D!vars
<1>1. CASE OpenControl(g)
  BY <1>1 DEF OpenControl, D!Next, D!SessionOpened, DriverEnv
<1>2. CASE ApplyStartupSpeed(g)
  <2>1. CASE StartupMode = "resume"
    BY <1>2, <2>1 DEF ApplyStartupSpeed
  <2>2. CASE StartupMode # "resume"
    <3>1. PICK out \in OutcomeVectors : D!SetAllFanSpeeds(StartupSpeed, out)
      BY <1>2, <2>2 DEF ApplyStartupSpeed
    <3> QED
      BY <3>1, StartupSpeedType
      DEF D!Next, D!SetAllFanSpeedsCalled, DriverEnv, OutcomeVectors
  <2> QED
    BY <2>1, <2>2
<1>3. CASE StartCalled(g) \/ Launch(g) \/ MakeStopCh(g)
  BY <1>3 DEF StartCalled, Launch, MakeStopCh
<1> QED
  BY <1>1, <1>2, <1>3 DEF Starting

\* A step of a control cycle.
LEMMA DriverCycles ==
    ASSUME ControllerOK, NEW g \in Goroutine, Cycling(g)
    PROVE  D!Next \/ UNCHANGED D!vars
<1> USE DEF driverVars, D!vars
<1>1. ASSUME NEW out \in OutcomeVectors, D!SetAllFanSpeeds(EmergencySpeed, out)
      PROVE  D!Next
  <2>1. EmergencySpeed \in 0..100
    BY FanControlAssumption
  <2> QED
    BY <1>1, <2>1 DEF D!Next, D!SetAllFanSpeedsCalled, DriverEnv, OutcomeVectors
<1>2. ASSUME NEW out \in OutcomeVectors, CycleEmergency(g, out) \/ CycleSensorsLost(g, out)
      PROVE  D!Next
  BY <1>1, <1>2 DEF CycleEmergency, CycleSensorsLost, ForceAll
<1>3. ASSUME NEW o \in D!Outcomes, Write(g, o) PROVE D!Next
  <2>1. cur[g] \in [zone : Zone, final : 0..100, target : Percent]
    BY <1>3 DEF Write, ControllerOK, LoopTyped, InHand, Currents
  <2>2. D!SetFanSpeed(cur[g].zone, cur[g].final, o)
    BY <1>3 DEF Write
  <2> QED
    BY <2>1, <2>2 DEF D!Next, D!SetFanSpeedCalled, DriverEnv
<1>4. CASE CycleDbError(g) \/ CyclePlan(g) \/ Record(g)
  BY <1>4 DEF CycleDbError, CyclePlan, Record
<1>5. ASSUME NEW e, Decide(g, e) PROVE UNCHANGED D!vars
  BY <1>5 DEF Decide
<1> QED
  BY <1>2, <1>3, <1>4, <1>5 DEF Cycling

\* A step of a request.
LEMMA DriverRequests ==
    ASSUME ControllerOK, NEW r \in Request, Stopping(r) \/ Overriding(r)
    PROVE  D!Next \/ UNCHANGED D!vars
<1> USE DEF driverVars, D!vars
<1>1. CASE Park(r)
  BY <1>1 DEF Park, D!Next, D!SessionOpened, DriverEnv
<1>2. ASSUME NEW out \in OutcomeVectors, ParkAll(r, out) PROVE D!Next
  <2>1. D!SetAllFanSpeeds(100, out) /\ 100 \in 0..100
    BY <1>2 DEF ParkAll
  <2> QED
    BY <2>1 DEF D!Next, D!SetAllFanSpeedsCalled, DriverEnv, OutcomeVectors
<1>3. ASSUME NEW ok \in D!Released(touched), HandBack(r, ok) PROVE D!Next
  BY <1>3 DEF HandBack, D!Next, D!SessionClosed, DriverEnv
<1>4. ASSUME NEW o \in D!Outcomes, SetSpeedWrite(r, o) PROVE D!Next
  <2>1. req[r].zone \in Zone /\ req[r].percent \in 0..100
    BY <1>4, FanControlAssumption DEF SetSpeedWrite, ControllerOK, InHand
  <2>2. D!SetFanSpeed(req[r].zone, req[r].percent, o)
    BY <1>4 DEF SetSpeedWrite
  <2> QED
    BY <2>1, <2>2 DEF D!Next, D!SetFanSpeedCalled, DriverEnv
<1>5. ASSUME NEW ok \in D!Released({req[r].zone}), ClearRelease(r, ok) PROVE D!Next
  <2>1. req[r].zone \in Zone
    BY <1>5 DEF ClearRelease, ControllerOK, InHand
  <2>2. D!ReleaseZone(ok)
    BY <1>5 DEF ClearRelease
  <2> QED
    BY <2>1, <2>2 DEF D!Next, D!ZoneReleased, DriverEnv
<1>6. ASSUME NEW safe, StopCalled(r, safe) PROVE UNCHANGED D!vars
  BY <1>6 DEF StopCalled
<1>7. ASSUME NEW z, NEW percent, SetSpeed(r, z, percent) \/ ClearSpeed(r, z)
      PROVE  UNCHANGED D!vars
  BY <1>7 DEF SetSpeed, ClearSpeed
<1>8. CASE Halt(r) \/ CloseStopCh(r) \/ ClearCheck(r)
  BY <1>8 DEF Halt, CloseStopCh, ClearCheck
<1> QED
  BY <1>1, <1>2, <1>3, <1>4, <1>5, <1>6, <1>7, <1>8 DEF Stopping, Overriding

\* A step of an identification, and everything else.
LEMMA DriverElsewhere ==
    ASSUME \/ \E g \in Goroutine : Looping(g)
           \/ \E c \in Caller : Identifying(c)
           \/ Outside \/ UNCHANGED vars
    PROVE  D!Next \/ UNCHANGED D!vars
<1> USE DEF driverVars, D!vars
<1>1. ASSUME NEW g, Looping(g) PROVE UNCHANGED D!vars
  BY <1>1 DEF Looping, EnterSelect, LoopTick, LoopExit, RequestAnswered
<1>2. ASSUME NEW c \in Caller, NEW z \in Zone, NEW o \in D!Outcomes,
             IdentifyStart(c, z, o)
      PROVE  D!Next
  BY <1>2 DEF IdentifyStart, D!Next, D!IdentifyStarted, DriverEnv
<1>3. ASSUME NEW c \in Caller, IdentifyEnd(c) PROVE D!Next
  BY <1>3 DEF IdentifyEnd, D!Next, D!IdentifyRestored, D!IdentifyReleased
<1>4. CASE Outside
  BY <1>4 DEF Outside, SensorsChange, ProfileSwitched, TimePasses, Expire
<1>5. CASE UNCHANGED vars
  BY <1>5 DEF vars
<1> QED
  BY <1>1, <1>2, <1>3, <1>4, <1>5 DEF Identifying

\* The controller with everything around it is a user of the driver.
THEOREM DriverImplemented == Spec => D!Spec
<1>1. Init => D!Init
  BY DEF Init
<1>2. ControllerOK /\ [Next]_vars => [D!Next]_D!vars
  BY DriverStarts, DriverCycles, DriverRequests, DriverElsewhere DEF Next
<1> QED
  BY <1>1, <1>2, ControllerTyped, PTL DEF Spec, D!Spec

-----------------------------------------------------------------------------
(* So everything proved of the driver holds of the driver in this program. *)

\* HwmonDriver is instantiated twice with the same parameters, by FanControl
\* and by the module of its theorems.
LEMMA SameDriver == D!Spec <=> DP!Spec
<1> USE DEF D!PctToPwm, DP!PctToPwm, D!PwmToPct, DP!PwmToPct, D!Clamp, DP!Clamp,
            D!PwmMax, DP!PwmMax, D!NoPwm, DP!NoPwm, D!Idle, DP!Idle,
            D!Outcomes, DP!Outcomes, D!Possible, DP!Possible,
            D!Released, DP!Released, D!ReleaseMode, DP!ReleaseMode,
            D!SetChannels, DP!SetChannels, D!ReleaseChannels, DP!ReleaseChannels,
            D!chanVars, DP!chanVars
<1>1. D!Init <=> DP!Init
  BY DEF D!Init, DP!Init
<1>2. D!SetFanSpeedCalled <=> DP!SetFanSpeedCalled
  BY DEF D!SetFanSpeedCalled, DP!SetFanSpeedCalled, D!SetFanSpeed, DP!SetFanSpeed
<1>3. D!SetAllFanSpeedsCalled <=> DP!SetAllFanSpeedsCalled
  BY DEF D!SetAllFanSpeedsCalled, DP!SetAllFanSpeedsCalled,
         D!SetAllFanSpeeds, DP!SetAllFanSpeeds
<1>4. (D!SessionOpened <=> DP!SessionOpened) /\ (D!SessionClosed <=> DP!SessionClosed)
  BY DEF D!SessionOpened, DP!SessionOpened, D!OpenSession, DP!OpenSession,
         D!SessionClosed, DP!SessionClosed, D!CloseSession, DP!CloseSession
<1>5. D!ZoneReleased <=> DP!ZoneReleased
  BY DEF D!ZoneReleased, DP!ZoneReleased, D!ReleaseZone, DP!ReleaseZone
<1>6. D!IdentifyStarted <=> DP!IdentifyStarted
  BY DEF D!IdentifyStarted, DP!IdentifyStarted, D!IdentifyStart, DP!IdentifyStart
<1>7. /\ D!IdentifyRestored <=> DP!IdentifyRestored
      /\ D!IdentifyReleased <=> DP!IdentifyReleased
  BY DEF D!IdentifyRestored, DP!IdentifyRestored, D!IdentifyRestore, DP!IdentifyRestore,
         D!IdentifyReleased, DP!IdentifyReleased, D!IdentifyRelease, DP!IdentifyRelease
<1>8. D!ReadingsPolled <=> DP!ReadingsPolled
  BY DEF D!ReadingsPolled, DP!ReadingsPolled, D!GetFanReadings, DP!GetFanReadings,
         D!Disagrees, DP!Disagrees, D!ReadbackTolerance, DP!ReadbackTolerance,
         D!OverrideAfter, DP!OverrideAfter
<1>9. /\ D!GraceElapsed <=> DP!GraceElapsed
      /\ D!FirmwareWrote <=> DP!FirmwareWrote
      /\ D!Restarted <=> DP!Restarted
  BY DEF D!GraceElapsed, DP!GraceElapsed, D!Settle, DP!Settle,
         D!FirmwareWrote, DP!FirmwareWrote, D!FirmwareWrites, DP!FirmwareWrites,
         D!Restarted, DP!Restarted, D!Restart, DP!Restart
<1>10. (D!Next <=> DP!Next) /\ (UNCHANGED D!vars <=> UNCHANGED DP!vars)
  BY <1>2, <1>3, <1>4, <1>5, <1>6, <1>7, <1>8, <1>9
  DEF D!Next, DP!Next, D!vars, DP!vars
<1>11. [D!Next]_D!vars <=> [DP!Next]_DP!vars
  BY <1>10
<1> QED
  BY <1>1, <1>11, PTL DEF D!Spec, DP!Spec

\* Whatever the controller, the requests and the identifications do in whatever
\* order, the driver's bookkeeping agrees with itself and with the chip, manual
\* mode is not left behind where duty writes do not fail, and no false alarm is
\* raised.
THEOREM DriverSafe ==
    Spec => [](D!TypeOK /\ D!OwnershipConsistent /\ D!NothingLeftManual /\ D!NoFalseAlarm)
<1>1. DP!Spec => []DP!TypeOK
  BY DriverAssumed, DP!TypeCorrect, PTL
<1>2. DP!Spec => []DP!OwnershipConsistent
  BY DriverAssumed, DP!OwnershipCorrect, PTL
<1>3. DP!Spec => []DP!NothingLeftManual
  BY DriverAssumed, DP!NothingLeftManualCorrect, PTL
<1>4. DP!Spec => []DP!NoFalseAlarm
  BY DriverAssumed, DP!NoFalseAlarmCorrect, PTL
<1>5. DP!TypeOK => D!TypeOK
  BY DEF D!TypeOK, DP!TypeOK, D!EnableMode, DP!EnableMode, D!Pwm, DP!Pwm,
         D!PwmMax, DP!PwmMax, D!NoPwm, DP!NoPwm, D!OverrideAfter, DP!OverrideAfter,
         D!IdentCall, DP!IdentCall, D!Idle, DP!Idle
<1>6. /\ DP!OwnershipConsistent => D!OwnershipConsistent
      /\ DP!NothingLeftManual => D!NothingLeftManual
      /\ DP!NoFalseAlarm => D!NoFalseAlarm
  BY DEF D!OwnershipConsistent, DP!OwnershipConsistent, D!NoPwm, DP!NoPwm,
         D!NothingLeftManual, DP!NothingLeftManual, D!NoFalseAlarm, DP!NoFalseAlarm
<1> QED
  BY <1>1, <1>2, <1>3, <1>4, <1>5, <1>6, DriverImplemented, SameDriver, PTL

\* The controller, its goroutines and its driver keep their types; what is sent
\* stays within 0..100 through smoothing.
THEOREM TypeCorrect == Spec => []TypeOK
<1>1. ControllerOK /\ D!TypeOK => TypeOK
  BY DEF ControllerOK, LifeTyped, ThermalTyped, MemoryTyped, LoopTyped, UserTyped,
         WorldTyped, TypeOK
<1> QED
  BY <1>1, ControllerTyped, DriverSafe, PTL

-----------------------------------------------------------------------------
(* A controller that reports that it runs has a loop.                      *)

\* A goroutine that waits on a channel is in its select.
Waiting == \A g \in Goroutine : pc[g] # "select" => watch[g] = Unset

\* g will wait, or waits, on the stop channel the controller holds.
Serves(g) ==
    \/ pc[g] = "channel"
    \/ /\ pc[g] \in {"startup"} \cup InCycle \cup InLoop
       /\ watch[g] \in {Unset, stopCh}

\* The loop of RunningHasLoop is one that a stop will reach: this is what a
\* start, which replaces the stop channel under every other loop, preserves.
LoopServes ==
    running /\ stopCh \notin closed /\ ctxDone = {} => \E g \in Goroutine : Serves(g)

\* A step of a goroutine.
LEMMA GoroutineServes ==
    ASSUME ControllerOK, Waiting, LoopServes,
           NEW g \in Goroutine, Starting(g) \/ Cycling(g) \/ Looping(g)
    PROVE  Waiting' /\ LoopServes'
<1> USE DEF ControllerOK, LifeTyped, LoopTyped, Waiting, Serves, LoopServes,
            lifeVars, loopVars, InStart, InCycle, InLoop
<1>1. CASE StartCalled(g)
  BY <1>1 DEF StartCalled
<1>2. CASE OpenControl(g)
  BY <1>2 DEF OpenControl
<1>3. CASE Launch(g)
  BY <1>3 DEF Launch
<1>4. CASE MakeStopCh(g)
  BY <1>4 DEF MakeStopCh
<1>5. CASE ApplyStartupSpeed(g)
  BY <1>5 DEF ApplyStartupSpeed
<1>6. CASE Cycling(g)
  <2>1. /\ UNCHANGED lifeVars /\ watch' = watch
        /\ pc[g] \in InCycle /\ pc' = [pc EXCEPT ![g] = pc'[g]]
        /\ pc'[g] \in InCycle \cup {"enter"}
    BY <1>6 DEF Cycling, CycleDbError, CycleEmergency, CycleSensorsLost, ForceAll,
                CyclePlan, CycleBegins, Decide, Write, Record, Resume
  <2> QED
    BY <2>1
<1>7. CASE EnterSelect(g)
  BY <1>7 DEF EnterSelect
<1>8. CASE LoopTick(g)
  BY <1>8 DEF LoopTick
<1>9. CASE LoopExit(g)
  <2>1. Waiting'
    BY <1>9 DEF LoopExit
  <2>2. ASSUME running, stopCh \notin closed, ctxDone = {}
        PROVE  \E h \in Goroutine : Serves(h)'
    <3>1. PICK h \in Goroutine : Serves(h)
      BY <2>2
    <3>2. watch[g] \in closed /\ watch[g] # stopCh /\ watch[g] # Unset
      BY <1>9, <2>2 DEF LoopExit, Unset
    <3>3. h # g
      BY <1>9, <3>1, <3>2 DEF LoopExit
    <3> QED
      BY <1>9, <3>1, <3>3 DEF LoopExit
  <2> QED
    BY <1>9, <2>1, <2>2 DEF LoopExit
<1>10. CASE RequestAnswered(g)
  BY <1>10 DEF RequestAnswered
<1> QED
  BY <1>1, <1>2, <1>3, <1>4, <1>5, <1>6, <1>7, <1>8, <1>9, <1>10
  DEF Starting, Looping

\* A step of a request, of an identification, or outside.
LEMMA OthersServe ==
    ASSUME ControllerOK, Waiting, LoopServes,
           \/ \E r \in Request : Stopping(r) \/ Overriding(r)
           \/ \E c \in Caller : Identifying(c)
           \/ Outside \/ UNCHANGED vars
    PROVE  Waiting' /\ LoopServes'
<1> USE DEF Waiting, Serves, LoopServes, lifeVars, loopVars
<1>1. ASSUME NEW r, CloseStopCh(r) \/ Halt(r) PROVE Waiting' /\ LoopServes'
  BY <1>1 DEF CloseStopCh, Halt
<1>2. ASSUME UNCHANGED <<lifeVars, loopVars>> PROVE Waiting' /\ LoopServes'
  BY <1>2
<1>3. ASSUME NEW r, Stopping(r), ~CloseStopCh(r), ~Halt(r)
      PROVE  UNCHANGED <<lifeVars, loopVars>>
  BY <1>3 DEF Stopping, StopCalled, Park, ParkAll, HandBack
<1>4. ASSUME NEW r, Overriding(r) PROVE UNCHANGED <<lifeVars, loopVars>>
  BY <1>4 DEF Overriding, SetSpeed, SetSpeedWrite, ClearSpeed, ClearCheck, ClearRelease
<1>5. ASSUME NEW c, Identifying(c) PROVE UNCHANGED <<lifeVars, loopVars>>
  BY <1>5 DEF Identifying, IdentifyStart, IdentifyEnd
<1>6. CASE Outside
  BY <1>2, <1>6 DEF Outside, SensorsChange, ProfileSwitched, TimePasses, Expire
<1>7. CASE UNCHANGED vars
  BY <1>2, <1>7 DEF vars
<1> QED
  BY <1>1, <1>2, <1>3, <1>4, <1>5, <1>6, <1>7

\* Whatever starts and stops went before or meet.
THEOREM RunningHasLoopCorrect == Spec => []RunningHasLoop
<1>1. Init => Waiting /\ LoopServes
  BY DEF Init, Waiting, LoopServes
<1>2. ControllerOK /\ Waiting /\ LoopServes /\ [Next]_vars => Waiting' /\ LoopServes'
  BY GoroutineServes, OthersServe DEF Next
<1>3. LoopServes => RunningHasLoop
  BY DEF LoopServes, RunningHasLoop, Serves, InCycle, InLoop
<1> QED
  BY <1>1, <1>2, <1>3, ControllerTyped, PTL DEF Spec

-----------------------------------------------------------------------------
(* What the controller has on record is what it last sent.                 *)

\* No two loops are between writing one channel and recording it.  Two loops
\* can only meet there when the controller is started again while the cycle of
\* a stopped loop still runs.
OneRecorder ==
    \A g, h \in Goroutine :
        pc[g] = "record" /\ pc[h] = "record" /\ cur[g].zone = cur[h].zone => g = h

\* What a cycle is about to record is what it wrote, unless somebody else wrote
\* the channel since.
WrittenIsCommanded ==
    \A g \in Goroutine :
        pc[g] = "record" /\ writer[cur[g].zone] = "cycle" =>
            commanded[cur[g].zone] = D!PctToPwm(cur[g].final)

\* Every other step leaves a channel that a cycle wrote alone, or marks it as
\* written by somebody else; it changes no record, except to forget it.
RecordsKept ==
    /\ \A z \in Zone : writer'[z] = "cycle" =>
           /\ writer[z] = "cycle" /\ commanded'[z] = commanded[z]
           /\ lastSpeeds'[z] \in {lastSpeeds[z], Unset}
    /\ \A g \in Goroutine : pc'[g] = "record" <=> pc[g] = "record"
    /\ \A g \in Goroutine : pc[g] = "record" => cur'[g] = cur[g]

\* A write of all channels marks those it reached.
LEMMA WroteKeeps ==
    ASSUME WorldTyped, NEW who, who # "cycle", NEW p, NEW out,
           D!SetAllFanSpeeds(p, out), Wrote(who, out)
    PROVE  \A z \in Zone : writer'[z] = "cycle" =>
               writer[z] = "cycle" /\ commanded'[z] = commanded[z]
  BY DEF WorldTyped, Wrote, D!SetAllFanSpeeds, D!SetChannels

\* A step of a goroutine, the write of a channel and its record apart.
LEMMA GoroutineKeeps ==
    ASSUME ControllerOK, NEW g \in Goroutine, Starting(g) \/ Cycling(g) \/ Looping(g),
           ~Write(g, "ok"), ~Record(g)
    PROVE  RecordsKept
<1> USE DEF ControllerOK, LoopTyped, WorldTyped, RecordsKept, memoryVars, loopVars,
            driverVars
<1>1. CASE StartCalled(g) \/ Launch(g) \/ MakeStopCh(g)
  BY <1>1 DEF StartCalled, Launch, MakeStopCh
<1>2. CASE OpenControl(g)
  BY <1>2 DEF OpenControl, D!OpenSession, D!chanVars
<1>3. CASE ApplyStartupSpeed(g)
  <2>1. CASE StartupMode = "resume"
    BY <1>3, <2>1 DEF ApplyStartupSpeed
  <2>2. CASE StartupMode # "resume"
    <3>1. PICK out \in OutcomeVectors :
              D!SetAllFanSpeeds(StartupSpeed, out) /\ Wrote("startup", out)
      BY <1>3, <2>2 DEF ApplyStartupSpeed
    <3> QED
      BY <1>3, <3>1, WroteKeeps DEF ApplyStartupSpeed
  <2> QED
    BY <2>1, <2>2
<1>4. CASE CycleDbError(g) \/ CyclePlan(g)
  BY <1>4 DEF CycleDbError, CyclePlan, CycleBegins, Resume
<1>5. ASSUME NEW out \in OutcomeVectors, CycleEmergency(g, out) \/ CycleSensorsLost(g, out)
      PROVE  RecordsKept
  <2>1. CycleBegins(g) /\ ForceAll(g, out)
    BY <1>5 DEF CycleEmergency, CycleSensorsLost
  <2> QED
    BY <2>1, WroteKeeps DEF CycleBegins, ForceAll
<1>6. ASSUME NEW e \in plan[g], Decide(g, e) PROVE RecordsKept
  BY <1>6 DEF Decide, Resume
<1>7. ASSUME NEW o \in D!Outcomes, Write(g, o) PROVE RecordsKept
  <2>1. o # "ok"
    BY <1>7
  <2> QED
    BY <1>7, <2>1 DEF Write, Resume, D!SetFanSpeed, D!SetChannels
<1>8. CASE Looping(g)
  BY <1>8 DEF Looping, EnterSelect, LoopTick, LoopExit, RequestAnswered
<1> QED
  BY <1>1, <1>2, <1>3, <1>4, <1>5, <1>6, <1>7, <1>8 DEF Starting, Cycling

\* A step of a request.
LEMMA RequestKeeps ==
    ASSUME ControllerOK, NEW r \in Request, Stopping(r) \/ Overriding(r)
    PROVE  RecordsKept
<1> USE DEF ControllerOK, MemoryTyped, WorldTyped, RecordsKept, memoryVars, loopVars,
            driverVars
<1>1. CASE Halt(r) \/ CloseStopCh(r) \/ ClearCheck(r)
  BY <1>1 DEF Halt, CloseStopCh, ClearCheck
<1>2. ASSUME NEW safe, StopCalled(r, safe) PROVE RecordsKept
  BY <1>2 DEF StopCalled
<1>3. CASE Park(r)
  BY <1>3 DEF Park, D!OpenSession, D!chanVars
<1>4. ASSUME NEW out \in OutcomeVectors, ParkAll(r, out) PROVE RecordsKept
  BY <1>4, WroteKeeps DEF ParkAll
<1>5. ASSUME NEW ok, HandBack(r, ok) PROVE RecordsKept
  BY <1>5 DEF HandBack, D!CloseSession, D!ReleaseChannels
<1>6. ASSUME NEW z \in Zone, NEW percent, SetSpeed(r, z, percent) PROVE RecordsKept
  BY <1>6 DEF SetSpeed
<1>7. ASSUME NEW o \in D!Outcomes, SetSpeedWrite(r, o) PROVE RecordsKept
  BY <1>7 DEF SetSpeedWrite, D!SetFanSpeed, D!SetChannels
<1>8. ASSUME NEW z \in Zone, ClearSpeed(r, z) PROVE RecordsKept
  BY <1>8 DEF ClearSpeed, MarkCleared
<1>9. ASSUME NEW ok, ClearRelease(r, ok) PROVE RecordsKept
  BY <1>9 DEF ClearRelease, D!ReleaseZone, D!ReleaseChannels
<1> QED
  BY <1>1, <1>2, <1>3, <1>4, <1>5, <1>6, <1>7, <1>8, <1>9 DEF Stopping, Overriding

\* A step of an identification, or outside.
LEMMA ElsewhereKeeps ==
    ASSUME ControllerOK,
           (\E c \in Caller : Identifying(c)) \/ Outside \/ UNCHANGED vars
    PROVE  RecordsKept
<1> USE DEF ControllerOK, MemoryTyped, WorldTyped, RecordsKept, memoryVars, loopVars,
            driverVars
<1>1. ASSUME NEW c, NEW z \in Zone, NEW o \in D!Outcomes, IdentifyStart(c, z, o)
      PROVE  RecordsKept
  BY <1>1 DEF IdentifyStart, D!IdentifyStart, D!SetChannels
<1>2. ASSUME NEW c, IdentifyEnd(c) PROVE RecordsKept
  <2>1. CASE \E o \in D!Outcomes :
                /\ D!IdentifyRestore(c, o)
                /\ writer' = IF o = "ok"
                             THEN [writer EXCEPT ![ident[c].zone] = "identify"] ELSE writer
    BY <1>2, <2>1 DEF IdentifyEnd, D!IdentifyRestore, D!SetChannels
  <2>2. CASE \E ok \in D!Released({ident[c].zone}) :
                /\ D!IdentifyRelease(c, ok)
                /\ writer' = [z \in Zone |-> IF z \in ok THEN "none" ELSE writer[z]]
    BY <1>2, <2>2 DEF IdentifyEnd, D!IdentifyRelease, D!ReleaseChannels
  <2> QED
    BY <1>2, <2>1, <2>2 DEF IdentifyEnd
<1>3. CASE Outside
  BY <1>3 DEF Outside, SensorsChange, ProfileSwitched, TimePasses, Expire
<1>4. CASE UNCHANGED vars
  BY <1>4 DEF vars
<1> QED
  BY <1>1, <1>2, <1>3, <1>4 DEF Identifying

\* Writing a channel, recording it and everything else keep the record true.
LEMMA RecordStep ==
    ASSUME ControllerOK, WrittenIsCommanded, RecordedIsCommanded, OneRecorder',
           [Next]_vars
    PROVE  WrittenIsCommanded' /\ RecordedIsCommanded'
<1> USE DEF WrittenIsCommanded, RecordedIsCommanded, Recording
<1>1. ASSUME NEW g \in Goroutine, Write(g, "ok")
      PROVE  WrittenIsCommanded' /\ RecordedIsCommanded'
  <2> DEFINE z == cur[g].zone
             w == D!PctToPwm(cur[g].final)
  <2>1. z \in Zone
    BY <1>1 DEF Write, ControllerOK, InHand, LoopTyped, Currents
  <2>2. /\ pc' = [pc EXCEPT ![g] = "record"] /\ cur' = cur
        /\ writer' = [writer EXCEPT ![z] = "cycle"] /\ lastSpeeds' = lastSpeeds
    BY <1>1 DEF Write, memoryVars
  <2>3. D!SetChannels({z}, cur[g].final, [x \in Zone |-> "ok"])
    BY <1>1 DEF Write, D!SetFanSpeed
  <2> HIDE DEF z, w
  <2>4. commanded' = [x \in Zone |-> IF x = z THEN w ELSE commanded[x]]
    BY <2>1, <2>3 DEF D!SetChannels, w
  <2>5. pc'[g] = "record" /\ \A h \in Goroutine \ {g} : pc'[h] = pc[h]
    BY <2>2 DEF ControllerOK, LoopTyped
  <2>6. /\ writer'[z] = "cycle"
        /\ \A x \in Zone \ {z} : writer'[x] = writer[x]
    BY <2>1, <2>2 DEF ControllerOK, WorldTyped
  <2>7. ASSUME NEW h \in Goroutine, pc'[h] = "record", writer'[cur'[h].zone] = "cycle"
        PROVE  commanded'[cur'[h].zone] = D!PctToPwm(cur'[h].final)
    <3>1. cur[h].zone \in Zone
      <4>1. pc[h] \in {"write", "record"}
        BY <1>1, <2>5, <2>7 DEF Write
      <4> QED
        BY <4>1 DEF ControllerOK, InHand, LoopTyped, Currents
    <3>2. CASE h = g
      BY <2>1, <2>2, <2>4, <3>2 DEF z, w
    <3>3. CASE h # g
      <4>1. cur[h].zone # z
        BY <2>2, <2>5, <2>7, <3>3 DEF OneRecorder, z
      <4> QED
        BY <2>2, <2>4, <2>5, <2>6, <2>7, <3>1, <3>3, <4>1
    <3> QED
      BY <3>2, <3>3
  <2>8. ASSUME NEW x \in Zone, lastSpeeds'[x] # Unset, writer'[x] = "cycle", ~Recording(x)'
        PROVE  commanded'[x] = D!PctToPwm(lastSpeeds'[x])
    <3>1. x # z
      BY <2>2, <2>5, <2>8 DEF z
    <3>2. ~Recording(x)
      <4> SUFFICES ASSUME NEW h \in Goroutine, pc[h] = "record", cur[h].zone = x
                   PROVE  FALSE
        OBVIOUS
      <4>1. h # g
        BY <1>1 DEF Write
      <4> QED
        BY <2>2, <2>5, <2>8, <4>1
    <3> QED
      BY <2>2, <2>4, <2>6, <2>8, <3>1, <3>2
  <2> QED
    BY <2>7, <2>8
<1>2. ASSUME NEW g \in Goroutine, Record(g)
      PROVE  WrittenIsCommanded' /\ RecordedIsCommanded'
  <2> DEFINE z == cur[g].zone
  <2>1. z \in Zone /\ pc[g] = "record"
    BY <1>2 DEF Record, ControllerOK, InHand, LoopTyped, Currents
  <2>2. /\ lastSpeeds' = [lastSpeeds EXCEPT ![z] = cur[g].final]
        /\ cur' = [cur EXCEPT ![g] = NoCur] /\ pc' = [pc EXCEPT ![g] = Resume(plan[g])]
        /\ writer' = writer /\ commanded' = commanded
    BY <1>2 DEF Record, driverVars
  <2>3. /\ \A h \in Goroutine \ {g} : pc'[h] = pc[h] /\ cur'[h] = cur[h]
        /\ pc'[g] # "record"
    BY <2>2 DEF ControllerOK, LoopTyped, Resume
  <2>4. /\ lastSpeeds'[z] = cur[g].final
        /\ \A x \in Zone \ {z} : lastSpeeds'[x] = lastSpeeds[x]
    BY <2>1, <2>2 DEF ControllerOK, MemoryTyped
  <2>5. writer[z] = "cycle" => commanded[z] = D!PctToPwm(cur[g].final)
    BY <2>1
  <2>6. WrittenIsCommanded'
    BY <2>2, <2>3
  <2> HIDE DEF z
  <2>7. ASSUME NEW x \in Zone, lastSpeeds'[x] # Unset, writer'[x] = "cycle", ~Recording(x)'
        PROVE  commanded'[x] = D!PctToPwm(lastSpeeds'[x])
    <3>1. CASE x = z
      BY <2>2, <2>4, <2>5, <2>7, <3>1
    <3>2. CASE x # z
      <4>1. ~Recording(x)
        BY <2>3, <2>7, <3>2 DEF z
      <4> QED
        BY <2>2, <2>4, <2>7, <3>2, <4>1
    <3> QED
      BY <3>1, <3>2
  <2> QED
    BY <2>6, <2>7
<1>3. ASSUME RecordsKept PROVE WrittenIsCommanded' /\ RecordedIsCommanded'
  <2>1. \A g \in Goroutine : pc[g] = "record" => cur[g].zone \in Zone
    BY DEF ControllerOK, InHand, LoopTyped, Currents
  <2>2. WrittenIsCommanded'
    BY <1>3, <2>1 DEF RecordsKept
  <2>3. \A x \in Zone : Recording(x)' <=> Recording(x)
    BY <1>3 DEF RecordsKept
  <2> HIDE DEF Recording
  <2>4. RecordedIsCommanded'
    BY <1>3, <2>3 DEF RecordsKept
  <2> QED
    BY <2>2, <2>4
<1> QED
  BY <1>1, <1>2, <1>3, GoroutineKeeps, RequestKeeps, ElsewhereKeeps DEF Next

\* What the controller believes it last sent is what the driver last wrote, in
\* every behaviour in which no two loops meet on a channel.
THEOREM RecordedCorrect == Spec /\ []OneRecorder => []RecordedIsCommanded
<1>1. Init => WrittenIsCommanded /\ RecordedIsCommanded
  BY DEF Init, WrittenIsCommanded, RecordedIsCommanded
<1> QED
  BY <1>1, RecordStep, ControllerTyped, PTL DEF Spec

\* As long as nobody starts the controller again, no two loops do: the program
\* starts one loop itself.
THEOREM RecordedWithoutStarts ==
    ASSUME "start" \notin World
    PROVE  Spec => []RecordedIsCommanded
<1> DEFINE OnlyMain == \A g \in Handler : pc[g] = "off"
<1>1. Init => OnlyMain
  BY FanControlAssumption DEF Init, Goroutine
<1>2. ControllerOK /\ OnlyMain /\ [Next]_vars => OnlyMain'
  <2> SUFFICES ASSUME ControllerOK, OnlyMain, [Next]_vars, NEW h \in Handler
               PROVE  pc'[h] = "off"
    OBVIOUS
  <2>1. h \in Goroutine /\ pc[h] = "off"
    BY DEF Goroutine
  <2>2. ASSUME NEW g \in Goroutine, Starting(g) \/ Cycling(g) \/ Looping(g)
        PROVE  pc'[h] = pc[h]
    <3>1. pc' = pc \/ (pc[g] # "off" /\ \E v : pc' = [pc EXCEPT ![g] = v])
      BY <2>2 DEF Starting, StartCalled, OpenControl, Launch, MakeStopCh,
                  ApplyStartupSpeed, Cycling, CycleDbError, CycleEmergency,
                  CycleSensorsLost, ForceAll, CyclePlan, CycleBegins, Decide, Write,
                  Record, Looping, EnterSelect, LoopTick, LoopExit, RequestAnswered,
                  loopVars
    <3> QED
      BY <2>1, <3>1 DEF ControllerOK, LoopTyped
  <2>3. ASSUME NEW r, Stopping(r) \/ Overriding(r) PROVE pc' = pc
    BY <2>3 DEF Stopping, StopCalled, Halt, CloseStopCh, Park, ParkAll, HandBack,
                Overriding, SetSpeed, SetSpeedWrite, ClearSpeed, ClearCheck,
                ClearRelease, loopVars
  <2>4. ASSUME NEW c, Identifying(c) PROVE pc' = pc
    BY <2>4 DEF Identifying, IdentifyStart, IdentifyEnd, loopVars
  <2>5. CASE Outside \/ UNCHANGED vars
    BY <2>5 DEF Outside, SensorsChange, ProfileSwitched, TimePasses, Expire, vars,
                loopVars
  <2> QED
    BY <2>1, <2>2, <2>3, <2>4, <2>5 DEF Next
<1>3. OnlyMain => OneRecorder
  BY DEF OneRecorder, Goroutine
<1> QED
  BY <1>1, <1>2, <1>3, RecordedCorrect, ControllerTyped, PTL DEF Spec
=============================================================================
