------------------------------- MODULE Curves -------------------------------
(***************************************************************************)
(* From what the sensors show to a duty: the input value of a profile      *)
(* (services/controller.go), the fan curves (package algorithms), and what *)
(* the profile validator accepts (services/validation.go).                 *)
(*                                                                         *)
(* Temperatures, gains and hysteresis are in tenths, loads and speeds in   *)
(* percent.  A profile's settings are a record with the fields             *)
(*   algorithm    "linear", "step" or "pid"                                *)
(*   params       the AlgorithmParams: a function on the keys that are     *)
(*                there and have the type the code expects                 *)
(*   hysteresis   the smallest change of the input that counts             *)
(*   inputs       the weight of each sensor the profile listens to         *)
(* and a reading is a function on the sensors that have a value.           *)
(***************************************************************************)
EXTENDS Integers, Sequences, FiniteSetsExt, Functions

CONSTANT LoadSensor  \* the sensors that report a load, not a temperature

Clamp(value, min, max) ==
    IF value < min THEN min ELSE IF value > max THEN max ELSE value

Param(params, key, default) ==
    IF key \in DOMAIN params THEN params[key] ELSE default

MinSpeed(params) == Param(params, "min_speed", 30)
MaxSpeed(params) == Param(params, "max_speed", 100)

-----------------------------------------------------------------------------
(* The input value.                                                        *)

Temps(params) == {params.steps[i].temp : i \in DOMAIN params.steps}

DefaultAxis == [lo |-> 300, hi |-> 800]

\* The stretch of temperatures a profile's curve maps to speeds.
Axis(settings) ==
    LET p == settings.params
        ends == CASE settings.algorithm = "step" ->
                         IF "steps" \in DOMAIN p /\ p.steps # <<>>
                         THEN [lo |-> Min(Temps(p)), hi |-> Max(Temps(p))]
                         ELSE DefaultAxis
                  [] settings.algorithm = "pid" ->
                         [lo |-> Param(p, "setpoint", 700) - 150,
                          hi |-> Param(p, "setpoint", 700) + 150]
                  [] OTHER -> [lo |-> Param(p, "min_temp", 300),
                               hi |-> Param(p, "max_temp", 800)]
    IN  IF ends.lo < ends.hi THEN ends ELSE DefaultAxis

\* A load projected onto the axis, no load on its low end.
Projected(axis, load) ==
    axis.lo + (Clamp(load, 0, 100) * (axis.hi - axis.lo)) \div 100

\* The profile's sensors that have a value, and their values on the axis.
Present(settings, reading) == DOMAIN settings.inputs \cap DOMAIN reading

Values(settings, reading) ==
    [s \in Present(settings, reading) |->
        IF s \in LoadSensor THEN Projected(Axis(settings), reading[s])
                            ELSE reading[s]]

WeightedSum(values, weights) ==
    FoldFunction(+, 0, [s \in DOMAIN values |-> values[s] * weights[s]])

AggregateInputs(values, method, weights) ==
    LET total == FoldFunction(+, 0, Restrict(weights, DOMAIN values))
    IN  IF DOMAIN values = {} THEN 0
        ELSE CASE method = "min" -> Min(Range(values))
               [] method = "avg" ->
                      FoldFunction(+, 0, values) \div Cardinality(DOMAIN values)
               [] method = "weighted" ->
                      IF total = 0 THEN 0 ELSE WeightedSum(values, weights) \div total
               [] OTHER -> Max(Range(values))

CalculateInputValue(settings, reading) ==
    LET named == Param(settings.params, "input_aggregation", "max")
    IN  AggregateInputs(Values(settings, reading),
                        IF named = "and" THEN "min" ELSE named,
                        settings.inputs)

-----------------------------------------------------------------------------
(* The algorithms.                                                         *)

LinearSpeed(params, temp) ==
    LET lo == Param(params, "min_temp", 300)
        hi == Param(params, "max_temp", 800)
        min == MinSpeed(params)
        max == MaxSpeed(params)
    IN  CASE temp <= lo -> min
          [] temp > lo /\ temp >= hi -> max
          [] OTHER -> Clamp(min + ((temp - lo) * (max - min)) \div (hi - lo), min, max)

DefaultSteps == <<[temp |-> 300, speed |-> 30], [temp |-> 500, speed |-> 50],
                  [temp |-> 700, speed |-> 75], [temp |-> 800, speed |-> 100]>>

\* Faulty: walks the steps in the order they were entered.
StepSpeedUnsorted(params, temp) ==
    LET steps == Param(params, "steps", DefaultSteps)
        passed == {k \in DOMAIN steps : \A i \in 1..k : steps[i].temp <= temp}
    IN  IF steps = <<>> THEN 50
        ELSE Clamp(steps[Max(passed \cup {1})].speed, 0, 100)

\* The speed of the hottest step reached, of the coldest one below all steps.
\* Steps of one temperature keep the order they were entered in: sort.Slice is
\* an insertion sort for up to 12 of them.
StepSpeed(params, temp) ==
    LET steps == Param(params, "steps", DefaultSteps)
        reached == {i \in DOMAIN steps : steps[i].temp <= temp}
        hottest == {i \in reached : \A j \in reached : steps[j].temp <= steps[i].temp}
        coldest == {i \in DOMAIN steps :
                       \A j \in DOMAIN steps : steps[i].temp <= steps[j].temp}
    IN  CASE steps = <<>> -> 50
          [] steps # <<>> /\ reached = {} -> Clamp(steps[Min(coldest)].speed, 0, 100)
          [] OTHER -> Clamp(steps[Max(hottest)].speed, 0, 100)

\* The PID controller's memory: its integral term, in hundredths of a percent
\* (the integral times Ki, which is fixed for one instance), and lastTemp.
Integrated(params, iTerm, error) ==
    LET limit == 100 * (MaxSpeed(params) - MinSpeed(params))
        sum == iTerm + Param(params, "ki", 1) * error
    IN  IF Param(params, "ki", 1) = 0 THEN 0
        ELSE IF sum > limit THEN limit
        ELSE IF sum < -limit THEN -limit ELSE sum

PidOutput(params, iTerm, lastTemp, temp) ==
    LET error == temp - Param(params, "setpoint", 700)
        pTerm == Param(params, "kp", 20) * error
        dTerm == IF lastTemp = 0 THEN 0
                 ELSE Param(params, "kd", 10) * (temp - lastTemp)
    IN  (50 * (MinSpeed(params) + MaxSpeed(params))
            + pTerm + Integrated(params, iTerm, error) + dTerm) \div 100

\* Faulty: sends the controller's output as it is.
PidSpeedUnclamped(params, iTerm, lastTemp, temp) ==
    PidOutput(params, iTerm, lastTemp, temp)

PidSpeed(params, iTerm, lastTemp, temp) ==
    Clamp(PidOutput(params, iTerm, lastTemp, temp), MinSpeed(params), MaxSpeed(params))

-----------------------------------------------------------------------------
(* What the validator accepts.                                             *)

Within(params, key, lo, hi) == key \in DOMAIN params /\ params[key] \in lo..hi

\* The order of two bounds is only checked when neither is zero.
Ordered(params, low, high) ==
    params[low] # 0 /\ params[high] # 0 => params[low] < params[high]

ValidSpeeds(params) ==
    /\ Within(params, "min_speed", 0, 100) /\ Within(params, "max_speed", 0, 100)
    /\ Ordered(params, "min_speed", "max_speed")

ValidLinear(params) ==
    /\ Within(params, "min_temp", 0, 1500) /\ Within(params, "max_temp", 0, 1500)
    /\ Ordered(params, "min_temp", "max_temp")
    /\ ValidSpeeds(params)

ValidSteps(params) ==
    /\ "steps" \in DOMAIN params /\ params.steps # <<>>
    /\ \A i \in DOMAIN params.steps :
           params.steps[i].temp \in 0..1500 /\ params.steps[i].speed \in 0..100

ValidPid(params) ==
    /\ Within(params, "setpoint", 0, 1500)
    /\ {"kp", "ki", "kd"} \subseteq DOMAIN params
    /\ \A gain \in {"kp", "ki", "kd"} : params[gain] >= 0
    /\ ValidSpeeds(params)
    /\ params.kp # 0 /\ params.ki # 0 /\ params.kd # 0 => params.ki <= params.kp

ValidInputs(inputs) == \A s \in DOMAIN inputs : inputs[s] > 0

\* What the types of the API let through: gains, weights and steps of numbers.
ProperParams(params) ==
    /\ \A gain \in {"kp", "ki", "kd"} \cap DOMAIN params : params[gain] \in Int
    /\ "steps" \in DOMAIN params => params.steps \in Seq([temp : Int, speed : Int])
ProperInputs(inputs) ==
    IsFiniteSet(DOMAIN inputs) /\ \A s \in DOMAIN inputs : inputs[s] \in Int

\* Name, zones, priority and times are checked as well; they bear on no duty.
ValidProfile(settings) ==
    /\ CASE settings.algorithm = "linear" -> ValidLinear(settings.params)
         [] settings.algorithm = "step" -> ValidSteps(settings.params)
         [] settings.algorithm = "pid" -> ValidPid(settings.params)
         [] OTHER -> FALSE
    /\ ValidInputs(settings.inputs)
    /\ settings.hysteresis \in 0..100
=============================================================================
