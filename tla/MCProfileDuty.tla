---------------------------- MODULE MCProfileDuty ----------------------------
(***************************************************************************)
(* A profile that listens to a CPU temperature and a GPU load.  The three  *)
(* mild temperatures lie within one hysteresis of each other in some pairs *)
(* and not in others, and on both sides of the PID's setpoint; a load of 0 *)
(* or 50 % lands below, between or above them depending on the axis.  The  *)
(* steps are entered in the wrong order, and the two PID edits differ only *)
(* in a gain, so that either starts afresh after the other.                *)
(***************************************************************************)
EXTENDS ProfileDuty

Loads == {"gpu"}
Both == [s \in {"cpu", "gpu"} |-> IF s = "cpu" THEN 2 ELSE 1]
CpuOnly == [s \in {"cpu"} |-> 1]

Linear(min, max, low, high) ==
    [min_temp |-> min, max_temp |-> max, min_speed |-> low, max_speed |-> high]
Aggregated(params, method) ==
    [k \in DOMAIN params \cup {"input_aggregation"} |->
        IF k = "input_aggregation" THEN method ELSE params[k]]
Steps == [steps |-> <<[temp |-> 520, speed |-> 60], [temp |-> 400, speed |-> 40],
                      [temp |-> 700, speed |-> 80]>>]
Pid(kp, ki) == [setpoint |-> 510, kp |-> kp, ki |-> ki, kd |-> 10,
                min_speed |-> 20, max_speed |-> 60]

DefaultProfiles == {[algorithm |-> "linear", params |-> Linear(300, 800, 30, 100),
                   hysteresis |-> 20, inputs |-> Both]}

Edits ==
    {[algorithm |-> "linear", params |-> Aggregated(Linear(400, 600, 20, 90), "weighted")],
     [algorithm |-> "step", params |-> Aggregated(Steps, "avg")],
     [algorithm |-> "pid", params |-> Aggregated(Pid(50, 25), "and")],
     [algorithm |-> "pid", params |-> Pid(60, 50)],
     [hysteresis |-> 0], [inputs |-> CpuOnly],
     \* refused: parameters of another algorithm, bounds out of order, a gain too
     \* high for stability, a hysteresis out of range
     [algorithm |-> "step"], [params |-> Linear(400, 600, 90, 20)],
     [algorithm |-> "pid", params |-> Pid(10, 50)], [hysteresis |-> 110]}

At(cpu, gpu) == [s \in {"cpu", "gpu"} |-> IF s = "cpu" THEN cpu ELSE gpu]
Readings == {At(490, 0), At(505, 0), At(505, 50), At(515, 50),
             [s \in {"cpu"} |-> 505], [s \in {} |-> 0]}
=============================================================================
