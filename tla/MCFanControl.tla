---------------------------- MODULE MCFanControl ----------------------------
(***************************************************************************)
(* Instances of the controller.  "base" holds both channels at any reading,*)
(* "cpu" outranks it on one of them and follows the temperature: without a *)
(* reading it computes what it would at 0 degrees, as calculateInputValue  *)
(* does; 30 and 60 are harmless readings and 95 is a critical one.  The two*)
(* differ in every other setting too: base's transition outlasts its       *)
(* minimum run time, so smoothing stops half way, cpu's does not.          *)
(***************************************************************************)
EXTENDS FanControl

CONSTANTS z1, z2, main, h1, r1, r2, c1

TwoZones == {z1, z2}
OneZone == {z1}
OneHandler == {h1}
OneRequest == {r1}
TwoRequests == {r1, r2}
OneCaller == {c1}
None == {}

AllReadings == {30, 60, 95}
MildReadings == {30, 60}
ColdReading == {30}
Hot == {95}

TwoProfiles == {"base", "cpu"}
BaseProfile == {"base"}

Settings ==
    [p \in TwoProfiles |->
        IF p = "cpu"
        THEN [priority |-> 2, zones |-> {z1}, usesTemp |-> TRUE,
              minRun |-> 2, transition |-> 1, smooth |-> TRUE]
        ELSE [priority |-> 1, zones |-> {z1, z2}, usesTemp |-> FALSE,
              minRun |-> 1, transition |-> 2, smooth |-> TRUE]]

\* A profile that targets no channel of this board: its cycles write nothing.
StrangerSettings == [p \in BaseProfile |-> [Settings["base"] EXCEPT !.zones = {z2}]]

Duties ==
    [p \in TwoProfiles |->
        [t \in AllReadings \cup {NoReading} |->
            IF p = "base" THEN {50}
            ELSE CASE t = 60 -> {80} [] t = 95 -> {100} [] OTHER -> {20}]]

ControlWorld == {"temperature", "no_reading", "profiles", "db_error", "enable_fails"}
OverrideWorld == {"profiles", "override", "clear", "expire", "identify",
                  "pwm_fails", "release_fails"}
LifeWorld == {"start", "stop", "terminate"}

\* For the disagreements between the code and what is said of it.
WarmWorld == {"temperature"}
ManualWorld == {"temperature", "override"}
StopWorld == {"temperature", "stop"}
=============================================================================
