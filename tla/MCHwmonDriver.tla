---------------------------- MODULE MCHwmonDriver ----------------------------
(* Two channels, two concurrent identifications, and every event but the    *)
(* failure of a duty write (the premise of NothingLeftManual).              *)
EXTENDS HwmonDriver

CONSTANTS z1, z2, c1, c2

MCZone == {z1, z2}
MCCaller == {c1, c2}
MCPercent == {40, 100}
MCFirmwarePwm == {128}
MCEnv == EnvEvents \ {"pwm_fails"}
=============================================================================
