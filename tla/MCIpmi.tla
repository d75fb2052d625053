-------------------------------- MODULE MCIpmi --------------------------------
(***************************************************************************)
(* Three calls at once: readers on a board with duties to read and on one  *)
(* without, writers of each vendor, detections and choices of a driver.    *)
(***************************************************************************)
EXTENDS Ipmi, TLC

CONSTANTS a, b, c

ThreeCallers == {a, b, c}

Readings == [kind |-> "readings"]
Detect == [kind |-> "detect"]
All(percent) == [kind |-> "all", percent |-> percent]
ToZone(zone, percent) == [kind |-> "zone", zone |-> zone, percent |-> percent]
Identify(zone) == [kind |-> "identify", zone |-> zone]
Release == [kind |-> "mode", enabled |-> FALSE]
Select(vendor) == [kind |-> "select", vendor |-> vendor]

Calls(first, second, third) == (a :> first) @@ (b :> second) @@ (c :> third)
W(vendor, faults, first, second, third) ==
    [vendor |-> vendor, hwmon |-> FALSE, faults |-> faults,
     calls |-> Calls(first, second, third)]

Worlds ==
    {W("Dell", TRUE, {Readings}, {Readings}, {Readings}),
     W("ASRock", TRUE, {Readings}, {Readings}, {}),
     W("Dell", FALSE, {Readings}, {Readings}, {Select("Hwmon"), Select("Dell")}),
     \* two writers of an ASRock board, one at a time after a failure, too
     W("ASRock", FALSE, {ToZone(0, 40)}, {ToZone(1, 100)}, {}),
     W("ASRock", TRUE, {ToZone(0, 40), ToZone(5, 60), All(100)}, {}, {}),
     W("ASRock", FALSE, {All(40)}, {Identify(0)}, {Detect}),
     W("Supermicro", TRUE, {All(40), All(100)}, {ToZone(3, 60)}, {}),
     W("Dell", TRUE, {All(40), Release}, {Identify(1)}, {}),
     W("Generic", TRUE, {All(40), ToZone(2, 60), Identify(1)}, {Detect}, {}),
     W("Dell", TRUE, {Detect}, {Detect}, {Select("Supermicro")}),
     W("ASRock", TRUE, {Detect}, {ToZone(1, 100)}, {}),
     W("Supermicro", FALSE, {Detect}, {Select("Dell")}, {All(40)})}
    \cup {[W("Generic", FALSE, {Detect, ToZone(0, 40)}, {Readings}, {Select("Generic")})
              EXCEPT !.hwmon = TRUE]}
=============================================================================
