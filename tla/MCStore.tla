-------------------------------- MODULE MCStore --------------------------------
(***************************************************************************)
(* Two requests at once on one stored profile, or on one stored fan.       *)
(***************************************************************************)
EXTENDS Store, TLC

CONSTANTS a, b

Clients == {a, b}

Linear == [algorithm |-> "linear", params |-> "linear"]
Step == [algorithm |-> "step", params |-> "step"]
Edit(change) == [kind |-> "update", id |-> 1, change |-> change, replace |-> FALSE, inputs |-> <<>>]
Inputs(sensors) == [Edit(<<>>) EXCEPT !.replace = TRUE, !.inputs = sensors]
New(settings, given) == [kind |-> "create", settings |-> settings, inputs |-> given]
Input(id, sensor) == [id |-> id, sensor |-> sensor]
On(kind) == [kind |-> kind, id |-> 1]
Put(change) == [kind |-> "put", id |-> 1, change |-> change]
Detect(found) == [kind |-> "detect", found |-> found]
Report(sensor, name) == [sensor |-> sensor, name |-> name, zone |-> 1]

Stored == 1 :> (Linear @@ [active |-> FALSE])
StoredInputs == {[id |-> 1, profile |-> 1, sensor |-> "cpu"]}
OldFan == 1 :> [sensor |-> "fan1", name |-> "old", zone |-> NoZone, label |-> "none"]

W(first, second, crash) ==
    [calls |-> (a :> first) @@ (b :> second), crash |-> crash,
     profiles |-> Stored, inputs |-> StoredInputs, fans |-> OldFan]

Edits == {Edit(Step), Edit("algorithm" :> "step"), Edit("params" :> "linear")}
Worlds ==
    {W(Edits, {Edit(Linear), Inputs(<<"gpu">>), Inputs(<<"cpu", "cpu">>)}, FALSE),
     W({Inputs(<<"cpu", "gpu">>)}, {Edit(Step), On("activate")}, FALSE),
     W({On("delete")}, {Edit(Step), On("activate"), Inputs(<<"gpu">>)}, TRUE),
     W({On("delete")}, {On("delete"), On("activate"), On("deactivate")}, TRUE),
     W({Edit(Step)}, {Inputs(<<"gpu">>), New(Linear, <<Input(1, "cpu")>>)}, FALSE),
     W({New(Linear, <<Input(0, "cpu"), Input(0, "gpu")>>),
        New(Linear, <<Input(3, "cpu"), Input(0, "gpu")>>),
        New([Step EXCEPT !.params = "linear"], <<>>)},
       {[On("delete") EXCEPT !.id = 2], [On("activate") EXCEPT !.id = 2]}, TRUE),
     W({Detect(<<Report("fan1", "old")>>), Detect(<<Report("fan1", "new"), Report("fan2", "new")>>)},
       {Put("zone" :> 2), Put("label" :> "rear"), Put("zone" :> 9)}, FALSE),
     W({Detect(<<Report("fan1", "old"), Report("fan2", "new")>>), Detect(<<>>)},
       {Detect(<<Report("fan2", "new")>>), Put("zone" :> 2)}, TRUE)}
=============================================================================
