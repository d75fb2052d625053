--------------------------------- MODULE Store ---------------------------------
(***************************************************************************)
(* The tables of profiles, their inputs and fans, and the requests that    *)
(* change them (services/profiles.go, api/profiles.go, api/fans.go).  A    *)
(* request reads rows, decides, and writes them later; a transaction is    *)
(* one step, everything between two statements outside one is not.  What   *)
(* gorm's Save does is modelled from its use: every column is written, an  *)
(* association that was loaded is inserted again if it is gone, and so is  *)
(* the row itself.                                                         *)
(***************************************************************************)
EXTENDS Integers, Sequences, FiniteSets

CONSTANTS
    Client,         \* requests that may be under way together
    World,          \* [calls, crash, profiles, inputs, fans]: see Init
    MaxProfile, MaxInput, MaxFan    \* bounds on the rows ever inserted

VARIABLES
    world,
    rows,           \* profiles by id, a partial function
    inputs,         \* rows [id, profile, sensor]
    fans,           \* fans by id, a partial function
    nextId,         \* the next id of each table (AUTOINCREMENT)
    at, req,        \* where each request is, and what it asks
    held,           \* what it has read
    stale,          \* history: whose rows another has changed since it read them
    asked,          \* history: what the last change of a profile was to leave
    emptied,        \* history: profiles a delete took the inputs from, but not the row
    chosen,         \* history: label and zone the last PUT of a fan gave it
    raced           \* history: keys changed from a stale reading

tables == <<rows, inputs, fans, nextId>>
requests == <<at, req, held>>
history == <<stale, asked, emptied, chosen, raced>>
vars == <<world, tables, requests, history>>

Zone == {1, 2}      \* the zones of the driver's layout
NoZone == 0
Nothing == [kind |-> "none"]
NoKey == <<>>
ProfileKey(p) == <<"profile", p>>
FanKey(f) == <<"fan", f>>
With(f, key, value) ==
    [k \in DOMAIN f \cup {key} |-> IF k = key THEN value ELSE f[k]]
Without(f, keys) == [k \in DOMAIN f \ keys |-> f[k]]
Ids(profile, input, fan) == [profile |-> profile, input |-> input, fan |-> fan]
InputsOf(p) == {i \in inputs : i.profile = p}
Sensors(given) == {i.sensor : i \in given}

-----------------------------------------------------------------------------
(* What a world holds before the first request, and what the API's request *)
(* types let a client ask for.                                             *)

Row(algorithm, params, active) ==
    [algorithm |-> algorithm, params |-> params, active |-> active]
Fan(sensor, name, zone, label) ==
    [sensor |-> sensor, name |-> name, zone |-> zone, label |-> label]
ProperRow(row) == row = Row(row.algorithm, row.params, row.active)
ProperFan(fan) ==
    fan = Fan(fan.sensor, fan.name, fan.zone, fan.label) /\ fan.zone \in Zone \cup {NoZone}
ProperInput(i) == i = [id |-> i.id, profile |-> i.profile, sensor |-> i.sensor]
ProperGiven(i) == i = [id |-> i.id, sensor |-> i.sensor] /\ i.id \in Nat
ProperSeq(s) == s \in Seq({s[k] : k \in DOMAIN s})

ProperRequest(r) ==
    /\ r.kind \in {"create", "update", "delete", "activate", "deactivate", "put", "detect"}
    /\ r.kind = "create" =>
          /\ r.settings = [algorithm |-> r.settings.algorithm, params |-> r.settings.params]
          /\ ProperSeq(r.inputs)
          /\ \A k \in DOMAIN r.inputs : ProperGiven(r.inputs[k])
    /\ r.kind = "update" =>
          DOMAIN r.change \subseteq {"algorithm", "params"} /\ ProperSeq(r.inputs)
    /\ r.kind = "put" => DOMAIN r.change \subseteq {"label", "zone"}
    /\ r.kind = "detect" =>
          /\ ProperSeq(r.found)
          /\ \A k \in DOMAIN r.found : r.found[k].zone \in Zone \cup {NoZone}

\* Earlier requests left valid profiles and fans with the first ids of their
\* tables, inputs of profiles that are there, and none of them twice.
ProperTables(w) ==
    /\ \A table \in {DOMAIN w.profiles, DOMAIN w.fans} :
          IsFiniteSet(table) /\ table = 1..Cardinality(table)
    /\ \A p \in DOMAIN w.profiles :
          ProperRow(w.profiles[p]) /\ w.profiles[p].params = w.profiles[p].algorithm
    /\ \A f \in DOMAIN w.fans : ProperFan(w.fans[f])
    /\ IsFiniteSet(w.inputs)
    /\ \A i \in w.inputs :
          /\ ProperInput(i) /\ i.id \in 1..Cardinality(w.inputs) /\ i.profile \in DOMAIN w.profiles
          /\ \A j \in w.inputs :
                i.id = j.id \/ (i.profile = j.profile /\ i.sensor = j.sensor) => i = j

ASSUME StoreAssumption ==
    /\ MaxProfile \in Nat /\ MaxInput \in Nat /\ MaxFan \in Nat
    /\ \A w \in World :
          /\ ProperTables(w)
          /\ \A c \in Client : \A r \in w.calls[c] : ProperRequest(r)

-----------------------------------------------------------------------------
(* What all requests share.                                                *)

\* Those who read it before are stale now; what is changed from a stale reading
\* may be anything, until all of it is written by one who read it as it is.
Changes(c, keys, whole) ==
    /\ stale' = (stale \ {c}) \cup {d \in Client \ {c} : held[d].key \in keys}
    /\ raced' = IF c \in stale THEN raced \cup keys
                ELSE IF whole THEN raced \ keys ELSE raced

Goes(c, there) == at' = [at EXCEPT ![c] = there] /\ UNCHANGED req
Holds(key, row, given, next) == [key |-> key, row |-> row, inputs |-> given, next |-> next]
NoHold == Holds(NoKey, Nothing, {}, 1)
Keeps(c, what) == held' = [held EXCEPT ![c] = what]

Ends(c) ==
    /\ at' = [at EXCEPT ![c] = "idle"]
    /\ req' = [req EXCEPT ![c] = Nothing]
    /\ held' = [held EXCEPT ![c] = NoHold]

\* A request that ends where it is: what it asks is not valid or not there, or
\* the database fails.
Refused(c) ==
    /\ at[c] \notin {"idle", "deactivate"}
    /\ Ends(c)
    /\ stale' = stale \ {c}
    /\ UNCHANGED <<world, tables, asked, emptied, chosen, raced>>

Call(c) ==
    /\ at[c] = "idle"
    /\ \E r \in world.calls[c] :
           /\ r.kind \in {"update", "delete", "activate", "deactivate"} => r.id < nextId.profile
           /\ r.kind = "put" => r.id < nextId.fan
           /\ req' = [req EXCEPT ![c] = r]
           /\ at' = [at EXCEPT ![c] = IF r.kind = "detect" THEN "find" ELSE "begin"]
    /\ UNCHANGED <<world, tables, held, history>>

-----------------------------------------------------------------------------
(* Profiles.                                                               *)

\* ValidateProfile: parameters fit their algorithm, no input is given twice.
ValidSettings(settings) == settings.params = settings.algorithm
Distinct(given) == \A i, j \in given : i.sensor = j.sensor => i = j
Settings(row) == [algorithm |-> row.algorithm, params |-> row.params]

\* The rows of new inputs, in the order of the request.
NewInputs(p, sensors) ==
    {[id |-> nextId.input + k - 1, profile |-> p, sensor |-> sensors[k]] : k \in DOMAIN sensors}
NoTwice(sensors) == \A j, k \in DOMAIN sensors : sensors[j] = sensors[k] => j = k

\* Create does not reset the ids of its inputs: one the client sent (not 0) is
\* kept, and the next ones follow the largest there ever was.
Follows(n, ids) ==
    /\ n >= nextId.input /\ \A i \in ids : n > i
    /\ n = nextId.input \/ \E i \in ids : n = i + 1
Numbered(given, ids) ==
    \A k \in DOMAIN given :
        IF given[k].id # 0 THEN ids[k] = given[k].id
        ELSE Follows(ids[k], {ids[j] : j \in 1..(k - 1)})
Unused(ids) ==
    /\ \A j, k \in DOMAIN ids : ids[j] = ids[k] => j = k
    /\ \A k \in DOMAIN ids : \A i \in inputs : i.id # ids[k]
GivenInputs(p, given, ids) ==
    {[id |-> ids[k], profile |-> p, sensor |-> given[k].sensor] : k \in DOMAIN given}
SensorsGiven(given) == [k \in DOMAIN given |-> given[k].sensor]

\* Faulty: the profile is there before its inputs are.
CreateInParts(c) ==
    /\ at[c] = "begin" /\ req[c].kind = "create"
    /\ ValidSettings(req[c].settings) /\ NoTwice(SensorsGiven(req[c].inputs))
    /\ nextId.profile <= MaxProfile
    /\ \E ids \in [DOMAIN req[c].inputs -> 1..MaxInput], next \in 1..(MaxInput + 1) :
          LET p == nextId.profile
              given == GivenInputs(p, req[c].inputs, ids)
          IN  /\ Numbered(req[c].inputs, ids) /\ Follows(next, {i.id : i \in given})
              /\ rows' = With(rows, p, Row(req[c].settings.algorithm, req[c].settings.params, FALSE))
              /\ \/ Unused(ids) /\ inputs' = inputs \cup given
                 \/ UNCHANGED inputs
              /\ nextId' = Ids(p + 1, next, nextId.fan)
              /\ asked' = With(asked, p, [settings |-> req[c].settings, active |-> FALSE,
                                         sensors |-> Sensors(given)])
    /\ Ends(c)
    /\ UNCHANGED <<world, fans, stale, emptied, chosen, raced>>

\* Create, in one transaction, which an id in use ends.
Create(c) ==
    /\ at[c] = "begin" /\ req[c].kind = "create"
    /\ ValidSettings(req[c].settings) /\ NoTwice(SensorsGiven(req[c].inputs))
    /\ nextId.profile <= MaxProfile
    /\ \E ids \in [DOMAIN req[c].inputs -> 1..MaxInput], next \in 1..(MaxInput + 1) :
          LET p == nextId.profile
              given == GivenInputs(p, req[c].inputs, ids)
          IN  /\ Numbered(req[c].inputs, ids) /\ Unused(ids) /\ Follows(next, {i.id : i \in given})
              /\ rows' = With(rows, p, Row(req[c].settings.algorithm, req[c].settings.params, FALSE))
              /\ inputs' = inputs \cup given
              /\ nextId' = Ids(p + 1, next, nextId.fan)
              /\ asked' = With(asked, p, [settings |-> req[c].settings, active |-> FALSE,
                                         sensors |-> Sensors(given)])
    /\ Ends(c)
    /\ UNCHANGED <<world, fans, stale, emptied, chosen, raced>>

\* First: the row, or 404.
UpdateReads(c) ==
    /\ at[c] = "begin" /\ req[c].kind = "update" /\ req[c].id \in DOMAIN rows
    /\ Keeps(c, Holds(ProfileKey(req[c].id), rows[req[c].id], {}, 1))
    /\ Goes(c, "preload")
    /\ UNCHANGED <<world, tables, history>>

\* Preload: its inputs, in a statement of their own.
Preload(c) ==
    /\ at[c] = "preload"
    /\ Keeps(c, Holds(held[c].key, held[c].row, InputsOf(req[c].id), 1))
    /\ Goes(c, "save")
    /\ UNCHANGED <<world, tables, history>>

\* The row as it will be: what the request names is replaced.
Merged(row, change) == [column \in DOMAIN row |->
    IF column \in DOMAIN change THEN change[column] ELSE row[column]]

\* Faulty: only what the request names is written.
UpdateStoresChange(c) ==
    /\ at[c] = "save"
    /\ LET p == req[c].id
           row == Merged(held[c].row, req[c].change)
           given == NewInputs(p, req[c].inputs)
       IN  /\ ValidSettings(row) /\ p \in DOMAIN rows /\ NoTwice(req[c].inputs)
           /\ nextId.input + Len(req[c].inputs) <= MaxInput + 1
           /\ rows' = [rows EXCEPT ![p] = Merged(@, req[c].change)]
           /\ inputs' = IF req[c].replace THEN (inputs \ InputsOf(p)) \cup given ELSE inputs
           /\ nextId' = [nextId EXCEPT !.input = @ + Cardinality(given)]
           /\ asked' = [asked EXCEPT ![p] =
                 [settings |-> Settings(rows'[p]), active |-> rows'[p].active,
                  sensors |-> IF req[c].replace THEN Sensors(given) ELSE @.sensors]]
           /\ emptied' = IF req[c].replace THEN emptied \ {p} ELSE emptied
           /\ Changes(c, {ProfileKey(p)}, req[c].replace)
    /\ Ends(c)
    /\ UNCHANGED <<world, fans, chosen>>

\* The inputs after gorm saved a profile with those it was read with: one that is
\* gone is inserted again, and one whose id another profile's input has by now
\* takes that away from it.
Again(p, given) ==
    {IF \E h \in given : h.id = i.id THEN [i EXCEPT !.profile = p] ELSE i : i \in inputs}
        \cup {h \in given : \A i \in inputs : h.id # i.id}
Owners(given) == {i.profile : i \in {j \in inputs : \E h \in given : h.id = j.id}}

\* Update's transaction, after the merged profile was found valid.  The row is
\* written whole, whatever it is by now, and the inputs that were read are
\* there again; new ones replace all there are.
UpdateStores(c) ==
    /\ at[c] = "save"
    /\ LET p == req[c].id
           row == Merged(held[c].row, req[c].change)
           given == NewInputs(p, req[c].inputs)
           saved == Again(p, held[c].inputs)
           sensors == IF req[c].replace THEN Sensors(given)
                      ELSE IF p \in DOMAIN asked THEN asked[p].sensors
                      ELSE Sensors(held[c].inputs)
       IN  /\ ValidSettings(row)
           /\ IF req[c].replace THEN NoTwice(req[c].inputs) ELSE Distinct(held[c].inputs)
           /\ nextId.input + Len(req[c].inputs) <= MaxInput + 1
           /\ rows' = With(rows, p, row)
           /\ inputs' = IF req[c].replace THEN {i \in saved : i.profile # p} \cup given ELSE saved
           /\ nextId' = [nextId EXCEPT !.input = @ + Len(req[c].inputs)]
           /\ asked' = With(asked, p, [settings |-> Settings(row), active |-> row.active,
                                      sensors |-> sensors])
           /\ emptied' = IF req[c].replace THEN emptied \ {p} ELSE emptied
           /\ Changes(c, {ProfileKey(q) : q \in {p} \cup Owners(held[c].inputs)}, req[c].replace)
    /\ Ends(c)
    /\ UNCHANGED <<world, fans, chosen>>

\* Activate, Deactivate: one column, if the row is there.
SetActive(c, p, on) ==
    /\ rows' = [q \in DOMAIN rows |-> IF q = p THEN [rows[q] EXCEPT !.active = on] ELSE rows[q]]
    /\ asked' = [q \in DOMAIN asked |-> IF q = p THEN [asked[q] EXCEPT !.active = on] ELSE asked[q]]
    /\ Changes(c, {ProfileKey(p)}, FALSE)

Activate(c) ==
    /\ at[c] = "begin" /\ req[c].kind \in {"activate", "deactivate"}
    /\ SetActive(c, req[c].id, req[c].kind = "activate")
    /\ Ends(c)
    /\ UNCHANGED <<world, inputs, fans, nextId, emptied, chosen>>

\* Delete: the handler deactivates a profile it finds active, whatever becomes of
\* that; one it cannot read it takes for none.
DeleteReads(c) ==
    /\ at[c] = "begin" /\ req[c].kind = "delete"
    /\ \/ req[c].id \in DOMAIN rows /\ rows[req[c].id].active /\ Goes(c, "deactivate")
       \/ Goes(c, "first")
    /\ UNCHANGED <<world, tables, held, history>>

DeleteDeactivates(c) ==
    /\ at[c] = "deactivate"
    /\ SetActive(c, req[c].id, FALSE) \/ UNCHANGED <<rows, stale, asked, raced>>
    /\ Goes(c, "first")
    /\ UNCHANGED <<world, inputs, fans, nextId, held, emptied, chosen>>

\* The service looks again and deletes the inputs and the row, one statement each.
DeleteFinds(c) ==
    /\ at[c] = "first" /\ req[c].id \in DOMAIN rows
    /\ Keeps(c, Holds(ProfileKey(req[c].id), Nothing, {}, 1))
    /\ Goes(c, "inputs")
    /\ UNCHANGED <<world, tables, history>>

\* What ends the request from here on leaves a profile without its inputs.
DeleteInputs(c) ==
    /\ at[c] = "inputs"
    /\ inputs' = inputs \ InputsOf(req[c].id)
    /\ emptied' = emptied \cup {req[c].id}
    /\ stale' = (stale \ {c}) \cup {d \in Client \ {c} : held[d].key = held[c].key}
    /\ Goes(c, "row")
    /\ UNCHANGED <<world, rows, fans, nextId, held, asked, chosen, raced>>

DeleteRow(c) ==
    /\ at[c] = "row"
    /\ rows' = Without(rows, {req[c].id})
    /\ asked' = Without(asked, {req[c].id})
    /\ emptied' = emptied \ {req[c].id}
    /\ Changes(c, {held[c].key}, FALSE)
    /\ Ends(c)
    /\ UNCHANGED <<world, inputs, fans, nextId, chosen>>

-----------------------------------------------------------------------------
(* Fans.                                                                   *)

\* Faulty: the zone is not looked up in the driver's layout.
FanReadsAnyZone(c) ==
    /\ at[c] = "begin" /\ req[c].kind = "put" /\ req[c].id \in DOMAIN fans
    /\ Keeps(c, Holds(FanKey(req[c].id), fans[req[c].id], {}, 1))
    /\ Goes(c, "saveFan")
    /\ UNCHANGED <<world, tables, history>>

\* The handler looks the zone up, then the service reads the fan.
FanReads(c) ==
    /\ at[c] = "begin" /\ req[c].kind = "put" /\ req[c].id \in DOMAIN fans
    /\ "zone" \in DOMAIN req[c].change => req[c].change.zone \in Zone
    /\ Keeps(c, Holds(FanKey(req[c].id), fans[req[c].id], {}, 1))
    /\ Goes(c, "saveFan")
    /\ UNCHANGED <<world, tables, history>>

FanSaves(c) ==
    /\ at[c] = "saveFan"
    /\ LET f == req[c].id
           fan == Merged(held[c].row, req[c].change)
       IN  /\ fans' = With(fans, f, fan)
           /\ chosen' = With(chosen, f, [label |-> fan.label, zone |-> fan.zone])
           /\ Changes(c, {FanKey(f)}, TRUE)
    /\ Ends(c)
    /\ UNCHANGED <<world, rows, inputs, nextId, asked, emptied>>

\* SaveDetectedFans: one fan the driver reports after the other is looked up...
DetectFinds(c) ==
    /\ at[c] = "find" /\ held[c].next <= Len(req[c].found)
    /\ LET same == {f \in DOMAIN fans : fans[f].sensor = req[c].found[held[c].next].sensor}
       IN  IF same = {} THEN UNCHANGED held
           ELSE LET f == CHOOSE g \in same : \A h \in same : g <= h
                IN  Keeps(c, Holds(FanKey(f), fans[f], {}, held[c].next))
    /\ Goes(c, "keep")
    /\ UNCHANGED <<world, tables, history>>

\* Faulty: the driver's zone is written over the user's.
SeededAnew(fan, d) == [fan EXCEPT !.name = d.name, !.zone = d.zone]

\* A zone is only given to a fan that has none.
Seeded(fan, d) ==
    Fan(fan.sensor, d.name, IF fan.zone = NoZone THEN d.zone ELSE fan.zone, fan.label)

\* ... and inserted, or written when the report differs from what was found.
DetectKeeps(c) ==
    /\ at[c] = "keep"
    /\ LET d == req[c].found[held[c].next]
           f == IF held[c].key = NoKey THEN nextId.fan ELSE held[c].key[2]
           fan == IF held[c].key = NoKey
                  THEN Fan(d.sensor, d.name, d.zone, "none")
                  ELSE Seeded(held[c].row, d)
       IN  /\ f <= MaxFan
           /\ nextId' = [nextId EXCEPT !.fan = IF f = @ THEN @ + 1 ELSE @]
           /\ IF fan = held[c].row
              THEN UNCHANGED <<fans, raced>> /\ stale' = stale \ {c}
              ELSE fans' = With(fans, f, fan) /\ Changes(c, {FanKey(f)}, FALSE)
    /\ Keeps(c, Holds(NoKey, Nothing, {}, held[c].next + 1))
    /\ Goes(c, "find")
    /\ UNCHANGED <<world, rows, inputs, asked, emptied, chosen>>

\* Fans no longer reported go, when any was.
DetectPrunes(c) ==
    /\ at[c] = "find" /\ held[c].next > Len(req[c].found)
    /\ LET reported == {req[c].found[k].sensor : k \in DOMAIN req[c].found}
           gone == IF reported = {} THEN {}
                   ELSE {f \in DOMAIN fans : fans[f].sensor \notin reported}
       IN  /\ fans' = Without(fans, gone)
           /\ chosen' = Without(chosen, gone)
           /\ stale' = stale \cup {d \in Client \ {c} : \E f \in gone : held[d].key = FanKey(f)}
    /\ Ends(c)
    /\ UNCHANGED <<world, rows, inputs, nextId, asked, emptied, raced>>

-----------------------------------------------------------------------------
\* The process dies between two steps and is started again.
Crash ==
    /\ world.crash /\ \E c \in Client : at[c] # "idle"
    /\ at' = [c \in Client |-> "idle"]
    /\ req' = [c \in Client |-> Nothing]
    /\ held' = [c \in Client |-> NoHold]
    /\ stale' = {}
    /\ UNCHANGED <<world, tables, asked, emptied, chosen, raced>>

\* The tables hold what earlier requests left, all of it as asked.
Init ==
    /\ world \in World
    /\ rows = world.profiles /\ inputs = world.inputs /\ fans = world.fans
    /\ nextId = Ids(Cardinality(DOMAIN rows) + 1, Cardinality(inputs) + 1,
                    Cardinality(DOMAIN fans) + 1)
    /\ at = [c \in Client |-> "idle"] /\ req = [c \in Client |-> Nothing]
    /\ held = [c \in Client |-> NoHold]
    /\ asked = [p \in DOMAIN rows |-> [settings |-> Settings(rows[p]), active |-> rows[p].active,
                                       sensors |-> Sensors(InputsOf(p))]]
    /\ emptied = {} /\ chosen = <<>>
    /\ stale = {} /\ raced = {}

Next ==
    \/ \E c \in Client :
          \/ Call(c) \/ Refused(c)
          \/ Create(c) \/ UpdateReads(c) \/ Preload(c) \/ UpdateStores(c) \/ Activate(c)
          \/ DeleteReads(c) \/ DeleteDeactivates(c) \/ DeleteFinds(c) \/ DeleteInputs(c)
          \/ DeleteRow(c)
          \/ FanReads(c) \/ FanSaves(c) \/ DetectFinds(c) \/ DetectKeeps(c) \/ DetectPrunes(c)
    \/ Crash

Spec == Init /\ [][Next]_vars

-----------------------------------------------------------------------------
\* Type invariant: ids were given out, an input's id and profile are its own, and
\* a fan's zone is one of the driver's.
TypeOK ==
    /\ DOMAIN rows \subseteq 1..(nextId.profile - 1)
    /\ \A i \in inputs : i.id < nextId.input /\ i.profile < nextId.profile
    /\ \A i, j \in inputs : i.id = j.id => i = j
    /\ DOMAIN fans \subseteq 1..(nextId.fan - 1)
    /\ \A f \in DOMAIN fans : fans[f].zone \in Zone \cup {NoZone}
    /\ stale \subseteq {c \in Client : held[c].key # NoKey}
    /\ DOMAIN asked \subseteq 1..(nextId.profile - 1) /\ emptied \subseteq 1..(nextId.profile - 1)
    /\ DOMAIN chosen \subseteq 1..(nextId.fan - 1)

\* Every stored profile has settings that were found valid together, though
\* updates name some of them only and overlap (Update and ValidateProfileUpdate).
StoredValid == \A p \in DOMAIN rows : ValidSettings(rows[p])

\* A profile no request changed from a stale reading is there exactly as its last
\* change was to leave it, until a delete has taken its row: settings, activation,
\* and its inputs once each.  The exception is a profile from which a delete took
\* the inputs and which still is there, since that delete is not over or was
\* broken off (profiles.go:218-223, no transaction): it is as asked but for its
\* inputs, of which it has none, until an update brings new ones or another
\* delete ends.  No input is left of a profile that is gone.
ProfilesAsAsked ==
    \A p \in 1..(nextId.profile - 1) :
        ProfileKey(p) \notin raced =>
            IF p \in DOMAIN asked
            THEN /\ p \in DOMAIN rows
                 /\ asked[p].settings = Settings(rows[p]) /\ asked[p].active = rows[p].active
                 /\ IF p \in emptied THEN InputsOf(p) = {}
                    ELSE asked[p].sensors = Sensors(InputsOf(p)) /\ Distinct(InputsOf(p))
            ELSE p \notin DOMAIN rows /\ InputsOf(p) = {}

\* The label and the zone a user gave a fan outlive every detection that reports
\* it and did not read it before they were given (SaveDetectedFans).
UserChoiceSurvives ==
    \A f \in DOMAIN chosen :
        FanKey(f) \notin raced =>
            /\ f \in DOMAIN fans
            /\ fans[f].label = chosen[f].label
            /\ chosen[f].zone # NoZone => fans[f].zone = chosen[f].zone
=============================================================================
