------------------------------ MODULE StoreProofs ------------------------------
(***************************************************************************)
(* What the tables hold for any number of requests, any profiles, inputs   *)
(* and fans they start from, and any request the API's types let through.  *)
(***************************************************************************)
EXTENDS Store, FiniteSetTheorems, WellFoundedInduction, TLAPS

-----------------------------------------------------------------------------
(* Partial functions, rows and the inputs of a request.                    *)

\* A row with some columns replaced is a row, in which the others are as before.
LEMMA MergedRow ==
    ASSUME NEW row, ProperRow(row), NEW change, DOMAIN change \subseteq {"algorithm", "params"}
    PROVE  /\ ProperRow(Merged(row, change))
           /\ Merged(row, change).active = row.active
BY DEF ProperRow, Row, Merged

\* A fan with a new label or a new zone of the driver's is a fan.
LEMMA MergedFan ==
    ASSUME NEW fan, ProperFan(fan), NEW change, DOMAIN change \subseteq {"label", "zone"},
           "zone" \in DOMAIN change => change.zone \in Zone
    PROVE  ProperFan(Merged(fan, change))
BY DEF ProperFan, Fan, Merged

\* Natural numbers have a least one among them.
LEMMA LeastNumber ==
    ASSUME NEW S, S \subseteq Nat, S # {}
    PROVE  \E m \in S : \A n \in S : m <= n
<1>1. PICK m \in S : \A n \in S : ~ (<<n, m>> \in OpToRel(<, Nat))
  BY NatLessThanWellFounded, WFMin
<1>2. \A n \in S : ~ (n < m)
  BY <1>1 DEF OpToRel
<1> QED
  BY <1>2

\* A fan seeded from a report keeps its label, and its zone unless it had none.
LEMMA SeededFan ==
    ASSUME NEW fan, ProperFan(fan), NEW d, d.zone \in Zone \cup {NoZone}
    PROVE  /\ ProperFan(Seeded(fan, d))
           /\ Seeded(fan, d).label = fan.label
           /\ fan.zone # NoZone => Seeded(fan, d).zone = fan.zone
BY DEF ProperFan, Fan, Seeded

-----------------------------------------------------------------------------
(* The inductive invariant: first where every request is.                  *)

ProfileIds == 1..(nextId.profile - 1)
FanIds == 1..(nextId.fan - 1)

\* Every input there is, in the table or in the hands of an update.
Known == inputs \cup UNION {held[c].inputs : c \in Client}

IdsOK ==
    /\ nextId = Ids(nextId.profile, nextId.input, nextId.fan)
    /\ nextId.profile \in Nat \ {0} /\ nextId.input \in Nat \ {0} /\ nextId.fan \in Nat \ {0}

\* What the last change of a profile was to leave.
Wish(settings, active, sensors) ==
    [settings |-> settings, active |-> active, sensors |-> sensors]
AskedOK ==
    /\ DOMAIN asked \subseteq ProfileIds
    /\ \A p \in DOMAIN asked :
          asked[p] = Wish(asked[p].settings, asked[p].active, asked[p].sensors)

TablesOK ==
    /\ DOMAIN rows \subseteq ProfileIds /\ \A p \in DOMAIN rows : ProperRow(rows[p])
    /\ DOMAIN fans \subseteq FanIds /\ \A f \in DOMAIN fans : ProperFan(fans[f])
    /\ AskedOK /\ emptied \subseteq ProfileIds
    /\ DOMAIN chosen \subseteq FanIds

InputsOK ==
    /\ \A i \in Known : /\ ProperInput(i) /\ i.profile \in ProfileIds
                        /\ i.id \in Nat /\ i.id < nextId.input
    /\ \A i, j \in inputs : i.id = j.id => i = j
    /\ \A c \in Client : \A i, j \in held[c].inputs : i.id = j.id => i = j

\* What it holds there.
HoldsNone(c) == held[c].key = NoKey /\ held[c].row = Nothing
HoldsRow(c) ==
    /\ held[c].key = ProfileKey(req[c].id) /\ req[c].id \in ProfileIds
    /\ ProperRow(held[c].row) /\ \A i \in held[c].inputs : i.profile = req[c].id
HoldsKey(c) == held[c].key = ProfileKey(req[c].id) /\ req[c].id \in ProfileIds
HoldsFan(c, f) == held[c].key = FanKey(f) /\ f \in FanIds /\ ProperFan(held[c].row)

RequestOK(c) ==
    /\ at[c] # "idle" => ProperRequest(req[c])
    /\ held[c] = Holds(held[c].key, held[c].row, held[c].inputs, held[c].next)
    /\ held[c].next \in Nat \ {0}
    /\ at[c] # "save" => held[c].inputs = {}
    /\ \/ at[c] = "idle" /\ HoldsNone(c)
       \/ at[c] = "begin" /\ HoldsNone(c) /\ req[c].kind # "detect"
       \/ at[c] \in {"preload", "save"} /\ req[c].kind = "update" /\ HoldsRow(c)
       \/ at[c] \in {"deactivate", "first"} /\ req[c].kind = "delete" /\ HoldsNone(c)
       \/ at[c] \in {"inputs", "row"} /\ req[c].kind = "delete" /\ HoldsKey(c)
       \/ /\ at[c] = "saveFan" /\ req[c].kind = "put" /\ HoldsFan(c, req[c].id)
          /\ "zone" \in DOMAIN req[c].change => req[c].change.zone \in Zone
       \/ at[c] = "find" /\ req[c].kind = "detect" /\ HoldsNone(c)
       \/ /\ at[c] = "keep" /\ req[c].kind = "detect" /\ held[c].next <= Len(req[c].found)
          /\ HoldsNone(c) \/ \E f \in FanIds : HoldsFan(c, f)

StoreOK ==
    /\ world \in World /\ IdsOK /\ TablesOK /\ InputsOK
    /\ at = [c \in Client |-> at[c]] /\ req = [c \in Client |-> req[c]]
    /\ held = [c \in Client |-> held[c]]
    /\ \A c \in Client : RequestOK(c)
    /\ stale \subseteq {c \in Client : held[c].key # NoKey}

\* What a request holds that no other has made stale is what the tables say; a
\* profile whose inputs it deleted has none.
Fresh(c) ==
    c \notin stale =>
        /\ at[c] = "save" => held[c].inputs = InputsOf(req[c].id)
        /\ at[c] = "row" => InputsOf(req[c].id) = {}
        /\ at[c] = "keep" /\ held[c].key # NoKey =>
              held[c].key[2] \in DOMAIN fans /\ held[c].row = fans[held[c].key[2]]
AllFresh == \A c \in Client : Fresh(c)

-----------------------------------------------------------------------------
(* Every step keeps it.                                                    *)

\* The requests that are made are proper ones, and so is the number of their
\* inputs.
LEMMA LengthType ==
    ASSUME NEW s, ProperSeq(s)
    PROVE  Len(s) \in Nat /\ DOMAIN s = 1..Len(s)
BY DEF ProperSeq

\* What Create inserts: rows of the new profile, with ids of their own that no
\* input has, whether the client sent them or not, and each sensor once.
LEMMA Created ==
    ASSUME StoreOK, NEW c \in Client, Create(c)
    PROVE  \E given, next :
        /\ next \in Nat /\ nextId.input <= next
        /\ nextId' = Ids(nextId.profile + 1, next, nextId.fan)
        /\ inputs' = inputs \cup given
        /\ \A i \in given : /\ ProperInput(i) /\ i.profile = nextId.profile
                            /\ i.id \in Nat /\ i.id < next
        /\ \A i, j \in given : i.id = j.id => i = j
        /\ \A i \in given : \A j \in inputs : j.id # i.id
        /\ Distinct(given)
        /\ asked' = With(asked, nextId.profile, [settings |-> req[c].settings, active |-> FALSE,
                                                sensors |-> Sensors(given)])
<1> DEFINE s == req[c].inputs
           p == nextId.profile
           Given(ids) == GivenInputs(p, s, ids)
<1>0. nextId.input \in Nat \ {0} /\ MaxInput \in Nat
  BY StoreAssumption DEF StoreOK, IdsOK
<1>1. PICK ids \in [DOMAIN s -> 1..MaxInput] : \E next \in 1..(MaxInput + 1) :
          /\ Unused(ids) /\ Follows(next, {i.id : i \in Given(ids)})
          /\ inputs' = inputs \cup Given(ids) /\ nextId' = Ids(p + 1, next, nextId.fan)
          /\ asked' = With(asked, p, [settings |-> req[c].settings, active |-> FALSE,
                                     sensors |-> Sensors(Given(ids))])
  BY DEF Create
<1>2. PICK next \in 1..(MaxInput + 1) :
          /\ Unused(ids) /\ Follows(next, {i.id : i \in Given(ids)})
          /\ inputs' = inputs \cup Given(ids) /\ nextId' = Ids(p + 1, next, nextId.fan)
          /\ asked' = With(asked, p, [settings |-> req[c].settings, active |-> FALSE,
                                     sensors |-> Sensors(Given(ids))])
  BY <1>1
<1>3. next \in Nat /\ nextId.input <= next /\ \A i \in Given(ids) : i.id < next
  <2>1. next >= nextId.input /\ \A n \in {i.id : i \in Given(ids)} : next > n
    BY <1>2 DEF Follows
  <2>2. \A i \in Given(ids) : i.id \in Nat
    BY <1>0, <1>1 DEF GivenInputs
  <2> QED
    BY <1>0, <2>1, <2>2
<1>4. \A i \in Given(ids) : \E k \in DOMAIN s :
          i = [id |-> ids[k], profile |-> p, sensor |-> s[k].sensor]
  BY DEF GivenInputs
<1>5. \A i \in Given(ids) : ProperInput(i) /\ i.profile = p /\ i.id \in Nat
  BY <1>0, <1>1, <1>4 DEF ProperInput
<1>6. \A i, j \in Given(ids) : i.id = j.id => i = j
  BY <1>1, <1>2, <1>4 DEF Unused
<1>7. \A i \in Given(ids) : \A j \in inputs : j.id # i.id
  BY <1>1, <1>2, <1>4 DEF Unused
<1>8. Distinct(Given(ids))
  <2>1. NoTwice(SensorsGiven(s))
    BY DEF Create
  <2> SUFFICES ASSUME NEW i \in Given(ids), NEW j \in Given(ids), i.sensor = j.sensor PROVE i = j
    BY DEF Distinct
  <2>2. PICK k \in DOMAIN s : i = [id |-> ids[k], profile |-> p, sensor |-> s[k].sensor]
    BY <1>4
  <2>3. PICK l \in DOMAIN s : j = [id |-> ids[l], profile |-> p, sensor |-> s[l].sensor]
    BY <1>4
  <2>4. s[k].sensor = s[l].sensor
    BY <2>2, <2>3
  <2> QED
    BY <2>1, <2>2, <2>3, <2>4 DEF NoTwice, SensorsGiven
<1> HIDE DEF Given
<1> QED
  BY <1>2, <1>3, <1>5, <1>6, <1>7, <1>8

\* Ids only grow.
LEMMA IdsKept ==
    ASSUME StoreOK, [Next]_vars
    PROVE  /\ IdsOK'
           /\ nextId.profile <= nextId'.profile
           /\ nextId.input <= nextId'.input
           /\ nextId.fan <= nextId'.fan
<1> USE DEF StoreOK, IdsOK, Ids
<1> SUFFICES nextId' = nextId \/
        \E a, b, f \in Nat : nextId' = [profile |-> nextId.profile + a,
                                        input |-> nextId.input + b, fan |-> nextId.fan + f]
  OBVIOUS
<1> DEFINE Grown == \E a, b, f \in Nat : nextId' = [profile |-> nextId.profile + a,
                                        input |-> nextId.input + b, fan |-> nextId.fan + f]
<1>1. ASSUME NEW c \in Client, Create(c)
      PROVE  Grown
  <2>1. PICK next : /\ next \in Nat /\ nextId.input <= next
                    /\ nextId' = Ids(nextId.profile + 1, next, nextId.fan)
    BY <1>1, Created
  <2>2. next - nextId.input \in Nat
    BY <2>1
  <2>3. nextId' = [profile |-> nextId.profile + 1,
                   input |-> nextId.input + (next - nextId.input), fan |-> nextId.fan + 0]
    BY <2>1
  <2> QED
    BY <2>2, <2>3
<1>2. ASSUME NEW c \in Client, UpdateStores(c)
      PROVE  Grown
  <2>1. ProperRequest(req[c]) /\ Len(req[c].inputs) \in Nat
    BY <1>2, LengthType DEF UpdateStores, RequestOK, ProperRequest
  <2>2. nextId' = [profile |-> nextId.profile + 0,
                   input |-> nextId.input + Len(req[c].inputs), fan |-> nextId.fan + 0]
    BY <1>2, <2>1 DEF UpdateStores
  <2> QED
    BY <2>1, <2>2
<1>3. ASSUME NEW c \in Client, DetectKeeps(c)
      PROVE  nextId' = nextId \/ Grown
  <2>1. \/ nextId' = nextId
        \/ nextId' = [profile |-> nextId.profile + 0, input |-> nextId.input + 0,
                      fan |-> nextId.fan + 1]
    BY <1>3 DEF DetectKeeps
  <2> QED
    BY <2>1
<1>4. ASSUME NEW c \in Client,
             \/ Call(c) \/ Refused(c) \/ UpdateReads(c) \/ Preload(c) \/ Activate(c)
             \/ DeleteReads(c) \/ DeleteDeactivates(c)
      PROVE  nextId' = nextId
  BY <1>4 DEF Call, Refused, UpdateReads, Preload, Activate, DeleteReads, DeleteDeactivates, tables
<1>5. ASSUME NEW c \in Client,
             \/ DeleteFinds(c) \/ DeleteInputs(c) \/ DeleteRow(c)
             \/ FanReads(c) \/ FanSaves(c) \/ DetectFinds(c) \/ DetectPrunes(c)
      PROVE  nextId' = nextId
  BY <1>5 DEF DeleteFinds, DeleteInputs, DeleteRow, FanReads, FanSaves, DetectFinds, DetectPrunes,
     tables
<1>6. Crash \/ UNCHANGED vars => nextId' = nextId
  BY DEF Crash, tables, vars
<1> HIDE DEF Grown
<1>7. nextId' = nextId \/ Grown
  BY <1>1, <1>2, <1>3, <1>4, <1>5, <1>6 DEF Next
<1> QED
  BY <1>7 DEF Grown

\* What a request is in stays proper while the ids only grow.
LEMMA RequestStays ==
    ASSUME StoreOK, IdsOK', nextId.profile <= nextId'.profile, nextId.fan <= nextId'.fan,
           NEW d \in Client, at'[d] = at[d], req'[d] = req[d], held'[d] = held[d]
    PROVE  RequestOK(d)'
<1>1. RequestOK(d) /\ ProfileIds \subseteq ProfileIds' /\ FanIds \subseteq FanIds'
  BY DEF StoreOK, IdsOK, ProfileIds, FanIds
<1> QED
  BY <1>1 DEF RequestOK, HoldsNone, HoldsRow, HoldsKey, HoldsFan

\* Every request goes on to where it can be.
LEMMA RequestsKept ==
    ASSUME StoreOK, [Next]_vars
    PROVE  \A d \in Client : RequestOK(d)'
<1> USE DEF HoldsNone, NoHold, Holds
<1>0. /\ IdsOK' /\ nextId.profile <= nextId'.profile /\ nextId.fan <= nextId'.fan
      /\ IdsOK /\ TablesOK /\ \A d \in Client : RequestOK(d)
      /\ at = [c \in Client |-> at[c]] /\ req = [c \in Client |-> req[c]]
      /\ held = [c \in Client |-> held[c]]
  BY IdsKept DEF StoreOK
<1>1. ASSUME NEW c \in Client,
             \A d \in Client \ {c} : at'[d] = at[d] /\ req'[d] = req[d] /\ held'[d] = held[d],
             RequestOK(c)'
      PROVE  \A d \in Client : RequestOK(d)'
  BY <1>0, <1>1, RequestStays
<1>2. ASSUME NEW c \in Client, Ends(c)
      PROVE  \A d \in Client : RequestOK(d)'
  <2>0. at'[c] = "idle" /\ held'[c] = NoHold
    BY <1>0, <1>2 DEF Ends
  <2>1. RequestOK(c)'
    BY <2>0 DEF RequestOK
  <2> QED
    BY <1>0, <1>1, <1>2, <2>1 DEF Ends
<1>3. ASSUME NEW c \in Client, Call(c)
      PROVE  \A d \in Client : RequestOK(d)'
  <2>1. PICK r \in world.calls[c] :
            /\ req' = [req EXCEPT ![c] = r]
            /\ at' = [at EXCEPT ![c] = IF r.kind = "detect" THEN "find" ELSE "begin"]
    BY <1>3 DEF Call
  <2>2. ProperRequest(r) /\ at[c] = "idle" /\ UNCHANGED held
    BY <1>3, StoreAssumption DEF Call, StoreOK
  <2>3. RequestOK(c)'
    BY <1>0, <2>1, <2>2 DEF RequestOK
  <2> QED
    BY <1>0, <1>1, <2>1, <2>2, <2>3
<1>4. ASSUME NEW c \in Client, UpdateReads(c)
      PROVE  \A d \in Client : RequestOK(d)'
  <2>0. /\ at'[c] = "preload" /\ req'[c] = req[c] /\ nextId' = nextId
        /\ held'[c] = Holds(ProfileKey(req[c].id), rows[req[c].id], {}, 1)
        /\ req[c].kind = "update" /\ ProperRequest(req[c])
        /\ req[c].id \in ProfileIds /\ ProperRow(rows[req[c].id])
    BY <1>0, <1>4 DEF UpdateReads, Keeps, Goes, RequestOK, TablesOK, tables
  <2>1. RequestOK(c)'
    BY <2>0 DEF RequestOK, HoldsRow, ProfileIds
  <2> QED
    BY <1>0, <1>1, <1>4, <2>1 DEF UpdateReads, Keeps, Goes
<1>5. ASSUME NEW c \in Client, Preload(c)
      PROVE  \A d \in Client : RequestOK(d)'
  <2>0. /\ at'[c] = "save" /\ req'[c] = req[c] /\ nextId' = nextId
        /\ held'[c] = Holds(held[c].key, held[c].row, InputsOf(req[c].id), 1)
        /\ req[c].kind = "update" /\ ProperRequest(req[c]) /\ HoldsRow(c)
    BY <1>0, <1>5 DEF Preload, Keeps, Goes, RequestOK, tables
  <2>1. RequestOK(c)'
    BY <2>0 DEF RequestOK, HoldsRow, InputsOf, ProfileIds
  <2> QED
    BY <1>0, <1>1, <1>5, <2>1 DEF Preload, Keeps, Goes
<1>6. ASSUME NEW c \in Client, DeleteReads(c) \/ DeleteDeactivates(c)
      PROVE  \A d \in Client : RequestOK(d)'
  <2>1. RequestOK(c)'
    BY <1>0, <1>6 DEF DeleteReads, DeleteDeactivates, Goes, RequestOK
  <2> QED
    BY <1>0, <1>1, <1>6, <2>1 DEF DeleteReads, DeleteDeactivates, Goes
<1>7. ASSUME NEW c \in Client, DeleteFinds(c)
      PROVE  \A d \in Client : RequestOK(d)'
  <2>0. /\ at'[c] = "inputs" /\ req'[c] = req[c] /\ nextId' = nextId
        /\ held'[c] = Holds(ProfileKey(req[c].id), Nothing, {}, 1)
        /\ req[c].kind = "delete" /\ ProperRequest(req[c]) /\ req[c].id \in ProfileIds
    BY <1>0, <1>7 DEF DeleteFinds, Keeps, Goes, RequestOK, TablesOK, tables
  <2>1. RequestOK(c)'
    BY <2>0 DEF RequestOK, HoldsKey, ProfileIds
  <2> QED
    BY <1>0, <1>1, <1>7, <2>1 DEF DeleteFinds, Keeps, Goes
<1>8. ASSUME NEW c \in Client, DeleteInputs(c)
      PROVE  \A d \in Client : RequestOK(d)'
  <2>1. RequestOK(c)'
    BY <1>0, <1>8 DEF DeleteInputs, Goes, RequestOK, HoldsKey, ProfileIds
  <2> QED
    BY <1>0, <1>1, <1>8, <2>1 DEF DeleteInputs, Goes
<1>9. ASSUME NEW c \in Client, FanReads(c)
      PROVE  \A d \in Client : RequestOK(d)'
  <2>0. /\ at'[c] = "saveFan" /\ req'[c] = req[c] /\ nextId' = nextId
        /\ held'[c] = Holds(FanKey(req[c].id), fans[req[c].id], {}, 1)
        /\ req[c].kind = "put" /\ ProperRequest(req[c])
        /\ req[c].id \in FanIds /\ ProperFan(fans[req[c].id])
        /\ "zone" \in DOMAIN req[c].change => req[c].change.zone \in Zone
    BY <1>0, <1>9 DEF FanReads, Keeps, Goes, RequestOK, TablesOK, tables
  <2>1. RequestOK(c)'
    BY <2>0 DEF RequestOK, HoldsFan, FanIds
  <2> QED
    BY <1>0, <1>1, <1>9, <2>1 DEF FanReads, Keeps, Goes
<1>10. ASSUME NEW c \in Client, DetectFinds(c)
       PROVE  \A d \in Client : RequestOK(d)'
  <2> DEFINE same == {f \in DOMAIN fans : fans[f].sensor = req[c].found[held[c].next].sensor}
             f == CHOOSE g \in same : \A h \in same : g <= h
  <2>0. /\ at[c] = "find" /\ held[c].next <= Len(req[c].found)
        /\ IF same = {} THEN UNCHANGED held ELSE Keeps(c, Holds(FanKey(f), fans[f], {}, held[c].next))
        /\ Goes(c, "keep") /\ UNCHANGED <<world, tables, history>>
    BY <1>10 DEF DetectFinds
  <2>1. RequestOK(c)'
    <3> HIDE DEF f, same
    <3>1. CASE same = {}
      BY <1>0, <2>0, <3>1 DEF Goes, RequestOK
    <3>2. CASE same # {} 
      <4>1. f \in DOMAIN fans
        <5>1. same \subseteq Nat
          BY <1>0 DEF same, IdsOK, TablesOK, FanIds
        <5>2. \E g \in same : \A h \in same : g <= h
          BY <3>2, <5>1, LeastNumber
        <5> QED
          BY <5>2 DEF f, same
      <4>2. /\ at'[c] = "keep" /\ req'[c] = req[c] /\ nextId' = nextId
            /\ held'[c] = Holds(FanKey(f), fans[f], {}, held[c].next)
            /\ req[c].kind = "detect" /\ ProperRequest(req[c])
            /\ held[c].next \in Nat \ {0} /\ held[c].next <= Len(req[c].found)
            /\ f \in FanIds /\ ProperFan(fans[f])
        BY <1>0, <2>0, <3>2, <4>1 DEF Keeps, Goes, RequestOK, TablesOK, tables
      <4> QED
        BY <4>2 DEF RequestOK, HoldsFan, FanIds
    <3> QED
      BY <3>1, <3>2
  <2> HIDE DEF f, same
  <2> QED
    BY <1>0, <1>1, <2>0, <2>1 DEF Keeps, Goes
<1>11. ASSUME NEW c \in Client, DetectKeeps(c)
       PROVE  \A d \in Client : RequestOK(d)'
  <2>0. /\ at[c] = "keep" /\ Keeps(c, Holds(NoKey, Nothing, {}, held[c].next + 1))
        /\ Goes(c, "find")
    BY <1>11 DEF DetectKeeps
  <2>1. /\ at'[c] = "find" /\ req'[c] = req[c]
        /\ held'[c] = Holds(NoKey, Nothing, {}, held[c].next + 1)
        /\ req[c].kind = "detect" /\ ProperRequest(req[c]) /\ held[c].next \in Nat
    BY <1>0, <2>0 DEF Keeps, Goes, RequestOK
  <2>2. RequestOK(c)'
    BY <2>1 DEF RequestOK
  <2> QED
    BY <1>0, <1>1, <2>0, <2>2 DEF Keeps, Goes
<1>12. CASE Crash
  <2> TAKE d \in Client
  <2>1. at'[d] = "idle" /\ held'[d] = NoHold
    BY <1>12 DEF Crash
  <2> QED
    BY <2>1 DEF RequestOK
<1>13. CASE UNCHANGED <<at, req, held>>
  BY <1>0, <1>13, RequestStays
<1>14. ASSUME NEW c \in Client,
              \/ Refused(c) \/ Create(c) \/ UpdateStores(c) \/ Activate(c) \/ DeleteRow(c)
              \/ FanSaves(c) \/ DetectPrunes(c)
       PROVE  \A d \in Client : RequestOK(d)'
  <2>1. Ends(c)
    BY <1>14 DEF Refused, Create, UpdateStores, Activate, DeleteRow, FanSaves, DetectPrunes
  <2> QED
    BY <1>2, <2>1
<1> QED
  BY <1>3, <1>4, <1>5, <1>6, <1>7, <1>8, <1>9, <1>10, <1>11, <1>12, <1>13, <1>14
     DEF Next, vars, requests

\* What profiles were asked to be keeps its shape when one is added or replaced.
LEMMA AskedGrows ==
    ASSUME AskedOK, ProfileIds \subseteq ProfileIds', NEW p \in ProfileIds',
           \E settings, active, sensors : asked' = With(asked, p, Wish(settings, active, sensors))
    PROVE  AskedOK'
<1>1. PICK settings, active, sensors : asked' = With(asked, p, Wish(settings, active, sensors))
  OBVIOUS
<1>2. DOMAIN asked' \subseteq ProfileIds'
  BY <1>1 DEF AskedOK, With
<1>3. ASSUME NEW q \in DOMAIN asked'
      PROVE  asked'[q] = Wish(asked'[q].settings, asked'[q].active, asked'[q].sensors)
  BY <1>1, <1>3 DEF AskedOK, With, Wish
<1> QED
  BY <1>2, <1>3 DEF AskedOK

\* Rows and fans stay proper, and their ids stay those given out.
LEMMA TablesKept ==
    ASSUME StoreOK, [Next]_vars
    PROVE  TablesOK'
<1>0. /\ IdsOK' /\ nextId.profile <= nextId'.profile /\ nextId.fan <= nextId'.fan
      /\ IdsOK /\ TablesOK /\ \A d \in Client : RequestOK(d)
  BY IdsKept DEF StoreOK
<1>1. ProfileIds \subseteq ProfileIds' /\ FanIds \subseteq FanIds'
  BY <1>0 DEF IdsOK, ProfileIds, FanIds
<1>2. ASSUME NEW c \in Client, Create(c)
      PROVE  TablesOK'
  <2> DEFINE row == Row(req[c].settings.algorithm, req[c].settings.params, FALSE)
  <2>1. nextId.profile \in ProfileIds'
    BY <1>0, <1>2 DEF Create, IdsOK, Ids, ProfileIds
  <2>2. ProperRow(row)
    BY DEF ProperRow, Row
  <2>3. /\ rows' = With(rows, nextId.profile, row)
        /\ \E settings, active, sensors :
              asked' = With(asked, nextId.profile, Wish(settings, active, sensors))
        /\ fans' = fans /\ chosen' = chosen /\ emptied' = emptied
    BY <1>2 DEF Create, Wish
  <2> HIDE DEF row
  <2>4. AskedOK'
    BY <1>0, <1>1, <2>1, <2>3, AskedGrows DEF TablesOK
  <2> QED
    BY <1>0, <1>1, <2>1, <2>2, <2>3, <2>4 DEF TablesOK, With
<1>3. ASSUME NEW c \in Client, UpdateStores(c)
      PROVE  TablesOK'
  <2> DEFINE row == Merged(held[c].row, req[c].change)
  <2>1. req[c].id \in ProfileIds /\ ProperRow(row)
    BY <1>0, <1>3, MergedRow DEF UpdateStores, RequestOK, ProperRequest, HoldsRow
  <2>2. /\ rows' = With(rows, req[c].id, row)
        /\ \E settings, active, sensors :
              asked' = With(asked, req[c].id, Wish(settings, active, sensors))
        /\ fans' = fans /\ chosen' = chosen /\ emptied' \subseteq emptied
    BY <1>3 DEF UpdateStores, Wish
  <2> HIDE DEF row
  <2>3. AskedOK'
    BY <1>0, <1>1, <2>1, <2>2, AskedGrows DEF TablesOK
  <2> QED
    BY <1>0, <1>1, <2>1, <2>2, <2>3 DEF TablesOK, With
<1>4. ASSUME NEW c \in Client, NEW p, NEW on, SetActive(c, p, on), UNCHANGED <<fans, chosen, emptied, nextId>>
      PROVE  TablesOK'
  <2>1. ProfileIds' = ProfileIds /\ FanIds' = FanIds
    BY <1>4 DEF ProfileIds, FanIds
  <2>2. DOMAIN rows' = DOMAIN rows /\ DOMAIN asked' = DOMAIN asked
    BY <1>4 DEF SetActive
  <2>3. ASSUME NEW q \in DOMAIN rows
        PROVE  ProperRow(rows'[q])
    <3>1. ProperRow(rows[q]) /\ (rows'[q] = rows[q] \/ rows'[q] = [rows[q] EXCEPT !.active = on])
      BY <1>0, <1>4 DEF SetActive, TablesOK
    <3> QED
      BY <3>1 DEF ProperRow, Row
  <2>4. AskedOK'
    <3> SUFFICES ASSUME NEW q \in DOMAIN asked
                 PROVE  asked'[q] = Wish(asked'[q].settings, asked'[q].active, asked'[q].sensors)
      BY <1>0, <2>1, <2>2 DEF TablesOK, AskedOK
    <3>1. /\ asked[q] = Wish(asked[q].settings, asked[q].active, asked[q].sensors)
          /\ asked'[q] = asked[q] \/ asked'[q] = [asked[q] EXCEPT !.active = on]
      BY <1>0, <1>4 DEF SetActive, TablesOK, AskedOK
    <3> QED
      BY <3>1 DEF Wish
  <2> QED
    BY <1>0, <1>4, <2>1, <2>2, <2>3, <2>4 DEF TablesOK
<1>5. ASSUME NEW c \in Client, DeleteInputs(c) \/ DeleteRow(c)
      PROVE  TablesOK'
  <2>1. /\ rows' = rows \/ rows' = Without(rows, {req[c].id})
        /\ asked' = asked \/ asked' = Without(asked, {req[c].id})
        /\ emptied' \subseteq emptied \cup {req[c].id}
        /\ fans' = fans /\ chosen' = chosen
    BY <1>5 DEF DeleteInputs, DeleteRow
  <2>2. req[c].id \in ProfileIds
    BY <1>0, <1>5 DEF DeleteInputs, DeleteRow, RequestOK, HoldsKey
  <2> QED
    BY <1>0, <1>1, <2>1, <2>2 DEF TablesOK, AskedOK, Without
<1>6. ASSUME NEW c \in Client, FanSaves(c)
      PROVE  TablesOK'
  <2> DEFINE fan == Merged(held[c].row, req[c].change)
  <2>1. req[c].id \in FanIds /\ ProperFan(fan)
    BY <1>0, <1>6, MergedFan DEF FanSaves, RequestOK, ProperRequest, HoldsFan
  <2>2. /\ fans' = With(fans, req[c].id, fan)
        /\ \E value : chosen' = With(chosen, req[c].id, value)
        /\ rows' = rows /\ asked' = asked /\ emptied' = emptied
    BY <1>6 DEF FanSaves
  <2> HIDE DEF fan
  <2> QED
    BY <1>0, <1>1, <2>1, <2>2 DEF TablesOK, AskedOK, With
<1>7. ASSUME NEW c \in Client, DetectKeeps(c)
      PROVE  TablesOK'
  <2> DEFINE d == req[c].found[held[c].next]
             f == IF held[c].key = NoKey THEN nextId.fan ELSE held[c].key[2]
             fan == IF held[c].key = NoKey THEN Fan(d.sensor, d.name, d.zone, "none")
                    ELSE Seeded(held[c].row, d)
  <2>1. /\ fans' = fans \/ fans' = With(fans, f, fan)
        /\ nextId' = [nextId EXCEPT !.fan = IF f = @ THEN @ + 1 ELSE @]
        /\ rows' = rows /\ asked' = asked /\ chosen' = chosen /\ emptied' = emptied
    BY <1>7 DEF DetectKeeps
  <2>2. d.zone \in Zone \cup {NoZone}
    <3>1. /\ ProperRequest(req[c]) /\ req[c].kind = "detect"
          /\ held[c].next \in Nat \ {0} /\ held[c].next <= Len(req[c].found)
      BY <1>0, <1>7 DEF DetectKeeps, RequestOK
    <3>2. held[c].next \in DOMAIN req[c].found
      BY <3>1, LengthType DEF ProperRequest
    <3> QED
      BY <3>1, <3>2 DEF ProperRequest
  <2>3. f \in FanIds' /\ ProperFan(fan)
    <3>1. CASE held[c].key = NoKey
      <4>1. f = nextId.fan /\ fan = Fan(d.sensor, d.name, d.zone, "none")
        BY <3>1
      <4> HIDE DEF d, f, fan
      <4>2. f \in FanIds'
        BY <1>0, <2>1, <4>1 DEF IdsOK, Ids, FanIds
      <4> QED
        BY <2>2, <4>1, <4>2 DEF ProperFan, Fan
    <3>2. CASE held[c].key # NoKey
      <4>1. PICK g \in FanIds : HoldsFan(c, g)
        BY <1>0, <1>7, <3>2 DEF DetectKeeps, RequestOK, HoldsNone
      <4>2. f = g /\ ProperFan(held[c].row)
        BY <3>2, <4>1 DEF HoldsFan, FanKey
      <4>3. fan = Seeded(held[c].row, d)
        BY <3>2
      <4> HIDE DEF d, f, fan
      <4> QED
        BY <1>1, <2>2, <4>1, <4>2, <4>3, SeededFan
    <3> QED
      BY <3>1, <3>2
  <2> HIDE DEF d, f, fan
  <2> QED
    BY <1>0, <1>1, <2>1, <2>3 DEF TablesOK, AskedOK, With
<1>8. ASSUME NEW c \in Client, DetectPrunes(c)
      PROVE  TablesOK'
  <2>1. \E gone : fans' = Without(fans, gone) /\ chosen' = Without(chosen, gone)
    BY <1>8 DEF DetectPrunes
  <2>2. rows' = rows /\ asked' = asked /\ emptied' = emptied
    BY <1>8 DEF DetectPrunes
  <2> QED
    BY <1>0, <1>1, <2>1, <2>2 DEF TablesOK, AskedOK, Without
<1>9. CASE UNCHANGED <<tables, asked, emptied, chosen>>
  BY <1>0, <1>9 DEF TablesOK, AskedOK, ProfileIds, FanIds, tables
<1>10. ASSUME NEW c \in Client, Activate(c) \/ DeleteDeactivates(c)
       PROVE  TablesOK'
  <2>1. UNCHANGED <<inputs, fans, chosen, emptied, nextId>>
    BY <1>10 DEF Activate, DeleteDeactivates
  <2>2. (\E on : SetActive(c, req[c].id, on)) \/ UNCHANGED <<rows, asked>>
    BY <1>10 DEF Activate, DeleteDeactivates
  <2> QED
    BY <1>4, <1>9, <2>1, <2>2 DEF tables
<1>11. ASSUME NEW c \in Client,
              \/ Call(c) \/ Refused(c) \/ UpdateReads(c) \/ Preload(c) \/ DeleteReads(c)
              \/ DeleteFinds(c) \/ FanReads(c) \/ DetectFinds(c)
       PROVE  UNCHANGED <<tables, asked, emptied, chosen>>
  BY <1>11 DEF Call, Refused, UpdateReads, Preload, DeleteReads, DeleteFinds, FanReads, DetectFinds,
     history
<1> QED
  BY <1>2, <1>3, <1>5, <1>6, <1>7, <1>8, <1>9, <1>10, <1>11 DEF Next, vars, history, Crash

\* The rows of new inputs have ids of their own, none given out before.
LEMMA NewRows ==
    ASSUME IdsOK, NEW p, NEW s, ProperSeq(s)
    PROVE  /\ \A i \in NewInputs(p, s) :
                 /\ ProperInput(i) /\ i.profile = p
                 /\ i.id \in Nat /\ nextId.input <= i.id /\ i.id < nextId.input + Len(s)
           /\ \A i, j \in NewInputs(p, s) : i.id = j.id => i = j
<1>1. Len(s) \in Nat /\ DOMAIN s = 1..Len(s) /\ nextId.input \in Nat
  BY LengthType DEF IdsOK
<1>2. ASSUME NEW i \in NewInputs(p, s)
      PROVE  /\ ProperInput(i) /\ i.profile = p
             /\ i.id \in Nat /\ nextId.input <= i.id /\ i.id < nextId.input + Len(s)
  <2>1. PICK k \in 1..Len(s) : i = [id |-> nextId.input + k - 1, profile |-> p, sensor |-> s[k]]
    BY <1>1 DEF NewInputs
  <2>2. i.id = nextId.input + k - 1 /\ i.profile = p /\ i.sensor = s[k]
    BY <2>1
  <2> QED
    BY <1>1, <2>1, <2>2 DEF ProperInput
<1>3. ASSUME NEW i \in NewInputs(p, s), NEW j \in NewInputs(p, s), i.id = j.id
      PROVE  i = j
  <2>1. PICK k \in 1..Len(s) : i = [id |-> nextId.input + k - 1, profile |-> p, sensor |-> s[k]]
    BY <1>1 DEF NewInputs
  <2>2. PICK l \in 1..Len(s) : j = [id |-> nextId.input + l - 1, profile |-> p, sensor |-> s[l]]
    BY <1>1 DEF NewInputs
  <2>3. nextId.input + k - 1 = nextId.input + l - 1
    BY <1>3, <2>1, <2>2
  <2>4. k = l
    BY <1>1, <2>3
  <2> QED
    BY <2>1, <2>2, <2>4
<1> QED
  BY <1>2, <1>3

\* What saving a profile with the inputs p was read with leaves: proper inputs with
\* ids of their own, those of other profiles untouched unless one of theirs has an
\* id that was read, and all as they were when what was read is what there is.
LEMMA SavedAgain ==
    ASSUME IdsOK, InputsOK, NEW c \in Client, NEW p \in ProfileIds,
           \A i \in held[c].inputs : i.profile = p
    PROVE  /\ \A i \in Again(p, held[c].inputs) :
                 ProperInput(i) /\ i.profile \in ProfileIds /\ i.id \in Nat /\ i.id < nextId.input
           /\ \A i, j \in Again(p, held[c].inputs) : i.id = j.id => i = j
           /\ \A q : q \notin {p} \cup Owners(held[c].inputs) =>
                 {i \in Again(p, held[c].inputs) : i.profile = q} = InputsOf(q)
           /\ held[c].inputs = InputsOf(p) => Again(p, held[c].inputs) = inputs
<1> DEFINE given == held[c].inputs
           Kept(i) == IF \E h \in given : h.id = i.id THEN [i EXCEPT !.profile = p] ELSE i
           saved == Again(p, given)
<1>1. \A i \in inputs \cup given :
          ProperInput(i) /\ i.profile \in ProfileIds /\ i.id \in Nat /\ i.id < nextId.input
  BY DEF InputsOK, Known
<1>2. \A i \in inputs : /\ ProperInput(Kept(i)) /\ Kept(i).profile \in {i.profile, p}
                        /\ Kept(i).id = i.id
  BY <1>1 DEF ProperInput
<1>3. saved = {Kept(i) : i \in inputs} \cup {h \in given : \A i \in inputs : h.id # i.id}
  BY DEF Again
<1>4. ASSUME NEW i \in saved
      PROVE  ProperInput(i) /\ i.profile \in ProfileIds /\ i.id \in Nat /\ i.id < nextId.input
  <2>1. CASE i \in given
    BY <1>1, <2>1
  <2>2. CASE i \notin given
    <3>1. PICK j \in inputs : i = Kept(j)
      BY <1>3, <2>2
    <3> QED
      BY <1>1, <1>2, <3>1
  <2> QED
    BY <2>1, <2>2
<1>5. ASSUME NEW i \in saved, NEW j \in saved, i.id = j.id
      PROVE  i = j
  <2>1. \A k, l \in inputs : k.id = l.id => k = l
    BY DEF InputsOK
  <2>2. \A k, l \in given : k.id = l.id => k = l
    BY DEF InputsOK
  <2>3. (\E k \in inputs : i = Kept(k)) \/ (i \in given /\ \A k \in inputs : i.id # k.id)
    BY <1>3
  <2>4. (\E k \in inputs : j = Kept(k)) \/ (j \in given /\ \A k \in inputs : j.id # k.id)
    BY <1>3
  <2> HIDE DEF Kept, saved, given
  <2> QED
    BY <1>2, <1>5, <2>1, <2>2, <2>3, <2>4
<1>6. ASSUME NEW q, q \notin {p} \cup Owners(given)
      PROVE  {i \in saved : i.profile = q} = InputsOf(q)
  <2>1. ASSUME NEW i \in saved, i.profile = q
        PROVE  i \in InputsOf(q)
    <3>1. PICK k \in inputs : i = Kept(k)
      BY <1>3, <1>6, <2>1
    <3>2. Kept(k) = k
      BY <1>2, <1>6, <2>1, <3>1 DEF ProperInput
    <3> QED
      BY <2>1, <3>1, <3>2 DEF InputsOf
  <2>2. ASSUME NEW i \in InputsOf(q)
        PROVE  i \in saved /\ i.profile = q
    <3>1. i \in inputs /\ i.profile = q
      BY DEF InputsOf
    <3>2. ~ \E h \in given : h.id = i.id
      BY <1>6, <3>1 DEF Owners
    <3> QED
      BY <1>3, <3>1, <3>2
  <2> QED
    BY <2>1, <2>2
<1>7. ASSUME given = InputsOf(p)
      PROVE  saved = inputs
  <2>1. ASSUME NEW i \in inputs
        PROVE  Kept(i) = i
    <3>1. ASSUME NEW h \in given, h.id = i.id
          PROVE  i.profile = p
      <4>1. h \in inputs /\ h.profile = p
        BY <1>7 DEF InputsOf
      <4> QED
        BY <3>1, <4>1 DEF InputsOK
    <3> QED
      BY <1>1, <3>1 DEF ProperInput
  <2>2. \A h \in given : h \in inputs
    BY <1>7 DEF InputsOf
  <2> HIDE DEF Kept, given, saved
  <2> QED
    BY <1>3, <2>1, <2>2
<1> HIDE DEF saved
<1> QED
  BY <1>4, <1>5, <1>6, <1>7 DEF saved

\* An input's id is its own, in the table and in the hands of an update.
LEMMA InputsKept ==
    ASSUME StoreOK, [Next]_vars
    PROVE  InputsOK'
<1>0. /\ IdsOK' /\ nextId.profile <= nextId'.profile /\ nextId.input <= nextId'.input
      /\ IdsOK /\ InputsOK /\ \A d \in Client : RequestOK(d)
      /\ held = [c \in Client |-> held[c]]
      /\ ProfileIds \subseteq ProfileIds'
      /\ nextId.input \in Nat /\ nextId'.input \in Nat
  BY IdsKept DEF StoreOK, IdsOK, ProfileIds
<1>a. \A i \in Known : ProperInput(i) /\ i.profile \in ProfileIds'
                       /\ i.id \in Nat /\ i.id < nextId'.input
  BY <1>0 DEF InputsOK
<1>b. ASSUME NEW c \in Client, Ends(c),
             \A i \in inputs' : /\ ProperInput(i) /\ i.profile \in ProfileIds'
                                /\ i.id \in Nat /\ i.id < nextId'.input,
             \A i, j \in inputs' : i.id = j.id => i = j
      PROVE  InputsOK'
  <2>1. \A d \in Client : held'[d].inputs \subseteq held[d].inputs
    BY <1>0, <1>b DEF Ends, NoHold, Holds
  <2>2. Known' \subseteq inputs' \cup Known
    BY <2>1 DEF Known
  <2>3. \A d \in Client : \A i, j \in held'[d].inputs : i.id = j.id => i = j
    BY <1>0, <2>1 DEF InputsOK
  <2> QED
    BY <1>a, <1>b, <2>2, <2>3 DEF InputsOK
<1>1. ASSUME NEW c \in Client, Create(c)
      PROVE  InputsOK'
  <2>1. PICK given, next :
            /\ nextId' = Ids(nextId.profile + 1, next, nextId.fan)
            /\ inputs' = inputs \cup given
            /\ \A i \in given : /\ ProperInput(i) /\ i.profile = nextId.profile
                                /\ i.id \in Nat /\ i.id < next
            /\ \A i, j \in given : i.id = j.id => i = j
            /\ \A i \in given : \A j \in inputs : j.id # i.id
    BY <1>1, Created
  <2>2. nextId.profile \in ProfileIds' /\ nextId'.input = next
    BY <1>0, <2>1 DEF IdsOK, Ids, ProfileIds
  <2>3. \A i, j \in inputs' : i.id = j.id => i = j
    BY <1>0, <2>1 DEF InputsOK
  <2>4. Ends(c)
    BY <1>1 DEF Create
  <2> QED
    BY <1>a, <1>b, <2>1, <2>2, <2>3, <2>4 DEF Known
<1>2. ASSUME NEW c \in Client, UpdateStores(c)
      PROVE  InputsOK'
  <2>0. PICK p, given, saved : /\ p = req[c].id /\ given = NewInputs(p, req[c].inputs)
                               /\ saved = Again(p, held[c].inputs)
    OBVIOUS
  <2>1. /\ inputs' = IF req[c].replace THEN {i \in saved : i.profile # p} \cup given ELSE saved
        /\ nextId'.input = nextId.input + Len(req[c].inputs)
        /\ Ends(c)
    BY <1>0, <1>2, <2>0 DEF UpdateStores, IdsOK, Ids
  <2>2. /\ ProperSeq(req[c].inputs) /\ p \in ProfileIds
        /\ \A i \in held[c].inputs : i.profile = p
    BY <1>0, <1>2, <2>0 DEF UpdateStores, RequestOK, ProperRequest, HoldsRow
  <2>3. /\ \A i \in given : /\ ProperInput(i) /\ i.profile = p
                           /\ i.id \in Nat /\ nextId.input <= i.id /\ i.id < nextId'.input
        /\ \A i, j \in given : i.id = j.id => i = j
    BY <1>0, <2>0, <2>1, <2>2, NewRows
  <2>4. /\ \A i \in saved : /\ ProperInput(i) /\ i.profile \in ProfileIds
                           /\ i.id \in Nat /\ i.id < nextId.input
        /\ \A i, j \in saved : i.id = j.id => i = j
    BY <1>0, <2>0, <2>2, SavedAgain
  <2>5. \A i \in inputs' : i \in saved \/ i \in given
    BY <2>1
  <2>6. \A i \in inputs' : ProperInput(i) /\ i.profile \in ProfileIds'
                           /\ i.id \in Nat /\ i.id < nextId'.input
    BY <1>0, <2>2, <2>3, <2>4, <2>5
  <2>7. \A i \in given : \A j \in saved : i.id # j.id
    BY <1>0, <2>3, <2>4
  <2>8. \A i, j \in inputs' : i.id = j.id => i = j
    BY <2>3, <2>4, <2>5, <2>7
  <2> QED
    BY <1>b, <2>1, <2>6, <2>8
<1>4. ASSUME inputs' \subseteq inputs,
             \A d \in Client : held'[d].inputs \subseteq inputs \/ held'[d].inputs \subseteq held[d].inputs
      PROVE  InputsOK'
  <2>1. Known' \subseteq Known
    BY <1>4 DEF Known
  <2>2. \A d \in Client : \A i, j \in held'[d].inputs : i.id = j.id => i = j
    BY <1>0, <1>4 DEF InputsOK
  <2> QED
    BY <1>0, <1>a, <1>4, <2>1, <2>2 DEF InputsOK
<1>5. ASSUME NEW c \in Client, inputs' \subseteq inputs, NEW key, NEW row, NEW given, NEW next,
             given \subseteq inputs, Keeps(c, Holds(key, row, given, next)) \/ UNCHANGED held
      PROVE  InputsOK'
  BY <1>0, <1>4, <1>5 DEF Keeps, Holds
<1>6. ASSUME NEW c \in Client, inputs' \subseteq inputs, Ends(c)
      PROVE  InputsOK'
  BY <1>0, <1>4, <1>6 DEF Ends, NoHold, Holds
<1>7. CASE Crash
  BY <1>4, <1>7 DEF Crash, NoHold, Holds, tables
<1>8. ASSUME NEW c \in Client, UpdateReads(c) \/ Preload(c) \/ DeleteFinds(c) \/ FanReads(c)
             \/ DetectFinds(c) \/ DetectKeeps(c)
      PROVE  InputsOK'
  <2>1. CASE Preload(c)
    <3>1. InputsOf(req[c].id) \subseteq inputs
      BY DEF InputsOf
    <3> QED
      BY <1>5, <2>1, <3>1 DEF Preload, tables
  <2>2. CASE DetectFinds(c)
    BY <1>5, <2>2 DEF DetectFinds, tables
  <2>3. CASE DetectKeeps(c)
    BY <1>5, <2>3 DEF DetectKeeps
  <2>4. CASE UpdateReads(c) \/ DeleteFinds(c) \/ FanReads(c)
    BY <1>5, <2>4 DEF UpdateReads, DeleteFinds, FanReads, tables
  <2> QED
    BY <1>8, <2>1, <2>2, <2>3, <2>4
<1>9. CASE UNCHANGED held /\ inputs' \subseteq inputs
  BY <1>4, <1>9
<1> QED
  BY <1>1, <1>2, <1>6, <1>7, <1>8, <1>9
     DEF Next, vars, requests, tables, Call, Refused, Activate, DeleteReads, DeleteDeactivates,
         DeleteInputs, DeleteRow, FanSaves, DetectPrunes

\* Keys are the same only for the same row of the same table.
LEMMA Keys ==
    ASSUME NEW p, NEW q
    PROVE  /\ ProfileKey(p) # NoKey /\ FanKey(p) # NoKey /\ ProfileKey(p) # FanKey(q)
           /\ ProfileKey(p) = ProfileKey(q) => p = q
           /\ FanKey(p) = FanKey(q) => p = q
           /\ FanKey(p)[2] = p
<1>1. FanKey(p)[2] = p /\ ProfileKey(p)[2] = p /\ FanKey(q)[2] = q /\ ProfileKey(q)[2] = q
  BY DEF ProfileKey, FanKey
<1>2. ProfileKey(p)[1] = "profile" /\ FanKey(p)[1] = "fan" /\ FanKey(q)[1] = "fan"
  BY DEF ProfileKey, FanKey
<1>3. Len(ProfileKey(p)) = 2 /\ Len(FanKey(p)) = 2 /\ Len(NoKey) = 0
  BY DEF ProfileKey, FanKey, NoKey
<1> QED
  BY <1>1, <1>2, <1>3

\* Only what is held can be stale.
LEMMA StaleKept ==
    ASSUME StoreOK, [Next]_vars
    PROVE  stale' \subseteq {c \in Client : held'[c].key # NoKey}
<1>0. /\ \A d \in Client : RequestOK(d)
      /\ held = [c \in Client |-> held[c]]
      /\ stale \subseteq {c \in Client : held[c].key # NoKey}
  BY DEF StoreOK
<1>1. ASSUME NEW c \in Client, \A d \in Client \ {c} : held'[d] = held[d],
             \A d \in stale' : d \in stale \/ (d \in Client /\ held[d].key # NoKey),
             c \notin stale' \/ held'[c].key # NoKey
      PROVE  stale' \subseteq {d \in Client : held'[d].key # NoKey}
  BY <1>0, <1>1
<1>2. ASSUME NEW c \in Client, NEW keys, NEW whole, NoKey \notin keys, Changes(c, keys, whole),
             \A d \in Client \ {c} : held'[d] = held[d]
      PROVE  stale' \subseteq {d \in Client : held'[d].key # NoKey}
  BY <1>1, <1>2 DEF Changes
<1>3. ASSUME NEW c \in Client, Ends(c) \/ (\E what : Keeps(c, what)) \/ UNCHANGED held
      PROVE  \A d \in Client \ {c} : held'[d] = held[d]
  BY <1>0, <1>3 DEF Ends, Keeps
<1>4. CASE UNCHANGED <<held, stale>>
  BY <1>0, <1>4
<1>5. ASSUME NEW c \in Client, Refused(c) \/ DetectPrunes(c) \/ Create(c)
      PROVE  stale' \subseteq {d \in Client : held'[d].key # NoKey}
  <2>1. \A d \in stale' : d \in stale \/ (d \in Client /\ held[d].key # NoKey)
    <3>1. CASE DetectPrunes(c)
      <4>1. stale' \subseteq stale \cup {d \in Client : \E f : held[d].key = FanKey(f)}
        BY <3>1 DEF DetectPrunes
      <4> QED
        BY <4>1, Keys
    <3> QED
      BY <1>5, <3>1 DEF Refused, Create
  <2>2. c \notin stale'
    BY <1>0, <1>5 DEF Refused, DetectPrunes, Create, RequestOK, HoldsNone
  <2>3. Ends(c)
    BY <1>5 DEF Refused, DetectPrunes, Create
  <2> QED
    BY <1>1, <1>3, <2>1, <2>2, <2>3
<1>6. ASSUME NEW c \in Client,
             UpdateStores(c) \/ Activate(c) \/ DeleteDeactivates(c) \/ FanSaves(c)
      PROVE  stale' \subseteq {d \in Client : held'[d].key # NoKey}
  <2>1. \A d \in Client \ {c} : held'[d] = held[d]
    <3>1. Ends(c) \/ UNCHANGED held
      BY <1>6 DEF UpdateStores, Activate, DeleteDeactivates, FanSaves
    <3> QED
      BY <1>3, <3>1
  <2>2. CASE UpdateStores(c)
    <3>1. PICK keys : /\ keys = {ProfileKey(q) : q \in {req[c].id} \cup Owners(held[c].inputs)}
                      /\ Changes(c, keys, req[c].replace)
      BY <2>2 DEF UpdateStores
    <3>2. NoKey \notin keys
      BY <3>1, Keys
    <3> QED
      BY <1>2, <2>1, <3>1, <3>2
  <2>3. CASE FanSaves(c)
    <3>1. Changes(c, {FanKey(req[c].id)}, TRUE) /\ NoKey \notin {FanKey(req[c].id)}
      BY <2>3, Keys DEF FanSaves
    <3> QED
      BY <1>2, <2>1, <3>1
  <2>4. CASE Activate(c) \/ DeleteDeactivates(c)
    <3>1. Changes(c, {ProfileKey(req[c].id)}, FALSE) \/ UNCHANGED <<held, stale>>
      BY <2>4 DEF Activate, DeleteDeactivates, SetActive
    <3>2. NoKey \notin {ProfileKey(req[c].id)}
      BY Keys
    <3> QED
      BY <1>2, <1>4, <2>1, <3>1, <3>2
  <2> QED
    BY <1>6, <2>2, <2>3, <2>4
<1>7. ASSUME NEW c \in Client, UpdateReads(c) \/ DeleteFinds(c) \/ FanReads(c) \/ Preload(c)
      PROVE  stale' \subseteq {d \in Client : held'[d].key # NoKey}
  <2>1. \A d \in Client \ {c} : held'[d] = held[d]
    BY <1>3, <1>7 DEF UpdateReads, DeleteFinds, FanReads, Preload
  <2>2. UNCHANGED stale
    BY <1>7 DEF UpdateReads, DeleteFinds, FanReads, Preload, history
  <2>3. held'[c].key # NoKey
    <3>1. CASE Preload(c)
      <4>1. held[c].key = ProfileKey(req[c].id)
        BY <1>0, <3>1 DEF Preload, RequestOK, HoldsRow
      <4>2. held'[c].key = held[c].key
        BY <1>0, <3>1 DEF Preload, Keeps, Holds
      <4> QED
        BY <4>1, <4>2, Keys
    <3> QED
      BY <1>0, <1>7, <3>1, Keys DEF UpdateReads, DeleteFinds, FanReads, Keeps, Holds
  <2> QED
    BY <1>1, <2>1, <2>2, <2>3
<1>8. ASSUME NEW c \in Client, DeleteInputs(c)
      PROVE  stale' \subseteq {d \in Client : held'[d].key # NoKey}
  <2>1. held[c].key # NoKey /\ UNCHANGED held
    BY <1>0, <1>8, Keys DEF DeleteInputs, RequestOK, HoldsKey
  <2> QED
    BY <1>1, <1>8, <2>1 DEF DeleteInputs
<1>9. ASSUME NEW c \in Client, DeleteRow(c)
      PROVE  stale' \subseteq {d \in Client : held'[d].key # NoKey}
  <2>1. NoKey \notin {held[c].key}
    BY <1>0, <1>9, Keys DEF DeleteRow, RequestOK, HoldsKey
  <2>2. Ends(c) /\ Changes(c, {held[c].key}, FALSE)
    BY <1>9 DEF DeleteRow
  <2> QED
    BY <1>2, <1>3, <2>1, <2>2
<1>10. ASSUME NEW c \in Client, DetectFinds(c)
       PROVE  stale' \subseteq {d \in Client : held'[d].key # NoKey}
  <2>1. c \notin stale /\ UNCHANGED stale
    BY <1>0, <1>10 DEF DetectFinds, RequestOK, HoldsNone, history
  <2>2. \A d \in Client \ {c} : held'[d] = held[d]
    BY <1>3, <1>10 DEF DetectFinds
  <2> QED
    BY <1>1, <2>1, <2>2
<1>11. ASSUME NEW c \in Client, DetectKeeps(c)
       PROVE  stale' \subseteq {d \in Client : held'[d].key # NoKey}
  <2>1. \A d \in Client \ {c} : held'[d] = held[d]
    BY <1>3, <1>11 DEF DetectKeeps
  <2>2. stale' = stale \ {c} \/ \E f : Changes(c, {FanKey(f)}, FALSE)
    BY <1>11 DEF DetectKeeps
  <2>3. CASE stale' = stale \ {c}
    BY <1>1, <2>1, <2>3
  <2>4. CASE \E f : Changes(c, {FanKey(f)}, FALSE)
    <3>1. PICK f : Changes(c, {FanKey(f)}, FALSE)
      BY <2>4
    <3>2. NoKey \notin {FanKey(f)}
      BY Keys
    <3> QED
      BY <1>2, <2>1, <3>1, <3>2
  <2> QED
    BY <2>2, <2>3, <2>4
<1>12. CASE Crash
  BY <1>12 DEF Crash
<1> QED
  BY <1>4, <1>5, <1>6, <1>7, <1>8, <1>9, <1>10, <1>11, <1>12
     DEF Next, vars, requests, history, Call, DeleteReads

\* Initially no request is under way and the tables are as earlier ones left them.
LEMMA StoreStarts == Init => StoreOK
<1> SUFFICES ASSUME Init PROVE StoreOK
  OBVIOUS
<1>0. world \in World /\ ProperTables(world)
  BY StoreAssumption DEF Init
<1> DEFINE P == Cardinality(DOMAIN world.profiles)
           I == Cardinality(world.inputs)
           F == Cardinality(DOMAIN world.fans)
<1>1. /\ P \in Nat /\ DOMAIN world.profiles = 1..P
      /\ F \in Nat /\ DOMAIN world.fans = 1..F
      /\ I \in Nat
  BY <1>0, FS_CardinalityType DEF ProperTables
<1>2. nextId = Ids(P + 1, I + 1, F + 1)
  BY DEF Init
<1>3. \A c \in Client : at[c] = "idle" /\ held[c] = NoHold
  BY DEF Init
<1> HIDE DEF P, I, F
<1>4. IdsOK
  BY <1>1, <1>2 DEF IdsOK, Ids
<1>5. ProfileIds = 1..P /\ FanIds = 1..F
  BY <1>1, <1>2 DEF ProfileIds, FanIds, Ids
<1>6. TablesOK
  <2>1. /\ rows = world.profiles /\ fans = world.fans /\ DOMAIN asked = DOMAIN rows
        /\ emptied = {} /\ DOMAIN chosen = {}
    BY DEF Init
  <2>2. AskedOK
    BY <1>1, <1>5 DEF Init, AskedOK, Wish
  <2> QED
    BY <1>0, <1>1, <1>5, <2>1, <2>2 DEF TablesOK, ProperTables
<1>7. InputsOK
  <2>1. Known = world.inputs
    BY <1>3 DEF Init, Known, NoHold, Holds
  <2>2. nextId.input = I + 1
    BY <1>2 DEF Ids
  <2>3. \A i \in world.inputs : i.id \in 1..I
    BY <1>0 DEF ProperTables, I
  <2>4. /\ inputs = world.inputs /\ \A i, j \in inputs : i.id = j.id => i = j
        /\ \A c \in Client : held[c].inputs = {}
    BY <1>0, <1>3 DEF Init, ProperTables, NoHold, Holds
  <2> QED
    BY <1>0, <1>1, <1>5, <2>1, <2>2, <2>3, <2>4 DEF InputsOK, ProperTables
<1>8. \A c \in Client : RequestOK(c)
  <2> TAKE c \in Client
  <2> QED
    BY <1>3 DEF RequestOK, HoldsNone, NoHold, Holds
<1> QED
  BY <1>0, <1>4, <1>6, <1>7, <1>8 DEF Init, StoreOK

\* Every step keeps all of it.
LEMMA StoreStep == StoreOK /\ [Next]_vars => StoreOK'
<1> SUFFICES ASSUME StoreOK, [Next]_vars PROVE StoreOK'
  OBVIOUS
<1>1. world' = world
  <2>1. ASSUME NEW c \in Client, Create(c) \/ UpdateStores(c)
        PROVE  world' = world
    BY <2>1 DEF Create, UpdateStores
  <2>2. ASSUME NEW c \in Client,
               \/ Call(c) \/ Refused(c) \/ UpdateReads(c) \/ Preload(c) \/ Activate(c)
               \/ DeleteReads(c) \/ DeleteDeactivates(c) \/ DeleteFinds(c) \/ DeleteInputs(c)
               \/ DeleteRow(c)
        PROVE  world' = world
    BY <2>2 DEF Call, Refused, UpdateReads, Preload, Activate, DeleteReads, DeleteDeactivates,
       DeleteFinds, DeleteInputs, DeleteRow
  <2>3. ASSUME NEW c \in Client,
               \/ FanReads(c) \/ FanSaves(c) \/ DetectFinds(c) \/ DetectKeeps(c) \/ DetectPrunes(c)
        PROVE  world' = world
    BY <2>3 DEF FanReads, FanSaves, DetectFinds, DetectKeeps, DetectPrunes
  <2> QED
    BY <2>1, <2>2, <2>3 DEF Next, vars, Crash
<1>2. /\ at = [c \in Client |-> at[c]] /\ req = [c \in Client |-> req[c]]
      /\ held = [c \in Client |-> held[c]]
  BY DEF StoreOK
<1> DEFINE Still == /\ at' = [c \in Client |-> at'[c]] /\ req' = [c \in Client |-> req'[c]]
                    /\ held' = [c \in Client |-> held'[c]]
<1>3. Still
  <2>1. ASSUME NEW c \in Client, Ends(c)
        PROVE  Still
    BY <1>2, <2>1 DEF Ends
  <2>2. ASSUME NEW c \in Client, NEW here, Goes(c, here), UNCHANGED held \/ \E what : Keeps(c, what)
        PROVE  Still
    BY <1>2, <2>2 DEF Goes, Keeps
  <2>3. ASSUME NEW c \in Client, Call(c)
        PROVE  Still
    BY <1>2, <2>3 DEF Call
  <2>4. ASSUME NEW c \in Client,
               \/ UpdateReads(c) \/ Preload(c) \/ DeleteReads(c) \/ DeleteDeactivates(c)
               \/ DeleteFinds(c) \/ DeleteInputs(c) \/ FanReads(c) \/ DetectFinds(c) \/ DetectKeeps(c)
        PROVE  Still
    BY <2>2, <2>4 DEF UpdateReads, Preload, DeleteReads, DeleteDeactivates, DeleteFinds, DeleteInputs,
       FanReads, DetectFinds, DetectKeeps
  <2>5. CASE Crash
    BY <1>2, <2>5 DEF Crash
  <2>6. CASE UNCHANGED <<at, req, held>>
    BY <1>2, <2>6
  <2>7. ASSUME NEW c \in Client,
               \/ Refused(c) \/ Create(c) \/ UpdateStores(c) \/ Activate(c) \/ DeleteRow(c)
               \/ FanSaves(c) \/ DetectPrunes(c)
        PROVE  Still
    <3>1. Ends(c)
      BY <2>7 DEF Refused, Create, UpdateStores, Activate, DeleteRow, FanSaves, DetectPrunes
    <3> QED
      BY <2>1, <3>1
  <2> HIDE DEF Still
  <2> QED
    BY <2>3, <2>4, <2>5, <2>6, <2>7 DEF Next, vars, requests
<1> QED
  BY <1>1, <1>3, IdsKept, TablesKept, InputsKept, RequestsKept, StaleKept DEF StoreOK

\* The tables and what the requests hold of them are always proper, for any number
\* of requests, crashes and faults.
THEOREM StoreTyped == Spec => []StoreOK
BY StoreStarts, StoreStep, PTL DEF Spec

\* The type invariant is part of it.
THEOREM TypeCorrect == Spec => []TypeOK
<1>1. StoreOK => TypeOK
  <2> SUFFICES ASSUME StoreOK PROVE TypeOK
    OBVIOUS
  <2>1. inputs \subseteq Known
    BY DEF Known
  <2> QED
    BY <2>1 DEF StoreOK, TypeOK, TablesOK, AskedOK, InputsOK, IdsOK, ProfileIds, FanIds, ProperFan
<1> QED
  BY <1>1, StoreTyped, PTL

-----------------------------------------------------------------------------
(* What is stored was found valid.                                         *)

\* A profile's settings are stored only after they were found valid together:
\* Create checks what it is given, Update the row it read merged with the request,
\* whatever the row is by then; Activate and Deactivate leave them alone.
THEOREM StoredValidCorrect == Spec => []StoredValid
<1>1. Init => StoredValid
  BY StoreAssumption DEF Init, StoredValid, ProperTables, ValidSettings
<1>2. StoreOK /\ StoredValid /\ [Next]_vars => StoredValid'
  <2> SUFFICES ASSUME StoreOK, StoredValid, [Next]_vars PROVE StoredValid'
    OBVIOUS
  <2> USE DEF StoredValid
  <2>1. ASSUME NEW c \in Client, Create(c)
        PROVE  StoredValid'
    <3>1. /\ rows' = With(rows, nextId.profile, Row(req[c].settings.algorithm,
                                                   req[c].settings.params, FALSE))
          /\ ValidSettings(req[c].settings)
      BY <2>1 DEF Create
    <3> QED
      BY <3>1 DEF With, ValidSettings, Row
  <2>2. ASSUME NEW c \in Client, UpdateStores(c)
        PROVE  StoredValid'
    <3>1. PICK row : rows' = With(rows, req[c].id, row) /\ ValidSettings(row)
      BY <2>2 DEF UpdateStores
    <3> QED
      BY <3>1 DEF With
  <2>3. ASSUME NEW c \in Client, NEW p, NEW on, SetActive(c, p, on)
        PROVE  StoredValid'
    <3> SUFFICES ASSUME NEW q \in DOMAIN rows' PROVE ValidSettings(rows'[q])
      OBVIOUS
    <3>1. q \in DOMAIN rows /\ (rows'[q] = rows[q] \/ rows'[q] = [rows[q] EXCEPT !.active = on])
      BY <2>3 DEF SetActive
    <3>2. ProperRow(rows[q]) /\ ValidSettings(rows[q])
      BY <3>1 DEF StoreOK, TablesOK
    <3> QED
      BY <3>1, <3>2 DEF ProperRow, Row, ValidSettings
  <2>4. ASSUME NEW c \in Client, DeleteRow(c)
        PROVE  StoredValid'
    BY <2>4 DEF DeleteRow, Without
  <2>5. CASE UNCHANGED rows
    BY <2>5
  <2>6. ASSUME NEW c \in Client, Activate(c) \/ DeleteDeactivates(c)
        PROVE  StoredValid'
    <3>1. UNCHANGED rows \/ \E on : SetActive(c, req[c].id, on)
      BY <2>6 DEF Activate, DeleteDeactivates
    <3> QED
      BY <2>3, <2>5, <3>1
  <2>7. ASSUME NEW c \in Client,
               \/ Call(c) \/ Refused(c) \/ UpdateReads(c) \/ Preload(c) \/ DeleteReads(c)
               \/ DeleteFinds(c) \/ DeleteInputs(c) \/ FanReads(c) \/ FanSaves(c)
               \/ DetectFinds(c) \/ DetectKeeps(c) \/ DetectPrunes(c)
        PROVE  UNCHANGED rows
    BY <2>7 DEF tables, Call, Refused, UpdateReads, Preload, DeleteReads, DeleteFinds, DeleteInputs,
       FanReads, FanSaves, DetectFinds, DetectKeeps, DetectPrunes
  <2> QED
    BY <2>1, <2>2, <2>4, <2>5, <2>6, <2>7 DEF Next, vars, tables, Crash
<1> QED
  BY <1>1, <1>2, StoreTyped, PTL DEF Spec

-----------------------------------------------------------------------------
(* What is held and not stale is what the tables say.                      *)

\* A request no step takes on keeps what it has fresh, when the inputs it holds,
\* those it deleted and the fan it holds are not touched.
LEMMA FreshStays ==
    ASSUME StoreOK, NEW d \in Client, Fresh(d), d \in stale => d \in stale',
           at'[d] = at[d], req'[d] = req[d], held'[d] = held[d],
           d \in stale' \/ (at[d] \in {"save", "row"} => InputsOf(req[d].id)' = InputsOf(req[d].id)),
           d \in stale' \/ (\A f \in FanIds : at[d] = "keep" /\ held[d].key = FanKey(f) =>
               (f \in DOMAIN fans => f \in DOMAIN fans' /\ fans'[f] = fans[f]))
    PROVE  Fresh(d)'
<1>0. \A p : InputsOf(p)' = {i \in inputs' : i.profile = p}
  BY DEF InputsOf
<1> SUFFICES ASSUME d \notin stale'
             PROVE  /\ at'[d] = "save" => held'[d].inputs = InputsOf(req[d].id)'
                    /\ at'[d] = "row" => InputsOf(req[d].id)' = {}
                    /\ at'[d] = "keep" /\ held'[d].key # NoKey =>
                         held'[d].key[2] \in DOMAIN fans' /\ held'[d].row = fans'[held'[d].key[2]]
  BY <1>0 DEF Fresh, InputsOf
<1>1. d \notin stale
  OBVIOUS
<1>2. at'[d] = "save" => held'[d].inputs = InputsOf(req[d].id)'
  BY <1>1 DEF Fresh
<1>3. at'[d] = "row" => InputsOf(req[d].id)' = {}
  BY <1>1 DEF Fresh
<1>4. ASSUME at'[d] = "keep", held'[d].key # NoKey
      PROVE  held'[d].key[2] \in DOMAIN fans' /\ held'[d].row = fans'[held'[d].key[2]]
  <2>1. PICK f \in FanIds : held[d].key = FanKey(f)
    BY <1>4 DEF StoreOK, RequestOK, HoldsNone, HoldsFan
  <2>2. held[d].key[2] = f
    BY <2>1, Keys
  <2>3. f \in DOMAIN fans /\ held[d].row = fans[f]
    BY <1>1, <1>4, <2>2 DEF Fresh
  <2> QED
    BY <1>4, <2>1, <2>2, <2>3
<1> QED
  BY <1>2, <1>3, <1>4

\* Who changes a row, its inputs or a fan makes stale whoever holds it.
LEMMA FreshKept == StoreOK /\ AllFresh /\ [Next]_vars => AllFresh'
<1> SUFFICES ASSUME StoreOK, AllFresh, [Next]_vars PROVE AllFresh'
  OBVIOUS
<1> USE DEF AllFresh
<1>0. /\ \A d \in Client : RequestOK(d)
      /\ at = [c \in Client |-> at[c]] /\ req = [c \in Client |-> req[c]]
      /\ held = [c \in Client |-> held[c]]
      /\ IdsOK /\ TablesOK /\ InputsOK
  BY DEF StoreOK
<1> DEFINE Same(d) == at'[d] = at[d] /\ req'[d] = req[d] /\ held'[d] = held[d]
\* It is enough that those who hold what changes are stale.
<1>1. ASSUME NEW c \in Client, \A d \in Client \ {c} : Same(d), Fresh(c)',
             \A d \in Client \ {c} : d \in stale => d \in stale',
             \A d \in Client \ {c} : \A p \in ProfileIds :
                 held[d].key = ProfileKey(p) => d \in stale' \/ InputsOf(p)' = InputsOf(p),
             \A d \in Client \ {c} : \A f \in FanIds :
                 held[d].key = FanKey(f) => d \in stale' \/
                     (f \in DOMAIN fans => f \in DOMAIN fans' /\ fans'[f] = fans[f])
      PROVE  AllFresh'
  <2> SUFFICES ASSUME NEW d \in Client \ {c} PROVE Fresh(d)'
    BY <1>1
  <2>1. d \in stale' \/ (at[d] \in {"save", "row"} => InputsOf(req[d].id)' = InputsOf(req[d].id))
    <3>1. at[d] \in {"save", "row"} => HoldsKey(d)
      BY <1>0 DEF RequestOK, HoldsRow, HoldsKey
    <3>2. at[d] \in {"save", "row"} =>
            \E p \in ProfileIds : req[d].id = p /\ held[d].key = ProfileKey(p)
      BY <3>1 DEF HoldsKey
    <3> QED
      BY <1>1, <3>2 DEF InputsOf
  <2>3. d \in stale' \/ (\A f \in FanIds : at[d] = "keep" /\ held[d].key = FanKey(f) =>
               (f \in DOMAIN fans => f \in DOMAIN fans' /\ fans'[f] = fans[f]))
    BY <1>1
  <2> QED
    BY <1>1, <2>1, <2>3, FreshStays
<1>2. ASSUME NEW c \in Client,
             Ends(c) \/ (\E here : Goes(c, here)) \/ Call(c),
             UNCHANGED held \/ Ends(c) \/ \E what : Keeps(c, what)
      PROVE  \A d \in Client \ {c} : Same(d)
  BY <1>0, <1>2 DEF Ends, Goes, Keeps, Call
<1>3. ASSUME NEW c \in Client, at'[c] \notin {"save", "row", "keep"}
      PROVE  Fresh(c)'
  BY <1>3 DEF Fresh
<1>4. ASSUME NEW c \in Client, Ends(c)
      PROVE  Fresh(c)' /\ \A d \in Client \ {c} : Same(d)
  BY <1>0, <1>2, <1>3, <1>4 DEF Ends
<1>5. ASSUME NEW c \in Client, Create(c)
      PROVE  AllFresh'
  <2>1. Fresh(c)' /\ \A d \in Client \ {c} : Same(d)
    BY <1>4, <1>5 DEF Create
  <2>2. PICK given : inputs' = inputs \cup given /\ \A i \in given : i.profile = nextId.profile
    BY <1>5, Created
  <2>3. UNCHANGED <<fans, stale>>
    BY <1>5 DEF Create
  <2>4. ASSUME NEW p \in ProfileIds
        PROVE  InputsOf(p)' = InputsOf(p)
    <3>1. p # nextId.profile
      BY <1>0 DEF IdsOK, ProfileIds
    <3> QED
      BY <2>2, <3>1 DEF InputsOf
  <2> QED
    BY <1>1, <2>1, <2>3, <2>4
<1>6. ASSUME NEW c \in Client, UpdateStores(c)
      PROVE  AllFresh'
  <2>1. Fresh(c)' /\ \A d \in Client \ {c} : Same(d)
    BY <1>4, <1>6 DEF UpdateStores
  <2>0. PICK p, given, saved, changed :
            /\ p = req[c].id /\ given = NewInputs(p, req[c].inputs)
            /\ saved = Again(p, held[c].inputs) /\ changed = {p} \cup Owners(held[c].inputs)
    OBVIOUS
  <2>2. /\ Changes(c, {ProfileKey(q) : q \in changed}, req[c].replace)
        /\ inputs' = IF req[c].replace THEN {i \in saved : i.profile # p} \cup given ELSE saved
        /\ UNCHANGED fans
    BY <1>6, <2>0 DEF UpdateStores
  <2>3. p \in ProfileIds /\ \A i \in held[c].inputs : i.profile = p
    BY <1>0, <1>6, <2>0 DEF UpdateStores, RequestOK, HoldsRow
  <2>4. ASSUME NEW q, q \notin changed
        PROVE  InputsOf(q)' = InputsOf(q)
    <3>1. {i \in saved : i.profile = q} = InputsOf(q)
      BY <1>0, <2>0, <2>3, <2>4, SavedAgain
    <3>2. q # p /\ \A i \in given : i.profile = p
      BY <2>0, <2>4 DEF NewInputs
    <3> QED
      BY <2>2, <3>1, <3>2 DEF InputsOf
  <2>5. \A d \in Client \ {c} : \A q \in changed : held[d].key = ProfileKey(q) => d \in stale'
    BY <2>2 DEF Changes
  <2>6. \A d \in Client \ {c} : d \in stale => d \in stale'
    BY <2>2 DEF Changes
  <2> QED
    BY <1>1, <2>1, <2>2, <2>4, <2>5, <2>6
<1>7. ASSUME NEW c \in Client, (\E p, on : SetActive(c, p, on)) \/ UNCHANGED stale,
             UNCHANGED <<inputs, fans>>, \A d \in Client \ {c} : Same(d), Fresh(c)'
      PROVE  AllFresh'
  <2>1. \A d \in Client \ {c} : d \in stale => d \in stale'
    BY <1>7 DEF SetActive, Changes
  <2> QED
    BY <1>1, <1>7, <2>1 DEF InputsOf
<1>8. ASSUME NEW c \in Client, Activate(c)
      PROVE  AllFresh'
  BY <1>4, <1>7, <1>8 DEF Activate
<1>9. ASSUME NEW c \in Client, DeleteDeactivates(c)
      PROVE  AllFresh'
  <2>1. at'[c] = "first" /\ \A d \in Client \ {c} : Same(d)
    BY <1>0, <1>2, <1>9 DEF DeleteDeactivates, Goes
  <2> QED
    BY <1>3, <1>7, <1>9, <2>1 DEF DeleteDeactivates
<1>10. ASSUME NEW c \in Client, DeleteInputs(c)
       PROVE  AllFresh'
  <2>1. at'[c] = "row" /\ req'[c] = req[c] /\ held[c].key = ProfileKey(req[c].id)
    BY <1>0, <1>10 DEF DeleteInputs, Goes, RequestOK, HoldsKey
  <2>2. Fresh(c)'
    BY <1>10, <2>1 DEF DeleteInputs, InputsOf, Fresh
  <2>3. \A d \in Client \ {c} : Same(d)
    BY <1>2, <1>10 DEF DeleteInputs
  <2>4. \A p \in ProfileIds : p # req[c].id => InputsOf(p)' = InputsOf(p)
    BY <1>10 DEF DeleteInputs, InputsOf
  <2>5. \A d \in Client \ {c} : /\ d \in stale => d \in stale'
                                /\ held[d].key = ProfileKey(req[c].id) => d \in stale'
    BY <1>10, <2>1 DEF DeleteInputs
  <2>6. UNCHANGED fans
    BY <1>10 DEF DeleteInputs
  <2> QED
    BY <1>1, <2>2, <2>3, <2>4, <2>5, <2>6
<1>11. ASSUME NEW c \in Client, FanSaves(c)
       PROVE  AllFresh'
  <2>1. Fresh(c)' /\ \A d \in Client \ {c} : Same(d)
    BY <1>4, <1>11 DEF FanSaves
  <2>2. /\ Changes(c, {FanKey(req[c].id)}, TRUE)
        /\ fans' = With(fans, req[c].id, Merged(held[c].row, req[c].change))
        /\ UNCHANGED inputs
    BY <1>11 DEF FanSaves
  <2>3. \A f \in DOMAIN fans : f # req[c].id => f \in DOMAIN fans' /\ fans'[f] = fans[f]
    BY <2>2 DEF With
  <2> QED
    BY <1>1, <2>1, <2>2, <2>3 DEF Changes, InputsOf
<1>12. ASSUME NEW c \in Client, DetectFinds(c)
       PROVE  AllFresh'
  <2>1. \A d \in Client \ {c} : Same(d)
    BY <1>2, <1>12 DEF DetectFinds
  <2>2. UNCHANGED <<inputs, fans, stale>>
    BY <1>12 DEF DetectFinds, tables, history
  <2>3. Fresh(c)'
    <3> DEFINE same == {f \in DOMAIN fans : fans[f].sensor = req[c].found[held[c].next].sensor}
               f == CHOOSE g \in same : \A h \in same : g <= h
    <3>0. /\ at'[c] = "keep"
          /\ IF same = {} THEN UNCHANGED held ELSE Keeps(c, Holds(FanKey(f), fans[f], {}, held[c].next))
      BY <1>0, <1>12 DEF DetectFinds, Goes
    <3>1. held[c].key = NoKey
      BY <1>0, <1>12 DEF DetectFinds, RequestOK, HoldsNone
    <3> HIDE DEF f, same
    <3>2. CASE same = {}
      BY <3>0, <3>1, <3>2 DEF Fresh
    <3>3. CASE same # {}
      <4>1. same \subseteq DOMAIN fans /\ same \subseteq Nat
        BY <1>0 DEF same, IdsOK, TablesOK, FanIds
      <4>2. \E g \in same : \A h \in same : g <= h
        BY <3>3, <4>1, LeastNumber
      <4>3. f \in DOMAIN fans
        BY <4>1, <4>2 DEF f
      <4>4. held'[c].key = FanKey(f) /\ held'[c].row = fans[f]
        BY <1>0, <3>0, <3>3 DEF Keeps, Holds
      <4>5. held'[c].key[2] = f
        BY <4>4, Keys
      <4> QED
        BY <2>2, <3>0, <4>3, <4>4, <4>5 DEF Fresh
    <3> QED
      BY <3>2, <3>3
  <2> QED
    BY <1>1, <2>1, <2>2, <2>3 DEF InputsOf
<1>13. ASSUME NEW c \in Client, DetectKeeps(c)
       PROVE  AllFresh'
  <2> DEFINE d == req[c].found[held[c].next]
             f == IF held[c].key = NoKey THEN nextId.fan ELSE held[c].key[2]
             fan == IF held[c].key = NoKey THEN Fan(d.sensor, d.name, d.zone, "none")
                    ELSE Seeded(held[c].row, d)
  <2>1. /\ (fans' = fans /\ stale' = stale \ {c})
            \/ (fans' = With(fans, f, fan) /\ Changes(c, {FanKey(f)}, FALSE))
        /\ UNCHANGED inputs
    BY <1>13 DEF DetectKeeps
  <2>2. \A e \in Client \ {c} : Same(e)
    BY <1>2, <1>13 DEF DetectKeeps
  <2>3. Fresh(c)'
    BY <1>0, <1>3, <1>13 DEF DetectKeeps, Goes
  <2> HIDE DEF d, f, fan
  <2>4. CASE fans' = fans /\ stale' = stale \ {c}
    BY <1>1, <2>1, <2>2, <2>3, <2>4 DEF InputsOf
  <2>5. CASE fans' = With(fans, f, fan) /\ Changes(c, {FanKey(f)}, FALSE)
    <3>1. \A g \in DOMAIN fans : g # f => g \in DOMAIN fans' /\ fans'[g] = fans[g]
      BY <2>5 DEF With
    <3> QED
      BY <1>1, <2>1, <2>2, <2>3, <2>5, <3>1 DEF InputsOf, Changes
  <2> QED
    BY <2>1, <2>4, <2>5
<1>14. ASSUME NEW c \in Client, DetectPrunes(c)
       PROVE  AllFresh'
  <2>1. Fresh(c)' /\ \A d \in Client \ {c} : Same(d)
    BY <1>4, <1>14 DEF DetectPrunes
  <2>2. PICK gone : /\ fans' = Without(fans, gone)
                    /\ stale' = stale \cup {d \in Client \ {c} : \E f \in gone : held[d].key = FanKey(f)}
    BY <1>14 DEF DetectPrunes
  <2>3. UNCHANGED inputs
    BY <1>14 DEF DetectPrunes
  <2>4. \A f \in DOMAIN fans : f \notin gone => f \in DOMAIN fans' /\ fans'[f] = fans[f]
    BY <2>2 DEF Without
  <2> QED
    BY <1>1, <2>1, <2>2, <2>3, <2>4 DEF InputsOf
<1>15. CASE Crash
  BY <1>15 DEF Crash, Fresh
<1>16. ASSUME NEW c \in Client, Preload(c)
       PROVE  AllFresh'
  <2>1. \A d \in Client \ {c} : Same(d)
    BY <1>2, <1>16 DEF Preload
  <2>2. UNCHANGED <<inputs, fans, stale>>
    BY <1>16 DEF Preload, tables, history
  <2>3. at'[c] = "save" /\ req'[c] = req[c] /\ held'[c].inputs = InputsOf(req[c].id)
    BY <1>0, <1>16 DEF Preload, Keeps, Goes, Holds
  <2>4. Fresh(c)'
    BY <2>2, <2>3 DEF Fresh, InputsOf
  <2> QED
    BY <1>1, <2>1, <2>2, <2>4 DEF InputsOf
<1>17. ASSUME NEW c \in Client,
              \/ Call(c) \/ Refused(c) \/ UpdateReads(c) \/ DeleteReads(c) \/ DeleteFinds(c)
              \/ DeleteRow(c) \/ FanReads(c)
       PROVE  AllFresh'
  <2>1. \A d \in Client \ {c} : Same(d)
    BY <1>2, <1>17 DEF Call, Refused, UpdateReads, DeleteReads, DeleteFinds, DeleteRow, FanReads
  <2>2. UNCHANGED <<inputs, fans>> /\ \A d \in Client \ {c} : d \in stale => d \in stale'
    BY <1>17 DEF Call, Refused, UpdateReads, DeleteReads, DeleteFinds, DeleteRow, FanReads, tables,
       history, Changes
  <2>3. at'[c] \notin {"save", "row", "keep"}
    BY <1>0, <1>17 DEF Call, Refused, UpdateReads, DeleteReads, DeleteFinds, DeleteRow, FanReads,
       Goes, Ends
  <2> QED
    BY <1>1, <1>3, <2>1, <2>2, <2>3 DEF InputsOf
<1>18. CASE UNCHANGED vars
  BY <1>18 DEF vars, requests, tables, history, Fresh, InputsOf
<1> QED
  BY <1>5, <1>6, <1>8, <1>9, <1>10, <1>11, <1>12, <1>13, <1>14, <1>15, <1>16, <1>17, <1>18 DEF Next

-----------------------------------------------------------------------------
(* Profiles are as they were asked to be.                                  *)

\* A profile is as its last change was to leave it, without inputs if a delete took
\* them but not the row; one that is to be gone is gone, and its inputs with it.
Whole(p) ==
    IF p \in DOMAIN asked
    THEN /\ p \in DOMAIN rows
         /\ asked[p].settings = Settings(rows[p]) /\ asked[p].active = rows[p].active
         /\ IF p \in emptied THEN InputsOf(p) = {}
            ELSE asked[p].sensors = Sensors(InputsOf(p)) /\ Distinct(InputsOf(p))
    ELSE p \notin DOMAIN rows /\ InputsOf(p) = {}

\* It stays so while its row, its inputs and what was asked are not touched.
LEMMA WholeStays ==
    ASSUME NEW p, Whole(p), InputsOf(p)' = InputsOf(p), p \in DOMAIN asked' <=> p \in DOMAIN asked,
           p \in DOMAIN asked => asked'[p] = asked[p], p \in emptied' <=> p \in emptied,
           p \in DOMAIN rows' <=> p \in DOMAIN rows, p \in DOMAIN rows => rows'[p] = rows[p]
    PROVE  Whole(p)'
<1>1. Settings(rows[p])' = Settings(rows'[p])
  BY DEF Settings
<1> QED
  BY DEF Whole, Sensors, Distinct, Settings

\* New inputs are as distinct as the sensors of the request.
LEMMA DistinctRows ==
    ASSUME NEW p, NEW s, NoTwice(s)
    PROVE  Distinct(NewInputs(p, s))
<1> SUFFICES ASSUME NEW i \in NewInputs(p, s), NEW j \in NewInputs(p, s), i.sensor = j.sensor
             PROVE  i = j
  BY DEF Distinct
<1>1. PICK k \in DOMAIN s : i = [id |-> nextId.input + k - 1, profile |-> p, sensor |-> s[k]]
  BY DEF NewInputs
<1>2. PICK l \in DOMAIN s : j = [id |-> nextId.input + l - 1, profile |-> p, sensor |-> s[l]]
  BY DEF NewInputs
<1>3. s[k] = s[l]
  BY <1>1, <1>2
<1> QED
  BY <1>1, <1>2, <1>3 DEF NoTwice

\* Every step leaves the profiles whole that no request changed from a stale
\* reading: an update that is not stale holds the inputs there are.
LEMMA WholeKept == StoreOK /\ AllFresh /\ ProfilesAsAsked /\ [Next]_vars => ProfilesAsAsked'
<1> SUFFICES ASSUME StoreOK, AllFresh, ProfilesAsAsked, [Next]_vars PROVE ProfilesAsAsked'
  OBVIOUS
<1>0. /\ \A d \in Client : RequestOK(d) /\ Fresh(d)
      /\ IdsOK /\ TablesOK /\ InputsOK /\ IdsOK'
      /\ stale \subseteq {c \in Client : held[c].key # NoKey}
  BY IdsKept DEF StoreOK, AllFresh
<1>1. \A p \in ProfileIds : ProfileKey(p) \notin raced => Whole(p)
  BY DEF ProfilesAsAsked, ProfileIds, Whole
<1>2. ASSUME \A p \in ProfileIds' : ProfileKey(p) \notin raced' => Whole(p)'
      PROVE  ProfilesAsAsked'
  BY <1>2 DEF ProfilesAsAsked, ProfileIds, Whole
<1> HIDE DEF ProfilesAsAsked
\* One profile is changed at a time.
<1>3. ASSUME NEW q, ProfileIds' \subseteq ProfileIds \cup {q},
             q \in ProfileIds' => (ProfileKey(q) \notin raced' => Whole(q)'),
             \A p \in ProfileIds : p # q =>
                 /\ ProfileKey(p) \in raced => ProfileKey(p) \in raced'
                 /\ InputsOf(p)' = InputsOf(p)
                 /\ p \in DOMAIN asked' <=> p \in DOMAIN asked
                 /\ p \in DOMAIN asked => asked'[p] = asked[p]
                 /\ p \in emptied' <=> p \in emptied
                 /\ p \in DOMAIN rows' <=> p \in DOMAIN rows
                 /\ p \in DOMAIN rows => rows'[p] = rows[p]
      PROVE  ProfilesAsAsked'
  <2> SUFFICES ASSUME NEW p \in ProfileIds', ProfileKey(p) \notin raced', p # q PROVE Whole(p)'
    BY <1>2, <1>3
  <2>1. p \in ProfileIds /\ Whole(p)
    BY <1>1, <1>3
  <2> QED
    BY <1>3, <2>1, WholeStays
<1>4. ASSUME NEW c \in Client, NEW keys, NEW whole, Changes(c, keys, whole)
      PROVE  \A key : key \notin keys /\ key \in raced => key \in raced'
  BY <1>4 DEF Changes
<1>5. ASSUME NEW c \in Client, Create(c)
      PROVE  ProfilesAsAsked'
  <2>0. PICK p, settings : p = nextId.profile /\ settings = req[c].settings
    OBVIOUS
  <2>1. PICK given, next :
            /\ nextId' = Ids(p + 1, next, nextId.fan) /\ inputs' = inputs \cup given
            /\ \A i \in given : i.profile = p
            /\ Distinct(given)
            /\ asked' = With(asked, p, [settings |-> settings, active |-> FALSE,
                                       sensors |-> Sensors(given)])
    BY <1>5, <2>0, Created
  <2>2. /\ rows' = With(rows, p, Row(settings.algorithm, settings.params, FALSE))
        /\ raced' = raced /\ emptied' = emptied
        /\ at[c] = "begin" /\ req[c].kind = "create"
    BY <1>5, <2>0 DEF Create
  <2>3. settings = [algorithm |-> settings.algorithm, params |-> settings.params]
    BY <1>0, <2>0, <2>2 DEF RequestOK, ProperRequest
  <2>4. p \notin ProfileIds /\ ProfileIds' \subseteq ProfileIds \cup {p}
    BY <1>0, <2>0, <2>1 DEF IdsOK, Ids, ProfileIds
  <2>5. (\A i \in inputs : i.profile # p) /\ p \notin emptied
    BY <1>0, <2>4 DEF InputsOK, Known, TablesOK
  <2>6. InputsOf(p)' = given
    BY <2>1, <2>5 DEF InputsOf
  <2>7. Whole(p)'
    <3>1. p \in DOMAIN asked' /\ p \in DOMAIN rows' /\ p \notin emptied'
      BY <2>1, <2>2, <2>5 DEF With
    <3>2. /\ asked'[p].settings = settings /\ asked'[p].active = FALSE
          /\ asked'[p].sensors = Sensors(given)
          /\ rows'[p] = Row(settings.algorithm, settings.params, FALSE)
      BY <2>1, <2>2 DEF With
    <3>3. Settings(rows'[p]) = settings /\ rows'[p].active = FALSE
      BY <2>3, <3>2 DEF Settings, Row
    <3> QED
      BY <2>1, <2>6, <3>1, <3>2, <3>3 DEF Whole
  <2>8. \A q \in ProfileIds : q # p /\ InputsOf(q)' = InputsOf(q)
    BY <2>1, <2>4 DEF InputsOf
  <2> QED
    BY <1>3, <2>1, <2>2, <2>4, <2>7, <2>8 DEF With
<1>6. ASSUME NEW c \in Client, UpdateStores(c)
      PROVE  ProfilesAsAsked'
  <2>0. PICK p, row, given, saved, owners :
            /\ p = req[c].id /\ row = Merged(held[c].row, req[c].change)
            /\ given = NewInputs(p, req[c].inputs)
            /\ saved = Again(p, held[c].inputs) /\ owners = Owners(held[c].inputs)
    OBVIOUS
  <2>1. PICK sensors, keys :
        /\ sensors = IF req[c].replace THEN Sensors(given)
                     ELSE IF p \in DOMAIN asked THEN asked[p].sensors
                     ELSE Sensors(held[c].inputs)
        /\ keys = {ProfileKey(q) : q \in {p} \cup owners}
    OBVIOUS
  <2>2. /\ rows' = With(rows, p, row)
        /\ inputs' = IF req[c].replace THEN {i \in saved : i.profile # p} \cup given ELSE saved
        /\ asked' = With(asked, p, [settings |-> Settings(row), active |-> row.active,
                                   sensors |-> sensors])
        /\ emptied' = IF req[c].replace THEN emptied \ {p} ELSE emptied
        /\ IF req[c].replace THEN NoTwice(req[c].inputs) ELSE Distinct(held[c].inputs)
        /\ nextId' = [nextId EXCEPT !.input = @ + Len(req[c].inputs)]
        /\ Changes(c, keys, req[c].replace)
        /\ at[c] = "save"
    BY <1>6, <2>0, <2>1 DEF UpdateStores
  <2>3. p \in ProfileIds /\ \A i \in held[c].inputs : i.profile = p
    BY <1>0, <2>0, <2>2 DEF RequestOK, HoldsRow
  <2>4. ProfileIds' = ProfileIds
    BY <1>0, <2>2 DEF IdsOK, Ids, ProfileIds
  <2>5. \A i \in given : i.profile = p
    BY <2>0 DEF NewInputs
  <2>6. ASSUME NEW q, q \notin {p} \cup owners
        PROVE  InputsOf(q)' = InputsOf(q)
    <3>1. {i \in saved : i.profile = q} = InputsOf(q)
      BY <1>0, <2>0, <2>3, <2>6, SavedAgain
    <3> QED
      BY <2>2, <2>5, <2>6, <3>1 DEF InputsOf
\* Read from a stale reading, all it may have touched counts as raced.
  <2>7. CASE c \in stale
    <3>1. raced' = raced \cup keys
      BY <2>2, <2>7 DEF Changes
    <3>2. \A q \in ProfileIds : ProfileKey(q) \notin raced' =>
            q \notin {p} \cup owners /\ ProfileKey(q) \notin raced
      BY <2>1, <3>1
    <3>3. ASSUME NEW q \in ProfileIds', ProfileKey(q) \notin raced'
          PROVE  Whole(q)'
      <4>1. q \notin {p} \cup owners /\ Whole(q)
        BY <1>1, <2>4, <3>2, <3>3
      <4>2. InputsOf(q)' = InputsOf(q)
        BY <2>6, <4>1
      <4> QED
        BY <2>2, <4>1, <4>2, WholeStays DEF With
    <3> QED
      BY <1>2, <3>3
  <2>8. CASE c \notin stale
    <3>1. held[c].inputs = InputsOf(p)
      BY <1>0, <2>0, <2>2, <2>8 DEF Fresh
    <3>2. saved = inputs
      BY <1>0, <2>0, <2>3, <3>1, SavedAgain
    <3>3. owners \subseteq {p}
      <4> SUFFICES ASSUME NEW i \in inputs, NEW h \in held[c].inputs, h.id = i.id PROVE i.profile = p
        BY <2>0 DEF Owners
      <4>1. h \in inputs /\ h.profile = p
        BY <3>1 DEF InputsOf
      <4> QED
        BY <1>0, <4>1 DEF InputsOK
    <3>4. keys = {ProfileKey(p)}
      BY <2>1, <3>3
    <3>5. raced' = IF req[c].replace THEN raced \ keys ELSE raced
      BY <2>2, <2>8 DEF Changes
    <3>6. /\ p \in DOMAIN asked' /\ p \in DOMAIN rows' /\ rows'[p] = row
          /\ asked'[p].settings = Settings(row) /\ asked'[p].active = row.active
          /\ asked'[p].sensors = sensors
      BY <2>2 DEF With
    <3>7. CASE req[c].replace
      <4>1. InputsOf(p)' = given
        BY <2>2, <2>5, <3>7 DEF InputsOf
      <4>2. Distinct(given)
        BY <2>0, <2>2, <3>7, DistinctRows
      <4>3. p \notin emptied' /\ sensors = Sensors(given)
        BY <2>1, <2>2, <3>7
      <4>4. Whole(p)'
        BY <3>6, <4>1, <4>2, <4>3 DEF Whole
      <4>5. \A q \in ProfileIds : q # p => InputsOf(q)' = InputsOf(q)
        BY <2>6, <3>3
      <4>6. \A q \in ProfileIds : q # p => (ProfileKey(q) \in raced => ProfileKey(q) \in raced')
        BY <3>4, <3>5, Keys
      <4> QED
        BY <1>3, <2>2, <2>4, <4>4, <4>5, <4>6 DEF With
    <3>8. CASE ~ req[c].replace
      <4>1. inputs' = inputs /\ emptied' = emptied /\ raced' = raced /\ Distinct(held[c].inputs)
        BY <2>2, <3>2, <3>5, <3>8
      <4>2. \A q : InputsOf(q)' = InputsOf(q)
        BY <4>1 DEF InputsOf
      <4>3. ASSUME ProfileKey(p) \notin raced
            PROVE  Whole(p)'
        <5>1. Whole(p)
          BY <1>1, <2>3, <4>3
        <5>2. CASE p \in DOMAIN asked
          <6>1. sensors = asked[p].sensors
            BY <2>1, <3>8, <5>2
          <6>2. IF p \in emptied THEN InputsOf(p) = {}
                ELSE asked[p].sensors = Sensors(InputsOf(p)) /\ Distinct(InputsOf(p))
            BY <5>1, <5>2 DEF Whole
          <6> QED
            BY <3>6, <4>1, <4>2, <6>1, <6>2 DEF Whole
        <5>3. CASE p \notin DOMAIN asked
          <6>1. sensors = Sensors(InputsOf(p)) /\ InputsOf(p) = {} /\ Distinct(InputsOf(p))
            BY <2>1, <3>1, <3>8, <4>1, <5>1, <5>3 DEF Whole
          <6> QED
            BY <3>6, <4>1, <4>2, <6>1 DEF Whole
        <5> QED
          BY <5>2, <5>3
      <4> QED
        BY <1>3, <2>2, <2>4, <4>1, <4>2, <4>3 DEF With
    <3> QED
      BY <3>7, <3>8
  <2> QED
    BY <2>7, <2>8
<1>7. ASSUME NEW c \in Client, NEW p, NEW on, SetActive(c, p, on), HoldsNone(c),
             UNCHANGED <<inputs, nextId, emptied>>
      PROVE  ProfilesAsAsked'
  <2>1. /\ Changes(c, {ProfileKey(p)}, FALSE)
        /\ DOMAIN rows' = DOMAIN rows /\ DOMAIN asked' = DOMAIN asked
        /\ \A q \in DOMAIN rows : rows'[q] = IF q = p THEN [rows[q] EXCEPT !.active = on] ELSE rows[q]
        /\ \A q \in DOMAIN asked : asked'[q] = IF q = p THEN [asked[q] EXCEPT !.active = on] ELSE asked[q]
    BY <1>7 DEF SetActive
  <2>2. ProfileIds' = ProfileIds /\ \A q : InputsOf(q)' = InputsOf(q)
    BY <1>7 DEF ProfileIds, InputsOf
  <2>3. raced' = raced
    BY <1>0, <1>7, <2>1 DEF Changes, HoldsNone
  <2>4. ASSUME p \in ProfileIds, ProfileKey(p) \notin raced
        PROVE  Whole(p)'
    <3>1. Whole(p)
      BY <1>1, <2>4
    <3>2. CASE p \notin DOMAIN asked
      BY <2>1, <2>2, <3>1, <3>2 DEF Whole
    <3>3. CASE p \in DOMAIN asked
      <4>1. p \in DOMAIN rows /\ asked[p].settings = Settings(rows[p])
        BY <3>1, <3>3 DEF Whole
      <4>2. rows[p] = Row(rows[p].algorithm, rows[p].params, rows[p].active)
        BY <1>0, <4>1 DEF TablesOK, ProperRow
      <4>3. rows'[p] = Row(rows[p].algorithm, rows[p].params, on)
        BY <2>1, <4>1, <4>2 DEF Row
      <4>4. Settings(rows'[p]) = Settings(rows[p]) /\ rows'[p].active = on
        BY <4>3 DEF Settings, Row
      <4>5. asked[p] = Wish(asked[p].settings, asked[p].active, asked[p].sensors)
        BY <1>0, <3>3 DEF TablesOK, AskedOK
      <4>6. asked'[p] = Wish(asked[p].settings, on, asked[p].sensors)
        BY <2>1, <3>3, <4>5 DEF Wish
      <4>7. /\ asked'[p].settings = asked[p].settings /\ asked'[p].active = on
            /\ asked'[p].sensors = asked[p].sensors
        BY <4>6 DEF Wish
      <4> QED
        BY <1>7, <2>1, <2>2, <3>1, <3>3, <4>1, <4>4, <4>7 DEF Whole
    <3> QED
      BY <3>2, <3>3
  <2> QED
    BY <1>3, <1>7, <2>1, <2>2, <2>3, <2>4
<1>8. ASSUME NEW c \in Client, Activate(c) \/ DeleteDeactivates(c)
      PROVE  ProfilesAsAsked' \/ UNCHANGED <<rows, inputs, asked, emptied, nextId, raced>>
  <2>1. HoldsNone(c) /\ UNCHANGED <<inputs, nextId, emptied>>
    BY <1>0, <1>8 DEF Activate, DeleteDeactivates, RequestOK
  <2>2. (\E on : SetActive(c, req[c].id, on)) \/ UNCHANGED <<rows, asked, raced>>
    BY <1>8 DEF Activate, DeleteDeactivates
  <2> QED
    BY <1>7, <2>1, <2>2
<1>9. ASSUME NEW c \in Client, DeleteInputs(c)
      PROVE  ProfilesAsAsked'
  <2>0. PICK p : p = req[c].id
    OBVIOUS
  <2>1. /\ inputs' = inputs \ InputsOf(p) /\ emptied' = emptied \cup {p}
        /\ UNCHANGED <<rows, nextId, asked, raced>> /\ at[c] = "inputs"
    BY <1>9, <2>0 DEF DeleteInputs
  <2>2. ProfileIds' = ProfileIds /\ p \in ProfileIds
    BY <1>0, <2>0, <2>1 DEF ProfileIds, RequestOK, HoldsKey
  <2>3. InputsOf(p)' = {} /\ p \in emptied'
    BY <2>1 DEF InputsOf
  <2>4. ProfileKey(p) \notin raced => Whole(p)'
    BY <1>1, <2>1, <2>2, <2>3 DEF Whole
  <2>5. \A q \in ProfileIds : q # p => InputsOf(q)' = InputsOf(q)
    BY <2>1 DEF InputsOf
  <2> QED
    BY <1>3, <2>1, <2>2, <2>4, <2>5
<1>10. ASSUME NEW c \in Client, DeleteRow(c)
       PROVE  ProfilesAsAsked'
  <2>0. PICK p : p = req[c].id
    OBVIOUS
  <2>1. /\ rows' = Without(rows, {p}) /\ asked' = Without(asked, {p})
        /\ emptied' = emptied \ {p}
        /\ Changes(c, {held[c].key}, FALSE) /\ at[c] = "row"
        /\ UNCHANGED <<inputs, nextId>>
    BY <1>10, <2>0 DEF DeleteRow
  <2>2. held[c].key = ProfileKey(p) /\ p \in ProfileIds
    BY <1>0, <2>0, <2>1 DEF RequestOK, HoldsKey
  <2>3. ProfileIds' = ProfileIds /\ \A q : InputsOf(q)' = InputsOf(q)
    BY <2>1 DEF ProfileIds, InputsOf
  <2>4. ASSUME ProfileKey(p) \notin raced'
        PROVE  Whole(p)'
    <3>1. c \notin stale
      BY <2>1, <2>2, <2>4 DEF Changes
    <3>2. InputsOf(p) = {}
      BY <1>0, <2>0, <2>1, <3>1 DEF Fresh
    <3>3. p \notin DOMAIN asked' /\ p \notin DOMAIN rows'
      BY <2>1 DEF Without
    <3> QED
      BY <2>3, <3>2, <3>3 DEF Whole
  <2>5. \A q \in ProfileIds : q # p => (ProfileKey(q) \in raced => ProfileKey(q) \in raced')
    <3>1. \A q : q # p => ProfileKey(q) \notin {held[c].key}
      BY <2>2, Keys
    <3> QED
      BY <1>4, <2>1, <3>1
  <2> QED
    BY <1>3, <2>1, <2>3, <2>4, <2>5 DEF Without
<1>11. ASSUME UNCHANGED <<rows, inputs, asked, emptied>>, nextId'.profile = nextId.profile,
              \A p : ProfileKey(p) \in raced => ProfileKey(p) \in raced'
       PROVE  ProfilesAsAsked'
  BY <1>1, <1>2, <1>11 DEF ProfileIds, Whole, InputsOf
<1>12. ASSUME NEW c \in Client, FanSaves(c)
       PROVE  ProfilesAsAsked'
  <2>1. /\ Changes(c, {FanKey(req[c].id)}, TRUE)
        /\ UNCHANGED <<rows, inputs, asked, emptied, nextId>>
    BY <1>12 DEF FanSaves
  <2>2. \A p : ProfileKey(p) \notin {FanKey(req[c].id)}
    BY Keys
  <2> QED
    BY <1>4, <1>11, <2>1, <2>2
<1>13. ASSUME NEW c \in Client, DetectKeeps(c)
       PROVE  ProfilesAsAsked'
  <2>1. /\ raced' = raced \/ \E f : Changes(c, {FanKey(f)}, FALSE)
        /\ UNCHANGED <<rows, inputs, asked, emptied>>
    BY <1>13 DEF DetectKeeps
  <2>2. nextId'.profile = nextId.profile
    BY <1>0, <1>13 DEF DetectKeeps, IdsOK, Ids
  <2>3. \A f, p : ProfileKey(p) \notin {FanKey(f)}
    BY Keys
  <2> QED
    BY <1>4, <1>11, <2>1, <2>2, <2>3
<1>14. CASE UNCHANGED <<rows, inputs, asked, emptied, nextId, raced>>
  BY <1>11, <1>14
<1>15. ASSUME NEW c \in Client,
              \/ Call(c) \/ Refused(c) \/ UpdateReads(c) \/ Preload(c) \/ DeleteReads(c)
              \/ DeleteFinds(c) \/ FanReads(c) \/ DetectFinds(c) \/ DetectPrunes(c)
       PROVE  UNCHANGED <<rows, inputs, asked, emptied, nextId, raced>>
  BY <1>15 DEF tables, history, Call, Refused, UpdateReads, Preload, DeleteReads, DeleteFinds,
     FanReads, DetectFinds, DetectPrunes
<1> QED
  BY <1>5, <1>6, <1>8, <1>9, <1>10, <1>12, <1>13, <1>14, <1>15
     DEF Next, vars, tables, history, Crash

\* Initially every profile is as it was asked to be, and nothing is held.
LEMMA WholeStarts == Init => AllFresh /\ ProfilesAsAsked
<1> SUFFICES ASSUME Init PROVE AllFresh /\ ProfilesAsAsked
  OBVIOUS
<1>1. AllFresh
  BY DEF Init, AllFresh, Fresh
<1>2. ASSUME NEW p \in ProfileIds
      PROVE  Whole(p)
  <2>1. StoreOK /\ ProperTables(world)
    BY StoreStarts, StoreAssumption DEF Init
  <2>2. /\ DOMAIN asked = DOMAIN rows
        /\ emptied = {}
        /\ p \in DOMAIN rows =>
             asked[p] = [settings |-> Settings(rows[p]), active |-> rows[p].active,
                         sensors |-> Sensors(InputsOf(p))]
    BY DEF Init
  <2>3. inputs = world.inputs /\ rows = world.profiles
    BY DEF Init
  <2>4. Distinct(InputsOf(p))
    BY <2>1, <2>3 DEF Distinct, InputsOf, ProperTables
  <2>5. p \notin DOMAIN rows => InputsOf(p) = {}
    BY <2>1, <2>3 DEF InputsOf, ProperTables
  <2> QED
    BY <2>2, <2>4, <2>5 DEF Whole
<1> QED
  BY <1>1, <1>2 DEF ProfilesAsAsked, ProfileIds, Whole

\* A profile no request changed from a stale reading is there as its last change was
\* to leave it until a delete has taken its row, whatever the other requests, failed
\* statements and crashes do between the statements of Update, Delete and Activate.
\* Only a delete that took the inputs and not yet the row, or was broken off there,
\* leaves it without its inputs; one that is gone leaves none.
THEOREM ProfilesAsAskedCorrect == Spec => []ProfilesAsAsked
<1>1. StoreOK /\ (AllFresh /\ ProfilesAsAsked) /\ [Next]_vars => AllFresh' /\ ProfilesAsAsked'
  BY FreshKept, WholeKept
<1> QED
  BY <1>1, WholeStarts, StoreTyped, PTL DEF Spec

-----------------------------------------------------------------------------
(* Fans keep what the user chose.                                          *)

\* The fan is there with the label and the zone chosen for it.
Kept(f) ==
    /\ f \in DOMAIN fans
    /\ fans[f].label = chosen[f].label
    /\ chosen[f].zone # NoZone => fans[f].zone = chosen[f].zone

\* Every step keeps it, a detection because what it writes back is what is there.
LEMMA ChoiceKept == StoreOK /\ AllFresh /\ UserChoiceSurvives /\ [Next]_vars => UserChoiceSurvives'
<1> SUFFICES ASSUME StoreOK, AllFresh, UserChoiceSurvives, [Next]_vars PROVE UserChoiceSurvives'
  OBVIOUS
<1>0. /\ \A d \in Client : RequestOK(d) /\ Fresh(d)
      /\ IdsOK /\ TablesOK
  BY DEF StoreOK, AllFresh
<1>1. \A f \in DOMAIN chosen : FanKey(f) \notin raced => Kept(f)
  BY DEF UserChoiceSurvives, Kept
<1>2. ASSUME \A f \in DOMAIN chosen' : FanKey(f) \notin raced' => Kept(f)'
      PROVE  UserChoiceSurvives'
  BY <1>2 DEF UserChoiceSurvives, Kept
<1> HIDE DEF UserChoiceSurvives
<1>3. ASSUME NEW c \in Client, NEW keys, NEW whole, Changes(c, keys, whole)
      PROVE  \A f : FanKey(f) \notin keys /\ FanKey(f) \in raced => FanKey(f) \in raced'
  BY <1>3 DEF Changes
<1>4. ASSUME UNCHANGED <<fans, chosen>>, \A f : FanKey(f) \in raced => FanKey(f) \in raced'
      PROVE  UserChoiceSurvives'
  BY <1>1, <1>2, <1>4 DEF Kept
<1>5. ASSUME NEW c \in Client, FanSaves(c)
      PROVE  UserChoiceSurvives'
  <2>0. PICK f, fan : f = req[c].id /\ fan = Merged(held[c].row, req[c].change)
    OBVIOUS
  <2>1. /\ fans' = With(fans, f, fan)
        /\ chosen' = With(chosen, f, [label |-> fan.label, zone |-> fan.zone])
        /\ Changes(c, {FanKey(f)}, TRUE)
    BY <1>5, <2>0 DEF FanSaves
  <2>2. Kept(f)'
    BY <2>1 DEF Kept, With
  <2>3. ASSUME NEW g \in DOMAIN chosen', g # f, FanKey(g) \notin raced'
        PROVE  Kept(g)'
    <3>0. FanKey(g) \notin {FanKey(f)}
      BY <2>3, Keys
    <3>1. Kept(g) /\ g \in DOMAIN chosen
      BY <1>1, <1>3, <2>1, <2>3, <3>0 DEF With
    <3> QED
      BY <2>1, <2>3, <3>1 DEF Kept, With
  <2> QED
    BY <1>2, <2>2, <2>3
<1>6. ASSUME NEW c \in Client, DetectKeeps(c)
      PROVE  UserChoiceSurvives'
  <2>0. PICK d, f, fan :
            /\ d = req[c].found[held[c].next]
            /\ f = IF held[c].key = NoKey THEN nextId.fan ELSE held[c].key[2]
            /\ fan = IF held[c].key = NoKey THEN Fan(d.sensor, d.name, d.zone, "none")
                     ELSE Seeded(held[c].row, d)
    OBVIOUS
  <2>1. /\ (fans' = fans /\ raced' = raced)
            \/ (fans' = With(fans, f, fan) /\ Changes(c, {FanKey(f)}, FALSE))
        /\ chosen' = chosen /\ at[c] = "keep"
    BY <1>6, <2>0 DEF DetectKeeps
  <2>2. CASE fans' = fans /\ raced' = raced
    BY <1>4, <2>1, <2>2
  <2>3. CASE fans' = With(fans, f, fan) /\ Changes(c, {FanKey(f)}, FALSE)
    <3>1. ASSUME NEW g \in DOMAIN chosen', g # f, FanKey(g) \notin raced'
          PROVE  Kept(g)'
      <4>0. FanKey(g) \notin {FanKey(f)}
        BY <3>1, Keys
      <4>1. Kept(g)
        BY <1>1, <1>3, <2>1, <2>3, <3>1, <4>0
      <4> QED
        BY <2>1, <2>3, <3>1, <4>1 DEF Kept, With
    <3>2. ASSUME f \in DOMAIN chosen', FanKey(f) \notin raced'
          PROVE  Kept(f)'
      <4>1. c \notin stale /\ FanKey(f) \notin raced
        BY <2>3, <3>2 DEF Changes
      <4>2. Kept(f) /\ f \in FanIds
        BY <1>0, <1>1, <2>1, <3>2, <4>1 DEF TablesOK
      <4>3. held[c].key # NoKey
        BY <1>0, <2>0, <4>2 DEF IdsOK, FanIds
      <4>4. f = held[c].key[2] /\ held[c].row = fans[f] /\ fan = Seeded(fans[f], d)
        BY <1>0, <2>0, <2>1, <4>1, <4>3 DEF Fresh
      <4>5. ProperFan(fans[f])
        BY <1>0, <4>2 DEF TablesOK, Kept
      <4>6. fan.label = fans[f].label /\ (fans[f].zone # NoZone => fan.zone = fans[f].zone)
        BY <4>4, <4>5 DEF Seeded, Fan
      <4> QED
        BY <2>1, <2>3, <4>2, <4>6 DEF Kept, With
    <3> QED
      BY <1>2, <3>1, <3>2
  <2> QED
    BY <2>1, <2>2, <2>3
<1>7. ASSUME NEW c \in Client, DetectPrunes(c)
      PROVE  UserChoiceSurvives'
  <2>1. PICK gone : fans' = Without(fans, gone) /\ chosen' = Without(chosen, gone)
    BY <1>7 DEF DetectPrunes
  <2>2. raced' = raced
    BY <1>7 DEF DetectPrunes
  <2> QED
    BY <1>1, <1>2, <2>1, <2>2 DEF Kept, Without
<1>8. ASSUME NEW c \in Client, UpdateStores(c) \/ Activate(c) \/ DeleteDeactivates(c) \/ DeleteRow(c)
      PROVE  UserChoiceSurvives'
  <2>1. UNCHANGED <<fans, chosen>>
    BY <1>8 DEF UpdateStores, Activate, DeleteDeactivates, DeleteRow
  <2>2. raced' = raced \/ \E P, whole : Changes(c, {ProfileKey(p) : p \in P}, whole)
    <3>1. CASE DeleteRow(c)
      <4>1. held[c].key = ProfileKey(req[c].id) /\ Changes(c, {held[c].key}, FALSE)
        BY <1>0, <3>1 DEF DeleteRow, RequestOK, HoldsKey
      <4>2. {held[c].key} = {ProfileKey(p) : p \in {req[c].id}}
        BY <4>1
      <4> QED
        BY <4>1, <4>2
    <3>2. CASE UpdateStores(c)
      BY <3>2 DEF UpdateStores
    <3>3. CASE Activate(c) \/ DeleteDeactivates(c)
      <4>1. raced' = raced \/ Changes(c, {ProfileKey(req[c].id)}, FALSE)
        BY <3>3 DEF Activate, DeleteDeactivates, SetActive
      <4>2. {ProfileKey(req[c].id)} = {ProfileKey(p) : p \in {req[c].id}}
        OBVIOUS
      <4> QED
        BY <4>1, <4>2
    <3> QED
      BY <1>8, <3>1, <3>2, <3>3
  <2>3. \A P, f : FanKey(f) \notin {ProfileKey(p) : p \in P}
    BY Keys
  <2> QED
    BY <1>3, <1>4, <2>1, <2>2, <2>3
<1>9. CASE UNCHANGED <<fans, chosen, raced>>
  BY <1>4, <1>9
<1>10. ASSUME NEW c \in Client,
              \/ Call(c) \/ Refused(c) \/ Create(c) \/ UpdateReads(c) \/ Preload(c)
              \/ DeleteReads(c) \/ DeleteFinds(c) \/ DeleteInputs(c)
              \/ FanReads(c) \/ DetectFinds(c)
       PROVE  UNCHANGED <<fans, chosen, raced>>
  BY <1>10 DEF tables, history, Call, Refused, Create, UpdateReads, Preload, DeleteReads, DeleteFinds,
     DeleteInputs, FanReads, DetectFinds
<1> QED
  BY <1>5, <1>6, <1>7, <1>8, <1>9, <1>10 DEF Next, vars, tables, history, Crash

\* The label and the zone a user gave a fan outlive every detection that did not
\* read it before they were given: Seeded gives a zone only to a fan without one.
THEOREM UserChoiceCorrect == Spec => []UserChoiceSurvives
<1>1. Init => UserChoiceSurvives
  BY DEF Init, UserChoiceSurvives
<1>2. StoreOK /\ (AllFresh /\ UserChoiceSurvives) /\ [Next]_vars => AllFresh' /\ UserChoiceSurvives'
  BY FreshKept, ChoiceKept
<1> QED
  BY <1>1, <1>2, WholeStarts, StoreTyped, PTL DEF Spec
=============================================================================
