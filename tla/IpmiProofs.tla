------------------------------ MODULE IpmiProofs ------------------------------
(***************************************************************************)
(* What the calls of the IPMI service guarantee together, for any number of*)
(* them, any board and any mix of commands that fail or take effect.       *)
(***************************************************************************)
EXTENDS Ipmi, FiniteSetTheorems, SequenceTheorems, TLAPS

-----------------------------------------------------------------------------
(* The inductive invariant: first where every call is.                     *)

Commanding == {"ready", "blocked", "running"}
Plain == {"zone", "all", "mode", "identify"}
Reading == {"cached", "speeds", "waiting", "woken", "publish", "unlead", "failing", "duties",
            "store", "speedsAsked", "publishAsked", "unleadAsked", "storeAsked"}
WriteCommand ==
    [vendor : Vendor, kind : {"speed"}, cells : SUBSET Nat, value : 0..255]
    \cup [vendor : Vendor, kind : {"mode"}, value : {"manual", "auto"}]

\* The probes left from the one with this number; on a board that obeys every
\* command the one it obeys is among them.
ProbesFrom(c, k) ==
    /\ todo[c] \in Seq({CanDetect[i] : i \in 1..6}) /\ Len(todo[c]) = 7 - k
    /\ \A i \in 1..(7 - k) : todo[c][i] = CanDetect[i + k - 1]
    /\ ~world.faults =>
          /\ world.vendor = "ASRock" => k <= 2
          /\ world.vendor = "Dell" => k <= 3
          /\ world.vendor = "Supermicro" => k <= 5
Own == IF world.hwmon THEN "Hwmon" ELSE world.vendor

\* What a call has to run, and the speeds it carries, where it is.
Bare(c) == todo[c] = <<>> /\ args[c] = <<>>
Reads(c) == args[c] = <<>> /\ todo[c] \in {<<Read("any")>>, <<Read("ASRock")>>}
Carries(c, n) == todo[c] = <<Whole>> /\ args[c] \in Seq(0..100) /\ Len(args[c]) = n
Sends(c) == args[c] = <<>> /\ todo[c] \in Seq(WriteCommand) /\ todo[c] # <<>>
Probes(c) == args[c] = <<>> /\ ~world.hwmon /\ \E k \in 1..6 : ProbesFrom(c, k)

Idles(c) == stage[c] = "idle" /\ op[c] = Idle /\ Bare(c) /\ mine[c] = "none"
ReadsBare(c) == stage[c] \in Reading /\ op[c].kind = "readings" /\ Bare(c)
ReadsOn(c) == stage[c] \in Commanding /\ op[c].kind = "readings" /\ Reads(c)
Takes(c) == stage[c] = "take" /\ op[c].kind \in Plain /\ Bare(c)
Builds(c) == stage[c] = "build" /\ op[c].kind \in {"zone", "all"} /\ \E n \in 0..3 : Carries(c, n)
SendsWhole(c) == stage[c] \in Commanding /\ op[c].kind \in {"zone", "all"} /\ Carries(c, 4)
SendsOn(c) == stage[c] \in Commanding /\ op[c].kind \in Plain /\ Sends(c)
ProbesNone(c) == stage[c] = "probe" /\ op[c].kind = "detect" /\ Bare(c)
ProbesOnBoard(c) == stage[c] \in Commanding /\ op[c].kind = "detect" /\ Probes(c)
Chosen(c) ==
    /\ stage[c] \in {"activate", "install", "installAsked"} /\ Bare(c)
    /\ op[c].kind \in {"detect", "select"} /\ mine[c] \in Vendor
    /\ stage[c] = "activate" => op[c].kind = "detect"
    /\ op[c].kind = "detect" /\ ~world.faults => mine[c] = Own

Place(c) ==
    \/ Idles(c) \/ ReadsBare(c) \/ ReadsOn(c) \/ Takes(c) \/ Builds(c) \/ SendsWhole(c)
    \/ SendsOn(c) \/ ProbesNone(c) \/ ProbesOnBoard(c) \/ Chosen(c)

CallOK(c) ==
    /\ Place(c) /\ mine[c] \in Vendor \cup {"none"} /\ lone[c] \in BOOLEAN
    /\ op[c] # Idle =>
          /\ ProperCall(op[c])
          /\ world.vendor \in {"Dell", "Supermicro"} /\ op[c].kind \in {"zone", "identify"} =>
                op[c].zone \in Cell

Fixed ==
    /\ stage = [c \in Caller |-> stage[c]] /\ op = [c \in Caller |-> op[c]]
    /\ mine = [c \in Caller |-> mine[c]] /\ todo = [c \in Caller |-> todo[c]]
    /\ args = [c \in Caller |-> args[c]] /\ lone = [c \in Caller |-> lone[c]]

BoardOK ==
    /\ board \in [Cell -> 0..255] /\ mode \in {"manual", "auto"}
    /\ driver \in Vendor /\ active \in Vendor /\ tracked \in [Cell -> 0..100]

\* One caller at most reads, those who wait are known, and a command that is held
\* back waits for a step that wants the lock.
QueueOK ==
    /\ speeds \in {"none", "old", "fresh"} /\ readings \in {"none", "old", "fresh"}
    /\ inflight \in BOOLEAN /\ failed \subseteq Caller
    /\ waiters = {c \in Caller : stage[c] = "waiting"}
    /\ inflight <=> \E c \in Caller : Leading(c)
    /\ \A c, d \in Caller : Leading(c) /\ Leading(d) => c = d
    /\ \A c \in Caller : stage[c] = "blocked" => \E d \in Caller : stage[d] \in Locking

CallsOK == world \in World /\ Fixed /\ \A c \in Caller : CallOK(c)
IpmiOK == CallsOK /\ BoardOK /\ QueueOK

\* A lone write is the only one, and runs on the driver the service has; what it
\* has not sent yet, with what it has, is what it was asked for.
Aiming(c) ==
    op[c].kind \in {"zone", "all"} /\ stage[c] \in Commanding \cup {"build"} =>
        IF todo[c] = <<Whole>>
        THEN /\ mine[c] = "ASRock"
             /\ \A f \in Cell : f < Len(args[c]) =>
                   /\ args[c][f + 1] = tracked[f]
                   /\ f \in Aimed("ASRock", op[c]) => tracked[f] = Clamped(op[c].percent)
        ELSE /\ mine[c] \in Vendor \ {"ASRock"}
             /\ \A i \in 1..Len(todo[c]) : /\ todo[c][i].kind = "speed" /\ todo[c][i].vendor = mine[c]
                                           /\ todo[c][i].value = Sent(mine[c], op[c].percent)
             /\ \A f \in Aimed(mine[c], op[c]) :
                   board[f] = Sent(mine[c], op[c].percent) \/ \E i \in 1..Len(todo[c]) : f \in todo[c][i].cells

LoneOK ==
    /\ \A c \in Caller : lone[c] =>
          /\ Writing(c) /\ \A d \in Caller : Writing(d) => d = c
          /\ op[c].kind \in Plain /\ mine[c] # "none" => mine[c] = driver
          /\ op[c].kind = "detect" /\ stage[c] \in {"install", "installAsked"} => active = mine[c]
          /\ Aiming(c)
    /\ last.kind # "none" => \A c \in Caller : ~Writing(c)
    /\ LoneWriteHolds /\ DetectedIsDriven

-----------------------------------------------------------------------------
(* Commands.                                                               *)

\* A percentage, clamped, goes over the wire as a byte.
LEMMA SentType ==
    ASSUME NEW v, NEW p \in Int
    PROVE  Clamped(p) \in 0..100 /\ Byte(Clamped(p)) \in 0..255 /\ Sent(v, p) \in 0..255
<1>1. Clamped(p) \in 0..100
  BY DEF Clamped
<1>2. PICK q \in Int : q = (Clamped(p) * 255) \div 100
  BY <1>1
<1>3. 100 * q <= Clamped(p) * 255 /\ Clamped(p) * 255 < 100 * q + 100
  BY <1>1, <1>2
<1>4. q \in 0..255
  BY <1>1, <1>3
<1> QED
  BY <1>1, <1>2, <1>4 DEF Byte, Sent

\* The commands that write are such commands.
LEMMA CommandType ==
    /\ \A v \in Vendor : \A cells \in SUBSET Nat : \A value \in 0..255 :
          Speed(v, cells, value) \in WriteCommand /\ Speed(v, cells, value).kind = "speed"
    /\ \A v \in Vendor : \A to \in {"manual", "auto"} :
          Mode(v, to) \in WriteCommand /\ Mode(v, to).kind = "mode"
    /\ Whole.kind = "whole"
BY DEF Speed, Mode, Whole, WriteCommand

\* A single command that writes is a sequence of them.
LEMMA OneCommand ==
    ASSUME NEW cmd \in WriteCommand
    PROVE  <<cmd>> \in Seq(WriteCommand) /\ <<cmd>> # <<>> /\ <<cmd>> # <<Whole>>
<1>1. cmd.kind # "whole"
  BY DEF WriteCommand
<1>2. <<cmd>>[1] = cmd /\ <<Whole>>[1] = Whole /\ Whole.kind = "whole"
  BY DEF Whole
<1> QED
  BY <1>1, <1>2

\* What the drivers run for a write is nothing, a command with all speeds of an
\* ASRock board, or commands with their own values.
LEMMA PlanType ==
    ASSUME NEW v \in Vendor, NEW o, ProperCall(o), o.kind \in Plain
    PROVE  \/ Plan(v, o) = <<>> /\ (v = "Hwmon" \/ o.kind \notin {"zone", "all"})
           \/ Plan(v, o) = <<Whole>> /\ v = "ASRock" /\ o.kind \in {"zone", "all"}
           \/ /\ Plan(v, o) \in Seq(WriteCommand) /\ Plan(v, o) # <<>> /\ Plan(v, o) # <<Whole>>
              /\ v # "Hwmon" /\ (o.kind \in {"zone", "all"} => v # "ASRock")
<1> DEFINE Fits(plan) == plan \in Seq(WriteCommand) /\ plan # <<>> /\ plan # <<Whole>>
<1>0. v \in {"Hwmon", "ASRock", "Dell", "Supermicro", "Generic"} /\ Cell \in SUBSET Nat
  BY DEF Vendor, Cell
<1>1. CASE o.kind = "zone"
  <2>1. o.percent \in Int /\ o.zone \in Nat /\ {o.zone} \in SUBSET Nat
    BY <1>1 DEF ProperCall
  <2>2. Clamped(o.percent) \in 0..255 /\ Byte(Clamped(o.percent)) \in 0..255
    BY <2>1, SentType
  <2>3. Plan(v, o) = SetFanSpeed(v, o.zone, Clamped(o.percent))
    BY <1>1 DEF Plan
  <2>4. CASE v = "Dell"
    BY <1>1, <2>1, <2>2, <2>3, <2>4, CommandType, OneCommand DEF SetFanSpeed, DellSpeed
  <2>5. CASE v = "Supermicro"
    BY <1>1, <2>1, <2>2, <2>3, <2>5, CommandType, OneCommand DEF SetFanSpeed, SupermicroSpeed
  <2>6. CASE v = "Generic"
    BY <1>0, <1>1, <2>2, <2>3, <2>6, CommandType, OneCommand DEF SetFanSpeed, GenericAll
  <2>7. CASE v = "ASRock"
    BY <1>1, <2>3, <2>7 DEF SetFanSpeed
  <2>8. CASE v = "Hwmon"
    BY <1>1, <2>3, <2>8 DEF SetFanSpeed
  <2> QED
    BY <1>0, <2>4, <2>5, <2>6, <2>7, <2>8
<1>2. CASE o.kind = "all"
  <2>1. o.percent \in Int
    BY <1>2 DEF ProperCall
  <2>2. Clamped(o.percent) \in 0..255 /\ Byte(Clamped(o.percent)) \in 0..255
    <3>1. Clamped(o.percent) \in 0..100 /\ Byte(Clamped(o.percent)) \in 0..255
      BY <2>1, SentType
    <3> QED
      BY <3>1
  <2>3. Plan(v, o) = SetAllFanSpeeds(v, Clamped(o.percent))
    BY <1>2 DEF Plan
  <2>4. CASE v = "Dell"
    BY <1>0, <1>2, <2>2, <2>3, <2>4, CommandType, OneCommand DEF SetAllFanSpeeds, DellAll
  <2>5. CASE v = "Supermicro"
    <3>1. Plan(v, o) = [n \in 1..4 |-> Speed("Supermicro", {n - 1}, Byte(Clamped(o.percent)))]
      BY <2>3, <2>5 DEF SetAllFanSpeeds, SupermicroAll, SupermicroSpeed
    <3>2. \A n \in 1..4 : Speed("Supermicro", {n - 1}, Byte(Clamped(o.percent))) \in WriteCommand
      <4> SUFFICES ASSUME NEW n \in 1..4
                   PROVE  Speed("Supermicro", {n - 1}, Byte(Clamped(o.percent))) \in WriteCommand
        OBVIOUS
      <4>1. {n - 1} \in SUBSET Nat /\ "Supermicro" \in Vendor
        BY DEF Vendor
      <4> QED
        BY <2>2, <4>1, CommandType
    <3> DEFINE plan == [n \in 1..4 |-> Speed("Supermicro", {n - 1}, Byte(Clamped(o.percent)))]
    <3>3. plan \in Seq(WriteCommand) /\ Len(plan) = 4
      BY <3>2
    <3> HIDE DEF plan
    <3>4. Fits(plan)
      <4>1. Len(<<>>) = 0 /\ Len(<<Whole>>) = 1
        OBVIOUS
      <4>2. plan # <<>>
        BY <3>3, <4>1
      <4>3. plan # <<Whole>>
        BY <3>3, <4>1
      <4> QED
        BY <3>3, <4>2, <4>3
    <3>5. Plan(v, o) = plan
      BY <3>1 DEF plan
    <3> QED
      BY <1>2, <2>5, <3>4, <3>5
  <2>6. CASE v = "Generic"
    BY <1>0, <1>2, <2>2, <2>3, <2>6, CommandType, OneCommand DEF SetAllFanSpeeds, GenericAll
  <2>7. CASE v = "ASRock"
    BY <1>2, <2>3, <2>7 DEF SetAllFanSpeeds
  <2>8. CASE v = "Hwmon"
    BY <1>2, <2>3, <2>8 DEF SetAllFanSpeeds
  <2> QED
    BY <1>0, <2>4, <2>5, <2>6, <2>7, <2>8
<1>3. CASE o.kind \in {"mode", "identify"}
  <2>1. PICK enabled \in BOOLEAN : Plan(v, o) = SetManualMode(v, enabled)
    BY <1>3 DEF Plan, ProperCall
  <2>2. (IF enabled THEN "manual" ELSE "auto") \in {"manual", "auto"}
    OBVIOUS
  <2>3. CASE v \in {"Dell", "Supermicro", "ASRock"}
    <3>1. Plan(v, o) = <<Mode(v, IF enabled THEN "manual" ELSE "auto")>>
      BY <2>1, <2>3 DEF SetManualMode, DellMode, SupermicroMode, ASRockMode
    <3> QED
      BY <1>3, <2>2, <2>3, <3>1, CommandType, OneCommand
  <2>4. CASE v \in {"Hwmon", "Generic"}
    BY <1>3, <2>1, <2>4 DEF SetManualMode
  <2> QED
    BY <1>0, <2>3, <2>4
<1> QED
  BY <1>1, <1>2, <1>3 DEF Plain

\* What a driver sends for a speed, where it does not send all speeds at once: its
\* own commands, each with the speed, which together reach every cell it is for.
LEMMA PlanCovers ==
    ASSUME NEW v \in Vendor \ {"Hwmon", "ASRock"}, NEW o, ProperCall(o), o.kind \in {"zone", "all"}
    PROVE  /\ \A i \in 1..Len(Plan(v, o)) :
                 /\ Plan(v, o)[i].kind = "speed" /\ Plan(v, o)[i].vendor = v
                 /\ Plan(v, o)[i].value = Sent(v, o.percent)
           /\ \A f \in Aimed(v, o) : \E i \in 1..Len(Plan(v, o)) : f \in Plan(v, o)[i].cells
<1> DEFINE p == Clamped(o.percent)
<1>0. v \in {"Dell", "Supermicro", "Generic"}
  BY DEF Vendor
<1> HIDE DEF p
<1>1. Sent(v, o.percent) = IF v \in {"Dell", "Supermicro"} THEN Byte(p) ELSE p
  BY DEF Sent, p
<1>2. CASE o.kind = "zone"
  <2>1. Plan(v, o) = SetFanSpeed(v, o.zone, p)
    BY <1>2 DEF Plan, p
  <2>2. PICK cells : Plan(v, o) = <<Speed(v, cells, Sent(v, o.percent))>> /\ Aimed(v, o) \subseteq cells
    <3>1. CASE v = "Dell"
      BY <1>1, <1>2, <2>1, <3>1 DEF SetFanSpeed, DellSpeed, Aimed
    <3>2. CASE v = "Supermicro"
      BY <1>1, <1>2, <2>1, <3>2 DEF SetFanSpeed, SupermicroSpeed, Aimed
    <3>3. CASE v = "Generic"
      BY <1>1, <1>2, <2>1, <3>3 DEF SetFanSpeed, GenericAll, Aimed
    <3> QED
      BY <1>0, <3>1, <3>2, <3>3
  <2>3. Len(Plan(v, o)) = 1 /\ Plan(v, o)[1] = Speed(v, cells, Sent(v, o.percent))
    BY <2>2
  <2>4. \A i \in 1..Len(Plan(v, o)) : i = 1
    BY <2>3
  <2>5. \A f \in Aimed(v, o) : f \in Plan(v, o)[1].cells
    BY <2>2, <2>3 DEF Speed
  <2>6. 1 \in 1..Len(Plan(v, o))
    BY <2>3
  <2> QED
    BY <2>3, <2>4, <2>5, <2>6 DEF Speed
<1>3. CASE o.kind = "all"
  <2>1. Plan(v, o) = SetAllFanSpeeds(v, p) /\ Aimed(v, o) = Cell
    BY <1>3 DEF Plan, Aimed, p
  <2>2. CASE v \in {"Dell", "Generic"}
    <3>1. Plan(v, o) = <<Speed(v, Cell, Sent(v, o.percent))>>
      BY <1>1, <2>1, <2>2 DEF SetAllFanSpeeds, DellAll, GenericAll
    <3>2. Len(Plan(v, o)) = 1 /\ Plan(v, o)[1] = Speed(v, Cell, Sent(v, o.percent))
      BY <3>1
    <3>3. 1 \in 1..Len(Plan(v, o)) /\ \A i \in 1..Len(Plan(v, o)) : i = 1
      BY <3>2
    <3> QED
      BY <2>1, <3>2, <3>3 DEF Speed
  <2>3. CASE v = "Supermicro"
    <3>1. Plan(v, o) = [n \in 1..4 |-> Speed(v, {n - 1}, Sent(v, o.percent))]
      BY <1>1, <2>1, <2>3 DEF SetAllFanSpeeds, SupermicroAll, SupermicroSpeed
    <3>2. Len(Plan(v, o)) = 4
      BY <3>1
    <3>3. \A i \in 1..4 : Plan(v, o)[i] = Speed(v, {i - 1}, Sent(v, o.percent))
      BY <3>1
    <3>4. \A f \in Cell : f + 1 \in 1..4 /\ f \in Plan(v, o)[f + 1].cells
      BY <3>3 DEF Cell, Speed
    <3>5. \A i \in 1..4 : /\ Plan(v, o)[i].kind = "speed" /\ Plan(v, o)[i].vendor = v
                          /\ Plan(v, o)[i].value = Sent(v, o.percent)
      BY <3>3 DEF Speed
    <3> HIDE DEF p
    <3> QED
      BY <2>1, <3>2, <3>4, <3>5
  <2> QED
    BY <1>0, <2>2, <2>3
<1> QED
  BY <1>2, <1>3

\* A detection's probes, one by one.
LEMMA ProbesListed ==
    /\ CanDetect \in Seq({CanDetect[i] : i \in 1..6}) /\ Len(CanDetect) = 6
    /\ CanDetect[1] = Name /\ CanDetect[2] = Read("ASRock")
    /\ CanDetect[3] = Mode("Dell", "manual") /\ CanDetect[4] = Speed("Dell", {0}, 50)
    /\ CanDetect[5] = Mode("Supermicro", "manual") /\ CanDetect[6] = Speed("Supermicro", {0}, 50)
<1>1. CanDetect = <<Name, Read("ASRock"), Mode("Dell", "manual"), Speed("Dell", {0}, 50),
                    Mode("Supermicro", "manual"), Speed("Supermicro", {0}, 50)>>
  <2>1. ASSUME NEW a, NEW b, NEW c, NEW d, NEW e, NEW f
        PROVE  (<<a, b>> \o <<c, d>>) \o <<e, f>> = <<a, b, c, d, e, f>>
    <3> DEFINE S == {a, b, c, d, e, f}
    <3>1. <<a, b>> \in Seq(S) /\ <<c, d>> \in Seq(S) /\ <<e, f>> \in Seq(S)
      OBVIOUS
    <3>0. \A s, t \in Seq(S) : /\ s \o t \in Seq(S) /\ Len(s \o t) = Len(s) + Len(t)
                               /\ \A i \in 1..(Len(s) + Len(t)) :
                                     (s \o t)[i] = IF i <= Len(s) THEN s[i] ELSE t[i - Len(s)]
      OBVIOUS
    <3> HIDE DEF S
    <3>7. Len(<<a, b>>) = 2 /\ Len(<<c, d>>) = 2 /\ Len(<<e, f>>) = 2
      OBVIOUS
    <3>2. PICK s \in Seq(S) : s = <<a, b>> \o <<c, d>>
      BY <3>0, <3>1
    <3>3. Len(s) = 4 /\ s[1] = a /\ s[2] = b /\ s[3] = c /\ s[4] = d
      <4>1. Len(s) = 4 /\ \A i \in 1..4 : s[i] = IF i <= 2 THEN <<a, b>>[i] ELSE <<c, d>>[i - 2]
        BY <3>0, <3>1, <3>2, <3>7
      <4> QED
        BY <4>1
    <3>4. PICK t \in Seq(S) : t = s \o <<e, f>>
      BY <3>0, <3>1
    <3>5. Len(t) = 6 /\ t[1] = a /\ t[2] = b /\ t[3] = c /\ t[4] = d /\ t[5] = e /\ t[6] = f
      <4>1. Len(t) = 6 /\ \A i \in 1..6 : t[i] = IF i <= 4 THEN s[i] ELSE <<e, f>>[i - 4]
        <5>1. Len(s) = 4
          BY <3>3
        <5>2. PICK u \in Seq(S) : u = <<e, f>>
          BY <3>1
        <5>3. Len(u) = 2
          BY <3>7, <5>2
        <5>4. t = s \o u
          BY <3>4, <5>2
        <5>5. /\ Len(s \o u) = Len(s) + Len(u)
              /\ \A i \in 1..(Len(s) + Len(u)) :
                    (s \o u)[i] = IF i <= Len(s) THEN s[i] ELSE u[i - Len(s)]
          BY ConcatProperties
        <5> QED
          BY <5>1, <5>2, <5>3, <5>4, <5>5
      <4> QED
        BY <3>3, <4>1
    <3>6. t = <<a, b, c, d, e, f>>
      BY <3>5
    <3> QED
      BY <3>2, <3>4, <3>6
  <2> QED
    BY <2>1 DEF CanDetect, ASRockProbes, DellProbes, SupermicroProbes
<1> QED
  BY <1>1

\* The command a read of the speeds runs is no probe and no write.
LEMMA OnlyReaders ==
    /\ \A i \in 1..6 : CanDetect[i] # Read("any")
    /\ Read("any") \notin WriteCommand
    /\ Read("any") # Whole /\ Read("any") # Read("ASRock")
<1>1. Read("any").vendor = "any" /\ Read("any").kind = "read"
  BY DEF Read
<1>2. \A i \in 1..6 : CanDetect[i].vendor # "any"
  BY ProbesListed DEF Name, Read, Mode, Speed
<1>3. \A cmd \in WriteCommand : cmd.kind # "read"
  BY DEF WriteCommand
<1>4. Whole.kind = "whole" /\ Read("ASRock").vendor = "ASRock"
  BY DEF Whole, Read
<1> QED
  BY <1>1, <1>2, <1>3, <1>4

\* The steps that take the lock for writing.
LEMMA AskedFacts ==
    /\ DOMAIN Asked = {"speeds", "publish", "unlead", "store", "install"}
    /\ Asked["speeds"] = "speedsAsked" /\ Asked["publish"] = "publishAsked"
    /\ Asked["unlead"] = "unleadAsked" /\ Asked["store"] = "storeAsked"
    /\ Asked["install"] = "installAsked"
    /\ Locking = {"speedsAsked", "publishAsked", "unleadAsked", "storeAsked", "installAsked"}
<1>1. /\ DOMAIN Asked = {"speeds", "publish", "unlead", "store", "install"}
      /\ Asked["speeds"] = "speedsAsked" /\ Asked["publish"] = "publishAsked"
      /\ Asked["unlead"] = "unleadAsked" /\ Asked["store"] = "storeAsked"
      /\ Asked["install"] = "installAsked"
  BY DEF Asked
<1> QED
  BY <1>1 DEF Locking

-----------------------------------------------------------------------------
(* A step of one call leaves the others where they are, or lets them on.   *)

Stays(d) ==
    /\ op'[d] = op[d] /\ todo'[d] = todo[d] /\ args'[d] = args[d] /\ mine'[d] = mine[d]
    /\ lone'[d] \in {lone[d], FALSE}
    /\ \/ stage'[d] = stage[d]
       \/ stage[d] = "blocked" /\ stage'[d] = "running"
       \/ stage[d] = "waiting" /\ stage'[d] = "woken"

\* What a call has to run is the same with the same commands and speeds.
LEMMA SameContents ==
    ASSUME NEW c \in Caller, todo'[c] = todo[c], args'[c] = args[c], world' = world
    PROVE  /\ Bare(c) => Bare(c)'
           /\ Reads(c) => Reads(c)'
           /\ Sends(c) => Sends(c)'
           /\ \A n \in 0..4 : Carries(c, n) => Carries(c, n)'
           /\ Probes(c) => Probes(c)'
<1>1. (Bare(c) => Bare(c)') /\ (Reads(c) => Reads(c)') /\ (Sends(c) => Sends(c)')
  BY DEF Bare, Reads, Sends
<1>2. \A n \in 0..4 : Carries(c, n) => Carries(c, n)'
  BY DEF Carries
<1>3. Probes(c) => Probes(c)'
  BY DEF Probes, ProbesFrom
<1> QED
  BY <1>1, <1>2, <1>3

\* What holds of a call holds of it when another takes a step.
LEMMA OtherKept ==
    ASSUME NEW d \in Caller, CallOK(d), Stays(d), world' = world
    PROVE  CallOK(d)' /\ (Leading(d)' <=> Leading(d))
<1>1. /\ (Bare(d) => Bare(d)') /\ (Reads(d) => Reads(d)') /\ (Sends(d) => Sends(d)')
      /\ (Probes(d) => Probes(d)')
  BY SameContents DEF Stays
<1>2. \A n \in 0..4 : Carries(d, n) => Carries(d, n)'
  BY SameContents DEF Stays
<1>3. (Probes(d) => Probes(d)')
  BY <1>1
<1>4. Place(d)'
  <2>1. CASE Idles(d)
    BY <1>1, <2>1 DEF Stays, Place, Idles
  <2>2. CASE ReadsBare(d)
    BY <1>1, <2>2 DEF Stays, Place, ReadsBare, Reading
  <2>3. CASE ReadsOn(d)
    BY <1>1, <2>3 DEF Stays, Place, ReadsOn, Commanding
  <2>4. CASE Takes(d)
    BY <1>1, <2>4 DEF Stays, Place, Takes
  <2>5. CASE Builds(d)
    BY <1>2, <2>5 DEF Stays, Place, Builds
  <2>6. CASE SendsWhole(d)
    BY <1>2, <2>6 DEF Stays, Place, SendsWhole, Commanding
  <2>7. CASE SendsOn(d)
    BY <1>1, <2>7 DEF Stays, Place, SendsOn, Commanding
  <2>8. CASE ProbesNone(d)
    BY <1>1, <2>8 DEF Stays, Place, ProbesNone
  <2>9. CASE ProbesOnBoard(d)
    BY <1>3, <2>9 DEF Stays, Place, ProbesOnBoard, Commanding
  <2>10. CASE Chosen(d)
    BY <1>1, <2>10 DEF Stays, Place, Chosen, Own
  <2> QED
    BY <2>1, <2>2, <2>3, <2>4, <2>5, <2>6, <2>7, <2>8, <2>9, <2>10 DEF CallOK, Place
<1>5. Leading(d)' <=> Leading(d)
  <2>1. Asked.publish = "publishAsked" /\ Asked.unlead = "unleadAsked"
    BY DEF Asked
  <2> QED
    BY <2>1 DEF Leading, Stays
<1> QED
  BY <1>4, <1>5 DEF CallOK, Stays

\* Releasing the lock lets the commands that were held back start.
LEMMA Unlocked ==
    ASSUME NEW stages, Unlock(stages)
    PROVE  /\ stage' = [d \in Caller |-> stage'[d]]
           /\ \A d \in Caller : /\ stage'[d] = IF stages[d] = "blocked" THEN "running" ELSE stages[d]
                                /\ stage'[d] # "blocked"
BY DEF Unlock

\* A call that ends forgets what it held.
LEMMA ForgetsKept ==
    ASSUME CallsOK, NEW c \in Caller, NEW ok \in BOOLEAN, Forgets(c, ok)
    PROVE  /\ op' = [d \in Caller |-> op'[d]] /\ mine' = [d \in Caller |-> mine'[d]]
           /\ todo' = [d \in Caller |-> todo'[d]] /\ args' = [d \in Caller |-> args'[d]]
           /\ lone' = [d \in Caller |-> lone'[d]]
           /\ op'[c] = Idle /\ mine'[c] = "none" /\ todo'[c] = <<>> /\ args'[c] = <<>>
           /\ lone'[c] = FALSE
           /\ \A d \in Caller \ {c} :
                 /\ op'[d] = op[d] /\ mine'[d] = mine[d] /\ todo'[d] = todo[d]
                 /\ args'[d] = args[d] /\ lone'[d] = lone[d]
BY DEF CallsOK, Fixed, Forgets

\* Every step is of one call, and leaves the others where they are.
LEMMA OthersStay ==
    ASSUME CallsOK, QueueOK, NEW c \in Caller, Call(c) \/ Step(c) \/ GiveUp(c)
    PROVE  world' = world /\ Fixed' /\ \A d \in Caller \ {c} : Stays(d)
<1> USE DEF CallsOK
<1>0. \A d \in Caller : lone[d] \in BOOLEAN
  BY DEF CallOK
<1>a. CASE Call(c)
  <2>1. PICK o \in world.calls[c] : Begins(c, o)
    BY <1>a DEF Call
  <2>2. lone' = [d \in Caller |-> lone'[d]] /\ \A d \in Caller \ {c} : lone'[d] \in {lone[d], FALSE}
    BY <2>1 DEF Begins, Fixed, lastVars
  <2>3. op' = [d \in Caller |-> op'[d]] /\ \A d \in Caller \ {c} : op'[d] = op[d]
    BY <2>1 DEF Begins, Fixed
  <2> QED
    BY <1>a, <2>2, <2>3 DEF Call, Fixed, Stays
<1>b. CASE Run(c) \/ AskLock(c) \/ Activate(c) \/ Woken(c) \/ Duties(c)
  BY <1>b DEF Run, AskLock, Activate, Woken, Duties, At, Fixed, Stays, callVars, lastVars, Elsewhere
<1>c. CASE Build(c)
  BY <1>c DEF Build, Fixed, Stays, callVars, lastVars
<1>d. CASE Probe(c) \/ ProbeSucceeds(c) \/ ProbeFails(c)
  BY <1>d DEF Probe, ProbeSucceeds, ProbeFails, Found, ProbesOn, Fixed, Stays, lastVars, Quiet
<1>e. CASE ReadEnds(c)
  BY <1>e DEF ReadEnds, Fixed, Stays, lastVars, Quiet
<1>f. CASE GiveUp(c) \/ WriteFails(c) \/ Cached(c)
  BY <1>f, ForgetsKept DEF GiveUp, WriteFails, Cached, Ends, Fixed, Stays, lastVars, Quiet
<1>g. CASE WriteSucceeds(c)
  BY <1>g, ForgetsKept DEF WriteSucceeds, Ends, Fixed, Stays, lastVars, Quiet
<1>h. CASE Take(c)
  BY <1>h, ForgetsKept DEF Take, Ends, Fixed, Stays, lastVars, Quiet
<1>i. CASE Install(c) \/ Store(c)
  <2>1. Unlock([stage EXCEPT ![c] = "idle"]) /\ Forgets(c, TRUE) /\ world' = world
    BY <1>i DEF Install, Store, Quiet
  <2>2. PICK stages : stages = [stage EXCEPT ![c] = "idle"]
    OBVIOUS
  <2>3. \A d \in Caller \ {c} : stages[d] = stage[d]
    BY <2>2 DEF Fixed
  <2>4. Unlock(stages)
    BY <2>1, <2>2
  <2>5. stage' = [d \in Caller |-> stage'[d]]
        /\ \A d \in Caller : stage'[d] = IF stages[d] = "blocked" THEN "running" ELSE stages[d]
    BY <2>4, Unlocked
  <2>6. \A d \in Caller \ {c} : stage'[d] = IF stage[d] = "blocked" THEN "running" ELSE stage[d]
    BY <2>3, <2>5
  <2> QED
    BY <2>1, <2>5, <2>6, ForgetsKept DEF Fixed, Stays
<1>j. CASE FreshSpeeds(c) \/ Wait(c) \/ Lead(c)
  <2>1. PICK there : Unlock([stage EXCEPT ![c] = there])
    BY <1>j DEF FreshSpeeds, Wait, Lead
  <2>2. PICK stages : stages = [stage EXCEPT ![c] = there]
    OBVIOUS
  <2>3. \A d \in Caller \ {c} : stages[d] = stage[d]
    BY <2>2 DEF Fixed
  <2>4. Unlock(stages)
    BY <2>1, <2>2
  <2>5. stage' = [d \in Caller |-> stage'[d]]
        /\ \A d \in Caller : stage'[d] = IF stages[d] = "blocked" THEN "running" ELSE stages[d]
    BY <2>4, Unlocked
  <2>6. \A d \in Caller \ {c} : stage'[d] = IF stage[d] = "blocked" THEN "running" ELSE stage[d]
    BY <2>3, <2>5
  <2> QED
    BY <1>j, <2>5, <2>6 DEF FreshSpeeds, Wait, Lead, Elsewhere, Fixed, Stays, lastVars
<1>k. CASE Publish(c) \/ Unlead(c)
  <2>1. PICK there : WakeAll(c, there)
    BY <1>k DEF Publish, Unlead
  <2>2. PICK stages : stages = [d \in Caller |-> IF d = c THEN there
                                 ELSE IF d \in waiters THEN "woken" ELSE stage[d]]
    OBVIOUS
  <2>3. \A d \in Caller \ {c} : stages[d] = IF stage[d] = "waiting" THEN "woken" ELSE stage[d]
    BY <2>2 DEF QueueOK
  <2>4. Unlock(stages)
    BY <2>1, <2>2 DEF WakeAll
  <2> QED
    BY <1>k, <2>3, <2>4, Unlocked DEF Publish, Unlead, Elsewhere, Fixed, Stays, lastVars
<1> QED
  BY <1>a, <1>b, <1>c, <1>d, <1>e, <1>f, <1>g, <1>h, <1>i, <1>j, <1>k DEF Step

-----------------------------------------------------------------------------
(* The step of a call leaves it where it can be.                           *)

\* What a call holds is told by where it is.
LEMMA Placed ==
    ASSUME NEW c \in Caller, CallOK(c)
    PROVE  /\ stage[c] = "idle" => Idles(c)
           /\ stage[c] \in Reading => ReadsBare(c)
           /\ stage[c] = "take" => Takes(c)
           /\ stage[c] = "build" => Builds(c)
           /\ stage[c] = "probe" => ProbesNone(c)
           /\ stage[c] \in {"activate", "install", "installAsked"} => Chosen(c)
           /\ stage[c] \in Commanding /\ op[c].kind = "readings" => ReadsOn(c)
           /\ stage[c] \in Commanding /\ op[c].kind = "detect" => ProbesOnBoard(c)
           /\ stage[c] \in Commanding /\ op[c].kind \in Plain => SendsOn(c) \/ SendsWhole(c)
           /\ stage[c] # "idle" => op[c] # Idle
BY DEF CallOK, Place, Idles, ReadsBare, ReadsOn, Takes, Builds, SendsWhole, SendsOn,
       ProbesNone, ProbesOnBoard, Chosen, Reading, Commanding, Plain, Idle

\* A call that has ended is idle.
LEMMA EndedOK ==
    ASSUME CallsOK, NEW c \in Caller, NEW ok \in BOOLEAN, Forgets(c, ok), stage'[c] = "idle"
    PROVE  CallOK(c)' /\ ~Leading(c)'
<1>1. /\ op'[c] = Idle /\ mine'[c] = "none" /\ todo'[c] = <<>> /\ args'[c] = <<>>
      /\ lone'[c] = FALSE
  BY ForgetsKept
<1>2. Idles(c)'
  BY <1>1 DEF Idles, Bare
<1>3. <<>> # <<Read("any")>>
  <2>1. Len(<<>>) = 0 /\ Len(<<Read("any")>>) = 1
    OBVIOUS
  <2> QED
    BY <2>1
<1>4. ~Leading(c)'
  BY <1>1, <1>3 DEF Leading, Asked
<1> QED
  BY <1>1, <1>2, <1>4 DEF CallOK, Place

\* A call that begins is where its kind begins.
LEMMA CallPlaced ==
    ASSUME CallsOK, NEW c \in Caller, Call(c)
    PROVE  CallOK(c)'
<1>0. CallOK(c) /\ world' = world /\ world \in World
  BY DEF CallsOK, Call
<1>1. Idles(c)
  BY <1>0, Placed DEF Call
<1>2. PICK o \in world.calls[c] :
          /\ Begins(c, o)
          /\ stage' = [stage EXCEPT ![c] =
                CASE o.kind = "readings" -> "cached" [] o.kind = "detect" -> "probe"
                  [] o.kind = "select" -> "install" [] OTHER -> "take"]
          /\ mine' = IF o.kind = "select" THEN [mine EXCEPT ![c] = o.vendor] ELSE mine
  BY DEF Call
<1>3. /\ ProperCall(o)
      /\ world.vendor \in {"Dell", "Supermicro"} /\ o.kind \in {"zone", "identify"} => o.zone \in Cell
  BY <1>0, IpmiAssumption
<1>4. op'[c] = o /\ todo'[c] = todo[c] /\ args'[c] = args[c]
  BY <1>2 DEF CallsOK, Fixed, Begins, Call
<1>5. lone'[c] \in BOOLEAN
  BY <1>0, <1>2 DEF CallsOK, Fixed, CallOK, Begins, lastVars
<1>6. stage'[c] = CASE o.kind = "readings" -> "cached" [] o.kind = "detect" -> "probe"
                    [] o.kind = "select" -> "install" [] OTHER -> "take"
  BY <1>2 DEF CallsOK, Fixed
<1>7. mine'[c] = IF o.kind = "select" THEN o.vendor ELSE "none"
  BY <1>1, <1>2 DEF CallsOK, Fixed, Idles
<1>8. Bare(c)'
  BY <1>1, <1>4 DEF Idles, Bare
<1>9. Place(c)'
  <2>1. CASE o.kind = "readings"
    BY <1>4, <1>6, <1>8, <2>1 DEF Place, ReadsBare, Reading
  <2>2. CASE o.kind = "detect"
    BY <1>4, <1>6, <1>8, <2>2 DEF Place, ProbesNone
  <2>3. CASE o.kind = "select"
    BY <1>3, <1>4, <1>6, <1>7, <1>8, <2>3 DEF Place, Chosen, ProperCall
  <2>4. CASE o.kind \in Plain
    BY <1>4, <1>6, <1>8, <2>4 DEF Place, Takes, Plain
  <2> QED
    BY <1>3, <2>1, <2>2, <2>3, <2>4 DEF ProperCall, Plain
<1> QED
  BY <1>0, <1>3, <1>4, <1>5, <1>7, <1>9 DEF CallOK, ProperCall

\* One that runs its next command, or asks for the lock, holds what it held.
LEMMA AskPlaced ==
    ASSUME CallsOK, NEW c \in Caller, Run(c) \/ AskLock(c) \/ Activate(c)
    PROVE  CallOK(c)'
<1>0. CallOK(c) /\ world' = world
  BY DEF CallsOK, Run, AskLock, Activate
<1>1. /\ op'[c] = op[c] /\ mine'[c] = mine[c] /\ todo'[c] = todo[c] /\ args'[c] = args[c]
      /\ lone'[c] = lone[c]
  BY DEF Run, AskLock, Activate, callVars, lastVars
<1>2. /\ (Bare(c) => Bare(c)') /\ (Reads(c) => Reads(c)') /\ (Sends(c) => Sends(c)')
      /\ (Probes(c) => Probes(c)')
  BY <1>0, <1>1, SameContents
<1>3. Carries(c, 4) => Carries(c, 4)'
  BY <1>0, <1>1, SameContents
<1>4. CASE Run(c)
  <2>1. stage[c] \in Commanding /\ stage'[c] \in Commanding
    BY <1>4 DEF Run, At, CallsOK, Fixed, Commanding
  <2>2. ReadsOn(c) \/ SendsWhole(c) \/ SendsOn(c) \/ ProbesOnBoard(c)
    BY <1>0, <2>1 DEF CallOK, Place, Idles, ReadsBare, Takes, Builds, ProbesNone, Chosen,
                      Commanding, Reading
  <2>3. Place(c)'
    BY <1>1, <1>2, <1>3, <2>1, <2>2 DEF Place, ReadsOn, SendsWhole, SendsOn, ProbesOnBoard
  <2> QED
    BY <1>0, <1>1, <2>3 DEF CallOK
<1>5. CASE AskLock(c)
  <2>1. \/ stage[c] \in Reading /\ stage'[c] \in Reading
        \/ stage[c] = "install" /\ stage'[c] = "installAsked"
    BY <1>5, AskedFacts DEF AskLock, At, CallsOK, Fixed, Reading
  <2>2. Place(c)'
    <3>1. CASE stage[c] \in Reading /\ stage'[c] \in Reading
      <4>1. ReadsBare(c)
        BY <1>0, <3>1, Placed
      <4> QED
        BY <1>1, <1>2, <3>1, <4>1 DEF ReadsBare, Place
    <3>2. CASE stage[c] = "install" /\ stage'[c] = "installAsked"
      <4>1. Chosen(c)
        BY <1>0, <3>2, Placed
      <4> QED
        BY <1>0, <1>1, <1>2, <3>2, <4>1 DEF Chosen, Place, Own
    <3> QED
      BY <2>1, <3>1, <3>2
  <2> QED
    BY <1>0, <1>1, <2>2 DEF CallOK
<1>6. CASE Activate(c)
  <2>1. stage[c] = "activate" /\ stage'[c] = "install"
    BY <1>6 DEF Activate, At, CallsOK, Fixed
  <2>2. Chosen(c)
    BY <1>0, <2>1, Placed
  <2>3. Place(c)'
    BY <1>0, <1>1, <1>2, <2>1, <2>2 DEF Chosen, Place, Own
  <2> QED
    BY <1>0, <1>1, <2>3 DEF CallOK
<1> QED
  BY <1>4, <1>5, <1>6

\* A reader goes on as a reader.
LEMMA ReadPlaced ==
    ASSUME CallsOK, BoardOK, QueueOK, NEW c \in Caller,
           \/ FreshSpeeds(c) \/ Wait(c) \/ Lead(c) \/ ReadEnds(c) \/ Publish(c) \/ Unlead(c)
           \/ Woken(c) \/ Duties(c)
    PROVE  CallOK(c)'
<1>0. CallOK(c) /\ world' = world /\ op' = op /\ lone' = lone /\ driver \in Vendor
  BY DEF CallsOK, BoardOK, FreshSpeeds, Wait, Lead, ReadEnds, Publish, Unlead, Woken, Duties,
         Elsewhere, Quiet, lastVars
<1>a. op[c].kind = "readings" /\ args[c] = <<>>
  <2>1. CASE ReadEnds(c)
    <3>1. stage[c] \in Commanding /\ op[c].kind = "readings"
      BY <2>1 DEF ReadEnds, Outcome, Commanding
    <3> QED
      BY <1>0, <3>1, Placed DEF ReadsOn, Reads
  <2>2. CASE ~ReadEnds(c)
    <3>1. stage[c] \in Reading
      BY <2>2, AskedFacts DEF FreshSpeeds, Wait, Lead, Publish, Unlead, Woken, Duties, Locked, At,
                              Reading
    <3> QED
      BY <1>0, <3>1, Placed DEF ReadsBare, Bare
  <2> QED
    BY <2>1, <2>2
<1>b. args'[c] = <<>> /\ op'[c].kind = "readings" /\ lone'[c] \in BOOLEAN
  BY <1>0, <1>a DEF CallOK, FreshSpeeds, Wait, Lead, ReadEnds, Publish, Unlead, Woken, Duties
<1>1. /\ mine'[c] \in Vendor \cup {"none"}
      /\ \/ stage'[c] \in Reading /\ todo'[c] = <<>>
         \/ stage'[c] \in Commanding /\ todo'[c] \in {<<Read("any")>>, <<Read("ASRock")>>}
  <2>0. mine[c] \in Vendor \cup {"none"}
    BY <1>0 DEF CallOK
  <2>1. CASE FreshSpeeds(c) \/ Wait(c)
    <3>1. stage[c] \in Reading
      BY <2>1, AskedFacts DEF FreshSpeeds, Wait, Locked, Reading
    <3>2. todo[c] = <<>>
      BY <1>0, <3>1, Placed DEF ReadsBare, Bare
    <3>3. stage'[c] \in {"duties", "waiting"}
      BY <2>1 DEF FreshSpeeds, Wait, Unlock, CallsOK, Fixed
    <3> QED
      BY <2>0, <2>1, <3>2, <3>3 DEF FreshSpeeds, Wait, Reading
  <2>2. CASE Lead(c)
    <3>1. stage'[c] = IF driver = "Hwmon" THEN "publish" ELSE "ready"
      BY <2>2 DEF Lead, Unlock, CallsOK, Fixed
    <3>2. mine'[c] = driver /\ todo'[c] = IF driver = "Hwmon" THEN <<>> ELSE <<Read("any")>>
      BY <2>2 DEF Lead, CallsOK, Fixed
    <3> QED
      BY <1>0, <3>1, <3>2 DEF Reading, Commanding
  <2>3. CASE ReadEnds(c)
    BY <2>0, <2>3 DEF ReadEnds, Reading, CallsOK, Fixed
  <2>4. CASE Publish(c) \/ Unlead(c)
    <3>1. stage[c] \in Reading
      BY <2>4, AskedFacts DEF Publish, Unlead, Locked, Reading
    <3>2. todo[c] = <<>>
      BY <1>0, <3>1, Placed DEF ReadsBare, Bare
    <3>3. stage'[c] \in {"duties", "failing"}
      BY <2>4 DEF Publish, Unlead, WakeAll, Unlock, CallsOK, Fixed
    <3> QED
      BY <2>0, <2>4, <3>2, <3>3 DEF Publish, Unlead, Reading
  <2>5. CASE Woken(c)
    <3>1. todo[c] = <<>>
      BY <1>0, <2>5, Placed DEF Woken, At, Reading, ReadsBare, Bare
    <3> QED
      BY <2>0, <2>5, <3>1 DEF Woken, At, CallsOK, Fixed, Reading
  <2>6. CASE Duties(c)
    BY <2>0, <2>6 DEF Duties, CallsOK, Fixed, Reading, Commanding
  <2> QED
    BY <2>1, <2>2, <2>3, <2>4, <2>5, <2>6
<1>2. Place(c)'
  BY <1>b, <1>1 DEF Place, ReadsBare, ReadsOn, Bare, Reads
<1> QED
  BY <1>0, <1>b, <1>1, <1>2 DEF CallOK

\* A call that ends, in one of the ways it can.
LEMMA EndPlaced ==
    ASSUME CallsOK, NEW c \in Caller,
           WriteFails(c) \/ Install(c) \/ Store(c) \/ GiveUp(c)
    PROVE  CallOK(c)' /\ ~Leading(c)'
<1>1. PICK ok \in BOOLEAN : Forgets(c, ok)
  BY DEF WriteFails, Install, Store, GiveUp, Ends
<1>2. stage'[c] = "idle"
  <2>1. CASE WriteFails(c) \/ GiveUp(c)
    BY <2>1 DEF WriteFails, GiveUp, Ends, CallsOK, Fixed
  <2>2. CASE Install(c) \/ Store(c)
    <3>1. Unlock([stage EXCEPT ![c] = "idle"])
      BY <2>2 DEF Install, Store
    <3> QED
      BY <3>1 DEF Unlock, CallsOK, Fixed
  <2> QED
    BY <2>1, <2>2
<1> QED
  BY <1>1, <1>2, EndedOK

\* A reading that is cached is the answer; otherwise it goes on.
LEMMA CachedPlaced ==
    ASSUME CallsOK, NEW c \in Caller, Cached(c)
    PROVE  CallOK(c)'
<1>0. CallOK(c) /\ world' = world
  BY DEF CallsOK, Cached, Quiet
<1>1. CASE readings = "fresh"
  BY <1>1, EndedOK DEF Cached, Ends, CallsOK, Fixed
<1>2. CASE readings # "fresh"
  <2>1. ReadsBare(c)
    BY <1>0, Placed DEF Cached, Reading
  <2>2. /\ op' = op /\ mine' = mine /\ todo' = todo /\ args' = args /\ lone' = lone
        /\ stage'[c] \in {"store", "speeds"}
    BY <1>2 DEF Cached, lastVars, CallsOK, Fixed
  <2>3. Place(c)'
    BY <2>1, <2>2 DEF ReadsBare, Bare, Reading, Place
  <2> QED
    BY <1>0, <2>2, <2>3 DEF CallOK
<1> QED
  BY <1>1, <1>2

\* A write goes on to its next command, to the zone it identifies, or ends.
LEMMA WritePlaced ==
    ASSUME CallsOK, NEW c \in Caller, WriteSucceeds(c)
    PROVE  CallOK(c)'
<1>0. CallOK(c) /\ world' = world /\ op[c].kind \in Plain /\ stage[c] = "running"
  BY DEF CallsOK, WriteSucceeds, Quiet, Outcome, Plain
<1>1. SendsOn(c) \/ SendsWhole(c)
  BY <1>0, Placed DEF Commanding
<1>a. PICK n \in Nat : n = Len(todo[c])
  <2>1. todo[c] \in Seq(WriteCommand) \/ todo[c] = <<Whole>>
    BY <1>1 DEF SendsOn, Sends, SendsWhole, Carries
  <2> QED
    BY <2>1
<1>2. CASE n > 1
  <2>1. /\ todo'[c] = Tail(todo[c]) /\ stage'[c] = "ready" /\ op' = op /\ mine' = mine
        /\ args' = args /\ lone' = lone
    <3>1. /\ todo' = [todo EXCEPT ![c] = Tail(@)] /\ stage' = [stage EXCEPT ![c] = "ready"]
          /\ UNCHANGED <<op, mine, args, failed, lastVars>>
      <4>1. Len(todo[c]) > 1
        BY <1>a, <1>2
      <4>2. ASSUME Len(todo[c]) = 1 PROVE FALSE
        BY <1>a, <1>2, <4>2
      <4> QED
        BY <4>1, <4>2 DEF WriteSucceeds
    <3>2. lone' = lone
      BY <3>1 DEF lastVars
    <3> QED
      BY <3>1, <3>2 DEF CallsOK, Fixed
  <2>2. SendsOn(c)
    <3>1. Len(<<Whole>>) = 1
      OBVIOUS
    <3>2. SendsWhole(c) => n = 1
      BY <1>a, <3>1 DEF SendsWhole, Carries
    <3> QED
      BY <1>1, <1>2, <3>2
  <2>3. todo[c] \in Seq(WriteCommand) /\ args[c] = <<>>
    BY <2>2 DEF SendsOn, Sends
  <2>4. Tail(todo[c]) \in Seq(WriteCommand) /\ Len(Tail(todo[c])) = n - 1
    BY <1>a, <1>2, <2>3
  <2>5. Tail(todo[c]) # <<>>
    <3>1. Len(<<>>) = 0
      OBVIOUS
    <3>2. n - 1 # 0
      BY <1>2
    <3> QED
      BY <2>4, <3>1, <3>2
  <2>6. Place(c)'
    BY <1>0, <2>1, <2>3, <2>4, <2>5 DEF Place, SendsOn, Sends, Commanding
  <2> QED
    BY <1>0, <2>1, <2>6 DEF CallOK
<1>3. CASE ~(n > 1) /\ n = 1 /\ op[c].kind = "identify"
  <2>1. /\ op' = [op EXCEPT ![c] = [kind |-> "zone", zone |-> @.zone, percent |-> 100]]
        /\ todo'[c] = <<>> /\ stage'[c] = "take" /\ mine' = mine /\ args' = args /\ lone' = lone
    BY <1>a, <1>3 DEF WriteSucceeds, lastVars, CallsOK, Fixed
  <2>2. op'[c] = [kind |-> "zone", zone |-> op[c].zone, percent |-> 100]
    BY <2>1 DEF CallsOK, Fixed
  <2>3. args[c] = <<>>
    BY <1>1, <1>3 DEF SendsOn, Sends, SendsWhole
  <2>4. Place(c)'
    BY <2>1, <2>2, <2>3 DEF Place, Takes, Plain, Bare
  <2>5. op[c] # Idle
    BY <1>0, Placed
  <2>6. ProperCall(op'[c])
    BY <1>0, <1>3, <2>2, <2>5 DEF CallOK, ProperCall
  <2> QED
    BY <1>0, <1>3, <2>1, <2>2, <2>4, <2>5, <2>6 DEF CallOK
<1>4. CASE ~(n > 1) /\ ~(n = 1 /\ op[c].kind = "identify")
  BY <1>a, <1>4, EndedOK DEF WriteSucceeds, Ends, CallsOK, Fixed
<1> QED
  BY <1>2, <1>3, <1>4

\* A write takes the service's driver and its commands.
LEMMA TakePlaced ==
    ASSUME CallsOK, BoardOK, NEW c \in Caller, Take(c)
    PROVE  CallOK(c)'
<1>0. CallOK(c) /\ world' = world /\ stage[c] = "take" /\ driver \in Vendor
  BY DEF CallsOK, BoardOK, Take, Quiet
<1>1. Takes(c) /\ op[c] # Idle
  BY <1>0, Placed
<1>2. ProperCall(op[c]) /\ op[c].kind \in Plain /\ Bare(c)
  BY <1>0, <1>1 DEF CallOK, Takes
<1>3. PICK plan : plan = Plan(driver, op[c])
  OBVIOUS
<1>4. CASE plan = <<>> /\ op[c].kind = "identify" /\ driver # "Hwmon"
  <2>1. /\ op' = [op EXCEPT ![c] = [kind |-> "zone", zone |-> @.zone, percent |-> 100]]
        /\ todo' = todo /\ stage' = stage /\ mine' = mine /\ args' = args /\ lone' = lone
    BY <1>3, <1>4 DEF Take, lastVars
  <2>2. op'[c] = [kind |-> "zone", zone |-> op[c].zone, percent |-> 100]
    BY <2>1 DEF CallsOK, Fixed
  <2>3. Place(c)'
    BY <1>0, <1>2, <2>1, <2>2 DEF Place, Takes, Plain, Bare
  <2>4. ProperCall(op'[c])
    BY <1>2, <1>4, <2>2 DEF ProperCall
  <2> QED
    BY <1>0, <1>1, <1>4, <2>1, <2>2, <2>3, <2>4 DEF CallOK
<1>5. CASE plan = <<>> /\ ~(op[c].kind = "identify" /\ driver # "Hwmon")
  <2>1. Ends(c, TRUE)
    BY <1>3, <1>5 DEF Take
  <2> QED
    BY <2>1, EndedOK DEF Ends, CallsOK, Fixed
<1>6. CASE plan # <<>>
  <2>1. /\ mine'[c] = driver /\ todo'[c] = plan /\ op' = op /\ args' = args /\ lone' = lone
        /\ stage'[c] = IF Head(plan) = Whole THEN "build" ELSE "ready"
    BY <1>3, <1>6 DEF Take, lastVars, CallsOK, Fixed
  <2>2. Place(c)'
    <3>1. CASE plan = <<Whole>> /\ op[c].kind \in {"zone", "all"}
      <4>1. Head(plan) = Whole
        BY <3>1
      <4>2. Carries(c, 0)'
        <5>1. <<>> \in Seq(0..100) /\ Len(<<>>) = 0
          OBVIOUS
        <5> QED
          BY <1>2, <2>1, <3>1, <5>1 DEF Carries, Bare
      <4> QED
        BY <2>1, <3>1, <4>1, <4>2 DEF Place, Builds
    <3>2. CASE plan \in Seq(WriteCommand) /\ plan # <<>>
      <4>1. Head(plan) \in WriteCommand
        BY <3>2
      <4>2. Head(plan) # Whole
        BY <4>1 DEF WriteCommand, Whole
      <4> QED
        BY <1>2, <2>1, <3>2, <4>2 DEF Place, SendsOn, Sends, Commanding, Bare
    <3> QED
      BY <1>0, <1>2, <1>3, <1>6, <3>1, <3>2, PlanType
  <2> QED
    BY <1>0, <2>1, <2>2 DEF CallOK
<1> QED
  BY <1>4, <1>5, <1>6

\* An ASRock command takes the speeds of its fans one after the other.
LEMMA BuildPlaced ==
    ASSUME CallsOK, BoardOK, NEW c \in Caller, Build(c)
    PROVE  /\ CallOK(c)' /\ tracked' \in [Cell -> 0..100]
           /\ Len(args[c]) \in Cell /\ todo[c] = <<Whole>>
<1>0. CallOK(c) /\ world' = world /\ stage[c] = "build" /\ tracked \in [Cell -> 0..100]
  BY DEF CallsOK, BoardOK, Build
<1>1. Builds(c) /\ op[c] # Idle
  BY <1>0, Placed
<1>2. PICK n \in 0..3 : Carries(c, n)
  BY <1>1 DEF Builds
<1>3. n \in Cell /\ Len(args[c]) = n /\ todo[c] = <<Whole>> /\ args[c] \in Seq(0..100)
  BY <1>2 DEF Cell, Carries
<1>4. PICK value \in 0..100 : /\ args' = [args EXCEPT ![c] = Append(@, value)]
                              /\ tracked' = [tracked EXCEPT ![n] = value]
  <2>1. Clamped(op[c].percent) \in 0..100
    <3>1. op[c].percent \in Int
      BY <1>0, <1>1 DEF CallOK, Builds, ProperCall
    <3> QED
      BY <3>1, SentType
  <2> DEFINE target == IF op[c].kind = "all" THEN Cell ELSE GetFansInZone(op[c].zone)
  <2>2. (IF n \in target THEN Clamped(op[c].percent) ELSE tracked[n]) \in 0..100
    BY <1>0, <1>3, <2>1
  <2> QED
    BY <1>3, <2>2 DEF Build
<1>5. /\ stage'[c] = IF n = 3 THEN "ready" ELSE "build"
      /\ op' = op /\ mine' = mine /\ todo' = todo /\ lone' = lone
  BY <1>3 DEF Build, lastVars, CallsOK, Fixed
<1>6. args'[c] = Append(args[c], value)
  BY <1>4 DEF CallsOK, Fixed
<1>7. args'[c] \in Seq(0..100) /\ Len(args'[c]) = n + 1
  BY <1>3, <1>6
<1>8. Carries(c, n + 1)'
  BY <1>3, <1>5, <1>7 DEF Carries
<1>9. Place(c)'
  <2>1. CASE n = 3
    BY <1>1, <1>5, <1>8, <2>1 DEF Place, SendsWhole, Builds, Commanding
  <2>2. CASE n # 3
    <3>1. n + 1 \in 0..3
      BY <2>2
    <3> QED
      BY <1>1, <1>5, <1>8, <2>2, <3>1 DEF Place, Builds
  <2> QED
    BY <2>1, <2>2
<1> QED
  BY <1>0, <1>3, <1>4, <1>5, <1>9 DEF CallOK

\* The probe that is run is one of the six; the vendor of the first and the
\* second is ASRock, and so on.
LEMMA ProbeRun ==
    ASSUME NEW c \in Caller, NEW k \in 1..6, ProbesFrom(c, k), world \in World
    PROVE  /\ todo[c] # <<>> /\ Len(todo[c]) = 7 - k /\ Head(todo[c]) = CanDetect[k]
           /\ todo[c] \in Seq({CanDetect[i] : i \in 1..6})
           /\ CanDetect[k].vendor = IF k <= 2 THEN "ASRock" ELSE IF k <= 4 THEN "Dell" ELSE "Supermicro"
           /\ CanDetect[k] = Name <=> k = 1
           /\ world.vendor \in {"ASRock", "Dell", "Supermicro", "Generic"}
<1>1. todo[c] \in Seq({CanDetect[i] : i \in 1..6}) /\ Len(todo[c]) = 7 - k
  BY DEF ProbesFrom
<1>2. todo[c][1] = CanDetect[k]
  <2>1. 1 \in 1..(7 - k) /\ 1 + k - 1 = k
    OBVIOUS
  <2> QED
    BY <2>1 DEF ProbesFrom
<1>3. todo[c] # <<>>
  <2>1. Len(<<>>) = 0 /\ 7 - k # 0
    OBVIOUS
  <2> QED
    BY <1>1, <2>1
<1>4. Head(todo[c]) = todo[c][1]
  BY <1>1, <1>3
<1>5. k = 1 \/ k = 2 \/ k = 3 \/ k = 4 \/ k = 5 \/ k = 6
  OBVIOUS
<1>6. CanDetect[k].vendor = IF k <= 2 THEN "ASRock" ELSE IF k <= 4 THEN "Dell" ELSE "Supermicro"
  BY <1>5, ProbesListed DEF Name, Read, Mode, Speed
<1>7. CanDetect[k] = Name <=> k = 1
  <2>1. Name.kind = "name"
    BY DEF Name
  <2>2. k # 1 => CanDetect[k].kind # "name"
    BY <1>5, ProbesListed DEF Read, Mode, Speed
  <2> QED
    BY <2>1, <2>2, ProbesListed
<1>8. world.vendor \in {"ASRock", "Dell", "Supermicro", "Generic"}
  BY IpmiAssumption DEF Vendor
<1> QED
  BY <1>1, <1>2, <1>3, <1>4, <1>6, <1>7, <1>8

\* The probes that follow are those from a later one.
LEMMA ProbesAfter ==
    ASSUME NEW c \in Caller, NEW k \in 1..6, ProbesFrom(c, k), world \in World, world' = world,
           NEW s \in 1..2, k + s <= 6,
           todo'[c] = SubSeq(todo[c], s + 1, Len(todo[c])),
           ~world.faults =>
              /\ world.vendor = "ASRock" => k + s <= 2
              /\ world.vendor = "Dell" => k + s <= 3
              /\ world.vendor = "Supermicro" => k + s <= 5
    PROVE  ProbesFrom(c, k + s)'
<1>1. todo[c] \in Seq({CanDetect[i] : i \in 1..6}) /\ Len(todo[c]) = 7 - k
      /\ \A i \in 1..(7 - k) : todo[c][i] = CanDetect[i + k - 1]
  BY DEF ProbesFrom
<1>2. todo'[c] = SubSeq(todo[c], s + 1, 7 - k)
  BY <1>1
<1>3. todo'[c] \in Seq({CanDetect[i] : i \in 1..6}) /\ Len(todo'[c]) = 7 - (k + s)
  <2>1. ASSUME NEW S, NEW q \in Seq(S), NEW m \in 2..3, NEW n \in 1..6, Len(q) = n, m <= n
        PROVE  SubSeq(q, m, n) \in Seq(S) /\ Len(SubSeq(q, m, n)) = n - m + 1
    <3>1. \A i \in m..n : q[i] \in S
      BY <2>1
    <3>2. m \in Int /\ n \in Int
      BY <2>1
    <3> QED
      BY <2>1, <3>1, <3>2, SubSeqProperties
  <2>2. s + 1 \in 2..3 /\ 7 - k \in 1..6 /\ s + 1 <= 7 - k /\ (7 - k) - (s + 1) + 1 = 7 - (k + s)
    OBVIOUS
  <2> QED
    BY <1>1, <1>2, <2>1, <2>2
<1>4. \A i \in 1..(7 - (k + s)) : todo'[c][i] = CanDetect[i + (k + s) - 1]
  <2> SUFFICES ASSUME NEW i \in 1..(7 - (k + s))
               PROVE  todo'[c][i] = CanDetect[i + (k + s) - 1]
    OBVIOUS
  <2>1. todo'[c][i] = todo[c][i + s]
    BY <1>1, <1>2
  <2>2. i + s \in 1..(7 - k) /\ (i + s) + k - 1 = i + (k + s) - 1
    OBVIOUS
  <2> QED
    BY <1>1, <2>1, <2>2
<1> QED
  BY <1>3, <1>4 DEF ProbesFrom

\* A detection asks hwmon, and then one driver after the other until one answers.
LEMMA ProbePlaced ==
    ASSUME CallsOK, NEW c \in Caller, Probe(c) \/ ProbeSucceeds(c) \/ ProbeFails(c)
    PROVE  CallOK(c)' /\ ~Leading(c)'
<1>0. /\ CallOK(c) /\ world' = world /\ world \in World /\ op' = op /\ args' = args /\ lone' = lone
      /\ op[c] # Idle
  <2>1. /\ CallOK(c) /\ world' = world /\ world \in World /\ op' = op /\ args' = args /\ lone' = lone
    BY DEF CallsOK, Probe, ProbeSucceeds, ProbeFails, Quiet, lastVars
  <2>2. stage[c] # "idle"
    BY DEF Probe, ProbeSucceeds, ProbeFails, Outcome
  <2> QED
    BY <2>1, <2>2, Placed
<1>1. world.vendor \in Vendor \ {"Hwmon"} /\ world.hwmon \in BOOLEAN
  BY <1>0, IpmiAssumption
<1>a. ASSUME NEW v \in Vendor, Found(c, v), op[c].kind = "detect", args[c] = <<>>,
             ~world.faults => v = Own
      PROVE  CallOK(c)' /\ ~Leading(c)'
  <2>1. mine'[c] = v /\ todo'[c] = <<>> /\ stage'[c] = "activate"
    BY <1>a DEF Found, CallsOK, Fixed
  <2>2. Chosen(c)'
    BY <1>0, <1>a, <2>1 DEF Chosen, Bare, Own
  <2>3. <<>> # <<Read("any")>>
    <3>1. Len(<<>>) = 0 /\ Len(<<Read("any")>>) = 1
      OBVIOUS
    <3> QED
      BY <3>1
  <2> QED
    BY <1>0, <2>1, <2>2, <2>3 DEF CallOK, Place, Leading, Asked
<1>b. ASSUME NEW k \in 1..6, ProbesFrom(c, k)', stage'[c] = "ready", mine'[c] = mine[c],
             op[c].kind = "detect", args[c] = <<>>, ~world.hwmon
      PROVE  CallOK(c)' /\ ~Leading(c)'
  <2>1. Probes(c)'
    BY <1>0, <1>b DEF Probes
  <2>2. ProbesOnBoard(c)'
    BY <1>0, <1>b, <2>1 DEF ProbesOnBoard, Commanding
  <2>3. todo'[c][1] = CanDetect[k]
    <3>1. 1 \in 1..(7 - k) /\ 1 + k - 1 = k
      BY <1>b
    <3> QED
      BY <1>b, <3>1 DEF ProbesFrom
  <2>4. todo'[c] # <<Read("any")>>
    BY <2>3, OnlyReaders
  <2> QED
    BY <1>0, <1>b, <2>2, <2>4 DEF CallOK, Place, Leading, Asked
<1>2. CASE Probe(c)
  <2>1. op[c].kind = "detect" /\ Bare(c)
    BY <1>0, <1>2, Placed DEF Probe, ProbesNone
  <2>2. CASE world.hwmon
    <3>1. mine'[c] = "Hwmon" /\ todo'[c] = <<>> /\ stage'[c] = "activate"
      BY <1>2, <2>1, <2>2 DEF Probe, Bare, CallsOK, Fixed
    <3>2. Chosen(c)'
      BY <1>0, <2>1, <2>2, <3>1 DEF Chosen, Bare, Own, Vendor
    <3>3. <<>> # <<Read("any")>>
      <4>1. Len(<<>>) = 0 /\ Len(<<Read("any")>>) = 1
        OBVIOUS
      <4> QED
        BY <4>1
    <3> QED
      BY <1>0, <3>1, <3>2, <3>3 DEF CallOK, Place, Leading, Asked, Vendor
  <2>3. CASE ~world.hwmon
    <3>1. mine'[c] = mine[c] /\ todo'[c] = CanDetect /\ stage'[c] = "ready"
      BY <1>2, <2>3 DEF Probe, CallsOK, Fixed
    <3>2. ProbesFrom(c, 1)'
      BY <1>0, <3>1, ProbesListed DEF ProbesFrom
    <3> QED
      BY <1>b, <2>1, <2>3, <3>1, <3>2 DEF Bare
  <2> QED
    BY <2>2, <2>3
<1>3. CASE ProbeSucceeds(c) \/ ProbeFails(c)
  <2>1. op[c].kind = "detect" /\ stage[c] = "running"
    BY <1>3 DEF ProbeSucceeds, ProbeFails, Outcome
  <2>2. PICK k \in 1..6 : ProbesFrom(c, k)
    BY <1>0, <2>1, Placed DEF ProbesOnBoard, Probes, Commanding
  <2>3. args[c] = <<>> /\ ~world.hwmon
    BY <1>0, <2>1, Placed DEF ProbesOnBoard, Probes, Commanding
  <2>4. Own = world.vendor
    BY <2>3 DEF Own
  <2>5. CASE ProbeSucceeds(c)
    <3>1. CanDetect[k].vendor = world.vendor
      BY <1>0, <2>2, <2>5, ProbeRun DEF ProbeSucceeds, Outcome, Obeyed
    <3>2. CASE Found(c, Head(todo[c]).vendor)
      BY <1>0, <1>1, <1>a, <2>1, <2>2, <2>3, <2>4, <3>1, <3>2, ProbeRun
    <3>3. CASE Head(todo[c]) = Name /\ ProbesOn(c, Tail(todo[c]))
      <4>1. k = 1 /\ todo[c] \in Seq({CanDetect[i] : i \in 1..6})
        BY <1>0, <2>2, <3>3, ProbeRun
      <4>2. Tail(todo[c]) = SubSeq(todo[c], 2, Len(todo[c]))
        BY <4>1
      <4>3. todo'[c] = Tail(todo[c]) /\ stage'[c] = "ready" /\ mine'[c] = mine[c]
        BY <3>3 DEF ProbesOn, CallsOK, Fixed
      <4>4. ProbesFrom(c, 1 + 1)'
        <5>1. world.vendor = "ASRock"
          BY <1>0, <2>2, <3>1, <4>1, ProbeRun
        <5>2. todo'[c] = SubSeq(todo[c], 1 + 1, Len(todo[c]))
          BY <4>2, <4>3
        <5>3. ProbesFrom(c, 1) /\ 1 \in 1..6 /\ 1 \in 1..2 /\ 1 + 1 <= 2 /\ 1 + 1 <= 6
          BY <2>2, <4>1
        <5> QED
          BY <1>0, <5>1, <5>2, <5>3, ProbesAfter
      <4> QED
        BY <1>b, <2>1, <2>3, <4>3, <4>4
    <3> QED
      BY <2>5, <3>2, <3>3 DEF ProbeSucceeds
  <2>6. CASE ProbeFails(c)
    <3>0. /\ Head(todo[c]) = CanDetect[k] /\ (CanDetect[k] = Name <=> k = 1)
          /\ CanDetect[k].vendor = IF k <= 2 THEN "ASRock" ELSE IF k <= 4 THEN "Dell" ELSE "Supermicro"
          /\ world.vendor \in {"ASRock", "Dell", "Supermicro", "Generic"}
      BY <1>0, <2>2, ProbeRun
    <3>1. ~world.faults => CanDetect[k].vendor # world.vendor
      BY <2>6, <3>0 DEF ProbeFails, Outcome, Obeyed
    <3>a. ~world.faults => /\ world.vendor = "ASRock" => k <= 2
                           /\ world.vendor = "Dell" => k <= 3
                           /\ world.vendor = "Supermicro" => k <= 5
      BY <2>2 DEF ProbesFrom
    <3>2. PICK s \in 1..2 : s = IF k = 1 THEN 2 ELSE 1
      OBVIOUS
    <3>3. PICK rest : rest = SubSeq(todo[c], s + 1, Len(todo[c]))
      OBVIOUS
    <3>4. ProbesOn(c, rest) \/ (rest = <<>> /\ Found(c, "Generic"))
      <4>1. s + 1 = IF Head(todo[c]) = Name THEN 3 ELSE 2
        BY <3>0, <3>2
      <4>2. rest = SubSeq(todo[c], IF Head(todo[c]) = Name THEN 3 ELSE 2, Len(todo[c]))
        BY <3>3, <4>1
      <4> QED
        BY <2>6, <4>2 DEF ProbeFails
    <3>5. todo[c] \in Seq({CanDetect[i] : i \in 1..6}) /\ Len(todo[c]) = 7 - k
      BY <2>2 DEF ProbesFrom
    <3>6. CASE k + s <= 6
      <4>1. rest # <<>>
        <5>1. Len(rest) = 7 - (k + s) /\ Len(<<>>) = 0
          BY <3>3, <3>5, <3>6
        <5>2. 7 - (k + s) # 0
          BY <3>6
        <5> QED
          BY <5>1, <5>2
      <4>2. todo'[c] = rest /\ stage'[c] = "ready" /\ mine'[c] = mine[c]
        BY <3>4, <4>1 DEF ProbesOn, CallsOK, Fixed
      <4>3. ~world.faults =>
                /\ world.vendor = "ASRock" => k + s <= 2
                /\ world.vendor = "Dell" => k + s <= 3
                /\ world.vendor = "Supermicro" => k + s <= 5
        <5>1. ASSUME ~world.faults, world.vendor = "ASRock" PROVE k + s <= 2
          BY <3>0, <3>1, <3>2, <3>a, <5>1
        <5>2. ASSUME ~world.faults, world.vendor = "Dell" PROVE k + s <= 3
          BY <3>0, <3>1, <3>2, <3>a, <5>2
        <5>3. ASSUME ~world.faults, world.vendor = "Supermicro" PROVE k + s <= 5
          BY <3>0, <3>1, <3>2, <3>a, <5>3
        <5> QED
          BY <5>1, <5>2, <5>3
      <4>4. ProbesFrom(c, k + s)'
        BY <1>0, <2>2, <3>3, <3>6, <4>2, <4>3, ProbesAfter
      <4>5. k + s \in 1..6
        BY <3>6
      <4> QED
        BY <1>b, <2>1, <2>3, <4>2, <4>4, <4>5
    <3>7. CASE ~(k + s <= 6)
      <4>1. k = 6 /\ s = 1
        BY <3>2, <3>7
      <4>2. rest = <<>>
        <5>1. rest = SubSeq(todo[c], 2, 1) /\ Len(todo[c]) = 1
          BY <3>3, <3>5, <4>1
        <5> QED
          BY <3>5, <5>1
      <4>3. Found(c, "Generic")
        BY <3>4, <4>2 DEF ProbesOn
      <4>4. ~world.faults => world.vendor = "Generic"
        BY <3>0, <3>1, <3>a, <4>1
      <4> QED
        BY <1>a, <2>1, <2>3, <2>4, <4>3, <4>4 DEF Vendor
    <3> QED
      BY <3>6, <3>7
  <2> QED
    BY <1>3, <2>5, <2>6
<1> QED
  BY <1>2, <1>3

\* Every call stays where it can be.
LEMMA CallsKept ==
    ASSUME CallsOK, BoardOK, QueueOK, [Next]_vars
    PROVE  CallsOK'
<1>1. CASE vars' = vars
  <2>1. /\ world' = world /\ op' = op /\ stage' = stage /\ mine' = mine /\ todo' = todo
        /\ args' = args /\ lone' = lone
    BY <1>1 DEF vars, callVars, lastVars
  <2>2. \A d \in Caller : Stays(d)
    BY <2>1 DEF Stays
  <2> QED
    BY <2>1, <2>2, OtherKept DEF CallsOK, Fixed
<1>2. CASE Expire
  <2>1. /\ world' = world /\ op' = op /\ stage' = stage /\ mine' = mine /\ todo' = todo
        /\ args' = args /\ lone' = lone
    BY <1>2 DEF Expire, callVars, lastVars
  <2>2. \A d \in Caller : Stays(d)
    BY <2>1 DEF Stays
  <2> QED
    BY <2>1, <2>2, OtherKept DEF CallsOK, Fixed
<1>3. CASE \E c \in Caller : Call(c) \/ Step(c) \/ GiveUp(c)
  <2>1. PICK c \in Caller : Call(c) \/ Step(c) \/ GiveUp(c)
    BY <1>3
  <2>2. world' = world /\ Fixed' /\ \A d \in Caller \ {c} : Stays(d)
    BY <2>1, OthersStay
  <2>3. CallOK(c)'
    BY <2>1, CallPlaced, AskPlaced, ReadPlaced, EndPlaced, CachedPlaced, WritePlaced, TakePlaced,
       BuildPlaced, ProbePlaced DEF Step
  <2>4. \A d \in Caller \ {c} : CallOK(d)'
    BY <2>2, OtherKept DEF CallsOK
  <2> QED
    BY <2>2, <2>3, <2>4 DEF CallsOK
<1> QED
  BY <1>1, <1>2, <1>3 DEF Next

-----------------------------------------------------------------------------
(* The board and the drivers.                                              *)

\* A command sets speeds that are bytes.
LEMMA Applied ==
    ASSUME CallsOK, BoardOK, NEW c \in Caller, stage[c] = "running", Apply(c, Head(todo[c]))
    PROVE  board' \in [Cell -> 0..255] /\ mode' \in {"manual", "auto"}
<1>0. CallOK(c) /\ world \in World /\ board \in [Cell -> 0..255] /\ mode \in {"manual", "auto"}
  BY DEF CallsOK, BoardOK
<1>1. PICK cmd : cmd = Head(todo[c])
  OBVIOUS
<1>2. Apply(c, cmd)
  BY <1>1
<1>3. ASSUME cmd.kind \in {"read", "name"} PROVE board' = board /\ mode' = mode
  BY <1>2, <1>3 DEF Apply, boardVars
<1>4. ASSUME cmd.kind = "mode", cmd.value \in {"manual", "auto"}
      PROVE  board' = board /\ mode' \in {"manual", "auto"}
  BY <1>2, <1>4 DEF Apply
<1>5. ASSUME cmd.kind = "speed", cmd.value \in 0..255
      PROVE  board' \in [Cell -> 0..255] /\ mode' = mode
  BY <1>0, <1>2, <1>5 DEF Apply
<1>6. CASE ReadsOn(c)
  <2>1. cmd \in {Read("any"), Read("ASRock")}
    BY <1>1, <1>6 DEF ReadsOn, Reads
  <2> QED
    BY <1>0, <1>3, <2>1 DEF Read
<1>7. CASE SendsWhole(c)
  <2>1. cmd = Whole /\ args[c] \in Seq(0..100) /\ Len(args[c]) = 4
    BY <1>1, <1>7 DEF SendsWhole, Carries
  <2>2. board' = [f \in Cell |-> args[c][f + 1]] /\ mode' = mode
    BY <1>2, <2>1 DEF Apply, Whole
  <2>3. \A f \in Cell : args[c][f + 1] \in 0..100
    <3>1. \A i \in 1..4 : args[c][i] \in 0..100
      <4>1. \A q \in Seq(0..100) : \A i \in 1..Len(q) : q[i] \in 0..100
        BY ElementOfSeq
      <4> QED
        BY <2>1, <4>1
    <3>2. \A f \in Cell : f + 1 \in 1..4
      BY DEF Cell
    <3> QED
      BY <3>1, <3>2
  <2>4. \A f \in Cell : args[c][f + 1] \in 0..255
    BY <2>3
  <2> QED
    BY <1>0, <2>2, <2>4
<1>8. CASE SendsOn(c)
  <2>1. cmd \in WriteCommand
    BY <1>1, <1>8 DEF SendsOn, Sends
  <2>2. CASE cmd.kind = "speed"
    <3>1. cmd.value \in 0..255
      BY <2>1, <2>2 DEF WriteCommand
    <3> QED
      BY <1>0, <1>5, <2>2, <3>1
  <2>3. CASE cmd.kind = "mode"
    <3>1. cmd.value \in {"manual", "auto"}
      BY <2>1, <2>3 DEF WriteCommand
    <3> QED
      BY <1>0, <1>4, <2>3, <3>1
  <2> QED
    BY <2>1, <2>2, <2>3 DEF WriteCommand
<1>9. CASE ProbesOnBoard(c)
  <2>1. PICK k \in 1..6 : ProbesFrom(c, k)
    BY <1>9 DEF ProbesOnBoard, Probes
  <2>2. cmd = CanDetect[k]
    BY <1>0, <1>1, <2>1, ProbeRun
  <2>3. \/ cmd.kind \in {"read", "name"}
        \/ cmd.kind = "mode" /\ cmd.value = "manual"
        \/ cmd.kind = "speed" /\ cmd.value = 50
    <3>1. k = 1 \/ k = 2 \/ k = 3 \/ k = 4 \/ k = 5 \/ k = 6
      OBVIOUS
    <3> QED
      BY <2>2, <3>1, ProbesListed DEF Name, Read, Mode, Speed
  <2> QED
    BY <1>0, <1>3, <1>4, <1>5, <2>3
<1> QED
  BY <1>0, <1>6, <1>7, <1>8, <1>9 DEF CallOK, Place, Idles, ReadsBare, Takes, Builds, ProbesNone,
     Chosen, Reading

\* The board's speeds stay bytes, the drivers those there are.
LEMMA BoardKept ==
    ASSUME CallsOK, BoardOK, [Next]_vars
    PROVE  BoardOK'
<1> USE DEF BoardOK
<1>1. CASE vars' = vars \/ Expire
  BY <1>1 DEF vars, Expire, boardVars, driverVars
<1>2. CASE \E c \in Caller : Call(c) \/ Step(c) \/ GiveUp(c)
  <2>1. PICK c \in Caller : Call(c) \/ Step(c) \/ GiveUp(c)
    BY <1>2
  <2>a. CASE \/ Call(c) \/ Run(c) \/ AskLock(c) \/ Cached(c) \/ FreshSpeeds(c) \/ Wait(c) \/ Lead(c)
             \/ Publish(c) \/ Unlead(c) \/ Woken(c) \/ Duties(c) \/ Store(c) \/ GiveUp(c) \/ Probe(c)
             \/ Take(c)
    <3>1. UNCHANGED <<boardVars, driverVars, tracked>>
      <4>1. CASE Call(c) \/ Run(c) \/ AskLock(c)
        BY <4>1 DEF Call, Run, AskLock
      <4>2. CASE Cached(c) \/ Store(c) \/ GiveUp(c) \/ Probe(c) \/ Take(c)
        BY <4>2 DEF Cached, Store, GiveUp, Probe, Take, Quiet
      <4>3. CASE FreshSpeeds(c) \/ Wait(c) \/ Lead(c) \/ Publish(c) \/ Unlead(c) \/ Woken(c) \/ Duties(c)
        BY <4>3 DEF FreshSpeeds, Wait, Lead, Publish, Unlead, Woken, Duties, Elsewhere
      <4> QED
        BY <2>a, <4>1, <4>2, <4>3
    <3> QED
      BY <3>1 DEF boardVars, driverVars
  <2>b. CASE WriteSucceeds(c) \/ WriteFails(c) \/ ProbeSucceeds(c) \/ ProbeFails(c) \/ ReadEnds(c)
    <3>1. PICK ok \in BOOLEAN : Outcome(c, ok)
      BY <2>b DEF WriteSucceeds, WriteFails, ProbeSucceeds, ProbeFails, ReadEnds
    <3>2. stage[c] = "running" /\ (UNCHANGED boardVars \/ Apply(c, Head(todo[c])))
      BY <3>1 DEF Outcome
    <3>3. board' \in [Cell -> 0..255] /\ mode' \in {"manual", "auto"}
      BY <3>2, Applied DEF boardVars
    <3>4. driver' = driver /\ active' = active /\ tracked' = tracked
      BY <2>b DEF WriteSucceeds, WriteFails, ProbeSucceeds, ProbeFails, ReadEnds, Quiet, driverVars
    <3> QED
      BY <3>3, <3>4
  <2>c. CASE Build(c)
    BY <2>c, BuildPlaced DEF Build, boardVars, driverVars
  <2>d. CASE Activate(c) \/ Install(c)
    <3>1. stage[c] \in {"activate", "installAsked"}
      BY <2>d, AskedFacts DEF Activate, Install, At, Locked
    <3>2. mine[c] \in Vendor
      BY <3>1, Placed DEF CallsOK, Chosen
    <3>3. active' \in {active, mine[c]} /\ driver' \in {driver, mine[c]}
      BY <2>d DEF Activate, Install
    <3>4. UNCHANGED <<boardVars, tracked>>
      BY <2>d DEF Activate, Install
    <3> QED
      BY <3>2, <3>3, <3>4 DEF boardVars
  <2> QED
    BY <2>1, <2>a, <2>b, <2>c, <2>d DEF Step
<1> QED
  BY <1>1, <1>2 DEF Next

-----------------------------------------------------------------------------
(* The read under way, those who wait for it, and those who wait for the   *)
(* lock.                                                                   *)

\* Only a call for the readings leads a read.
LEMMA OnlyReadersLead ==
    \A c \in Caller : world \in World /\ CallOK(c) /\ op[c].kind # "readings" => ~Leading(c)
<1> SUFFICES ASSUME NEW c \in Caller, world \in World, CallOK(c), op[c].kind # "readings"
             PROVE  ~Leading(c)
  OBVIOUS
<1>0. \A q : <<q>> # <<>>
  <2> SUFFICES ASSUME NEW q PROVE <<q>> # <<>>
    OBVIOUS
  <2>1. Len(<<q>>) = 1 /\ Len(<<>>) = 0
    OBVIOUS
  <2> QED
    BY <2>1
<1>1. todo[c] # <<Read("any")>>
  <2>1. CASE todo[c] = <<>>
    BY <1>0, <2>1
  <2>2. CASE todo[c] = <<Whole>>
    <3>1. <<Whole>>[1] = Whole /\ <<Read("any")>>[1] = Read("any")
      OBVIOUS
    <3> QED
      BY <2>2, <3>1, OnlyReaders
  <2>3. CASE Sends(c)
    <3>1. Head(todo[c]) \in WriteCommand
      BY <2>3 DEF Sends
    <3>2. Head(<<Read("any")>>) = Read("any")
      OBVIOUS
    <3> QED
      BY <3>1, <3>2, OnlyReaders
  <2>4. CASE Probes(c)
    <3>1. PICK k \in 1..6 : Head(todo[c]) = CanDetect[k]
      BY <2>4, ProbeRun DEF Probes
    <3>2. Head(<<Read("any")>>) = Read("any")
      OBVIOUS
    <3> QED
      BY <3>1, <3>2, OnlyReaders
  <2> QED
    BY <2>1, <2>2, <2>3, <2>4 DEF CallOK, Place, Idles, ReadsBare, ReadsOn, Takes, Builds, SendsWhole,
       SendsOn, ProbesNone, ProbesOnBoard, Chosen, Bare, Carries
<1>2. stage[c] \notin {"publish", "publishAsked", "unlead", "unleadAsked"}
  BY Placed DEF ReadsBare, Reading
<1> QED
  BY <1>1, <1>2 DEF Leading, Asked

\* The same after a step.
LEMMA OnlyReadersLeadNext ==
    \A c \in Caller : world' \in World /\ CallOK(c)' /\ op'[c].kind # "readings" => ~Leading(c)'
<1>1. (\A c \in Caller : world \in World /\ CallOK(c) /\ op[c].kind # "readings" => ~Leading(c))'
  BY OnlyReadersLead, PTL
<1> QED
  BY <1>1

\* A step makes its call lead, or ends that, as it sets the mark.
LEMMA LeadKept ==
    ASSUME CallsOK, BoardOK, QueueOK, CallsOK', NEW c \in Caller, Call(c) \/ Step(c) \/ GiveUp(c)
    PROVE  \/ inflight' = inflight /\ (Leading(c)' <=> Leading(c))
           \/ inflight' = TRUE /\ ~inflight /\ Leading(c)'
           \/ inflight' = FALSE /\ Leading(c) /\ ~Leading(c)'
<1>0. /\ CallOK(c) /\ CallOK(c)' /\ world \in World /\ world' \in World
      /\ op[c].kind # "readings" => ~Leading(c)
      /\ op'[c].kind # "readings" => ~Leading(c)'
  BY OnlyReadersLead, OnlyReadersLeadNext DEF CallsOK
<1>1. <<>> # <<Read("any")>> /\ <<Read("ASRock")>> # <<Read("any")>>
  <2>1. Len(<<>>) = 0 /\ Len(<<Read("any")>>) = 1
    OBVIOUS
  <2>2. <<Read("ASRock")>>[1] = Read("ASRock") /\ <<Read("any")>>[1] = Read("any")
    OBVIOUS
  <2> QED
    BY <2>1, <2>2, OnlyReaders
<1>a. CASE WriteSucceeds(c) \/ WriteFails(c) \/ Take(c) \/ Build(c) \/ Probe(c) \/ ProbeSucceeds(c)
           \/ ProbeFails(c) \/ Activate(c) \/ Install(c)
  <2>1. inflight' = inflight
    BY <1>a DEF WriteSucceeds, WriteFails, Take, Build, Probe, ProbeSucceeds, ProbeFails, Activate,
                Install, cacheVars
  <2>2. op[c].kind # "readings"
    <3>1. CASE WriteSucceeds(c) \/ WriteFails(c) \/ ProbeSucceeds(c) \/ ProbeFails(c)
      BY <3>1 DEF WriteSucceeds, WriteFails, ProbeSucceeds, ProbeFails
    <3>2. CASE Take(c) \/ Build(c) \/ Probe(c) \/ Activate(c) \/ Install(c)
      <4>1. stage[c] \in {"take", "build", "probe", "activate", "installAsked"}
        BY <3>2, AskedFacts DEF Take, Build, Probe, Activate, Install, At, Locked
      <4> QED
        BY <1>0, <4>1, Placed DEF Takes, Builds, ProbesNone, Chosen, Plain
    <3> QED
      BY <1>a, <3>1, <3>2
  <2>3. op'[c].kind # "readings"
    <3>1. CASE op' = op
      BY <2>2, <3>1
    <3>2. CASE op'[c] = Idle
      BY <3>2 DEF Idle
    <3>3. CASE op' = [op EXCEPT ![c] = [kind |-> "zone", zone |-> @.zone, percent |-> 100]]
      BY <3>3 DEF CallsOK, Fixed
    <3>4. op' = op \/ (\E ok \in BOOLEAN : Forgets(c, ok))
          \/ op' = [op EXCEPT ![c] = [kind |-> "zone", zone |-> @.zone, percent |-> 100]]
      BY <1>a DEF WriteSucceeds, WriteFails, Take, Build, Probe, ProbeSucceeds, ProbeFails, Activate,
                  Install, Ends, callVars
    <3> QED
      BY <3>1, <3>2, <3>3, <3>4, ForgetsKept
  <2> QED
    BY <1>0, <2>1, <2>2, <2>3
<1>b. CASE Call(c)
  <2>1. Idles(c) /\ inflight' = inflight /\ todo' = todo
    BY <1>0, <1>b, Placed DEF Call, cacheVars
  <2>2. stage'[c] \in {"cached", "probe", "install", "take"}
    BY <1>b DEF Call, CallsOK, Fixed
  <2> QED
    BY <1>1, <2>1, <2>2 DEF Idles, Bare, Leading, Asked
<1>c. CASE Run(c) \/ AskLock(c)
  <2>1. inflight' = inflight /\ todo' = todo
    BY <1>c DEF Run, AskLock, cacheVars, callVars
  <2>2. CASE Run(c)
    BY <2>1, <2>2 DEF Run, At, Leading, Asked, CallsOK, Fixed
  <2>3. CASE AskLock(c)
    <3>1. stage[c] \in DOMAIN Asked /\ stage'[c] = Asked[stage[c]]
      BY <2>3 DEF AskLock, At, CallsOK, Fixed
    <3> QED
      BY <2>1, <3>1, AskedFacts DEF Leading, Asked
  <2> QED
    BY <1>c, <2>2, <2>3
<1>d. CASE GiveUp(c)
  <2>1. inflight' = inflight /\ stage[c] \in {"waiting", "failing"}
    BY <1>d DEF GiveUp
  <2>2. ~Leading(c)
    BY <1>0, <1>1, <2>1, Placed DEF ReadsBare, Bare, Reading, Leading, Asked
  <2> QED
    BY <1>d, <2>1, <2>2, EndPlaced
<1>e. CASE Store(c)
  <2>1. inflight' = inflight /\ stage[c] = "storeAsked"
    BY <1>e, AskedFacts DEF Store, Locked
  <2>2. ~Leading(c)
    BY <1>0, <1>1, <2>1, Placed DEF ReadsBare, Bare, Reading, Leading, Asked
  <2> QED
    BY <1>e, <2>1, <2>2, EndPlaced
<1>f. CASE Cached(c) \/ Woken(c) \/ Duties(c)
  <2>1. inflight' = inflight /\ stage[c] \in {"cached", "woken", "duties"}
    BY <1>f DEF Cached, Woken, Duties, At, cacheVars
  <2>2. ~Leading(c) /\ todo[c] = <<>>
    BY <1>0, <1>1, <2>1, Placed DEF ReadsBare, Bare, Reading, Leading, Asked
  <2>3. stage'[c] \in {"idle", "store", "speeds", "duties", "ready"}
    BY <1>f DEF Cached, Woken, Duties, At, Ends, CallsOK, Fixed
  <2>4. todo'[c] # <<Read("any")>>
    <3>1. todo'[c] \in {todo[c], <<>>, <<Read("ASRock")>>}
      BY <1>f DEF Cached, Woken, Duties, Ends, Forgets, CallsOK, Fixed
    <3> QED
      BY <1>1, <2>2, <3>1
  <2> QED
    BY <2>1, <2>2, <2>3, <2>4 DEF Leading, Asked
<1>g. CASE FreshSpeeds(c) \/ Wait(c)
  <2>1. inflight' = inflight /\ stage[c] = "speedsAsked"
    BY <1>g, AskedFacts DEF FreshSpeeds, Wait, Locked, cacheVars
  <2>2. ~Leading(c) /\ todo[c] = <<>>
    BY <1>0, <1>1, <2>1, Placed DEF ReadsBare, Bare, Reading, Leading, Asked
  <2>3. stage'[c] \in {"duties", "waiting"} /\ todo' = todo
    BY <1>g DEF FreshSpeeds, Wait, Unlock, CallsOK, Fixed
  <2> QED
    BY <1>1, <2>1, <2>2, <2>3 DEF Leading, Asked
<1>h. CASE Lead(c)
  <2>1. inflight' = TRUE /\ ~inflight
    BY <1>h DEF Lead
  <2>2. stage'[c] = IF driver = "Hwmon" THEN "publish" ELSE "ready"
    BY <1>h DEF Lead, Unlock, CallsOK, Fixed
  <2>3. todo'[c] = IF driver = "Hwmon" THEN <<>> ELSE <<Read("any")>>
    BY <1>h DEF Lead, CallsOK, Fixed
  <2> QED
    BY <2>1, <2>2, <2>3 DEF Leading
<1>i. CASE ReadEnds(c)
  <2>1. inflight' = inflight /\ stage[c] = "running" /\ op[c].kind = "readings"
    BY <1>i DEF ReadEnds, Outcome, cacheVars
  <2>2. todo[c] \in {<<Read("any")>>, <<Read("ASRock")>>}
    BY <1>0, <2>1, Placed DEF ReadsOn, Reads, Commanding
  <2>3. Head(todo[c]) = Read("any") <=> todo[c] = <<Read("any")>>
    <3>1. Head(<<Read("any")>>) = Read("any") /\ Head(<<Read("ASRock")>>) = Read("ASRock")
      OBVIOUS
    <3> QED
      BY <2>2, <3>1, OnlyReaders
  <2>4. todo'[c] = <<>>
    BY <1>i DEF ReadEnds, CallsOK, Fixed
  <2>5. stage'[c] \in {"publish", "unlead"} <=> Head(todo[c]) = Read("any")
    BY <1>i DEF ReadEnds, CallsOK, Fixed
  <2>6. stage'[c] \in {"publish", "unlead", "store"}
    BY <1>i DEF ReadEnds, CallsOK, Fixed
  <2> QED
    BY <1>1, <2>1, <2>2, <2>3, <2>4, <2>5, <2>6 DEF Leading, Asked
<1>j. CASE Publish(c) \/ Unlead(c)
  <2>1. inflight' = FALSE /\ stage[c] \in {"publishAsked", "unleadAsked"} /\ todo' = todo
    BY <1>j, AskedFacts DEF Publish, Unlead, WakeAll, Locked
  <2>2. Leading(c) /\ todo[c] = <<>>
    BY <1>0, <2>1, Placed DEF ReadsBare, Bare, Reading, Leading, Asked
  <2>3. stage'[c] \in {"duties", "failing"}
    BY <1>j DEF Publish, Unlead, WakeAll, Unlock, CallsOK, Fixed
  <2> QED
    BY <1>1, <2>1, <2>2, <2>3 DEF Leading, Asked
<1> QED
  BY <1>a, <1>b, <1>c, <1>d, <1>e, <1>f, <1>g, <1>h, <1>i, <1>j DEF Step

\* The service knows exactly those who wait.
LEMMA WaitersKept ==
    ASSUME CallsOK, QueueOK, NEW c \in Caller, Call(c) \/ Step(c) \/ GiveUp(c)
    PROVE  waiters' = {d \in Caller : stage'[d] = "waiting"}
<1>0. waiters = {d \in Caller : stage[d] = "waiting"} /\ world' = world /\ Fixed'
  BY OthersStay DEF QueueOK
<1>a. CASE Call(c) \/ Run(c) \/ AskLock(c) \/ Activate(c) \/ WriteSucceeds(c) \/ WriteFails(c) \/ Take(c)
           \/ Build(c) \/ Probe(c) \/ ProbeSucceeds(c) \/ ProbeFails(c) \/ Cached(c) \/ ReadEnds(c)
           \/ Woken(c) \/ Duties(c)
  <2>1. waiters' = waiters
    <3>1. CASE Call(c) \/ Run(c) \/ AskLock(c) \/ Activate(c) \/ WriteSucceeds(c) \/ WriteFails(c)
               \/ Take(c) \/ Build(c)
      BY <3>1 DEF Call, Run, AskLock, Activate, WriteSucceeds, WriteFails, Take, Build, cacheVars
    <3>2. CASE Probe(c) \/ ProbeSucceeds(c) \/ ProbeFails(c) \/ Cached(c) \/ ReadEnds(c) \/ Woken(c)
               \/ Duties(c)
      BY <3>2 DEF Probe, ProbeSucceeds, ProbeFails, Cached, ReadEnds, Woken, Duties, cacheVars
    <3> QED
      BY <1>a, <3>1, <3>2
  <2>2. stage[c] # "waiting"
    <3>1. CASE Call(c) \/ Run(c) \/ AskLock(c) \/ Activate(c) \/ WriteSucceeds(c) \/ WriteFails(c)
               \/ Take(c) \/ Build(c)
      BY <3>1, AskedFacts DEF Call, Run, AskLock, Activate, WriteSucceeds, WriteFails, Take, Build, At,
                              Outcome
    <3>2. CASE Probe(c) \/ ProbeSucceeds(c) \/ ProbeFails(c) \/ Cached(c) \/ ReadEnds(c) \/ Woken(c)
               \/ Duties(c)
      BY <3>2 DEF Probe, ProbeSucceeds, ProbeFails, Cached, ReadEnds, Woken, Duties, At, Outcome
    <3> QED
      BY <1>a, <3>1, <3>2
  <2>3. \E there : there # "waiting" /\ stage' = [stage EXCEPT ![c] = there]
    <3>1. CASE Call(c)
      BY <3>1 DEF Call
    <3>2. CASE Run(c) \/ AskLock(c) \/ Activate(c) \/ Woken(c)
      BY <3>2, AskedFacts DEF Run, AskLock, Activate, Woken, At
    <3>3. CASE WriteSucceeds(c) \/ WriteFails(c)
      BY <3>3 DEF WriteSucceeds, WriteFails, Ends
    <3>4. CASE Take(c)
      <4>1. stage' = stage \/ \E there \in {"idle", "build", "ready"} : stage' = [stage EXCEPT ![c] = there]
        BY <3>4 DEF Take, Ends
      <4>2. stage' = stage => stage' = [stage EXCEPT ![c] = stage[c]]
        BY DEF CallsOK, Fixed
      <4> QED
        BY <2>2, <4>1, <4>2
    <3>5. CASE Build(c) \/ Probe(c) \/ ProbeSucceeds(c) \/ ProbeFails(c)
      BY <3>5 DEF Build, Probe, ProbeSucceeds, ProbeFails, Found, ProbesOn
    <3>6. CASE Cached(c) \/ ReadEnds(c) \/ Duties(c)
      BY <3>6 DEF Cached, ReadEnds, Duties, Ends
    <3> QED
      BY <1>a, <3>1, <3>2, <3>3, <3>4, <3>5, <3>6
  <2> QED
    BY <1>0, <2>1, <2>2, <2>3 DEF CallsOK, Fixed
<1>b. CASE GiveUp(c)
  <2>1. waiters' = waiters \ {c} /\ stage' = [stage EXCEPT ![c] = "idle"]
    BY <1>b DEF GiveUp, Ends
  <2> QED
    BY <1>0, <2>1 DEF CallsOK, Fixed
<1>c. CASE Install(c) \/ Store(c) \/ FreshSpeeds(c) \/ Wait(c) \/ Lead(c)
  <2>1. stage[c] # "waiting"
    BY <1>c, AskedFacts DEF Install, Store, FreshSpeeds, Wait, Lead, Locked
  <2>2. PICK there : /\ Unlock([stage EXCEPT ![c] = there])
                     /\ \/ there = "waiting" /\ waiters' = waiters \cup {c}
                        \/ there # "waiting" /\ waiters' = waiters
    <3>1. CASE Install(c) \/ Store(c)
      <4>1. Unlock([stage EXCEPT ![c] = "idle"]) /\ waiters' = waiters
        BY <3>1 DEF Install, Store
      <4> QED
        BY <4>1
    <3>2. CASE FreshSpeeds(c)
      <4>1. Unlock([stage EXCEPT ![c] = "duties"]) /\ waiters' = waiters
        BY <3>2 DEF FreshSpeeds, cacheVars
      <4> QED
        BY <4>1
    <3>3. CASE Wait(c)
      <4>1. Unlock([stage EXCEPT ![c] = "waiting"]) /\ waiters' = waiters \cup {c}
        BY <3>3 DEF Wait
      <4> QED
        BY <4>1
    <3>4. CASE Lead(c)
      <4>1. PICK there \in {"publish", "ready"} :
                Unlock([stage EXCEPT ![c] = there]) /\ waiters' = waiters
        BY <3>4 DEF Lead
      <4> QED
        BY <4>1
    <3> QED
      BY <1>c, <3>1, <3>2, <3>3, <3>4
  <2>3. \A d \in Caller : stage'[d] = IF d = c THEN (IF there = "blocked" THEN "running" ELSE there)
                                      ELSE IF stage[d] = "blocked" THEN "running" ELSE stage[d]
    BY <2>2 DEF Unlock, CallsOK, Fixed
  <2> QED
    BY <1>0, <2>1, <2>2, <2>3
<1>d. CASE Publish(c) \/ Unlead(c)
  <2>1. waiters' = {}
    BY <1>d DEF Publish, Unlead, WakeAll
  <2>2. PICK there : there \in {"duties", "failing"} /\ WakeAll(c, there)
    BY <1>d DEF Publish, Unlead
  <2>3. \A d \in Caller : stage'[d] # "waiting"
    BY <1>0, <2>2 DEF WakeAll, Unlock
  <2> QED
    BY <2>1, <2>3
<1> QED
  BY <1>a, <1>b, <1>c, <1>d DEF Step

\* A command that is held back waits for a step that wants the lock.
LEMMA BlockedKept ==
    ASSUME CallsOK, QueueOK, NEW c \in Caller, Call(c) \/ Step(c) \/ GiveUp(c)
    PROVE  \A d \in Caller : stage'[d] = "blocked" => \E e \in Caller : stage'[e] \in Locking
<1>0. \A d \in Caller \ {c} : Stays(d)
  BY OthersStay
<1>1. CASE stage[c] \in Locking
  <2>1. Install(c) \/ Store(c) \/ FreshSpeeds(c) \/ Wait(c) \/ Lead(c) \/ Publish(c) \/ Unlead(c)
    <3>1. ~(Call(c) \/ Run(c) \/ AskLock(c) \/ Activate(c) \/ WriteSucceeds(c) \/ WriteFails(c)
             \/ Take(c) \/ Build(c) \/ GiveUp(c))
      BY <1>1, AskedFacts DEF Call, Run, AskLock, Activate, WriteSucceeds, WriteFails, Take, Build, At,
                              Outcome, GiveUp
    <3>2. ~(Probe(c) \/ ProbeSucceeds(c) \/ ProbeFails(c) \/ Cached(c) \/ ReadEnds(c) \/ Woken(c)
             \/ Duties(c))
      BY <1>1, AskedFacts DEF Probe, ProbeSucceeds, ProbeFails, Cached, ReadEnds, Woken, Duties, At,
                              Outcome
    <3> QED
      BY <3>1, <3>2 DEF Step
  <2>2. PICK stages : Unlock(stages)
    BY <2>1 DEF Install, Store, FreshSpeeds, Wait, Lead, Publish, Unlead, WakeAll
  <2> QED
    BY <2>2 DEF Unlock
<1>2. CASE stage[c] \notin Locking
  <2>1. ASSUME NEW d \in Caller, stage[d] \in Locking
        PROVE  stage'[d] \in Locking
    <3>1. d # c
      BY <1>2, <2>1
    <3> QED
      BY <1>0, <2>1, <3>1, AskedFacts DEF Stays
  <2>2. ASSUME NEW d \in Caller \ {c}, stage'[d] = "blocked"
        PROVE  \E e \in Caller : stage'[e] \in Locking
    <3>1. stage[d] = "blocked"
      BY <1>0, <2>2 DEF Stays
    <3> QED
      BY <2>1, <3>1 DEF QueueOK
  <2>3. ASSUME stage'[c] = "blocked"
        PROVE  \E e \in Caller : stage[e] \in Locking
    <3>1. CASE stage[c] = "blocked"
      BY <3>1 DEF QueueOK
    <3>2. CASE Run(c)
      BY <2>3, <3>2 DEF Run, At, CallsOK, Fixed
    <3>3. CASE stage[c] # "blocked" /\ ~Run(c)
      <4>0. ~(Install(c) \/ Store(c) \/ FreshSpeeds(c) \/ Wait(c) \/ Lead(c) \/ Publish(c) \/ Unlead(c))
        BY <1>2, AskedFacts DEF Install, Store, FreshSpeeds, Wait, Lead, Publish, Unlead, Locked
      <4>1. ~(Call(c) \/ GiveUp(c) \/ WriteSucceeds(c) \/ WriteFails(c))
        BY <2>3, <3>3 DEF Call, GiveUp, WriteSucceeds, WriteFails, Ends, CallsOK, Fixed
      <4>2. ~(AskLock(c) \/ Activate(c) \/ Woken(c))
        BY <2>3, <3>3, AskedFacts DEF AskLock, Activate, Woken, At, CallsOK, Fixed
      <4>3. ~(Take(c) \/ Build(c) \/ Probe(c) \/ ProbeSucceeds(c) \/ ProbeFails(c))
        BY <2>3, <3>3 DEF Take, Build, Probe, ProbeSucceeds, ProbeFails, Found, ProbesOn, Ends, CallsOK,
                          Fixed
      <4>4. ~(Cached(c) \/ ReadEnds(c) \/ Duties(c))
        BY <2>3, <3>3 DEF Cached, ReadEnds, Duties, Ends, CallsOK, Fixed
      <4> QED
        BY <3>3, <4>0, <4>1, <4>2, <4>3, <4>4 DEF Step
    <3> QED
      BY <3>1, <3>2, <3>3
  <2> QED
    BY <2>1, <2>2, <2>3
<1> QED
  BY <1>1, <1>2

\* A step of a call makes what is cached no older; of those who wait, and of those
\* marked for a read that failed, it takes no other away, unless it ends the read.
LEMMA CachesKept ==
    ASSUME NEW c \in Caller, Call(c) \/ Step(c) \/ GiveUp(c)
    PROVE  /\ speeds' \in {speeds, "fresh"} /\ readings' \in {readings, "fresh"}
           /\ failed \ {c} \subseteq failed' /\ failed' \subseteq failed \cup waiters
           /\ Publish(c) \/ Unlead(c) \/ waiters \ {c} \subseteq waiters'
<1>1. CASE Call(c) \/ Run(c) \/ AskLock(c) \/ Activate(c) \/ Build(c) \/ Probe(c) \/ ProbeSucceeds(c)
           \/ ProbeFails(c) \/ ReadEnds(c) \/ FreshSpeeds(c) \/ Duties(c)
  <2>1. UNCHANGED cacheVars
    BY <1>1 DEF Call, Run, AskLock, Activate, Build, Probe, ProbeSucceeds, ProbeFails, ReadEnds,
                FreshSpeeds, Duties
  <2> QED
    BY <2>1 DEF cacheVars
<1>2. CASE WriteSucceeds(c) \/ WriteFails(c) \/ Take(c) \/ Install(c) \/ Store(c) \/ Cached(c) \/ GiveUp(c)
           \/ Woken(c)
  <2>1. failed' = failed \/ failed' = failed \ {c}
    BY <1>2 DEF WriteSucceeds, WriteFails, Take, Install, Store, Cached, GiveUp, Woken, Ends, Forgets
  <2>2. speeds' = speeds /\ readings' \in {readings, "fresh"} /\ waiters \ {c} \subseteq waiters'
    BY <1>2 DEF WriteSucceeds, WriteFails, Take, Install, Store, Cached, GiveUp, Woken
  <2> QED
    BY <2>1, <2>2
<1>3. CASE Wait(c) \/ Lead(c) \/ Publish(c) \/ Unlead(c)
  BY <1>3 DEF Wait, Lead, Publish, Unlead
<1> QED
  BY <1>1, <1>2, <1>3 DEF Step

\* The queue keeps its order.
LEMMA QueueKept ==
    ASSUME CallsOK, BoardOK, QueueOK, [Next]_vars
    PROVE  QueueOK'
<1>1. CASE vars' = vars
  BY <1>1 DEF QueueOK, vars, cacheVars, callVars, Leading
<1>2. CASE Expire
  <2>1. /\ inflight' = inflight /\ failed' = failed /\ waiters' = waiters /\ stage' = stage
        /\ todo' = todo
    BY <1>2 DEF Expire, callVars
  <2>2. speeds' \in {"none", "old", "fresh"} /\ readings' \in {"none", "old", "fresh"}
    BY <1>2 DEF Expire, QueueOK
  <2> QED
    BY <2>1, <2>2 DEF QueueOK, Leading
<1>3. CASE \E c \in Caller : Call(c) \/ Step(c) \/ GiveUp(c)
  <2>1. PICK c \in Caller : Call(c) \/ Step(c) \/ GiveUp(c)
    BY <1>3
  <2>2. CallsOK' /\ \A d \in Caller \ {c} : Stays(d)
    BY <1>3, <2>1, CallsKept, OthersStay DEF Next
  <2>3. \A d \in Caller \ {c} : Leading(d)' <=> Leading(d)
    <3>1. world' = world
      BY <2>1, OthersStay
    <3> QED
      BY <2>2, <3>1, OtherKept DEF CallsOK
  <2>4. \/ inflight' = inflight /\ (Leading(c)' <=> Leading(c))
        \/ inflight' = TRUE /\ ~inflight /\ Leading(c)'
        \/ inflight' = FALSE /\ Leading(c) /\ ~Leading(c)'
    BY <2>1, <2>2, LeadKept
  <2>5. inflight' \in BOOLEAN /\ (inflight' <=> \E d \in Caller : Leading(d)')
        /\ \A d, e \in Caller : Leading(d)' /\ Leading(e)' => d = e
    <3>1. /\ inflight \in BOOLEAN /\ (inflight <=> \E d \in Caller : Leading(d))
          /\ \A d, e \in Caller : Leading(d) /\ Leading(e) => d = e
      BY DEF QueueOK
    <3>2. CASE inflight' = inflight /\ (Leading(c)' <=> Leading(c))
      <4>1. \A d \in Caller : Leading(d)' <=> Leading(d)
        BY <2>3, <3>2
      <4> QED
        BY <3>1, <3>2, <4>1
    <3>3. CASE inflight' = TRUE /\ ~inflight /\ Leading(c)'
      <4>1. \A d \in Caller \ {c} : ~Leading(d)'
        BY <2>3, <3>1, <3>3
      <4> QED
        BY <3>3, <4>1
    <3>4. CASE inflight' = FALSE /\ Leading(c) /\ ~Leading(c)'
      <4>1. \A d \in Caller : ~Leading(d)'
        BY <2>3, <3>1, <3>4
      <4> QED
        BY <3>4, <4>1
    <3> QED
      BY <2>4, <3>2, <3>3, <3>4
  <2>6. /\ speeds' \in {"none", "old", "fresh"} /\ readings' \in {"none", "old", "fresh"}
        /\ failed' \subseteq Caller
    BY <2>1, CachesKept DEF QueueOK
  <2> QED
    BY <2>1, <2>5, <2>6, WaitersKept, BlockedKept DEF QueueOK
<1> QED
  BY <1>1, <1>2, <1>3 DEF Next

-----------------------------------------------------------------------------
(* What the service keeps.                                                 *)

\* The service begins there.
LEMMA InitOK ==
    ASSUME Init
    PROVE  IpmiOK
<1>0. world \in World /\ world.vendor \in Vendor \ {"Hwmon"} /\ world.hwmon \in BOOLEAN
  BY IpmiAssumption DEF Init
<1>1. \A c \in Caller : /\ stage[c] = "idle" /\ op[c] = Idle /\ mine[c] = "none" /\ todo[c] = <<>>
                        /\ args[c] = <<>> /\ lone[c] = FALSE
  BY DEF Init
<1>2. CallsOK
  BY <1>0, <1>1 DEF Init, CallsOK, Fixed, CallOK, Place, Idles, Bare
<1>3. BoardOK
  BY <1>0 DEF Init, BoardOK, Vendor, Untouched
<1>4. QueueOK
  <2>1. <<>> # <<Read("any")>>
    <3>1. Len(<<>>) = 0 /\ Len(<<Read("any")>>) = 1
      OBVIOUS
    <3> QED
      BY <3>1
  <2>2. \A c \in Caller : ~Leading(c)
    BY <1>1, <2>1 DEF Leading, Asked
  <2> QED
    BY <1>1, <2>2 DEF Init, QueueOK
<1> QED
  BY <1>2, <1>3, <1>4 DEF IpmiOK

\* The inductive invariant: every call is where its kind can be with the commands
\* and speeds that belong there, and at most one reads.
THEOREM IpmiTyped == Spec => []IpmiOK
<1>1. IpmiOK /\ [Next]_vars => IpmiOK'
  BY CallsKept, BoardKept, QueueKept DEF IpmiOK
<1> QED
  BY InitOK, <1>1, PTL DEF Spec

\* TypeOK: callers are where their kind of call can be, and the mark of a read
\* under way stands exactly while one caller reads.
THEOREM TypeCorrect == Spec => []TypeOK
<1>1. IpmiOK => TypeOK
  <2> SUFFICES ASSUME IpmiOK PROVE TypeOK
    OBVIOUS
  <2> USE DEF IpmiOK
  <2>0. \A q : <<q>> # <<>>
    <3> SUFFICES ASSUME NEW q PROVE <<q>> # <<>>
      OBVIOUS
    <3>1. Len(<<q>>) = 1 /\ Len(<<>>) = 0
      OBVIOUS
    <3> QED
      BY <3>1
  <2>1. Cardinality({c \in Caller : Leading(c)}) = (IF inflight THEN 1 ELSE 0)
    <3>1. CASE inflight
      <4>1. PICK c \in Caller : Leading(c)
        BY <3>1 DEF QueueOK
      <4>2. {d \in Caller : Leading(d)} = {c}
        BY <4>1 DEF QueueOK
      <4> QED
        BY <3>1, <4>2, FS_Singleton
    <3>2. CASE ~inflight
      <4>1. {d \in Caller : Leading(d)} = {}
        BY <3>2 DEF QueueOK
      <4> QED
        BY <3>2, <4>1, FS_EmptySet
    <3> QED
      BY <3>1, <3>2
  <2>2. ASSUME NEW c \in Caller
        PROVE  /\ stage[c] \in {"ready", "blocked", "running"} <=> todo[c] # <<>> /\ stage[c] # "build"
               /\ stage[c] = "idle" <=> op[c] = Idle
               /\ stage[c] \in {"cached", "waiting", "woken", "failing", "duties", "speeds",
                                "publish", "unlead", "store"} => op[c].kind = "readings"
    <3>0. CallOK(c) /\ world \in World
      BY DEF CallsOK
    <3>1. stage[c] \in Commanding => todo[c] # <<>>
      <4>1. ReadsOn(c) \/ SendsWhole(c) \/ SendsOn(c) => todo[c] # <<>>
        BY <2>0 DEF ReadsOn, Reads, SendsWhole, Carries, SendsOn, Sends
      <4>2. ProbesOnBoard(c) => todo[c] # <<>>
        BY <3>0, ProbeRun DEF ProbesOnBoard, Probes
      <4> QED
        BY <3>0, <4>1, <4>2 DEF CallOK, Place, Idles, ReadsBare, Takes, Builds, ProbesNone, Chosen,
                                Commanding, Reading
    <3>2. todo[c] # <<>> /\ stage[c] # "build" => stage[c] \in Commanding
      BY <3>0 DEF CallOK, Place, Idles, ReadsBare, ReadsOn, Takes, Builds, SendsWhole, SendsOn,
                  ProbesNone, ProbesOnBoard, Chosen, Bare
    <3>3. stage[c] = "idle" <=> op[c] = Idle
      BY <3>0, Placed DEF Idles
    <3>4. stage[c] \in Reading => op[c].kind = "readings"
      BY <3>0, Placed DEF ReadsBare
    <3> QED
      BY <3>1, <3>2, <3>3, <3>4 DEF Commanding, Reading
  <2> QED
    BY <2>1, <2>2 DEF TypeOK, CallsOK, BoardOK, QueueOK
<1> QED
  BY <1>1, IpmiTyped, PTL

\* WaitersAnswered: those whom a leader wakes find its answer in the cache, unless
\* its read failed (GetFanSpeeds).
THEOREM WaitersAnsweredCorrect == Spec => []WaitersAnswered
<1>1. Init => WaitersAnswered
  BY DEF Init, WaitersAnswered
<1>2. IpmiOK /\ WaitersAnswered /\ [Next]_vars => WaitersAnswered'
  <2> SUFFICES ASSUME IpmiOK, WaitersAnswered, [Next]_vars PROVE WaitersAnswered'
    OBVIOUS
  <2> USE DEF IpmiOK
  <2>1. CASE vars' = vars
    BY <2>1 DEF vars, cacheVars, WaitersAnswered
  <2>2. CASE Expire
    BY <2>2 DEF Expire, WaitersAnswered
  <2>3. CASE \E c \in Caller : Call(c) \/ Step(c) \/ GiveUp(c)
    <3>1. PICK c \in Caller : Call(c) \/ Step(c) \/ GiveUp(c)
      BY <2>3
    <3>2. /\ speeds' \in {speeds, "fresh"} /\ failed \ {c} \subseteq failed'
          /\ Publish(c) \/ Unlead(c) \/ waiters \ {c} \subseteq waiters'
          /\ waiters' = {d \in Caller : stage'[d] = "waiting"}
          /\ waiters = {d \in Caller : stage[d] = "waiting"}
          /\ \A d \in Caller \ {c} : Stays(d)
      BY <3>1, CachesKept, WaitersKept, OthersStay DEF QueueOK
    <3>3. stage'[c] # "woken"
      <4>1. CASE Call(c) \/ Run(c) \/ AskLock(c) \/ Activate(c) \/ Woken(c)
        BY <4>1, AskedFacts DEF Call, Run, AskLock, Activate, Woken, At, CallsOK, Fixed
      <4>2. CASE WriteSucceeds(c) \/ WriteFails(c) \/ GiveUp(c) \/ Take(c) \/ Build(c)
        BY <4>2 DEF WriteSucceeds, WriteFails, GiveUp, Take, Build, Outcome, Ends, CallsOK, Fixed
      <4>3. CASE Probe(c) \/ ProbeSucceeds(c) \/ ProbeFails(c)
        BY <4>3 DEF Probe, ProbeSucceeds, ProbeFails, Found, ProbesOn, CallsOK, Fixed
      <4>4. CASE Cached(c) \/ ReadEnds(c) \/ Duties(c)
        BY <4>4 DEF Cached, ReadEnds, Duties, Ends, CallsOK, Fixed
      <4>5. CASE Install(c) \/ Store(c) \/ FreshSpeeds(c) \/ Wait(c) \/ Lead(c)
        BY <4>5 DEF Install, Store, FreshSpeeds, Wait, Lead, Unlock, CallsOK, Fixed
      <4>6. CASE Publish(c) \/ Unlead(c)
        BY <4>6 DEF Publish, Unlead, WakeAll, Unlock, CallsOK, Fixed
      <4> QED
        BY <3>1, <4>1, <4>2, <4>3, <4>4, <4>5, <4>6 DEF Step
    <3>4. ASSUME NEW d \in Caller \ {c}, stage'[d] = "woken"
          PROVE  speeds' = "fresh" \/ d \in failed'
      <4>1. stage[d] \in {"woken", "waiting"}
        BY <3>2, <3>4 DEF Stays
      <4>2. CASE stage[d] = "woken"
        BY <3>2, <4>2 DEF WaitersAnswered
      <4>3. CASE stage[d] = "waiting"
        <5>1. Publish(c) \/ Unlead(c)
          BY <3>2, <3>4, <4>3
        <5> QED
          BY <3>2, <4>3, <5>1 DEF Publish, Unlead
      <4> QED
        BY <4>1, <4>2, <4>3
    <3> QED
      BY <3>3, <3>4 DEF WaitersAnswered
  <2> QED
    BY <2>1, <2>2, <2>3 DEF Next
<1> QED
  BY <1>1, <1>2, IpmiTyped, PTL DEF Spec

-----------------------------------------------------------------------------
(* Writes with no other beside them.                                       *)

\* What a lone write of one call needs.
LoneCall(c) ==
    /\ op[c].kind \in Plain /\ mine[c] # "none" => mine[c] = driver
    /\ op[c].kind = "detect" /\ stage[c] \in {"install", "installAsked"} => active = mine[c]
    /\ Aiming(c)

\* A call that writes neither before nor after a step disturbs no write.
LEMMA ReaderPasses ==
    ASSUME CallsOK, QueueOK, LoneOK, NEW c \in Caller, Call(c) \/ Step(c) \/ GiveUp(c),
           ~Writing(c), ~Writing(c)', board' = board, tracked' = tracked, driver' = driver,
           active' = active, last' = last, lone'[c] \in {lone[c], FALSE}
    PROVE  LoneOK'
<1>1. world' = world /\ \A d \in Caller \ {c} : Stays(d)
  BY OthersStay
<1>2. \A d \in Caller : Writing(d)' <=> Writing(d)
  BY <1>1 DEF Stays, Writing
<1>3. ASSUME NEW d \in Caller, lone'[d]
      PROVE  /\ Writing(d)' /\ \A e \in Caller : Writing(e)' => e = d
             /\ LoneCall(d)'
  <2>0. lone[d] \in BOOLEAN
    BY DEF CallsOK, CallOK
  <2>1. lone[d]
    BY <1>1, <1>3, <2>0 DEF Stays
  <2>2. Writing(d) /\ \A e \in Caller : Writing(e) => e = d
    BY <2>1 DEF LoneOK
  <2>3. LoneCall(d)
    BY <2>1 DEF LoneOK, LoneCall
  <2>4. Stays(d)
    BY <1>1, <2>2
  <2>5. /\ op'[d] = op[d] /\ todo'[d] = todo[d] /\ args'[d] = args[d] /\ mine'[d] = mine[d]
        /\ stage'[d] \in Commanding \cup {"build", "install", "installAsked"} =>
              \/ stage[d] = stage'[d]
              \/ stage[d] \in Commanding /\ stage'[d] \in Commanding
    BY <2>4 DEF Stays, Commanding
  <2>6. Aiming(d)'
    <3>1. Aiming(d)
      BY <2>3 DEF LoneCall
    <3>2. stage'[d] \in Commanding \cup {"build"} => stage[d] \in Commanding \cup {"build"}
      BY <2>5
    <3> QED
      BY <2>5, <3>1, <3>2 DEF Aiming
  <2>7. LoneCall(d)'
    <3>1. stage'[d] \in {"install", "installAsked"} => stage[d] = stage'[d]
      BY <2>5 DEF Commanding
    <3> QED
      BY <2>3, <2>5, <2>6, <3>1 DEF LoneCall
  <2> QED
    BY <1>2, <2>2, <2>7
<1>4. last'.kind # "none" => \A d \in Caller : ~Writing(d)'
  BY <1>2 DEF LoneOK
<1>5. LoneWriteHolds' /\ DetectedIsDriven'
  BY <1>1 DEF LoneOK, LoneWriteHolds, DetectedIsDriven
<1> QED
  BY <1>3, <1>4, <1>5 DEF LoneOK, LoneCall

\* A write that goes on.
LEMMA WriterGoesOn ==
    ASSUME CallsOK, QueueOK, LoneOK, NEW c \in Caller, Call(c) \/ Step(c) \/ GiveUp(c),
           Writing(c), Writing(c)', last' = last, lone' = lone, lone[c] => LoneCall(c)'
    PROVE  LoneOK'
<1>1. last.kind = "none"
  BY DEF LoneOK
<1>2. \A d \in Caller : Writing(d)' <=> Writing(d)
  BY OthersStay DEF Stays, Writing
<1>3. \A d \in Caller : lone[d] => d = c
  BY DEF LoneOK
<1>4. ASSUME NEW d \in Caller, lone'[d]
      PROVE  /\ Writing(d)' /\ \A e \in Caller : Writing(e)' => e = d
             /\ LoneCall(d)'
  <2>1. lone[d] /\ d = c
    BY <1>3, <1>4
  <2>2. \A e \in Caller : Writing(e) => e = d
    BY <2>1 DEF LoneOK
  <2>3. LoneCall(c)'
    BY <2>1
  <2> QED
    BY <1>2, <2>1, <2>2, <2>3
<1>5. LoneWriteHolds' /\ DetectedIsDriven'
  BY <1>1 DEF LoneWriteHolds, DetectedIsDriven
<1> QED
  BY <1>1, <1>4, <1>5 DEF LoneOK, LoneCall

\* A write that ends.
LEMMA WriterEnds ==
    ASSUME CallsOK, QueueOK, LoneOK, NEW c \in Caller, Call(c) \/ Step(c) \/ GiveUp(c),
           Writing(c), NEW ok \in BOOLEAN, Forgets(c, ok),
           lone[c] => LoneWriteHolds' /\ DetectedIsDriven'
    PROVE  LoneOK'
<1>1. last.kind = "none"
  BY DEF LoneOK
<1>2. \A d \in Caller \ {c} : Writing(d)' <=> Writing(d)
  BY OthersStay DEF Stays, Writing
<1>3. op'[c] = Idle /\ lone'[c] = FALSE /\ \A d \in Caller \ {c} : lone'[d] = lone[d]
  BY ForgetsKept
<1>4. ~Writing(c)'
  BY <1>3 DEF Writing, Writes, Idle
<1>5. \A d \in Caller : lone[d] => d = c
  BY DEF LoneOK
<1>6. \A d \in Caller : ~lone'[d]
  BY <1>3, <1>5
<1>7. CASE lone[c]
  <2>1. \A d \in Caller \ {c} : ~Writing(d)
    BY <1>7 DEF LoneOK
  <2> QED
    BY <1>2, <1>4, <1>6, <1>7, <2>1 DEF LoneOK
<1>8. CASE ~lone[c]
  <2>1. last' = last
    BY <1>8 DEF Forgets
  <2> QED
    BY <1>1, <1>6, <2>1 DEF LoneOK, LoneWriteHolds, DetectedIsDriven
<1> QED
  BY <1>7, <1>8

\* A write begins alone, or beside another; then neither is alone.
LEMMA CallLone ==
    ASSUME CallsOK, QueueOK, LoneOK, NEW c \in Caller, Call(c)
    PROVE  LoneOK'
<1>0. /\ Idles(c) /\ world' = world /\ UNCHANGED <<board, tracked, driver, active>>
      /\ todo' = todo /\ args' = args
  BY Placed DEF CallsOK, Call, boardVars, driverVars
<1>1. PICK o \in world.calls[c] :
          /\ Begins(c, o)
          /\ stage' = [stage EXCEPT ![c] =
                CASE o.kind = "readings" -> "cached" [] o.kind = "detect" -> "probe"
                  [] o.kind = "select" -> "install" [] OTHER -> "take"]
          /\ mine' = IF o.kind = "select" THEN [mine EXCEPT ![c] = o.vendor] ELSE mine
  BY DEF Call
<1>2. op'[c] = o /\ \A d \in Caller \ {c} : op'[d] = op[d]
  BY <1>1 DEF Begins, CallsOK, Fixed
<1>3. ~Writing(c)
  BY <1>0 DEF Idles, Idle, Writing, Writes
<1>4. CASE o.kind \notin Writes
  <2>1. last' = last /\ lone' = lone /\ ~Writing(c)'
    BY <1>1, <1>2, <1>4 DEF Begins, lastVars, Writing
  <2> QED
    BY <1>0, <1>3, <2>1, ReaderPasses
<1>5. CASE o.kind \in Writes
  <2>1. last' = NoWrite /\ last'.kind = "none"
    BY <1>1, <1>5 DEF Begins, NoWrite
  <2>2. LoneWriteHolds' /\ DetectedIsDriven'
    BY <2>1 DEF LoneWriteHolds, DetectedIsDriven
  <2>3. ASSUME NEW d \in Caller, lone'[d]
        PROVE  /\ Writing(d)' /\ \A e \in Caller : Writing(e)' => e = d
               /\ LoneCall(d)'
    <3>1. ~ \E e \in Caller : Writing(e)
      BY <1>1, <1>5, <2>3 DEF Begins
    <3>2. lone' = [lone EXCEPT ![c] = TRUE]
      BY <1>1, <1>5, <3>1 DEF Begins
    <3>3. d = c
      BY <2>3, <3>1, <3>2 DEF LoneOK, CallsOK, Fixed
    <3>4. Writing(c)' /\ \A e \in Caller : Writing(e)' => e = c
      BY <1>2, <1>5, <3>1 DEF Writing
    <3>5. /\ op'[c] = o
          /\ stage'[c] = CASE o.kind = "readings" -> "cached" [] o.kind = "detect" -> "probe"
                          [] o.kind = "select" -> "install" [] OTHER -> "take"
          /\ o.kind \in Plain => mine'[c] = "none"
      BY <1>0, <1>1, <1>2 DEF CallsOK, Fixed, Idles, Plain
    <3>6. stage'[c] \notin Commanding \cup {"build"}
      BY <3>5 DEF Commanding
    <3>7. LoneCall(c)'
      BY <3>5, <3>6 DEF LoneCall, Aiming
    <3> QED
      BY <3>3, <3>4, <3>7
  <2> QED
    BY <2>1, <2>2, <2>3 DEF LoneOK, LoneCall
<1> QED
  BY <1>4, <1>5

\* The steps of a read disturb no write.
LEMMA ReadLone ==
    ASSUME CallsOK, QueueOK, LoneOK, NEW c \in Caller,
           \/ Cached(c) \/ FreshSpeeds(c) \/ Wait(c) \/ Lead(c) \/ ReadEnds(c) \/ Publish(c)
           \/ Unlead(c) \/ Woken(c) \/ Duties(c) \/ Store(c) \/ GiveUp(c)
    PROVE  LoneOK'
<1>0. CallOK(c) /\ lone[c] \in BOOLEAN
  BY DEF CallsOK, CallOK
<1>1. op[c].kind = "readings"
  <2>1. CASE ReadEnds(c)
    BY <2>1 DEF ReadEnds
  <2>2. CASE ~ReadEnds(c)
    <3>1. stage[c] \in Reading
      <4>1. CASE Cached(c) \/ Woken(c) \/ Duties(c) \/ GiveUp(c)
        BY <4>1 DEF Cached, Woken, Duties, GiveUp, At, Reading
      <4>2. CASE FreshSpeeds(c) \/ Wait(c) \/ Lead(c) \/ Publish(c) \/ Unlead(c) \/ Store(c)
        BY <4>2, AskedFacts DEF FreshSpeeds, Wait, Lead, Publish, Unlead, Store, Locked, Reading
      <4> QED
        BY <2>2, <4>1, <4>2
    <3> QED
      BY <1>0, <3>1, Placed DEF ReadsBare
  <2> QED
    BY <2>1, <2>2
<1>2. ~Writing(c) /\ ~lone[c]
  BY <1>0, <1>1 DEF Writing, Writes, LoneOK
<1>3. UNCHANGED <<board, tracked, driver, active>>
  <2>1. CASE ReadEnds(c)
    <3>1. stage[c] \in Commanding
      BY <2>1 DEF ReadEnds, Outcome, Commanding
    <3>2. Head(todo[c]).kind = "read"
      <4>1. Head(todo[c]) \in {Read("any"), Read("ASRock")}
        BY <1>0, <1>1, <3>1, Placed DEF ReadsOn, Reads
      <4> QED
        BY <4>1 DEF Read
    <3>3. board' = board
      <4>1. PICK ok \in BOOLEAN : Outcome(c, ok)
        BY <2>1 DEF ReadEnds
      <4>2. UNCHANGED boardVars \/ Apply(c, Head(todo[c]))
        BY <4>1 DEF Outcome
      <4> QED
        BY <3>2, <4>2 DEF Apply, boardVars
    <3> QED
      BY <2>1, <3>3 DEF ReadEnds, Quiet, driverVars
  <2>2. CASE Cached(c) \/ Store(c) \/ GiveUp(c)
    BY <2>2 DEF Cached, Store, GiveUp, Quiet, boardVars, driverVars
  <2>3. CASE FreshSpeeds(c) \/ Wait(c) \/ Lead(c) \/ Publish(c) \/ Unlead(c) \/ Woken(c) \/ Duties(c)
    BY <2>3 DEF FreshSpeeds, Wait, Lead, Publish, Unlead, Woken, Duties, Elsewhere, boardVars, driverVars
  <2> QED
    BY <2>1, <2>2, <2>3
<1>4. last' = last /\ lone'[c] = FALSE /\ ~Writing(c)'
  <2>1. CASE \E ok \in BOOLEAN : Forgets(c, ok)
    <3>1. last' = last
      BY <1>2, <2>1 DEF Forgets
    <3>2. op'[c] = Idle /\ lone'[c] = FALSE
      BY <2>1, ForgetsKept
    <3> QED
      BY <3>1, <3>2 DEF Idle, Writing, Writes
  <2>2. CASE ~ \E ok \in BOOLEAN : Forgets(c, ok)
    <3>1. UNCHANGED <<op, lone, last>>
      <4>1. CASE Cached(c) \/ Store(c) \/ GiveUp(c) \/ ReadEnds(c)
        BY <2>2, <4>1 DEF Cached, Store, GiveUp, ReadEnds, Ends, lastVars
      <4>2. CASE FreshSpeeds(c) \/ Wait(c) \/ Lead(c) \/ Publish(c) \/ Unlead(c) \/ Woken(c) \/ Duties(c)
        BY <4>2 DEF FreshSpeeds, Wait, Lead, Publish, Unlead, Woken, Duties, Elsewhere, lastVars
      <4> QED
        BY <4>1, <4>2
    <3>2. lone[c] = FALSE
      BY <1>0, <1>2
    <3> QED
      BY <1>2, <3>1, <3>2 DEF Writing
  <2> QED
    BY <2>1, <2>2
<1> QED
  BY <1>2, <1>3, <1>4, ReaderPasses DEF Step

\* A command that starts, or waits for the lock, does nothing yet.
LEMMA AskLone ==
    ASSUME CallsOK, QueueOK, LoneOK, NEW c \in Caller, Run(c) \/ AskLock(c)
    PROVE  LoneOK'
<1>1. UNCHANGED <<world, board, tracked, driver, active, op, mine, todo, args, lone, last>>
  BY DEF Run, AskLock, boardVars, driverVars, callVars, lastVars
<1>2. lone[c] \in BOOLEAN
  BY DEF CallsOK, CallOK
<1>3. CASE ~Writing(c)
  <2>1. ~Writing(c)'
    BY <1>1, <1>3 DEF Writing
  <2> QED
    BY <1>1, <1>3, <2>1, ReaderPasses DEF Step
<1>4. CASE Writing(c)
  <2>1. Writing(c)'
    BY <1>1, <1>4 DEF Writing
  <2>2. ASSUME lone[c] PROVE LoneCall(c)'
    <3>1. LoneCall(c)
      BY <2>2 DEF LoneOK, LoneCall
    <3>2. stage'[c] \in Commanding \cup {"build"} => stage[c] \in Commanding
      BY AskedFacts DEF Run, AskLock, At, CallsOK, Fixed, Commanding
    <3>3. stage'[c] \in {"install", "installAsked"} => stage[c] = "install"
      BY AskedFacts DEF Run, AskLock, At, CallsOK, Fixed
    <3>4. Aiming(c)'
      BY <1>1, <3>1, <3>2 DEF LoneCall, Aiming
    <3> QED
      BY <1>1, <3>1, <3>3, <3>4 DEF LoneCall
  <2> QED
    BY <1>1, <1>4, <2>1, <2>2, WriterGoesOn DEF Step
<1> QED
  BY <1>3, <1>4

\* A detection on its own drives what it makes active.
LEMMA DetectLone ==
    ASSUME CallsOK, QueueOK, LoneOK, NEW c \in Caller,
           Probe(c) \/ ProbeSucceeds(c) \/ ProbeFails(c) \/ Activate(c)
    PROVE  LoneOK'
<1>0. CallOK(c)
  BY DEF CallsOK
<1>1. op[c].kind = "detect" /\ UNCHANGED <<op, lone, last>>
  <2>1. CASE Probe(c) \/ Activate(c)
    <3>1. stage[c] \in {"probe", "activate"}
      BY <2>1 DEF Probe, Activate, At
    <3>2. op[c].kind = "detect"
      BY <1>0, <3>1, Placed DEF ProbesNone, Chosen
    <3> QED
      BY <2>1, <3>2 DEF Probe, Activate, callVars, lastVars
  <2>2. CASE ProbeSucceeds(c) \/ ProbeFails(c)
    BY <2>2 DEF ProbeSucceeds, ProbeFails, lastVars
  <2> QED
    BY <2>1, <2>2
<1>2. Writing(c) /\ Writing(c)'
  BY <1>1 DEF Writing, Writes
<1>3. LoneCall(c)'
  <2>1. stage'[c] \in {"install", "installAsked"} => active' = mine'[c]
    <3>1. CASE Activate(c)
      BY <3>1 DEF Activate, callVars
    <3>2. CASE Probe(c) \/ ProbeSucceeds(c) \/ ProbeFails(c)
      BY <3>2 DEF Probe, ProbeSucceeds, ProbeFails, Found, ProbesOn, CallsOK, Fixed
    <3> QED
      BY <3>1, <3>2
  <2> QED
    BY <1>1, <2>1 DEF LoneCall, Aiming, Plain
<1> QED
  BY <1>1, <1>2, <1>3, WriterGoesOn DEF Step

\* A driver that is installed is the active one.
LEMMA InstallLone ==
    ASSUME CallsOK, QueueOK, LoneOK, NEW c \in Caller, Install(c)
    PROVE  LoneOK'
<1>0. CallOK(c) /\ stage[c] = "installAsked"
  BY AskedFacts DEF CallsOK, Install, Locked
<1>1. Chosen(c)
  BY <1>0, Placed
<1>2. Forgets(c, TRUE) /\ driver' = mine[c] /\ active' = active /\ world' = world
  BY DEF Install
<1>3. Writing(c)
  BY <1>1 DEF Chosen, Writing, Writes
<1>4. ASSUME lone[c] PROVE LoneWriteHolds' /\ DetectedIsDriven'
  <2>1. last' = [kind |-> op[c].kind, call |-> op[c], driver |-> mine[c], ok |-> TRUE]
    BY <1>2, <1>4 DEF Forgets
  <2>2. op[c].kind = "detect" => active = mine[c] /\ (~world.faults => mine[c] = Own)
    BY <1>0, <1>1, <1>4 DEF LoneOK, Chosen
  <2>3. last'.kind = op[c].kind /\ op[c].kind \notin {"zone", "all"}
    BY <1>1, <2>1 DEF Chosen
  <2> QED
    BY <1>2, <2>2, <2>3 DEF LoneWriteHolds, DetectedIsDriven, Own
<1> QED
  BY <1>2, <1>3, <1>4, WriterEnds DEF Step

\* The fans an ASRock command is for are fans of the board.
LEMMA AimedInCell ==
    ASSUME NEW o, o.kind \in {"zone", "all"}
    PROVE  Aimed("ASRock", o) \subseteq Cell
           /\ Aimed("ASRock", o) = IF o.kind = "all" THEN Cell ELSE GetFansInZone(o.zone)
BY DEF Aimed, GetFansInZone, Cell

\* A lone write knows what it is to send.
LEMMA TakeLone ==
    ASSUME CallsOK, BoardOK, QueueOK, LoneOK, NEW c \in Caller, Take(c)
    PROVE  LoneOK'
<1>0. /\ CallOK(c) /\ stage[c] = "take" /\ driver \in Vendor /\ world \in World
      /\ UNCHANGED <<world, board, tracked, driver, active>>
  BY DEF CallsOK, BoardOK, Take, Quiet, boardVars, driverVars
<1>1. Takes(c) /\ op[c] # Idle
  BY <1>0, Placed
<1>2. ProperCall(op[c]) /\ op[c].kind \in Plain /\ Bare(c)
  BY <1>0, <1>1 DEF CallOK, Takes
<1>3. Writing(c)
  BY <1>2 DEF Writing, Writes, Plain
<1>4. PICK plan : plan = Plan(driver, op[c])
  OBVIOUS
<1>5. CASE plan = <<>> /\ op[c].kind = "identify" /\ driver # "Hwmon"
  <2>1. /\ op' = [op EXCEPT ![c] = [kind |-> "zone", zone |-> @.zone, percent |-> 100]]
        /\ stage' = stage /\ mine' = mine /\ UNCHANGED <<lone, last>>
    BY <1>4, <1>5 DEF Take, lastVars
  <2>2. op'[c] = [kind |-> "zone", zone |-> op[c].zone, percent |-> 100]
    BY <2>1 DEF CallsOK, Fixed
  <2>3. Writing(c)'
    BY <2>2 DEF Writing, Writes
  <2>4. ASSUME lone[c] PROVE LoneCall(c)'
    <3>1. mine[c] # "none" => mine[c] = driver
      BY <1>2, <2>4 DEF LoneOK
    <3> QED
      BY <1>0, <2>1, <2>2, <3>1 DEF LoneCall, Aiming, Commanding
  <2> QED
    BY <1>3, <2>1, <2>3, <2>4, WriterGoesOn DEF Step
<1>6. CASE plan = <<>> /\ ~(op[c].kind = "identify" /\ driver # "Hwmon")
  <2>1. Forgets(c, TRUE)
    BY <1>4, <1>6 DEF Take, Ends
  <2>2. ASSUME lone[c] PROVE LoneWriteHolds' /\ DetectedIsDriven'
    <3>1. last' = [kind |-> op[c].kind, call |-> op[c], driver |-> mine[c], ok |-> TRUE]
      BY <2>1, <2>2 DEF Forgets
    <3>2. last'.kind = op[c].kind /\ last'.driver = mine[c] /\ op[c].kind # "detect"
      BY <1>2, <3>1 DEF Plain
    <3>3. op[c].kind \in {"zone", "all"} => mine[c] \in {"none", "Hwmon"}
      <4>1. op[c].kind \in {"zone", "all"} => driver = "Hwmon"
        <5>1. \/ driver = "Hwmon" \/ op[c].kind \notin {"zone", "all"}
              \/ plan = <<Whole>> \/ plan # <<>>
          BY <1>0, <1>2, <1>4, PlanType
        <5>2. <<Whole>> # <<>>
          <6>1. Len(<<Whole>>) = 1 /\ Len(<<>>) = 0
            OBVIOUS
          <6> QED
            BY <6>1
        <5> QED
          BY <1>6, <5>1, <5>2
      <4>2. mine[c] # "none" => mine[c] = driver
        BY <1>2, <2>2 DEF LoneOK
      <4> QED
        BY <4>1, <4>2
    <3>4. world.vendor \in Vendor \ {"Hwmon"}
      BY <1>0, IpmiAssumption
    <3>5. world.vendor \notin {"none", "Hwmon"}
      BY <3>4 DEF Vendor
    <3> QED
      BY <1>0, <3>2, <3>3, <3>5 DEF LoneWriteHolds, DetectedIsDriven
  <2> QED
    BY <1>3, <2>1, <2>2, WriterEnds DEF Step
<1>7. CASE plan # <<>>
  <2>1. /\ mine'[c] = driver /\ todo'[c] = plan /\ UNCHANGED <<op, args, lone, last>>
        /\ stage'[c] = IF Head(plan) = Whole THEN "build" ELSE "ready"
    BY <1>4, <1>7 DEF Take, lastVars, CallsOK, Fixed
  <2>2. Writing(c)'
    BY <1>3, <2>1 DEF Writing
  <2>3. Aiming(c)'
    <3> SUFFICES ASSUME op[c].kind \in {"zone", "all"} PROVE Aiming(c)'
      BY <2>1 DEF Aiming
    <3>1. CASE plan = <<Whole>>
      <4>1. driver = "ASRock"
        <5>1. <<Whole>> # <<>>
          <6>1. Len(<<Whole>>) = 1 /\ Len(<<>>) = 0
            OBVIOUS
          <6> QED
            BY <6>1
        <5> QED
          BY <1>0, <1>2, <1>4, <3>1, <5>1, PlanType
      <4>2. Len(args'[c]) = 0
        BY <1>2, <2>1 DEF Bare
      <4>3. \A f \in Cell : ~(f < Len(args'[c]))
        BY <4>2 DEF Cell
      <4> QED
        BY <2>1, <3>1, <4>1, <4>3 DEF Aiming
    <3>2. CASE plan # <<Whole>>
      <4>1. driver \in Vendor \ {"Hwmon", "ASRock"}
        BY <1>0, <1>2, <1>4, <1>7, <3>2, PlanType
      <4>2. /\ \A i \in 1..Len(plan) : /\ plan[i].kind = "speed" /\ plan[i].vendor = driver
                                       /\ plan[i].value = Sent(driver, op[c].percent)
            /\ \A f \in Aimed(driver, op[c]) : \E i \in 1..Len(plan) : f \in plan[i].cells
        BY <1>2, <1>4, <4>1, PlanCovers
      <4> QED
        BY <1>0, <2>1, <3>2, <4>1, <4>2 DEF Aiming
    <3> QED
      BY <3>1, <3>2
  <2>4. LoneCall(c)'
    <3>1. stage'[c] \notin {"install", "installAsked"}
      BY <2>1
    <3> QED
      BY <1>0, <2>1, <2>3, <3>1 DEF LoneCall
  <2> QED
    BY <1>3, <2>1, <2>2, <2>4, WriterGoesOn DEF Step
<1> QED
  BY <1>5, <1>6, <1>7

\* A lone ASRock write tracks what it is to send.
LEMMA BuildLone ==
    ASSUME CallsOK, BoardOK, QueueOK, LoneOK, NEW c \in Caller, Build(c)
    PROVE  LoneOK'
<1>0. /\ CallOK(c) /\ stage[c] = "build" /\ tracked \in [Cell -> 0..100]
      /\ UNCHANGED <<world, board, driver, active, op, mine, todo, lone, last>>
  BY DEF CallsOK, BoardOK, Build, boardVars, driverVars, lastVars
<1>1. Builds(c) /\ op[c] # Idle
  BY <1>0, Placed
<1>2. op[c].kind \in {"zone", "all"} /\ todo[c] = <<Whole>>
  BY <1>1 DEF Builds, Carries
<1>3. PICK n \in 0..3 : Len(args[c]) = n /\ args[c] \in Seq(0..100)
  BY <1>1 DEF Builds, Carries
<1>4. Writing(c) /\ Writing(c)'
  BY <1>0, <1>2 DEF Writing, Writes
<1>5. ASSUME lone[c] PROVE LoneCall(c)'
  <2>1. LoneCall(c)
    BY <1>5 DEF LoneOK, LoneCall
  <2>2. /\ mine[c] = "ASRock"
        /\ \A f \in Cell : f < n => /\ args[c][f + 1] = tracked[f]
                                    /\ f \in Aimed("ASRock", op[c]) => tracked[f] = Clamped(op[c].percent)
    BY <1>0, <1>2, <1>3, <2>1 DEF LoneCall, Aiming
  <2>3. PICK value : /\ value = IF n \in Aimed("ASRock", op[c]) THEN Clamped(op[c].percent) ELSE tracked[n]
                     /\ args' = [args EXCEPT ![c] = Append(@, value)]
                     /\ tracked' = [tracked EXCEPT ![n] = value]
    <3> DEFINE target == IF op[c].kind = "all" THEN Cell ELSE GetFansInZone(op[c].zone)
               speed == IF n \in target THEN Clamped(op[c].percent) ELSE tracked[n]
    <3>1. args' = [args EXCEPT ![c] = Append(@, speed)] /\ tracked' = [tracked EXCEPT ![n] = speed]
      BY <1>3 DEF Build
    <3>2. target = Aimed("ASRock", op[c])
      BY <1>2, AimedInCell
    <3> QED
      BY <3>1, <3>2
  <2>4. args'[c] = Append(args[c], value)
    BY <2>3 DEF CallsOK, Fixed
  <2>5. /\ Len(args'[c]) = n + 1 /\ args'[c][n + 1] = value
        /\ \A i \in 1..n : args'[c][i] = args[c][i]
    BY <1>3, <2>4
  <2>6. n \in Cell /\ \A f \in Cell : f \in Int /\ f >= 0
    BY DEF Cell
  <2>7. \A f \in Cell : tracked'[f] = IF f = n THEN value ELSE tracked[f]
    BY <1>0, <2>3
  <2>8. ASSUME NEW f \in Cell, f < n + 1
        PROVE  /\ args'[c][f + 1] = tracked'[f]
               /\ f \in Aimed("ASRock", op[c]) => tracked'[f] = Clamped(op[c].percent)
    <3>1. CASE f = n
      BY <2>3, <2>5, <2>7, <3>1
    <3>2. CASE f # n
      <4>1. f < n /\ f + 1 \in 1..n
        BY <2>6, <2>8, <3>2
      <4> QED
        BY <2>2, <2>5, <2>7, <3>2, <4>1
    <3> QED
      BY <3>1, <3>2
  <2>9. Aiming(c)'
    BY <1>0, <1>2, <2>2, <2>5, <2>8 DEF Aiming
  <2>10. stage'[c] \notin {"install", "installAsked"}
    BY DEF Build, CallsOK, Fixed
  <2> QED
    BY <1>0, <2>1, <2>9, <2>10 DEF LoneCall
<1> QED
  BY <1>0, <1>4, <1>5, WriterGoesOn DEF Step

\* A lone write that has sent everything has set what it was to set.
LEMMA SentEverything ==
    ASSUME CallsOK, BoardOK, NEW c \in Caller, Aiming(c), stage[c] = "running",
           op[c].kind \in {"zone", "all"}, Len(todo[c]) = 1, mine[c] = world.vendor,
           Obeyed(Head(todo[c])), Apply(c, Head(todo[c])), tracked' = tracked
    PROVE  /\ \A f \in Aimed(mine[c], op[c]) : board'[f] = Sent(mine[c], op[c].percent)
           /\ mine[c] = "ASRock" => board' = tracked'
<1>0. CallOK(c) /\ world \in World /\ tracked \in [Cell -> 0..100] /\ stage[c] \in Commanding
  BY DEF CallsOK, BoardOK, Commanding
<1>1. SendsOn(c) \/ SendsWhole(c)
  BY <1>0, Placed DEF Plain
<1>2. CASE todo[c] = <<Whole>>
  <2>1. /\ mine[c] = "ASRock"
        /\ \A f \in Cell : f < Len(args[c]) =>
              /\ args[c][f + 1] = tracked[f]
              /\ f \in Aimed("ASRock", op[c]) => tracked[f] = Clamped(op[c].percent)
    BY <1>0, <1>2 DEF Aiming
  <2>2. SendsWhole(c)
    <3>1. ~Sends(c)
      <4>1. Head(<<Whole>>) = Whole /\ Whole \notin WriteCommand
        BY DEF Whole, WriteCommand
      <4>2. todo[c] \in Seq(WriteCommand) /\ todo[c] # <<>> => Head(todo[c]) \in WriteCommand
        OBVIOUS
      <4> QED
        BY <1>2, <4>1, <4>2 DEF Sends
    <3> QED
      BY <1>1, <3>1 DEF SendsOn
  <2>3. Len(args[c]) = 4
    BY <2>2 DEF SendsWhole, Carries
  <2>4. \A f \in Cell : args[c][f + 1] = tracked[f]
                        /\ (f \in Aimed("ASRock", op[c]) => tracked[f] = Clamped(op[c].percent))
    <3>1. \A f \in Cell : f < Len(args[c])
      BY <2>3 DEF Cell
    <3> QED
      BY <2>1, <3>1
  <2>5. board' = [f \in Cell |-> args[c][f + 1]]
    <3>1. Head(todo[c]) = Whole /\ Whole.kind = "whole"
      BY <1>2 DEF Whole
    <3> QED
      BY <3>1 DEF Apply
  <2>6. board' = tracked
    BY <1>0, <2>4, <2>5
  <2>7. \A f \in Aimed("ASRock", op[c]) : f \in Cell
    BY AimedInCell
  <2>8. Sent("ASRock", op[c].percent) = Clamped(op[c].percent)
    BY DEF Sent
  <2> QED
    BY <2>1, <2>4, <2>6, <2>7, <2>8
<1>3. CASE todo[c] # <<Whole>>
  <2>1. /\ mine[c] \in Vendor \ {"ASRock"}
        /\ \A i \in 1..Len(todo[c]) : /\ todo[c][i].kind = "speed" /\ todo[c][i].vendor = mine[c]
                                      /\ todo[c][i].value = Sent(mine[c], op[c].percent)
        /\ \A f \in Aimed(mine[c], op[c]) :
              board[f] = Sent(mine[c], op[c].percent) \/ \E i \in 1..Len(todo[c]) : f \in todo[c][i].cells
    BY <1>0, <1>3 DEF Aiming
  <2>2. PICK cmd : cmd = Head(todo[c])
    OBVIOUS
  <2>3. todo[c][1] = cmd
    <3>1. todo[c] \in Seq(WriteCommand) /\ todo[c] # <<>>
      BY <1>1, <1>3 DEF SendsOn, Sends, SendsWhole, Carries
    <3> QED
      BY <2>2, <3>1
  <2>4. 1 \in 1..Len(todo[c]) /\ \A i \in 1..Len(todo[c]) : i = 1
    OBVIOUS
  <2>5. /\ cmd.kind = "speed" /\ cmd.value = Sent(mine[c], op[c].percent)
        /\ \A f \in Aimed(mine[c], op[c]) : board[f] = Sent(mine[c], op[c].percent) \/ f \in cmd.cells
    BY <2>1, <2>3, <2>4
  <2>6. board' = [f \in Cell |-> IF f \in cmd.cells THEN cmd.value ELSE board[f]]
    BY <2>2, <2>5 DEF Apply
  <2>7. Aimed(mine[c], op[c]) \subseteq Cell
    <3>1. op[c] # Idle
      BY <1>0, Placed
    <3>2. mine[c] \in {"Dell", "Supermicro", "Generic", "Hwmon"}
      BY <2>1 DEF Vendor
    <3>3. mine[c] # "Hwmon"
      BY <1>0, IpmiAssumption
    <3>4. mine[c] \in {"Dell", "Supermicro"} /\ op[c].kind = "zone" => op[c].zone \in Cell
      BY <1>0, <3>1 DEF CallOK
    <3> QED
      BY <3>2, <3>3, <3>4 DEF Aimed
  <2> QED
    BY <2>1, <2>5, <2>6, <2>7
<1> QED
  BY <1>2, <1>3

\* A write that goes on, and one that ends: when it was alone, what it says it has
\* set is set.
LEMMA WriteLone ==
    ASSUME CallsOK, BoardOK, QueueOK, LoneOK, NEW c \in Caller, WriteSucceeds(c)
    PROVE  LoneOK'
<1>0. /\ CallOK(c) /\ world \in World /\ op[c].kind \in Plain /\ stage[c] = "running"
      /\ UNCHANGED <<world, tracked, driver, active>>
      /\ Obeyed(Head(todo[c])) /\ Apply(c, Head(todo[c]))
  BY DEF CallsOK, WriteSucceeds, Quiet, driverVars, Outcome, Plain
<1>1. Writing(c)
  BY <1>0 DEF Writing, Writes, Plain
<1>2. SendsOn(c) \/ SendsWhole(c)
  BY <1>0, Placed DEF Commanding
<1>a. PICK n \in Nat \ {0} : n = Len(todo[c])
  <2>1. CASE SendsWhole(c)
    <3>1. Len(<<Whole>>) = 1
      OBVIOUS
    <3> QED
      BY <2>1, <3>1 DEF SendsWhole, Carries
  <2>2. CASE SendsOn(c)
    <3>1. PICK m \in Nat : m = Len(todo[c])
      BY <2>2 DEF SendsOn, Sends
    <3>2. ASSUME m = 0 PROVE FALSE
      BY <2>2, <3>1, <3>2, EmptySeq DEF SendsOn, Sends
    <3> QED
      BY <3>1, <3>2
  <2> QED
    BY <1>2, <2>1, <2>2
<1>3. CASE n > 1
  <2>1. /\ todo' = [todo EXCEPT ![c] = Tail(@)] /\ stage' = [stage EXCEPT ![c] = "ready"]
        /\ UNCHANGED <<op, mine, args, failed, lastVars>>
    <3>1. Len(todo[c]) > 1
      BY <1>a, <1>3
    <3>2. ASSUME Len(todo[c]) = 1 PROVE FALSE
      BY <1>a, <1>3, <3>2
    <3> QED
      BY <3>1, <3>2 DEF WriteSucceeds
  <2>2. /\ todo'[c] = Tail(todo[c]) /\ stage'[c] = "ready" /\ op' = op /\ mine' = mine
        /\ args' = args /\ lone' = lone /\ last' = last
    BY <2>1 DEF lastVars, CallsOK, Fixed
  <2>3. Writing(c)'
    BY <1>1, <2>2 DEF Writing
  <2>4. ASSUME lone[c] PROVE LoneCall(c)'
    <3>1. LoneCall(c)
      BY <2>4 DEF LoneOK, LoneCall
    <3>2. Aiming(c)'
      <4> SUFFICES ASSUME op[c].kind \in {"zone", "all"} PROVE Aiming(c)'
        BY <2>2 DEF Aiming
      <4>0. todo[c] # <<Whole>>
        <5>1. Len(<<Whole>>) = 1
          OBVIOUS
        <5>2. n # 1
          BY <1>3
        <5> QED
          BY <1>a, <5>1, <5>2
      <4>1. /\ mine[c] \in Vendor \ {"ASRock"}
            /\ \A i \in 1..n : /\ todo[c][i].kind = "speed" /\ todo[c][i].vendor = mine[c]
                               /\ todo[c][i].value = Sent(mine[c], op[c].percent)
            /\ \A f \in Aimed(mine[c], op[c]) :
                  board[f] = Sent(mine[c], op[c].percent) \/ \E i \in 1..n : f \in todo[c][i].cells
        BY <1>0, <1>a, <3>1, <4>0 DEF LoneCall, Aiming, Commanding
      <4>2. todo[c] \in Seq(WriteCommand)
        BY <1>2, <4>0 DEF SendsOn, Sends, SendsWhole, Carries
      <4>3. PICK rest : rest = Tail(todo[c])
        OBVIOUS
      <4>4. Len(rest) = n - 1 /\ \A i \in 1..(n - 1) : rest[i] = todo[c][i + 1]
        BY <1>a, <1>3, <4>2, <4>3
      <4>5. \A i \in 1..(n - 1) : /\ rest[i].kind = "speed" /\ rest[i].vendor = mine[c]
                                  /\ rest[i].value = Sent(mine[c], op[c].percent)
        <5>1. \A i \in 1..(n - 1) : i + 1 \in 1..n
          OBVIOUS
        <5> QED
          BY <4>1, <4>4, <5>1
      <4>6. PICK cmd : cmd = Head(todo[c])
        OBVIOUS
      <4>7. todo[c][1] = cmd /\ 1 \in 1..n
        BY <1>a, <1>3, <4>2, <4>6
      <4>8. board' = [f \in Cell |-> IF f \in cmd.cells THEN cmd.value ELSE board[f]]
        <5>1. cmd.kind = "speed"
          BY <4>1, <4>7
        <5> QED
          BY <1>0, <4>6, <5>1 DEF Apply
      <4>9. cmd.value = Sent(mine[c], op[c].percent) /\ cmd.vendor = mine[c]
        BY <4>1, <4>7
      <4>10. Aimed(mine[c], op[c]) \subseteq Cell
        <5>1. op[c] # Idle
          BY <1>0, Placed
        <5>2. cmd.vendor \in {"any", world.vendor} /\ cmd.vendor \in Vendor
          BY <1>0, <4>1, <4>6, <4>9 DEF Obeyed
        <5>3. mine[c] = world.vendor
          BY <4>9, <5>2 DEF Vendor
        <5>4. mine[c] \in {"Dell", "Supermicro", "Generic"}
          <6>1. world.vendor # "Hwmon"
            BY <1>0, IpmiAssumption
          <6> QED
            BY <4>1, <5>3, <6>1 DEF Vendor
        <5>5. mine[c] \in {"Dell", "Supermicro"} /\ op[c].kind = "zone" => op[c].zone \in Cell
          BY <1>0, <5>1, <5>3 DEF CallOK
        <5> QED
          BY <5>4, <5>5 DEF Aimed
      <4>11. ASSUME NEW f \in Aimed(mine[c], op[c])
             PROVE  board'[f] = Sent(mine[c], op[c].percent) \/ \E i \in 1..(n - 1) : f \in rest[i].cells
        <5>1. CASE f \in cmd.cells \/ board[f] = Sent(mine[c], op[c].percent)
          BY <4>8, <4>9, <4>10, <4>11, <5>1
        <5>2. CASE ~(f \in cmd.cells \/ board[f] = Sent(mine[c], op[c].percent))
          <6>1. PICK i \in 1..n : f \in todo[c][i].cells
            BY <4>1, <4>11, <5>2
          <6>2. i # 1
            BY <4>7, <5>2, <6>1
          <6>3. i - 1 \in 1..(n - 1) /\ (i - 1) + 1 = i
            BY <6>2
          <6>4. f \in rest[i - 1].cells
            BY <4>4, <6>1, <6>3
          <6> QED
            BY <6>3, <6>4
        <5> QED
          BY <5>1, <5>2
      <4>12. rest # <<Whole>>
        <5>1. <<Whole>>[1] = Whole /\ Whole.kind # "speed"
          BY DEF Whole
        <5>2. 1 \in 1..(n - 1)
          BY <1>3
        <5> QED
          BY <4>5, <5>1, <5>2
      <4> QED
        BY <2>2, <4>1, <4>3, <4>4, <4>5, <4>11, <4>12 DEF Aiming
    <3>3. stage'[c] \notin {"install", "installAsked"}
      BY <2>2
    <3> QED
      BY <1>0, <2>2, <3>1, <3>2, <3>3 DEF LoneCall
  <2> QED
    BY <1>1, <2>2, <2>3, <2>4, WriterGoesOn DEF Step
<1>4. CASE n = 1 /\ op[c].kind = "identify"
  <2>1. /\ op' = [op EXCEPT ![c] = [kind |-> "zone", zone |-> @.zone, percent |-> 100]]
        /\ stage' = [stage EXCEPT ![c] = "take"] /\ mine' = mine /\ UNCHANGED lastVars
    BY <1>a, <1>4 DEF WriteSucceeds
  <2>2. op'[c] = [kind |-> "zone", zone |-> op[c].zone, percent |-> 100] /\ stage'[c] = "take"
    BY <2>1 DEF CallsOK, Fixed
  <2>3. Writing(c)'
    BY <2>2 DEF Writing, Writes
  <2>4. ASSUME lone[c] PROVE LoneCall(c)'
    <3>1. mine[c] # "none" => mine[c] = driver
      BY <1>0, <2>4 DEF LoneOK
    <3> QED
      BY <1>0, <2>1, <2>2, <3>1 DEF LoneCall, Aiming, Commanding
  <2> QED
    BY <1>1, <2>1, <2>3, <2>4, WriterGoesOn DEF Step, lastVars
<1>5. CASE n = 1 /\ op[c].kind # "identify"
  <2>1. Forgets(c, TRUE)
    <3>1. ASSUME Len(todo[c]) > 1 PROVE FALSE
      BY <1>a, <1>5, <3>1
    <3> QED
      BY <1>5, <3>1 DEF WriteSucceeds, Ends
  <2>2. ASSUME lone[c] PROVE LoneWriteHolds' /\ DetectedIsDriven'
    <3>1. last' = [kind |-> op[c].kind, call |-> op[c], driver |-> mine[c], ok |-> TRUE]
      BY <2>1, <2>2 DEF Forgets
    <3>2. last'.kind = op[c].kind /\ last'.call = op[c] /\ last'.driver = mine[c]
      BY <3>1
    <3>3. DetectedIsDriven'
      BY <1>0, <3>2 DEF DetectedIsDriven, Plain
    <3>4. Aiming(c)
      BY <2>2 DEF LoneOK
    <3>5. ASSUME op[c].kind \in {"zone", "all"}, mine[c] = world.vendor
          PROVE  /\ \A f \in Aimed(mine[c], op[c]) : board'[f] = Sent(mine[c], op[c].percent)
                 /\ mine[c] = "ASRock" => board' = tracked'
      BY <1>0, <1>a, <1>5, <3>4, <3>5, SentEverything
    <3> QED
      BY <1>0, <3>2, <3>3, <3>5 DEF LoneWriteHolds
  <2> QED
    BY <1>1, <2>1, <2>2, WriterEnds DEF Step
<1>6. n > 1 \/ n = 1
  OBVIOUS
<1> QED
  BY <1>3, <1>4, <1>5, <1>6

\* A write that fails says nothing.
LEMMA FailLone ==
    ASSUME CallsOK, QueueOK, LoneOK, NEW c \in Caller, WriteFails(c)
    PROVE  LoneOK'
<1>1. Writing(c) /\ Forgets(c, FALSE) /\ op[c].kind # "detect"
  BY DEF WriteFails, Ends, Writing, Writes
<1>2. ASSUME lone[c] PROVE LoneWriteHolds' /\ DetectedIsDriven'
  <2>1. last' = [kind |-> op[c].kind, call |-> op[c], driver |-> mine[c], ok |-> FALSE]
    BY <1>1, <1>2 DEF Forgets
  <2>2. last'.kind = op[c].kind /\ last'.ok = FALSE
    BY <2>1
  <2> QED
    BY <1>1, <2>2 DEF LoneWriteHolds, DetectedIsDriven
<1> QED
  BY <1>1, <1>2, WriterEnds DEF Step

\* The inductive invariant of lone writes: a lone write is the only one, runs on
\* the service's driver, and has set or will set what it was asked for.
THEOREM LoneTyped == Spec => []LoneOK
<1>1. Init => LoneOK
  BY DEF Init, LoneOK, LoneWriteHolds, DetectedIsDriven, NoWrite
<1>2. IpmiOK /\ LoneOK /\ [Next]_vars => LoneOK'
  <2> SUFFICES ASSUME IpmiOK, LoneOK, [Next]_vars PROVE LoneOK'
    OBVIOUS
  <2> USE DEF IpmiOK
  <2>1. CASE vars' = vars \/ Expire
    <3>1. UNCHANGED <<world, board, tracked, driver, active, op, stage, mine, todo, args, lone, last>>
      BY <2>1 DEF vars, Expire, boardVars, driverVars, callVars, lastVars
    <3>2. \A c \in Caller : Aiming(c) => Aiming(c)'
      BY <3>1 DEF Aiming
    <3> QED
      BY <3>1, <3>2 DEF LoneOK, Writing, LoneWriteHolds, DetectedIsDriven
  <2>2. CASE \E c \in Caller : Call(c) \/ Step(c) \/ GiveUp(c)
    BY <2>2, CallLone, AskLone, ReadLone, DetectLone, InstallLone, TakeLone, BuildLone, WriteLone,
       FailLone DEF Step
  <2> QED
    BY <2>1, <2>2 DEF Next
<1> QED
  BY <1>1, <1>2, IpmiTyped, PTL DEF Spec

\* LoneWriteHolds: a write that succeeded alone left every cell it was aimed at
\* where it was to be, and an ASRock board as the driver tracks it.
THEOREM LoneWriteCorrect == Spec => []LoneWriteHolds
<1>1. LoneOK => LoneWriteHolds
  BY DEF LoneOK
<1> QED
  BY <1>1, LoneTyped, PTL

\* DetectedIsDriven: a detection alone leaves the service and the validation of
\* profiles with one driver, the board's own when no command failed.
THEOREM DetectedCorrect == Spec => []DetectedIsDriven
<1>1. LoneOK => DetectedIsDriven
  BY DEF LoneOK
<1> QED
  BY <1>1, LoneTyped, PTL
=============================================================================
