-------------------------- MODULE HwmonDriverProofs --------------------------
(***************************************************************************)
(* What the hwmon driver guarantees for every set of channels, every set   *)
(* of commanded duties, any number of concurrent identifications and every *)
(* mix of failures that Env admits.                                        *)
(***************************************************************************)
EXTENDS HwmonDriver, TLAPS

-----------------------------------------------------------------------------
(* The duty conversions.                                                   *)

\* The conversion of a percentage is a raw duty the chip accepts.
LEMMA PctToPwmType == \A p \in Int : PctToPwm(p) \in Pwm
  BY DEF PctToPwm, Clamp, PwmMax, Pwm

\* The conversion of a raw duty is a percentage.
LEMMA PwmToPctType == \A w \in Int : PwmToPct(w) \in 0..100
  BY DEF PwmToPct, Clamp, PwmMax

\* A percentage written to the chip and read back is the same percentage, so
\* IdentifyZone, which stores the raw duty and writes back its percentage,
\* loses nothing to rounding.
THEOREM PwmRoundTrip == \A p \in 0..100 : PwmToPct(PctToPwm(p)) = p
  BY DEF PwmToPct, PctToPwm, Clamp, PwmMax

-----------------------------------------------------------------------------
(* The two operators every method is built from.                           *)

\* The part of TypeOK' that both write.
ChannelsTyped ==
    /\ enable' \in [Zone -> EnableMode]
    /\ pwm' \in [Zone -> Pwm]
    /\ touched' \subseteq Zone
    /\ commanded' \in [Zone -> Pwm \cup {NoPwm}]
    /\ settled' \subseteq Zone
    /\ mismatch' \in [Zone -> 0..OverrideAfter]
    /\ drifted' \subseteq Zone

LEMMA SetChannelsType ==
  ASSUME TypeOK, NEW S \in SUBSET Zone, NEW p \in Int, NEW out,
         SetChannels(S, p, out)
  PROVE  ChannelsTyped
  <1>1. PctToPwm(p) \in Pwm
    BY PctToPwmType
  <1> QED
    BY <1>1 DEF SetChannels, TypeOK, EnableMode, OverrideAfter, ChannelsTyped

LEMMA ReleaseModeType ==
  ASSUME TypeOK, NEW z \in Zone
  PROVE  ReleaseMode(z) = "auto"
  BY DEF ReleaseMode, TypeOK, EnableMode

LEMMA ReleaseChannelsType ==
  ASSUME TypeOK, NEW ok \in SUBSET Zone, ReleaseChannels(ok)
  PROVE  ChannelsTyped
  BY ReleaseModeType DEF ReleaseChannels, TypeOK, EnableMode, OverrideAfter, ChannelsTyped

LEMMA ReleasedSubset ==
  ASSUME NEW S, NEW ok \in Released(S)
  PROVE  ok \subseteq S
  BY DEF Released

-----------------------------------------------------------------------------
(* Type correctness.                                                       *)

THEOREM TypeCorrect == Spec => []TypeOK
<1>1. Init => TypeOK
  <2> SUFFICES ASSUME Init PROVE TypeOK
    OBVIOUS
  <2>1. enable \in [Zone -> EnableMode]
    BY DriverAssumption DEF Init
  <2>2. ident \in [Caller -> IdentCall]
    BY DEF Init, IdentCall
  <2>3. /\ pwm \in [Zone -> Pwm]
        /\ commanded \in [Zone -> Pwm \cup {NoPwm}]
        /\ mismatch \in [Zone -> 0..OverrideAfter]
    BY DEF Init, Pwm, PwmMax, OverrideAfter
  <2> QED
    BY <2>1, <2>2, <2>3 DEF Init, TypeOK
<1>2. TypeOK /\ [Next]_vars => TypeOK'
  <2> SUFFICES ASSUME TypeOK, [Next]_vars PROVE TypeOK'
    OBVIOUS
  <2>1. CASE SetFanSpeedCalled
    <3>1. PICK z \in Zone, p \in Percent, o \in Outcomes : SetFanSpeed(z, p, o)
      BY <2>1 DEF SetFanSpeedCalled
    <3>2. p \in Int
      BY DriverAssumption
    <3>3. SetChannels({z}, p, [x \in Zone |-> o])
      BY <3>1 DEF SetFanSpeed
    <3> QED
      BY <3>1, <3>2, <3>3, SetChannelsType DEF ChannelsTyped, SetFanSpeed, TypeOK
  <2>2. CASE SetAllFanSpeedsCalled
    <3>1. PICK p \in Percent, out \in [Zone -> Outcomes] : SetAllFanSpeeds(p, out)
      BY <2>2 DEF SetAllFanSpeedsCalled
    <3>2. p \in Int
      BY DriverAssumption
    <3>3. SetChannels(Zone, p, out)
      BY <3>1 DEF SetAllFanSpeeds
    <3> QED
      BY <3>1, <3>2, <3>3, SetChannelsType DEF ChannelsTyped, SetAllFanSpeeds, TypeOK
  <2>3. CASE SessionOpened
    BY <2>3 DEF SessionOpened, OpenSession, chanVars, TypeOK
  <2>4. CASE SessionClosed
    <3>1. PICK ok \in Released(touched) : CloseSession(ok)
      BY <2>4 DEF SessionClosed
    <3>2. ok \in SUBSET Zone
      BY ReleasedSubset DEF TypeOK
    <3> QED
      BY <3>1, <3>2, ReleaseChannelsType DEF ChannelsTyped, CloseSession, TypeOK
  <2>5. CASE ZoneReleased
    <3>1. PICK z \in Zone : \E ok \in Released({z}) : ReleaseZone(ok)
      BY <2>5 DEF ZoneReleased
    <3>2. PICK ok \in Released({z}) : ReleaseZone(ok)
      BY <3>1
    <3>3. ok \in SUBSET Zone
      BY <3>2, ReleasedSubset
    <3> QED
      BY <3>2, <3>3, ReleaseChannelsType DEF ChannelsTyped, ReleaseZone, TypeOK
  <2>6. CASE IdentifyStarted
    <3>1. PICK c \in Caller, z \in Zone, o \in Outcomes : IdentifyStart(c, z, o)
      BY <2>6 DEF IdentifyStarted
    <3>2. SetChannels({z}, 100, [x \in Zone |-> o])
      BY <3>1 DEF IdentifyStart
    <3>5. ChannelsTyped
      BY <3>2, SetChannelsType, 100 \in Int
    <3>3. CASE o = "ok"
      <4>1. [zone |-> z, owned |-> commanded[z] # NoPwm, prev |-> commanded[z]]
               \in IdentCall
        BY DEF TypeOK, IdentCall
      <4>2. ident' \in [Caller -> IdentCall]
        BY <3>1, <3>3, <4>1 DEF IdentifyStart, TypeOK
      <4> QED
        BY <3>1, <3>5, <4>2 DEF ChannelsTyped, IdentifyStart, TypeOK
    <3>4. CASE o # "ok"
      BY <3>1, <3>4, <3>5 DEF ChannelsTyped, IdentifyStart, TypeOK
    <3> QED
      BY <3>3, <3>4
  <2>7. CASE IdentifyRestored
    <3>1. PICK c \in Caller, o \in Outcomes : IdentifyRestore(c, o)
      BY <2>7 DEF IdentifyRestored
    <3>2. ident[c].zone \in Zone /\ ident[c].prev \in Int
      <4>1. ident[c] \in [zone : Zone, owned : BOOLEAN, prev : Pwm \cup {NoPwm}]
        BY <3>1 DEF IdentifyRestore, TypeOK, IdentCall
      <4>2. Pwm \cup {NoPwm} \subseteq Int
        BY DEF Pwm, PwmMax, NoPwm
      <4> QED
        BY <4>1, <4>2
    <3>3. PwmToPct(ident[c].prev) \in Int
      BY <3>2, PwmToPctType
    <3>4. SetChannels({ident[c].zone}, PwmToPct(ident[c].prev), [x \in Zone |-> o])
      BY <3>1 DEF IdentifyRestore
    <3>5. ident' \in [Caller -> IdentCall]
      BY <3>1 DEF IdentifyRestore, TypeOK, IdentCall
    <3> QED
      BY <3>1, <3>2, <3>3, <3>4, <3>5, SetChannelsType DEF ChannelsTyped, IdentifyRestore, TypeOK
  <2>8. CASE IdentifyReleased
    <3>1. PICK c \in Caller :
             \E ok \in Released({ident[c].zone}) : IdentifyRelease(c, ok)
      BY <2>8 DEF IdentifyReleased
    <3>2. PICK ok \in Released({ident[c].zone}) : IdentifyRelease(c, ok)
      BY <3>1
    <3>3. ok \in SUBSET Zone
      BY <3>2, ReleasedSubset DEF IdentifyRelease, TypeOK, IdentCall
    <3>4. ident' \in [Caller -> IdentCall]
      BY <3>2 DEF IdentifyRelease, TypeOK, IdentCall
    <3> QED
      BY <3>2, <3>3, <3>4, ReleaseChannelsType DEF ChannelsTyped, IdentifyRelease, TypeOK
  <2>9. CASE ReadingsPolled
    <3>1. PICK u : GetFanReadings(u)
      BY <2>9 DEF ReadingsPolled
    <3> QED
      BY <3>1 DEF GetFanReadings, TypeOK, OverrideAfter
  <2>10. CASE GraceElapsed
    BY <2>10 DEF GraceElapsed, Settle, TypeOK
  <2>11. CASE FirmwareWrote
    BY <2>11, DriverAssumption DEF FirmwareWrote, FirmwareWrites, TypeOK
  <2>12. CASE Restarted
    <3>1. mismatch' \in [Zone -> 0..OverrideAfter]
      BY <2>12 DEF Restarted, Restart, OverrideAfter
    <3>2. ident' \in [Caller -> IdentCall]
      BY <2>12 DEF Restarted, Restart, IdentCall
    <3> QED
      BY <2>12, <3>1, <3>2 DEF Restarted, Restart, TypeOK
  <2>13. CASE UNCHANGED vars
    BY <2>13 DEF vars, TypeOK
  <2> QED
    BY <2>1, <2>2, <2>3, <2>4, <2>5, <2>6, <2>7, <2>8, <2>9, <2>10, <2>11,
       <2>12, <2>13 DEF Next
<1> QED
  BY <1>1, <1>2, PTL DEF Spec

-----------------------------------------------------------------------------
(* The shape of a step: whatever method runs, the channels change by one   *)
(* SetChannels, by one ReleaseChannels, by a poll, by what happens to the  *)
(* driver, or not at all.                                                  *)

Written == \E S \in SUBSET Zone, p \in Int, out \in [Zone -> Outcomes] :
               SetChannels(S, p, out) /\ UNCHANGED origEnable

LetGo == \E ok \in SUBSET Zone : ReleaseChannels(ok) /\ UNCHANGED origEnable

Polled == \E u : GetFanReadings(u)

LEMMA StepShape ==
  ASSUME TypeOK, [Next]_vars
  PROVE  \/ Written \/ LetGo \/ Polled \/ GraceElapsed \/ FirmwareWrote
         \/ Restarted \/ UNCHANGED <<chanVars, origEnable>>
<1>1. CASE SetFanSpeedCalled
  <2>1. PICK z \in Zone, p \in Percent, o \in Outcomes : SetFanSpeed(z, p, o)
    BY <1>1 DEF SetFanSpeedCalled
  <2>2. {z} \in SUBSET Zone /\ p \in Int /\ [x \in Zone |-> o] \in [Zone -> Outcomes]
    BY DriverAssumption
  <2> QED
    BY <2>1, <2>2 DEF SetFanSpeed, Written
<1>2. CASE SetAllFanSpeedsCalled
  <2>1. PICK p \in Percent, out \in [Zone -> Outcomes] : SetAllFanSpeeds(p, out)
    BY <1>2 DEF SetAllFanSpeedsCalled
  <2>2. Zone \in SUBSET Zone /\ p \in Int
    BY DriverAssumption
  <2> QED
    BY <2>1, <2>2 DEF SetAllFanSpeeds, Written
<1>3. CASE SessionOpened
  BY <1>3 DEF SessionOpened, OpenSession
<1>4. CASE SessionClosed
  <2>1. PICK ok \in Released(touched) : CloseSession(ok)
    BY <1>4 DEF SessionClosed
  <2>2. ok \in SUBSET Zone
    BY ReleasedSubset DEF TypeOK
  <2> QED
    BY <2>1, <2>2 DEF CloseSession, LetGo
<1>5. CASE ZoneReleased
  <2>1. PICK z \in Zone : \E ok \in Released({z}) : ReleaseZone(ok)
    BY <1>5 DEF ZoneReleased
  <2>2. PICK ok \in Released({z}) : ReleaseZone(ok)
    BY <2>1
  <2>3. ok \in SUBSET Zone
    BY <2>2, ReleasedSubset
  <2> QED
    BY <2>2, <2>3 DEF ReleaseZone, LetGo
<1>6. CASE IdentifyStarted
  <2>1. PICK c \in Caller, z \in Zone, o \in Outcomes : IdentifyStart(c, z, o)
    BY <1>6 DEF IdentifyStarted
  <2>2. {z} \in SUBSET Zone /\ 100 \in Int /\ [x \in Zone |-> o] \in [Zone -> Outcomes]
    OBVIOUS
  <2> QED
    BY <2>1, <2>2 DEF IdentifyStart, Written
<1>7. CASE IdentifyRestored
  <2>1. PICK c \in Caller, o \in Outcomes : IdentifyRestore(c, o)
    BY <1>7 DEF IdentifyRestored
  <2>2. ident[c] \in [zone : Zone, owned : BOOLEAN, prev : Pwm \cup {NoPwm}]
    BY <2>1 DEF IdentifyRestore, TypeOK, IdentCall
  <2>3. Pwm \cup {NoPwm} \subseteq Int
    BY DEF Pwm, PwmMax, NoPwm
  <2>4. /\ {ident[c].zone} \in SUBSET Zone
        /\ PwmToPct(ident[c].prev) \in Int
        /\ [x \in Zone |-> o] \in [Zone -> Outcomes]
    BY <2>2, <2>3, PwmToPctType
  <2> QED
    BY <2>1, <2>4 DEF IdentifyRestore, Written
<1>8. CASE IdentifyReleased
  <2>1. PICK c \in Caller :
           \E ok \in Released({ident[c].zone}) : IdentifyRelease(c, ok)
    BY <1>8 DEF IdentifyReleased
  <2>2. PICK ok \in Released({ident[c].zone}) : IdentifyRelease(c, ok)
    BY <2>1
  <2>3. ok \in SUBSET Zone
    BY <2>2, ReleasedSubset DEF IdentifyRelease, TypeOK, IdentCall
  <2> QED
    BY <2>2, <2>3 DEF IdentifyRelease, LetGo
<1>9. CASE ReadingsPolled
  BY <1>9 DEF ReadingsPolled, Polled
<1>10. CASE UNCHANGED vars
  BY <1>10 DEF vars, chanVars
<1> QED
  BY <1>1, <1>2, <1>3, <1>4, <1>5, <1>6, <1>7, <1>8, <1>9, <1>10 DEF Next

-----------------------------------------------------------------------------
(* The bookkeeping.                                                        *)

\* The driver's maps and the chip stay in step on every path.
THEOREM OwnershipCorrect == Spec => []OwnershipConsistent
<1>1. Init => OwnershipConsistent
  BY DEF Init, OwnershipConsistent
<1>2. TypeOK /\ OwnershipConsistent /\ [Next]_vars => OwnershipConsistent'
  <2> SUFFICES ASSUME TypeOK, OwnershipConsistent, [Next]_vars
               PROVE  OwnershipConsistent'
    OBVIOUS
  <2>1. CASE Written
    <3>1. PICK S \in SUBSET Zone, p \in Int, out \in [Zone -> Outcomes] :
             SetChannels(S, p, out)
      BY <2>1 DEF Written
    <3>2. PctToPwm(p) # NoPwm
      BY PctToPwmType DEF Pwm, PwmMax, NoPwm
    <3> QED
      BY <3>1, <3>2 DEF SetChannels, OwnershipConsistent, TypeOK
  <2>2. CASE LetGo
    BY <2>2 DEF LetGo, ReleaseChannels, OwnershipConsistent, TypeOK
  <2>3. CASE Polled
    BY <2>3 DEF Polled, GetFanReadings, OwnershipConsistent, TypeOK
  <2>4. CASE GraceElapsed
    BY <2>4 DEF GraceElapsed, Settle, OwnershipConsistent, TypeOK
  <2>5. CASE FirmwareWrote
    BY <2>5 DEF FirmwareWrote, FirmwareWrites, OwnershipConsistent
  <2>6. CASE Restarted
    BY <2>6 DEF Restarted, Restart, OwnershipConsistent
  <2>7. CASE UNCHANGED <<chanVars, origEnable>>
    BY <2>7 DEF chanVars, OwnershipConsistent
  <2> QED
    BY <2>1, <2>2, <2>3, <2>4, <2>5, <2>6, <2>7, StepShape
<1> QED
  BY <1>1, <1>2, TypeCorrect, PTL DEF Spec

\* Without failing duty writes, manual mode is never left behind on a channel
\* the driver does not own, for every history of the driver.
THEOREM NothingLeftManualCorrect == Spec => []NothingLeftManual
<1>1. Init => NothingLeftManual
  BY DEF Init, NothingLeftManual
<1>2. TypeOK /\ OwnershipConsistent /\ NothingLeftManual /\ [Next]_vars
         => NothingLeftManual'
  <2> SUFFICES ASSUME TypeOK, OwnershipConsistent, NothingLeftManual, [Next]_vars,
                      "pwm_fails" \notin Env
               PROVE  \A z \in Zone : enable'[z] = "manual" /\ z \notin touched'
                                          => origEnable'[z] = "manual"
    BY DEF NothingLeftManual
  <2>1. CASE Written
    <3>1. PICK S \in SUBSET Zone, p \in Int, out \in [Zone -> Outcomes] :
             SetChannels(S, p, out) /\ UNCHANGED origEnable
      BY <2>1 DEF Written
    <3>2. \A z \in Zone : out[z] \in {"ok", "enable"}
      BY DEF Outcomes
    <3> QED
      BY <3>1, <3>2 DEF SetChannels, NothingLeftManual
  <2>2. CASE LetGo
    BY <2>2, ReleaseModeType DEF LetGo, ReleaseChannels, NothingLeftManual
  <2>3. CASE Polled
    BY <2>3 DEF Polled, GetFanReadings, NothingLeftManual
  <2>4. CASE GraceElapsed
    BY <2>4 DEF GraceElapsed, Settle, NothingLeftManual
  <2>5. CASE FirmwareWrote
    BY <2>5 DEF FirmwareWrote, FirmwareWrites, NothingLeftManual
  <2>6. CASE Restarted
    BY <2>6 DEF Restarted, Restart, NothingLeftManual
  <2>7. CASE UNCHANGED <<chanVars, origEnable>>
    BY <2>7 DEF chanVars, NothingLeftManual
  <2> QED
    BY <2>1, <2>2, <2>3, <2>4, <2>5, <2>6, <2>7, StepShape
<1> QED
  BY <1>1, <1>2, TypeCorrect, OwnershipCorrect, PTL DEF Spec

-----------------------------------------------------------------------------
(* The readback check.                                                     *)

\* A duty nobody but the driver touched still reads back as written.
ReadsBack == \A z \in Zone : commanded[z] # NoPwm /\ z \notin drifted
                                  => pwm[z] = commanded[z]

\* Only a real change by the firmware is counted against it.
THEOREM NoFalseAlarmCorrect == Spec => []NoFalseAlarm
<1> DEFINE Inv == ReadsBack /\ NoFalseAlarm
<1>1. Init => Inv
  BY DEF Init, ReadsBack, NoFalseAlarm
<1>2. TypeOK /\ Inv /\ [Next]_vars => Inv'
  <2> SUFFICES ASSUME TypeOK, ReadsBack, NoFalseAlarm, [Next]_vars
               PROVE  ReadsBack' /\ NoFalseAlarm'
    OBVIOUS
  <2> USE DEF ReadsBack, NoFalseAlarm
  <2>1. CASE Written
    BY <2>1 DEF Written, SetChannels, TypeOK
  <2>2. CASE LetGo
    BY <2>2 DEF LetGo, ReleaseChannels, TypeOK
  <2>3. CASE Polled
    <3>1. PICK u : GetFanReadings(u)
      BY <2>3 DEF Polled
    <3>2. ReadsBack'
      BY <3>1 DEF GetFanReadings
    <3>3. ASSUME NEW z \in Zone, mismatch'[z] > 0 PROVE z \in drifted'
      <4>1. drifted' = drifted
        BY <3>1 DEF GetFanReadings
      <4>2. CASE mismatch'[z] = mismatch[z]
        BY <3>3, <4>1, <4>2
      <4>3. CASE mismatch'[z] # mismatch[z]
        <5>1. commanded[z] # NoPwm /\ Disagrees(z)
          BY <3>1, <3>3, <4>3 DEF GetFanReadings
        <5>2. pwm[z] \in Int /\ commanded[z] \in Int
          BY DEF TypeOK, Pwm, PwmMax, NoPwm
        <5>3. pwm[z] # commanded[z]
          BY <5>1, <5>2 DEF Disagrees, ReadbackTolerance
        <5> QED
          BY <4>1, <5>1, <5>3
      <4> QED
        BY <4>2, <4>3
    <3> QED
      BY <3>2, <3>3
  <2>4. CASE GraceElapsed
    BY <2>4 DEF GraceElapsed, Settle
  <2>5. CASE FirmwareWrote
    BY <2>5 DEF FirmwareWrote, FirmwareWrites, TypeOK
  <2>6. CASE Restarted
    BY <2>6 DEF Restarted, Restart
  <2>7. CASE UNCHANGED <<chanVars, origEnable>>
    BY <2>7 DEF chanVars
  <2> QED
    BY <2>1, <2>2, <2>3, <2>4, <2>5, <2>6, <2>7, StepShape
<1> QED
  BY <1>1, <1>2, TypeCorrect, PTL DEF Spec

-----------------------------------------------------------------------------
(* Handing back.                                                           *)

\* A channel the running driver lets go of always ends in an automatic mode.
THEOREM ReleaseCorrect == Spec => ReleaseReachesFirmware
<1>1. TypeOK /\ [Next]_vars =>
        [Restarted \/ \A z \in touched \ touched' : enable'[z] = "auto"]_vars
  <2> SUFFICES ASSUME TypeOK, [Next]_vars, ~Restarted,
                      NEW z \in touched \ touched'
               PROVE  enable'[z] = "auto"
    OBVIOUS
  <2>1. CASE Written
    BY <2>1 DEF Written, SetChannels
  <2>2. CASE LetGo
    BY <2>2, ReleaseModeType DEF LetGo, ReleaseChannels, TypeOK
  <2>3. CASE Polled \/ GraceElapsed \/ FirmwareWrote
    BY <2>3 DEF Polled, GetFanReadings, GraceElapsed, Settle, FirmwareWrote,
                FirmwareWrites
  <2>4. CASE UNCHANGED <<chanVars, origEnable>>
    BY <2>4 DEF chanVars
  <2> QED
    BY <2>1, <2>2, <2>3, <2>4, StepShape
<1> QED
  BY <1>1, TypeCorrect, PTL DEF Spec, ReleaseReachesFirmware
=============================================================================
