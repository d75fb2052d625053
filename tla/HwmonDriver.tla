----------------------------- MODULE HwmonDriver -----------------------------
(***************************************************************************)
(* The hwmon fan driver (drivers/hwmon.go): the PWM channels of the bound  *)
(* Super-I/O chips, which of them the driver has taken from the firmware,  *)
(* and the readback check that notices a firmware taking one back.         *)
(*                                                                         *)
(* Every method of the driver runs under its mutex, so each is one action; *)
(* IdentifyZone gives the mutex up while the fan spins, so it is two.  A   *)
(* zone stands for one channel of one chip: the chip, the channel number   *)
(* and the sysfs paths are left out.                                       *)
(***************************************************************************)
EXTENDS Integers

CONSTANTS
    Zone,      \* the channels present, by zone ID
    Percent,   \* the duties callers ask for, in percent
    Caller,    \* the background goroutines that run IdentifyZone
    BootMode,  \* the pwmN_enable values a channel may have at first discovery
    FirmwarePwm, \* the raw duties the firmware writes by itself
    Env        \* what the environment does in this instance, see EnvEvents

(***************************************************************************)
(* Operations callers use and things that happen to the driver.  A run     *)
(* names the ones it admits; the actions themselves never change.          *)
(***************************************************************************)
EnvEvents == {"set", "set_all", "session", "release", "identify",
              "enable_fails", "pwm_fails", "release_fails",
              "firmware", "unreadable", "restart"}

\* pwmN_enable: "full" is 0, "manual" is 1, "auto" any firmware mode.
EnableMode == {"full", "manual", "auto"}
PwmMax == 255
Pwm == 0..PwmMax
ReadbackTolerance == 2
OverrideAfter == 3
NoPwm == -1
Idle == [zone |-> "none", owned |-> FALSE, prev |-> NoPwm]

ASSUME DriverAssumption ==
    /\ Percent \subseteq 0..100
    /\ 100 \in Percent
    /\ BootMode \subseteq EnableMode
    /\ FirmwarePwm \subseteq Pwm
    /\ Env \subseteq EnvEvents
    /\ "none" \notin Zone

VARIABLES
    enable,     \* pwmN_enable of each channel, as the kernel reports it
    pwm,        \* pwmN of each channel, as the kernel reports it
    origEnable, \* pwmN_enable seen at first discovery
    touched,    \* channels this driver switched to manual
    commanded,  \* raw duty last written, NoPwm when none
    settled,    \* channels written at least overrideGrace ago
    mismatch,   \* consecutive readbacks that disagreed, up to OverrideAfter
    manualMode, \* a control session is open
    ident,      \* each identify call: idle, or what it found before spinning
    drifted     \* history: channels whose duty the firmware changed since the
                \* driver last wrote it

chanVars == <<enable, pwm, touched, commanded, settled, mismatch, drifted>>
vars == <<enable, pwm, origEnable, touched, commanded, settled, mismatch,
          manualMode, ident, drifted>>

-----------------------------------------------------------------------------
(* Duty conversions: integer percent to raw duty and back, rounded to the  *)
(* nearest, out-of-range values clamped.                                   *)

Clamp(x, lo, hi) == IF x < lo THEN lo ELSE IF x > hi THEN hi ELSE x

\* Faulty: scales to 256 steps.
PctToPwmWide(p) == (Clamp(p, 0, 100) * 256 + 50) \div 100

PctToPwm(p) == (Clamp(p, 0, 100) * PwmMax + 50) \div 100

PwmToPct(w) == (Clamp(w, 0, PwmMax) * 100 + PwmMax \div 2) \div PwmMax

-----------------------------------------------------------------------------
(* Writes.  The outcome of a setChannel is "ok", "enable" (the write that  *)
(* takes manual control fails, nothing changes) or "pwm" (the channel is   *)
(* manual but the duty write fails, so the driver records nothing).        *)

Outcomes == {"ok"} \cup (IF "enable_fails" \in Env THEN {"enable"} ELSE {})
                   \cup (IF "pwm_fails" \in Env THEN {"pwm"} ELSE {})

\* The enable attribute is only written on a channel that is not manual yet.
Possible(z, o) == o = "enable" => enable[z] # "manual"

\* Faulty: a failure on one channel makes the driver forget the others.
SetChannelsAllOrNone(S, p, out) ==
    LET done == {z \in S : out[z] = "ok"}
        kept == IF done = S THEN S ELSE {}
    IN  /\ \A z \in S : Possible(z, out[z])
        /\ enable' = [z \in Zone |-> IF z \in S /\ out[z] # "enable"
                                     THEN "manual" ELSE enable[z]]
        /\ pwm' = [z \in Zone |-> IF z \in done THEN PctToPwm(p) ELSE pwm[z]]
        /\ touched' = touched \cup kept
        /\ commanded' = [z \in Zone |-> IF z \in kept THEN PctToPwm(p)
                                        ELSE commanded[z]]
        /\ settled' = settled \ done
        /\ drifted' = drifted \ done
        /\ mismatch' = [z \in Zone |-> IF z \in done THEN 0 ELSE mismatch[z]]

SetChannels(S, p, out) ==
    LET done == {z \in S : out[z] = "ok"}
    IN  /\ \A z \in S : Possible(z, out[z])
        /\ enable' = [z \in Zone |-> IF z \in S /\ out[z] # "enable"
                                     THEN "manual" ELSE enable[z]]
        /\ pwm' = [z \in Zone |-> IF z \in done THEN PctToPwm(p) ELSE pwm[z]]
        /\ touched' = touched \cup done
        /\ commanded' = [z \in Zone |-> IF z \in done THEN PctToPwm(p)
                                        ELSE commanded[z]]
        /\ settled' = settled \ done
        /\ drifted' = drifted \ done
        /\ mismatch' = [z \in Zone |-> IF z \in done THEN 0 ELSE mismatch[z]]

\* Faulty: always puts back what was found, a manual mode included.
ReleaseModeAsFound(z) == origEnable[z]

\* What release() writes: the value seen at discovery, or the chip family's
\* automatic mode when that value was itself manual, full speed or unknown.
ReleaseMode(z) == IF origEnable[z] \in {"manual", "full"} THEN "auto"
                  ELSE origEnable[z]

\* Faulty: the readback counter of the channel survives its release.
ReleaseChannelsKeepsCount(ok) ==
    /\ enable' = [z \in Zone |-> IF z \in ok THEN ReleaseMode(z) ELSE enable[z]]
    /\ touched' = touched \ ok
    /\ commanded' = [z \in Zone |-> IF z \in ok THEN NoPwm ELSE commanded[z]]
    /\ settled' = settled \ ok
    /\ UNCHANGED <<pwm, mismatch, drifted>>

\* The channels of ok are those on which the release write succeeds.
ReleaseChannels(ok) ==
    /\ enable' = [z \in Zone |-> IF z \in ok THEN ReleaseMode(z) ELSE enable[z]]
    /\ touched' = touched \ ok
    /\ commanded' = [z \in Zone |-> IF z \in ok THEN NoPwm ELSE commanded[z]]
    /\ settled' = settled \ ok
    /\ mismatch' = [z \in Zone |-> IF z \in ok THEN 0 ELSE mismatch[z]]
    /\ UNCHANGED <<pwm, drifted>>

\* The subsets of S on which the release writes may succeed.
Released(S) == IF "release_fails" \in Env THEN SUBSET S ELSE {S}

-----------------------------------------------------------------------------
(* The driver's methods.                                                   *)

SetFanSpeed(z, p, o) ==
    /\ SetChannels({z}, p, [x \in Zone |-> o])
    /\ manualMode' = (manualMode \/ o = "ok")
    /\ UNCHANGED <<origEnable, ident>>

\* Goes on to the next channel after a failure; the first error is returned.
SetAllFanSpeeds(p, out) ==
    /\ SetChannels(Zone, p, out)
    /\ manualMode' = (manualMode \/ \A z \in Zone : out[z] = "ok")
    /\ UNCHANGED <<origEnable, ident>>

\* SetManualMode(true) opens the session and touches no channel.
OpenSession ==
    /\ manualMode' = TRUE
    /\ UNCHANGED <<chanVars, origEnable, ident>>

\* SetManualMode(false) releases every touched channel; the session stays
\* open when a release failed.
CloseSession(ok) ==
    /\ ReleaseChannels(ok)
    /\ manualMode' = (manualMode /\ ok # touched)
    /\ UNCHANGED <<origEnable, ident>>

ReleaseZone(ok) ==
    /\ ReleaseChannels(ok)
    /\ UNCHANGED <<origEnable, manualMode, ident>>

\* First half of IdentifyZone: remember what was commanded, spin at 100 %.
IdentifyStart(c, z, o) ==
    /\ ident[c] = Idle
    /\ SetChannels({z}, 100, [x \in Zone |-> o])
    /\ ident' = IF o = "ok"
                THEN [ident EXCEPT ![c] = [zone |-> z,
                                           owned |-> commanded[z] # NoPwm,
                                           prev |-> commanded[z]]]
                ELSE ident
    /\ UNCHANGED <<origEnable, manualMode>>

\* Second half, after the wait: the remembered duty is written back when the
\* channel was owned, otherwise the channel is released.
IdentifyRestore(c, o) ==
    /\ ident[c] # Idle /\ ident[c].owned
    /\ SetChannels({ident[c].zone}, PwmToPct(ident[c].prev), [x \in Zone |-> o])
    /\ ident' = [ident EXCEPT ![c] = Idle]
    /\ UNCHANGED <<origEnable, manualMode>>

IdentifyRelease(c, ok) ==
    /\ ident[c] # Idle /\ ~ident[c].owned
    /\ ReleaseChannels(ok)
    /\ ident' = [ident EXCEPT ![c] = Idle]
    /\ UNCHANGED <<origEnable, manualMode>>

\* Faulty: compares the raw duty with the percentage.
DisagreesInPercent(z) == \/ pwm[z] - PwmToPct(commanded[z]) > ReadbackTolerance
                         \/ PwmToPct(commanded[z]) - pwm[z] > ReadbackTolerance

\* checkReadback of one channel.
Disagrees(z) == \/ pwm[z] - commanded[z] > ReadbackTolerance
                \/ commanded[z] - pwm[z] > ReadbackTolerance

\* Faulty: notes a disagreement without counting them.
GetFanReadingsNoCount(unreadable) ==
    /\ mismatch' = [z \in Zone |->
           IF commanded[z] = NoPwm \/ z \notin settled \/ z \in unreadable
           THEN mismatch[z]
           ELSE IF Disagrees(z) THEN 1 ELSE 0]
    /\ UNCHANGED <<enable, pwm, origEnable, touched, commanded, settled,
                   manualMode, ident, drifted>>

\* GetFanReadings checks every owned channel it can read once the grace
\* period is over.
GetFanReadings(unreadable) ==
    /\ mismatch' = [z \in Zone |->
           IF commanded[z] = NoPwm \/ z \notin settled \/ z \in unreadable
           THEN mismatch[z]
           ELSE IF ~Disagrees(z) THEN 0
           ELSE IF mismatch[z] < OverrideAfter THEN mismatch[z] + 1
           ELSE mismatch[z]]
    /\ UNCHANGED <<enable, pwm, origEnable, touched, commanded, settled,
                   manualMode, ident, drifted>>

\* DriverWarnings: the channels reported as overridden by the firmware.
Warned == {z \in Zone : mismatch[z] >= OverrideAfter}

-----------------------------------------------------------------------------
(* What happens to the driver.                                             *)

\* overrideGrace has passed since the channel was written.
Settle(z) ==
    /\ commanded[z] # NoPwm /\ z \notin settled
    /\ settled' = settled \cup {z}
    /\ UNCHANGED <<enable, pwm, origEnable, touched, commanded, mismatch,
                   manualMode, ident, drifted>>

\* The firmware changes a duty: its own curve, or an override of a write.
FirmwareWrites(z, w) ==
    /\ pwm[z] # w
    /\ pwm' = [pwm EXCEPT ![z] = w]
    /\ drifted' = drifted \cup {z}
    /\ UNCHANGED <<enable, origEnable, touched, commanded, settled, mismatch,
                   manualMode, ident>>

\* The process is killed and started again: the chip keeps its registers, the
\* new driver knows nothing and takes what it finds for the original mode.
Restart ==
    /\ origEnable' = enable
    /\ touched' = {}
    /\ commanded' = [z \in Zone |-> NoPwm]
    /\ settled' = {}
    /\ mismatch' = [z \in Zone |-> 0]
    /\ manualMode' = FALSE
    /\ ident' = [c \in Caller |-> Idle]
    /\ UNCHANGED <<enable, pwm, drifted>>

-----------------------------------------------------------------------------
Init ==
    /\ enable \in [Zone -> BootMode]
    /\ origEnable = enable
    /\ pwm = [z \in Zone |-> 0]
    /\ touched = {}
    /\ commanded = [z \in Zone |-> NoPwm]
    /\ settled = {}
    /\ mismatch = [z \in Zone |-> 0]
    /\ manualMode = FALSE
    /\ ident = [c \in Caller |-> Idle]
    /\ drifted = {}

SetFanSpeedCalled ==
    /\ "set" \in Env
    /\ \E z \in Zone, p \in Percent, o \in Outcomes : SetFanSpeed(z, p, o)

SetAllFanSpeedsCalled ==
    /\ "set_all" \in Env
    /\ \E p \in Percent, out \in [Zone -> Outcomes] : SetAllFanSpeeds(p, out)

SessionOpened == "session" \in Env /\ OpenSession

SessionClosed == "session" \in Env /\ \E ok \in Released(touched) : CloseSession(ok)

ZoneReleased ==
    /\ "release" \in Env
    /\ \E z \in Zone : \E ok \in Released({z}) : ReleaseZone(ok)

IdentifyStarted ==
    /\ "identify" \in Env
    /\ \E c \in Caller, z \in Zone, o \in Outcomes : IdentifyStart(c, z, o)

IdentifyRestored == \E c \in Caller, o \in Outcomes : IdentifyRestore(c, o)

IdentifyReleased ==
    \E c \in Caller : \E ok \in Released({ident[c].zone}) : IdentifyRelease(c, ok)

ReadingsPolled ==
    \E u \in IF "unreadable" \in Env THEN SUBSET Zone ELSE {{}} : GetFanReadings(u)

GraceElapsed == \E z \in Zone : Settle(z)

FirmwareWrote ==
    "firmware" \in Env /\ \E z \in Zone, w \in FirmwarePwm : FirmwareWrites(z, w)

Restarted == "restart" \in Env /\ Restart

Next ==
    \/ SetFanSpeedCalled
    \/ SetAllFanSpeedsCalled
    \/ SessionOpened
    \/ SessionClosed
    \/ ZoneReleased
    \/ IdentifyStarted
    \/ IdentifyRestored
    \/ IdentifyReleased
    \/ ReadingsPolled
    \/ GraceElapsed
    \/ FirmwareWrote
    \/ Restarted

Spec == Init /\ [][Next]_vars

\* The websocket and the monitoring endpoint poll the readings for as long as
\* a dashboard is open, a poll that can read the channels comes again and
\* again, and time passes.
FairSpec == Spec /\ WF_vars(GetFanReadings({}))
                 /\ \A z \in Zone : WF_vars(Settle(z))

-----------------------------------------------------------------------------
(* Properties.                                                             *)

IdentCall == {Idle} \cup
                [zone : Zone, owned : BOOLEAN, prev : Pwm \cup {NoPwm}]

\* The driver's maps, flags and identify calls have the values their Go types
\* and code allow.
TypeOK ==
    /\ enable \in [Zone -> EnableMode]
    /\ pwm \in [Zone -> Pwm]
    /\ origEnable \in [Zone -> EnableMode]
    /\ touched \subseteq Zone
    /\ commanded \in [Zone -> Pwm \cup {NoPwm}]
    /\ settled \subseteq Zone
    /\ mismatch \in [Zone -> 0..OverrideAfter]
    /\ manualMode \in BOOLEAN
    /\ ident \in [Caller -> IdentCall]
    /\ drifted \subseteq Zone

\* The bookkeeping agrees with itself and with the chip: the channels marked
\* touched are the ones with a commanded duty, they are in manual mode, and
\* only they are under readback (setChannel, release and SetManualMode(false)
\* keep four maps and the chip in step on every error path).
OwnershipConsistent ==
    /\ touched = {z \in Zone : commanded[z] # NoPwm}
    /\ \A z \in touched : enable[z] = "manual"
    /\ settled \subseteq touched
    /\ \A z \in Zone : mismatch[z] > 0 => z \in settled

\* As long as no duty write fails after manual control was taken, a channel
\* the driver does not own is never left in manual mode, unless it was found
\* that way: whatever mix of writes, releases, identifications, failed
\* releases and restarts happened (hwmon.go:39-44).
NothingLeftManual ==
    "pwm_fails" \notin Env =>
        \A z \in Zone : enable[z] = "manual" /\ z \notin touched
                            => origEnable[z] = "manual"

\* Only a channel whose duty the firmware did change since it was last written
\* is ever counted as overridden: no order of writes, identifications, failed
\* releases and polls raises a false alarm ("Empty when everything we command
\* sticks", hwmon.go:707-708).
NoFalseAlarm == \A z \in Zone : mismatch[z] > 0 => z \in drifted

\* Whenever the driver lets go of a channel while it runs, the channel is left
\* in an automatic mode, also when it was found in manual or at full speed: a
\* channel is never handed back to nobody (release, hwmon.go:409-425).
ReleaseReachesFirmware ==
    [][Restarted \/ \A z \in touched \ touched' : enable'[z] = "auto"]_vars

\* A duty the firmware overrides for good is reported: while the dashboard
\* polls, the mismatch counter reaches the warning threshold or the duty
\* agrees again (checkReadback, DriverWarnings).
OverrideReported ==
    \A z \in Zone : (commanded[z] # NoPwm /\ Disagrees(z))
                       ~> (z \in Warned \/ commanded[z] = NoPwm \/ ~Disagrees(z))
=============================================================================
