---------------------------- MODULE ControlPolicy ----------------------------
(***************************************************************************)
(* The decisions of one control cycle, as functions of what the cycle read *)
(* (services/controller.go, controlCycle): which profile controls a zone   *)
(* and at what duty, and what is sent to a zone given what was sent last.  *)
(* A profile's configuration is a record with the fields                   *)
(*   priority, zones, usesTemp, minRun, transition, smooth                 *)
(* where times count the beats of the clock of the modules that use it.    *)
(***************************************************************************)
EXTENDS Integers, FiniteSetsExt

Unset == -1      \* a key missing from lastSpeeds or zoneTargetSpeeds
Never == -1      \* a zero zoneLastChanged
SendThreshold == 5

-----------------------------------------------------------------------------
(* Arbitration: the highest priority wins, ties go to the higher duty.     *)

\* The profiles of S that list zone z.
Claimants(config, S, z) == {p \in S : z \in config[p].zones}

\* Those of them that no other claimant outranks.
TopClaimants(config, S, z) ==
    {p \in Claimants(config, S, z) :
        \A q \in Claimants(config, S, z) : config[q].priority <= config[p].priority}

\* The duty of zone z when the profiles of S computed the duties duty.
Target(config, S, duty, z) == Max({duty[p] : p \in TopClaimants(config, S, z)})

-----------------------------------------------------------------------------
(* What is sent to a zone.                                                 *)

\* A key missing from a Go map reads as zero.
Stored(x) == IF x = Unset THEN 0 ELSE x

\* Faulty: holds once the minimum run time is over instead of before.
HeldAfter(prof, age) == age # Never /\ age >= prof.minRun

\* Minimum run time: the last change is too recent.
Held(prof, age) == age # Never /\ age < prof.minRun

\* Faulty: goes on past the target when the transition is over.
SmoothedUncapped(last, target, age, transition) ==
    (last * transition + (target - last) * age) \div transition

\* The duty on the way from last to target after age beats.
Smoothed(last, target, age, transition) ==
    (last * transition
        + (target - last) * (IF age < transition THEN age ELSE transition))
    \div transition

\* The duty to send for a target, skipping the transition on the first one.
Final(prof, target, last, lastTarget, age) ==
    IF prof.smooth /\ Stored(lastTarget) # target /\ age # Never
    THEN Smoothed(Stored(last), target, age, prof.transition)
    ELSE target

\* Only changes of at least SendThreshold are sent.
Significant(final, last) ==
    \/ final - Stored(last) >= SendThreshold
    \/ Stored(last) - final >= SendThreshold
=============================================================================
