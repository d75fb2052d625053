----------------------------- MODULE Arbitration -----------------------------
(***************************************************************************)
(* The arbitration loop of controlCycle: the active profiles are taken in  *)
(* descending priority, each computes a duty and claims, takes over, raises*)
(* or leaves alone every zone it lists.  sort.Slice is not stable, so      *)
(* profiles of one priority come in any order.  The loop is shown to leave *)
(* in its three maps what ControlPolicy's Target and TopClaimants say.     *)
(***************************************************************************)
EXTENDS ControlPolicy

CONSTANTS
    Profile,  \* the active profiles of the cycle
    Zone,     \* the zones they may list
    Priority, \* the priorities they may have
    Duty      \* the duties they may compute

ASSUME ArbitrationAssumption ==
    /\ Priority \subseteq Int
    /\ Duty \subseteq Nat
    /\ IsFiniteSet(Profile)

VARIABLES
    config,  \* what the cycle loaded: each profile's priority and zones
    duty,    \* the duty each profile computes
    done,    \* the profiles the loop has been through
    claims   \* zoneTargets, zoneControllingProfile, zoneControllingPriority

vars == <<config, duty, done, claims>>

Free == [target |-> Unset, owner |-> "none", priority |-> 0]
IsFree(claim) == claim.target = Unset

Claim(p) == [target |-> duty[p], owner |-> p, priority |-> config[p].priority]

\* Faulty: a free zone gets a duty and no controlling profile.
ClaimedUnowned(claim, p) ==
    IF IsFree(claim) THEN [claim EXCEPT !.target = duty[p]]
    ELSE IF config[p].priority > claim.priority THEN Claim(p) ELSE claim

\* Faulty: among equals the last profile wins, not the highest duty.
ClaimedLast(claim, p) ==
    IF IsFree(claim) \/ config[p].priority > claim.priority THEN Claim(p)
    ELSE IF config[p].priority = claim.priority
         THEN [claim EXCEPT !.target = duty[p]]
    ELSE claim

\* Faulty: an outranked profile still raises the duty and takes the zone.
ClaimedByHighest(claim, p) ==
    IF IsFree(claim) \/ duty[p] > claim.target THEN Claim(p) ELSE claim

\* A zone's claim after profile p listed it: free zones and zones of a lower
\* priority are taken; at equal priority only the duty is raised, the zone
\* keeps its controlling profile.
Claimed(claim, p) ==
    IF IsFree(claim) \/ config[p].priority > claim.priority THEN Claim(p)
    ELSE IF config[p].priority = claim.priority /\ duty[p] > claim.target
         THEN [claim EXCEPT !.target = duty[p]]
    ELSE claim

Init ==
    /\ config \in [Profile -> [priority : Priority, zones : SUBSET Zone]]
    /\ duty \in [Profile -> Duty]
    /\ done = {}
    /\ claims = [z \in Zone |-> Free]

\* One iteration of the loop over the sorted profiles.
Take(p) ==
    /\ p \notin done
    /\ \A q \in Profile \ done : config[q].priority <= config[p].priority
    /\ done' = done \cup {p}
    /\ claims' = [z \in Zone |-> IF z \in config[p].zones
                                 THEN Claimed(claims[z], p) ELSE claims[z]]
    /\ UNCHANGED <<config, duty>>

Next == \E p \in Profile : Take(p)

Spec == Init /\ [][Next]_vars

-----------------------------------------------------------------------------
ClaimType == [target : Duty, owner : Profile, priority : Priority]

\* The loop's maps hold duties of the profiles and profiles of the cycle.
TypeOK ==
    /\ config \in [Profile -> [priority : Priority, zones : SUBSET Zone]]
    /\ duty \in [Profile -> Duty]
    /\ done \subseteq Profile
    /\ claims \in [Zone -> {Free} \cup ClaimType]

\* After any part of the loop, a zone's target is the highest duty among the
\* highest-priority profiles that listed it so far, however equal priorities
\* were ordered ("the higher priority wins; ties go to the higher speed, for
\* safety", README.md:73-74), and zones nobody listed have none.
TargetsAreBest ==
    \A z \in Zone :
        IF Claimants(config, done, z) = {} THEN claims[z] = Free
        ELSE claims[z].target = Target(config, done, duty, z)

\* The profile whose minimum run time and transition govern a zone is one of
\* the highest-priority profiles that listed it.
OwnerIsTop ==
    \A z \in Zone :
        Claimants(config, done, z) # {} =>
            claims[z].owner \in TopClaimants(config, done, z)
=============================================================================
