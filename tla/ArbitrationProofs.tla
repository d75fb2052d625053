-------------------------- MODULE ArbitrationProofs --------------------------
(***************************************************************************)
(* Proofs about the arbitration loop, for any profiles, priorities, duties *)
(* and zones, and for any order the sort may produce.                      *)
(***************************************************************************)
EXTENDS Arbitration, TLAPS

(***************************************************************************)
(* The invariant that carries the proof says of a claimed zone, zone by    *)
(* zone, what a step needs to know of the three maps: the recorded owner is*)
(* a top claimant, the recorded priority is the owner's, and the target is *)
(* the duty of some top claimant and no less than that of any.             *)
(***************************************************************************)
ClaimOK(z) ==
    LET C == Claimants(config, done, z)
        T == TopClaimants(config, done, z)
    IN  /\ C = {} => claims[z] = Free
        /\ C # {} =>
              /\ claims[z].owner \in T
              /\ claims[z].priority = config[claims[z].owner].priority
              /\ \E p \in T : claims[z].target = duty[p]
              /\ \A p \in T : duty[p] <= claims[z].target

IInv == TypeOK /\ \A z \in Zone : ClaimOK(z)

\* A number of a set that no other exceeds is the set's maximum.
LEMMA MaxIsTop ==
    ASSUME NEW S \in SUBSET Int, NEW m \in S, \A x \in S : x <= m
    PROVE  Max(S) = m
<1>1. \A k \in S : (\A x \in S : x <= k) => k = m
  OBVIOUS
<1>. QED
  BY <1>1 DEF Max

\* What the proofs need of the types: priorities and duties are numbers, and
\* claimants are profiles the loop has been through.
LEMMA Numbers ==
    ASSUME TypeOK
    PROVE  /\ \A q \in Profile : config[q].priority \in Int
           /\ \A q \in Profile : duty[q] \in Int
           /\ \A z : Claimants(config, done, z) \subseteq Profile
           /\ \A z : TopClaimants(config, done, z) \subseteq Claimants(config, done, z)
<1>1. \A q \in Profile : config[q].priority \in Priority
  BY DEF TypeOK
<1>2. \A q \in Profile : duty[q] \in Duty
  BY DEF TypeOK
<1>3. Priority \subseteq Int /\ Duty \subseteq Int
  BY ArbitrationAssumption DEF ArbitrationAssumption
<1>4. \A z : Claimants(config, done, z) \subseteq done
  BY DEF Claimants
<1>5. done \subseteq Profile
  BY DEF TypeOK
<1>6. \A z : TopClaimants(config, done, z) \subseteq Claimants(config, done, z)
  BY DEF TopClaimants
<1>. QED
  BY <1>1, <1>2, <1>3, <1>4, <1>5, <1>6

\* Taking a profile adds it to the claimants of the zones it lists, and to no
\* other zone's.
LEMMA ClaimantsGrow ==
    ASSUME NEW S \in SUBSET Profile, NEW p \in Profile, NEW z
    PROVE  Claimants(config, S \cup {p}, z)
               = IF z \in config[p].zones THEN Claimants(config, S, z) \cup {p}
                 ELSE Claimants(config, S, z)
BY DEF Claimants

\* One profile on one claim keeps the type of the claim.
LEMMA ClaimedType ==
    ASSUME TypeOK, NEW p \in Profile, NEW claim \in {Free} \cup ClaimType
    PROVE  Claimed(claim, p) \in ClaimType
<1>1. Claim(p) \in ClaimType
  BY DEF TypeOK, Claim, ClaimType
<1>2. CASE IsFree(claim) \/ config[p].priority > claim.priority
  BY <1>1, <1>2 DEF Claimed
<1>3. CASE ~(IsFree(claim) \/ config[p].priority > claim.priority)
  <2>1. claim \in ClaimType
    BY <1>3 DEF IsFree, Free
  <2>2. [claim EXCEPT !.target = duty[p]] \in ClaimType
    BY <2>1 DEF TypeOK, ClaimType
  <2>. QED
    BY <1>3, <2>1, <2>2 DEF Claimed
<1>. QED
  BY <1>2, <1>3

LEMMA TypeStep == TypeOK /\ [Next]_vars => TypeOK'
<1>. SUFFICES ASSUME TypeOK, [Next]_vars PROVE TypeOK'
  OBVIOUS
<1>1. CASE UNCHANGED vars
  BY <1>1 DEF TypeOK, vars
<1>2. ASSUME NEW p \in Profile, Take(p) PROVE TypeOK'
  <2>1. (claims \in [Zone -> {Free} \cup ClaimType])'
    BY <1>2, ClaimedType DEF TypeOK, Take
  <2>. QED
    BY <1>2, <2>1 DEF TypeOK, Take
<1>. QED
  BY <1>1, <1>2 DEF Next

\* A step leaves the claim of every zone right.  The sets of claimants and of
\* top claimants, before and after the step, are named and then opaque.
LEMMA ClaimStep ==
    ASSUME IInv, NEW p \in Profile, Take(p), NEW z \in Zone
    PROVE  ClaimOK(z)'
<1>. DEFINE C == Claimants(config, done, z)
            T == TopClaimants(config, done, z)
            C1 == Claimants(config, done \cup {p}, z)
            T1 == TopClaimants(config, done \cup {p}, z)
            o == claims[z].owner
<1>1. claims'[z] = IF z \in config[p].zones THEN Claimed(claims[z], p)
                   ELSE claims[z]
  BY DEF Take
<1>2. \A q \in Profile : config[q].priority \in Int
  BY Numbers DEF IInv
<1>3. \A q \in Profile : duty[q] \in Int
  BY Numbers DEF IInv
<1>4. C \subseteq Profile
  BY Numbers DEF IInv
<1>5. C1 = IF z \in config[p].zones THEN C \cup {p} ELSE C
  BY ClaimantsGrow DEF IInv, TypeOK
<1>6. T = {q \in C : \A x \in C : config[x].priority <= config[q].priority}
  BY DEF TopClaimants
<1>7. T1 = {q \in C1 : \A x \in C1 : config[x].priority <= config[q].priority}
  BY DEF TopClaimants
<1>8. /\ C = {} => claims[z] = Free
      /\ C # {} => /\ o \in T
                   /\ claims[z].priority = config[o].priority
                   /\ \E q \in T : claims[z].target = duty[q]
                   /\ \A q \in T : duty[q] <= claims[z].target
  BY DEF IInv, ClaimOK
<1>9. SUFFICES
        /\ C1 = {} => claims'[z] = Free
        /\ C1 # {} => /\ claims'[z].owner \in T1
                      /\ claims'[z].priority = config[claims'[z].owner].priority
                      /\ \E q \in T1 : claims'[z].target = duty[q]
                      /\ \A q \in T1 : duty[q] <= claims'[z].target
  BY DEF ClaimOK, Take
<1>. HIDE DEF C, T, C1, T1
<1>10. CASE z \notin config[p].zones
  BY <1>1, <1>5, <1>6, <1>7, <1>8, <1>10
<1>11. CASE z \in config[p].zones /\ C = {}
  <2>1. claims'[z] = Claim(p)
    BY <1>1, <1>8, <1>11 DEF Claimed, IsFree, Free
  <2>2. T1 = {p}
    BY <1>2, <1>5, <1>7, <1>11
  <2>3. C1 # {}
    BY <1>5, <1>11
  <2>. QED
    BY <1>3, <2>1, <2>2, <2>3 DEF Claim
<1>12. CASE z \in config[p].zones /\ C # {}
  <2>1. claims[z].target \in Int /\ claims[z].target # Unset
    <3>1. Duty \subseteq Nat
      BY ArbitrationAssumption DEF ArbitrationAssumption
    <3>2. PICK q \in T : claims[z].target = duty[q]
      BY <1>8, <1>12
    <3>3. q \in Profile
      BY <1>4, <1>6, <3>2
    <3>4. duty[q] \in Duty
      BY <3>3 DEF IInv, TypeOK
    <3>5. duty[q] \in Nat
      BY <3>1, <3>4
    <3>. QED
      BY <3>2, <3>5 DEF Unset
  <2>2. claims[z] \in ClaimType
    BY <2>1 DEF IInv, TypeOK, Free
  <2>3. o \in C /\ config[o].priority \in Int /\ claims[z].priority = config[o].priority
    BY <1>2, <1>4, <1>6, <1>8, <1>12
  <2>4. \A q \in C : config[q].priority <= config[o].priority
    BY <1>6, <1>8, <1>12
  <2>5. \A q \in C : config[q].priority \in Int
    BY <1>2, <1>4
  <2>6. C1 = C \cup {p} /\ C1 # {}
    BY <1>5, <1>12
  <2>7. CASE config[p].priority > claims[z].priority
    <3>1. claims'[z] = Claim(p)
      BY <1>1, <1>12, <2>7 DEF Claimed
    <3>2. T1 = {p}
      BY <1>2, <1>7, <2>3, <2>4, <2>5, <2>6, <2>7
    <3>. QED
      BY <1>3, <2>6, <3>1, <3>2 DEF Claim
  <2>8. CASE config[p].priority = claims[z].priority
    <3>1. T1 = T \cup {p}
      BY <1>2, <1>6, <1>7, <2>3, <2>4, <2>5, <2>6, <2>8
    <3>2. \A q \in T1 : duty[q] \in Int
      BY <1>3, <1>4, <1>6, <3>1
    <3>3. CASE duty[p] > claims[z].target
      <4>1. claims'[z] = [claims[z] EXCEPT !.target = duty[p]]
        BY <1>1, <1>2, <1>12, <2>1, <2>8, <3>3 DEF Claimed, IsFree
      <4>2. /\ claims'[z].owner = o /\ claims'[z].priority = claims[z].priority
            /\ claims'[z].target = duty[p]
        BY <2>2, <4>1 DEF ClaimType
      <4>. QED
        BY <1>8, <1>12, <2>1, <2>3, <2>6, <3>1, <3>2, <3>3, <4>2
    <3>4. CASE ~(duty[p] > claims[z].target)
      <4>1. claims'[z] = claims[z]
        BY <1>1, <1>2, <1>12, <2>1, <2>8, <3>4 DEF Claimed, IsFree
      <4>2. duty[p] <= claims[z].target
        BY <1>3, <2>1, <3>4
      <4>. QED
        BY <1>8, <1>12, <2>6, <3>1, <4>1, <4>2
    <3>. QED
      BY <3>3, <3>4
  <2>9. CASE config[p].priority < claims[z].priority
    <3>1. claims'[z] = claims[z]
      BY <1>1, <1>2, <1>12, <2>1, <2>3, <2>9 DEF Claimed, IsFree
    <3>2. T1 = T
      BY <1>2, <1>6, <1>7, <2>3, <2>4, <2>5, <2>6, <2>9
    <3>. QED
      BY <1>8, <1>12, <2>6, <3>1, <3>2
  <2>. QED
    BY <1>2, <2>3, <2>7, <2>8, <2>9
<1>. QED
  BY <1>10, <1>11, <1>12

THEOREM IInvInductive == Spec => []IInv
<1>1. Init => IInv
  BY DEF Init, IInv, TypeOK, ClaimOK, Claimants
<1>2. IInv /\ [Next]_vars => IInv'
  <2>. SUFFICES ASSUME IInv, [Next]_vars PROVE IInv'
    OBVIOUS
  <2>1. TypeOK'
    BY TypeStep DEF IInv
  <2>2. CASE UNCHANGED vars
    BY <2>1, <2>2 DEF IInv, ClaimOK, vars
  <2>3. ASSUME NEW p \in Profile, Take(p) PROVE IInv'
    BY <2>1, <2>3, ClaimStep DEF IInv
  <2>. QED
    BY <2>2, <2>3 DEF Next
<1>. QED
  BY <1>1, <1>2, PTL DEF Spec

\* The loop's maps hold duties, priorities and profiles of the cycle.
THEOREM TypeCorrect == Spec => []TypeOK
BY IInvInductive, PTL DEF IInv

\* After any part of the loop, and so at its end, every zone has the highest
\* duty among the highest-priority profiles that list it.
THEOREM TargetsCorrect == Spec => []TargetsAreBest
<1>1. IInv => TargetsAreBest
  <2>. SUFFICES ASSUME IInv, NEW z \in Zone, Claimants(config, done, z) # {}
                PROVE  claims[z].target = Target(config, done, duty, z)
    BY DEF TargetsAreBest, IInv, ClaimOK
  <2>. DEFINE T == TopClaimants(config, done, z)
              S == {duty[p] : p \in T}
  <2>1. /\ \E p \in T : claims[z].target = duty[p]
        /\ \A p \in T : duty[p] <= claims[z].target
    BY DEF IInv, ClaimOK
  <2>2. S \in SUBSET Int
    BY Numbers DEF IInv
  <2>3. claims[z].target \in S /\ \A x \in S : x <= claims[z].target
    BY <2>1
  <2>4. Max(S) = claims[z].target
    BY <2>2, <2>3, MaxIsTop
  <2>. QED
    BY <2>4 DEF Target
<1>. QED
  BY <1>1, IInvInductive, PTL

\* The profile that governs a zone's timing is one of those.
THEOREM OwnerCorrect == Spec => []OwnerIsTop
<1>1. IInv => OwnerIsTop
  BY DEF IInv, ClaimOK, OwnerIsTop
<1>. QED
  BY <1>1, IInvInductive, PTL
=============================================================================
