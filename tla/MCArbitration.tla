---------------------------- MODULE MCArbitration ----------------------------
(* Three profiles, enough for an outranked, an equal and a winning one, on *)
(* two zones, with every choice of priorities, zone lists and duties.      *)
EXTENDS Arbitration, TLC

CONSTANTS p1, p2, p3, z1, z2

MCProfile == {p1, p2, p3}
MCZone == {z1, z2}
MCPriority == {1, 2}
MCDuty == {0, 40, 100}
MCSymmetry == Permutations(MCProfile) \cup Permutations(MCZone)
=============================================================================
