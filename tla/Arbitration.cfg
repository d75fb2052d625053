SPECIFICATION Spec
CONSTANTS
    p1 = p1
    p2 = p2
    p3 = p3
    z1 = z1
    z2 = z2
    Profile <- MCProfile
    Zone <- MCZone
    Priority <- MCPriority
    Duty <- MCDuty
SYMMETRY MCSymmetry
INVARIANTS
    TypeOK
    TargetsAreBest
    OwnerIsTop
\* The loop ends when every profile has been through it.
CHECK_DEADLOCK FALSE
