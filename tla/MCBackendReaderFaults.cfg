CONSTANTS
    p1 = p1
    p2 = p2
    b1 = b1
    b2 = b2
    zx = zx
    zy = zy
    Global = Global
    Members <- MCMembers
    Zones <- MCZones
    ZoneOf <- MCZoneOf
    MemberZone <- MCMemberZone
    MaxRuleEdits = 2
    Backends <- MCOneBackend
    MaxTime = 1
    Retention = 1
    Range2Min = 1
    MaxFaults = 1
SPECIFICATION Spec
PROPERTY LatestNeverRegresses
