CONSTANTS
    m1 = m1
    m2 = m2
    f1 = f1
    Replica = {r1, r2}
    Zone = {1, 2}
    Managed = {m1, m2}
    Foreign = {f1}
    Wants <- MCWants
    ZoneOf <- MCZoneOf
    Free = Free
    Dead = Dead
    MaxOrphans = 1
SPECIFICATION FairSpec
INVARIANT TypeOK
PROPERTIES ForeignIsKept Converges
