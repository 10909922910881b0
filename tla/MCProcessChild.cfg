SPECIFICATION FairSpec
CONSTANTS
    Props = {p1, p2}
    None = None
    Absent = Absent
    InitialBackoff = 1
    MaxBackoff = 25
    ResetUptime = 5
    GracePeriod = 1
    SpawnTimes = {0, 25}
    Grandchildren = {"obeys", "ignores"}
    MaxEdits = 3
    MaxFailures = 1
INVARIANTS SentPropsAreOnTheirWay SpawnsAreSpaced
PROPERTIES ExitReachesTheGroup NoOrphanStays KeepsRunning PropsArrive
