\* Two programs that share a repository, two sessions; every fault.
CONSTANTS
    Proc = {p1, p2}
    Session = {s1, s2}
    LockFile <- Files
    LockPath <- SamePaths
    OnS3 = OnS3
    Free = Free
    Stale = Stale
    Setting = {o1, o2}
    Default = o1
    MaxId = 2
    MaxEdits = 2
    Faults <- AllFaults
CHECK_DEADLOCK FALSE
SYMMETRY Symmetry
SPECIFICATION Spec
INVARIANTS TypeOK Exclusive LocksReturned SavedAtRest SettingKept AutoIdsFree
PROPERTIES VanishesOnlyByPurge
