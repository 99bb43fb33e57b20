SPECIFICATION Spec
CONSTANTS
    N = 3
    Procs = {p1, p2}
    Kinds = {"plan", "apply", "build", "lock"}
    Torn = Torn
    Absent = Absent
    Rollback = Rollback
    MaxOps = 4
    MaxPlans = 2
    MaxFaults = 2
    MaxCrashes = 1
SYMMETRY Symmetry
INVARIANTS
    AppliesNeverTear
    AppliedOrRestored
    CrashLeavesAPrefix
    StampedBuildIsOfThisGraph
CHECK_DEADLOCK FALSE
