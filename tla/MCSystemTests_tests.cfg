SPECIFICATION Spec
CONSTANTS
    Test = {"drivers", "canary", "outcome", "rollup", "case_study"}
    inDag = inDag
    outDag = outDag
    NoRow = NoRow
    Driver = {"kill_switch", "real_data_flow", "matrix", "gates_listener", "ab_experiment", "run_all_backends", "run_use_cases"}
    MaxOutages = 2
    MaxAttempts = 2
    d1 = d1
    d2 = d2
    d3 = d3
    d4 = d4
    Dag = {d1, d2, d3, d4}
    Bucket <- MCBucket
    MaxPolls = 1
    MaxFlagdOutages = 2
    Entity = {"e1", "e2"}
    OutcomeBackend = {"flagd", "statsig", "growthbook", "inhouse"}
    Wrapped = FALSE
    MaxTries = 2
    MaxFlagEdits = 1
    Day = {1, 2}
    Amount = {1, 2}
    MaxOrders = 3
    Rollout = {50, 100}
    MaxStarts = 2
    r1 = r1
    r2 = r2
    Region = {r1, r2}
    RegionBucket <- MCRegionBucket
    Shard <- MCShard
INVARIANTS
    EveryCellIsItsRuns
    QuietRunPasses
    ExposureFromLive
    RoutedTasksRan
    OutcomesCarryTheirGroup
    MetricStillLands
    ReadoutIsHonest
    RollupsAgree
    SetupIsIdempotent
    NoRegionLeavesV2
CHECK_DEADLOCK FALSE
