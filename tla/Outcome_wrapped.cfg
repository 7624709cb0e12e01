SPECIFICATION OutcomeSpec
CONSTANTS
    Entity = {"e1"}
    OutcomeBackend = {"statsig", "growthbook", "inhouse"}
    Wrapped = TRUE
    MaxTries = 1
    MaxFlagEdits = 0
INVARIANT TrackingBackendReceives
CHECK_DEADLOCK FALSE
