\* Three sensors in one process that may raise, crash or start anew.
SPECIFICATION FairSensorSpec
CONSTANTS
    c1 = c1  c2 = c2  s1 = s1  s2 = s2  s3 = s3
    Conn = {c1, c2}
    ConnOf <- MCConnOf
    Expected <- MCExpected
    Bootstrap = Bootstrap
    Unknown = Unknown
    None = None
    Caller = {s1, s2, s3}
    Instance = {i1, i2, i3}
    MaxFailures = 1
    MaxEdits = 1
CHECK_DEADLOCK FALSE
INVARIANTS TypeOK OwnProviderAnswers NothingAbandoned RegistrationProtocol
PROPERTIES PassesOnlyWhenOn SensorPasses
