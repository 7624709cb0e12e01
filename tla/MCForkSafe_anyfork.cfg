\* The parent forks and registers whenever it likes.
SPECIFICATION Spec
CONSTANTS
    p0 = p0  p1 = p1  t1 = t1  t2 = t2  t3 = t3
    Process = {p0, p1}
    Root = p0
    Thread <- MCThread
    Home <- MCHome
    Instance = {i1, i2, i3}
    Context = {c1}
    None = None
    NoArgs = NoArgs
    MaxFailures = 1
    Allowed = {"fork_after_eval", "reregister"}
CHECK_DEADLOCK FALSE
INVARIANTS TypeOK OneLiveBuildPerProcess NothingLeaks HandedIsInitialized EnsureProtocol
PROPERTIES RealIsStable ShutdownMissesOnlyARace ImplementsCell
