\* The parent forks before it evaluates a flag, and registers once; a build
\* may raise.
SPECIFICATION FairSpec
CONSTANTS
    p0 = p0  p1 = p1  t1 = t1  t2 = t2  t3 = t3
    Process = {p0, p1}
    Root = p0
    Thread <- MCThread
    Home <- MCHome
    Instance = {i1, i2, i3}
    Context = {c1}
    None = None
    NoArgs = NoArgs
    MaxFailures = 1
    Allowed = {}
CHECK_DEADLOCK FALSE
INVARIANTS UsesOwnInstance ContextReachesReal
PROPERTY EvaluationsFinish
