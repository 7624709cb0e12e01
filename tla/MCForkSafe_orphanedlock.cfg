\* A fork while another thread of the parent builds.
SPECIFICATION FairSpec
CONSTANTS
    p0 = p0  p1 = p1  t1 = t1  t2 = t2  t3 = t3
    Process = {p0, p1}
    Root = p0
    Thread <- MCThread
    Home <- MCHome
    Instance = {i1, i2}
    Context = {c1}
    None = None
    NoArgs = NoArgs
    MaxFailures = 0
    Allowed = {"fork_after_eval"}
CHECK_DEADLOCK FALSE
PROPERTY EvaluationsFinish
