\* Two edits at any moment between parse, run and record.
SPECIFICATION ExposureSpec
CONSTANTS
    plain = plain
    pool = pool  queue = queue  weight = weight
    fpool = fpool  fqueue = fqueue  fweight = fweight
    default = default  one = one
    Task = {plain}
    Flag = {fpool, fqueue, fweight}
    Attr = {pool, queue, weight}
    Parser = {w1}
    Run = {r1}
    StringValue = {canary}
    NumberValue = {fifty}
    Unset = Unset
    None = None
    Authored <- MCAuthored
    Writable <- MCWritable
    Dimensions <- MCDimensions
    ExposureFlags <- MCExposureFlags
    BuiltIns = 3
    MaxEdits = 2
CHECK_DEADLOCK FALSE
INVARIANT SteadyRecordIsRight
