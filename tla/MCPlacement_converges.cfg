\* Two edits, two parsers, a mapped task and a setter that raises.
SPECIFICATION FairSpec
CONSTANTS
    plain = plain  mapped = mapped
    pool = pool  weight = weight
    fpool = fpool  fweight = fweight  fcustom = fcustom
    default = default  one = one
    Task = {plain, mapped}
    Flag = {fpool, fweight, fcustom}
    Attr = {pool, weight}
    Parser = {w1, w2}
    StringValue = {canary}
    NumberValue = {fifty}
    Unset = Unset
    None = None
    Authored <- MCAuthored
    Writable <- MCWritable
    Dimensions <- MCDimensions
    BuiltIns = 2
    MaxEdits = 2
CHECK_DEADLOCK FALSE
INVARIANTS TypeOK EveryAttributeExplained QuietPassIsExact
PROPERTY PlacementConverges
