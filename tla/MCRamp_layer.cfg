\* Every hash of two entities into three buckets, every way to ramp.
SPECIFICATION Spec
CONSTANTS
    d1 = d1  d2 = d2  e1 = e1  e2 = e2  e3 = e3  f1 = f1  f2 = f2  layer1 = layer1
    Entity = {e1, e3}
    Dag = {d1, d2}
    DagOf <- MCDagOf
    Flag = {f1, f2}
    Layer = {layer1}
    LayerOf <- MCLayerOf
    None = None
    Buckets = 3
    Arms = 2
    Rollouts <- MCRollouts
    WeightLists <- MCWeightLists
    SegmentLists <- MCSegmentLists
INVARIANTS TypeOK LayerRandomizesTogether EveryArmGetsItsWeight
PROPERTIES RampsNest FirstArmIsSticky
