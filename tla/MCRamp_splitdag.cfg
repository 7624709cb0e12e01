\* Two tasks of one DAG.
SPECIFICATION Spec
CONSTANTS
    d1 = d1  d2 = d2  e1 = e1  e2 = e2  e3 = e3  f1 = f1  f2 = f2  layer1 = layer1
    Entity = {e1, e2}
    Dag = {d1, d2}
    DagOf <- MCDagOf
    Flag = {f1}
    Layer = {}
    LayerOf <- MCLayerOf
    None = None
    Buckets = 4
    Arms = 2
    Rollouts <- MCRollouts
    WeightLists <- MCWeightLists
    SegmentLists <- MCSegmentLists
INVARIANT DagIsWhole
