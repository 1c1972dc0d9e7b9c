SPECIFICATION ObjectsSpec
CONSTANTS
    Panes = {p1}
    Controls = {c1}
    Channels = {m1, m2}
    SourceIds = {1, 2}
    NodeIds = {1}
    MaxSources = 2
    RetainLimit = 1
    MaxCreations = 2
    MaxTxns = 1
    MaxWaits = 1
    MaxMutations = 1
    Absent = Absent
INVARIANTS NoProducerForClosedPane SceneIsClosed RetainedIsSum
SYMMETRY Interchangeable
CHECK_DEADLOCK FALSE
