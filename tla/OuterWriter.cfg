SPECIFICATION FlowingSpec
CONSTANTS
    WriterQueue = 2
    MaxWrites = 3
    MaxGrants = 2
    MaxBarriers = 2
    None = None
INVARIANTS BarrierCovers
PROPERTIES WorkerReturns WriterExits
CHECK_DEADLOCK FALSE
