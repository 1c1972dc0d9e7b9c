SPECIFICATION LiveSpec
CONSTANTS
    MaxPending = 2
    MaxProbes = 3
    MaxRequests = 3
    MaxBatch = 2
    None = None
INVARIANTS HonestNeverClosed RequestsAccounted
CHECK_DEADLOCK FALSE
PROPERTIES WaitEnds SilentIsClosed
